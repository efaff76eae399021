\* Remote access is switched off and on again.
SPECIFICATION RSpec
CONSTANTS
  Conn = {r1, r2, c1}
  Registrars = {r1, r2}
  Callers = {c1}
  Code = {k1, NoCode}
  ServerId = {box}
  Box = box
  Sid = {s1}
  Ip = {a1}
  Signals = {"offer", "answer"}
  MaxConnsPerIP = 3
  MaxServers = 2
  MaxSessionsPerConn = 1
  MaxInbox = 2
  MaxOutbox = 1
  Peer = {p1, p2}
  Handler = {h1}
  None = None
  NoCode = NoCode
  Spelling <- MCSpelling
  canonicalCode <- MCCanonicalCode
INVARIANTS ServingIsRegistered
CHECK_DEADLOCK FALSE
