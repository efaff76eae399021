\* Two settings handlers toggle remote access and rotate the code under three peers, one after
\* the other or at once; no socket can be dialled, so the peers stay where they have read the code.
SPECIFICATION RSpec
CONSTANTS
  Conn = {}
  Registrars = {}
  Callers = {}
  Code = {k1, k2, k3, NoCode}
  ServerId = {box}
  Box = box
  Sid = {s1}
  Ip = {a1, a2}
  Signals = {"offer", "answer"}
  MaxConnsPerIP = 1
  MaxServers = 1
  MaxSessionsPerConn = 1
  MaxInbox = 1
  MaxOutbox = 1
  Peer = {p1, p2, p3}
  Handler = {h1, h2}
  None = None
  NoCode = NoCode
  Spelling <- MCSpelling
  canonicalCode <- MCCanonicalCode
SYMMETRY Symmetry
INVARIANTS OnePeerRightCode PeerMatchesSetting
CHECK_DEADLOCK FALSE
