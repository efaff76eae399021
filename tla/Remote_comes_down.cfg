\* Remote access is switched off, or a socket vanishes, while a box and a client connect from
\* addresses with room for one socket each.
SPECIFICATION RFairSpec
CONSTANTS
  Conn = {r1, c1}
  Registrars = {r1}
  Callers = {c1}
  Code = {k1, NoCode}
  ServerId = {box}
  Box = box
  Sid = {s1}
  Ip = {a1, a2}
  Signals = {"offer", "answer"}
  MaxConnsPerIP = 1
  MaxServers = 2
  MaxSessionsPerConn = 1
  MaxInbox = 1
  MaxOutbox = 1
  Peer = {p1}
  Handler = {h1}
  None = None
  NoCode = NoCode
  Spelling <- MCSpelling
  canonicalCode <- MCCanonicalCode
INVARIANTS RTypeOK OfferFindsSession
PROPERTIES ComesDown VanishedForgotten
CHECK_DEADLOCK FALSE
