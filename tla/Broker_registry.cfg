\* Three sockets, each of which may register and connect: a home server, its
\* reconnection or a rival, a client, or one that is both.
SPECIFICATION Spec
CONSTANTS
  Conn = {c1, c2, c3}
  Registrars = {c1, c2, c3}
  Callers = {c1, c2, c3}
  Code = {k1, k2, NoCode}
  NoCode = NoCode
  ServerId = {id1, id2}
  Sid = {s1}
  Ip = {a1}
  Signals = {"offer"}
  MaxConnsPerIP = 2
  MaxServers = 2
  MaxSessionsPerConn = 1
  MaxInbox = 1
  None = None
  Spelling <- MCSpelling
  canonicalCode <- MCCanonicalCode
SYMMETRY Symmetry
INVARIANTS TypeOK RegistryLive SessionsLive IpAccounted RelayStaysInPair
PROPERTIES CodeBound OnlyOwnerUnregisters
CHECK_DEADLOCK FALSE
