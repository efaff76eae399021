------------------------------- MODULE Broker -------------------------------
(***************************************************************************)
(* The coordination server's Hub (coordination/internal/broker/broker.go): *)
(* it registers home servers under their connection code, pairs clients    *)
(* with them and relays signaling messages inside a pair.                  *)
(*                                                                         *)
(* A Conn is one accepted WebSocket: it is opened once, its other end may  *)
(* vanish, and ServeWS then cleans it up.  ServeWS is one goroutine per    *)
(* socket: it reads a message, runs the handler's critical section under   *)
(* Hub.mu, and then, without the lock, makes the sends the handler owes    *)
(* (todo).  A send goes to a socket's buffer (inbox), which its other end  *)
(* reads when it likes.  The connect limiters can refuse at any moment     *)
(* here: what they count is Limiter's.                                     *)
(***************************************************************************)
EXTENDS Naturals, Sequences, FiniteSets

CONSTANTS
  Conn,               (* sockets *)
  Registrars,         (* sockets whose other end may send register *)
  Callers,            (* sockets whose other end may send connect *)
  Spelling, Code,     (* connection codes as typed, and as canonicalised *)
  NoCode,             (* the empty code: of a socket that has not registered, *)
                      (* and of a spelling without a letter or a digit *)
  canonicalCode,      (* [Spelling -> Code] *)
  ServerId, Sid, Ip,  (* home servers' ids, session ids, source addresses *)
  Signals,            (* kinds of relayed messages *)
  MaxConnsPerIP, MaxServers, MaxSessionsPerConn,
  MaxInbox,           (* messages a socket buffers before a send has to wait *)
  None

ASSUME BrokerAssumption ==
  /\ IsFiniteSet(Conn) /\ IsFiniteSet(Sid)
  /\ None \notin Conn \cup Code \cup ServerId \cup Sid \cup Ip
  /\ Registrars \subseteq Conn /\ Callers \subseteq Conn
  /\ NoCode \in Code /\ canonicalCode \in [Spelling -> Code]
  /\ Signals \cap {"registered", "paired", "error"} = {}
  /\ {MaxConnsPerIP, MaxServers, MaxSessionsPerConn, MaxInbox} \subseteq Nat \ {0}

VARIABLES
  st,        (* the socket: new, open, gone (other end vanished), closed *)
  ip,        (* conn.ip *)
  role,      (* conn.role *)
  code,      (* conn.code *)
  serverID,  (* conn.serverID *)
  count,     (* conn.sessions *)
  todo,      (* the sends the socket's ServeWS goroutine still has to make *)
  inbox,     (* messages sent to the socket and not yet read by its other end *)
  servers,   (* Hub.servers *)
  sessions,  (* Hub.sessions *)
  ipConns,   (* Hub.ipConns *)
  again      (* history: the socket has been registered more than once *)

registry == <<role, code, serverID, servers, again>>
pairing  == <<count, sessions>>
sockets  == <<st, ip, ipConns>>
vars == <<registry, pairing, sockets, todo, inbox>>

NoSession == [server |-> None, client |-> None]
Message(t, s) == [type |-> t, sid |-> s]
SendTo(c, m) == [to |-> c, msg |-> m]
Reply(c, t) == SendTo(c, Message(t, None))

Admitted == {c \in Conn : st[c] \in {"open", "gone"}}

\* ServeWS of c is in wsjson.Read and a message arrives.
Reading(c) == st[c] = "open" /\ todo[c] = <<>>

\* The handler is over but for these sends.
Owes(c, sends) == todo' = [todo EXCEPT ![c] = sends]

\* The handler returned an error: the sender is told.
Fail(c) == Owes(c, <<Reply(c, "error")>>)

Init ==
  /\ st = [c \in Conn |-> "new"]
  /\ ip = [c \in Conn |-> None]
  /\ role = [c \in Conn |-> "none"]
  /\ code = [c \in Conn |-> NoCode]
  /\ serverID = [c \in Conn |-> None]
  /\ count = [c \in Conn |-> 0]
  /\ todo = [c \in Conn |-> <<>>]
  /\ inbox = [c \in Conn |-> <<>>]
  /\ servers = [k \in Code |-> None]
  /\ sessions = [s \in Sid |-> NoSession]
  /\ ipConns = [a \in Ip |-> 0]
  /\ again = [c \in Conn |-> FALSE]

(***************************************************************************)
(* Sockets: admit, the other end vanishing, cleanup.                       *)
(***************************************************************************)

\* Mutant: the cap on sockets of an address is checked off by one.
RoomOrAt(a) == ipConns[a] <= MaxConnsPerIP

RoomFor(a) == ipConns[a] < MaxConnsPerIP

\* admit: the socket counts against its address.
Admit(c, a) ==
  /\ st[c] = "new"
  /\ RoomFor(a)
  /\ st' = [st EXCEPT ![c] = "open"]
  /\ ip' = [ip EXCEPT ![c] = a]
  /\ ipConns' = [ipConns EXCEPT ![a] = @ + 1]
  /\ UNCHANGED <<registry, pairing, todo, inbox>>

\* admit refuses: the socket is closed and never cleaned up.
Refuse(c, a) ==
  /\ st[c] = "new"
  /\ ~RoomFor(a)
  /\ st' = [st EXCEPT ![c] = "closed"]
  /\ UNCHANGED <<ip, ipConns, registry, pairing, todo, inbox>>

\* The other end closes, crashes, or stops answering pings: reads fail from
\* now on, sends may.
Vanish(c) ==
  /\ st[c] = "open"
  /\ st' = [st EXCEPT ![c] = "gone"]
  /\ inbox' = [inbox EXCEPT ![c] = <<>>]
  /\ UNCHANGED <<ip, ipConns, registry, pairing, todo>>

\* The other end reads a message.
Receive(c) ==
  /\ st[c] = "open"
  /\ inbox[c] # <<>>
  /\ inbox' = [inbox EXCEPT ![c] = Tail(@)]
  /\ UNCHANGED <<registry, pairing, sockets, todo>>

\* Mutant: cleanup takes only a socket that still has the role for registered.
UnregisteredByRole(c) ==
  [k \in Code |-> IF role[c] = "server" /\ k = code[c] /\ servers[k] = c THEN None ELSE servers[k]]

\* Mutant: cleanup deletes whatever is registered under the code.
UnregisteredAny(c) ==
  [k \in Code |-> IF k = code[c] /\ k # NoCode THEN None ELSE servers[k]]

\* cleanup deletes the socket's latest registration, if it is still its own; but
\* takes the empty code for none at all.
Unregistered(c) ==
  [k \in Code |-> IF k = code[c] /\ k # NoCode /\ servers[k] = c THEN None ELSE servers[k]]

\* Mutant: cleanup removes the sessions the socket initiated only.
WithoutClient(c) ==
  [s \in Sid |-> IF c = sessions[s].client THEN NoSession ELSE sessions[s]]

\* cleanup removes the sessions the socket is in.
Without(c) ==
  [s \in Sid |-> IF c \in {sessions[s].server, sessions[s].client}
                   THEN NoSession ELSE sessions[s]]

\* Mutant: cleanup forgets that the socket counted against its address.
StillCounted(c) == ipConns

\* cleanup takes the socket off its address's count.
Uncounted(c) == [ipConns EXCEPT ![ip[c]] = @ - 1]

\* cleanup, when ServeWS's read fails.
Cleanup(c) ==
  /\ st[c] = "gone"
  /\ todo[c] = <<>>
  /\ st' = [st EXCEPT ![c] = "closed"]
  /\ ipConns' = Uncounted(c)
  /\ servers' = Unregistered(c)
  /\ sessions' = Without(c)
  /\ UNCHANGED <<ip, role, code, serverID, again, count, todo, inbox>>

(***************************************************************************)
(* register.                                                               *)
(***************************************************************************)

\* Mutant: a code that is taken goes to whoever registers it last.
TakenNever(k, id, c) == FALSE

\* The code is held live under another server_id.
Taken(k, id, c) == servers[k] \notin {None, c} /\ serverID[servers[k]] # id

Full == Cardinality({k \in Code : servers[k] # None}) >= MaxServers

\* A socket that is a registered server registers no second code; one that has
\* connected since is no longer known as one.
CanRegister(c, k, id) == role[c] # "server" /\ ~Taken(k, id, c) /\ ~Full

Register(c, x, id) ==
  LET k == canonicalCode[x] IN
  /\ Reading(c) /\ c \in Registrars
  /\ CanRegister(c, k, id)
  /\ role' = [role EXCEPT ![c] = "server"]
  /\ code' = [code EXCEPT ![c] = k]
  /\ serverID' = [serverID EXCEPT ![c] = id]
  /\ servers' = [servers EXCEPT ![k] = c]
  /\ again' = [again EXCEPT ![c] = serverID[c] # None]
  /\ Owes(c, <<Reply(c, "registered")>>)
  /\ UNCHANGED <<pairing, sockets, inbox>>

RefuseRegister(c, x, id) ==
  /\ Reading(c) /\ c \in Registrars
  /\ ~CanRegister(c, canonicalCode[x], id)
  /\ Fail(c)
  /\ UNCHANGED <<registry, pairing, sockets, inbox>>

(***************************************************************************)
(* connect.                                                                *)
(***************************************************************************)

BelowCap(c) == count[c] < MaxSessionsPerConn

\* Mutant: only the client is told.
ClientOnly(server, c, s) == <<SendTo(c, Message("paired", s))>>

\* Both are told of the session, the server first.
PairedSends(server, c, s) ==
  <<SendTo(server, Message("paired", s)), SendTo(c, Message("paired", s))>>

\* Client and server are paired under a fresh session id; both are told.
Connect(c, x, s) ==
  LET server == servers[canonicalCode[x]] IN
  /\ Reading(c) /\ c \in Callers
  /\ server # None
  /\ BelowCap(c)
  /\ sessions[s] = NoSession
  /\ role' = [role EXCEPT ![c] = "client"]
  /\ count' = [count EXCEPT ![c] = @ + 1]
  /\ sessions' = [sessions EXCEPT ![s] = [server |-> server, client |-> c]]
  /\ Owes(c, PairedSends(server, c, s))
  /\ UNCHANGED <<code, serverID, servers, again, sockets, inbox>>

\* Throttled (at any moment), no such code, or too many sessions; also any
\* malformed message: the sender gets an error.
RefuseMessage(c) ==
  /\ Reading(c)
  /\ Fail(c)
  /\ UNCHANGED <<registry, pairing, sockets, inbox>>

(***************************************************************************)
(* relay, and the sends.                                                   *)
(***************************************************************************)

\* Mutant: the sender need not be a member of the session it names.
MemberAny(c, s) == sessions[s] # NoSession

Member(c, s) == c \in {sessions[s].server, sessions[s].client}

\* The session is looked up under the lock; the send comes after it.
Relay(c, t, s) ==
  /\ Reading(c)
  /\ Member(c, s)
  /\ Owes(c, <<SendTo(IF c = sessions[s].server THEN sessions[s].client
                                                ELSE sessions[s].server,
                      Message(t, s))>>)
  /\ UNCHANGED <<registry, pairing, sockets, inbox>>

\* The next send succeeds; to a socket whose other end vanished, it may seem to.
Send(c) ==
  /\ todo[c] # <<>>
  /\ LET to == Head(todo[c]).to IN
     \/ /\ st[to] = "open"
        /\ Len(inbox[to]) < MaxInbox
        /\ inbox' = [inbox EXCEPT ![to] = Append(@, Head(todo[c]).msg)]
     \/ /\ st[to] = "gone"
        /\ UNCHANGED inbox
  /\ Owes(c, Tail(todo[c]))
  /\ UNCHANGED <<registry, pairing, sockets>>

\* The next send fails: the handler returns the error and the sender is told,
\* unless it was that which failed.
SendFails(c) ==
  /\ todo[c] # <<>>
  /\ st[Head(todo[c]).to] # "open"
  /\ IF Head(todo[c]).msg.type = "error" THEN Owes(c, <<>>) ELSE Fail(c)
  /\ UNCHANGED <<registry, pairing, sockets, inbox>>

(***************************************************************************)
(* The specification.                                                      *)
(***************************************************************************)
Handle(c) ==
  \/ \E x \in Spelling, id \in ServerId : Register(c, x, id) \/ RefuseRegister(c, x, id)
  \/ \E x \in Spelling, s \in Sid : Connect(c, x, s)
  \/ \E t \in Signals, s \in Sid : Relay(c, t, s)
  \/ RefuseMessage(c)

Socket(c) ==
  \/ \E a \in Ip : Admit(c, a) \/ Refuse(c, a)
  \/ Vanish(c) \/ Receive(c) \/ Cleanup(c)

Next == \E c \in Conn : Socket(c) \/ Handle(c) \/ Send(c) \/ SendFails(c)

Spec == Init /\ [][Next]_vars

(***************************************************************************)
(* Invariants.                                                             *)
(***************************************************************************)
MessageType == {"registered", "paired", "error"} \cup Signals
Messages == [type : MessageType, sid : Sid \cup {None}]

\* Every variable has its type; counters stay within their caps.
TypeOK ==
  /\ st \in [Conn -> {"new", "open", "gone", "closed"}]
  /\ ip \in [Conn -> Ip \cup {None}]
  /\ role \in [Conn -> {"none", "server", "client"}]
  /\ code \in [Conn -> Code]
  /\ serverID \in [Conn -> ServerId \cup {None}]
  /\ count \in [Conn -> 0..MaxSessionsPerConn]
  /\ todo \in [Conn -> Seq([to : Conn, msg : Messages])]
  /\ inbox \in [Conn -> Seq(Messages)]
  /\ servers \in [Code -> Conn \cup {None}]
  /\ sessions \in [Sid -> [server : Conn \cup {None}, client : Conn \cup {None}]]
  /\ ipConns \in [Ip -> 0..MaxConnsPerIP]
  /\ again \in [Conn -> BOOLEAN]

\* What the cleanup of c does not find: what c registered before its latest
\* registration, and what it holds under the empty code.
Lingers(c, k) == k = NoCode \/ (again[c] /\ k # code[c])

\* A registration is of a socket that has not been cleaned up and whose cleanup
\* will remove it, whatever the socket did since: a dead home server stays in the
\* directory only if it connected and then registered another code, or under the
\* empty code (the code means to exclude the first, and does not).
RegistryLive ==
  \A k \in Code : servers[k] # None =>
    \/ servers[k] \in Admitted /\ code[servers[k]] = k
    \/ Lingers(servers[k], k)

\* The socket may have left a registration behind.
Leaves(c) == again[c] \/ code[c] = NoCode

\* A session joins two sockets that have not been cleaned up, although it is
\* looked up, used and torn down by three goroutines; only a registration that was
\* left behind makes a session with a dead home server.
SessionsLive ==
  \A s \in Sid : sessions[s] # NoSession =>
    /\ sessions[s].client \in Admitted
    /\ sessions[s].server \in Admitted \/ Leaves(sessions[s].server)

\* ipConns counts the admitted sockets of each address, whatever the order in
\* which they come and go, so the cap neither leaks nor locks an address out.
IpAccounted ==
  \A a \in Ip : ipConns[a] = Cardinality({c \in Admitted : ip[c] = a})

\* A client socket never holds more sessions than the cap.
SessionsCapped ==
  \A c \in Conn :
    Cardinality({s \in Sid : sessions[s].client = c}) <= MaxSessionsPerConn

\* A signaling message on its way goes to the sender's partner in the session
\* it names, or that session was torn down after the lookup by the cleanup of
\* its addressee: no third socket's message gets into a pairing.
RelayStaysInPair ==
  \A c \in Conn : todo[c] # <<>> =>
    LET send == Head(todo[c]) IN
    send.msg.type \in Signals =>
      \/ {c, send.to} = {sessions[send.msg.sid].server, sessions[send.msg.sid].client}
      \/ st[send.to] = "closed"

(***************************************************************************)
(* Action and liveness properties.                                         *)
(***************************************************************************)

\* While a code stays registered it stays bound to the server_id that first
\* registered it, through any number of reconnects and late cleanups: no other
\* socket can take it over, and its own holder passes it on only by registering
\* again (which the code does not exclude after a connect).
CodeBound ==
  [][\A k \in Code : servers[k] # None /\ servers'[k] # None =>
       \/ serverID'[servers'[k]] = serverID[servers[k]]
       \/ servers'[k] = servers[k] /\ again'[servers[k]]]_vars

\* A code becomes unregistered only in the cleanup of the socket that holds
\* it: the late cleanup of a socket that was replaced leaves the new one alone.
OnlyOwnerUnregisters ==
  [][\A k \in Code : servers[k] # None /\ servers'[k] = None =>
       st[servers[k]] = "gone" /\ st'[servers[k]] = "closed"]_vars

\* A socket whose other end vanished is eventually forgotten everywhere.
VanishedForgotten ==
  \A c \in Conn :
    st[c] = "gone" ~>
      /\ c \notin Admitted
      /\ \A k \in Code : servers[k] # c \/ Lingers(c, k)
      /\ \A s \in Sid : Leaves(c) \/ c \notin {sessions[s].server, sessions[s].client}
=============================================================================
