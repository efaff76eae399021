---------------------------- MODULE BrokerProofs ----------------------------
(***************************************************************************)
(* Proofs about Broker for any number of sockets, codes, home servers,     *)
(* sessions and addresses; any socket may register, connect, or do both in *)
(* any order.                                                              *)
(***************************************************************************)
EXTENDS Broker, FiniteSetTheorems, SequenceTheorems, TLAPS

(***************************************************************************)
(* The inductive invariant.                                                *)
(***************************************************************************)

\* An admitted socket has an address; a registration is of a socket that gave its
\* server_id, and under its latest code or an earlier one; a session has a server.
NamesInv ==
  /\ \A c \in Conn : c \in Admitted => ip[c] \in Ip
  /\ \A k \in Code : servers[k] # None =>
       /\ serverID[servers[k]] # None
       /\ code[servers[k]] = k \/ again[servers[k]]
  /\ \A s \in Sid : sessions[s] # NoSession => sessions[s].server \in Conn

\* A send of c, if a signaling message, goes to c's partner in the session it
\* names, among the sessions ss, or to a socket that is closed in ts.
Partnered(c, send, ss, ts) ==
  send.msg.type \in Signals =>
    \/ /\ send.msg.sid \in Sid
       /\ {c, send.to} = {ss[send.msg.sid].server, ss[send.msg.sid].client}
    \/ ts[send.to] = "closed"

\* A signaling message a socket still has to send goes to its partner.
RelayInv ==
  \A c \in Conn : \A i \in 1..Len(todo[c]) : Partnered(c, todo[c][i], sessions, st)

\* Nothing a send of b depends on is torn down but its addressee.
Kept(b) ==
  /\ \A d \in Conn : st[d] = "closed" => st'[d] = "closed"
  /\ \A s \in Sid : b \in {sessions[s].server, sessions[s].client} =>
       \/ sessions'[s] = sessions[s]
       \/ \A d \in Conn : {b, d} = {sessions[s].server, sessions[s].client} => st'[d] = "closed"

\* Only an admitted socket's goroutine owes sends.
OwesInv == \A c \in Conn : todo[c] # <<>> => c \in Admitted

\* The sockets admitted from an address, and the sessions of a client.
From(a) == {c \in Admitted : ip[c] = a}
SessionsOf(c) == {s \in Sid : sessions[s].client = c}

CappedInv == \A c \in Conn : Cardinality(SessionsOf(c)) <= count[c]

IInv ==
  /\ TypeOK
  /\ NamesInv
  /\ RegistryLive
  /\ SessionsLive
  /\ OwesInv
  /\ RelayInv
  /\ IpAccounted
  /\ CappedInv

Send1 == [to : Conn, msg : Messages]

(***************************************************************************)
(* Sequences of sends.                                                     *)
(***************************************************************************)

\* One send, and two, are a sequence of sends.
LEMMA SendsType ==
  ASSUME NEW x \in Send1, NEW y \in Send1
  PROVE  <<x>> \in Seq(Send1) /\ <<x, y>> \in Seq(Send1)
  OBVIOUS

\* A reply is a send that is not a signal.
LEMMA ReplyType ==
  ASSUME NEW c \in Conn, NEW t \in {"registered", "error"}
  PROVE  /\ Reply(c, t) \in Send1
         /\ Reply(c, t).msg.type \notin Signals
         /\ <<Reply(c, t)>> \in Seq(Send1)
  <1>1. Reply(c, t) = [to |-> c, msg |-> [type |-> t, sid |-> None]]
    BY DEF Reply, SendTo, Message
  <1>2. Reply(c, t) \in Send1
    BY <1>1 DEF Send1, Messages, MessageType
  <1>3. Reply(c, t).msg.type \notin Signals
    BY <1>1, BrokerAssumption
  <1>4. QED BY <1>2, <1>3, SendsType

\* The messages a pairing owes.
LEMMA PairedType ==
  ASSUME NEW c \in Conn, NEW d \in Conn, NEW s \in Sid
  PROVE  /\ PairedSends(d, c, s) \in Seq(Send1)
         /\ \A i \in 1..Len(PairedSends(d, c, s)) :
              PairedSends(d, c, s)[i].msg.type \notin Signals
  <1> DEFINE x == [to |-> d, msg |-> [type |-> "paired", sid |-> s]]
             y == [to |-> c, msg |-> [type |-> "paired", sid |-> s]]
  <1>1. PairedSends(d, c, s) = <<x, y>>
    BY DEF PairedSends, SendTo, Message
  <1>2. x \in Send1 /\ y \in Send1
    BY DEF Send1, Messages, MessageType
  <1>3. "paired" \notin Signals
    BY BrokerAssumption
  <1>4. QED BY <1>1, <1>2, <1>3, SendsType

\* What is owed after the first send.
LEMMA TailOwed ==
  ASSUME NEW q \in Seq(Send1), q # <<>>
  PROVE  /\ Tail(q) \in Seq(Send1)
         /\ Head(q) \in Send1
         /\ Head(q) = q[1] /\ 1 \in 1..Len(q)
         /\ \A i \in 1..Len(Tail(q)) : Tail(q)[i] = q[i + 1] /\ i + 1 \in 1..Len(q)
  <1>1. /\ Head(q) \in Send1 /\ Tail(q) \in Seq(Send1)
        /\ Len(Tail(q)) = Len(q) - 1
        /\ \A i \in 1..Len(Tail(q)) : Tail(q)[i] = q[i + 1]
    BY HeadTailProperties
  <1>2. Len(q) \in Nat \ {0}
    BY EmptySeq
  <1>3. QED BY <1>1, <1>2

(***************************************************************************)
(* Counting.                                                               *)
(***************************************************************************)

\* Sets of sockets and of session ids are finite.
LEMMA SetsFinite ==
  /\ \A S \in SUBSET Conn : IsFiniteSet(S) /\ Cardinality(S) \in Nat
  /\ \A S \in SUBSET Sid : IsFiniteSet(S) /\ Cardinality(S) \in Nat
  BY BrokerAssumption, FS_Subset, FS_CardinalityType

\* One member more or less, one in the count.
LEMMA CountPlus ==
  ASSUME NEW S, IsFiniteSet(S), NEW x, x \notin S
  PROVE  Cardinality(S \cup {x}) = Cardinality(S) + 1
  BY FS_AddElement

\* An element less makes the count one less.
LEMMA CountMinus ==
  ASSUME NEW S, IsFiniteSet(S), NEW x \in S
  PROVE  Cardinality(S \ {x}) = Cardinality(S) - 1 /\ Cardinality(S) \in Nat \ {0}
  <1>1. Cardinality(S \ {x}) = Cardinality(S) - 1
    BY FS_RemoveElement
  <1>2. IsFiniteSet(S \ {x}) /\ Cardinality(S \ {x}) \in Nat /\ Cardinality(S) \in Nat
    BY FS_RemoveElement, FS_CardinalityType
  <1>3. QED BY <1>1, <1>2

(***************************************************************************)
(* The initial states.                                                     *)
(***************************************************************************)

\* Every initial state satisfies the invariant.
LEMMA InitInv == Init => IInv
  <1> SUFFICES ASSUME Init PROVE IInv
    OBVIOUS
  <1> USE BrokerAssumption
  <1>1. Admitted = {}
    BY DEF Init, Admitted
  <1>2. TypeOK
    <2>1. NoSession \in [server : Conn \cup {None}, client : Conn \cup {None}]
      BY DEF NoSession
    <2>2. 0 \in 0..MaxSessionsPerConn /\ 0 \in 0..MaxConnsPerIP
      OBVIOUS
    <2>3. <<>> \in Seq(Send1) /\ <<>> \in Seq(Messages)
      OBVIOUS
    <2>4. QED BY <2>1, <2>2, <2>3 DEF Init, TypeOK, Send1
  <1>3. NamesInv /\ RegistryLive /\ OwesInv /\ RelayInv
    BY <1>1 DEF Init, NamesInv, RegistryLive, OwesInv, RelayInv
  <1>4. SessionsLive
    BY DEF Init, SessionsLive
  <1>5. IpAccounted
    BY <1>1, FS_EmptySet DEF Init, IpAccounted
  <1>6. CappedInv
    <2>1. ASSUME NEW c \in Conn PROVE SessionsOf(c) = {}
      BY DEF Init, SessionsOf, NoSession
    <2>2. Cardinality({}) = 0
      BY FS_EmptySet
    <2>3. ASSUME NEW c \in Conn PROVE count[c] = 0
      BY DEF Init
    <2>4. ASSUME NEW c \in Conn PROVE Cardinality(SessionsOf(c)) <= count[c]
      BY <2>1, <2>2, <2>3
    <2>5. QED BY <2>4 DEF CappedInv
  <1>7. QED BY <1>2, <1>3, <1>4, <1>5, <1>6 DEF IInv

(***************************************************************************)
(* Types.                                                                  *)
(***************************************************************************)

\* An admitted socket counts against its address.
LEMMA CountedOnce ==
  ASSUME IInv, NEW c \in Admitted
  PROVE  ipConns[ip[c]] \in 1..MaxConnsPerIP /\ ip[c] \in Ip
  <1>1. c \in Conn /\ ip[c] \in Ip
    BY DEF IInv, NamesInv, Admitted
  <1>2. c \in From(ip[c]) /\ From(ip[c]) \in SUBSET Conn
    BY DEF From, Admitted
  <1>3. Cardinality(From(ip[c])) \in Nat \ {0}
    BY <1>2, SetsFinite, CountMinus
  <1>4. ipConns[ip[c]] = Cardinality(From(ip[c]))
    BY <1>1 DEF IInv, IpAccounted, From
  <1>5. QED BY <1>1, <1>3, <1>4, BrokerAssumption DEF IInv, TypeOK

\* A handler that fails owes a send of the right type.
LEMMA FailType ==
  ASSUME TypeOK, NEW c \in Conn, Fail(c)
  PROVE  /\ todo' = [todo EXCEPT ![c] = <<Reply(c, "error")>>]
         /\ todo' \in [Conn -> Seq(Send1)]
  <1>1. todo' = [todo EXCEPT ![c] = <<Reply(c, "error")>>]
    BY DEF Fail, Owes
  <1>2. <<Reply(c, "error")>> \in Seq(Send1)
    BY ReplyType
  <1>3. QED BY <1>1, <1>2 DEF TypeOK, Send1

\* Every step keeps the types.
LEMMA TypeStep ==
  ASSUME IInv, [Next]_vars PROVE TypeOK'
  <1> USE BrokerAssumption
  <1> SUFFICES ASSUME TypeOK PROVE TypeOK'
    BY DEF IInv
  <1>1. ASSUME NEW c \in Conn, NEW a \in Ip, Admit(c, a) PROVE TypeOK'
    <2>1. st' \in [Conn -> {"new", "open", "gone", "closed"}] /\ ip' \in [Conn -> Ip \cup {None}]
      BY <1>1 DEF Admit, TypeOK
    <2>2. ipConns' \in [Ip -> 0..MaxConnsPerIP]
      BY <1>1 DEF Admit, RoomFor, TypeOK
    <2>3. QED BY <1>1, <2>1, <2>2 DEF Admit, TypeOK, registry, pairing
  <1>2. ASSUME NEW c \in Conn, NEW a \in Ip, Refuse(c, a) PROVE TypeOK'
    BY <1>2 DEF Refuse, TypeOK, registry, pairing
  <1>3. ASSUME NEW c \in Conn, Vanish(c) PROVE TypeOK'
    <2>1. st' \in [Conn -> {"new", "open", "gone", "closed"}]
      BY <1>3 DEF Vanish, TypeOK
    <2>2. <<>> \in Seq(Messages)
      OBVIOUS
    <2>3. inbox' \in [Conn -> Seq(Messages)]
      BY <1>3, <2>2 DEF Vanish, TypeOK
    <2>4. QED BY <1>3, <2>1, <2>3 DEF Vanish, TypeOK, registry, pairing
  <1>4. ASSUME NEW c \in Conn, Receive(c) PROVE TypeOK'
    <2>1. Tail(inbox[c]) \in Seq(Messages)
      BY <1>4, HeadTailProperties DEF Receive, TypeOK
    <2>2. QED BY <1>4, <2>1 DEF Receive, TypeOK, registry, pairing, sockets
  <1>5. ASSUME NEW c \in Conn, Cleanup(c) PROVE TypeOK'
    <2>1. ipConns[ip[c]] \in 1..MaxConnsPerIP /\ ip[c] \in Ip
      BY <1>5, CountedOnce DEF Cleanup, Admitted
    <2>2. ipConns' \in [Ip -> 0..MaxConnsPerIP]
      BY <1>5, <2>1 DEF Cleanup, Uncounted, TypeOK
    <2>3. servers' \in [Code -> Conn \cup {None}]
      BY <1>5 DEF Cleanup, Unregistered, TypeOK
    <2>4. sessions' \in [Sid -> [server : Conn \cup {None}, client : Conn \cup {None}]]
      BY <1>5 DEF Cleanup, Without, NoSession, TypeOK
    <2>5. QED BY <1>5, <2>2, <2>3, <2>4 DEF Cleanup, TypeOK
  <1>6. ASSUME NEW c \in Conn, NEW x \in Spelling, NEW id \in ServerId, Register(c, x, id)
        PROVE TypeOK'
    <2>1. canonicalCode[x] \in Code
      OBVIOUS
    <2>2. todo' \in [Conn -> Seq(Send1)]
      BY <1>6, ReplyType DEF Register, Owes, TypeOK, Send1
    <2>3. QED BY <1>6, <2>1, <2>2 DEF Register, TypeOK, pairing, sockets, Send1
  <1>7. ASSUME NEW c \in Conn, RefuseMessage(c) \/ \E x \in Spelling, id \in ServerId : RefuseRegister(c, x, id)
        PROVE TypeOK'
    <2>1. todo' \in [Conn -> Seq(Send1)] /\ UNCHANGED <<registry, pairing, sockets, inbox>>
      <3>1. Fail(c) /\ UNCHANGED <<registry, pairing, sockets, inbox>>
        BY <1>7 DEF RefuseMessage, RefuseRegister
      <3>2. QED BY <3>1, FailType
    <2>2. QED BY <2>1 DEF TypeOK, registry, pairing, sockets, Send1
  <1>8. ASSUME NEW c \in Conn, NEW x \in Spelling, NEW s \in Sid, Connect(c, x, s)
        PROVE TypeOK'
    <2> DEFINE d == servers[canonicalCode[x]]
    <2>1. d \in Conn
      BY <1>8 DEF Connect, TypeOK
    <2>2. todo' \in [Conn -> Seq(Send1)]
      BY <1>8, <2>1, PairedType DEF Connect, Owes, TypeOK, Send1
    <2>3. count' \in [Conn -> 0..MaxSessionsPerConn]
      BY <1>8 DEF Connect, BelowCap, TypeOK
    <2>4. sessions' \in [Sid -> [server : Conn \cup {None}, client : Conn \cup {None}]]
      BY <1>8, <2>1 DEF Connect, TypeOK
    <2>5. role' \in [Conn -> {"none", "server", "client"}]
      BY <1>8 DEF Connect, TypeOK
    <2>6. QED BY <1>8, <2>2, <2>3, <2>4, <2>5 DEF Connect, TypeOK, sockets, Send1
  <1>9. ASSUME NEW c \in Conn, NEW t \in Signals, NEW s \in Sid, Relay(c, t, s)
        PROVE TypeOK'
    <2> DEFINE to == IF c = sessions[s].server THEN sessions[s].client ELSE sessions[s].server
    <2>1. to \in Conn
      BY <1>9 DEF Relay, Member, Reading, IInv, TypeOK, SessionsLive, NamesInv, Admitted, NoSession
    <2>2. SendTo(to, Message(t, s)) \in Send1
      BY <2>1 DEF SendTo, Message, Send1, Messages, MessageType
    <2>3. todo' \in [Conn -> Seq(Send1)]
      BY <1>9, <2>2, SendsType DEF Relay, Owes, TypeOK, Send1
    <2>4. QED BY <1>9, <2>3 DEF Relay, TypeOK, registry, pairing, sockets, Send1
  <1>10. ASSUME NEW c \in Conn, Send(c) PROVE TypeOK'
    <2>1. /\ todo[c] \in Seq(Send1) /\ todo[c] # <<>>
      BY <1>10 DEF Send, TypeOK, Send1
    <2>2. Head(todo[c]) \in Send1 /\ Tail(todo[c]) \in Seq(Send1)
      BY <2>1, TailOwed
    <2>3. todo' \in [Conn -> Seq(Send1)]
      BY <1>10, <2>2 DEF Send, Owes, TypeOK, Send1
    <2>4. inbox' \in [Conn -> Seq(Messages)]
      <3>1. Head(todo[c]).to \in Conn /\ Head(todo[c]).msg \in Messages
        BY <2>2 DEF Send1
      <3>2. ASSUME NEW d \in Conn, NEW m \in Messages
            PROVE [inbox EXCEPT ![d] = Append(@, m)] \in [Conn -> Seq(Messages)]
        <4>1. Append(inbox[d], m) \in Seq(Messages)
          BY AppendProperties DEF TypeOK
        <4>2. QED BY <4>1 DEF TypeOK
      <3>3. inbox' = [inbox EXCEPT ![Head(todo[c]).to] = Append(@, Head(todo[c]).msg)]
            \/ inbox' = inbox
        BY <1>10 DEF Send
      <3>4. CASE inbox' = inbox
        BY <3>4 DEF TypeOK
      <3>5. CASE inbox' = [inbox EXCEPT ![Head(todo[c]).to] = Append(@, Head(todo[c]).msg)]
        BY <3>1, <3>2, <3>5
      <3>6. QED BY <3>3, <3>4, <3>5
    <2>5. QED BY <1>10, <2>3, <2>4 DEF Send, TypeOK, registry, pairing, sockets, Send1
  <1>11. ASSUME NEW c \in Conn, SendFails(c) PROVE TypeOK'
    <2>1. todo' \in [Conn -> Seq(Send1)]
      <3>1. CASE Fail(c)
        BY <3>1, FailType
      <3>2. CASE Owes(c, <<>>)
        <4>1. <<>> \in Seq(Send1)
          OBVIOUS
        <4>2. QED BY <3>2, <4>1 DEF Owes, TypeOK, Send1
      <3>3. QED BY <1>11, <3>1, <3>2 DEF SendFails
    <2>2. QED BY <1>11, <2>1 DEF SendFails, TypeOK, registry, pairing, sockets, Send1
  <1>12. CASE UNCHANGED vars
    BY <1>12 DEF TypeOK, vars, registry, pairing, sockets
  <1>13. QED
    BY <1>1, <1>2, <1>3, <1>4, <1>5, <1>6, <1>7, <1>8, <1>9, <1>10, <1>11, <1>12
    DEF Next, Socket, Handle

(***************************************************************************)
(* The registry and the sessions.                                          *)
(***************************************************************************)

\* What an action leaves alone keeps these parts of the invariant.
LEMMA FrameRegistry ==
  ASSUME IInv, UNCHANGED <<registry, pairing, ip>>, Admitted' = Admitted
  PROVE  NamesInv' /\ RegistryLive' /\ SessionsLive'
  BY DEF IInv, NamesInv, RegistryLive, SessionsLive, Lingers, Leaves, registry, pairing

\* Every step keeps registrations and sessions in order.
LEMMA RegistryStep ==
  ASSUME IInv, [Next]_vars
  PROVE  NamesInv' /\ RegistryLive' /\ SessionsLive'
  <1> USE BrokerAssumption
  <1>1. ASSUME NEW c \in Conn, NEW a \in Ip, Admit(c, a)
        PROVE NamesInv' /\ RegistryLive' /\ SessionsLive'
    <2>1. Admitted' = Admitted \cup {c}
      BY <1>1 DEF Admit, Admitted, IInv, TypeOK
    <2>2. UNCHANGED <<registry, pairing>> /\ ip' = [ip EXCEPT ![c] = a]
      BY <1>1 DEF Admit
    <2>3. NamesInv'
      BY <2>1, <2>2 DEF IInv, TypeOK, NamesInv, registry, pairing
    <2>4. RegistryLive'
      BY <2>1, <2>2 DEF IInv, RegistryLive, Lingers, registry
    <2>5. SessionsLive'
      BY <2>1, <2>2 DEF IInv, SessionsLive, Leaves, registry, pairing
    <2>6. QED BY <2>3, <2>4, <2>5
  <1>2. ASSUME NEW c \in Conn, Vanish(c) \/ \E a \in Ip : Refuse(c, a)
        PROVE NamesInv' /\ RegistryLive' /\ SessionsLive'
    <2>1. Admitted' = Admitted
      BY <1>2 DEF Refuse, Vanish, Admitted, IInv, TypeOK
    <2>2. UNCHANGED <<registry, pairing, ip>>
      BY <1>2 DEF Refuse, Vanish
    <2>3. QED BY <2>1, <2>2, FrameRegistry
  <1>3. ASSUME NEW c \in Conn, Cleanup(c) PROVE NamesInv' /\ RegistryLive' /\ SessionsLive'
    <2>1. Admitted' = Admitted \ {c}
      BY <1>3 DEF Cleanup, Admitted, IInv, TypeOK
    <2>2. /\ UNCHANGED <<ip, code, serverID, again>>
          /\ servers' = Unregistered(c) /\ sessions' = Without(c)
      BY <1>3 DEF Cleanup
    <2>3. ASSUME NEW k \in Code, servers'[k] # None
          PROVE servers'[k] = servers[k] /\ ~(k = code[c] /\ k # NoCode /\ servers[k] = c)
      BY <2>2, <2>3 DEF Unregistered
    <2>4. ASSUME NEW s \in Sid, sessions'[s] # NoSession
          PROVE sessions'[s] = sessions[s] /\ c \notin {sessions[s].server, sessions[s].client}
      BY <2>2, <2>4 DEF Without
    <2>5. NamesInv'
      BY <2>1, <2>2, <2>3, <2>4 DEF IInv, NamesInv
    <2>6. RegistryLive'
      <3> SUFFICES ASSUME NEW k \in Code, servers'[k] # None
                   PROVE \/ servers'[k] \in Admitted' /\ code'[servers'[k]] = k
                         \/ k = NoCode \/ (again'[servers'[k]] /\ k # code'[servers'[k]])
        BY DEF RegistryLive, Lingers
      <3>1. \/ servers[k] \in Admitted /\ code[servers[k]] = k
            \/ Lingers(servers[k], k)
        BY <2>3 DEF IInv, RegistryLive
      <3>2. QED BY <2>1, <2>2, <2>3, <3>1 DEF Lingers
    <2>7. SessionsLive'
      BY <2>1, <2>2, <2>4 DEF IInv, SessionsLive, Leaves
    <2>8. QED BY <2>5, <2>6, <2>7
  <1>4. ASSUME NEW c \in Conn, NEW x \in Spelling, NEW id \in ServerId, Register(c, x, id)
        PROVE NamesInv' /\ RegistryLive' /\ SessionsLive'
    <2> DEFINE k == canonicalCode[x]
    <2>1. Admitted' = Admitted /\ c \in Admitted
      BY <1>4 DEF Register, Reading, Admitted, sockets
    <2>2. /\ code' = [code EXCEPT ![c] = k] /\ serverID' = [serverID EXCEPT ![c] = id]
          /\ servers' = [servers EXCEPT ![k] = c]
          /\ again' = [again EXCEPT ![c] = serverID[c] # None]
          /\ sessions' = sessions /\ ip' = ip /\ k \in Code
      BY <1>4 DEF Register, pairing, sockets
    <2>3. ASSUME NEW j \in Code, j # k, servers[j] = c
          PROVE again'[c]
      BY <2>2, <2>3 DEF IInv, NamesInv, TypeOK
    <2>4. NamesInv'
      <3>1. ASSUME NEW j \in Code, servers'[j] # None
            PROVE serverID'[servers'[j]] # None /\ (code'[servers'[j]] = j \/ again'[servers'[j]])
        <4>1. CASE j = k
          BY <2>2, <4>1 DEF IInv, TypeOK
        <4>2. CASE j # k
          BY <2>2, <2>3, <3>1, <4>2 DEF IInv, TypeOK, NamesInv
        <4>3. QED BY <4>1, <4>2
      <3>2. QED BY <2>1, <2>2, <3>1 DEF IInv, NamesInv
    <2>5. RegistryLive'
      <3> SUFFICES ASSUME NEW j \in Code, servers'[j] # None
                   PROVE \/ servers'[j] \in Admitted' /\ code'[servers'[j]] = j
                         \/ j = NoCode \/ (again'[servers'[j]] /\ j # code'[servers'[j]])
        BY DEF RegistryLive, Lingers
      <3>1. CASE j = k
        BY <2>1, <2>2, <3>1 DEF IInv, TypeOK
      <3>2. CASE j # k
        <4>1. servers'[j] = servers[j] /\ servers[j] \in Conn
          BY <2>2, <3>2 DEF IInv, TypeOK
        <4>2. CASE servers[j] = c
          BY <2>2, <2>3, <3>2, <4>1, <4>2 DEF Lingers, IInv, TypeOK
        <4>3. CASE servers[j] # c
          <5>1. /\ code'[servers[j]] = code[servers[j]]
                /\ again'[servers[j]] = again[servers[j]]
            BY <2>2, <4>1, <4>3 DEF IInv, TypeOK
          <5>2. \/ servers[j] \in Admitted /\ code[servers[j]] = j
                \/ Lingers(servers[j], j)
            BY <4>1 DEF IInv, RegistryLive
          <5>3. QED BY <2>1, <4>1, <5>1, <5>2 DEF Lingers
        <4>4. QED BY <4>2, <4>3
      <3>3. QED BY <3>1, <3>2
    <2>6. SessionsLive'
      <3> SUFFICES ASSUME NEW s \in Sid, sessions[s] # NoSession
                   PROVE /\ sessions[s].client \in Admitted
                         /\ sessions[s].server \in Admitted \/ Leaves(sessions[s].server)'
        BY <2>1, <2>2 DEF SessionsLive
      <3> DEFINE d == sessions[s].server
      <3>1. /\ sessions[s].client \in Admitted /\ d \in Conn
            /\ d \in Admitted \/ Leaves(d)
        BY DEF IInv, SessionsLive, NamesInv
      <3>2. CASE d = c
        BY <2>1, <3>1, <3>2
      <3>3. CASE d # c
        BY <2>2, <3>1, <3>3 DEF Leaves, IInv, TypeOK
      <3>4. QED BY <3>2, <3>3
    <2>7. QED BY <2>4, <2>5, <2>6
  <1>5. ASSUME NEW c \in Conn, NEW x \in Spelling, NEW s \in Sid, Connect(c, x, s)
        PROVE NamesInv' /\ RegistryLive' /\ SessionsLive'
    <2> DEFINE k == canonicalCode[x]
               d == servers[k]
    <2>1. Admitted' = Admitted /\ c \in Admitted
      BY <1>5 DEF Connect, Reading, Admitted, sockets
    <2>2. /\ UNCHANGED <<code, serverID, servers, again, ip>> /\ k \in Code /\ d # None
          /\ sessions' = [sessions EXCEPT ![s] = [server |-> d, client |-> c]]
      BY <1>5 DEF Connect, sockets
    <2>3. d \in Conn /\ (d \in Admitted \/ Leaves(d))
      BY <2>2 DEF IInv, TypeOK, NamesInv, RegistryLive, Lingers, Leaves
    <2>4. NamesInv'
      BY <2>1, <2>2, <2>3 DEF IInv, TypeOK, NamesInv
    <2>5. RegistryLive'
      BY <2>1, <2>2 DEF IInv, RegistryLive, Lingers
    <2>6. SessionsLive'
      BY <2>1, <2>2, <2>3 DEF IInv, TypeOK, SessionsLive, Leaves
    <2>7. QED BY <2>4, <2>5, <2>6
  <1>6. ASSUME UNCHANGED <<registry, pairing, sockets>>
        PROVE NamesInv' /\ RegistryLive' /\ SessionsLive'
    BY <1>6, FrameRegistry DEF sockets, Admitted
  <1>7. ASSUME NEW c \in Conn,
               \/ Receive(c) \/ RefuseMessage(c) \/ Send(c) \/ SendFails(c)
               \/ \E x \in Spelling, id \in ServerId : RefuseRegister(c, x, id)
               \/ \E t \in Signals, s \in Sid : Relay(c, t, s)
        PROVE UNCHANGED <<registry, pairing, sockets>>
    BY <1>7 DEF Receive, RefuseMessage, Send, SendFails, RefuseRegister, Relay
  <1>8. CASE UNCHANGED vars
    BY <1>6, <1>8 DEF vars
  <1>9. QED
    BY <1>1, <1>2, <1>3, <1>4, <1>5, <1>6, <1>7, <1>8 DEF Next, Socket, Handle

(***************************************************************************)
(* The sends that are owed.                                                *)
(***************************************************************************)

\* A send keeps its partner when nothing it depends on is torn down.
LEMMA SendKept ==
  ASSUME NEW c \in Conn, NEW send \in Send1, Kept(c), Partnered(c, send, sessions, st)
  PROVE  Partnered(c, send, sessions', st')
  <1>1. send.to \in Conn
    BY DEF Send1
  <1>2. CASE send.msg.type \notin Signals
    BY <1>2 DEF Partnered
  <1>3. CASE st[send.to] = "closed"
    BY <1>1, <1>3 DEF Partnered, Kept
  <1>4. CASE send.msg.type \in Signals /\ st[send.to] # "closed"
    <2> DEFINE s == send.msg.sid
    <2>1. s \in Sid /\ {c, send.to} = {sessions[s].server, sessions[s].client}
      BY <1>4 DEF Partnered
    <2>2. c \in {sessions[s].server, sessions[s].client}
      BY <2>1
    <2>3. CASE sessions'[s] = sessions[s]
      BY <2>1, <2>3 DEF Partnered
    <2>4. CASE st'[send.to] = "closed"
      BY <2>4 DEF Partnered
    <2>5. QED BY <1>1, <2>1, <2>2, <2>3, <2>4 DEF Kept
  <1>5. QED BY <1>2, <1>3, <1>4

\* What a socket owes stays partnered if it owes the same, or less.
LEMMA OwedKept ==
  ASSUME IInv, NEW c \in Conn, NEW i \in 1..Len(todo[c]), Kept(c)
  PROVE  Partnered(c, todo[c][i], sessions', st')
  <1>1. todo[c][i] \in Send1
    BY ElementOfSeq DEF IInv, TypeOK, Send1
  <1>2. Partnered(c, todo[c][i], sessions, st)
    BY DEF IInv, RelayInv
  <1>3. QED BY <1>1, <1>2, SendKept

\* A step that leaves what is owed keeps RelayInv.
LEMMA RelayFrame ==
  ASSUME IInv, todo' = todo, \A c \in Conn : todo[c] # <<>> => Kept(c)
  PROVE  RelayInv'
  <1>1. ASSUME NEW c \in Conn, NEW i \in 1..Len(todo[c])
        PROVE Partnered(c, todo[c][i], sessions', st')
    <2>1. todo[c] # <<>>
      OBVIOUS
    <2>2. QED BY <2>1, OwedKept
  <1>2. QED BY <1>1 DEF RelayInv

\* A step that changes what one socket owes, and no session in force.
LEMMA RelayOwes ==
  ASSUME IInv, NEW c \in Conn, NEW sends \in Seq(Send1),
         todo' = [todo EXCEPT ![c] = sends],
         st' = st,
         \A s \in Sid : sessions[s] # NoSession => sessions'[s] = sessions[s],
         \A i \in 1..Len(sends) : Partnered(c, sends[i], sessions', st')
  PROVE  RelayInv'
  <1>1. ASSUME NEW b \in Conn PROVE Kept(b)
    <2>1. ASSUME NEW s \in Sid, b \in {sessions[s].server, sessions[s].client}
          PROVE sessions[s] # NoSession
      BY <2>1, BrokerAssumption DEF NoSession
    <2>2. QED BY <2>1 DEF Kept
  <1>2. ASSUME NEW b \in Conn, NEW i \in 1..Len(todo'[b])
        PROVE Partnered(b, todo'[b][i], sessions', st')
    <2>1. CASE b = c
      BY <2>1 DEF IInv, TypeOK
    <2>2. CASE b # c
      <3>1. todo'[b] = todo[b]
        BY <2>2 DEF IInv, TypeOK
      <3>2. QED BY <1>1, <3>1, OwedKept
    <2>3. QED BY <2>1, <2>2
  <1>3. QED BY <1>2 DEF RelayInv

\* Sends that are no signals need no partner.
LEMMA RelaySilent ==
  ASSUME IInv, NEW c \in Conn, NEW sends \in Seq(Send1),
         todo' = [todo EXCEPT ![c] = sends],
         st' = st,
         \A s \in Sid : sessions[s] # NoSession => sessions'[s] = sessions[s],
         \A i \in 1..Len(sends) : sends[i].msg.type \notin Signals
  PROVE  RelayInv'
  <1>1. ASSUME NEW i \in 1..Len(sends) PROVE Partnered(c, sends[i], sessions', st')
    BY DEF Partnered
  <1>2. QED BY <1>1, RelayOwes

\* A single reply needs no partner.
LEMMA RelayReply ==
  ASSUME IInv, NEW c \in Conn, NEW t \in {"registered", "error"},
         todo' = [todo EXCEPT ![c] = <<Reply(c, t)>>],
         st' = st, sessions' = sessions
  PROVE  RelayInv'
  <1> DEFINE m == Reply(c, t)
  <1>1. m \in Send1 /\ m.msg.type \notin Signals /\ <<m>> \in Seq(Send1)
    BY ReplyType
  <1> HIDE DEF m
  <1>2. \A i \in 1..Len(<<m>>) : <<m>>[i].msg.type \notin Signals
    BY <1>1
  <1>3. todo' = [todo EXCEPT ![c] = <<m>>]
    BY DEF m
  <1>4. QED BY <1>1, <1>2, <1>3, RelaySilent

\* Every step keeps the sends that are owed in order.
LEMMA RelayStep ==
  ASSUME IInv, [Next]_vars PROVE RelayInv' /\ OwesInv'
  <1> USE BrokerAssumption
  <1>1. ASSUME NEW c \in Conn, NEW a \in Ip, Admit(c, a) \/ Refuse(c, a)
        PROVE RelayInv' /\ OwesInv'
    <2>1. /\ todo' = todo /\ sessions' = sessions
          /\ st[c] = "new" /\ \A d \in Conn : d # c => st'[d] = st[d]
      BY <1>1 DEF Admit, Refuse, pairing, IInv, TypeOK
    <2>2. RelayInv'
      <3>1. ASSUME NEW d \in Conn PROVE Kept(d)
        BY <2>1 DEF Kept
      <3>2. QED BY <2>1, <3>1, RelayFrame
    <2>3. OwesInv'
      BY <2>1 DEF OwesInv, IInv, Admitted
    <2>4. QED BY <2>2, <2>3
  <1>2. ASSUME NEW c \in Conn, Vanish(c) \/ Receive(c) PROVE RelayInv' /\ OwesInv'
    <2>1. /\ todo' = todo /\ sessions' = sessions
          /\ \A d \in Conn : st'[d] = st[d] \/ (st[d] = "open" /\ st'[d] = "gone")
      BY <1>2 DEF Vanish, Receive, pairing, sockets, IInv, TypeOK
    <2>2. RelayInv'
      <3>1. ASSUME NEW d \in Conn PROVE Kept(d)
        BY <2>1 DEF Kept
      <3>2. QED BY <2>1, <3>1, RelayFrame
    <2>3. OwesInv'
      BY <2>1 DEF OwesInv, IInv, Admitted
    <2>4. QED BY <2>2, <2>3
  <1>3. ASSUME NEW c \in Conn, Cleanup(c) PROVE RelayInv' /\ OwesInv'
    <2>1. /\ todo' = todo /\ todo[c] = <<>> /\ st' = [st EXCEPT ![c] = "closed"]
          /\ sessions' = Without(c)
      BY <1>3 DEF Cleanup
    <2>2. ASSUME NEW b \in Conn, todo[b] # <<>> PROVE Kept(b)
      <3>1. ASSUME NEW s \in Sid, sessions'[s] # sessions[s], NEW d \in Conn,
                   {b, d} = {sessions[s].server, sessions[s].client}
            PROVE st'[d] = "closed"
        <4>1. c \in {b, d}
          BY <2>1, <3>1 DEF Without
        <4>2. d = c
          BY <2>1, <2>2, <4>1
        <4>3. QED BY <2>1, <4>2 DEF IInv, TypeOK
      <3>2. \A d \in Conn : st[d] = "closed" => st'[d] = "closed"
        BY <2>1 DEF IInv, TypeOK
      <3>3. QED BY <3>1, <3>2 DEF Kept
    <2>3. RelayInv'
      BY <2>1, <2>2, RelayFrame
    <2>4. OwesInv'
      BY <2>1 DEF OwesInv, IInv, Admitted, TypeOK
    <2>5. QED BY <2>3, <2>4
  <1>4. ASSUME NEW c \in Conn, NEW x \in Spelling, NEW id \in ServerId, Register(c, x, id)
        PROVE RelayInv' /\ OwesInv'
    <2>1. /\ todo' = [todo EXCEPT ![c] = <<Reply(c, "registered")>>]
          /\ st' = st /\ sessions' = sessions /\ c \in Admitted
      BY <1>4 DEF Register, Owes, pairing, sockets, Reading, Admitted
    <2>2. RelayInv'
      BY <2>1, RelayReply
    <2>3. OwesInv'
      BY <2>1 DEF OwesInv, IInv, Admitted, TypeOK
    <2>4. QED BY <2>2, <2>3
  <1>5. ASSUME NEW c \in Conn, c \in Admitted, Fail(c), UNCHANGED <<pairing, sockets>>
        PROVE RelayInv' /\ OwesInv'
    <2>1. /\ todo' = [todo EXCEPT ![c] = <<Reply(c, "error")>>]
          /\ st' = st /\ sessions' = sessions
      BY <1>5 DEF Fail, Owes, pairing, sockets
    <2>2. RelayInv'
      BY <2>1, RelayReply
    <2>3. OwesInv'
      BY <1>5, <2>1 DEF OwesInv, IInv, Admitted, TypeOK
    <2>4. QED BY <2>2, <2>3
  <1>6. ASSUME NEW c \in Conn, NEW x \in Spelling, NEW s \in Sid, Connect(c, x, s)
        PROVE RelayInv' /\ OwesInv'
    <2> DEFINE d == servers[canonicalCode[x]]
    <2>1. /\ todo' = [todo EXCEPT ![c] = PairedSends(d, c, s)]
          /\ st' = st /\ c \in Admitted /\ d \in Conn
          /\ \A r \in Sid : sessions[r] # NoSession => sessions'[r] = sessions[r]
      BY <1>6 DEF Connect, Owes, sockets, Reading, Admitted, IInv, TypeOK
    <2>2. /\ PairedSends(d, c, s) \in Seq(Send1)
          /\ \A i \in 1..Len(PairedSends(d, c, s)) : PairedSends(d, c, s)[i].msg.type \notin Signals
      BY <2>1, PairedType
    <2>3. RelayInv'
      BY <2>1, <2>2, RelaySilent
    <2>4. OwesInv'
      BY <2>1 DEF OwesInv, IInv, Admitted, TypeOK
    <2>5. QED BY <2>3, <2>4
  <1>7. ASSUME NEW c \in Conn, NEW t \in Signals, NEW s \in Sid, Relay(c, t, s)
        PROVE RelayInv' /\ OwesInv'
    <2> DEFINE to == IF c = sessions[s].server THEN sessions[s].client ELSE sessions[s].server
               send == [to |-> to, msg |-> [type |-> t, sid |-> s]]
    <2>1. /\ todo' = [todo EXCEPT ![c] = <<send>>]
          /\ st' = st /\ sessions' = sessions /\ c \in Admitted
          /\ c \in {sessions[s].server, sessions[s].client}
      BY <1>7 DEF Relay, Member, Owes, SendTo, Message, pairing, sockets, Reading, Admitted
    <2>2. to \in Conn
      BY <2>1 DEF IInv, TypeOK, SessionsLive, NamesInv, Admitted, NoSession
    <2>3. send \in Send1
      BY <2>2 DEF Send1, Messages, MessageType
    <2>4. <<send>> \in Seq(Send1) /\ Len(<<send>>) = 1 /\ <<send>>[1] = send
      BY <2>3
    <2>5. {c, to} = {sessions'[s].server, sessions'[s].client}
      BY <2>1
    <2>6. RelayInv'
      <3>1. \A i \in 1..Len(<<send>>) : <<send>>[i] = send
        BY <2>4
      <3>2. Partnered(c, send, sessions', st')
        BY <2>5 DEF Partnered
      <3>3. \A i \in 1..Len(<<send>>) : Partnered(c, <<send>>[i], sessions', st')
        BY <3>1, <3>2
      <3> HIDE DEF send
      <3>4. QED BY <2>1, <2>4, <3>3, RelayOwes
    <2>7. OwesInv'
      BY <2>1 DEF OwesInv, IInv, Admitted, TypeOK
    <2>8. QED BY <2>6, <2>7
  <1>8. ASSUME NEW c \in Conn, todo[c] # <<>>, Owes(c, Tail(todo[c])),
               UNCHANGED <<pairing, sockets>>
        PROVE RelayInv' /\ OwesInv'
    <2>1. todo[c] \in Seq(Send1)
      BY DEF IInv, TypeOK, Send1
    <2>2. /\ todo' = [todo EXCEPT ![c] = Tail(todo[c])]
          /\ st' = st /\ sessions' = sessions
      BY <1>8 DEF Owes, pairing, sockets
    <2>3. /\ Tail(todo[c]) \in Seq(Send1)
          /\ \A i \in 1..Len(Tail(todo[c])) : Tail(todo[c])[i] = todo[c][i + 1] /\ i + 1 \in 1..Len(todo[c])
      BY <1>8, <2>1, TailOwed
    <2>4. RelayInv'
      <3>1. ASSUME NEW i \in 1..Len(Tail(todo[c]))
            PROVE Partnered(c, Tail(todo[c])[i], sessions', st')
        BY <2>2, <2>3 DEF IInv, RelayInv
      <3>2. QED BY <2>2, <2>3, <3>1, RelayOwes
    <2>5. OwesInv'
      BY <1>8, <2>2 DEF OwesInv, IInv, Admitted, TypeOK
    <2>6. QED BY <2>4, <2>5
  <1>9. ASSUME NEW c \in Conn, todo[c] # <<>>, Owes(c, <<>>), UNCHANGED <<pairing, sockets>>
        PROVE RelayInv' /\ OwesInv'
    <2>1. /\ todo' = [todo EXCEPT ![c] = <<>>] /\ st' = st /\ sessions' = sessions
          /\ <<>> \in Seq(Send1) /\ Len(<<>>) = 0
      BY <1>9 DEF Owes, pairing, sockets
    <2>2. RelayInv'
      <3>1. \A i \in 1..Len(<<>>) : <<>>[i].msg.type \notin Signals
        BY <2>1
      <3>2. \A s \in Sid : sessions[s] # NoSession => sessions'[s] = sessions[s]
        BY <2>1
      <3> DEFINE none == <<>>
      <3>3. /\ none \in Seq(Send1) /\ todo' = [todo EXCEPT ![c] = none] /\ st' = st
            /\ \A i \in 1..Len(none) : none[i].msg.type \notin Signals
        BY <2>1, <3>1
      <3> HIDE DEF none
      <3>4. QED BY <3>2, <3>3, RelaySilent
    <2>3. OwesInv'
      BY <2>1 DEF OwesInv, IInv, Admitted, TypeOK
    <2>4. QED BY <2>2, <2>3
  <1>10. ASSUME NEW c \in Conn,
                RefuseMessage(c) \/ \E x \in Spelling, id \in ServerId : RefuseRegister(c, x, id)
         PROVE RelayInv' /\ OwesInv'
    BY <1>5, <1>10 DEF RefuseMessage, RefuseRegister, Reading, Admitted
  <1>11. ASSUME NEW c \in Conn, Send(c) \/ SendFails(c) PROVE RelayInv' /\ OwesInv'
    <2>1. todo[c] # <<>> /\ UNCHANGED <<pairing, sockets>> /\ c \in Admitted
      BY <1>11 DEF Send, SendFails, IInv, OwesInv
    <2>2. Owes(c, Tail(todo[c])) \/ Owes(c, <<>>) \/ Fail(c)
      BY <1>11 DEF Send, SendFails
    <2>3. QED BY <1>5, <1>8, <1>9, <2>1, <2>2
  <1>12. CASE UNCHANGED vars
    <2>1. todo' = todo /\ st' = st /\ sessions' = sessions
      BY <1>12 DEF vars, pairing, sockets
    <2>2. RelayInv'
      <3>1. ASSUME NEW d \in Conn PROVE Kept(d)
        BY <2>1 DEF Kept
      <3>2. QED BY <2>1, <3>1, RelayFrame
    <2>3. QED BY <2>1, <2>2 DEF OwesInv, IInv, Admitted
  <1>13. QED
    BY <1>1, <1>2, <1>3, <1>4, <1>6, <1>7, <1>10, <1>11, <1>12 DEF Next, Socket, Handle

(***************************************************************************)
(* The counts.                                                             *)
(***************************************************************************)

\* Every step keeps the count of sockets per address.
LEMMA CountsStep ==
  ASSUME IInv, [Next]_vars PROVE IpAccounted'
  <1> USE BrokerAssumption
  <1>1. ASSUME UNCHANGED <<ip, ipConns>>, Admitted' = Admitted PROVE IpAccounted'
    BY <1>1 DEF IInv, IpAccounted
  <1>2. ASSUME NEW c \in Conn, NEW a \in Ip, Admit(c, a) PROVE IpAccounted'
    <2>1. Admitted' = Admitted \cup {c} /\ c \notin Admitted
      BY <1>2 DEF Admit, Admitted, IInv, TypeOK
    <2>2. ip' = [ip EXCEPT ![c] = a] /\ ipConns' = [ipConns EXCEPT ![a] = @ + 1]
      BY <1>2 DEF Admit
    <2>3. ASSUME NEW b \in Ip PROVE ipConns'[b] = Cardinality({d \in Admitted' : ip'[d] = b})
      <3>1. ipConns[b] = Cardinality(From(b)) /\ IsFiniteSet(From(b)) /\ c \notin From(b)
        BY <2>1, SetsFinite DEF IInv, IpAccounted, From, Admitted
      <3>2. CASE b = a
        <4>1. {d \in Admitted' : ip'[d] = b} = From(b) \cup {c}
          BY <2>1, <2>2, <3>2 DEF From, Admitted, IInv, TypeOK
        <4>2. ipConns'[b] = ipConns[b] + 1
          BY <2>2, <3>2 DEF IInv, TypeOK
        <4>3. QED BY <3>1, <4>1, <4>2, CountPlus
      <3>3. CASE b # a
        <4>1. {d \in Admitted' : ip'[d] = b} = From(b)
          BY <2>1, <2>2, <3>3 DEF From, Admitted, IInv, TypeOK
        <4>2. ipConns'[b] = ipConns[b]
          BY <2>2, <3>3 DEF IInv, TypeOK
        <4>3. QED BY <3>1, <4>1, <4>2
      <3>4. QED BY <3>2, <3>3
    <2>4. QED BY <2>3 DEF IpAccounted
  <1>3. ASSUME NEW c \in Conn, Cleanup(c) PROVE IpAccounted'
    <2>1. Admitted' = Admitted \ {c} /\ c \in Admitted
      BY <1>3 DEF Cleanup, Admitted, IInv, TypeOK
    <2>2. ip' = ip /\ ipConns' = [ipConns EXCEPT ![ip[c]] = @ - 1] /\ ip[c] \in Ip
      BY <1>3, <2>1, CountedOnce DEF Cleanup, Uncounted
    <2>3. ASSUME NEW b \in Ip PROVE ipConns'[b] = Cardinality({d \in Admitted' : ip'[d] = b})
      <3>1. ipConns[b] = Cardinality(From(b)) /\ IsFiniteSet(From(b))
        BY SetsFinite DEF IInv, IpAccounted, From, Admitted
      <3>2. CASE b = ip[c]
        <4>1. {d \in Admitted' : ip'[d] = b} = From(b) \ {c} /\ c \in From(b)
          BY <2>1, <2>2, <3>2 DEF From
        <4>2. ipConns'[b] = ipConns[b] - 1
          BY <2>2, <3>2 DEF IInv, TypeOK
        <4>3. QED BY <3>1, <4>1, <4>2, CountMinus
      <3>3. CASE b # ip[c]
        <4>1. {d \in Admitted' : ip'[d] = b} = From(b)
          BY <2>1, <2>2, <3>3 DEF From
        <4>2. ipConns'[b] = ipConns[b]
          BY <2>2, <3>3 DEF IInv, TypeOK
        <4>3. QED BY <3>1, <4>1, <4>2
      <3>4. QED BY <3>2, <3>3
    <2>4. QED BY <2>3 DEF IpAccounted
  <1>4. ASSUME NEW c \in Conn, NEW a \in Ip, Refuse(c, a) PROVE IpAccounted'
    <2>1. UNCHANGED <<ip, ipConns>> /\ Admitted' = Admitted
      BY <1>4 DEF Refuse, Admitted, IInv, TypeOK
    <2>2. QED BY <1>1, <2>1
  <1>5. ASSUME NEW c \in Conn, Vanish(c) PROVE IpAccounted'
    <2>1. UNCHANGED <<ip, ipConns>> /\ Admitted' = Admitted
      BY <1>5 DEF Vanish, Admitted, IInv, TypeOK
    <2>2. QED BY <1>1, <2>1
  <1>6. ASSUME UNCHANGED sockets PROVE IpAccounted'
    BY <1>1, <1>6 DEF sockets, Admitted
  <1>7. ASSUME NEW c \in Conn, Receive(c) \/ Handle(c) \/ Send(c) \/ SendFails(c)
        PROVE UNCHANGED sockets
    BY <1>7 DEF Receive, Handle, Register, RefuseRegister, Connect, Relay, RefuseMessage,
                Send, SendFails
  <1>8. QED
    BY <1>2, <1>3, <1>4, <1>5, <1>6, <1>7 DEF Next, Socket, vars

\* Every step keeps the bound on the sessions of a client.
LEMMA CappedStep ==
  ASSUME IInv, [Next]_vars PROVE CappedInv'
  <1> USE BrokerAssumption
  <1>1. ASSUME UNCHANGED pairing PROVE CappedInv'
    BY <1>1 DEF pairing, IInv, CappedInv, SessionsOf
  <1>2. ASSUME NEW c \in Conn, Cleanup(c) PROVE CappedInv'
    <2>1. ASSUME NEW b \in Conn PROVE Cardinality(SessionsOf(b)') <= count'[b]
      <3>1. SessionsOf(b)' \in SUBSET SessionsOf(b) /\ SessionsOf(b) \in SUBSET Sid
        BY <1>2 DEF Cleanup, Without, SessionsOf, NoSession
      <3>2. Cardinality(SessionsOf(b)') <= Cardinality(SessionsOf(b))
        BY <3>1, SetsFinite, FS_Subset
      <3>3. Cardinality(SessionsOf(b)') \in Nat /\ Cardinality(SessionsOf(b)) \in Nat
        BY <3>1, SetsFinite
      <3>4. Cardinality(SessionsOf(b)) <= count[b] /\ count'[b] = count[b] /\ count[b] \in Nat
        BY <1>2 DEF Cleanup, IInv, CappedInv, TypeOK
      <3>5. QED BY <3>2, <3>3, <3>4
    <2>2. QED BY <2>1 DEF CappedInv
  <1>3. ASSUME NEW c \in Conn, NEW x \in Spelling, NEW s \in Sid, Connect(c, x, s)
        PROVE CappedInv'
    <2>1. /\ sessions[s] = NoSession
          /\ sessions' = [sessions EXCEPT ![s] = [server |-> servers[canonicalCode[x]], client |-> c]]
          /\ count' = [count EXCEPT ![c] = @ + 1]
      BY <1>3 DEF Connect
    <2>2. ASSUME NEW b \in Conn PROVE Cardinality(SessionsOf(b)') <= count'[b]
      <3>1. /\ SessionsOf(b) \in SUBSET Sid /\ s \notin SessionsOf(b)
            /\ IsFiniteSet(SessionsOf(b)) /\ Cardinality(SessionsOf(b)) \in Nat
        BY <2>1, SetsFinite DEF SessionsOf, NoSession
      <3>2. Cardinality(SessionsOf(b)) <= count[b] /\ count[b] \in Nat
        BY DEF IInv, CappedInv, TypeOK
      <3>3. CASE b = c
        <4>1. SessionsOf(b)' = SessionsOf(b) \cup {s}
          BY <2>1, <3>3 DEF SessionsOf, IInv, TypeOK
        <4>2. count'[b] = count[b] + 1
          BY <2>1, <3>3 DEF IInv, TypeOK
        <4>3. Cardinality(SessionsOf(b)') = Cardinality(SessionsOf(b)) + 1
          BY <3>1, <4>1, CountPlus
        <4>4. QED BY <3>1, <3>2, <4>2, <4>3
      <3>4. CASE b # c
        <4>1. SessionsOf(b)' = SessionsOf(b)
          BY <2>1, <3>1, <3>4 DEF SessionsOf, IInv, TypeOK
        <4>2. count'[b] = count[b]
          BY <2>1, <3>4 DEF IInv, TypeOK
        <4>3. QED BY <3>2, <4>1, <4>2
      <3>5. QED BY <3>3, <3>4
    <2>3. QED BY <2>2 DEF CappedInv
  <1>4. ASSUME NEW c \in Conn,
               \/ Vanish(c) \/ Receive(c) \/ RefuseMessage(c) \/ Send(c) \/ SendFails(c)
               \/ \E a \in Ip : Admit(c, a) \/ Refuse(c, a)
               \/ \E x \in Spelling, id \in ServerId : Register(c, x, id) \/ RefuseRegister(c, x, id)
               \/ \E t \in Signals, s \in Sid : Relay(c, t, s)
        PROVE UNCHANGED pairing
    BY <1>4 DEF Vanish, Receive, RefuseMessage, Send, SendFails, Admit, Refuse, Register,
                RefuseRegister, Relay, pairing
  <1>5. QED
    BY <1>1, <1>2, <1>3, <1>4 DEF Next, Socket, Handle, vars

(***************************************************************************)
(* The theorems.                                                           *)
(***************************************************************************)

\* The invariant is inductive.
LEMMA Inductive ==
  Spec => []IInv
  <1>1. ASSUME IInv, [Next]_vars PROVE IInv'
    BY <1>1, TypeStep, RegistryStep, RelayStep, CountsStep, CappedStep DEF IInv
  <1>2. QED BY InitInv, <1>1, PTL DEF Spec

\* Every variable of the coordinator keeps its type, counters within their caps.
THEOREM BrokerTypes == Spec => []TypeOK
  <1>1. IInv => TypeOK
    BY DEF IInv
  <1>2. QED BY Inductive, <1>1, PTL

\* The directory refers to sockets that will clean up after themselves, for any
\* number of boxes, clients and reconnects.
THEOREM DirectoryLive == Spec => []RegistryLive
  <1>1. IInv => RegistryLive
    BY DEF IInv
  <1>2. QED BY Inductive, <1>1, PTL

\* And so does the session table, which three goroutines use and tear down.
THEOREM SessionsStayLive == Spec => []SessionsLive
  <1>1. IInv => SessionsLive
    BY DEF IInv
  <1>2. QED BY Inductive, <1>1, PTL

\* Connection counts per address are exact, and clients keep within their cap.
THEOREM CountsExact == Spec => [](IpAccounted /\ SessionsCapped)
  <1>1. IInv => IpAccounted /\ SessionsCapped
    <2> SUFFICES ASSUME IInv PROVE IpAccounted /\ SessionsCapped
      OBVIOUS
    <2>1. ASSUME NEW c \in Conn PROVE Cardinality(SessionsOf(c)) <= MaxSessionsPerConn
      <3>1. /\ Cardinality(SessionsOf(c)) <= count[c] /\ count[c] \in 0..MaxSessionsPerConn
        BY DEF IInv, CappedInv, TypeOK
      <3>2. Cardinality(SessionsOf(c)) \in Nat
        BY SetsFinite DEF SessionsOf
      <3>3. QED BY <3>1, <3>2, BrokerAssumption
    <2>2. QED BY <2>1 DEF IInv, SessionsCapped, SessionsOf
  <1>2. QED BY Inductive, <1>1, PTL

\* No signaling message leaves its pairing.
THEOREM SignalsStay == Spec => []RelayStaysInPair
  <1>1. IInv => RelayStaysInPair
    <2> SUFFICES ASSUME IInv, NEW c \in Conn, todo[c] # <<>>, Head(todo[c]).msg.type \in Signals
                 PROVE \/ {c, Head(todo[c]).to} = {sessions[Head(todo[c]).msg.sid].server, sessions[Head(todo[c]).msg.sid].client}
                       \/ st[Head(todo[c]).to] = "closed"
      BY DEF RelayStaysInPair
    <2>1. Head(todo[c]) = todo[c][1] /\ 1 \in 1..Len(todo[c])
      BY TailOwed DEF IInv, TypeOK, Send1
    <2>2. QED BY <2>1 DEF IInv, RelayInv, Partnered
  <1>2. QED BY Inductive, <1>1, PTL

\* A registered code stays bound to one server_id.
THEOREM CodeStaysBound == Spec => CodeBound
  <1> DEFINE Bound(k) == \/ serverID'[servers'[k]] = serverID[servers[k]]
                         \/ servers'[k] = servers[k] /\ again'[servers[k]]
             Step == \A k \in Code : servers[k] # None /\ servers'[k] # None => Bound(k)
  <1>1. ASSUME IInv, [Next]_vars PROVE Step
    <2> SUFFICES ASSUME NEW k \in Code, servers[k] # None, servers'[k] # None
                 PROVE Bound(k)
      OBVIOUS
    <2>1. ASSUME NEW c \in Conn, NEW x \in Spelling, NEW id \in ServerId, Register(c, x, id)
          PROVE Bound(k)
      <3>1. /\ role[c] # "server" /\ ~Taken(canonicalCode[x], id, c)
            /\ serverID' = [serverID EXCEPT ![c] = id]
            /\ servers' = [servers EXCEPT ![canonicalCode[x]] = c]
        BY <2>1 DEF Register, CanRegister
      <3>2. /\ again' = [again EXCEPT ![c] = serverID[c] # None]
            /\ servers[k] \in Conn /\ serverID[servers[k]] # None
        BY <1>1, <2>1 DEF Register, IInv, TypeOK, NamesInv
      <3>3. CASE servers[k] = c
        BY <1>1, <3>1, <3>2, <3>3 DEF IInv, TypeOK
      <3>4. CASE servers[k] # c /\ k = canonicalCode[x]
        BY <1>1, <3>1, <3>2, <3>4 DEF Taken, IInv, TypeOK
      <3>5. CASE servers[k] # c /\ k # canonicalCode[x]
        BY <1>1, <3>1, <3>2, <3>5 DEF IInv, TypeOK
      <3>6. QED BY <3>3, <3>4, <3>5
    <2>2. ASSUME NEW c \in Conn, Cleanup(c)
          PROVE Bound(k)
      BY <2>2 DEF Cleanup, Unregistered
    <2>3. ASSUME UNCHANGED <<servers, serverID>>
          PROVE Bound(k)
      BY <2>3
    <2>4. ASSUME NEW c \in Conn,
                 \/ Vanish(c) \/ Receive(c) \/ RefuseMessage(c) \/ Send(c) \/ SendFails(c)
                 \/ \E a \in Ip : Admit(c, a) \/ Refuse(c, a)
                 \/ \E x \in Spelling, id \in ServerId : RefuseRegister(c, x, id)
                 \/ \E x \in Spelling, s \in Sid : Connect(c, x, s)
                 \/ \E t \in Signals, s \in Sid : Relay(c, t, s)
          PROVE UNCHANGED <<servers, serverID>>
      BY <2>4 DEF Vanish, Receive, RefuseMessage, Send, SendFails, Admit, Refuse,
                  RefuseRegister, Connect, Relay, registry
    <2>5. QED
      BY <1>1, <2>1, <2>2, <2>3, <2>4 DEF Next, Socket, Handle, vars, registry
  <1>2. QED BY Inductive, <1>1, PTL DEF Spec, CodeBound

\* A code is unregistered only by the cleanup of the socket that holds it.
THEOREM OwnerUnregisters == Spec => OnlyOwnerUnregisters
  <1> DEFINE Step == \A k \in Code : servers[k] # None /\ servers'[k] = None =>
                       st[servers[k]] = "gone" /\ st'[servers[k]] = "closed"
  <1>1. ASSUME IInv, [Next]_vars PROVE Step
    <2> SUFFICES ASSUME NEW k \in Code, servers[k] # None, servers'[k] = None
                 PROVE st[servers[k]] = "gone" /\ st'[servers[k]] = "closed"
      OBVIOUS
    <2>1. ASSUME NEW c \in Conn, Cleanup(c)
          PROVE st[servers[k]] = "gone" /\ st'[servers[k]] = "closed"
      <3>1. servers[k] = c
        BY <2>1 DEF Cleanup, Unregistered
      <3>2. QED BY <1>1, <2>1, <3>1 DEF Cleanup, IInv, TypeOK
    <2>2. ASSUME NEW c \in Conn, NEW x \in Spelling, NEW id \in ServerId, Register(c, x, id)
          PROVE FALSE
      BY <1>1, <2>2, BrokerAssumption DEF Register, IInv, TypeOK
    <2>3. ASSUME NEW c \in Conn,
                 \/ Vanish(c) \/ Receive(c) \/ RefuseMessage(c) \/ Send(c) \/ SendFails(c)
                 \/ \E a \in Ip : Admit(c, a) \/ Refuse(c, a)
                 \/ \E x \in Spelling, id \in ServerId : RefuseRegister(c, x, id)
                 \/ \E x \in Spelling, s \in Sid : Connect(c, x, s)
                 \/ \E t \in Signals, s \in Sid : Relay(c, t, s)
          PROVE servers' = servers
      BY <2>3 DEF Vanish, Receive, RefuseMessage, Send, SendFails, Admit, Refuse,
                  RefuseRegister, Connect, Relay, registry
    <2>4. QED
      BY <1>1, <2>1, <2>2, <2>3 DEF Next, Socket, Handle, vars, registry
  <1>2. QED BY Inductive, <1>1, PTL DEF Spec, OnlyOwnerUnregisters
=============================================================================
