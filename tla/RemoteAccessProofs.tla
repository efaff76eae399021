-------------------------- MODULE RemoteAccessProofs --------------------------
(***************************************************************************)
(* Proofs about RemoteAccess for any number of handlers, peers, clients,   *)
(* codes and sockets: what the settings handlers and the peers' goroutines *)
(* keep between them; that the coordinator, driven by the box and its      *)
(* clients over wires that lose what they like, is the one of Broker; and  *)
(* that the box has heard of a session before it gets the session's offer. *)
(***************************************************************************)
EXTENDS RemoteAccess, BrokerProofs

(***************************************************************************)
(* The app and its peers.                                                  *)
(***************************************************************************)

\* The part of the type invariant that the app's steps depend on.
AppTypes ==
  /\ saved \in Settings /\ Live \in Settings
  /\ hcfg \in [Handler -> Settings]
  /\ stray \subseteq {"enabled", "code"}
  /\ current \in Peer \cup {None}
  /\ hpc \in [Handler -> {"idle", "patch", "patchCopy", "patchCopyCode", "rotate",
                          "rotateCopy", "rotateCopyCode", "revoke", "restart", "sync"}]
  /\ ppc \in [Peer -> {"none", "start", "dial", "register", "verdict", "serve"}]
  /\ cancelled \subseteq Peer
  /\ pcode \in [Peer -> BoxCode \cup {None}]

\* Only a peer whose goroutine is there is cancelled, and the one that the app
\* can cancel has not been.
CurrentInv ==
  /\ \A p \in cancelled : ppc[p] # "none"
  /\ current # None => ppc[current] # "none" /\ current \notin cancelled

\* While no handler is between its change of the live setting and its sync, a
\* peer runs exactly when remote access is on.
Untouched == {"idle", "patch", "patchCopy", "rotate", "rotateCopy"}
MatchInv ==
  (\A h \in Handler : hpc[h] \in Untouched) =>
    (enabled <=> current # None) \/ "enabled" \in stray

AppInv == AppTypes /\ CurrentInv /\ OnePeerRightCode /\ MatchInv

\* What is left alone by the coordinator and the clients.
AppFrame == UNCHANGED <<app, ppc, cancelled, pcode>>

\* Steps of the coordinator and of the clients leave the settings and the peers alone.
LEMMA FrameApp == ASSUME AppInv, AppFrame PROVE AppInv'
  BY DEF AppInv, AppFrame, app, config, AppTypes, Live, CurrentInv, OnePeerRightCode, MatchInv

\* A handler that loads or saves the file touches no peer and no live setting.
LEMMA LoadKeeps ==
  ASSUME AppInv, NEW h \in Handler,
         \/ \E e \in BOOLEAN : PatchRemote(h, e)
         \/ \E k \in BoxCode : RotateCode(h, k)
         \/ SaveConfig(h)
  PROVE  AppInv'
  <1>1. /\ UNCHANGED <<enabled, cfgCode, stray, current, ppc, cancelled, pcode>>
        /\ saved' \in Settings
        /\ hcfg' \in [Handler -> Settings]
    <2>1. ASSUME NEW x \in Settings PROVE [hcfg EXCEPT ![h] = x] \in [Handler -> Settings]
      BY DEF AppInv, AppTypes
    <2>2. /\ \A x \in Settings : \A e \in BOOLEAN : [x EXCEPT !.enabled = e] \in Settings
          /\ \A x \in Settings : \A k \in BoxCode : [x EXCEPT !.code = k] \in Settings
      BY DEF Settings
    <2>3. saved \in Settings /\ Live \in Settings /\ hcfg[h] \in Settings
      BY DEF AppInv, AppTypes
    <2>4. CASE SaveConfig(h)
      BY <2>3, <2>4 DEF SaveConfig, peers, AppInv, AppTypes
    <2>5. ASSUME NEW e \in BOOLEAN, PatchRemote(h, e)
         PROVE  /\ UNCHANGED <<enabled, cfgCode, stray, current, ppc, cancelled, pcode>>
                /\ saved' \in Settings
                /\ hcfg' \in [Handler -> Settings]
      <3>1. PICK x \in Settings : hcfg' = [hcfg EXCEPT ![h] = [x EXCEPT !.enabled = e]]
        BY <2>3, <2>5 DEF PatchRemote
      <3>2. [x EXCEPT !.enabled = e] \in Settings
        BY <2>2, <2>5, Zenon
      <3>3. hcfg' \in [Handler -> Settings]
        BY <2>1, <3>1, <3>2
      <3>4. QED BY <2>3, <2>5, <3>3 DEF PatchRemote, peers
    <2>6. ASSUME NEW k \in BoxCode, RotateCode(h, k)
         PROVE  /\ UNCHANGED <<enabled, cfgCode, stray, current, ppc, cancelled, pcode>>
                /\ saved' \in Settings
                /\ hcfg' \in [Handler -> Settings]
      BY <2>1, <2>2, <2>3, <2>6 DEF RotateCode, peers
    <2>7. QED BY <2>4, <2>5, <2>6
  <1>2. \E x, y \in Untouched : hpc[h] = x /\ hpc' = [hpc EXCEPT ![h] = y]
    BY DEF PatchRemote, RotateCode, SaveConfig, Step, Untouched
  <1>3. AppTypes' /\ CurrentInv'
    BY <1>1, <1>2 DEF AppInv, AppTypes, Live, CurrentInv, Untouched
  <1>4. /\ hpc[h] \in Untouched /\ hpc'[h] \in Untouched
        /\ \A g \in Handler : g # h => hpc'[g] = hpc[g]
    BY <1>2 DEF AppInv, AppTypes
  <1>5. MatchInv'
    BY <1>1, <1>4 DEF AppInv, MatchInv
  <1>6. OnePeerRightCode'
    BY <1>1, <1>4 DEF AppInv, OnePeerRightCode, Untouched
  <1>7. QED BY <1>3, <1>5, <1>6 DEF AppInv

\* A handler that changes a live setting still has the peer to see to, or leaves
\* a mark.
LEMMA CopyKeeps ==
  ASSUME AppInv, NEW h \in Handler, CopyEnabled(h) \/ CopyCode(h) \/ RevokeTokens(h)
  PROVE  AppInv'
  <1>0. hcfg[h] \in Settings
    BY DEF AppInv, AppTypes
  <1>1. ASSUME CopyEnabled(h) PROVE AppInv'
    <2>1. /\ UNCHANGED <<saved, cfgCode, hcfg, stray, current, ppc, cancelled, pcode>>
          /\ enabled' = hcfg[h].enabled
          /\ hpc[h] \in {"patchCopy", "rotateCopy"}
          /\ \E y \in {"patchCopyCode", "rotateCopyCode"} : hpc' = [hpc EXCEPT ![h] = y]
      BY <1>1 DEF CopyEnabled, Step, peers
    <2>2. AppTypes' /\ CurrentInv'
      BY <1>0, <2>1 DEF AppInv, AppTypes, Live, Settings, CurrentInv
    <2>3. hpc'[h] \notin Untouched /\ \A g \in Handler : g # h => hpc'[g] = hpc[g]
      BY <2>1 DEF AppInv, AppTypes, Untouched
    <2>4. MatchInv'
      BY <2>3 DEF MatchInv
    <2>5. OnePeerRightCode'
      BY <2>1, <2>3 DEF AppInv, OnePeerRightCode
    <2>6. QED BY <2>2, <2>4, <2>5 DEF AppInv
  <1>2. ASSUME CopyCode(h) PROVE AppInv'
    <2>1. /\ UNCHANGED <<saved, enabled, hcfg, current, ppc, cancelled, pcode>>
          /\ cfgCode' = hcfg[h].code
          /\ \E y \in {"sync", "revoke"} : hpc' = [hpc EXCEPT ![h] = y]
          /\ hpc[h] \notin {"revoke", "restart"}
          /\ stray \subseteq stray' /\ stray' \subseteq {"enabled", "code"}
          /\ cfgCode' = cfgCode \/ hpc' = [hpc EXCEPT ![h] = "revoke"] \/ "code" \in stray'
      BY <1>2 DEF CopyCode, Step, peers, AppInv, AppTypes
    <2>2. AppTypes' /\ CurrentInv'
      BY <1>0, <2>1 DEF AppInv, AppTypes, Live, Settings, CurrentInv
    <2>3. hpc'[h] \notin Untouched /\ \A g \in Handler : g # h => hpc'[g] = hpc[g]
      BY <2>1 DEF AppInv, AppTypes, Untouched
    <2>4. MatchInv'
      BY <2>3 DEF MatchInv
    <2>5. hpc' = [hpc EXCEPT ![h] = "revoke"] => hpc'[h] = "revoke"
      BY DEF AppInv, AppTypes
    <2>6. OnePeerRightCode'
      BY <2>1, <2>3, <2>5 DEF AppInv, OnePeerRightCode
    <2>7. QED BY <2>2, <2>4, <2>6 DEF AppInv
  <1>3. ASSUME RevokeTokens(h) PROVE AppInv'
    <2>1. /\ UNCHANGED <<config, current, ppc, cancelled, pcode>>
          /\ \/ hpc' = [hpc EXCEPT ![h] = "restart"] /\ stray' = stray
             \/ hpc' = [hpc EXCEPT ![h] = "idle"] /\ stray' = {"enabled", "code"}
      BY <1>3 DEF RevokeTokens, Step, peers
    <2>2. AppTypes' /\ CurrentInv'
      BY <2>1 DEF AppInv, AppTypes, Live, config, CurrentInv
    <2>3. CASE stray' = {"enabled", "code"}
      BY <2>1, <2>2, <2>3 DEF AppInv, MatchInv, OnePeerRightCode
    <2>4. CASE hpc' = [hpc EXCEPT ![h] = "restart"] /\ stray' = stray
      <3>1. hpc'[h] = "restart"
        BY <2>4 DEF AppInv, AppTypes
      <3>2. MatchInv'
        BY <3>1 DEF MatchInv, Untouched
      <3>3. OnePeerRightCode'
        BY <2>1, <2>4, <3>1 DEF AppInv, OnePeerRightCode, config
      <3>4. QED BY <2>2, <3>2, <3>3 DEF AppInv
    <2>5. QED BY <2>1, <2>3, <2>4
  <1>4. QED BY <1>1, <1>2, <1>3

\* Cancelling the current peer: there is none to disagree with the setting.
LEMMA CancelKeeps ==
  ASSUME AppInv, NEW h \in Handler, CancelPeer(h) PROVE AppInv'
  <1>1. /\ cancelled' = cancelled \cup ({current} \ {None}) /\ current' = None
        /\ hpc' = [hpc EXCEPT ![h] = "sync"] /\ stray' = stray \ {"code"}
        /\ UNCHANGED <<config, ppc, pcode>>
    BY DEF CancelPeer, Step
  <1>2. AppTypes' /\ CurrentInv'
    BY <1>1 DEF AppInv, AppTypes, Live, config, CurrentInv
  <1>3. hpc'[h] = "sync"
    BY <1>1 DEF AppInv, AppTypes
  <1>4. MatchInv'
    BY <1>3 DEF MatchInv, Untouched
  <1>5. OnePeerRightCode'
    BY <1>1, RemoteAssumption DEF AppInv, OnePeerRightCode
  <1>6. QED BY <1>2, <1>4, <1>5 DEF AppInv

\* The peer a sync starts is the only one that has not been cancelled.
LEMMA StartKeeps ==
  ASSUME AppInv, NEW h \in Handler, NEW p \in Peer, SyncStarts(h, p) PROVE AppInv'
  <1>1. /\ enabled /\ current = None /\ ppc[p] = "none"
        /\ ppc' = [ppc EXCEPT ![p] = "start"] /\ current' = p
        /\ hpc' = [hpc EXCEPT ![h] = "idle"] /\ stray' = {}
        /\ UNCHANGED <<config, cancelled, pcode>>
    BY DEF SyncStarts, Step
  <1>2. p \notin cancelled /\ p # None
    BY <1>1, RemoteAssumption DEF AppInv, CurrentInv
  <1>3. AppTypes'
    BY <1>1 DEF AppInv, AppTypes, Live, config
  <1>4. CurrentInv'
    BY <1>1, <1>2 DEF AppInv, AppTypes, CurrentInv
  <1>5. MatchInv'
    BY <1>1, <1>2 DEF MatchInv, config
  <1>6. OnePeerRightCode'
    BY <1>1, RemoteAssumption DEF AppInv, AppTypes, OnePeerRightCode
  <1>7. QED BY <1>3, <1>4, <1>5, <1>6 DEF AppInv

\* A sync that has nothing to start or stop leaves the peer as the setting wants it.
LEMMA StopKeeps ==
  ASSUME AppInv, NEW h \in Handler, SyncStops(h) PROVE AppInv'
  <1>1. /\ hpc[h] = "sync" /\ ~(enabled /\ current = None)
        /\ hpc' = [hpc EXCEPT ![h] = "idle"] /\ stray' = stray \ {"enabled"}
        /\ UNCHANGED <<config, ppc, pcode>>
    BY DEF SyncStops, Step
  <1>2. CASE enabled /\ UNCHANGED <<cancelled, current>>
    <2>1. AppTypes' /\ CurrentInv' /\ MatchInv'
      BY <1>1, <1>2 DEF AppInv, AppTypes, Live, config, CurrentInv, MatchInv
    <2>2. \A g \in Handler : hpc[g] \in {"revoke", "restart"} => hpc'[g] = hpc[g]
      BY <1>1 DEF AppInv, AppTypes
    <2>3. OnePeerRightCode'
      BY <1>1, <1>2, <2>2 DEF AppInv, OnePeerRightCode, config
    <2>4. QED BY <2>1, <2>3 DEF AppInv
  <1>3. CASE ~enabled /\ cancelled' = cancelled \cup ({current} \ {None}) /\ current' = None
    <2>1. AppTypes' /\ CurrentInv' /\ MatchInv'
      BY <1>1, <1>3 DEF AppInv, AppTypes, Live, config, CurrentInv, MatchInv
    <2>2. OnePeerRightCode'
      BY <1>1, <1>3, RemoteAssumption DEF AppInv, OnePeerRightCode
    <2>3. QED BY <2>1, <2>2 DEF AppInv
  <1>4. QED BY <1>1, <1>2, <1>3 DEF SyncStops

\* A goroutine that goes on, past the reading of the code.
LEMMA PeerGoesOn ==
  ASSUME AppInv, NEW p \in Peer, ppc[p] \notin {"none", "start"}, UNCHANGED <<app, cancelled, pcode>>,
         NEW x \in {"dial", "register", "verdict", "serve"}, ppc' = [ppc EXCEPT ![p] = x]
  PROVE  AppInv'
  <1>1. AppTypes' /\ CurrentInv'
    BY DEF AppInv, AppTypes, Live, CurrentInv, app, config
  <1>2. MatchInv' /\ OnePeerRightCode'
    BY DEF AppInv, AppTypes, Live, Settings, MatchInv, OnePeerRightCode, app, config
  <1>3. QED BY <1>1, <1>2 DEF AppInv

\* What a peer reads is the code that is set when it reads.
LEMMA ReadKeeps ==
  ASSUME AppInv, NEW p \in Peer, ReadCode(p) PROVE AppInv'
  <1>1. /\ ppc[p] = "start" /\ ppc' = [ppc EXCEPT ![p] = "dial"]
        /\ pcode' = [pcode EXCEPT ![p] = cfgCode] /\ UNCHANGED <<app, cancelled>>
    BY DEF ReadCode
  <1>2. AppTypes' /\ CurrentInv'
    BY <1>1 DEF AppInv, AppTypes, Live, Settings, CurrentInv, app, config
  <1>3. MatchInv' /\ OnePeerRightCode'
    BY <1>1 DEF AppInv, AppTypes, Live, Settings, MatchInv, OnePeerRightCode, app, config
  <1>4. QED BY <1>2, <1>3 DEF AppInv

\* A run that returns had been cancelled, so it was not the current one.
LEMMA RunReturns ==
  ASSUME AppInv, NEW p \in Peer, Stop(p) PROVE AppInv'
  <1>1. /\ p \in cancelled /\ ppc' = [ppc EXCEPT ![p] = "none"] /\ cancelled' = cancelled \ {p}
        /\ pcode' = [pcode EXCEPT ![p] = None] /\ UNCHANGED app
    BY DEF Stop
  <1>2. AppTypes' /\ CurrentInv'
    BY <1>1 DEF AppInv, AppTypes, Live, Settings, CurrentInv, app, config
  <1>3. MatchInv' /\ OnePeerRightCode'
    BY <1>1 DEF AppInv, AppTypes, Live, Settings, MatchInv, OnePeerRightCode, app, config
  <1>4. QED BY <1>2, <1>3 DEF AppInv

\* Every step of the composition keeps the app's side of the invariant.
LEMMA AppStep == ASSUME AppInv, [RNext]_rvars PROVE AppInv'
  <1>1. CASE AppNext
    BY <1>1, LoadKeeps, CopyKeeps, CancelKeeps, StartKeeps, StopKeeps DEF AppNext, Settle
  <1>3. ASSUME NEW p \in Peer, NEW c \in Conn, NEW a \in Ip, Dial(p, c, a) PROVE AppInv'
    BY <1>3, PeerGoesOn DEF Dial, Active
  <1>4. ASSUME NEW p \in Peer, SendRegister(p) PROVE AppInv'
    BY <1>4, PeerGoesOn DEF SendRegister, Active
  <1>5. ASSUME NEW p \in Peer, Verdict(p) PROVE AppInv'
    BY <1>5, PeerGoesOn DEF Verdict, Active
  <1>6. ASSUME NEW p \in Peer, ReadFails(p) PROVE AppInv'
    BY <1>6, PeerGoesOn DEF ReadFails
  <1>7. ASSUME NEW p \in Peer,
               \/ Serve(p) \/ \E s \in Sid : RtcEnds(p, s)
               \/ \E c \in Conn, a \in Ip : DialRefused(p, c, a)
        PROVE AppInv'
    BY <1>7, FrameApp DEF Serve, RtcEnds, DialRefused, AppFrame, peers
  <1>8. CASE ClientNext
    BY <1>8, FrameApp DEF ClientNext, Call, CallRefused, Called, Answered, HangUp, AppFrame, peers
  <1>9. CASE CoordinatorNext
    BY <1>9, FrameApp DEF CoordinatorNext, CoordinatorReads, CoordinatorActs, SeesClose,
       NetworkFails, AppFrame, peers
  <1>10. CASE UNCHANGED rvars
    BY <1>10, FrameApp DEF rvars, AppFrame, peers
  <1>11. QED
    BY <1>1, <1>3, <1>4, <1>5, <1>6, <1>7, <1>8, <1>9, <1>10, ReadKeeps, RunReturns
    DEF RNext, PeerNext

\* It starts well.
LEMMA AppStarts == ASSUME RInit PROVE AppInv
  <1>1. /\ enabled = FALSE /\ cfgCode \in BoxCode /\ saved = Live /\ stray = {}
        /\ hcfg = [h \in Handler |-> saved] /\ current = None /\ cancelled = {}
        /\ hpc = [h \in Handler |-> "idle"] /\ ppc = [p \in Peer |-> "none"]
        /\ pcode = [p \in Peer |-> None]
    BY DEF RInit
  <1>2. AppTypes
    BY <1>1 DEF AppTypes, Live, Settings
  <1>3. CurrentInv /\ OnePeerRightCode
    BY <1>1 DEF CurrentInv, OnePeerRightCode
  <1>4. MatchInv
    BY <1>1 DEF MatchInv
  <1>5. QED BY <1>2, <1>3, <1>4 DEF AppInv

\* The invariant of the app and its peers is inductive.
LEMMA AppHolds == RSpec => []AppInv
  BY AppStarts, AppStep, PTL DEF RSpec

\* At most one peer runs uncancelled, the one that the app can cancel, with the
\* configured code or about to be restarted, for any number of handlers that load,
\* save and copy the whole configuration over each other's; save where a patch put
\* an old code back, or a rotation failed to revoke the tokens.
THEOREM OnePeer == RSpec => []OnePeerRightCode
  <1>1. AppInv => OnePeerRightCode
    BY DEF AppInv
  <1>2. QED BY <1>1, AppHolds, PTL

\* When the handlers are done, a peer runs exactly if remote access is on, unless
\* a rotation that failed changed that last.
THEOREM SettingTakesEffect == RSpec => []PeerMatchesSetting
  <1>1. AppInv => PeerMatchesSetting
    BY DEF AppInv, MatchInv, PeerMatchesSetting, Untouched
  <1>2. QED BY <1>1, AppHolds, PTL

(***************************************************************************)
(* The messages that name a session, and what is on the wires.             *)
(***************************************************************************)

\* A message about a session names one.
Named(m) == m.type \in {"paired"} \cup Signals => m.sid \in Sid

NamedInv ==
  \A c \in Conn :
    /\ \A i \in 1..Len(todo[c]) : Named(todo[c][i].msg)
    /\ \A i \in 1..Len(inbox[c]) : Named(inbox[c][i])

\* What c's end may ask of the coordinator.
AnyRequest ==
  [type : {"register", "connect"} \cup Signals, code : Code \cup {None}, sid : Sid \cup {None}]

Requests(c) ==
  {m \in AnyRequest :
     /\ m.type = "register" => c \in Registrars /\ m.code \in BoxCode
     /\ m.type = "connect" => c \in Callers /\ m.code \in BoxCode
     /\ m.type \in Signals => m.sid \in Sid}

OutboxInv ==
  /\ outbox = [c \in Conn |-> outbox[c]]
  /\ \A c \in Conn : outbox[c] \in Seq(Requests(c))

\* A peer past the reading of its code has one, and past its dial a socket.
PeerInv ==
  /\ ws \in [Peer -> Registrars \cup {None}]
  /\ \A p \in Peer : ppc[p] \in {"register", "verdict", "serve"} => ws[p] # None
  /\ \A p \in Peer : ppc[p] \in {"dial", "register", "verdict", "serve"} => pcode[p] \in BoxCode
  /\ rtc \in [Peer -> [Sid -> {"none", "new", "answered"}]]

EndsInv ==
  /\ cpc \in [Callers -> {"idle", "calling", "offered", "answered", "failed"}]
  /\ csid \in [Callers -> Sid \cup {None}]
  /\ shut \subseteq Conn
  /\ spent \subseteq Sid

\* The programs at the sockets' ends register once or connect, never both, and
\* under a code that is none of the empty one's spellings.
RolesInv ==
  /\ \A c \in Conn :
       /\ ~again[c]
       /\ serverID[c] # None => c \in Registrars /\ role[c] = "server" /\ code[c] # NoCode
  /\ \A k \in Code : servers[k] # None => k # NoCode
  /\ \A s \in Sid : sessions[s] # NoSession => serverID[sessions[s].server] # None

RInv == IInv /\ AppInv /\ NamedInv /\ OutboxInv /\ PeerInv /\ EndsInv /\ RolesInv

\* A registration is of a home server whose socket will clean up after it.
DirectoryAlive ==
  \A k \in Code : servers[k] # None =>
    servers[k] \in Admitted \cap Registrars /\ code[servers[k]] = k

\* So nothing lingers in the directory, nor in the sessions.
LEMMA NothingLingers ==
  ASSUME IInv, RolesInv
  PROVE  /\ DirectoryAlive
         /\ \A s \in Sid : sessions[s] # NoSession =>
              sessions[s].server \in Admitted /\ sessions[s].client \in Admitted
  <1>1. ASSUME NEW k \in Code, servers[k] # None
        PROVE  servers[k] \in Admitted \cap Registrars /\ code[servers[k]] = k
    <2>1. servers[k] \in Conn /\ serverID[servers[k]] # None
      BY <1>1 DEF IInv, TypeOK, NamesInv
    <2>2. ~Lingers(servers[k], k) /\ servers[k] \in Registrars
      BY <1>1, <2>1 DEF RolesInv, Lingers
    <2>3. QED BY <1>1, <2>2 DEF IInv, RegistryLive
  <1>2. ASSUME NEW s \in Sid, sessions[s] # NoSession
        PROVE  sessions[s].server \in Admitted /\ sessions[s].client \in Admitted
    <2>1. sessions[s].server \in Conn
      BY <1>2 DEF IInv, NamesInv
    <2>2. ~Leaves(sessions[s].server)
      BY <1>2, <2>1 DEF RolesInv, Leaves
    <2>3. QED BY <1>2, <2>2 DEF IInv, SessionsLive
  <1>3. QED BY <1>1, <1>2 DEF DirectoryAlive

\* The first message that a socket's end has not read.
LEMMA HeadNamed ==
  ASSUME TypeOK, NamedInv, NEW c \in Conn, inbox[c] # <<>>
  PROVE  Head(inbox[c]) \in Messages /\ Named(Head(inbox[c]))
  <1>1. inbox[c] \in Seq(Messages)
    BY DEF TypeOK
  <1>2. Head(inbox[c]) = inbox[c][1] /\ Len(inbox[c]) \in Nat \ {0}
    BY <1>1, EmptySeq
  <1>3. QED BY <1>1, <1>2, HeadTailProperties DEF NamedInv

\* A message more.
LEMMA AppendNamed ==
  ASSUME NEW q \in Seq(Messages), \A i \in 1..Len(q) : Named(q[i]), NEW m \in Messages, Named(m)
  PROVE  \A i \in 1..Len(Append(q, m)) : Named(Append(q, m)[i])
  <1>1. Len(q) \in Nat /\ Len(Append(q, m)) = Len(q) + 1
    BY AppendProperties, LenProperties
  <1>2. ASSUME NEW i \in 1..Len(Append(q, m)) PROVE Named(Append(q, m)[i])
    <2>1. CASE i \in 1..Len(q)
      BY <2>1, AppendProperties
    <2>2. CASE i = Len(q) + 1
      BY <2>2, AppendProperties
    <2>3. QED BY <1>1, <1>2, <2>1, <2>2
  <1>3. QED BY <1>2

\* What is owed after a handler, and after a send.
LEMMA NamedOwes ==
  ASSUME TypeOK, NamedInv, inbox' = inbox, NEW c \in Conn, NEW q,
         \A i \in 1..Len(q) : Named(q[i].msg), Owes(c, q)
  PROVE  NamedInv'
  <1>1. \A d \in Conn : todo'[d] = IF d = c THEN q ELSE todo[d]
    BY DEF Owes, TypeOK
  <1>2. QED BY <1>1 DEF NamedInv, Named

\* An error message names no session it should not.
LEMMA NamedFail ==
  ASSUME TypeOK, NamedInv, inbox' = inbox, NEW c \in Conn, Fail(c) PROVE NamedInv'
  <1> DEFINE q == <<Reply(c, "error")>>
  <1>1. \A i \in 1..Len(q) : Named(q[i].msg)
    BY BrokerAssumption DEF Reply, SendTo, Message, Named
  <1>2. QED BY <1>1, NamedOwes DEF Fail

\* Every step of the coordinator sends messages that name their session.
LEMMA NamedStep == ASSUME IInv, NamedInv, [Next]_vars PROVE NamedInv'
  <1> USE BrokerAssumption
  <1>0. TypeOK
    BY DEF IInv
  <1>1. ASSUME NEW c \in Conn, Vanish(c) PROVE NamedInv'
    <2>1. \A d \in Conn : inbox'[d] = IF d = c THEN <<>> ELSE inbox[d]
      BY <1>0, <1>1 DEF Vanish, TypeOK
    <2>2. todo' = todo
      BY <1>1 DEF Vanish
    <2>3. QED BY <2>1, <2>2 DEF NamedInv, Named
  <1>2. ASSUME NEW c \in Conn, Receive(c) PROVE NamedInv'
    <2>1. inbox[c] \in Seq(Messages) /\ inbox[c] # <<>>
      BY <1>0, <1>2 DEF Receive, TypeOK
    <2>2. /\ Len(inbox[c]) \in Nat /\ Len(Tail(inbox[c])) = Len(inbox[c]) - 1
          /\ \A i \in 1..Len(Tail(inbox[c])) : Tail(inbox[c])[i] = inbox[c][i + 1]
      BY <2>1, HeadTailProperties, LenProperties
    <2>3. \A i \in 1..Len(Tail(inbox[c])) : Named(Tail(inbox[c])[i])
      BY <2>2 DEF NamedInv
    <2>4. \A d \in Conn : inbox'[d] = IF d = c THEN Tail(inbox[c]) ELSE inbox[d]
      BY <1>0, <1>2 DEF Receive, TypeOK
    <2>5. todo' = todo
      BY <1>2 DEF Receive
    <2>6. QED BY <2>3, <2>4, <2>5 DEF NamedInv, Named
  <1>3. ASSUME NEW c \in Conn, NEW x \in Spelling, NEW id \in ServerId, Register(c, x, id)
        PROVE NamedInv'
    <2> DEFINE q == <<Reply(c, "registered")>>
    <2>1. \A i \in 1..Len(q) : Named(q[i].msg)
      BY DEF Reply, SendTo, Message, Named
    <2>2. QED BY <1>0, <1>3, <2>1, NamedOwes DEF Register
  <1>4. ASSUME NEW c \in Conn,
               RefuseMessage(c) \/ \E x \in Spelling, id \in ServerId : RefuseRegister(c, x, id)
        PROVE NamedInv'
    BY <1>0, <1>4, NamedFail DEF RefuseMessage, RefuseRegister
  <1>5. ASSUME NEW c \in Conn, NEW x \in Spelling, NEW s \in Sid, Connect(c, x, s)
        PROVE NamedInv'
    <2> DEFINE q == PairedSends(servers[canonicalCode[x]], c, s)
    <2>1. \A i \in 1..Len(q) : Named(q[i].msg)
      BY DEF PairedSends, SendTo, Message, Named
    <2>2. QED BY <1>0, <1>5, <2>1, NamedOwes DEF Connect
  <1>6. ASSUME NEW c \in Conn, NEW t \in Signals, NEW s \in Sid, Relay(c, t, s)
        PROVE NamedInv'
    <2> DEFINE to == IF c = sessions[s].server THEN sessions[s].client ELSE sessions[s].server
               q == <<SendTo(to, Message(t, s))>>
    <2>1. \A i \in 1..Len(q) : Named(q[i].msg)
      BY DEF SendTo, Message, Named
    <2>2. QED BY <1>0, <1>6, <2>1, NamedOwes DEF Relay
  <1>7. ASSUME NEW c \in Conn, Send(c) PROVE NamedInv'
    <2>1. todo[c] \in Seq(Send1) /\ todo[c] # <<>>
      BY <1>0, <1>7 DEF Send, TypeOK, Send1
    <2>2. /\ Head(todo[c]) \in Send1 /\ Head(todo[c]) = todo[c][1] /\ 1 \in 1..Len(todo[c])
          /\ \A i \in 1..Len(Tail(todo[c])) : Tail(todo[c])[i] = todo[c][i + 1] /\ i + 1 \in 1..Len(todo[c])
      BY <2>1, TailOwed
    <2>3. \A i \in 1..Len(Tail(todo[c])) : Named(Tail(todo[c])[i].msg)
      BY <2>2 DEF NamedInv
    <2>4. \A d \in Conn : todo'[d] = IF d = c THEN Tail(todo[c]) ELSE todo[d]
      BY <1>0, <1>7 DEF Send, Owes, TypeOK
    <2>5. CASE inbox' = inbox
      BY <2>3, <2>4, <2>5 DEF NamedInv, Named
    <2>6. CASE inbox' = [inbox EXCEPT ![Head(todo[c]).to] = Append(@, Head(todo[c]).msg)]
      <3> DEFINE m == Head(todo[c]).msg
                 d == Head(todo[c]).to
      <3>1. m \in Messages /\ Named(m) /\ d \in Conn
        BY <2>2 DEF Send1, NamedInv
      <3>3. \A i \in 1..Len(Append(inbox[d], m)) : Named(Append(inbox[d], m)[i])
        <4>1. inbox[d] \in Seq(Messages) /\ \A i \in 1..Len(inbox[d]) : Named(inbox[d][i])
          BY <1>0, <3>1 DEF TypeOK, NamedInv
        <4>2. QED BY <3>1, <4>1, AppendNamed
      <3>4. \A e \in Conn : inbox'[e] = IF e = d THEN Append(inbox[d], m) ELSE inbox[e]
        BY <1>0, <2>6, <3>1 DEF TypeOK
      <3>5. QED BY <2>3, <2>4, <3>3, <3>4 DEF NamedInv, Named
    <2>7. QED BY <1>7, <2>5, <2>6 DEF Send
  <1>8. ASSUME NEW c \in Conn, SendFails(c) PROVE NamedInv'
    <2>1. \A i \in 1..Len(<<>>) : Named(<<>>[i].msg)
      OBVIOUS
    <2>2. QED BY <1>0, <1>8, <2>1, NamedFail, NamedOwes DEF SendFails
  <1>9. CASE UNCHANGED <<todo, inbox>>
    BY <1>9 DEF NamedInv, Named
  <1>10. ASSUME NEW c \in Conn, Cleanup(c) \/ \E a \in Ip : Admit(c, a) \/ Refuse(c, a)
         PROVE UNCHANGED <<todo, inbox>>
    BY <1>10 DEF Cleanup, Admit, Refuse
  <1>11. CASE UNCHANGED vars
    BY <1>9, <1>11 DEF vars
  <1>12. QED
    BY <1>1, <1>2, <1>3, <1>4, <1>5, <1>6, <1>7, <1>8, <1>9, <1>10, <1>11
    DEF Next, Socket, Handle

(***************************************************************************)
(* The box and its clients drive the coordinator of Broker.                *)
(***************************************************************************)

\* What the coordinator reads, it handles as Broker does.
LEMMA ReadsDrive ==
  ASSUME RInv, NEW c \in Conn, CoordinatorReads(c) PROVE Next
  <1> DEFINE m == Head(outbox[c])
  <1>1. m \in Requests(c)
    BY HeadTailProperties DEF CoordinatorReads, RInv, OutboxInv
  <1>2. CASE m.type = "register" /\ (Register(c, m.code, Box) \/ RefuseRegister(c, m.code, Box))
    BY <1>1, <1>2, RemoteAssumption DEF Requests, BoxCode, Next, Handle
  <1>3. CASE m.type = "connect" /\ \E s \in Sid : Connect(c, m.code, s)
    BY <1>1, <1>3, RemoteAssumption DEF Requests, BoxCode, Next, Handle
  <1>4. CASE RefuseMessage(c)
    BY <1>4 DEF Next, Handle
  <1>5. CASE m.type \in Signals /\ Relay(c, m.type, m.sid)
    BY <1>1, <1>5 DEF Requests, Next, Handle
  <1>6. QED BY <1>2, <1>3, <1>4, <1>5 DEF CoordinatorReads

\* Every step of the whole is one of the coordinator, or none of its business.
LEMMA StepDrives == ASSUME RInv, [RNext]_rvars PROVE [Next]_vars
  <1> USE DEF RInv
  <1>1. CASE AppNext
    BY <1>1 DEF AppNext, Settle, PatchRemote, RotateCode, SaveConfig, CopyEnabled, CopyCode, RevokeTokens, CancelPeer, SyncStops, SyncStarts
  <1>2. ASSUME NEW p \in Peer, Active(p, "verdict") \/ Active(p, "serve"), Receive(ws[p]) PROVE Next
    <2>1. ws[p] \in Conn
      BY <1>2, BrokerAssumption DEF Active, PeerInv
    <2>2. QED BY <1>2, <2>1 DEF Next, Socket
  <1>3. ASSUME NEW p \in Peer, NEW c \in Conn, NEW a \in Ip, Dial(p, c, a) \/ DialRefused(p, c, a)
        PROVE Next
    BY <1>3 DEF Dial, DialRefused, Next, Socket
  <1>4. ASSUME NEW p \in Peer,
               ReadCode(p) \/ SendRegister(p) \/ ReadFails(p) \/ Stop(p) \/ \E s \in Sid : RtcEnds(p, s)
        PROVE UNCHANGED vars
    BY <1>4 DEF ReadCode, SendRegister, ReadFails, Stop, RtcEnds
  <1>5. CASE PeerNext
    BY <1>2, <1>3, <1>4, <1>5 DEF PeerNext, Verdict, Serve
  <1>6. CASE ClientNext
    BY <1>6, BrokerAssumption DEF ClientNext, Call, CallRefused, Called, Answered, HangUp, Next, Socket
  <1>7. CASE CoordinatorNext
    BY <1>7, ReadsDrive DEF CoordinatorNext, CoordinatorActs, SeesClose, NetworkFails, Next, Socket
  <1>8. CASE UNCHANGED rvars
    BY <1>8 DEF rvars
  <1>9. QED BY <1>1, <1>5, <1>6, <1>7, <1>8 DEF RNext

\* Every step keeps to one role per socket.
LEMMA RolesStep == ASSUME RInv, [RNext]_rvars PROVE RolesInv'
  <1> USE BrokerAssumption, RemoteAssumption
  <1>0. TypeOK /\ NamesInv /\ RolesInv
    BY DEF RInv, IInv
  <1>1. ASSUME UNCHANGED <<registry, sessions>> PROVE RolesInv'
    BY <1>0, <1>1 DEF RolesInv, registry
  <1>2. ASSUME NEW c \in Conn, Cleanup(c) PROVE RolesInv'
    <2>1. /\ UNCHANGED <<role, code, serverID, again>>
          /\ servers' = Unregistered(c) /\ sessions' = Without(c)
      BY <1>2 DEF Cleanup
    <2>2. ASSUME NEW k \in Code, servers'[k] # None PROVE servers[k] # None
      BY <2>1, <2>2 DEF Unregistered
    <2>3. ASSUME NEW s \in Sid, sessions'[s] # NoSession PROVE sessions'[s] = sessions[s]
      BY <2>1, <2>3 DEF Without
    <2>4. QED BY <1>0, <2>1, <2>2, <2>3 DEF RolesInv
  <1>3. ASSUME NEW c \in Conn, NEW k \in BoxCode, Register(c, k, Box) PROVE RolesInv'
    <2>1. /\ role' = [role EXCEPT ![c] = "server"] /\ code' = [code EXCEPT ![c] = k]
          /\ serverID' = [serverID EXCEPT ![c] = Box] /\ servers' = [servers EXCEPT ![k] = c]
          /\ again' = [again EXCEPT ![c] = serverID[c] # None]
          /\ sessions' = sessions /\ c \in Registrars /\ role[c] # "server"
      BY <1>3 DEF Register, CanRegister, BoxCode, pairing
    <2>2. serverID[c] = None /\ k # NoCode /\ Box # None
      BY <1>0, <2>1 DEF RolesInv, BoxCode
    <2>3. ASSUME NEW d \in Conn
          PROVE  /\ ~again'[d]
                 /\ serverID'[d] # None => d \in Registrars /\ role'[d] = "server" /\ code'[d] # NoCode
      BY <1>0, <2>1, <2>2 DEF RolesInv, TypeOK
    <2>4. ASSUME NEW j \in Code, servers'[j] # None PROVE j # NoCode
      BY <1>0, <2>1, <2>2, <2>4 DEF RolesInv, TypeOK
    <2>5. ASSUME NEW s \in Sid, sessions'[s] # NoSession PROVE serverID'[sessions'[s].server] # None
      BY <1>0, <2>1, <2>2, <2>5 DEF RolesInv, NamesInv, TypeOK
    <2>6. QED BY <2>3, <2>4, <2>5 DEF RolesInv
  <1>4. ASSUME NEW c \in Conn, NEW k \in BoxCode, NEW s \in Sid, Connect(c, k, s) PROVE RolesInv'
    <2>1. /\ role' = [role EXCEPT ![c] = "client"] /\ UNCHANGED <<code, serverID, servers, again>>
          /\ sessions' = [sessions EXCEPT ![s] = [server |-> servers[k], client |-> c]]
          /\ servers[k] # None /\ c \in Callers /\ k \in Code
      BY <1>4 DEF Connect, BoxCode
    <2>2. serverID[c] = None
      BY <1>0, <2>1 DEF RolesInv
    <2>3. ASSUME NEW d \in Conn
          PROVE  /\ ~again'[d]
                 /\ serverID'[d] # None => d \in Registrars /\ role'[d] = "server" /\ code'[d] # NoCode
      BY <1>0, <2>1, <2>2 DEF RolesInv, TypeOK
    <2>4. ASSUME NEW r \in Sid, sessions'[r] # NoSession PROVE serverID'[sessions'[r].server] # None
      BY <1>0, <2>1, <2>4 DEF RolesInv, NamesInv, TypeOK
    <2>5. QED BY <1>0, <2>1, <2>3, <2>4 DEF RolesInv
  <1>5. ASSUME NEW c \in Conn, CoordinatorReads(c) PROVE RolesInv'
    <2> DEFINE m == Head(outbox[c])
    <2>1. m \in Requests(c)
      BY <1>5, HeadTailProperties DEF CoordinatorReads, RInv, OutboxInv
    <2>2. CASE m.type = "register" /\ Register(c, m.code, Box)
      BY <1>3, <2>1, <2>2 DEF Requests
    <2>3. CASE m.type = "connect" /\ \E s \in Sid : Connect(c, m.code, s)
      BY <1>4, <2>1, <2>3 DEF Requests
    <2>4. CASE RefuseMessage(c) \/ RefuseRegister(c, m.code, Box) \/ Relay(c, m.type, m.sid)
      BY <1>1, <2>4 DEF RefuseMessage, RefuseRegister, Relay, pairing
    <2>5. QED BY <1>5, <2>2, <2>3, <2>4 DEF CoordinatorReads
  <1>6. ASSUME NEW c \in Conn, Send(c) \/ SendFails(c) \/ Vanish(c) \/ Receive(c)
                                \/ \E a \in Ip : Admit(c, a) \/ Refuse(c, a)
        PROVE UNCHANGED <<registry, sessions>>
    BY <1>6 DEF Send, SendFails, Vanish, Receive, Admit, Refuse, pairing
  <1>7. CASE CoordinatorNext
    BY <1>1, <1>2, <1>5, <1>6, <1>7 DEF CoordinatorNext, CoordinatorActs, SeesClose, NetworkFails
  <1>8. CASE AppNext \/ UNCHANGED rvars
    <2>1. UNCHANGED vars
      BY <1>8 DEF AppNext, Settle, PatchRemote, RotateCode, SaveConfig, CopyEnabled, CopyCode, RevokeTokens, CancelPeer, SyncStops, SyncStarts, rvars
    <2>2. QED BY <1>1, <2>1 DEF vars, pairing
  <1>9. ASSUME NEW p \in Peer, Active(p, "verdict") \/ Active(p, "serve"), Receive(ws[p])
        PROVE RolesInv'
    <2>1. ws[p] \in Conn
      BY <1>9 DEF Active, RInv, PeerInv
    <2>2. QED BY <1>1, <1>6, <1>9, <2>1
  <1>10. ASSUME NEW p \in Peer,
               ReadCode(p) \/ SendRegister(p) \/ ReadFails(p) \/ Stop(p) \/ \E s \in Sid : RtcEnds(p, s)
        PROVE RolesInv'
    <2>1. UNCHANGED vars
      BY <1>10 DEF ReadCode, SendRegister, ReadFails, Stop, RtcEnds
    <2>2. QED BY <1>1, <2>1 DEF vars, pairing
  <1>11. CASE PeerNext
    BY <1>1, <1>6, <1>9, <1>10, <1>11 DEF PeerNext, Verdict, Serve, Dial, DialRefused
  <1>12. ASSUME NEW c \in Callers, HangUp(c) PROVE RolesInv'
    BY <1>1, <1>12 DEF HangUp, vars, pairing
  <1>13. CASE ClientNext
    BY <1>1, <1>6, <1>12, <1>13 DEF ClientNext, Call, CallRefused, Called, Answered
  <1>14. QED BY <1>7, <1>8, <1>11, <1>13 DEF RNext

(***************************************************************************)
(* The ends and the wires keep their types.                                *)
(***************************************************************************)

\* A request that an end may make is on the wire, or lost.
LEMMA PostKeeps ==
  ASSUME OutboxInv, NEW c \in Conn, NEW m \in Requests(c), Post(c, m) PROVE OutboxInv'
  <1>1. Append(outbox[c], m) \in Seq(Requests(c))
    BY AppendProperties DEF OutboxInv
  <1>2. outbox' = outbox \/ outbox' = [outbox EXCEPT ![c] = Append(@, m)]
    BY DEF Post
  <1>3. QED BY <1>1, <1>2 DEF OutboxInv, Requests, AnyRequest

\* The kinds of request there are.
LEMMA RequestTypes ==
  /\ \A c \in Registrars, k \in BoxCode : Request("register", k, None) \in Requests(c)
  /\ \A c \in Callers, k \in BoxCode : Request("connect", k, None) \in Requests(c)
  /\ \A c \in Conn, s \in Sid, t \in {"offer", "answer"} : Request(t, None, s) \in Requests(c)
  BY RemoteAssumption DEF Request, Requests, AnyRequest, BoxCode

\* Every step keeps what is on the wires to what an end may ask.
LEMMA OutboxStep == ASSUME RInv, [RNext]_rvars PROVE OutboxInv'
  <1> USE DEF RInv
  <1>1. CASE UNCHANGED outbox
    BY <1>1 DEF OutboxInv, Requests, AnyRequest
  <1>2. ASSUME NEW p \in Peer, SendRegister(p) PROVE OutboxInv'
    <2>1. ws[p] \in Registrars /\ pcode[p] \in BoxCode
      BY <1>2 DEF SendRegister, Active, PeerInv
    <2>2. ws[p] \in Conn /\ Request("register", pcode[p], None) \in Requests(ws[p])
      BY <2>1, RequestTypes, BrokerAssumption
    <2>3. QED BY <1>2, <2>2, PostKeeps DEF SendRegister
  <1>3. ASSUME NEW p \in Peer, Serve(p) PROVE OutboxInv'
    <2> DEFINE m == Head(inbox[ws[p]])
    <2>1. ws[p] \in Conn
      BY <1>3, BrokerAssumption DEF Serve, Active, PeerInv
    <2>2. Named(m)
      BY <1>3, <2>1, HeadNamed DEF Serve, Receive, IInv
    <2>3. CASE m.type = "offer" /\ Post(ws[p], Request("answer", None, m.sid))
      <3>1. m.sid \in Sid
        BY <2>2, <2>3, RemoteAssumption DEF Named
      <3>2. QED BY <2>1, <2>3, <3>1, RequestTypes, PostKeeps
    <2>4. CASE UNCHANGED wires
      BY <1>1, <2>4 DEF wires
    <2>5. QED BY <1>3, <2>3, <2>4 DEF Serve
  <1>4. ASSUME NEW c \in Callers, NEW k \in BoxCode, NEW a \in Ip, Call(c, k, a) PROVE OutboxInv'
    <2>1. c \in Conn /\ Request("connect", k, None) \in Requests(c)
      BY RequestTypes, BrokerAssumption
    <2>2. <<Request("connect", k, None)>> \in Seq(Requests(c))
      BY <2>1
    <2>3. outbox' = [outbox EXCEPT ![c] = <<Request("connect", k, None)>>]
      BY <1>4 DEF Call
    <2>4. QED BY <2>1, <2>2, <2>3 DEF OutboxInv, Requests, AnyRequest
  <1>5. ASSUME NEW c \in Callers, Called(c) PROVE OutboxInv'
    <2> DEFINE m == Head(inbox[c])
    <2>1. c \in Conn
      BY BrokerAssumption
    <2>2. Named(m)
      BY <1>5, <2>1, HeadNamed DEF Called, Receive, IInv
    <2>3. CASE m.type = "paired" /\ Post(c, Request("offer", None, m.sid))
      <3>1. m.sid \in Sid
        BY <2>2, <2>3 DEF Named
      <3>2. QED BY <2>1, <2>3, <3>1, RequestTypes, PostKeeps
    <2>4. QED BY <1>1, <1>5, <2>3 DEF Called
  <1>6. ASSUME NEW c \in Conn, CoordinatorReads(c) PROVE OutboxInv'
    <2>1. Tail(outbox[c]) \in Seq(Requests(c))
      BY <1>6, HeadTailProperties DEF CoordinatorReads, OutboxInv
    <2>2. outbox' = [outbox EXCEPT ![c] = Tail(@)]
      BY <1>6 DEF CoordinatorReads
    <2>3. QED BY <2>1, <2>2 DEF OutboxInv, Requests, AnyRequest
  <1>7. ASSUME NEW c \in Conn, NetworkFails(c) PROVE OutboxInv'
    <2>1. <<>> \in Seq(Requests(c))
      OBVIOUS
    <2>2. outbox' = [outbox EXCEPT ![c] = <<>>]
      BY <1>7 DEF NetworkFails
    <2>3. QED BY <2>1, <2>2 DEF OutboxInv, Requests, AnyRequest
  <1>8. CASE AppNext
    BY <1>1, <1>8 DEF AppNext, Settle, PatchRemote, RotateCode, SaveConfig, CopyEnabled, CopyCode, RevokeTokens, CancelPeer, SyncStops, SyncStarts, wires
  <1>9. CASE PeerNext
    BY <1>1, <1>2, <1>3, <1>9 DEF PeerNext, ReadCode, Verdict, ReadFails, Stop, RtcEnds, Dial,
       DialRefused, wires
  <1>10. CASE ClientNext
    BY <1>1, <1>4, <1>5, <1>10 DEF ClientNext, CallRefused, Answered, HangUp, wires
  <1>11. CASE CoordinatorNext
    BY <1>1, <1>6, <1>7, <1>11 DEF CoordinatorNext, CoordinatorActs, SeesClose, wires
  <1>12. CASE UNCHANGED rvars
    BY <1>1, <1>12 DEF rvars, wires
  <1>13. QED BY <1>8, <1>9, <1>10, <1>11, <1>12 DEF RNext

\* Every step keeps a peer's code, socket and sessions.
LEMMA PeerStep == ASSUME RInv, [RNext]_rvars PROVE PeerInv'
  <1> USE DEF RInv
  <1>0. AppTypes
    BY DEF AppInv
  <1>1. CASE UNCHANGED peers
    BY <1>1 DEF PeerInv, peers
  <1>2. ASSUME NEW p \in Peer, UNCHANGED <<pcode, ws, rtc>>,
               \/ ppc[p] \in {"none", "register", "verdict", "serve"} /\ \E x \in {"start", "dial"} :
                    ppc' = [ppc EXCEPT ![p] = x] /\ (x = "dial" => ppc[p] # "none")
               \/ ppc[p] = "register" /\ ppc' = [ppc EXCEPT ![p] = "verdict"]
               \/ ppc[p] = "verdict" /\ ppc' = [ppc EXCEPT ![p] = "serve"]
               \/ ppc' = ppc
        PROVE PeerInv'
    BY <1>0, <1>2 DEF PeerInv, AppTypes
  <1>3. ASSUME NEW p \in Peer, ReadCode(p) PROVE PeerInv'
    BY <1>0, <1>3 DEF ReadCode, app, config, Live, Settings, PeerInv, AppTypes
  <1>4. ASSUME NEW p \in Peer, NEW c \in Conn, NEW a \in Ip, Dial(p, c, a) PROVE PeerInv'
    <2>1. /\ c \in Registrars /\ c # None /\ ppc[p] = "dial"
          /\ ws' = [ws EXCEPT ![p] = c] /\ ppc' = [ppc EXCEPT ![p] = "register"]
          /\ UNCHANGED <<pcode, rtc>>
      BY <1>4, BrokerAssumption DEF Dial, Active
    <2>2. QED BY <1>0, <2>1 DEF PeerInv, AppTypes
  <1>5. ASSUME NEW p \in Peer, Serve(p) PROVE PeerInv'
    <2> DEFINE m == Head(inbox[ws[p]])
    <2>1. ws[p] \in Conn
      BY <1>5, BrokerAssumption DEF Serve, Active, PeerInv
    <2>2. Named(m)
      BY <1>5, <2>1, HeadNamed DEF Serve, Receive, IInv
    <2>3. UNCHANGED <<ppc, pcode, ws>>
      BY <1>5 DEF Serve
    <2>4. ASSUME NEW x \in {"new", "answered"}, m.type \in {"paired", "offer"},
                 rtc' = [rtc EXCEPT ![p][m.sid] = x]
          PROVE PeerInv'
      <3>1. m.sid \in Sid
        BY <2>2, <2>4, RemoteAssumption DEF Named
      <3>2. rtc' \in [Peer -> [Sid -> {"none", "new", "answered"}]]
        BY <2>4, <3>1 DEF PeerInv
      <3>3. QED BY <2>3, <3>2 DEF PeerInv
    <2>5. CASE UNCHANGED rtc
      BY <2>3, <2>5 DEF PeerInv
    <2>6. QED BY <1>5, <2>4, <2>5 DEF Serve
  <1>6. ASSUME NEW p \in Peer, NEW s \in Sid, RtcEnds(p, s) PROVE PeerInv'
    <2>1. rtc' \in [Peer -> [Sid -> {"none", "new", "answered"}]]
      BY <1>6 DEF RtcEnds, PeerInv
    <2>2. QED BY <1>6, <2>1 DEF RtcEnds, PeerInv
  <1>7. ASSUME NEW p \in Peer, Stop(p) PROVE PeerInv'
    <2>1. /\ ppc' = [ppc EXCEPT ![p] = "none"]
          /\ pcode' = [pcode EXCEPT ![p] = None]
          /\ ws' = [ws EXCEPT ![p] = None]
          /\ rtc' = [rtc EXCEPT ![p] = [s \in Sid |-> IF @[s] = "new" THEN "none" ELSE @[s]]]
      BY <1>7 DEF Stop
    <2>2. rtc' \in [Peer -> [Sid -> {"none", "new", "answered"}]]
      BY <2>1 DEF PeerInv
    <2>3. QED BY <1>0, <2>1, <2>2 DEF PeerInv, AppTypes
  <1>8. ASSUME NEW h \in Handler, NEW p \in Peer, SyncStarts(h, p) PROVE PeerInv'
    BY <1>0, <1>8 DEF SyncStarts, PeerInv, AppTypes
  <1>9. CASE AppNext
    <2>1. ASSUME NEW h \in Handler, CancelPeer(h) \/ SyncStops(h) PROVE UNCHANGED <<ppc, pcode, ws, rtc>>
      BY <2>1 DEF CancelPeer, SyncStops
    <2>2. CASE UNCHANGED <<ppc, pcode, ws, rtc>>
      BY <2>2 DEF PeerInv
    <2>3. QED BY <1>1, <1>8, <1>9, <2>1, <2>2 DEF AppNext, Settle, PatchRemote, RotateCode,
        SaveConfig, CopyEnabled, CopyCode, RevokeTokens, peers
  <1>10. CASE PeerNext
    <2>1. ASSUME NEW p \in Peer, SendRegister(p) PROVE PeerInv'
      BY <1>2, <2>1 DEF SendRegister, Active
    <2>2. ASSUME NEW p \in Peer, Verdict(p) PROVE PeerInv'
      BY <1>2, <2>2 DEF Verdict, Active
    <2>3. ASSUME NEW p \in Peer, ReadFails(p) PROVE PeerInv'
      BY <1>2, <2>3 DEF ReadFails
    <2>4. ASSUME NEW p \in Peer, NEW c \in Conn, NEW a \in Ip, DialRefused(p, c, a) PROVE PeerInv'
      BY <1>1, <2>4 DEF DialRefused
    <2>5. QED BY <1>3, <1>4, <1>5, <1>6, <1>7, <1>10, <2>1, <2>2, <2>3, <2>4 DEF PeerNext
  <1>11. CASE ClientNext
    BY <1>1, <1>11 DEF ClientNext, Call, CallRefused, Called, Answered, HangUp
  <1>12. CASE CoordinatorNext
    BY <1>1, <1>12 DEF CoordinatorNext, CoordinatorReads, CoordinatorActs, SeesClose, NetworkFails
  <1>13. CASE UNCHANGED rvars
    BY <1>1, <1>13 DEF rvars
  <1>14. QED BY <1>9, <1>10, <1>11, <1>12, <1>13 DEF RNext

\* Every step keeps the types of the clients and of what the sockets went through.
LEMMA EndsStep == ASSUME RInv, [RNext]_rvars PROVE EndsInv'
  <1> USE DEF RInv
  <1>1. ASSUME UNCHANGED client, UNCHANGED spent, shut' \subseteq Conn PROVE EndsInv'
    BY <1>1 DEF client, EndsInv
  <1>2. CASE AppNext \/ UNCHANGED rvars
    <2>1. UNCHANGED <<client, spent, shut>>
      BY <1>2 DEF AppNext, Settle, PatchRemote, RotateCode, SaveConfig, CopyEnabled, CopyCode, RevokeTokens, CancelPeer, SyncStops, SyncStarts, wires, rvars
    <2>2. QED BY <1>1, <2>1 DEF EndsInv
  <1>3. CASE PeerNext
    <2>1. ASSUME NEW p \in Peer, ReadCode(p) \/ SendRegister(p) \/ Serve(p)
          PROVE EndsInv'
      <3>1. UNCHANGED <<client, spent, shut>>
        BY <2>1 DEF ReadCode, SendRegister, Serve, Post, wires
      <3>2. QED BY <1>1, <3>1 DEF EndsInv
    <2>2. ASSUME NEW p \in Peer, Verdict(p) \/ ReadFails(p) \/ Stop(p)
          PROVE EndsInv'
      <3>1. UNCHANGED client /\ UNCHANGED spent /\ shut' \subseteq shut \cup ({ws[p]} \ {None})
        <4>1. CASE Stop(p)
          BY <4>1 DEF Stop, Closed
        <4>2. CASE Verdict(p) \/ ReadFails(p)
          <5>1. ws[p] # None
            BY <4>2 DEF Verdict, ReadFails, Active, PeerInv
          <5>2. QED BY <4>2, <5>1 DEF Verdict, ReadFails
        <4>3. QED BY <2>2, <4>1, <4>2
      <3>2. {ws[p]} \ {None} \subseteq Conn
        BY BrokerAssumption DEF PeerInv
      <3>3. QED BY <1>1, <3>1, <3>2 DEF EndsInv
    <2>5. ASSUME NEW p \in Peer, NEW s \in Sid, RtcEnds(p, s) PROVE EndsInv'
      BY <1>1, <2>5 DEF RtcEnds, wires, EndsInv
    <2>6. ASSUME NEW p \in Peer, NEW c \in Conn, NEW a \in Ip, Dial(p, c, a) \/ DialRefused(p, c, a)
          PROVE EndsInv'
      BY <1>1, <2>6 DEF Dial, DialRefused, wires, EndsInv
    <2>7. QED BY <1>3, <2>1, <2>2, <2>5, <2>6 DEF PeerNext
  <1>4. CASE ClientNext
    <2> USE BrokerAssumption DEF EndsInv
    <2>1. ASSUME NEW c \in Callers, NEW k \in BoxCode, NEW a \in Ip, Call(c, k, a) PROVE EndsInv'
      BY <2>1 DEF Call
    <2>2. ASSUME NEW c \in Callers, NEW a \in Ip, CallRefused(c, a) PROVE EndsInv'
      BY <2>2 DEF CallRefused, wires
    <2>3. ASSUME NEW c \in Callers, Called(c) PROVE EndsInv'
      <3> DEFINE m == Head(inbox[c])
      <3>1. Named(m)
        BY <2>3, HeadNamed DEF Called, Receive, IInv
      <3>2. CASE m.type = "paired"
        <4>1. m.sid \in Sid
          BY <3>1, <3>2 DEF Named
        <4>2. QED BY <2>3, <3>2, <4>1 DEF Called, Post
      <3>3. CASE m.type # "paired"
        BY <2>3, <3>3 DEF Called
      <3>4. QED BY <3>2, <3>3
    <2>4. ASSUME NEW c \in Callers, Answered(c) \/ HangUp(c) PROVE EndsInv'
      BY <2>4 DEF Answered, HangUp, wires
    <2>5. QED BY <1>4, <2>1, <2>2, <2>3, <2>4 DEF ClientNext
  <1>5. CASE CoordinatorNext
    BY <1>5 DEF CoordinatorNext, CoordinatorReads, CoordinatorActs, SeesClose, NetworkFails,
       wires, client, EndsInv
  <1>6. QED BY <1>2, <1>3, <1>4, <1>5 DEF RNext

(***************************************************************************)
(* The theorems about the whole.                                           *)
(***************************************************************************)

\* It starts well.
LEMMA RInitInv == ASSUME RInit PROVE RInv
  <1>1. /\ Init /\ todo = [c \in Conn |-> <<>>] /\ inbox = [c \in Conn |-> <<>>]
        /\ ppc = [p \in Peer |-> "none"] /\ ws = [p \in Peer |-> None]
        /\ rtc = [p \in Peer |-> NoRtc]
        /\ cpc = [c \in Callers |-> "idle"] /\ csid = [c \in Callers |-> None]
        /\ outbox = [c \in Conn |-> <<>>] /\ shut = {} /\ spent = {}
    BY DEF RInit, Init
  <1>2. IInv /\ AppInv
    BY <1>1, InitInv, AppStarts
  <1>3. NamedInv
    BY <1>1 DEF NamedInv
  <1>4. OutboxInv
    <2>1. \A c \in Conn : <<>> \in Seq(Requests(c))
      OBVIOUS
    <2>2. QED BY <1>1, <2>1 DEF OutboxInv
  <1>5. PeerInv /\ EndsInv
    BY <1>1 DEF PeerInv, EndsInv, NoRtc
  <1>6. RolesInv
    BY DEF RInit, Init, RolesInv
  <1>7. QED BY <1>2, <1>3, <1>4, <1>5, <1>6 DEF RInv

\* The invariant of the whole is inductive.
LEMMA RHolds == RSpec => []RInv
  <1>1. ASSUME RInv, [RNext]_rvars PROVE RInv'
    <2>1. [Next]_vars
      BY <1>1, StepDrives
    <2>2. IInv'
      BY <1>1, <2>1, TypeStep, RegistryStep, RelayStep, CountsStep, CappedStep DEF IInv, RInv
    <2>3. NamedInv'
      BY <1>1, <2>1, NamedStep DEF RInv
    <2>4. AppInv'
      BY <1>1, AppStep DEF RInv
    <2>5. QED BY <1>1, <2>2, <2>3, <2>4, OutboxStep, PeerStep, EndsStep, RolesStep DEF RInv
  <1>2. QED BY <1>1, RInitInv, PTL DEF RSpec

\* The box, its clients and the wires between, taken together, make the
\* coordinator take no step that Broker does not have: what BrokerProofs shows
\* of it holds here, whatever is lost on the way and however late it is read.
THEOREM ImplementsBroker == RSpec => Spec
  <1>1. RInit => Init
    BY DEF RInit
  <1>2. RInv /\ [RNext]_rvars => [Next]_vars
    BY StepDrives
  <1>3. QED BY <1>1, <1>2, RHolds, PTL DEF RSpec, Spec

\* Every variable of the whole keeps its type.
THEOREM WholeTypes == RSpec => []RTypeOK
  <1>1. ASSUME RInv PROVE RTypeOK
    <2>1. outbox \in [Conn -> Seq(AnyRequest)]
      <3>1. \A c \in Conn : Requests(c) \subseteq AnyRequest
        BY DEF Requests
      <3>2. \A c \in Conn : outbox[c] \in Seq(AnyRequest)
        BY <1>1, <3>1, SeqMonotonic DEF RInv, OutboxInv
      <3>3. QED BY <1>1, <3>2 DEF RInv, OutboxInv
    <2>2. QED
      BY <1>1, <2>1 DEF RInv, IInv, AppInv, AppTypes, PeerInv, EndsInv, RTypeOK, AnyRequest
  <1>2. QED BY <1>1, RHolds, PTL

\* The directory never points a client at a box that is gone for good, although
\* the box is started, stopped and restarted by any number of settings handlers.
THEOREM DirectoryLiveEndToEnd == RSpec => []DirectoryAlive
  <1>1. RInv => DirectoryAlive
    BY NothingLingers DEF RInv
  <1>2. QED BY <1>1, RHolds, PTL

(***************************************************************************)
(* An offer finds its session.                                             *)
(*                                                                         *)
(* What becomes an offer for a session is in one place at most: "paired"   *)
(* owed to the client, then in the client's socket, then the offer the     *)
(* client sends, then what the coordinator owes the box, then the box's    *)
(* socket.  And the box's "paired" is ahead of it.                         *)
(***************************************************************************)
Offer(m, s) == m.type = "offer" /\ m.sid = s
Paired(m, s) == m.type = "paired" /\ m.sid = s

Wire == {"todo", "inbox", "outbox"}

\* The i-th message on c's wire x is, or may yet become, the offer for s.
At(x, c, i, s) ==
  \/ /\ x = "todo" /\ i \in 1..Len(todo[c])
     /\ \/ Offer(todo[c][i].msg, s)
        \/ Paired(todo[c][i].msg, s) /\ todo[c][i].to \in Callers
  \/ /\ x = "inbox" /\ i \in 1..Len(inbox[c])
     /\ Offer(inbox[c][i], s) \/ (Paired(inbox[c][i], s) /\ c \in Callers)
  \/ x = "outbox" /\ i \in 1..Len(outbox[c]) /\ Offer(outbox[c][i], s)

\* No offer for s is made any more.
Over(s) == \A x \in Wire, c \in Conn, i \in Nat : ~At(x, c, i, s)

One(s) ==
  \A x, y \in Wire, c, d \in Conn, i, j \in Nat :
    At(x, c, i, s) /\ At(y, d, j, s) => x = y /\ c = d /\ i = j

OneOfferInv == \A s \in Sid : One(s) /\ (s \notin spent => Over(s))

\* What was over stays so, but for a session that begins.
StaysOver == \A s \in Sid : Over(s) /\ (s \in spent \/ s \notin spent') => Over(s)'

\* Of the messages on c0's wire x0, the first may go (if k = 1) to the place j on
\* d's wire y, and the others move up by k; those on the other wires stay.
Moves(x0, c0, k, y, d, j) ==
  \A x \in Wire, c \in Conn, i \in Nat, s \in Sid : At(x, c, i, s)' =>
    \/ x = y /\ c = d /\ i = j /\ k = 1 /\ At(x0, c0, 1, s)
    \/ x = x0 /\ c = c0 /\ i >= 1 /\ At(x, c, i + k, s)
    \/ (x # x0 \/ c # c0) /\ At(x, c, i, s)

\* Then what was once is once, and what was over stays over.
LEMMA OneMoves ==
  ASSUME OneOfferInv, spent' = spent,
         NEW x0 \in Wire, NEW c0 \in Conn, NEW k \in {0, 1},
         NEW y \in Wire, NEW d \in Conn, NEW j \in Nat,
         Moves(x0, c0, k, y, d, j)
  PROVE  OneOfferInv' /\ StaysOver
  <1>1. ASSUME NEW s \in Sid PROVE One(s)'
    <2>1. One(s)
      BY DEF OneOfferInv
    <2>2. SUFFICES ASSUME NEW x1 \in Wire, NEW x2 \in Wire, NEW c1 \in Conn, NEW c2 \in Conn,
                          NEW i1 \in Nat, NEW i2 \in Nat, At(x1, c1, i1, s)', At(x2, c2, i2, s)'
                   PROVE  x1 = x2 /\ c1 = c2 /\ i1 = i2
      BY DEF One
    <2>3. \/ x1 = y /\ c1 = d /\ i1 = j /\ k = 1 /\ At(x0, c0, 1, s)
          \/ x1 = x0 /\ c1 = c0 /\ i1 >= 1 /\ At(x1, c1, i1 + k, s)
          \/ (x1 # x0 \/ c1 # c0) /\ At(x1, c1, i1, s)
      BY <2>2 DEF Moves
    <2>4. \/ x2 = y /\ c2 = d /\ i2 = j /\ k = 1 /\ At(x0, c0, 1, s)
          \/ x2 = x0 /\ c2 = c0 /\ i2 >= 1 /\ At(x2, c2, i2 + k, s)
          \/ (x2 # x0 \/ c2 # c0) /\ At(x2, c2, i2, s)
      BY <2>2 DEF Moves
    <2>5. i1 + k \in Nat /\ i2 + k \in Nat /\ 1 \in Nat
      OBVIOUS
    <2>6. QED BY <2>1, <2>3, <2>4, <2>5 DEF One
  <1>2. ASSUME NEW s \in Sid, Over(s) PROVE Over(s)'
    <2>1. \A i \in Nat : i + k \in Nat
      OBVIOUS
    <2>2. QED BY <1>2, <2>1 DEF Over, Moves
  <1>3. QED BY <1>1, <1>2 DEF OneOfferInv, StaysOver

\* Nothing on the wires moves.
LEMMA OneStays ==
  ASSUME OneOfferInv, UNCHANGED <<todo, inbox, outbox, spent>> PROVE OneOfferInv' /\ StaysOver
  <1>1. \A x, c, i, s : At(x, c, i, s)' <=> At(x, c, i, s)
    BY DEF At, Offer, Paired
  <1>2. QED BY <1>1 DEF OneOfferInv, One, Over, StaysOver

\* What is behind the head of a wire, and what is put at its end.
LEMMA TailAt ==
  ASSUME NEW S, NEW q \in Seq(S), q # <<>>
  PROVE  /\ Head(q) = q[1] /\ 1 \in 1..Len(q) /\ Len(q) \in Nat
         /\ \A i \in 1..Len(Tail(q)) : Tail(q)[i] = q[i + 1] /\ i + 1 \in 1..Len(q) /\ i >= 1
  <1>1. Len(Tail(q)) = Len(q) - 1 /\ \A i \in 1..Len(Tail(q)) : Tail(q)[i] = q[i + 1]
    BY HeadTailProperties
  <1>2. Len(q) \in Nat \ {0}
    BY EmptySeq
  <1>3. QED BY <1>1, <1>2

\* What is put at the end of a wire.
LEMMA AppendAt ==
  ASSUME NEW S, NEW q \in Seq(S), NEW m \in S
  PROVE  /\ Len(q) \in Nat /\ Len(Append(q, m)) = Len(q) + 1
         /\ Append(q, m)[Len(q) + 1] = m
         /\ \A i \in 1..Len(q) : Append(q, m)[i] = q[i]
         /\ \A i \in 1..Len(Append(q, m)) : i \in 1..Len(q) \/ i = Len(q) + 1
  BY AppendProperties, LenProperties

\* The types of the three wires.
LEMMA WireTypes ==
  ASSUME RInv, NEW c \in Conn
  PROVE  todo[c] \in Seq(Send1) /\ inbox[c] \in Seq(Messages) /\ outbox[c] \in Seq(Requests(c))
  BY DEF RInv, IInv, TypeOK, OutboxInv, Send1

\* A socket's end reads a message.
LEMMA OneRead ==
  ASSUME RInv, OneOfferInv, NEW c \in Conn, Receive(c), UNCHANGED <<outbox, spent>>
  PROVE  OneOfferInv' /\ StaysOver /\ Moves("inbox", c, 1, "inbox", c, 0)
  <1>1. \A b \in Conn : inbox'[b] = IF b = c THEN Tail(inbox[c]) ELSE inbox[b]
    BY DEF Receive, RInv, IInv, TypeOK
  <1>2. \A i \in 1..Len(Tail(inbox[c])) :
          Tail(inbox[c])[i] = inbox[c][i + 1] /\ i + 1 \in 1..Len(inbox[c]) /\ i >= 1
    BY WireTypes, TailAt DEF Receive
  <1>3. todo' = todo
    BY DEF Receive
  <1>4. ASSUME NEW x \in Wire, NEW b \in Conn, NEW i \in Nat, NEW s \in Sid, At(x, b, i, s)'
        PROVE  \/ x = "inbox" /\ b = c /\ i >= 1 /\ At(x, b, i + 1, s)
               \/ (x # "inbox" \/ b # c) /\ At(x, b, i, s)
    BY <1>1, <1>2, <1>3, <1>4 DEF At, Offer, Paired
  <1>5. Moves("inbox", c, 1, "inbox", c, 0)
    BY <1>4 DEF Moves
  <1>6. QED BY <1>5, OneMoves DEF Wire

\* An end sends what is no offer.
LEMMA OnePost ==
  ASSUME RInv, OneOfferInv, NEW c \in Conn, NEW m \in Requests(c), m.type # "offer",
         Post(c, m), UNCHANGED <<todo, inbox>>
  PROVE  OneOfferInv' /\ StaysOver
  <1>1. \A b \in Conn : outbox'[b] = outbox[b] \/ (b = c /\ outbox'[b] = Append(outbox[c], m))
    BY DEF Post, RInv, OutboxInv
  <1>2. /\ Len(outbox[c]) \in Nat /\ Append(outbox[c], m)[Len(outbox[c]) + 1] = m
        /\ \A i \in 1..Len(outbox[c]) : Append(outbox[c], m)[i] = outbox[c][i]
        /\ \A i \in 1..Len(Append(outbox[c], m)) : i \in 1..Len(outbox[c]) \/ i = Len(outbox[c]) + 1
    BY WireTypes, AppendAt
  <1>3. ASSUME NEW x \in Wire, NEW b \in Conn, NEW i \in Nat, NEW s \in Sid, At(x, b, i, s)'
        PROVE  At(x, b, i, s) /\ i >= 1
    BY <1>1, <1>2, <1>3 DEF At, Offer, Paired
  <1>4. Moves("outbox", c, 0, "outbox", c, 0)
    BY <1>3 DEF Moves
  <1>5. QED BY <1>4, OneMoves DEF Wire, Post

\* The box reads a message, and may answer it.
LEMMA OneServed ==
  ASSUME RInv, OneOfferInv, NEW c \in Conn, Receive(c), NEW s0 \in Sid,
         Post(c, Request("answer", None, s0))
  PROVE  OneOfferInv' /\ StaysOver /\ Moves("inbox", c, 1, "inbox", c, 0)
  <1> DEFINE m == Request("answer", None, s0)
  <1>1. \A b \in Conn : inbox'[b] = IF b = c THEN Tail(inbox[c]) ELSE inbox[b]
    BY DEF Receive, RInv, IInv, TypeOK
  <1>2. \A i \in 1..Len(Tail(inbox[c])) :
          Tail(inbox[c])[i] = inbox[c][i + 1] /\ i + 1 \in 1..Len(inbox[c]) /\ i >= 1
    BY WireTypes, TailAt DEF Receive
  <1>3. todo' = todo
    BY DEF Receive
  <1>4. m \in Requests(c) /\ m.type # "offer"
    BY RequestTypes DEF Request
  <1>5. \A b \in Conn : outbox'[b] = outbox[b] \/ (b = c /\ outbox'[b] = Append(outbox[c], m))
    BY DEF Post, RInv, OutboxInv
  <1>6. /\ Len(outbox[c]) \in Nat /\ Append(outbox[c], m)[Len(outbox[c]) + 1] = m
        /\ \A i \in 1..Len(outbox[c]) : Append(outbox[c], m)[i] = outbox[c][i]
        /\ \A i \in 1..Len(Append(outbox[c], m)) : i \in 1..Len(outbox[c]) \/ i = Len(outbox[c]) + 1
    BY <1>4, WireTypes, AppendAt
  <1> HIDE DEF m
  <1>7. ASSUME NEW b \in Conn, NEW i \in Nat, NEW s \in Sid, At("outbox", b, i, s)'
        PROVE  At("outbox", b, i, s)
    BY <1>4, <1>5, <1>6, <1>7 DEF At, Offer, Paired
  <1>8. ASSUME NEW x \in Wire, NEW b \in Conn, NEW i \in Nat, NEW s \in Sid, At(x, b, i, s)'
        PROVE  \/ x = "inbox" /\ b = c /\ i >= 1 /\ At(x, b, i + 1, s)
               \/ (x # "inbox" \/ b # c) /\ At(x, b, i, s)
    <2>1. CASE x = "outbox"
      BY <1>7, <1>8, <2>1
    <2>2. CASE x # "outbox"
      BY <1>1, <1>2, <1>3, <1>8, <2>2 DEF At, Offer, Paired
    <2>3. QED BY <2>1, <2>2
  <1>9. Moves("inbox", c, 1, "inbox", c, 0)
    BY <1>8 DEF Moves
  <1>10. QED BY <1>9, OneMoves DEF Wire, Post

\* The client that is told of its session makes the offer.
LEMMA OneCalled ==
  ASSUME RInv, OneOfferInv, NEW c \in Callers, Called(c) PROVE OneOfferInv' /\ StaysOver
  <1> DEFINE s0 == Head(inbox[c]).sid
             m == Request("offer", None, s0)
             n == Len(outbox[c]) + 1
  <1>0. c \in Conn
    BY BrokerAssumption
  <1>1. CASE UNCHANGED <<outbox, spent>>
    BY <1>0, <1>1, OneRead DEF Called
  <1>2. CASE Head(inbox[c]).type = "paired" /\ Post(c, m)
    <2>1. \A b \in Conn : inbox'[b] = IF b = c THEN Tail(inbox[c]) ELSE inbox[b]
      BY <1>0 DEF Called, Receive, RInv, IInv, TypeOK
    <2>2. /\ Head(inbox[c]) = inbox[c][1] /\ 1 \in 1..Len(inbox[c])
          /\ \A i \in 1..Len(Tail(inbox[c])) :
               Tail(inbox[c])[i] = inbox[c][i + 1] /\ i + 1 \in 1..Len(inbox[c]) /\ i >= 1
      BY <1>0, WireTypes, TailAt DEF Called, Receive
    <2>3. todo' = todo /\ spent' = spent
      BY <1>2 DEF Called, Receive, Post
    <2>4. s0 \in Sid
      BY <1>0, <1>2, HeadNamed DEF Called, Receive, RInv, IInv, Named
    <2>5. m \in Requests(c) /\ m.sid = s0
      BY <1>0, <2>4, RequestTypes DEF Request
    <2>6. \A b \in Conn : outbox'[b] = outbox[b] \/ (b = c /\ outbox'[b] = Append(outbox[c], m))
      BY <1>2 DEF Post, RInv, OutboxInv
    <2>7. /\ Len(outbox[c]) \in Nat /\ Append(outbox[c], m)[n] = m /\ n \in Nat
          /\ \A i \in 1..Len(outbox[c]) : Append(outbox[c], m)[i] = outbox[c][i]
          /\ \A i \in 1..Len(Append(outbox[c], m)) : i \in 1..Len(outbox[c]) \/ i = n
      BY <1>0, <2>5, WireTypes, AppendAt
    <2>8. At("inbox", c, 1, s0)
      BY <1>2, <2>2 DEF At, Paired
    <2> HIDE DEF m, n, s0
    <2>9. ASSUME NEW b \in Conn, NEW i \in Nat, NEW s \in Sid, At("outbox", b, i, s)'
          PROVE  At("outbox", b, i, s) \/ (b = c /\ i = n /\ s = s0)
      BY <2>5, <2>6, <2>7, <2>9 DEF At, Offer, Paired
    <2>10. ASSUME NEW x \in Wire, NEW b \in Conn, NEW i \in Nat, NEW s \in Sid, At(x, b, i, s)'
           PROVE  \/ x = "outbox" /\ b = c /\ i = n /\ At("inbox", c, 1, s)
                  \/ x = "inbox" /\ b = c /\ i >= 1 /\ At(x, b, i + 1, s)
                  \/ (x # "inbox" \/ b # c) /\ At(x, b, i, s)
      <3>1. CASE x = "outbox"
        BY <2>8, <2>9, <2>10, <3>1
      <3>2. CASE x # "outbox"
        BY <2>1, <2>2, <2>3, <2>10, <3>2 DEF At, Offer, Paired
      <3>3. QED BY <3>1, <3>2
    <2>11. Moves("inbox", c, 1, "outbox", c, n)
      BY <2>10 DEF Moves
    <2>12. QED BY <1>0, <2>3, <2>7, <2>11, OneMoves DEF Wire
  <1>3. QED BY <1>1, <1>2 DEF Called

\* A socket goes with what was on its way to its end, or from it too.
LEMMA OneVanishes ==
  ASSUME RInv, OneOfferInv, NEW c \in Conn, Vanish(c), spent' = spent,
         outbox' = outbox \/ outbox' = [outbox EXCEPT ![c] = <<>>]
  PROVE  OneOfferInv' /\ StaysOver
  <1>1. \A b \in Conn : inbox'[b] = IF b = c THEN <<>> ELSE inbox[b]
    BY DEF Vanish, RInv, IInv, TypeOK
  <1>2. \A b \in Conn : outbox'[b] = outbox[b] \/ outbox'[b] = <<>>
    BY DEF RInv, OutboxInv
  <1>3. todo' = todo
    BY DEF Vanish
  <1>4. ASSUME NEW x \in Wire, NEW b \in Conn, NEW i \in Nat, NEW s \in Sid, At(x, b, i, s)'
        PROVE  (x # "inbox" \/ b # c) /\ At(x, b, i, s)
    BY <1>1, <1>2, <1>3, <1>4 DEF At, Offer, Paired
  <1>5. Moves("inbox", c, 0, "inbox", c, 0)
    BY <1>4 DEF Moves
  <1>6. QED BY <1>5, OneMoves DEF Wire

\* The coordinator reads a request, and owes no message about a new session: if it
\* owes an offer, it is the one it read.
LEMMA OneAsked ==
  ASSUME RInv, OneOfferInv, NEW c \in Conn, outbox[c] # <<>>,
         outbox' = [outbox EXCEPT ![c] = Tail(@)], UNCHANGED <<inbox, spent>>,
         NEW q \in Seq(Send1), Owes(c, q),
         \A i \in 1..Len(q) : q[i].msg.type # "paired",
         \A i \in 1..Len(q), s \in Sid : Offer(q[i].msg, s) => i = 1 /\ Offer(Head(outbox[c]), s)
  PROVE  OneOfferInv' /\ StaysOver
  <1>1. \A b \in Conn : outbox'[b] = IF b = c THEN Tail(outbox[c]) ELSE outbox[b]
    BY DEF RInv, OutboxInv
  <1>2. /\ Head(outbox[c]) = outbox[c][1] /\ 1 \in 1..Len(outbox[c])
        /\ \A i \in 1..Len(Tail(outbox[c])) :
             Tail(outbox[c])[i] = outbox[c][i + 1] /\ i + 1 \in 1..Len(outbox[c]) /\ i >= 1
    BY WireTypes, TailAt
  <1>3. \A b \in Conn : todo'[b] = IF b = c THEN q ELSE todo[b]
    BY DEF Owes, RInv, IInv, TypeOK
  <1>4. ASSUME NEW x \in Wire, NEW b \in Conn, NEW i \in Nat, NEW s \in Sid, At(x, b, i, s)'
        PROVE  \/ x = "todo" /\ b = c /\ i = 1 /\ At("outbox", c, 1, s)
               \/ x = "outbox" /\ b = c /\ i >= 1 /\ At(x, b, i + 1, s)
               \/ (x # "outbox" \/ b # c) /\ At(x, b, i, s)
    <2>1. CASE x = "todo" /\ b = c
      <3>1. i \in 1..Len(q) /\ Offer(q[i].msg, s)
        BY <1>3, <1>4, <2>1 DEF At, Offer, Paired
      <3>2. QED BY <1>2, <2>1, <3>1 DEF At
    <2>2. CASE x = "todo" /\ b # c
      BY <1>3, <1>4, <2>2 DEF At, Offer, Paired
    <2>3. CASE x = "inbox"
      BY <1>4, <2>3 DEF At, Offer, Paired
    <2>4. CASE x = "outbox"
      <3>1. i \in 1..Len(outbox'[b]) /\ Offer(outbox'[b][i], s)
        BY <1>4, <2>4 DEF At, Offer
      <3>2. CASE b = c
        <4>1. i >= 1 /\ i + 1 \in 1..Len(outbox[c]) /\ Offer(outbox[c][i + 1], s)
          BY <1>1, <1>2, <3>1, <3>2 DEF Offer
        <4>2. QED BY <2>4, <3>2, <4>1 DEF At
      <3>3. CASE b # c
        BY <1>1, <2>4, <3>1, <3>3 DEF At
      <3>4. QED BY <3>2, <3>3
    <2>5. QED BY <2>1, <2>2, <2>3, <2>4 DEF Wire
  <1>5. Moves("outbox", c, 1, "todo", c, 1)
    BY <1>4 DEF Moves
  <1>6. QED BY <1>5, OneMoves DEF Wire

\* A session begins: its client is owed "paired", and no offer was ever made.
LEMMA OneBegins ==
  ASSUME RInv, OneOfferInv, NEW c \in Conn, outbox[c] # <<>>,
         outbox' = [outbox EXCEPT ![c] = Tail(@)], inbox' = inbox,
         NEW s0 \in Sid \ spent, spent' = spent \cup {s0},
         NEW d \in Registrars, Owes(c, PairedSends(d, c, s0))
  PROVE  OneOfferInv' /\ StaysOver
  <1> DEFINE q == PairedSends(d, c, s0)
  <1>0. d \in Conn /\ d \notin Callers
    BY BrokerAssumption, RemoteAssumption
  <1>1. \A b \in Conn : outbox'[b] = IF b = c THEN Tail(outbox[c]) ELSE outbox[b]
    BY DEF RInv, OutboxInv
  <1>2. \A i \in 1..Len(Tail(outbox[c])) :
             Tail(outbox[c])[i] = outbox[c][i + 1] /\ i + 1 \in 1..Len(outbox[c]) /\ i >= 1
    BY WireTypes, TailAt
  <1>3. \A b \in Conn : todo'[b] = IF b = c THEN q ELSE todo[b]
    BY DEF Owes, RInv, IInv, TypeOK
  <1>4. /\ Len(q) = 2 /\ q[1].to = d
        /\ \A i \in 1..2 : q[i].msg.type = "paired" /\ q[i].msg.sid = s0
    BY DEF PairedSends, SendTo, Message
  <1> HIDE DEF q
  <1>5. ASSUME NEW x \in Wire, NEW b \in Conn, NEW i \in Nat, NEW s \in Sid, At(x, b, i, s)'
        PROVE  \/ s = s0 /\ x = "todo" /\ b = c /\ i = 2
               \/ x = "outbox" /\ b = c /\ i >= 1 /\ At(x, b, i + 1, s)
               \/ (x # "outbox" \/ b # c) /\ At(x, b, i, s)
    <2>1. CASE x = "todo" /\ b = c
      <3>1. i \in 1..2 /\ (Offer(q[i].msg, s) \/ (Paired(q[i].msg, s) /\ q[i].to \in Callers))
        BY <1>3, <1>4, <1>5, <2>1 DEF At, Offer, Paired
      <3>2. QED BY <1>0, <1>4, <2>1, <3>1 DEF Offer, Paired
    <2>2. CASE x = "todo" /\ b # c
      BY <1>3, <1>5, <2>2 DEF At, Offer, Paired
    <2>3. CASE x = "inbox"
      BY <1>5, <2>3 DEF At, Offer, Paired
    <2>4. CASE x = "outbox"
      <3>1. i \in 1..Len(outbox'[b]) /\ Offer(outbox'[b][i], s)
        BY <1>5, <2>4 DEF At, Offer
      <3>2. CASE b = c
        <4>1. i >= 1 /\ i + 1 \in 1..Len(outbox[c]) /\ Offer(outbox[c][i + 1], s)
          BY <1>1, <1>2, <3>1, <3>2 DEF Offer
        <4>2. QED BY <2>4, <3>2, <4>1 DEF At
      <3>3. CASE b # c
        BY <1>1, <2>4, <3>1, <3>3 DEF At
      <3>4. QED BY <3>2, <3>3
    <2>5. QED BY <2>1, <2>2, <2>3, <2>4 DEF Wire
  <1>6. ASSUME NEW s \in Sid, Over(s),
               NEW x \in Wire, NEW b \in Conn, NEW i \in Nat, At(x, b, i, s)'
        PROVE  s = s0 /\ x = "todo" /\ b = c /\ i = 2
    <2>1. i + 1 \in Nat
      OBVIOUS
    <2>2. QED BY <1>5, <1>6, <2>1 DEF Over
  <1>7. ASSUME NEW s \in Sid, s # s0,
               NEW x1 \in Wire, NEW x2 \in Wire, NEW c1 \in Conn, NEW c2 \in Conn,
               NEW i1 \in Nat, NEW i2 \in Nat, At(x1, c1, i1, s)', At(x2, c2, i2, s)'
        PROVE  x1 = x2 /\ c1 = c2 /\ i1 = i2
    <2>1. \/ x1 = "outbox" /\ c1 = c /\ i1 >= 1 /\ At(x1, c1, i1 + 1, s)
          \/ (x1 # "outbox" \/ c1 # c) /\ At(x1, c1, i1, s)
      BY <1>5, <1>7
    <2>2. \/ x2 = "outbox" /\ c2 = c /\ i2 >= 1 /\ At(x2, c2, i2 + 1, s)
          \/ (x2 # "outbox" \/ c2 # c) /\ At(x2, c2, i2, s)
      BY <1>5, <1>7
    <2>3. One(s) /\ i1 + 1 \in Nat /\ i2 + 1 \in Nat
      BY DEF OneOfferInv
    <2>4. QED BY <2>1, <2>2, <2>3 DEF One
  <1>8. Over(s0)
    BY DEF OneOfferInv
  <1>9. ASSUME NEW s \in Sid PROVE One(s)'
    <2>1. CASE s = s0
      BY <1>6, <1>8, <2>1 DEF One
    <2>2. CASE s # s0
      BY <1>7, <2>2 DEF One
    <2>3. QED BY <2>1, <2>2
  <1>10. ASSUME NEW s \in Sid, s # s0, Over(s) PROVE Over(s)'
    BY <1>6, <1>10 DEF Over
  <1>11. QED BY <1>9, <1>10 DEF OneOfferInv, StaysOver

\* The ends of a session, and the other of one of them.
LEMMA MemberConn ==
  ASSUME RInv, NEW c \in Conn, NEW s \in Sid, Member(c, s)
  PROVE  /\ sessions[s] # NoSession
         /\ sessions[s].server \in Conn /\ sessions[s].client \in Conn
  BY BrokerAssumption, NothingLingers DEF Member, NoSession, RInv, Admitted

\* The coordinator reads a request.
LEMMA OneReads ==
  ASSUME RInv, OneOfferInv, NEW c \in Conn, CoordinatorReads(c) PROVE OneOfferInv' /\ StaysOver
  <1> DEFINE m == Head(outbox[c])
  <1>1. /\ outbox[c] # <<>> /\ outbox' = [outbox EXCEPT ![c] = Tail(@)]
        /\ m \in Requests(c)
    BY WireTypes, HeadTailProperties DEF CoordinatorReads
  <1>2. ASSUME NEW t \in {"registered", "error"}, Owes(c, <<Reply(c, t)>>), UNCHANGED <<inbox, spent>>
        PROVE  OneOfferInv' /\ StaysOver
    <2> DEFINE q == <<Reply(c, t)>>
    <2>1. q \in Seq(Send1) /\ Len(q) = 1 /\ q[1].msg.type = t
      BY ReplyType DEF Reply, SendTo, Message
    <2>2. \A i \in 1..Len(q) : q[i].msg.type = t
      BY <2>1
    <2> HIDE DEF q
    <2>3. \A i \in 1..Len(q) : q[i].msg.type # "paired" /\ \A s \in Sid : ~Offer(q[i].msg, s)
      BY <2>2, BrokerAssumption, RemoteAssumption DEF Offer
    <2>4. Owes(c, q)
      BY <1>2 DEF q
    <2>5. QED BY <1>1, <1>2, <2>1, <2>3, <2>4, OneAsked
  <1>3. ASSUME Fail(c), UNCHANGED <<inbox, spent>> PROVE OneOfferInv' /\ StaysOver
    BY <1>2, <1>3 DEF Fail
  <1>4. CASE /\ Register(c, m.code, Box) \/ RefuseRegister(c, m.code, Box)
             /\ UNCHANGED spent
    BY <1>2, <1>3, <1>4 DEF Register, RefuseRegister
  <1>5. CASE RefuseMessage(c) /\ UNCHANGED spent
    BY <1>3, <1>5 DEF RefuseMessage
  <1>6. ASSUME NEW s \in Sid \ spent, Connect(c, m.code, s), spent' = spent \cup {s}
        PROVE  OneOfferInv' /\ StaysOver
    <2> DEFINE d == servers[canonicalCode[m.code]]
    <2>1. d # None /\ Owes(c, PairedSends(d, c, s)) /\ inbox' = inbox
      BY <1>6 DEF Connect
    <2>2. d \in Registrars
      <3>1. \A k \in Code : servers[k] # None => servers[k] \in Registrars
        BY NothingLingers DEF RInv, DirectoryAlive
      <3>2. servers = [k \in Code |-> servers[k]]
        BY DEF RInv, IInv, TypeOK
      <3>3. canonicalCode[m.code] \in Code
        BY <1>1, <1>6, RemoteAssumption DEF CoordinatorReads, Requests, BoxCode
      <3>4. QED BY <2>1, <3>1, <3>3
    <2>3. QED BY <1>1, <1>6, <2>1, <2>2, OneBegins
  <1>7. CASE m.type \in Signals /\ Relay(c, m.type, m.sid) /\ UNCHANGED spent
    <2>1. m.sid \in Sid
      BY <1>1, <1>7 DEF Requests
    <2> DEFINE to == IF c = sessions[m.sid].server THEN sessions[m.sid].client
                                                  ELSE sessions[m.sid].server
               q == <<SendTo(to, Message(m.type, m.sid))>>
    <2>2. Owes(c, q) /\ inbox' = inbox
      BY <1>7 DEF Relay
    <2>3. to \in Conn
      BY <1>7, <2>1, MemberConn DEF Relay
    <2>4. /\ q \in Seq(Send1) /\ Len(q) = 1
          /\ q[1].msg.type = m.type /\ q[1].msg.sid = m.sid
      BY <1>7, <2>1, <2>3 DEF SendTo, Message, Send1, Messages, MessageType
    <2> HIDE DEF q
    <2>5. \A i \in 1..Len(q) : q[i].msg.type # "paired"
      BY <1>7, <2>4, BrokerAssumption
    <2>6. \A i \in 1..Len(q), s \in Sid : Offer(q[i].msg, s) => i = 1 /\ Offer(m, s)
      BY <2>4 DEF Offer
    <2>7. QED BY <1>1, <1>7, <2>2, <2>4, <2>5, <2>6, OneAsked
  <1>8. QED
    BY <1>4, <1>5, <1>6, <1>7 DEF CoordinatorReads

\* A send that the coordinator owes is made, or fails.
LEMMA OneSends ==
  ASSUME RInv, OneOfferInv, NEW c \in Conn, Send(c) \/ SendFails(c), UNCHANGED <<outbox, spent>>
  PROVE  OneOfferInv' /\ StaysOver
  <1> DEFINE m == Head(todo[c]).msg
             to == Head(todo[c]).to
             n == Len(inbox[to]) + 1
  <1>1. CASE SendFails(c)
    <2>1. PICK q : Owes(c, q) /\ (q = <<>> \/ q = <<Reply(c, "error")>>)
      BY <1>1 DEF SendFails, Fail
    <2>2. \A i \in 1..Len(q) : q[i].msg.type = "error"
      BY <2>1 DEF Reply, SendTo, Message
    <2>3. \A b \in Conn : todo'[b] = IF b = c THEN q ELSE todo[b]
      BY <2>1 DEF Owes, RInv, IInv, TypeOK
    <2>4. \A i \in 1..Len(q), s \in Sid : ~Offer(q[i].msg, s) /\ ~Paired(q[i].msg, s)
      BY <2>2 DEF Offer, Paired
    <2>5. ASSUME NEW x \in Wire, NEW b \in Conn, NEW i \in Nat, NEW s \in Sid, At(x, b, i, s)'
          PROVE  (x # "todo" \/ b # c) /\ At(x, b, i, s)
      BY <1>1, <2>3, <2>4, <2>5 DEF SendFails, At, Offer, Paired
    <2>6. Moves("todo", c, 0, "todo", c, 0)
      BY <2>5 DEF Moves
    <2>7. QED BY <2>6, OneMoves DEF Wire
  <1>2. CASE Send(c)
    <2>1. /\ todo[c] # <<>> /\ Owes(c, Tail(todo[c]))
          /\ Head(todo[c]) = todo[c][1] /\ 1 \in 1..Len(todo[c])
          /\ \A i \in 1..Len(Tail(todo[c])) :
               Tail(todo[c])[i] = todo[c][i + 1] /\ i + 1 \in 1..Len(todo[c]) /\ i >= 1
      BY <1>2, WireTypes, TailAt DEF Send
    <2>2. to \in Conn /\ m \in Messages
      <3>1. todo[c] \in Seq(Send1) /\ todo[c] # <<>>
        BY <2>1, WireTypes
      <3>2. Head(todo[c]) \in Send1
        BY <3>1, HeadTailProperties
      <3>3. QED BY <3>2 DEF Send1
    <2>3. \A b \in Conn : todo'[b] = IF b = c THEN Tail(todo[c]) ELSE todo[b]
      BY <2>1 DEF Owes, RInv, IInv, TypeOK
    <2>4. \A b \in Conn : inbox'[b] = inbox[b] \/ (b = to /\ inbox'[b] = Append(inbox[to], m))
      BY <1>2, <2>2 DEF Send, RInv, IInv, TypeOK
    <2>5. /\ Len(inbox[to]) \in Nat /\ n \in Nat /\ Append(inbox[to], m)[n] = m
          /\ \A i \in 1..Len(inbox[to]) : Append(inbox[to], m)[i] = inbox[to][i]
          /\ \A i \in 1..Len(Append(inbox[to], m)) : i \in 1..Len(inbox[to]) \/ i = n
      <3>1. inbox[to] \in Seq(Messages)
        BY <2>2, WireTypes
      <3> HIDE DEF m, to
      <3>2. /\ Len(inbox[to]) \in Nat /\ Append(inbox[to], m)[Len(inbox[to]) + 1] = m
            /\ \A i \in 1..Len(inbox[to]) : Append(inbox[to], m)[i] = inbox[to][i]
            /\ \A i \in 1..Len(Append(inbox[to], m)) : i \in 1..Len(inbox[to]) \/ i = Len(inbox[to]) + 1
        BY <2>2, <3>1, AppendAt
      <3>3. QED BY <3>2
    <2>6. ASSUME NEW b \in Conn, NEW i \in Nat, NEW s \in Sid, At("inbox", b, i, s)'
          PROVE  At("inbox", b, i, s) \/ (b = to /\ i = n /\ At("todo", c, 1, s))
      <3>1. /\ i \in 1..Len(inbox'[b])
            /\ Offer(inbox'[b][i], s) \/ (Paired(inbox'[b][i], s) /\ b \in Callers)
        BY <2>6 DEF At, Offer, Paired
      <3>2. CASE inbox'[b] = inbox[b]
        BY <3>1, <3>2 DEF At
      <3>3. CASE b = to /\ inbox'[b] = Append(inbox[to], m) /\ i \in 1..Len(inbox[to])
        BY <2>5, <3>1, <3>3 DEF At
      <3>4. CASE b = to /\ inbox'[b] = Append(inbox[to], m) /\ i = n
        BY <2>1, <2>5, <3>1, <3>4 DEF At
      <3>5. QED BY <2>4, <2>5, <3>1, <3>2, <3>3, <3>4
    <2>7. ASSUME NEW b \in Conn, NEW i \in Nat, NEW s \in Sid, At("todo", b, i, s)'
          PROVE  IF b = c THEN i >= 1 /\ At("todo", b, i + 1, s) ELSE At("todo", b, i, s)
      BY <2>1, <2>3, <2>7 DEF At, Offer, Paired
    <2>8. \A b \in Conn, i \in Nat, s \in Sid : At("outbox", b, i, s)' => At("outbox", b, i, s)
      BY DEF At, Offer
    <2>9. Moves("todo", c, 1, "inbox", to, n)
      <3> HIDE DEF n, to
      <3>1. SUFFICES ASSUME NEW x \in Wire, NEW b \in Conn, NEW i \in Nat, NEW s \in Sid,
                            At(x, b, i, s)'
                     PROVE  \/ x = "inbox" /\ b = to /\ i = n /\ 1 = 1 /\ At("todo", c, 1, s)
                            \/ x = "todo" /\ b = c /\ i >= 1 /\ At(x, b, i + 1, s)
                            \/ (x # "todo" \/ b # c) /\ At(x, b, i, s)
        BY DEF Moves
      <3>2. CASE x = "inbox"
        BY <2>6, <3>1, <3>2
      <3>3. CASE x = "todo"
        BY <2>7, <3>1, <3>3
      <3>4. CASE x = "outbox"
        BY <2>8, <3>1, <3>4
      <3>5. QED BY <3>2, <3>3, <3>4 DEF Wire
    <2>10. QED BY <2>2, <2>5, <2>9, OneMoves DEF Wire
  <1>3. QED BY <1>1, <1>2

\* Every step keeps an offer from being in two places.
LEMMA OneStep == ASSUME RInv, OneOfferInv, [RNext]_rvars PROVE OneOfferInv' /\ StaysOver
  <1>1. CASE UNCHANGED <<todo, inbox, outbox, spent>>
    BY <1>1, OneStays
  <1>2. CASE AppNext
    BY <1>1, <1>2 DEF AppNext, Settle, PatchRemote, RotateCode, SaveConfig, CopyEnabled, CopyCode, RevokeTokens, CancelPeer, SyncStops, SyncStarts, vars, wires
  <1>3. CASE PeerNext
    <2>1. ASSUME NEW p \in Peer, SendRegister(p) PROVE OneOfferInv' /\ StaysOver
      <3>1. ws[p] \in Registrars /\ pcode[p] \in BoxCode
        BY <2>1 DEF SendRegister, Active, RInv, PeerInv
      <3>2. /\ ws[p] \in Conn /\ Request("register", pcode[p], None) \in Requests(ws[p])
            /\ Request("register", pcode[p], None).type # "offer"
        BY <3>1, RequestTypes, BrokerAssumption DEF Request
      <3>3. QED BY <2>1, <3>2, OnePost DEF SendRegister, vars
    <2>2. ASSUME NEW p \in Peer, Verdict(p) \/ Serve(p) PROVE OneOfferInv' /\ StaysOver
      <3>1. ws[p] \in Conn /\ Receive(ws[p])
        BY <2>2, BrokerAssumption DEF Verdict, Serve, Active, RInv, PeerInv
      <3>2. CASE UNCHANGED <<outbox, spent>>
        BY <3>1, <3>2, OneRead
      <3>3. CASE /\ Head(inbox[ws[p]]).type = "offer"
                 /\ Post(ws[p], Request("answer", None, Head(inbox[ws[p]]).sid))
        <4>1. Head(inbox[ws[p]]).sid \in Sid
          BY <3>1, <3>3, HeadNamed, RemoteAssumption DEF Receive, RInv, IInv, Named
        <4>2. QED BY <3>1, <3>3, <4>1, OneServed
      <3>4. QED BY <2>2, <3>2, <3>3 DEF Verdict, Serve, wires
    <2>3. ASSUME NEW p \in Peer,
                 \/ ReadCode(p) \/ ReadFails(p) \/ Stop(p) \/ \E s \in Sid : RtcEnds(p, s)
                 \/ \E c \in Conn, a \in Ip : Dial(p, c, a) \/ DialRefused(p, c, a)
          PROVE UNCHANGED <<todo, inbox, outbox, spent>>
      BY <2>3 DEF ReadCode, ReadFails, Stop, RtcEnds, Dial, DialRefused, Admit, Refuse, vars, wires
    <2>4. QED BY <1>1, <1>3, <2>1, <2>2, <2>3 DEF PeerNext
  <1>4. CASE ClientNext
    <2>1. ASSUME NEW c \in Callers, NEW k \in BoxCode, NEW a \in Ip, Call(c, k, a)
          PROVE OneOfferInv' /\ StaysOver
      <3>1. c \in Conn
        BY BrokerAssumption
      <3>2. \A b \in Conn : outbox'[b] = IF b = c THEN <<Request("connect", k, None)>> ELSE outbox[b]
        BY <2>1 DEF Call, RInv, OutboxInv
      <3>3. UNCHANGED <<todo, inbox, spent>>
        BY <2>1 DEF Call, Admit
      <3>4. ASSUME NEW x \in Wire, NEW b \in Conn, NEW i \in Nat, NEW s \in Sid, At(x, b, i, s)'
            PROVE  (x # "outbox" \/ b # c) /\ At(x, b, i, s)
        <4>1. CASE x = "outbox"
          BY <3>2, <3>4, <4>1 DEF At, Offer, Request
        <4>2. CASE x # "outbox"
          BY <3>3, <3>4, <4>2 DEF At, Offer, Paired
        <4>3. QED BY <4>1, <4>2
      <3>5. Moves("outbox", c, 0, "outbox", c, 0)
        BY <3>4 DEF Moves
      <3>6. QED BY <3>1, <3>3, <3>5, OneMoves DEF Wire
    <2>2. ASSUME NEW c \in Callers, Answered(c) PROVE OneOfferInv' /\ StaysOver
      BY <2>2, OneRead, BrokerAssumption DEF Answered, wires
    <2>3. ASSUME NEW c \in Callers, HangUp(c) \/ \E a \in Ip : CallRefused(c, a)
          PROVE UNCHANGED <<todo, inbox, outbox, spent>>
      BY <2>3 DEF HangUp, CallRefused, Refuse, vars, wires
    <2>4. QED BY <1>1, <1>4, <2>1, <2>2, <2>3, OneCalled DEF ClientNext
  <1>5. CASE CoordinatorNext
    <2>1. ASSUME NEW c \in Conn, CoordinatorActs(c) PROVE OneOfferInv' /\ StaysOver
      BY <1>1, <2>1, OneSends DEF CoordinatorActs, Cleanup, wires
    <2>2. ASSUME NEW c \in Conn, SeesClose(c) \/ NetworkFails(c) PROVE OneOfferInv' /\ StaysOver
      BY <2>2, OneVanishes DEF SeesClose, NetworkFails, wires
    <2>3. QED BY <1>5, <2>1, <2>2, OneReads DEF CoordinatorNext
  <1>6. CASE UNCHANGED rvars
    BY <1>1, <1>6 DEF rvars, vars, wires
  <1>7. QED BY <1>2, <1>3, <1>4, <1>5, <1>6 DEF RNext

(***************************************************************************)
(* The box is told of a session before it gets the offer.                  *)
(***************************************************************************)

\* A peer whose socket has been opened and not been closed by it.
Online(p) == ppc[p] \in {"register", "verdict", "serve"}

\* The peer on socket d has a PeerConnection for s, or finds "paired" among the
\* first n messages it has not read.
Told(d, s, n) ==
  \A p \in Peer : Online(p) /\ ws[p] = d =>
    rtc[p][s] # "none" \/ \E j \in 1..n : Paired(inbox[d][j], s)

\* A socket has one peer at most; what is not open has nothing to read; a
\* session joins a box and a browser.
LinkInv ==
  /\ \A p \in Peer : Online(p) => st[ws[p]] # "new"
  /\ \A p, q \in Peer : Online(p) /\ Online(q) /\ ws[p] = ws[q] => p = q
  /\ \A c \in Conn : st[c] # "open" => inbox[c] = <<>>
  /\ \A s \in Sid : sessions[s] # NoSession =>
       sessions[s].server \in Registrars /\ sessions[s].client \in Callers

OfferInbox ==
  \A d \in Conn : \A i \in 1..Len(inbox[d]), s \in Sid :
    Offer(inbox[d][i], s) => Told(d, s, i - 1)

OfferOwed ==
  \A c \in Conn : \A i \in 1..Len(todo[c]), s \in Sid :
    LET to == todo[c][i].to IN
    Offer(todo[c][i].msg, s) /\ st[to] = "open" => Told(to, s, Len(inbox[to]))

\* The box, on socket d, has been told, unless the sends of the pairing with c are
\* still owed, or the offer has come and gone.
BoxTold(d, c, s) ==
  \/ todo[c] = PairedSends(d, c, s)
  \/ Over(s)
  \/ st[d] = "open" => Told(d, s, Len(inbox[d]))

SessionTold ==
  \A s \in Sid : sessions[s] # NoSession => BoxTold(sessions[s].server, sessions[s].client, s)

AnsweredOver == \A p \in Peer, s \in Sid : rtc[p][s] = "answered" => s \in spent /\ Over(s)

AheadInv == OfferInbox /\ OfferOwed /\ SessionTold /\ AnsweredOver

\* Nothing is for a socket that has not been opened.
LEMMA NothingForNew ==
  ASSUME RInv, LinkInv, NEW d \in Conn, st[d] = "new"
  PROVE  /\ inbox[d] = <<>>
         /\ \A c \in Conn : \A i \in 1..Len(todo[c]), s \in Sid :
              Offer(todo[c][i].msg, s) => todo[c][i].to # d
         /\ \A s \in Sid : sessions[s] # NoSession => sessions[s].server # d
  <1>1. \A s \in Sid : sessions[s] # NoSession => d \notin {sessions[s].server, sessions[s].client}
    BY NothingLingers DEF RInv, Admitted
  <1>2. \A s \in Sid : d \notin {sessions[s].server, sessions[s].client}
    BY <1>1, BrokerAssumption DEF NoSession
  <1>3. ASSUME NEW c \in Conn, NEW i \in 1..Len(todo[c]), NEW s \in Sid, Offer(todo[c][i].msg, s)
        PROVE  todo[c][i].to # d
    <2>1. Partnered(c, todo[c][i], sessions, st)
      BY DEF RInv, IInv, RelayInv
    <2>2. todo[c][i].msg.type \in Signals
      BY <1>3, RemoteAssumption DEF Offer
    <2>3. QED BY <1>2, <2>1, <2>2 DEF Partnered
  <1>4. QED BY <1>1, <1>3 DEF LinkInv

\* A socket that is opened stays so or goes.
LEMMA NeverNew ==
  ASSUME RInv, [RNext]_rvars, NEW c \in Conn
  PROVE  /\ st'[c] = "new" => st[c] = "new"
         /\ st'[c] = "open" => st[c] \in {"new", "open"}
  <1>1. [Next]_vars
    BY StepDrives
  <1>2. CASE UNCHANGED vars
    BY <1>2 DEF vars, sockets
  <1>3. CASE Next
    BY <1>3 DEF Next, Socket, Admit, Refuse, Vanish, Receive, Cleanup, Handle, Register, RefuseRegister,
       Connect, Relay, RefuseMessage, Send, SendFails, sockets, RInv, IInv, TypeOK
  <1>4. QED BY <1>1, <1>2, <1>3

\* Every step keeps sockets and sessions to their ends.
LEMMA LinkStep == ASSUME RInv, LinkInv, [RNext]_rvars PROVE LinkInv'
  <1>0. [Next]_vars /\ PeerInv' /\ TypeOK
    BY StepDrives, PeerStep DEF RInv, IInv
  <1>1. ASSUME NEW p \in Peer, Online(p)'
        PROVE  \/ Online(p) /\ ws'[p] = ws[p]
               \/ st[ws'[p]] = "new" /\ st'[ws'[p]] = "open" /\ ws'[p] \in Conn
                  /\ \A q \in Peer : q # p => ws'[q] = ws[q] /\ (Online(q)' <=> Online(q))
    <2>1. CASE UNCHANGED <<ppc, ws>>
      BY <1>1, <2>1 DEF Online
    <2>2. CASE AppNext
      BY <1>1, <2>1, <2>2 DEF AppNext, Settle, PatchRemote, RotateCode, SaveConfig, CopyEnabled, CopyCode, RevokeTokens, CancelPeer, SyncStops, SyncStarts, peers,
         Online, RInv, AppInv, AppTypes
    <2>3. ASSUME NEW q \in Peer, NEW c \in Conn, NEW a \in Ip, Dial(q, c, a)
          PROVE  \/ Online(p) /\ ws'[p] = ws[p]
                 \/ st[ws'[p]] = "new" /\ st'[ws'[p]] = "open" /\ ws'[p] \in Conn
                    /\ \A r \in Peer : r # p => ws'[r] = ws[r] /\ (Online(r)' <=> Online(r))
      <3>1. /\ ppc' = [ppc EXCEPT ![q] = "register"] /\ ws' = [ws EXCEPT ![q] = c]
            /\ st[c] = "new" /\ st' = [st EXCEPT ![c] = "open"]
        BY <2>3 DEF Dial, Admit
      <3>2. ppc \in [Peer -> {"none", "start", "dial", "register", "verdict", "serve"}]
            /\ ws \in [Peer -> Registrars \cup {None}] /\ st'[c] = "open"
        BY <1>0, <3>1 DEF RInv, AppInv, AppTypes, PeerInv, TypeOK
      <3>3. QED BY <1>1, <3>1, <3>2 DEF Online
    <2>4. ASSUME NEW q \in Peer,
                 \/ ReadCode(q) \/ SendRegister(q) \/ Verdict(q) \/ ReadFails(q) \/ Serve(q) \/ Stop(q)
                 \/ \E s \in Sid : RtcEnds(q, s)
                 \/ \E c \in Conn, a \in Ip : DialRefused(q, c, a)
          PROVE  Online(p) /\ ws'[p] = ws[p]
      <3>1. ppc \in [Peer -> {"none", "start", "dial", "register", "verdict", "serve"}]
            /\ ws \in [Peer -> Registrars \cup {None}]
        BY DEF RInv, AppInv, AppTypes, PeerInv
      <3>2. QED
        BY <1>1, <2>4, <3>1 DEF ReadCode, SendRegister, Verdict, ReadFails, Serve, Stop, RtcEnds, DialRefused,
           Active, Online, peers
    <2>5. CASE PeerNext
      BY <2>3, <2>4, <2>5 DEF PeerNext
    <2>6. CASE ClientNext \/ CoordinatorNext \/ UNCHANGED rvars
      BY <2>1, <2>6 DEF ClientNext, Call, CallRefused, Called, Answered, HangUp, CoordinatorNext,
         CoordinatorReads, CoordinatorActs, SeesClose, NetworkFails, peers, rvars
    <2>7. QED BY <2>2, <2>5, <2>6 DEF RNext
  <1>2. ASSUME NEW p \in Peer, Online(p) PROVE ws[p] \in Conn
    BY <1>2, BrokerAssumption DEF Online, RInv, PeerInv
  <1>3. ASSUME NEW p \in Peer, Online(p)' PROVE st'[ws'[p]] # "new"
    BY <1>1, <1>2, <1>3, NeverNew DEF LinkInv
  <1>4. ASSUME NEW p \in Peer, NEW q \in Peer, Online(p)', Online(q)', ws'[p] = ws'[q] PROVE p = q
    BY <1>1, <1>4 DEF LinkInv
  <1>5. ASSUME NEW c \in Conn, st'[c] # "open" PROVE inbox'[c] = <<>>
    BY <1>0, <1>5 DEF Next, Socket, Admit, Refuse, Vanish, Receive, Cleanup, Handle, Register, RefuseRegister,
       Connect, Relay, RefuseMessage, Send, SendFails, sockets, TypeOK, LinkInv, vars
  <1>6. ASSUME NEW s \in Sid, sessions'[s] # NoSession
        PROVE  sessions'[s].server \in Registrars /\ sessions'[s].client \in Callers
    <2>1. CASE sessions'[s] = sessions[s]
      BY <1>6, <2>1 DEF LinkInv
    <2>2. ASSUME NEW c \in Conn, NEW x \in Spelling, NEW r \in Sid, Connect(c, x, r), r = s
          PROVE  sessions'[s].server \in Registrars /\ sessions'[s].client \in Callers
      <3> DEFINE d == servers[canonicalCode[x]]
      <3>1. sessions' = [sessions EXCEPT ![s] = [server |-> d, client |-> c]] /\ d # None /\ c \in Callers
        BY <2>2 DEF Connect
      <3>2. canonicalCode[x] \in Code
        BY BrokerAssumption
      <3>3. d \in Registrars
        BY <3>1, <3>2, NothingLingers DEF RInv, DirectoryAlive
      <3>4. QED BY <1>0, <3>1, <3>3 DEF TypeOK
    <2>3. CASE UNCHANGED sessions
      BY <2>1, <2>3
    <2>4. ASSUME NEW c \in Conn, Socket(c) \/ Handle(c) \/ Send(c) \/ SendFails(c)
          PROVE  \/ sessions' = sessions \/ sessions'[s] = sessions[s]
                 \/ \E x \in Spelling : Connect(c, x, s)
      BY <1>0, <1>6, <2>4 DEF Socket, Admit, Refuse, Vanish, Receive, Cleanup, Without, Handle, Register,
         RefuseRegister, Connect, Relay, RefuseMessage, Send, SendFails, pairing, TypeOK
    <2>5. QED BY <1>0, <2>1, <2>2, <2>3, <2>4 DEF Next, vars, pairing
  <1>7. QED BY <1>3, <1>4, <1>5, <1>6 DEF LinkInv

\* Steps that send nothing, and in which the box reads nothing.
LEMMA CalmKeeps ==
  ASSUME RInv, LinkInv, AheadInv, PeerInv', StaysOver, spent' = spent, todo' = todo,
         \A p \in Peer : Online(p)' =>
           \/ Online(p) /\ ws'[p] = ws[p] /\ rtc'[p] = rtc[p]
           \/ st[ws'[p]] = "new" /\ ws'[p] \in Conn,
         \A c \in Registrars : inbox'[c] \in {inbox[c], <<>>} /\ (st'[c] = "open" => inbox'[c] = inbox[c]),
         \A c \in Conn : st'[c] = "open" => st[c] \in {"new", "open"},
         \A s \in Sid : sessions'[s] \in {sessions[s], NoSession},
         \A p \in Peer, s \in Sid : rtc'[p][s] = "answered" => rtc[p][s] = "answered"
  PROVE  AheadInv'
  <1>1. ASSUME NEW p \in Peer, Online(p)' PROVE ws'[p] \in Registrars /\ ws'[p] \in Conn
    BY <1>1, BrokerAssumption DEF Online, PeerInv
  <1>2. ASSUME NEW d \in Conn, st[d] # "new" \/ d \notin Registrars, NEW s \in Sid, NEW n, Told(d, s, n),
               d \in Registrars => inbox'[d] = inbox[d]
        PROVE  Told(d, s, n)'
    BY <1>1, <1>2 DEF Told, Paired
  <1>3. OfferInbox'
    <2>1. SUFFICES ASSUME NEW d \in Conn, NEW i \in 1..Len(inbox'[d]), NEW s \in Sid, Offer(inbox'[d][i], s)
                   PROVE  Told(d, s, i - 1)'
      BY DEF OfferInbox, Offer
    <2>2. CASE d \notin Registrars
      BY <1>1, <2>2 DEF Told
    <2>3. CASE d \in Registrars
      <3>1. inbox'[d] = inbox[d] /\ inbox[d] # <<>>
        BY <2>1, <2>3
      <3>2. st[d] # "new"
        BY <3>1, NothingForNew
      <3>3. Told(d, s, i - 1)
        BY <2>1, <3>1 DEF AheadInv, OfferInbox
      <3>4. QED BY <1>2, <3>1, <3>2, <3>3
    <2>4. QED BY <2>2, <2>3
  <1>4. OfferOwed'
    <2>1. SUFFICES ASSUME NEW c \in Conn, NEW i \in 1..Len(todo[c]), NEW s \in Sid,
                          Offer(todo[c][i].msg, s), st'[todo[c][i].to] = "open"
                   PROVE  Told(todo[c][i].to, s, Len(inbox[todo[c][i].to]))'
      BY DEF OfferOwed, Offer
    <2> DEFINE to == todo[c][i].to
    <2>2. to \in Conn
      <3>1. todo[c] \in Seq(Send1)
        BY WireTypes
      <3>2. todo[c][i] \in Send1
        BY <3>1
      <3>3. QED BY <3>2 DEF Send1
    <2>3. st[to] = "open"
      BY <2>1, <2>2, NothingForNew
    <2>4. Told(to, s, Len(inbox[to]))
      BY <2>1, <2>3 DEF AheadInv, OfferOwed
    <2>5. CASE to \in Registrars
      <3>1. inbox'[to] = inbox[to]
        BY <2>1, <2>5
      <3>2. Told(to, s, Len(inbox[to]))'
        BY <1>2, <2>2, <2>3, <2>4, <3>1
      <3>3. QED BY <3>2
    <2>6. CASE to \notin Registrars
      BY <1>1, <2>6 DEF Told
    <2>7. QED BY <2>5, <2>6
  <1>5. ASSUME NEW d \in Registrars, NEW c, NEW s \in Sid, BoxTold(d, c, s), st[d] # "new"
        PROVE  BoxTold(d, c, s)'
    <2>1. d \in Conn
      BY BrokerAssumption
    <2>2. CASE todo[c] = PairedSends(d, c, s)
      BY <2>2 DEF BoxTold, PairedSends, SendTo, Message
    <2>3. CASE Over(s)
      BY <2>3 DEF BoxTold, StaysOver
    <2>4. CASE st'[d] # "open"
      BY <2>4 DEF BoxTold
    <2>5. CASE st'[d] = "open" /\ Told(d, s, Len(inbox[d]))
      <3>1. inbox'[d] = inbox[d]
        BY <2>5
      <3>2. PICK n : n = Len(inbox[d])
        OBVIOUS
      <3>3. Told(d, s, n)'
        BY <1>2, <1>5, <2>1, <2>5, <3>1, <3>2
      <3>4. QED BY <3>1, <3>2, <3>3 DEF BoxTold, Told
    <2>6. QED BY <1>5, <2>1, <2>2, <2>3, <2>4, <2>5 DEF BoxTold
  <1>6. SessionTold'
    <2>1. SUFFICES ASSUME NEW s \in Sid, sessions'[s] # NoSession
                   PROVE  BoxTold(sessions[s].server, sessions[s].client, s)'
      BY DEF SessionTold
    <2>2. sessions'[s] = sessions[s]
      BY <2>1
    <2>3. PICK d, c : d = sessions[s].server /\ c = sessions[s].client
      OBVIOUS
    <2>4. d \in Registrars /\ d \in Conn /\ BoxTold(d, c, s) /\ st[d] # "new"
      BY <2>1, <2>2, <2>3, BrokerAssumption, NothingForNew DEF LinkInv, AheadInv, SessionTold
    <2>5. BoxTold(d, c, s)'
      BY <1>5, <2>4
    <2>6. QED BY <2>2, <2>3, <2>5 DEF BoxTold
  <1>7. AnsweredOver'
    BY DEF AheadInv, AnsweredOver, StaysOver
  <1>8. QED BY <1>3, <1>4, <1>6, <1>7 DEF AheadInv

\* The box reads a message: if it goes on and was told of a session, it has its
\* PeerConnection.
LEMMA BoxReadsAhead ==
  ASSUME RInv, LinkInv, AheadInv, StaysOver, NEW p \in Peer, Online(p), Receive(ws[p]),
         UNCHANGED <<sessions, todo, spent, st, ws>>,
         \A q \in Peer : Online(q)' => Online(q),
         \A q \in Peer, s \in Sid : rtc[q][s] # "none" => rtc'[q][s] # "none",
         \A s \in Sid : Online(p)' /\ Paired(Head(inbox[ws[p]]), s) => rtc'[p][s] # "none"
  PROVE  OfferInbox' /\ OfferOwed' /\ SessionTold'
  <1> DEFINE b == ws[p]
  <1>1. b \in Conn
    BY BrokerAssumption DEF Online, RInv, PeerInv
  <1>2. \A d \in Conn : inbox'[d] = IF d = b THEN Tail(inbox[b]) ELSE inbox[d]
    BY DEF Receive, RInv, IInv, TypeOK
  <1>3. inbox[b] \in Seq(Messages) /\ inbox[b] # <<>>
    BY <1>1, WireTypes DEF Receive
  <1>4. /\ Head(inbox[b]) = inbox[b][1] /\ Len(inbox[b]) \in Nat \ {0}
        /\ Len(Tail(inbox[b])) = Len(inbox[b]) - 1
        /\ \A i \in 1..Len(Tail(inbox[b])) : Tail(inbox[b])[i] = inbox[b][i + 1]
    BY <1>3, HeadTailProperties, EmptySeq
  <1>5. ASSUME NEW d \in Conn, NEW s \in Sid, NEW n \in Nat, Told(d, s, n), d # b PROVE Told(d, s, n)'
    BY <1>2, <1>5 DEF Told, Paired
  <1>6. ASSUME NEW s \in Sid, NEW n \in 1..Len(inbox[b]), Told(b, s, n)
        PROVE  \A d \in Conn : d = b => Told(d, s, n - 1)'
    <2>1. SUFFICES ASSUME NEW q \in Peer, Online(q)', ws[q] = b, rtc'[q][s] = "none"
                   PROVE  \E j \in 1..(n - 1) : Paired(inbox'[b][j], s)
      BY DEF Told, Paired
    <2>2. q = p /\ rtc[q][s] = "none"
      BY <2>1 DEF LinkInv
    <2>3. PICK j \in 1..n : Paired(inbox[b][j], s)
      BY <1>6, <2>1, <2>2 DEF Told
    <2>4. j # 1
      BY <1>4, <2>1, <2>2, <2>3
    <2>5. j - 1 \in 1..(n - 1) /\ j - 1 \in 1..Len(Tail(inbox[b])) /\ (j - 1) + 1 = j
      BY <1>4, <2>3, <2>4
    <2>6. inbox'[b][j - 1] = inbox[b][j]
      BY <1>1, <1>2, <1>4, <2>5
    <2>7. QED BY <2>3, <2>5, <2>6
  <1> HIDE DEF b
  <1>7. \A d \in Conn : Len(inbox[d]) \in Nat
    BY WireTypes, LenProperties
  <1>8. ASSUME NEW d \in Conn, NEW s \in Sid, NEW n, NEW n1, n = Len(inbox[d]), n1 = Len(inbox'[d]),
               Told(d, s, n)
        PROVE  Told(d, s, n1)'
    <2>1. CASE d = b
      <3>0. inbox'[b] = Tail(inbox[b])
        BY <1>1, <1>2
      <3>1. n = Len(inbox[b]) /\ n1 = Len(Tail(inbox[b])) /\ n \in 1..Len(inbox[b]) /\ n1 = n - 1
        BY <1>4, <1>8, <2>1, <3>0
      <3>2. QED BY <1>6, <1>8, <2>1, <3>1
    <2>2. CASE d # b
      BY <1>2, <1>5, <1>7, <1>8, <2>2
    <2>3. QED BY <2>1, <2>2
  <1>9. OfferInbox'
    <2>1. SUFFICES ASSUME NEW d \in Conn, NEW i \in 1..Len(inbox'[d]), NEW s \in Sid, Offer(inbox'[d][i], s)
                   PROVE  Told(d, s, i - 1)'
      BY DEF OfferInbox, Offer
    <2>2. CASE d = b
      <3>1. i \in 1..Len(Tail(inbox[b])) /\ i + 1 \in 1..Len(inbox[b]) /\ i \in 1..Len(inbox[b])
            /\ (i + 1) - 1 = i
        <4>1. inbox'[b] = Tail(inbox[b])
          BY <1>1, <1>2
        <4>2. i \in 1..Len(Tail(inbox[b]))
          BY <2>1, <2>2, <4>1
        <4>3. QED BY <1>4, <4>2
      <3>2. Offer(inbox[b][i + 1], s)
        BY <1>1, <1>2, <1>4, <2>1, <2>2, <3>1
      <3>3. Told(b, s, i)
        BY <1>1, <3>1, <3>2 DEF AheadInv, OfferInbox
      <3>4. QED BY <1>6, <2>2, <3>1, <3>3
    <2>3. CASE d # b
      <3>1. inbox'[d] = inbox[d] /\ i - 1 \in Nat
        BY <1>2, <1>7, <2>3
      <3>2. Told(d, s, i - 1)
        BY <2>1, <3>1 DEF AheadInv, OfferInbox
      <3>3. QED BY <1>5, <2>3, <3>1, <3>2
    <2>4. QED BY <2>2, <2>3
  <1>10. OfferOwed'
    <2>1. SUFFICES ASSUME NEW c \in Conn, NEW i \in 1..Len(todo[c]), NEW s \in Sid,
                          Offer(todo[c][i].msg, s), st[todo[c][i].to] = "open"
                   PROVE  Told(todo[c][i].to, s, Len(inbox[todo[c][i].to]))'
      BY DEF OfferOwed, Offer
    <2>2. PICK to : to = todo[c][i].to
      OBVIOUS
    <2>3. todo[c] \in Seq(Send1)
      BY WireTypes
    <2>4. to \in Conn
      <3>1. todo[c][i] \in Send1
        BY <2>3
      <3>2. QED BY <2>2, <3>1 DEF Send1
    <2>5. PICK n, n1 : n = Len(inbox[to]) /\ n1 = Len(inbox'[to])
      OBVIOUS
    <2>6. Told(to, s, n)
      BY <2>1, <2>2, <2>5 DEF AheadInv, OfferOwed
    <2>7. Told(to, s, n1)'
      BY <1>8, <2>4, <2>5, <2>6
    <2>8. QED BY <2>2, <2>5, <2>7 DEF Told
  <1>11. SessionTold'
    <2>1. SUFFICES ASSUME NEW s \in Sid, sessions[s] # NoSession
                   PROVE  BoxTold(sessions[s].server, sessions[s].client, s)'
      BY DEF SessionTold
    <2>2. PICK d, c : d = sessions[s].server /\ c = sessions[s].client
      OBVIOUS
    <2>3. d \in Conn /\ BoxTold(d, c, s)
      BY <2>1, <2>2, BrokerAssumption DEF LinkInv, AheadInv, SessionTold
    <2>4. PICK n, n1 : n = Len(inbox[d]) /\ n1 = Len(inbox'[d])
      OBVIOUS
    <2>5. Told(d, s, n) => Told(d, s, n1)'
      BY <1>8, <2>3, <2>4
    <2>6. Over(s) => Over(s)'
      BY DEF StaysOver
    <2>7. \/ todo'[c] = PairedSends(d, c, s) \/ Over(s)' \/ (st'[d] = "open" => Told(d, s, n1)')
      BY <2>3, <2>4, <2>5, <2>6 DEF BoxTold
    <2>8. BoxTold(d, c, s)'
      BY <2>4, <2>7 DEF BoxTold, PairedSends, SendTo, Message, Told
    <2>9. QED BY <2>2, <2>8 DEF BoxTold
  <1>12. QED BY <1>9, <1>10, <1>11

\* A handler of the coordinator owes sends: an offer only to a box that was told.
LEMMA OwedAhead ==
  ASSUME RInv, LinkInv, AheadInv, StaysOver, UNCHANGED <<st, inbox, ppc, ws, rtc>>, spent \subseteq spent',
         NEW c \in Conn, todo[c] = <<>>, NEW q, Owes(c, q),
         \A s \in Sid :
           \/ sessions'[s] = sessions[s] /\ (s \in spent \/ s \notin spent')
           \/ \E d \in Conn : sessions'[s] = [server |-> d, client |-> c] /\ q = PairedSends(d, c, s),
         \A i \in 1..Len(q), s \in Sid :
           Offer(q[i].msg, s) /\ st[q[i].to] = "open" => Told(q[i].to, s, Len(inbox[q[i].to]))
  PROVE  AheadInv'
  <1>1. \A d, s, n : Told(d, s, n)' <=> Told(d, s, n)
    BY DEF Told, Online, Paired
  <1>2. \A b \in Conn : todo'[b] = IF b = c THEN q ELSE todo[b]
    BY DEF Owes, RInv, IInv, TypeOK
  <1>3. OfferInbox'
    BY <1>1 DEF AheadInv, OfferInbox, Offer
  <1>4. OfferOwed'
    <2>1. SUFFICES ASSUME NEW b \in Conn, NEW i \in 1..Len(todo'[b]), NEW s \in Sid,
                          Offer(todo'[b][i].msg, s), st[todo'[b][i].to] = "open"
                   PROVE  Told(todo[b][i].to, s, Len(inbox[todo[b][i].to]))'
      BY DEF OfferOwed, Offer
    <2>2. PICK to : to = todo'[b][i].to
      OBVIOUS
    <2>3. Told(to, s, Len(inbox[to]))
      BY <1>2, <2>1, <2>2 DEF AheadInv, OfferOwed
    <2>4. QED BY <2>2, <2>3 DEF Told, Online, Paired
  <1>5. SessionTold'
    <2>1. SUFFICES ASSUME NEW s \in Sid, sessions'[s] # NoSession
                   PROVE  BoxTold(sessions[s].server, sessions[s].client, s)'
      BY DEF SessionTold
    <2>2. CASE sessions'[s] = sessions[s] /\ (s \in spent \/ s \notin spent')
      <3>1. PICK d, b : d = sessions[s].server /\ b = sessions[s].client
        OBVIOUS
      <3>2. BoxTold(d, b, s) /\ b \in Conn
        BY <2>1, <2>2, <3>1, BrokerAssumption DEF AheadInv, SessionTold, LinkInv
      <3>3. Over(s) => Over(s)'
        BY <2>2 DEF StaysOver
      <3>4. PairedSends(d, b, s) # <<>>
        BY DEF PairedSends
      <3>5. todo[b] = PairedSends(d, b, s) => todo'[b] = PairedSends(d, b, s)
        BY <1>2, <3>2, <3>4
      <3>6. BoxTold(d, b, s)'
        BY <3>2, <3>3, <3>5 DEF BoxTold, PairedSends, SendTo, Message, Told, Online, Paired
      <3>7. QED BY <2>2, <3>1, <3>6 DEF BoxTold
    <2>3. ASSUME NEW d \in Conn, sessions'[s] = [server |-> d, client |-> c], q = PairedSends(d, c, s)
          PROVE  BoxTold(sessions[s].server, sessions[s].client, s)'
      <3>1. todo'[c] = PairedSends(d, c, s)
        BY <1>2, <2>3
      <3>2. sessions'[s].server = d /\ sessions'[s].client = c
        BY <2>3
      <3>3. QED BY <3>1, <3>2 DEF BoxTold, PairedSends, SendTo, Message
    <2>4. QED BY <2>2, <2>3
  <1>6. AnsweredOver'
    BY DEF AheadInv, AnsweredOver, StaysOver
  <1>7. QED BY <1>3, <1>4, <1>5, <1>6 DEF AheadInv

\* The coordinator reads a request.
LEMMA AskAhead ==
  ASSUME RInv, OneOfferInv, LinkInv, AheadInv, StaysOver, NEW c \in Conn, CoordinatorReads(c) PROVE AheadInv'
  <1> DEFINE m == Head(outbox[c])
  <1>1. /\ outbox[c] # <<>> /\ m \in Requests(c) /\ UNCHANGED <<ppc, ws, rtc>>
    BY WireTypes, HeadTailProperties DEF CoordinatorReads, peers
  <1>2. ASSUME NEW t \in {"registered", "error"}, Owes(c, <<Reply(c, t)>>), todo[c] = <<>>,
               UNCHANGED <<st, inbox, sessions, spent>>
        PROVE  AheadInv'
    <2> DEFINE q == <<Reply(c, t)>>
    <2>1. \A i \in 1..Len(q), s \in Sid : ~Offer(q[i].msg, s)
      BY DEF Reply, SendTo, Message, Offer
    <2>2. Owes(c, q)
      BY <1>2
    <2> HIDE DEF q
    <2>3. QED BY <1>1, <1>2, <2>1, <2>2, OwedAhead
  <1>3. ASSUME Fail(c), todo[c] = <<>>, UNCHANGED <<st, inbox, sessions, spent>> PROVE AheadInv'
    BY <1>2, <1>3 DEF Fail
  <1>4. CASE /\ Register(c, m.code, Box) \/ RefuseRegister(c, m.code, Box)
             /\ UNCHANGED spent
    BY <1>2, <1>3, <1>4 DEF Register, RefuseRegister, Reading, sockets, pairing
  <1>5. CASE RefuseMessage(c) /\ UNCHANGED spent
    BY <1>3, <1>5 DEF RefuseMessage, Reading, sockets, pairing
  <1>6. ASSUME NEW s0 \in Sid \ spent, Connect(c, m.code, s0), spent' = spent \cup {s0}
        PROVE  AheadInv'
    <2>1. PICK d : d = servers[canonicalCode[m.code]]
      OBVIOUS
    <2>2. /\ d # None /\ todo[c] = <<>> /\ Owes(c, PairedSends(d, c, s0)) /\ UNCHANGED <<st, inbox>>
          /\ sessions' = [sessions EXCEPT ![s0] = [server |-> d, client |-> c]]
      BY <1>6, <2>1 DEF Connect, Reading, sockets
    <2>3. d \in Conn
      <3>1. canonicalCode[m.code] \in Code
        BY <1>1, <1>6, RemoteAssumption DEF CoordinatorReads, Requests, BoxCode
      <3>2. QED BY <2>1, <2>2, <3>1 DEF RInv, IInv, TypeOK
    <2>4. \A s \in Sid : sessions'[s] = IF s = s0 THEN [server |-> d, client |-> c] ELSE sessions[s]
      BY <2>2 DEF RInv, IInv, TypeOK
    <2> DEFINE q == PairedSends(d, c, s0)
    <2>5. \A i \in 1..Len(q), s \in Sid : ~Offer(q[i].msg, s)
      BY DEF PairedSends, SendTo, Message, Offer
    <2>6. \A s \in Sid : \/ sessions'[s] = sessions[s] /\ (s \in spent \/ s \notin spent')
                        \/ \E b \in Conn : sessions'[s] = [server |-> b, client |-> c] /\ q = PairedSends(b, c, s)
      BY <1>6, <2>3, <2>4
    <2>7. Owes(c, q) /\ spent \subseteq spent'
      BY <1>6, <2>2
    <2> HIDE DEF q
    <2>8. QED BY <1>1, <2>2, <2>5, <2>6, <2>7, OwedAhead
  <1>7. CASE m.type \in Signals /\ Relay(c, m.type, m.sid) /\ UNCHANGED spent
    <2>1. m.sid \in Sid
      BY <1>1, <1>7 DEF Requests
    <2>2. PICK to : to = IF c = sessions[m.sid].server THEN sessions[m.sid].client
                                                       ELSE sessions[m.sid].server
      OBVIOUS
    <2> DEFINE q == <<SendTo(to, Message(m.type, m.sid))>>
    <2>3. Owes(c, q) /\ UNCHANGED <<st, inbox, sessions>> /\ todo[c] = <<>> /\ Member(c, m.sid)
      BY <1>7, <2>2 DEF Relay, Reading, sockets, pairing
    <2>4. sessions[m.sid] # NoSession
      BY <2>1, <2>3, MemberConn
    <2>5. ASSUME m.type = "offer", st[to] = "open", NEW n, n = Len(inbox[to]) PROVE Told(to, m.sid, n)
      <3>1. CASE to \notin Registrars
        BY <3>1, BrokerAssumption DEF Told, Online, RInv, PeerInv
      <3>2. CASE to \in Registrars
        <4>1. to = sessions[m.sid].server /\ c = sessions[m.sid].client
          BY <2>1, <2>2, <2>3, <2>4, <3>2, RemoteAssumption DEF Member, LinkInv
        <4>2. BoxTold(to, c, m.sid)
          BY <2>1, <2>4, <4>1 DEF AheadInv, SessionTold
        <4>3. PairedSends(to, c, m.sid) # <<>>
          BY DEF PairedSends
        <4>4. At("outbox", c, 1, m.sid)
          BY <1>1, <2>5, WireTypes, TailAt DEF At, Offer
        <4>5. ~Over(m.sid)
          BY <4>4 DEF Over, Wire
        <4>6. QED BY <2>3, <2>5, <4>2, <4>3, <4>5 DEF BoxTold
      <3>3. QED BY <3>1, <3>2
    <2>6. Len(q) = 1 /\ q[1].msg.type = m.type /\ q[1].msg.sid = m.sid /\ q[1].to = to
      BY DEF SendTo, Message
    <2> HIDE DEF q
    <2>7. \A i \in 1..Len(q), s \in Sid :
            Offer(q[i].msg, s) /\ st[q[i].to] = "open" => Told(q[i].to, s, Len(inbox[q[i].to]))
      BY <2>5, <2>6 DEF Offer
    <2>8. QED BY <1>1, <1>7, <2>3, <2>7, OwedAhead
  <1>8. QED
    BY <1>4, <1>5, <1>6, <1>7 DEF CoordinatorReads

\* A send that the coordinator owes fails: the box it was for is not there.
LEMMA FailAhead ==
  ASSUME RInv, LinkInv, AheadInv, StaysOver, UNCHANGED <<ppc, ws, rtc, spent>>, NEW c \in Conn, SendFails(c)
  PROVE  AheadInv'
  <1>1. PICK q : Owes(c, q) /\ (q = <<>> \/ q = <<Reply(c, "error")>>)
    BY DEF SendFails, Fail
  <1>2. \A i \in 1..Len(q), s \in Sid : ~Offer(q[i].msg, s)
    BY <1>1 DEF Reply, SendTo, Message, Offer
  <1>3. UNCHANGED <<st, inbox, sessions>> /\ todo[c] # <<>> /\ st[Head(todo[c]).to] # "open"
    BY DEF SendFails, sockets, pairing
  <1>4. \A b \in Conn : todo'[b] = IF b = c THEN q ELSE todo[b]
    BY <1>1 DEF Owes, RInv, IInv, TypeOK
  <1>5. \A d, s, n : Told(d, s, n)' <=> Told(d, s, n)
    BY <1>3 DEF Told, Online, Paired
  <1>6. OfferInbox'
    BY <1>3, <1>5 DEF AheadInv, OfferInbox, Offer
  <1>7. OfferOwed'
    <2>1. SUFFICES ASSUME NEW b \in Conn, NEW i \in 1..Len(todo'[b]), NEW s \in Sid,
                          Offer(todo'[b][i].msg, s), st[todo'[b][i].to] = "open"
                   PROVE  Told(todo[b][i].to, s, Len(inbox[todo[b][i].to]))'
      BY <1>3 DEF OfferOwed, Offer
    <2>2. b # c
      BY <1>2, <1>4, <2>1
    <2>3. PICK to : to = todo'[b][i].to
      OBVIOUS
    <2>4. Told(to, s, Len(inbox[to]))
      BY <1>4, <2>1, <2>2, <2>3 DEF AheadInv, OfferOwed
    <2>5. QED BY <1>3, <2>3, <2>4 DEF Told, Online, Paired
  <1>8. SessionTold'
    <2>1. SUFFICES ASSUME NEW s \in Sid, sessions[s] # NoSession
                   PROVE  BoxTold(sessions[s].server, sessions[s].client, s)'
      BY <1>3 DEF SessionTold
    <2>2. PICK d, b : d = sessions[s].server /\ b = sessions[s].client
      OBVIOUS
    <2>3. BoxTold(d, b, s) /\ b \in Conn
      BY <2>1, <2>2, BrokerAssumption DEF AheadInv, SessionTold, LinkInv
    <2>4. Over(s) => Over(s)'
      BY DEF StaysOver
    <2>5. CASE todo[b] = PairedSends(d, b, s) /\ b = c
      <3>1. Head(todo[c]).to = d
        BY <2>5 DEF PairedSends, SendTo
      <3>2. QED BY <1>3, <2>2, <3>1 DEF BoxTold
    <2>6. CASE ~(todo[b] = PairedSends(d, b, s) /\ b = c)
      <3>1. todo[b] = PairedSends(d, b, s) => todo'[b] = PairedSends(d, b, s)
        BY <1>4, <2>3, <2>6
      <3>2. BoxTold(d, b, s)'
        BY <1>3, <2>3, <2>4, <3>1 DEF BoxTold, PairedSends, SendTo, Message, Told, Online, Paired
      <3>3. QED BY <1>3, <2>2, <3>2 DEF BoxTold
    <2>7. QED BY <2>5, <2>6
  <1>9. AnsweredOver'
    BY DEF AheadInv, AnsweredOver, StaysOver
  <1>10. QED BY <1>6, <1>7, <1>8, <1>9 DEF AheadInv

\* A send that the coordinator owes is made: the box's "paired" before the client's.
LEMMA SendAhead ==
  ASSUME RInv, LinkInv, AheadInv, StaysOver, UNCHANGED <<ppc, ws, rtc, spent>>, NEW c \in Conn, Send(c)
  PROVE  AheadInv'
  <1> DEFINE m == Head(todo[c]).msg
             a == Head(todo[c]).to
  <1>1. /\ todo[c] # <<>> /\ Owes(c, Tail(todo[c])) /\ UNCHANGED <<st, sessions>>
        /\ \/ st[a] = "open" /\ inbox' = [inbox EXCEPT ![a] = Append(@, m)]
           \/ st[a] = "gone" /\ inbox' = inbox
    BY DEF Send, sockets, pairing
  <1>2. todo[c] \in Seq(Send1) /\ Head(todo[c]) \in Send1
    BY <1>1, WireTypes, HeadTailProperties
  <1>3. a \in Conn /\ m \in Messages
    BY <1>2 DEF Send1
  <1>4. /\ Head(todo[c]) = todo[c][1] /\ 1 \in 1..Len(todo[c])
        /\ \A i \in 1..Len(Tail(todo[c])) : Tail(todo[c])[i] = todo[c][i + 1] /\ i + 1 \in 1..Len(todo[c])
    BY <1>1, <1>2, TailAt
  <1>5. \A b \in Conn : todo'[b] = IF b = c THEN Tail(todo[c]) ELSE todo[b]
    BY <1>1 DEF Owes, RInv, IInv, TypeOK
  <1>6. inbox[a] \in Seq(Messages)
    BY <1>3, WireTypes
  <1> HIDE DEF a, m
  <1>7. /\ Len(inbox[a]) \in Nat /\ Len(Append(inbox[a], m)) = Len(inbox[a]) + 1
        /\ Append(inbox[a], m)[Len(inbox[a]) + 1] = m
        /\ \A i \in 1..Len(inbox[a]) : Append(inbox[a], m)[i] = inbox[a][i]
        /\ \A i \in 1..Len(Append(inbox[a], m)) : i \in 1..Len(inbox[a]) \/ i = Len(inbox[a]) + 1
    BY <1>3, <1>6, AppendAt
  <1>8. \A d \in Conn : inbox'[d] = inbox[d] \/ (d = a /\ st[a] = "open" /\ inbox'[d] = Append(inbox[a], m))
    BY <1>1, <1>3 DEF RInv, IInv, TypeOK
  <1>9. st[a] = "open" => inbox'[a] = Append(inbox[a], m)
    BY <1>1, <1>3 DEF RInv, IInv, TypeOK
  <1>10. ASSUME NEW d \in Conn
         PROVE  /\ Len(inbox[d]) \in Nat /\ Len(inbox'[d]) \in Nat /\ Len(inbox[d]) <= Len(inbox'[d])
                /\ \A i \in 1..Len(inbox[d]) : inbox'[d][i] = inbox[d][i]
    <2>1. Len(inbox[d]) \in Nat
      BY WireTypes, LenProperties
    <2>2. CASE inbox'[d] = inbox[d]
      BY <2>1, <2>2
    <2>3. CASE d = a /\ inbox'[d] = Append(inbox[a], m)
      BY <1>7, <2>3
    <2>4. QED BY <1>8, <2>2, <2>3
  <1>11. ASSUME NEW d \in Conn, NEW s, NEW n \in 0..Len(inbox[d]), NEW n1 \in Nat, n <= n1, Told(d, s, n)
         PROVE  Told(d, s, n1)'
    <2>1. \A j \in 1..n : j \in 1..n1 /\ j \in 1..Len(inbox[d]) /\ inbox'[d][j] = inbox[d][j]
      BY <1>10, <1>11
    <2>2. SUFFICES ASSUME NEW p \in Peer, Online(p), ws[p] = d, rtc[p][s] = "none"
                   PROVE  \E j \in 1..n1 : Paired(inbox'[d][j], s)
      BY DEF Told, Online, Paired
    <2>3. PICK j \in 1..n : Paired(inbox[d][j], s)
      BY <1>11, <2>2 DEF Told
    <2>4. QED BY <2>1, <2>3
  <1>12. ASSUME NEW d \in Conn, NEW s, NEW n, NEW n1, n = Len(inbox[d]), n1 = Len(inbox'[d]), Told(d, s, n)
         PROVE  Told(d, s, n1)'
    BY <1>10, <1>11, <1>12
  <1>13. OfferInbox'
    <2>1. SUFFICES ASSUME NEW d \in Conn, NEW i \in 1..Len(inbox'[d]), NEW s \in Sid, Offer(inbox'[d][i], s)
                   PROVE  Told(d, s, i - 1)'
      BY DEF OfferInbox, Offer
    <2>2. CASE i \in 1..Len(inbox[d])
      <3>1. Told(d, s, i - 1)
        BY <1>10, <2>1, <2>2 DEF AheadInv, OfferInbox
      <3>2. i - 1 \in 0..Len(inbox[d]) /\ i - 1 \in Nat /\ i - 1 <= i - 1
        BY <1>10, <2>2
      <3>3. QED BY <1>11, <3>1, <3>2
    <2>3. CASE d = a /\ st[a] = "open" /\ i = Len(inbox[a]) + 1 /\ Offer(m, s)
      <3>1. Told(a, s, Len(inbox[a]))
        BY <1>4, <2>3 DEF AheadInv, OfferOwed, a, m
      <3>2. Len(inbox[a]) \in 0..Len(inbox[a]) /\ i - 1 = Len(inbox[a]) /\ i - 1 \in Nat /\ Len(inbox[a]) <= i - 1
        BY <1>7, <2>3
      <3>3. QED BY <1>11, <2>3, <3>1, <3>2
    <2>4. i \in 1..Len(inbox[d]) \/ (d = a /\ st[a] = "open" /\ i = Len(inbox[a]) + 1 /\ Offer(m, s))
      <3>1. CASE inbox'[d] = inbox[d]
        BY <2>1, <3>1
      <3>2. CASE d = a /\ st[a] = "open" /\ inbox'[d] = Append(inbox[a], m)
        BY <1>7, <2>1, <3>2
      <3>3. QED BY <1>8, <3>1, <3>2
    <2>5. QED BY <2>2, <2>3, <2>4
  <1>14. OfferOwed'
    <2>1. SUFFICES ASSUME NEW b \in Conn, NEW i \in 1..Len(todo'[b]), NEW s \in Sid,
                          Offer(todo'[b][i].msg, s), st[todo'[b][i].to] = "open"
                   PROVE  Told(todo[b][i].to, s, Len(inbox[todo[b][i].to]))'
      BY <1>1 DEF OfferOwed, Offer
    <2>2. PICK j \in 1..Len(todo[b]) : todo[b][j] = todo'[b][i]
      BY <1>4, <1>5, <2>1
    <2>3. PICK to : to = todo'[b][i].to
      OBVIOUS
    <2>4. to \in Conn
      <3>1. todo[b] \in Seq(Send1)
        BY WireTypes
      <3>2. todo[b][j] \in Send1
        BY <2>2, <3>1
      <3>3. QED BY <2>2, <2>3, <3>2 DEF Send1
    <2>5. PICK n, n1 : n = Len(inbox[to]) /\ n1 = Len(inbox'[to])
      OBVIOUS
    <2>6. Told(to, s, n)
      BY <2>1, <2>2, <2>3, <2>5 DEF AheadInv, OfferOwed
    <2>7. Told(to, s, n1)'
      BY <1>12, <2>4, <2>5, <2>6
    <2>8. QED BY <2>3, <2>5, <2>7 DEF Told
  <1>15. SessionTold'
    <2>1. SUFFICES ASSUME NEW s \in Sid, sessions[s] # NoSession
                   PROVE  BoxTold(sessions[s].server, sessions[s].client, s)'
      BY <1>1 DEF SessionTold
    <2>2. PICK d, b : d = sessions[s].server /\ b = sessions[s].client
      OBVIOUS
    <2>3. BoxTold(d, b, s) /\ b \in Conn /\ d \in Conn
      BY <2>1, <2>2, BrokerAssumption DEF AheadInv, SessionTold, LinkInv
    <2>4. PICK n1 : n1 = Len(inbox'[d])
      OBVIOUS
    <2>5. CASE todo[b] = PairedSends(d, b, s) /\ b = c
      <3>1. a = d /\ Paired(m, s)
        BY <2>5 DEF PairedSends, SendTo, Message, Paired, a, m
      <3>2. CASE st[d] = "open"
        <4>1. inbox'[d] = Append(inbox[d], m) /\ n1 = Len(inbox[d]) + 1 /\ n1 \in 1..n1 /\ inbox'[d][n1] = m
          BY <1>7, <1>9, <2>4, <3>1, <3>2
        <4>2. Told(d, s, n1)'
          BY <3>1, <4>1 DEF Told, Paired
        <4>3. QED BY <1>1, <2>2, <2>4, <4>2 DEF BoxTold, Told
      <3>3. CASE st[d] # "open"
        BY <1>1, <2>2, <3>3 DEF BoxTold
      <3>4. QED BY <3>2, <3>3
    <2>6. CASE ~(todo[b] = PairedSends(d, b, s) /\ b = c)
      <3>1. todo[b] = PairedSends(d, b, s) => todo'[b] = PairedSends(d, b, s)
        BY <1>5, <2>3, <2>6
      <3>2. Over(s) => Over(s)'
        BY DEF StaysOver
      <3>3. Told(d, s, Len(inbox[d])) => Told(d, s, n1)'
        BY <1>12, <2>3, <2>4
      <3>4. \/ todo'[b] = PairedSends(d, b, s) \/ Over(s)' \/ (st'[d] = "open" => Told(d, s, n1)')
        BY <1>1, <2>3, <3>1, <3>2, <3>3 DEF BoxTold
      <3>5. BoxTold(d, b, s)'
        BY <2>4, <3>4 DEF BoxTold, PairedSends, SendTo, Message, Told
      <3>6. QED BY <1>1, <2>2, <3>5 DEF BoxTold
    <2>7. QED BY <2>5, <2>6
  <1>16. AnsweredOver'
    BY DEF AheadInv, AnsweredOver, StaysOver
  <1>17. QED BY <1>13, <1>14, <1>15, <1>16 DEF AheadInv

\* The box serves: what it answers was the only offer.
LEMMA ServeAhead ==
  ASSUME RInv, OneOfferInv, LinkInv, AheadInv, NEW p \in Peer, Serve(p) PROVE AheadInv'
  <1> DEFINE b == ws[p]
             m == Head(inbox[b])
  <1>1. /\ Online(p) /\ Receive(b) /\ b \in Conn
        /\ UNCHANGED <<sessions, todo, st, ws, ppc>>
    BY BrokerAssumption DEF Serve, Active, Online, Receive, pairing, sockets, RInv, PeerInv
  <1>2. m \in Messages /\ Named(m) /\ m = inbox[b][1] /\ 1 \in 1..Len(inbox[b])
    <2>1. inbox[b] \in Seq(Messages) /\ inbox[b] # <<>>
      BY <1>1, WireTypes DEF Receive
    <2>2. QED BY <1>1, <2>1, HeadNamed, TailAt DEF RInv, IInv
  <1>3. rtc \in [Peer -> [Sid -> {"none", "new", "answered"}]]
    BY DEF RInv, PeerInv
  <1>4. StaysOver /\ spent' = spent /\ Moves("inbox", b, 1, "inbox", b, 0)
    <2>1. CASE UNCHANGED wires
      BY <1>1, <2>1, OneRead DEF wires
    <2>2. CASE m.type = "offer" /\ Post(b, Request("answer", None, m.sid))
      <3>1. m.sid \in Sid
        BY <1>2, <2>2, RemoteAssumption DEF Named
      <3>2. QED BY <1>1, <2>2, <3>1, OneServed DEF Post
    <2>3. QED BY <2>1, <2>2 DEF Serve
  <1>5. \/ m.type = "paired" /\ m.sid \in Sid /\ rtc' = [rtc EXCEPT ![p][m.sid] = "new"]
        \/ m.type = "offer" /\ m.sid \in Sid /\ rtc' = [rtc EXCEPT ![p][m.sid] = "answered"]
        \/ m.type # "paired" /\ rtc' = rtc
    BY <1>2, RemoteAssumption DEF Serve, Named
  <1> HIDE DEF m
  <1>6. \A q \in Peer, s \in Sid : rtc'[q][s] = rtc[q][s] \/ (q = p /\ s = m.sid /\ rtc'[q][s] \in {"new", "answered"}
                                                           /\ (rtc'[q][s] = "answered" => m.type = "offer"))
    BY <1>3, <1>5
  <1>7. \A s \in Sid : Paired(m, s) => rtc'[p][s] # "none"
    BY <1>3, <1>5 DEF Paired
  <1>8. OfferInbox' /\ OfferOwed' /\ SessionTold'
    <2>1. \A q \in Peer : Online(q)' => Online(q)
      BY <1>1 DEF Online
    <2>2. \A q \in Peer, s \in Sid : rtc[q][s] # "none" => rtc'[q][s] # "none"
      BY <1>6
    <2>3. QED BY <1>1, <1>4, <1>7, <2>1, <2>2, BoxReadsAhead DEF m
  <1>9. AnsweredOver'
    <2>1. SUFFICES ASSUME NEW q \in Peer, NEW s \in Sid, rtc'[q][s] = "answered" PROVE s \in spent /\ Over(s)'
      BY <1>4 DEF AnsweredOver
    <2>2. CASE rtc'[q][s] = rtc[q][s]
      BY <1>4, <2>1, <2>2 DEF AheadInv, AnsweredOver, StaysOver
    <2>3. CASE s = m.sid /\ m.type = "offer"
      <3>1. At("inbox", b, 1, s)
        BY <1>2, <2>3 DEF At, Offer
      <3>2. One(s) /\ s \in spent
        BY <1>1, <3>1 DEF OneOfferInv, Over, Wire
      <3>3. ASSUME NEW x \in Wire, NEW c \in Conn, NEW i \in Nat, At(x, c, i, s)' PROVE FALSE
        <4>1. i >= 1 /\ i + 1 \in Nat
          BY <3>3 DEF At
        <4>2. \/ x = "inbox" /\ c = b /\ At(x, c, i + 1, s)
              \/ (x # "inbox" \/ c # b) /\ At(x, c, i, s)
          BY <1>4, <3>3, <4>1 DEF Moves
        <4>3. QED BY <1>1, <3>1, <3>2, <4>1, <4>2 DEF One, Wire
      <3>4. QED BY <3>2, <3>3 DEF Over
    <2>4. QED BY <1>6, <2>1, <2>2, <2>3
  <1>10. QED BY <1>8, <1>9 DEF AheadInv

\* The first message of the coordinator: with any but "registered" the peer starts over.
LEMMA VerdictAhead ==
  ASSUME RInv, OneOfferInv, LinkInv, AheadInv, NEW p \in Peer, Verdict(p) PROVE AheadInv'
  <1>1. /\ Online(p) /\ Receive(ws[p]) /\ ws[p] \in Conn
        /\ UNCHANGED <<sessions, todo, st, ws, rtc, outbox, spent>>
    BY BrokerAssumption DEF Verdict, Active, Online, Receive, pairing, sockets, RInv, PeerInv
  <1>2. StaysOver
    BY <1>1, OneRead
  <1>3. ppc \in [Peer -> {"none", "start", "dial", "register", "verdict", "serve"}]
    BY DEF RInv, AppInv, AppTypes
  <1>4. /\ \A q \in Peer : Online(q)' => Online(q)
        /\ Online(p)' => Head(inbox[ws[p]]).type = "registered"
    BY <1>1, <1>3 DEF Verdict, Online
  <1>5. OfferInbox' /\ OfferOwed' /\ SessionTold'
    BY <1>1, <1>2, <1>4, BoxReadsAhead DEF Paired
  <1>6. AnsweredOver'
    BY <1>1, <1>2 DEF AheadInv, AnsweredOver, StaysOver
  <1>7. QED BY <1>5, <1>6 DEF AheadInv

\* A connection that ends had its offer answered, and there is no other.
LEMMA RtcAhead ==
  ASSUME RInv, OneOfferInv, LinkInv, AheadInv, NEW p \in Peer, NEW s0 \in Sid, RtcEnds(p, s0) PROVE AheadInv'
  <1>1. /\ rtc' = [rtc EXCEPT ![p][s0] = "none"] /\ rtc[p][s0] = "answered"
        /\ UNCHANGED <<todo, inbox, outbox, spent, st, sessions, ppc, ws>>
    BY DEF RtcEnds, vars, wires, pairing, sockets
  <1>2. StaysOver
    BY <1>1, OneStays
  <1>3. Over(s0)
    BY <1>1 DEF AheadInv, AnsweredOver
  <1>4. \A q \in Peer, s \in Sid : s # s0 \/ q # p => rtc'[q][s] = rtc[q][s]
    BY <1>1 DEF RInv, PeerInv
  <1>5. \A s \in Sid : s # s0 => \A d, n : Told(d, s, n) => Told(d, s, n)'
    BY <1>1, <1>4 DEF Told, Online, Paired
  <1>6. \A d \in Conn : \A i \in 1..Len(inbox[d]) : ~Offer(inbox[d][i], s0)
    BY <1>3 DEF Over, At, Wire
  <1>7. \A c \in Conn : \A i \in 1..Len(todo[c]) : ~Offer(todo[c][i].msg, s0)
    BY <1>3 DEF Over, At, Wire
  <1>8. OfferInbox'
    BY <1>1, <1>5, <1>6 DEF AheadInv, OfferInbox, Offer
  <1>9. OfferOwed'
    <2>1. SUFFICES ASSUME NEW c \in Conn, NEW i \in 1..Len(todo[c]), NEW s \in Sid,
                          Offer(todo[c][i].msg, s), st[todo[c][i].to] = "open"
                   PROVE  Told(todo[c][i].to, s, Len(inbox[todo[c][i].to]))'
      BY <1>1 DEF OfferOwed, Offer
    <2>2. PICK to, n : to = todo[c][i].to /\ n = Len(inbox[to])
      OBVIOUS
    <2>3. Told(to, s, n)'
      BY <1>5, <1>7, <2>1, <2>2 DEF AheadInv, OfferOwed
    <2>4. QED BY <1>1, <2>2, <2>3 DEF Told
  <1>10. SessionTold'
    <2>1. SUFFICES ASSUME NEW s \in Sid, sessions[s] # NoSession
                   PROVE  BoxTold(sessions[s].server, sessions[s].client, s)'
      BY <1>1 DEF SessionTold
    <2>2. PICK d, c, n : d = sessions[s].server /\ c = sessions[s].client /\ n = Len(inbox[d])
      OBVIOUS
    <2>3. BoxTold(d, c, s)
      BY <2>1, <2>2 DEF AheadInv, SessionTold
    <2>8. Over(s) => Over(s)'
      BY <1>1, <1>2 DEF StaysOver
    <2>4. Over(s)' \/ (Told(d, s, n) => Told(d, s, n)')
      BY <1>3, <1>5, <2>8
    <2>5. \/ todo'[c] = PairedSends(d, c, s) \/ Over(s)' \/ (st'[d] = "open" => Told(d, s, n)')
      BY <1>1, <2>2, <2>3, <2>4, <2>8 DEF BoxTold
    <2>6. BoxTold(d, c, s)'
      BY <1>1, <2>2, <2>5 DEF BoxTold, PairedSends, SendTo, Message, Told
    <2>7. QED BY <1>1, <2>2, <2>6 DEF BoxTold
  <1>11. AnsweredOver'
    BY <1>1, <1>2, <1>4 DEF AheadInv, AnsweredOver, StaysOver, RInv, PeerInv
  <1>12. QED BY <1>8, <1>9, <1>10, <1>11 DEF AheadInv

\* Every step keeps the box's "paired" ahead of the offer.
LEMMA AheadStep ==
  ASSUME RInv, OneOfferInv, LinkInv, AheadInv, [RNext]_rvars PROVE AheadInv'
  <1>1. StaysOver /\ PeerInv'
    BY OneStep, PeerStep
  <1>2. \A c \in Conn : st'[c] = "open" => st[c] \in {"new", "open"}
    BY NeverNew
  <1>3. /\ ppc \in [Peer -> {"none", "start", "dial", "register", "verdict", "serve"}]
        /\ ws \in [Peer -> Registrars \cup {None}]
        /\ rtc \in [Peer -> [Sid -> {"none", "new", "answered"}]]
        /\ Registrars \subseteq Conn /\ Callers \subseteq Conn /\ Registrars \cap Callers = {}
    BY BrokerAssumption, RemoteAssumption DEF RInv, AppInv, AppTypes, PeerInv
  <1>4. /\ st \in [Conn -> {"new", "open", "gone", "closed"}]
        /\ inbox \in [Conn -> Seq(Messages)]
        /\ sessions \in [Sid -> [server : Conn \cup {None}, client : Conn \cup {None}]]
    BY DEF RInv, IInv, TypeOK
  <1>5. ASSUME UNCHANGED <<spent, todo>>, UNCHANGED peers,
               \A c \in Registrars : inbox'[c] \in {inbox[c], <<>>}
                                     /\ (st'[c] = "open" => inbox'[c] = inbox[c]),
               \A s \in Sid : sessions'[s] \in {sessions[s], NoSession}
        PROVE  AheadInv'
    BY <1>1, <1>2, <1>5, CalmKeeps DEF peers, Online
  <1>6. ASSUME UNCHANGED <<spent, todo, inbox, sessions>>,
               \A p \in Peer : Online(p)' =>
                 \/ Online(p) /\ ws'[p] = ws[p] /\ rtc'[p] = rtc[p]
                 \/ st[ws'[p]] = "new" /\ ws'[p] \in Conn,
               \A p \in Peer, s \in Sid : rtc'[p][s] = "answered" => rtc[p][s] = "answered"
        PROVE  AheadInv'
    BY <1>1, <1>2, <1>6, CalmKeeps
  <1>7. CASE AppNext
    <2>1. UNCHANGED <<spent, todo, inbox, sessions, ws, rtc>> /\ \A p \in Peer : Online(p)' => Online(p)
      BY <1>3, <1>7 DEF AppNext, Settle, PatchRemote, RotateCode, SaveConfig, CopyEnabled, CopyCode, RevokeTokens, CancelPeer, SyncStops, SyncStarts, vars, pairing,
         peers, wires, Online
    <2>2. QED BY <1>6, <2>1
  <1>8. CASE PeerNext
    <2>1. ASSUME NEW p \in Peer, ReadCode(p) \/ SendRegister(p) \/ ReadFails(p)
          PROVE  AheadInv'
      <3>1. UNCHANGED <<spent, todo, inbox, sessions, ws, rtc>> /\ \A q \in Peer : Online(q)' => Online(q)
        BY <1>3, <2>1 DEF ReadCode, SendRegister, ReadFails, Active, Post, vars, pairing, wires, Online
      <3>2. QED BY <1>6, <3>1
    <2>2. ASSUME NEW p \in Peer, Stop(p) PROVE AheadInv'
      <3>1. /\ UNCHANGED <<spent, todo, inbox, sessions>>
            /\ \A q \in Peer : Online(q)' => Online(q) /\ q # p
            /\ \A q \in Peer : q # p => ws'[q] = ws[q] /\ rtc'[q] = rtc[q]
        BY <1>3, <2>2 DEF Stop, vars, pairing, Online
      <3>2. \A s \in Sid : rtc'[p][s] = "answered" => rtc[p][s] = "answered"
        BY <1>3, <2>2 DEF Stop
      <3>3. QED BY <1>6, <3>1, <3>2
    <2>3. ASSUME NEW p \in Peer, NEW c \in Conn, NEW a \in Ip, Dial(p, c, a) PROVE AheadInv'
      <3>1. /\ UNCHANGED <<spent, todo, inbox, sessions, rtc>> /\ st[c] = "new"
            /\ \A q \in Peer : IF q = p THEN ws'[q] = c ELSE ws'[q] = ws[q] /\ (Online(q)' => Online(q))
        BY <1>3, <2>3 DEF Dial, Admit, pairing, wires, Online
      <3>2. QED BY <1>6, <3>1
    <2>4. ASSUME NEW p \in Peer, NEW c \in Conn, NEW a \in Ip, DialRefused(p, c, a) PROVE AheadInv'
      BY <1>5, <2>4 DEF DialRefused, Refuse, pairing, wires
    <2>5. QED BY <1>8, <2>1, <2>2, <2>3, <2>4, ServeAhead, VerdictAhead, RtcAhead DEF PeerNext
  <1>9. CASE ClientNext
    <2>1. ASSUME NEW c \in Callers, Receive(c), UNCHANGED <<peers, spent>> PROVE AheadInv'
      <3>1. UNCHANGED <<todo, sessions>> /\ \A d \in Registrars : inbox'[d] = inbox[d]
        BY <1>3, <1>4, <2>1 DEF Receive, pairing
      <3>2. QED BY <1>5, <2>1, <3>1
    <2>2. ASSUME NEW c \in Callers,
                 \/ \E k \in BoxCode, a \in Ip : Call(c, k, a)
                 \/ \E a \in Ip : CallRefused(c, a)
                 \/ HangUp(c)
          PROVE  UNCHANGED <<todo, inbox, sessions, peers, spent>>
      BY <2>2 DEF Call, CallRefused, HangUp, Admit, Refuse, vars, pairing, wires
    <2>3. ASSUME NEW c \in Callers, Called(c) \/ Answered(c)
          PROVE  Receive(c) /\ UNCHANGED <<peers, spent>>
      BY <2>3 DEF Called, Answered, Post, wires
    <2>4. QED BY <1>5, <1>9, <2>1, <2>2, <2>3 DEF ClientNext
  <1>10. CASE CoordinatorNext
    <2>1. ASSUME NEW c \in Conn, CoordinatorActs(c) PROVE AheadInv'
      <3>1. UNCHANGED <<peers, ppc, ws, rtc, spent>>
        BY <2>1 DEF CoordinatorActs, peers, wires
      <3>2. CASE Cleanup(c)
        <4>1. UNCHANGED <<todo, inbox>>
          BY <3>2 DEF Cleanup
        <4>2. \A s \in Sid : sessions'[s] \in {sessions[s], NoSession}
          BY <3>2 DEF Cleanup, Without
        <4>3. QED BY <1>5, <3>1, <4>1, <4>2
      <3>3. QED BY <1>1, <2>1, <3>1, <3>2, SendAhead, FailAhead DEF CoordinatorActs
    <2>2. ASSUME NEW c \in Conn, SeesClose(c) \/ NetworkFails(c) PROVE AheadInv'
      <3>1. Vanish(c) /\ UNCHANGED <<peers, spent>>
        BY <2>2 DEF SeesClose, NetworkFails, wires
      <3>2. /\ UNCHANGED <<todo, sessions>>
            /\ \A d \in Conn : IF d = c THEN inbox'[d] = <<>> /\ st'[d] = "gone" ELSE inbox'[d] = inbox[d]
        BY <1>4, <3>1 DEF Vanish, pairing
      <3>3. QED BY <1>3, <1>5, <3>1, <3>2
    <2>3. QED BY <1>1, <1>10, <2>1, <2>2, AskAhead DEF CoordinatorNext
  <1>11. CASE UNCHANGED rvars
    BY <1>5, <1>11 DEF rvars, vars, pairing, wires
  <1>12. QED BY <1>7, <1>8, <1>9, <1>10, <1>11 DEF RNext

\* It starts so: nothing is on any wire.
LEMMA AheadStarts == ASSUME RInit PROVE OneOfferInv /\ LinkInv /\ AheadInv
  <1>1. /\ todo = [c \in Conn |-> <<>>] /\ inbox = [c \in Conn |-> <<>>] /\ outbox = [c \in Conn |-> <<>>]
        /\ sessions = [s \in Sid |-> NoSession] /\ ppc = [p \in Peer |-> "none"]
        /\ rtc = [p \in Peer |-> [s \in Sid |-> "none"]]
    BY DEF RInit, Init, NoRtc
  <1>2. \A x \in Wire, c \in Conn, i \in Nat, s \in Sid : ~At(x, c, i, s)
    BY <1>1 DEF At
  <1>3. OneOfferInv
    BY <1>2 DEF OneOfferInv, One, Over
  <1>4. LinkInv
    BY <1>1 DEF LinkInv, Online
  <1>5. AheadInv
    BY <1>1 DEF AheadInv, OfferInbox, OfferOwed, SessionTold, AnsweredOver
  <1>6. QED BY <1>3, <1>4, <1>5

\* The invariants of the offer hold.
LEMMA AheadHolds == RSpec => [](RInv /\ AheadInv)
  <1>1. RInit => OneOfferInv /\ LinkInv /\ AheadInv
    BY AheadStarts
  <1>2. RInv /\ (OneOfferInv /\ LinkInv /\ AheadInv) /\ [RNext]_rvars => (OneOfferInv /\ LinkInv /\ AheadInv)'
    BY OneStep, LinkStep, AheadStep
  <1>3. QED BY <1>1, <1>2, RHolds, PTL DEF RSpec

\* A box never reads an offer for a session it has no PeerConnection for.
THEOREM PairedComesFirst == RSpec => []OfferFindsSession
  <1>1. ASSUME RInv, AheadInv PROVE OfferFindsSession
    <2>1. SUFFICES ASSUME NEW p \in Peer, Active(p, "serve"), inbox[ws[p]] # <<>>,
                          Head(inbox[ws[p]]).type = "offer"
                   PROVE  rtc[p][Head(inbox[ws[p]]).sid] # "none"
      BY DEF OfferFindsSession
    <2> DEFINE b == ws[p]
    <2>2. Online(p) /\ b \in Conn
      BY <1>1, <2>1, BrokerAssumption DEF Active, Online, RInv, PeerInv
    <2>3. Head(inbox[b]).sid \in Sid
      BY <1>1, <2>1, <2>2, HeadNamed, RemoteAssumption DEF RInv, IInv, Named
    <2>4. Head(inbox[b]) = inbox[b][1] /\ 1 \in 1..Len(inbox[b])
      BY <1>1, <2>1, <2>2, WireTypes, TailAt
    <2>5. PICK s \in Sid : s = Head(inbox[b]).sid
      BY <2>3
    <2>6. Told(b, s, 1 - 1)
      BY <1>1, <2>1, <2>2, <2>4, <2>5 DEF AheadInv, OfferInbox, Offer
    <2>7. ~\E j \in 1..(1 - 1) : TRUE
      OBVIOUS
    <2>8. QED BY <2>2, <2>5, <2>6, <2>7 DEF Told
  <1>2. QED BY <1>1, AheadHolds, PTL
=============================================================================
