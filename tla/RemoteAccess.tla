---------------------------- MODULE RemoteAccess ----------------------------
(***************************************************************************)
(* Remote access end to end: the coordination server (Broker), the home    *)
(* server's app, which starts and stops its remote peer (app/app.go and    *)
(* the handlers that call it), the peer's signaling loop (remote/peer.go)  *)
(* and the client's half of the handshake (frontend js/api/tunnel.js).     *)
(*                                                                         *)
(* A socket carries messages both ways in order: inbox (Broker) towards    *)
(* its other end, outbox towards the coordinator.  An end that closes a    *)
(* socket does not take back what it sent: the coordinator still reads it  *)
(* before it sees the close, and it sees closes of two sockets in any      *)
(* order.                                                                  *)
(***************************************************************************)
EXTENDS Broker

CONSTANTS
  Peer,       (* remote.Peer values, each with its Run goroutine *)
  Handler,    (* API handlers at work on the remote settings *)
  Box,        (* the home server's server_id *)
  MaxOutbox   (* bound on the messages on their way to the coordinator *)

ASSUME RemoteAssumption ==
  /\ None \notin Peer
  /\ Box \in ServerId
  /\ Registrars \cap Callers = {}
  /\ {"offer", "answer"} \subseteq Signals /\ Signals \cap {"register", "connect"} = {}
  /\ MaxOutbox \in Nat \ {0}
  /\ Spelling = Code /\ canonicalCode = [x \in Code |-> x]

VARIABLES
  saved,      (* config.toml: its remote settings *)
  enabled,    (* Cfg.Remote.Enabled *)
  cfgCode,    (* Cfg.Remote.ConnectionCode *)
  current,    (* the peer whose cancel function is App.remoteCancel *)
  hpc,        (* where each handler is *)
  hcfg,       (* the configuration each handler has loaded and changed *)
  stray,      (* history: what the configuration was given with no sync or *)
              (* restart of the peer to come: "enabled", "code" *)
  ppc,        (* where each peer's goroutine is *)
  cancelled,  (* peers whose context has been cancelled *)
  pcode,      (* Peer.code *)
  ws,         (* Peer.ws *)
  rtc,        (* Peer.sessions: none, or a PeerConnection, new or answered *)
  cpc,        (* where each client is in the handshake *)
  csid,       (* the session id the client was told *)
  outbox,     (* messages sent to the coordinator and not yet read by it *)
  shut,       (* sockets whose home-server or client end has closed *)
  spent       (* session ids the coordinator has drawn: random, never again *)

config == <<saved, enabled, cfgCode, hcfg>>
app    == <<config, current, hpc, stray>>
peers  == <<ppc, cancelled, pcode, ws, rtc>>
client == <<cpc, csid>>
wires  == <<outbox, shut, spent>>
rvars  == <<vars, app, peers, client, wires>>

\* A request on its way to the coordinator.
Request(t, k, s) == [type |-> t, code |-> k, sid |-> s]

\* A peer with no PeerConnection.
NoRtc == [s \in Sid |-> "none"]

\* c's end sends a request; lost if the socket is dead.
Post(c, m) ==
  /\ st[c] = "open" => Len(outbox[c]) < MaxOutbox
  /\ outbox' = IF st[c] = "open" THEN [outbox EXCEPT ![c] = Append(@, m)] ELSE outbox
  /\ UNCHANGED <<shut, spent>>

\* A box that has been set up has a connection code.
BoxCode == Code \ {NoCode}

\* The remote settings of the live configuration.
Live == [enabled |-> enabled, code |-> cfgCode]

RInit ==
  /\ Init
  /\ enabled = FALSE
  /\ cfgCode \in BoxCode
  /\ saved = Live
  /\ current = None
  /\ hpc = [h \in Handler |-> "idle"]
  /\ hcfg = [h \in Handler |-> saved]
  /\ stray = {}
  /\ ppc = [p \in Peer |-> "none"]
  /\ cancelled = {}
  /\ pcode = [p \in Peer |-> None]
  /\ ws = [p \in Peer |-> None]
  /\ rtc = [p \in Peer |-> NoRtc]
  /\ cpc = [c \in Callers |-> "idle"]
  /\ csid = [c \in Callers |-> None]
  /\ outbox = [c \in Conn |-> <<>>]
  /\ shut = {}
  /\ spent = {}

(***************************************************************************)
(* The settings handlers.  Each loads the whole configuration file, changes *)
(* its own field, saves the whole and copies it over the live configuration *)
(* without a lock; the copy is not atomic.                                 *)
(***************************************************************************)
\* A handler goes from one place to another.
Step(h, from, to) == hpc[h] = from /\ hpc' = [hpc EXCEPT ![h] = to]

\* PATCH /api/config loads the file (or takes the live configuration if it
\* cannot) and sets remote_enabled, or leaves it.
PatchRemote(h, e) ==
  /\ Step(h, "idle", "patch")
  /\ \E base \in {saved, Live} : hcfg' = [hcfg EXCEPT ![h] = [base EXCEPT !.enabled = e]]
  /\ UNCHANGED <<vars, saved, enabled, cfgCode, stray, current, peers, client, wires>>

\* The rotation does the same with the connection code.
RotateCode(h, k) ==
  /\ Step(h, "idle", "rotate")
  /\ k # cfgCode /\ k # saved.code
  /\ \E base \in {saved, Live} : hcfg' = [hcfg EXCEPT ![h] = [base EXCEPT !.code = k]]
  /\ UNCHANGED <<vars, saved, enabled, cfgCode, stray, current, peers, client, wires>>

\* The whole file is saved; if it cannot be, the handler answers with an error.
SaveConfig(h) ==
  /\ \/ Step(h, "patch", "patchCopy") /\ saved' = hcfg[h]
     \/ Step(h, "rotate", "rotateCopy") /\ saved' = hcfg[h]
     \/ (Step(h, "patch", "idle") \/ Step(h, "rotate", "idle")) /\ UNCHANGED saved
  /\ UNCHANGED <<vars, enabled, cfgCode, hcfg, stray, current, peers, client, wires>>

\* *a.Cfg = *cfg, one field, ...
CopyEnabled(h) ==
  /\ Step(h, "patchCopy", "patchCopyCode") \/ Step(h, "rotateCopy", "rotateCopyCode")
  /\ enabled' = hcfg[h].enabled
  /\ UNCHANGED <<vars, saved, cfgCode, hcfg, stray, current, peers, client, wires>>

\* ... and another; the patch calls syncRemote next, the rotation revokes the
\* tokens.
CopyCode(h) ==
  /\ \/ /\ Step(h, "patchCopyCode", "sync")
        /\ stray' = IF hcfg[h].code # cfgCode THEN stray \cup {"code"} ELSE stray
     \/ Step(h, "rotateCopyCode", "revoke") /\ UNCHANGED stray
  /\ cfgCode' = hcfg[h].code
  /\ UNCHANGED <<vars, saved, enabled, hcfg, current, peers, client, wires>>

\* Every device's tokens are revoked; if that fails the rotation ends here, the
\* new code in place ("restart the server").
RevokeTokens(h) ==
  /\ \/ Step(h, "revoke", "restart") /\ UNCHANGED stray
     \/ Step(h, "revoke", "idle") /\ stray' = {"enabled", "code"}
  /\ UNCHANGED <<vars, config, current, peers, client, wires>>

(***************************************************************************)
(* The app: SyncRemote and RestartRemote.                                  *)
(***************************************************************************)

\* Mutant: RestartRemote leaves the running peer alone.
CancelNothing(h) ==
  /\ Step(h, "restart", "sync")
  /\ stray' = stray \ {"code"}
  /\ UNCHANGED <<vars, config, current, peers, client, wires>>

\* RestartRemote's own critical section cancels the peer; SyncRemote is next.
CancelPeer(h) ==
  /\ Step(h, "restart", "sync")
  /\ cancelled' = cancelled \cup ({current} \ {None})
  /\ current' = None
  /\ stray' = stray \ {"code"}
  /\ UNCHANGED <<vars, config, ppc, pcode, ws, rtc, client, wires>>

\* SyncRemote starts a peer goroutine.
SyncStarts(h, p) ==
  /\ Step(h, "sync", "idle")
  /\ enabled /\ current = None
  /\ ppc[p] = "none" /\ rtc[p] = NoRtc
  /\ ppc' = [ppc EXCEPT ![p] = "start"]
  /\ current' = p
  /\ stray' = {}
  /\ UNCHANGED <<vars, config, cancelled, pcode, ws, rtc, client, wires>>

\* Mutant: the cancel function is called but not cleared.
SyncKeepsCancel(h) ==
  /\ Step(h, "sync", "idle")
  /\ ~(enabled /\ current = None)
  /\ cancelled' = IF enabled THEN cancelled ELSE cancelled \cup ({current} \ {None})
  /\ stray' = stray \ {"enabled"}
  /\ UNCHANGED <<vars, config, current, ppc, pcode, ws, rtc, client, wires>>

\* SyncRemote stops the peer, or has nothing to do.
SyncStops(h) ==
  /\ Step(h, "sync", "idle")
  /\ ~(enabled /\ current = None)
  /\ IF enabled THEN UNCHANGED <<cancelled, current>>
     ELSE /\ cancelled' = cancelled \cup ({current} \ {None})
          /\ current' = None
  /\ stray' = stray \ {"enabled"}
  /\ UNCHANGED <<vars, config, ppc, pcode, ws, rtc, client, wires>>

(***************************************************************************)
(* Peer.Run and connectOnce.                                               *)
(***************************************************************************)
Active(p, label) == ppc[p] = label /\ p \notin cancelled

\* startRemote reads the code from the configuration, without a lock.
ReadCode(p) ==
  /\ ppc[p] = "start"
  /\ pcode' = [pcode EXCEPT ![p] = cfgCode]
  /\ ppc' = [ppc EXCEPT ![p] = "dial"]
  /\ UNCHANGED <<vars, app, cancelled, ws, rtc, client, wires>>

\* Mutant: p.ws is left as it was.
DialUnset(p, c, a) ==
  /\ Active(p, "dial")
  /\ c \in Registrars
  /\ Admit(c, a)
  /\ ppc' = [ppc EXCEPT ![p] = "register"]
  /\ UNCHANGED <<app, cancelled, pcode, ws, rtc, client, wires>>

\* websocket.Dial, first or after a back-off; p.ws is the new socket.
Dial(p, c, a) ==
  /\ Active(p, "dial")
  /\ c \in Registrars
  /\ Admit(c, a)
  /\ ws' = [ws EXCEPT ![p] = c]
  /\ ppc' = [ppc EXCEPT ![p] = "register"]
  /\ UNCHANGED <<app, cancelled, pcode, rtc, client, wires>>

\* The coordinator refuses the socket: its address has too many.
DialRefused(p, c, a) ==
  /\ Active(p, "dial")
  /\ c \in Registrars
  /\ Refuse(c, a)
  /\ UNCHANGED <<app, peers, client, wires>>

\* The box asks to be registered under its code.
SendRegister(p) ==
  /\ Active(p, "register")
  /\ Post(ws[p], Request("register", pcode[p], None))
  /\ ppc' = [ppc EXCEPT ![p] = "verdict"]
  /\ UNCHANGED <<vars, app, cancelled, pcode, ws, rtc, client>>

\* The first message is the verdict; anything but "registered" (or a dead
\* socket) ends connectOnce with an error, the deferred Close runs and Run
\* backs off and dials again.
Verdict(p) ==
  /\ Active(p, "verdict")
  /\ Receive(ws[p])
  /\ IF Head(inbox[ws[p]]).type = "registered"
       THEN ppc' = [ppc EXCEPT ![p] = "serve"] /\ UNCHANGED shut
       ELSE ppc' = [ppc EXCEPT ![p] = "dial"] /\ shut' = shut \cup {ws[p]}
  /\ UNCHANGED <<app, cancelled, pcode, ws, rtc, client, outbox, spent>>

\* A read or a write fails: connectOnce ends as above.
ReadFails(p) ==
  /\ ppc[p] \in {"register", "verdict", "serve"} /\ p \notin cancelled
  /\ st[ws[p]] # "open"
  /\ ppc' = [ppc EXCEPT ![p] = "dial"]
  /\ shut' = shut \cup {ws[p]}
  /\ UNCHANGED <<vars, app, cancelled, pcode, ws, rtc, client, outbox, spent>>

\* handle: a new session, an offer to answer, anything else is dropped.
Serve(p) ==
  /\ Active(p, "serve")
  /\ Receive(ws[p])
  /\ LET m == Head(inbox[ws[p]]) IN
     \/ /\ m.type = "paired"
        /\ rtc' = [rtc EXCEPT ![p][m.sid] = "new"]
        /\ UNCHANGED wires
     \/ /\ m.type = "offer" /\ rtc[p][m.sid] # "none"
        /\ rtc' = [rtc EXCEPT ![p][m.sid] = "answered"]
        /\ Post(ws[p], Request("answer", None, m.sid))
     \/ /\ m.type \notin {"paired", "offer"} \/ (m.type = "offer" /\ rtc[p][m.sid] = "none")
        /\ UNCHANGED <<rtc, wires>>
  /\ UNCHANGED <<app, ppc, cancelled, pcode, ws, client>>

\* The connection failed or the client closed it: closeSession.
RtcEnds(p, s) ==
  /\ rtc[p][s] = "answered"
  /\ rtc' = [rtc EXCEPT ![p][s] = "none"]
  /\ UNCHANGED <<vars, app, ppc, cancelled, pcode, ws, client, wires>>

\* Mutant: the socket is not closed when Run returns.
LeftOpen(p) == {}

\* The deferred ws.Close.
Closed(p) == {ws[p]} \ {None}

\* The context is cancelled: reads, writes and dials fail, Run returns.  Nothing
\* closes the PeerConnections: those that were answered may well be up.
Stop(p) ==
  /\ p \in cancelled /\ ppc[p] # "start"
  /\ ppc' = [ppc EXCEPT ![p] = "none"]
  /\ cancelled' = cancelled \ {p}
  /\ shut' = shut \cup Closed(p)
  /\ pcode' = [pcode EXCEPT ![p] = None]
  /\ ws' = [ws EXCEPT ![p] = None]
  /\ rtc' = [rtc EXCEPT ![p] = [s \in Sid |-> IF @[s] = "new" THEN "none" ELSE @[s]]]
  /\ UNCHANGED <<vars, app, client, outbox, spent>>

(***************************************************************************)
(* The client: signal() and openTunnel().                                  *)
(***************************************************************************)

\* The client opens its socket and sends connect.
Call(c, k, a) ==
  /\ c \in Callers /\ cpc[c] = "idle"
  /\ Admit(c, a)
  /\ outbox' = [outbox EXCEPT ![c] = <<Request("connect", k, None)>>]
  /\ cpc' = [cpc EXCEPT ![c] = "calling"]
  /\ UNCHANGED <<app, peers, csid, shut, spent>>

\* The coordinator refuses the socket.
CallRefused(c, a) ==
  /\ c \in Callers /\ cpc[c] = "idle"
  /\ Refuse(c, a)
  /\ cpc' = [cpc EXCEPT ![c] = "failed"]
  /\ UNCHANGED <<app, peers, csid, wires>>

\* Paired: the offer is sent; an error closes the socket.
Called(c) ==
  /\ c \in Callers /\ cpc[c] = "calling"
  /\ Receive(c)
  /\ LET m == Head(inbox[c]) IN
     IF m.type = "paired"
       THEN /\ csid' = [csid EXCEPT ![c] = m.sid]
            /\ cpc' = [cpc EXCEPT ![c] = "offered"]
            /\ Post(c, Request("offer", None, m.sid))
       ELSE /\ cpc' = [cpc EXCEPT ![c] = "failed"]
            /\ shut' = shut \cup {c}
            /\ UNCHANGED <<csid, outbox, spent>>
  /\ UNCHANGED <<app, peers>>

\* The answer is applied; the direct connection can come up.
Answered(c) ==
  /\ c \in Callers /\ cpc[c] = "offered"
  /\ Receive(c)
  /\ cpc' = [cpc EXCEPT ![c] = IF Head(inbox[c]).type = "answer" THEN "answered" ELSE @]
  /\ UNCHANGED <<app, peers, csid, wires>>

\* A timeout of the client, or the user leaves.
HangUp(c) ==
  /\ c \in Callers /\ cpc[c] \in {"calling", "offered", "answered"}
  /\ cpc' = [cpc EXCEPT ![c] = "failed"]
  /\ shut' = shut \cup {c}
  /\ UNCHANGED <<vars, app, peers, csid, outbox, spent>>

(***************************************************************************)
(* The coordinator, fed by the wires.                                      *)
(***************************************************************************)

\* ServeWS reads the next request; connect may be throttled at any time.
CoordinatorReads(c) ==
  /\ outbox[c] # <<>>
  /\ LET m == Head(outbox[c]) IN
     \/ /\ m.type = "register"
        /\ Register(c, m.code, Box) \/ RefuseRegister(c, m.code, Box)
        /\ UNCHANGED spent
     \/ /\ m.type = "connect"
        /\ \/ \E s \in Sid \ spent : Connect(c, m.code, s) /\ spent' = spent \cup {s}
           \/ RefuseMessage(c) /\ UNCHANGED spent
     \/ /\ m.type \in Signals
        /\ Relay(c, m.type, m.sid) \/ (~Member(c, m.sid) /\ RefuseMessage(c))
        /\ UNCHANGED spent
  /\ outbox' = [outbox EXCEPT ![c] = Tail(@)]
  /\ UNCHANGED <<app, peers, client, shut>>

\* The sends a handler owes, and cleanup.
CoordinatorActs(c) ==
  /\ Send(c) \/ SendFails(c) \/ Cleanup(c)
  /\ UNCHANGED <<app, peers, client, wires>>

\* The coordinator sees the close, having read what was sent before it.
SeesClose(c) ==
  /\ c \in shut /\ outbox[c] = <<>>
  /\ Vanish(c)
  /\ UNCHANGED <<app, peers, client, wires>>

\* The network fails: what is on the wire is lost.
NetworkFails(c) ==
  /\ Vanish(c)
  /\ outbox' = [outbox EXCEPT ![c] = <<>>]
  /\ UNCHANGED <<app, peers, client, shut, spent>>

(***************************************************************************)
(* The specification.                                                      *)
(***************************************************************************)
\* What a handler that has begun still does.
Settle(h) ==
  \/ SaveConfig(h) \/ CopyEnabled(h) \/ CopyCode(h) \/ RevokeTokens(h)
  \/ CancelPeer(h) \/ SyncStops(h)
  \/ \E p \in Peer : SyncStarts(h, p)

AppNext == \E h \in Handler :
  \/ \E e \in BOOLEAN : PatchRemote(h, e)
  \/ \E k \in BoxCode : RotateCode(h, k)
  \/ Settle(h)

PeerNext == \E p \in Peer :
  \/ ReadCode(p) \/ SendRegister(p) \/ Verdict(p) \/ ReadFails(p) \/ Serve(p) \/ Stop(p)
  \/ \E s \in Sid : RtcEnds(p, s)
  \/ \E c \in Conn, a \in Ip : Dial(p, c, a) \/ DialRefused(p, c, a)

ClientNext == \E c \in Callers :
  \/ \E k \in BoxCode, a \in Ip : Call(c, k, a)
  \/ \E a \in Ip : CallRefused(c, a)
  \/ Called(c) \/ Answered(c) \/ HangUp(c)

CoordinatorNext == \E c \in Conn :
  CoordinatorReads(c) \/ CoordinatorActs(c) \/ SeesClose(c) \/ NetworkFails(c)

RNext == AppNext \/ PeerNext \/ ClientNext \/ CoordinatorNext

RSpec == RInit /\ [][RNext]_rvars

\* Goroutines and browsers are scheduled, bytes that are not lost arrive, and a
\* send that waits for room in a socket is not overtaken for ever.  Nobody has
\* to change a setting, to dial, to call or to hang up.
RFairness ==
  /\ \A h \in Handler : WF_rvars(Settle(h))
  /\ \A p \in Peer :
       WF_rvars(ReadCode(p) \/ SendRegister(p) \/ Verdict(p) \/ ReadFails(p) \/ Serve(p) \/ Stop(p))
  /\ \A c \in Callers : WF_rvars(Called(c) \/ Answered(c))
  /\ \A c \in Conn :
       /\ WF_rvars(CoordinatorReads(c))
       /\ SF_rvars((Send(c) \/ SendFails(c)) /\ CoordinatorActs(c))
       /\ WF_rvars(Cleanup(c) /\ CoordinatorActs(c))
       /\ WF_rvars(SeesClose(c))
       /\ WF_rvars(Len(inbox[c]) = MaxInbox /\ NetworkFails(c))

RFairSpec == RSpec /\ RFairness

(***************************************************************************)
(* Properties.                                                             *)
(***************************************************************************)
Settings == [enabled : BOOLEAN, code : BoxCode]

\* Every variable has its type, and a peer past its dial has a socket.
RTypeOK ==
  /\ TypeOK
  /\ saved \in Settings /\ Live \in Settings
  /\ hcfg \in [Handler -> Settings]
  /\ stray \subseteq {"enabled", "code"}
  /\ current \in Peer \cup {None}
  /\ hpc \in [Handler -> {"idle", "patch", "patchCopy", "patchCopyCode", "rotate",
                          "rotateCopy", "rotateCopyCode", "revoke", "restart", "sync"}]
  /\ ppc \in [Peer -> {"none", "start", "dial", "register", "verdict", "serve"}]
  /\ cancelled \subseteq Peer
  /\ pcode \in [Peer -> BoxCode \cup {None}]
  /\ ws \in [Peer -> Registrars \cup {None}]
  /\ \A p \in Peer : ppc[p] \in {"register", "verdict", "serve"} => ws[p] # None
  /\ rtc \in [Peer -> [Sid -> {"none", "new", "answered"}]]
  /\ cpc \in [Callers -> {"idle", "calling", "offered", "answered", "failed"}]
  /\ csid \in [Callers -> Sid \cup {None}]
  /\ outbox \in [Conn -> Seq([type : {"register", "connect"} \cup Signals,
                              code : Code \cup {None}, sid : Sid \cup {None}])]
  /\ shut \subseteq Conn
  /\ spent \subseteq Sid

\* However enables, disables and rotations interleave, and although the code is
\* copied and read outside the lock: at most one peer runs uncancelled, it is the
\* one the app can cancel, and it dials with the configured code, or a rotation is
\* about to restart it.  Two things leave a peer with another code: a patch that
\* loaded the file before a rotation puts the old code back, and a rotation that
\* cannot revoke the tokens ends without a restart.
OnePeerRightCode ==
  \A p \in Peer : ppc[p] # "none" /\ p \notin cancelled =>
    /\ p = current
    /\ \/ ppc[p] = "start" \/ pcode[p] = cfgCode
       \/ \E h \in Handler : hpc[h] \in {"revoke", "restart"}
       \/ "code" \in stray

\* With no handler at work, a peer runs exactly when remote access is on, unless
\* a rotation that ended without a restart wrote back what it had loaded.
PeerMatchesSetting ==
  (\A h \in Handler : hpc[h] = "idle") =>
    (enabled <=> current # None) \/ "enabled" \in stray

\* A box never receives an offer for a session it has no PeerConnection for
\* (it would drop it without a word): "paired" always gets there first.
OfferFindsSession ==
  \A p \in Peer : Active(p, "serve") /\ inbox[ws[p]] # <<>> =>
    LET m == Head(inbox[ws[p]]) IN m.type = "offer" => rtc[p][m.sid] # "none"

\* A box that believes it is registered, on a working socket, is the one its
\* clients are paired with.
ServingIsRegistered ==
  \A p \in Peer : Active(p, "serve") /\ st[ws[p]] = "open" =>
    servers[pcode[p]] = ws[p]

\* Once remote access is off for good, the directory forgets the box (unless it
\* was written off by a rotation that ended without a restart).
ComesDown ==
  <>[](~enabled /\ "enabled" \notin stray) => <>[](\A k \in Code : servers[k] = None)
=============================================================================
