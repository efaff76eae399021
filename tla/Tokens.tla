-------------------------------- MODULE Tokens --------------------------------
(***************************************************************************)
(* Pairing and refresh tokens on the home server: the auth handlers        *)
(* (api/handlers_auth.go, api/handlers_sessions.go), the auth service      *)
(* (auth/auth.go) and the refresh_tokens table (db/tokens.go).             *)
(*                                                                         *)
(* The database has one connection, so every statement, and every          *)
(* transaction, is atomic and they are totally ordered; a handler is       *)
(* several of them, and other handlers run in between.  A Call is a        *)
(* request at work in a handler, or answered and not yet read.  Tokens and *)
(* device ids are random: never drawn twice.                               *)
(***************************************************************************)
EXTENDS Naturals, FiniteSets

CONSTANTS
  Token,         (* refresh tokens; the table holds their hashes *)
  Device,        (* device ids *)
  Profile,       (* profile ids, in order of creation *)
  Legacy,        (* tokens stored before the table had device ids *)
  Call,          (* requests *)
  MaxRotations,  (* bound on rotations of the connection code *)
  None

ASSUME TokensAssumption ==
  /\ None \notin Token /\ None \notin Device
  /\ Profile \subseteq Nat \ {0} /\ Profile # {}
  /\ Legacy \subseteq Token
  /\ MaxRotations \in Nat

VARIABLES
  rows,      (* the refresh_tokens table *)
  drawn,     (* tokens drawn so far *)
  paired,    (* device ids drawn so far *)
  profiles,  (* the profiles table *)
  code,      (* Cfg.Remote.ConnectionCode: the codes are numbered as drawn *)
  call,      (* the requests *)
  shown,     (* history: the code a token's device showed to pair, if any *)
  cleared    (* history: the code of the last rotation that revoked the tokens *)

table == <<rows, drawn, paired, shown>>
vars  == <<table, profiles, code, call, cleared>>

Row(d, p) == [device |-> d, profile |-> p, revoked |-> FALSE, expired |-> FALSE]
NoRow     == Row(None, 0)
Request(kind, step, t, p, k) == [kind |-> kind, at |-> step, tok |-> t, prof |-> p, key |-> k]
Idle      == Request("none", "idle", None, 0, None)

Stored(t) == rows[t].profile # 0

\* A token with which its device can still refresh.
Live(t) == Stored(t) /\ ~rows[t].revoked /\ ~rows[t].expired

\* profiles[0] of ListProfiles.
Oldest == CHOOSE p \in profiles : \A q \in profiles : p <= q

Init ==
  /\ profiles = Profile
  /\ rows = [t \in Token |-> IF t \in Legacy THEN Row(None, Oldest) ELSE NoRow]
  /\ drawn = Legacy
  /\ paired = {}
  /\ code = 0
  /\ call = [q \in Call |-> Idle]
  /\ shown = [t \in Token |-> None]
  /\ cleared = 0

At(q, kind, step) == call[q].kind = kind /\ call[q].at = step

\* The handler goes on to its next step.
GoesTo(q, step) == call' = [call EXCEPT ![q].at = step]

\* The handler answers; the client learns a status and perhaps a token.
AnswerWith(q, status, t) == call' = [call EXCEPT ![q] = Request("none", status, t, 0, None)]
Answer(q, status) == AnswerWith(q, status, None)

\* The request reaches its handler.
Ask(q, kind, step, t, p, k) ==
  /\ call[q] = Idle
  /\ call' = [call EXCEPT ![q] = Request(kind, step, t, p, k)]
  /\ UNCHANGED <<table, profiles, code, cleared>>

AskPair(q, k)      == Ask(q, "pair", "check", None, 0, k)
AskRefresh(q, t)   == Ask(q, "refresh", "spend", t, 0, None)
AskSelect(q, t, p) == Ask(q, "select", "profile", t, p, None)
AskLogout(q, t)    == Ask(q, "logout", "revoke", t, 0, None)
AskRotate(q)       == Ask(q, "rotate", "save", None, 0, None)

(***************************************************************************)
(* Pairing.                                                                *)
(***************************************************************************)

\* handlePair: a local request needs no code (None); others are throttled and
\* must show the current one.
Check(q) ==
  /\ At(q, "pair", "check")
  /\ \/ call[q].key \in {None, code} /\ GoesTo(q, "list")
     \/ call[q].key # None /\ Answer(q, "denied")
  /\ UNCHANGED <<table, profiles, code, cleared>>

\* IssueSession: the session starts on the first profile.
List(q) ==
  /\ At(q, "pair", "list")
  /\ call' = [call EXCEPT ![q].at = "insert", ![q].prof = Oldest]
  /\ UNCHANGED <<table, profiles, code, cleared>>

\* Mutant: the database does not enforce its foreign keys.
KeyIgnored(p) == p \in Profile

\* The foreign key of the table: a token is stored for a profile there is.
KeyHolds(p) == p \in profiles

\* InsertRefreshToken under a new device id.  A device id or a token drawn in
\* vain is known to nobody.
Insert(q, d, t) ==
  /\ At(q, "pair", "insert")
  /\ t \notin drawn /\ d \notin paired
  /\ IF KeyHolds(call[q].prof)
       THEN /\ drawn' = drawn \cup {t}
            /\ paired' = paired \cup {d}
            /\ rows' = [rows EXCEPT ![t] = Row(d, call[q].prof)]
            /\ shown' = [shown EXCEPT ![t] = call[q].key]
            /\ AnswerWith(q, "ok", t)
       ELSE Answer(q, "failed") /\ UNCHANGED table
  /\ UNCHANGED <<profiles, code, cleared>>

(***************************************************************************)
(* Refresh and profile switch: auth.rotate.                                *)
(***************************************************************************)

\* SelectProfile looks the profile up first.
FindProfile(q) ==
  /\ At(q, "select", "profile")
  /\ IF call[q].prof \in profiles THEN GoesTo(q, "spend") ELSE Answer(q, "notfound")
  /\ UNCHANGED <<table, profiles, code, cleared>>

\* The profile of the new token: the one chosen, or the device's current one.
Target(q) == IF call[q].prof > 0 THEN call[q].prof ELSE rows[call[q].tok].profile

\* Mutant: a token that was used before is as good as any.
SpendableTwice(t) == Stored(t) /\ ~rows[t].expired

Spendable(t) == Stored(t) /\ ~rows[t].revoked /\ ~rows[t].expired

\* Mutant: the old token is not consumed.
SuccessorOnly(t, u, p) == [rows EXCEPT ![u] = Row(rows[t].device, p)]

\* The old token is consumed, its successor is bound to the same device.
Successor(t, u, p) == [rows EXCEPT ![t].revoked = TRUE, ![u] = Row(rows[t].device, p)]

\* RotateRefreshToken, one transaction: token u replaces the one presented.
Spend(q, u) ==
  /\ call[q].at = "spend"
  /\ LET t == call[q].tok IN
     /\ Spendable(t) /\ KeyHolds(Target(q))
     /\ u \notin drawn
     /\ drawn' = drawn \cup {u}
     /\ rows' = Successor(t, u, Target(q))
     /\ shown' = [shown EXCEPT ![u] = shown[t]]
     /\ call' = [call EXCEPT ![q].at = "confirm", ![q].tok = u, ![q].prof = Target(q)]
  /\ UNCHANGED <<paired, profiles, code, cleared>>

\* RotateRefreshToken: the token was consumed before; its whole device is
\* signed out.
Replay(q) ==
  /\ call[q].at = "spend"
  /\ LET t == call[q].tok IN
     /\ Stored(t) /\ rows[t].revoked
     /\ rows' = [u \in Token |->
                  IF Stored(u) /\ rows[t].device # None /\ rows[u].device = rows[t].device
                    THEN [rows[u] EXCEPT !.revoked = TRUE] ELSE rows[u]]
  /\ Answer(q, "denied")
  /\ UNCHANGED <<drawn, paired, shown, profiles, code, cleared>>

\* RotateRefreshToken: no such token, an expired one, or no such profile any
\* more (the foreign key): rolled back.
RefuseSpend(q) ==
  /\ call[q].at = "spend"
  /\ LET t == call[q].tok IN
     \/ ~Stored(t)
     \/ ~rows[t].revoked /\ rows[t].expired
     \/ Live(t) /\ ~KeyHolds(Target(q))
  /\ Answer(q, "denied")
  /\ UNCHANGED <<table, profiles, code, cleared>>

\* rotate reads the profile back, after the commit.
Confirm(q) ==
  /\ call[q].at = "confirm"
  /\ IF call[q].prof \in profiles THEN AnswerWith(q, "ok", call[q].tok) ELSE Answer(q, "denied")
  /\ UNCHANGED <<table, profiles, code, cleared>>

\* Any read or write of the database may fail and be rolled back; all a client
\* learns is the status its handler maps the error to.
Fails(q) ==
  /\ \/ At(q, "pair", "list") /\ Answer(q, "failed")
     \/ At(q, "pair", "insert") /\ Answer(q, "failed")
     \/ At(q, "select", "profile") /\ Answer(q, "notfound")
     \/ call[q].at \in {"spend", "confirm"} /\ Answer(q, "denied")
     \/ At(q, "logout", "revoke") /\ Answer(q, "ok")
     \/ call[q].kind = "rotate" /\ call[q].at \in {"save", "revoke"} /\ Answer(q, "failed")
  /\ UNCHANGED <<table, profiles, code, cleared>>

(***************************************************************************)
(* Signing out.                                                            *)
(***************************************************************************)

\* rows with the tokens in T revoked.
Revoking(T) == [t \in Token |-> IF t \in T /\ Stored(t) THEN [rows[t] EXCEPT !.revoked = TRUE]
                                                        ELSE rows[t]]

\* Logout revokes the token presented.
Revoke(q) ==
  /\ At(q, "logout", "revoke")
  /\ rows' = Revoking({call[q].tok})
  /\ Answer(q, "ok")
  /\ UNCHANGED <<drawn, paired, shown, profiles, code, cleared>>

\* handleRotateConnectionCode: the new code is saved and live.
SaveCode(q) ==
  /\ At(q, "rotate", "save")
  /\ code < MaxRotations
  /\ code' = code + 1
  /\ call' = [call EXCEPT ![q].at = "revoke", ![q].key = code + 1]
  /\ UNCHANGED <<table, profiles, cleared>>

\* RevokeAllTokens.
RevokeAll(q) ==
  /\ At(q, "rotate", "revoke")
  /\ rows' = Revoking(Token)
  /\ cleared' = call[q].key
  /\ Answer(q, "ok")
  /\ UNCHANGED <<drawn, paired, shown, profiles, code>>

\* The tokens of a device: what the session list shows as one line.  A token
\* from before device ids has a line of its own.
Family(d) == {t \in Token : rows[t].device = d}
Lines     == {Family(d) : d \in Device} \cup {{t} : t \in Family(None)}

\* The operator revokes one line of the list.
RevokeDevice(L) ==
  /\ rows' = Revoking(L)
  /\ UNCHANGED <<drawn, paired, shown, profiles, code, call, cleared>>

\* Mutant: the last profile may be deleted.
MayDeleteAny(p) == p \in profiles

MayDelete(p) == p \in profiles /\ Cardinality(profiles) > 1

\* A profile is deleted, and with it (ON DELETE CASCADE) the tokens on it.
DeleteProfile(p) ==
  /\ MayDelete(p)
  /\ profiles' = profiles \ {p}
  /\ rows' = [t \in Token |-> IF rows[t].profile = p THEN NoRow ELSE rows[t]]
  /\ UNCHANGED <<drawn, paired, shown, code, call, cleared>>

\* Thirty days pass.
Expire(t) ==
  /\ Stored(t) /\ ~rows[t].expired
  /\ rows' = [rows EXCEPT ![t].expired = TRUE]
  /\ UNCHANGED <<drawn, paired, shown, profiles, code, call, cleared>>

(***************************************************************************)
(* The specification.                                                      *)
(***************************************************************************)

\* The answer has been read, or its reader is gone.
Done(q) ==
  /\ call[q].at \in {"ok", "denied", "notfound", "failed"}
  /\ call' = [call EXCEPT ![q] = Idle]
  /\ UNCHANGED <<table, profiles, code, cleared>>

\* The server restarts: every handler ends where it is.
Restart ==
  /\ call' = [q \in Call |-> Idle]
  /\ UNCHANGED <<table, profiles, code, cleared>>

Handle(q) ==
  \/ Check(q) \/ List(q) \/ (\E d \in Device, t \in Token : Insert(q, d, t))
  \/ FindProfile(q) \/ (\E u \in Token : Spend(q, u))
  \/ Replay(q) \/ RefuseSpend(q) \/ Confirm(q)
  \/ Revoke(q) \/ SaveCode(q) \/ RevokeAll(q)

\* Clients present tokens they were given at any time, new or old.
Arrives(q) ==
  \/ \E k \in (0..code) \cup {None} : AskPair(q, k)
  \/ \E t \in drawn : AskRefresh(q, t) \/ AskLogout(q, t)
  \/ \E t \in drawn, p \in Profile : AskSelect(q, t, p)
  \/ AskRotate(q)

Next ==
  \/ \E q \in Call : Arrives(q) \/ Handle(q) \/ Fails(q) \/ Done(q)
  \/ \E L \in Lines : RevokeDevice(L)
  \/ \E p \in Profile : DeleteProfile(p)
  \/ \E t \in Token : Expire(t)
  \/ Restart

Spec == Init /\ [][Next]_vars

(***************************************************************************)
(* Properties.                                                             *)
(***************************************************************************)
Rows == [device : Device \cup {None}, profile : Profile \cup {0},
         revoked : BOOLEAN, expired : BOOLEAN]
Code == 0..MaxRotations
Calls == [kind : {"none", "pair", "refresh", "select", "logout", "rotate"},
          at : {"idle", "check", "list", "insert", "profile", "spend", "confirm",
                "revoke", "save", "ok", "denied", "notfound", "failed"},
          tok : Token \cup {None}, prof : Profile \cup {0}, key : Code \cup {None}]

\* Every variable has its type, and the household always has a profile.
TypeOK ==
  /\ rows \in [Token -> Rows]
  /\ drawn \subseteq Token
  /\ paired \subseteq Device
  /\ profiles \subseteq Profile /\ profiles # {}
  /\ code \in Code
  /\ call \in [Call -> Calls]
  /\ shown \in [Token -> Code \cup {None}]
  /\ cleared \in Code

\* However refreshes, profile switches, sign-outs and revocations interleave, a
\* device never has two refresh tokens it could go on with: a token cannot be
\* spent twice.
OneLiveToken ==
  \A t, u \in Token :
    Live(t) /\ Live(u) /\ rows[t].device = rows[u].device /\ rows[t].device # None
      => t = u

\* However pairing, refreshing and switching interleave with the deletion of
\* profiles, a token that is live is bound to a profile that exists: no device is
\* ever left signed in as nobody.
LiveHasProfile == \A t \in Token : Live(t) => rows[t].profile \in profiles

\* A rotation of the code that went through leaves no device paired with an
\* older code.
RotationComplete ==
  \A t \in Token : Live(t) /\ shown[t] # None => shown[t] >= cleared

(***************************************************************************)
(* The life of a device is the one DeviceLife describes.                   *)
(***************************************************************************)
Life(d) == IF d \notin paired THEN "new"
           ELSE IF \E t \in Family(d) : Live(t) THEN "paired" ELSE "ended"

Lives == INSTANCE DeviceLife WITH life <- [d \in Device |-> Life(d)]

ImplementsLife == Lives!Spec
=============================================================================
