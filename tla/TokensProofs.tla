----------------------------- MODULE TokensProofs -----------------------------
(***************************************************************************)
(* Proofs about Tokens for any number of tokens, devices, profiles and     *)
(* requests: a device never has two tokens it could go on with, a live     *)
(* token is for a profile that exists, and a device that was signed out    *)
(* never comes back (Tokens implements DeviceLife).                        *)
(***************************************************************************)
EXTENDS Tokens, FiniteSetTheorems, WellFoundedInduction, TLAPS

(***************************************************************************)
(* The inductive invariant.                                                *)
(***************************************************************************)

\* A handler about to use a token, a code or a chosen profile has one.
CallInv ==
  \A q \in Call :
    /\ call[q].at = "spend" => call[q].tok \in Token
    /\ At(q, "select", "profile") => call[q].tok \in Token
    /\ At(q, "rotate", "revoke") => call[q].key \in Code

\* A token in the table was drawn, for a device that was paired if for any, and
\* for a profile that exists.
RowInv ==
  \A t \in Token : Stored(t) =>
    /\ t \in drawn
    /\ rows[t].device \in paired \cup {None}
    /\ rows[t].profile \in profiles

IInv ==
  /\ TypeOK
  /\ CallInv
  /\ RowInv
  /\ OneLiveToken

(***************************************************************************)
(* Lemmas.                                                                 *)
(***************************************************************************)

\* A set of ids has a smallest one.
LEMMA SmallestId ==
  ASSUME NEW S, S \subseteq Nat, S # {}
  PROVE  \E p \in S : \A q \in S : p <= q
  <1>1. PICK p \in S : \A q \in S : ~(<<q, p>> \in OpToRel(<, Nat))
    BY NatLessThanWellFounded, WFMin
  <1>2. ASSUME NEW q \in S PROVE ~(q < p)
    <2>1. <<q, p>> \in Nat \X Nat
      OBVIOUS
    <2>2. ~(<<q, p>> \in OpToRel(<, Nat))
      BY <1>1
    <2>3. QED BY <2>1, <2>2 DEF OpToRel
  <1>3. \A q \in S : p \in Nat /\ q \in Nat
    OBVIOUS
  <1>4. QED BY <1>2, <1>3

\* The oldest profile is one of the profiles.
LEMMA OldestExists ==
  ASSUME profiles \subseteq Profile, profiles # {}
  PROVE  Oldest \in profiles
  <1>1. profiles \subseteq Nat
    BY TokensAssumption
  <1>2. \E p \in profiles : \A q \in profiles : p <= q
    BY <1>1, SmallestId
  <1>3. QED BY <1>2 DEF Oldest

\* A row as it is inserted.
LEMMA RowType ==
  ASSUME NEW d \in Device \cup {None}, NEW p \in Profile
  PROVE  /\ Row(d, p) \in Rows /\ Row(d, p).profile = p
         /\ NoRow \in Rows /\ NoRow.profile = 0 /\ NoRow.device = None
         /\ p # 0
  BY TokensAssumption DEF Row, NoRow, Rows

\* Revoking tokens leaves the table a table, and no token that was not live live.
LEMMA RevokingKeeps ==
  ASSUME rows \in [Token -> Rows], NEW T
  PROVE  /\ Revoking(T) \in [Token -> Rows]
         /\ \A t \in Token :
              /\ Revoking(T)[t].device = rows[t].device
              /\ Revoking(T)[t].profile = rows[t].profile
              /\ Revoking(T)[t].expired = rows[t].expired
              /\ rows[t].revoked => Revoking(T)[t].revoked
  BY DEF Revoking, Rows, Stored

\* The steps that only sign devices out: no row appears, changes hands or comes
\* back to life.
Fades ==
  /\ paired' = paired
  /\ drawn' = drawn
  /\ rows' \in [Token -> Rows]
  /\ \A t \in Token : Stored(t)' =>
       /\ Stored(t)
       /\ rows'[t].device = rows[t].device
       /\ rows'[t].profile = rows[t].profile
       /\ rows[t].revoked => rows'[t].revoked
       /\ rows[t].expired => rows'[t].expired

\* A token that lives after rows have only faded was alive before.
LEMMA FadesLive ==
  ASSUME Fades, rows \in [Token -> Rows], NEW t \in Token, Live(t)'
  PROVE  Live(t) /\ rows'[t].device = rows[t].device
  BY DEF Fades, Live, Stored, Rows

\* A step that only signs devices out keeps the invariants of the table.
LEMMA FadesKeeps ==
  ASSUME IInv, Fades
  PROVE  OneLiveToken' /\ (profiles' = profiles => RowInv')
  <1>1. profiles' = profiles => RowInv'
    BY DEF IInv, TypeOK, RowInv, Fades
  <1>2. OneLiveToken'
    <2>1. rows \in [Token -> Rows]
      BY DEF IInv, TypeOK
    <2>2. QED BY <2>1, FadesLive DEF OneLiveToken, IInv
  <1>3. QED BY <1>1, <1>2

(***************************************************************************)
(* The requests.                                                           *)
(***************************************************************************)
Statuses == {"ok", "denied", "notfound", "failed"}

\* What is known of the requests.
CallOK == call \in [Call -> Calls] /\ CallInv

\* A request that has its answer owes nothing more.
LEMMA AnswerKeeps ==
  ASSUME CallOK, NEW q \in Call, NEW x \in Statuses, NEW t \in Token \cup {None},
         AnswerWith(q, x, t)
  PROVE  CallOK'
  <1> DEFINE r == [kind |-> "none", at |-> x, tok |-> t, prof |-> 0, key |-> None]
  <1>1. r \in Calls
    BY DEF Calls, Statuses
  <1>2. call' = [call EXCEPT ![q] = r]
    BY DEF AnswerWith, Request
  <1>3. call' \in [Call -> Calls]
    BY <1>2, <1>1 DEF CallOK
  <1>4. CallInv'
    BY <1>2 DEF CallOK, CallInv, At, Statuses
  <1>5. QED BY <1>3, <1>4 DEF CallOK

\* A request that moves on with what it has read is a request still.
LEMMA AskKeeps ==
  ASSUME CallOK, NEW q \in Call, NEW k, NEW x, NEW t, NEW p, NEW y,
         [kind |-> k, at |-> x, tok |-> t, prof |-> p, key |-> y] \in Calls,
         x = "spend" \/ (k = "select" /\ x = "profile") => t \in Token,
         k = "rotate" /\ x = "revoke" => y \in Code,
         Ask(q, k, x, t, p, y)
  PROVE  CallOK'
  <1>1. call' \in [Call -> Calls]
    BY DEF CallOK, Ask, Request
  <1>2. CallInv'
    BY DEF CallOK, CallInv, Ask, At, Request
  <1>3. QED BY <1>1, <1>2 DEF CallOK

\* Every step of a request and its handler leaves the requests well formed.
LEMMA CallKept ==
  ASSUME IInv, [Next]_vars
  PROVE  CallOK'
  <1>1. /\ CallOK
        /\ None \notin Token
        /\ profiles \subseteq Profile /\ profiles # {} /\ drawn \subseteq Token
        /\ rows \in [Token -> Rows] /\ code \in Code
    BY TokensAssumption DEF IInv, TypeOK, CallOK
  <1>2. CASE UNCHANGED call
    BY <1>1, <1>2 DEF CallOK, CallInv, At
  <1>3. ASSUME NEW q \in Call, NEW k \in (0..code) \cup {None}, AskPair(q, k)
        PROVE  CallOK'
    <2>1. k \in Code \cup {None}
      BY <1>1, TokensAssumption DEF Code
    <2>2. [kind |-> "pair", at |-> "check", tok |-> None, prof |-> 0, key |-> k] \in Calls
      BY <2>1 DEF Calls
    <2>3. QED BY <1>1, <1>3, <2>2, AskKeeps DEF AskPair
  <1>4. ASSUME NEW q \in Call, NEW t \in drawn, AskRefresh(q, t)
        PROVE  CallOK'
    <2>1. [kind |-> "refresh", at |-> "spend", tok |-> t, prof |-> 0, key |-> None] \in Calls
      BY <1>1 DEF Calls
    <2>2. QED BY <1>1, <1>4, <2>1, AskKeeps DEF AskRefresh
  <1>5. ASSUME NEW q \in Call, NEW t \in drawn, AskLogout(q, t)
        PROVE  CallOK'
    <2>1. [kind |-> "logout", at |-> "revoke", tok |-> t, prof |-> 0, key |-> None] \in Calls
      BY <1>1 DEF Calls
    <2>2. QED BY <1>1, <1>5, <2>1, AskKeeps DEF AskLogout
  <1>6. ASSUME NEW q \in Call, NEW t \in drawn, NEW p \in Profile, AskSelect(q, t, p)
        PROVE  CallOK'
    <2>1. [kind |-> "select", at |-> "profile", tok |-> t, prof |-> p, key |-> None] \in Calls
      BY <1>1 DEF Calls
    <2>2. QED BY <1>1, <1>6, <2>1, AskKeeps DEF AskSelect
  <1>7. ASSUME NEW q \in Call, AskRotate(q)
        PROVE  CallOK'
    <2>1. [kind |-> "rotate", at |-> "save", tok |-> None, prof |-> 0, key |-> None] \in Calls
      BY DEF Calls
    <2>2. QED BY <1>1, <1>7, <2>1, AskKeeps DEF AskRotate
  <1>8. ASSUME NEW q \in Call, NEW x \in {"list", "spend"}, GoesTo(q, x),
               x = "spend" => call[q].tok \in Token,
               At(q, "pair", "check") \/ At(q, "select", "profile")
        PROVE  CallOK'
    <2>1. call' = [call EXCEPT ![q].at = x]
      BY <1>8 DEF GoesTo
    <2>2. call' \in [Call -> Calls]
      BY <1>1, <2>1 DEF CallOK, Calls
    <2>3. CallInv'
      BY <1>1, <1>8, <2>1 DEF CallOK, CallInv, At, Calls
    <2>4. QED BY <2>2, <2>3 DEF CallOK
  <1>9. ASSUME NEW q \in Call, NEW x \in Statuses, Answer(q, x)
        PROVE  CallOK'
    BY <1>1, <1>9, AnswerKeeps DEF Answer
  <1>10. ASSUME NEW q \in Call, Check(q)
         PROVE  CallOK'
    BY <1>8, <1>9, <1>10 DEF Check, Statuses
  <1>11. ASSUME NEW q \in Call, List(q)
         PROVE  CallOK'
    <2>1. Oldest \in Profile
      BY <1>1, OldestExists
    <2>2. call' = [call EXCEPT ![q].at = "insert", ![q].prof = Oldest]
      BY <1>11 DEF List
    <2>3. call' \in [Call -> Calls]
      <3> DEFINE c == [call EXCEPT ![q].at = "insert"]
      <3>1. c \in [Call -> Calls]
        BY <1>1 DEF CallOK, Calls
      <3> HIDE DEF c
      <3>2. [c EXCEPT ![q].prof = Oldest] \in [Call -> Calls]
        BY <2>1, <3>1 DEF Calls
      <3>3. QED BY <2>2, <3>2 DEF c
    <2>4. CallInv'
      BY <1>1, <2>2 DEF CallOK, CallInv, At, Calls
    <2>5. QED BY <2>3, <2>4 DEF CallOK
  <1>12. ASSUME NEW q \in Call, NEW d \in Device, NEW t \in Token, Insert(q, d, t)
         PROVE  CallOK'
    <2>1. AnswerWith(q, "ok", t) \/ Answer(q, "failed")
      BY <1>12 DEF Insert
    <2>2. QED BY <1>1, <2>1, <1>9, AnswerKeeps DEF Statuses
  <1>13. ASSUME NEW q \in Call, FindProfile(q)
         PROVE  CallOK'
    BY <1>1, <1>8, <1>9, <1>13 DEF FindProfile, CallOK, CallInv, Statuses
  <1>14. ASSUME NEW q \in Call, NEW u \in Token, Spend(q, u)
         PROVE  CallOK'
    <2>1. call' = [call EXCEPT ![q].at = "confirm", ![q].tok = u, ![q].prof = Target(q)]
      BY <1>14 DEF Spend
    <2>2. KeyHolds(Target(q))
      BY <1>14 DEF Spend
    <2>3. Target(q) \in Profile
      BY <1>1, <2>2 DEF KeyHolds
    <2>4. call' \in [Call -> Calls]
      <3> DEFINE c == [call EXCEPT ![q].at = "confirm"]
                 e == [c EXCEPT ![q].tok = u]
      <3>1. c \in [Call -> Calls]
        BY <1>1 DEF CallOK, Calls
      <3> HIDE DEF c
      <3>2. e \in [Call -> Calls]
        BY <3>1 DEF Calls
      <3> HIDE DEF e
      <3>3. [e EXCEPT ![q].prof = Target(q)] \in [Call -> Calls]
        BY <2>3, <3>2 DEF Calls
      <3>4. QED BY <2>1, <3>3 DEF c, e
    <2>5. CallInv'
      BY <1>1, <2>1 DEF CallOK, CallInv, At, Calls
    <2>6. QED BY <2>4, <2>5 DEF CallOK
  <1>15. ASSUME NEW q \in Call, Replay(q)
         PROVE  CallOK'
    BY <1>9, <1>15 DEF Replay, Statuses
  <1>16. ASSUME NEW q \in Call, RefuseSpend(q)
         PROVE  CallOK'
    BY <1>9, <1>16 DEF RefuseSpend, Statuses
  <1>17. ASSUME NEW q \in Call, Confirm(q)
         PROVE  CallOK'
    <2>1. call[q].tok \in Token \cup {None}
      BY <1>1 DEF CallOK, Calls
    <2>2. AnswerWith(q, "ok", call[q].tok) \/ Answer(q, "denied")
      BY <1>17 DEF Confirm
    <2>3. QED BY <1>1, <1>9, <2>1, <2>2, AnswerKeeps DEF Statuses
  <1>18. ASSUME NEW q \in Call, Revoke(q) \/ RevokeAll(q) \/ Fails(q)
         PROVE  CallOK'
    BY <1>9, <1>18 DEF Revoke, RevokeAll, Fails, Statuses
  <1>19. ASSUME NEW q \in Call, SaveCode(q)
         PROVE  CallOK'
    <2>1. call' = [call EXCEPT ![q].at = "revoke", ![q].key = code + 1]
      BY <1>19 DEF SaveCode
    <2>2. code + 1 \in Code
      BY <1>1, <1>19, TokensAssumption DEF SaveCode, Code
    <2>3. call' \in [Call -> Calls]
      <3> DEFINE c == [call EXCEPT ![q].at = "revoke"]
      <3>1. c \in [Call -> Calls]
        BY <1>1 DEF CallOK, Calls
      <3> HIDE DEF c
      <3>2. [c EXCEPT ![q].key = code + 1] \in [Call -> Calls]
        BY <2>2, <3>1 DEF Calls
      <3>3. QED BY <2>1, <3>2 DEF c
    <2>4. CallInv'
      BY <1>1, <2>1, <2>2 DEF CallOK, CallInv, At, Calls
    <2>5. QED BY <2>3, <2>4 DEF CallOK
  <1>20. Idle \in Calls /\ Idle.at = "idle"
    BY DEF Idle, Calls, Request
  <1>21. ASSUME NEW q \in Call, Done(q)
         PROVE  CallOK'
    <2>1. call' = [call EXCEPT ![q] = Idle]
      BY <1>21 DEF Done
    <2>2. call' \in [Call -> Calls]
      BY <1>1, <1>20, <2>1 DEF CallOK
    <2>3. CallInv'
      BY <1>1, <1>20, <2>1 DEF CallOK, CallInv, At
    <2>4. QED BY <2>2, <2>3 DEF CallOK
  <1>22. CASE Restart
    <2>1. call' = [q \in Call |-> Idle]
      BY <1>22 DEF Restart
    <2>2. call' \in [Call -> Calls]
      BY <1>20, <2>1
    <2>3. CallInv'
      BY <1>20, <2>1 DEF CallInv, At
    <2>4. QED BY <2>2, <2>3 DEF CallOK
  <1>23. ASSUME NEW q \in Call, Arrives(q)
         PROVE  CallOK'
    BY <1>3, <1>4, <1>5, <1>6, <1>7, <1>23 DEF Arrives
  <1>24. ASSUME NEW q \in Call, Handle(q)
         PROVE  CallOK'
    BY <1>10, <1>11, <1>12, <1>13, <1>14, <1>15, <1>16, <1>17, <1>18, <1>19, <1>24 DEF Handle
  <1>25. CASE (\E L \in Lines : RevokeDevice(L)) \/ (\E p \in Profile : DeleteProfile(p))
              \/ (\E t \in Token : Expire(t)) \/ UNCHANGED vars
    BY <1>2, <1>25 DEF RevokeDevice, DeleteProfile, Expire, vars
  <1>26. QED BY <1>18, <1>21, <1>22, <1>23, <1>24, <1>25 DEF Next

(***************************************************************************)
(* The table.                                                              *)
(***************************************************************************)

\* The steps that do not touch the table or the profiles.
Reads == UNCHANGED <<table, profiles>>

\* The steps that sign devices out.
LEMMA SignOuts ==
  ASSUME IInv,
         \/ \E q \in Call : Replay(q) \/ Revoke(q) \/ RevokeAll(q)
         \/ \E L \in Lines : RevokeDevice(L)
         \/ \E t \in Token : Expire(t)
         \/ \E p \in Profile : DeleteProfile(p)
  PROVE  Fades
  <1>1. rows \in [Token -> Rows]
    BY DEF IInv, TypeOK
  <1>2. ASSUME NEW T, rows' = Revoking(T), paired' = paired, drawn' = drawn
        PROVE  Fades
    BY <1>1, <1>2, RevokingKeeps DEF Fades, Stored
  <1>3. ASSUME NEW q \in Call, Replay(q)
        PROVE  Fades
    <2> DEFINE t == call[q].tok
               S == {u \in Token : rows[t].device # None /\ rows[u].device = rows[t].device}
    <2>1. rows' = Revoking(S)
      BY <1>3 DEF Replay, Revoking
    <2>2. paired' = paired /\ drawn' = drawn
      BY <1>3 DEF Replay
    <2>3. QED BY <1>2, <2>1, <2>2
  <1>4. ASSUME NEW q \in Call, Revoke(q) \/ RevokeAll(q)
        PROVE  Fades
    BY <1>2, <1>4 DEF Revoke, RevokeAll
  <1>5. ASSUME NEW L \in Lines, RevokeDevice(L)
        PROVE  Fades
    BY <1>2, <1>5 DEF RevokeDevice
  <1>6. ASSUME NEW t \in Token, Expire(t)
        PROVE  Fades
    BY <1>1, <1>6 DEF Expire, Fades, Stored, Rows
  <1>7. ASSUME NEW p \in Profile, DeleteProfile(p)
        PROVE  Fades
    <2>1. NoRow \in Rows /\ NoRow.profile = 0
      BY TokensAssumption, RowType
    <2>2. rows' = [t \in Token |-> IF rows[t].profile = p THEN NoRow ELSE rows[t]]
      BY <1>7 DEF DeleteProfile
    <2>3. rows' \in [Token -> Rows]
      BY <1>1, <2>1, <2>2
    <2>4. paired' = paired /\ drawn' = drawn
      BY <1>7 DEF DeleteProfile
    <2>5. QED BY <2>1, <2>2, <2>3, <2>4 DEF Fades, Stored
  <1>8. QED BY <1>3, <1>4, <1>5, <1>6, <1>7

\* A device is paired: its first token.
LEMMA InsertKeeps ==
  ASSUME IInv, NEW q \in Call, NEW d \in Device, NEW t \in Token, Insert(q, d, t),
         ~UNCHANGED table
  PROVE  /\ rows' = [rows EXCEPT ![t] = Row(d, call[q].prof)]
         /\ rows' \in [Token -> Rows]
         /\ d \notin paired /\ t \notin drawn
         /\ paired' = paired \cup {d} /\ drawn' = drawn \cup {t}
         /\ shown' \in [Token -> Code \cup {None}]
         /\ RowInv' /\ OneLiveToken'
  <1> DEFINE p == call[q].prof
  <1>1. /\ p \in profiles /\ p \in Profile
        /\ rows' = [rows EXCEPT ![t] = Row(d, p)]
        /\ shown' = [shown EXCEPT ![t] = call[q].key]
        /\ paired' = paired \cup {d} /\ drawn' = drawn \cup {t} /\ profiles' = profiles
        /\ d \notin paired /\ t \notin drawn
    BY DEF Insert, KeyHolds, IInv, TypeOK
  <1> HIDE DEF p
  <1>2. Row(d, p) = [device |-> d, profile |-> p, revoked |-> FALSE, expired |-> FALSE]
    BY DEF Row
  <1>3. Row(d, p) \in Rows
    BY <1>1, RowType
  <1>4. rows \in [Token -> Rows] /\ shown \in [Token -> Code \cup {None}]
    BY DEF IInv, TypeOK
  <1>5. rows' \in [Token -> Rows]
    BY <1>1, <1>3, <1>4
  <1>6. call[q].key \in Code \cup {None}
    BY DEF IInv, TypeOK, Calls
  <1>7. shown' \in [Token -> Code \cup {None}]
    BY <1>1, <1>4, <1>6
  <1>8. RowInv'
    BY <1>1, <1>2, <1>4 DEF IInv, RowInv, Stored
  <1>9. OneLiveToken'
    <2>1. \A u \in Token \ {t} : rows'[u] = rows[u]
      BY <1>1, <1>4
    <2>2. rows'[t].device = d
      BY <1>1, <1>2, <1>4
    <2>3. \A u \in Token : Live(u) => rows[u].device # d
      BY <1>1, TokensAssumption DEF IInv, RowInv, Live
    <2>4. \A u \in Token \ {t} : Live(u)' => Live(u)
      BY <2>1 DEF Live, Stored
    <2>5. QED BY <2>1, <2>2, <2>3, <2>4 DEF IInv, OneLiveToken
  <1>10. QED BY <1>1, <1>5, <1>7, <1>8, <1>9 DEF p

\* A token is spent: its successor is for the same device, the only one alive.
LEMMA SpendKeeps ==
  ASSUME IInv, NEW q \in Call, NEW u \in Token, Spend(q, u)
  PROVE  /\ call[q].tok \in Token /\ Live(call[q].tok)
         /\ rows' \in [Token -> Rows]
         /\ Live(u)' /\ rows'[u].device = rows[call[q].tok].device
         /\ \A v \in Token \ {u} : rows'[v].device = rows[v].device /\ (Live(v)' => Live(v))
         /\ ~Live(u)
         /\ shown' \in [Token -> Code \cup {None}]
         /\ RowInv' /\ OneLiveToken'
  <1> DEFINE t == call[q].tok
             p == Target(q)
  <1>1. /\ t \in Token /\ u \notin drawn /\ p \in profiles /\ p \in Profile
        /\ Live(t)
        /\ rows' = Successor(t, u, p)
        /\ drawn' = drawn \cup {u} /\ paired' = paired /\ profiles' = profiles
        /\ shown' = [shown EXCEPT ![u] = shown[t]]
    BY DEF Spend, Spendable, KeyHolds, IInv, TypeOK, CallInv, Live
  <1> HIDE DEF p, t
  <1>2. rows \in [Token -> Rows] /\ shown \in [Token -> Code \cup {None}]
    BY DEF IInv, TypeOK
  <1>3. t # u /\ t \in drawn /\ ~Stored(u)
    BY <1>1 DEF IInv, RowInv, Live
  <1>4. /\ rows[t].device \in Device \cup {None} /\ rows[t].device \in paired \cup {None}
    BY <1>1, <1>2 DEF IInv, RowInv, Live, Rows
  <1>5. Row(rows[t].device, p) \in Rows /\ Row(rows[t].device, p).profile = p /\ p # 0
    BY <1>1, <1>4, RowType
  <1>6. /\ Row(rows[t].device, p).device = rows[t].device
        /\ ~Row(rows[t].device, p).revoked /\ ~Row(rows[t].device, p).expired
    BY DEF Row
  <1>7. rows' \in [Token -> Rows]
    <2> DEFINE r == [rows EXCEPT ![t].revoked = TRUE]
    <2>1. r \in [Token -> Rows]
      BY <1>1, <1>2 DEF Rows
    <2> HIDE DEF r
    <2>2. [r EXCEPT ![u] = Row(rows[t].device, p)] \in [Token -> Rows]
      BY <1>5, <2>1
    <2>3. QED BY <1>1, <2>2 DEF r, Successor
  <1>8. rows'[u] = Row(rows[t].device, p)
    BY <1>1, <1>2 DEF Successor
  <1>9. \A v \in Token \ {t, u} : rows'[v] = rows[v]
    BY <1>1, <1>2 DEF Successor
  <1>10. /\ rows'[t].device = rows[t].device /\ rows'[t].profile = rows[t].profile
         /\ rows'[t].revoked
    BY <1>1, <1>2, <1>3 DEF Successor, Rows
  <1>11. shown' \in [Token -> Code \cup {None}]
    BY <1>1, <1>2
  <1>12. RowInv'
    <2>1. ASSUME NEW v \in Token, Stored(v)', v # u
          PROVE  Stored(v) /\ rows'[v].device = rows[v].device /\ rows'[v].profile = rows[v].profile
      BY <1>9, <1>10, <2>1 DEF Stored
    <2>2. QED BY <1>1, <1>4, <1>5, <1>6, <1>8, <2>1 DEF IInv, RowInv
  <1>13. Live(u)'
    BY <1>5, <1>6, <1>8 DEF Live, Stored
  <1>14. \A v \in Token \ {u} : rows'[v].device = rows[v].device /\ (Live(v)' => Live(v) /\ v # t)
    BY <1>9, <1>10 DEF Live, Stored
  <1>15. OneLiveToken'
    <2>1. rows'[u].device = rows[t].device
      BY <1>6, <1>8
    <2>2. QED BY <1>1, <1>14, <2>1 DEF IInv, OneLiveToken
  <1>16. ~Live(u)
    BY <1>3 DEF Live
  <1>17. QED BY <1>1, <1>6, <1>7, <1>8, <1>11, <1>12, <1>13, <1>14, <1>15, <1>16 DEF t, p

\* Every step keeps the invariants of the table.
LEMMA TableKept ==
  ASSUME IInv, [Next]_vars
  PROVE  TypeOK' /\ RowInv' /\ OneLiveToken'
  <1>1. call' \in [Call -> Calls]
    BY CallKept DEF CallOK
  <1>2. /\ rows \in [Token -> Rows] /\ drawn \subseteq Token /\ paired \subseteq Device
        /\ profiles \subseteq Profile /\ profiles # {}
        /\ code \in Code /\ shown \in [Token -> Code \cup {None}] /\ cleared \in Code
        /\ CallInv /\ RowInv /\ OneLiveToken
    BY DEF IInv, TypeOK
  <1>3. CASE Reads
    <2>1. code' \in Code /\ cleared' \in Code
      <3>1. ASSUME NEW q \in Call, SaveCode(q)
            PROVE  code' \in Code
        BY <1>2, <3>1, TokensAssumption DEF SaveCode, Code
      <3>2. ASSUME NEW q \in Call, SaveCode(q)
            PROVE  cleared' = cleared
        BY <3>2 DEF SaveCode
      <3>3. ASSUME NEW q \in Call, RevokeAll(q)
            PROVE  code' = code /\ cleared' \in Code
        BY <1>2, <3>3 DEF RevokeAll, CallInv
      <3>4. ASSUME NEW q \in Call, Arrives(q) \/ Fails(q) \/ Done(q)
            PROVE  code' = code /\ cleared' = cleared
        BY <3>4 DEF Arrives, AskPair, AskRefresh, AskSelect, AskLogout, AskRotate, Ask, Fails, Done
      <3>5. ASSUME NEW q \in Call,
                   Check(q) \/ List(q) \/ (\E d \in Device, t \in Token : Insert(q, d, t))
                   \/ FindProfile(q) \/ (\E u \in Token : Spend(q, u)) \/ Replay(q)
                   \/ RefuseSpend(q) \/ Confirm(q) \/ Revoke(q)
            PROVE  code' = code /\ cleared' = cleared
        BY <3>5 DEF Check, List, Insert, FindProfile, Spend, Replay, RefuseSpend, Confirm, Revoke
      <3>6. CASE (\E L \in Lines : RevokeDevice(L)) \/ (\E p \in Profile : DeleteProfile(p))
                 \/ (\E t \in Token : Expire(t)) \/ Restart \/ UNCHANGED vars
        <4>1. code' = code /\ cleared' = cleared
          BY <3>6 DEF RevokeDevice, DeleteProfile, Expire, Restart, vars
        <4>2. QED BY <1>2, <4>1
      <3>7. QED BY <1>2, <3>1, <3>2, <3>3, <3>4, <3>5, <3>6 DEF Next, Handle
    <2>2. /\ rows' = rows /\ drawn' = drawn /\ paired' = paired /\ profiles' = profiles
          /\ shown' = shown
      BY <1>3 DEF Reads, table
    <2>3. TypeOK'
      BY <1>1, <1>2, <2>1, <2>2 DEF TypeOK
    <2>4. RowInv' /\ OneLiveToken'
      BY <1>2, <2>2 DEF RowInv, OneLiveToken, Live, Stored
    <2>5. QED BY <2>3, <2>4
  <1>4. ASSUME NEW q \in Call, NEW d \in Device, NEW t \in Token, Insert(q, d, t), ~UNCHANGED table
        PROVE  TypeOK' /\ RowInv' /\ OneLiveToken'
    <2>1. profiles' = profiles /\ code' = code /\ cleared' = cleared
      BY <1>4 DEF Insert
    <2>2. /\ rows' \in [Token -> Rows] /\ shown' \in [Token -> Code \cup {None}]
          /\ paired' = paired \cup {d} /\ drawn' = drawn \cup {t}
          /\ RowInv' /\ OneLiveToken'
      BY <1>4, InsertKeeps
    <2>3. TypeOK'
      BY <1>1, <1>2, <2>1, <2>2 DEF TypeOK
    <2>4. QED BY <2>2, <2>3
  <1>5. ASSUME NEW q \in Call, NEW u \in Token, Spend(q, u)
        PROVE  TypeOK' /\ RowInv' /\ OneLiveToken'
    <2>1. /\ profiles' = profiles /\ code' = code /\ cleared' = cleared /\ paired' = paired
          /\ drawn' = drawn \cup {u}
      BY <1>5 DEF Spend
    <2>2. /\ rows' \in [Token -> Rows] /\ shown' \in [Token -> Code \cup {None}]
          /\ RowInv' /\ OneLiveToken'
      BY <1>5, SpendKeeps
    <2>3. TypeOK'
      BY <1>1, <1>2, <2>1, <2>2 DEF TypeOK
    <2>4. QED BY <2>2, <2>3
  <1>6. ASSUME Fades, shown' = shown, code' = code, cleared' \in Code,
               profiles' \subseteq Profile, profiles' # {}
        PROVE  TypeOK' /\ OneLiveToken' /\ (profiles' = profiles => RowInv')
    <2>1. OneLiveToken' /\ (profiles' = profiles => RowInv')
      BY <1>6, FadesKeeps
    <2>2. rows' \in [Token -> Rows] /\ drawn' = drawn /\ paired' = paired
      BY <1>6 DEF Fades
    <2>3. TypeOK'
      BY <1>1, <1>2, <1>6, <2>2 DEF TypeOK
    <2>4. QED BY <2>1, <2>3
  <1>7. ASSUME NEW q \in Call, Replay(q) \/ Revoke(q) \/ RevokeAll(q)
        PROVE  TypeOK' /\ RowInv' /\ OneLiveToken'
    <2>1. Fades
      BY <1>7, SignOuts
    <2>2. profiles' = profiles /\ code' = code /\ shown' = shown /\ cleared' \in Code
      BY <1>2, <1>7 DEF Replay, Revoke, RevokeAll, CallInv
    <2>3. QED BY <1>2, <1>6, <2>1, <2>2
  <1>8. CASE (\E L \in Lines : RevokeDevice(L)) \/ (\E t \in Token : Expire(t))
    <2>1. Fades
      BY <1>8, SignOuts
    <2>2. profiles' = profiles /\ code' = code /\ shown' = shown /\ cleared' = cleared
      BY <1>8 DEF RevokeDevice, Expire
    <2>3. QED BY <1>2, <1>6, <2>1, <2>2
  <1>9. ASSUME NEW p \in Profile, DeleteProfile(p)
        PROVE  TypeOK' /\ RowInv' /\ OneLiveToken'
    <2>1. Fades
      BY <1>9, SignOuts
    <2>2. code' = code /\ shown' = shown /\ cleared' = cleared /\ profiles' = profiles \ {p}
      BY <1>9 DEF DeleteProfile
    <2>3. profiles' # {}
      <3>1. profiles # {p}
        <4>1. Cardinality(profiles) > 1
          BY <1>9 DEF DeleteProfile, MayDelete
        <4>2. Cardinality({p}) = 1
          BY FS_Singleton
        <4>3. QED BY <4>1, <4>2
      <3>2. QED BY <1>2, <2>2, <3>1
    <2>4. TypeOK' /\ OneLiveToken'
      BY <1>2, <1>6, <2>1, <2>2, <2>3
    <2>5. RowInv'
      <3>1. \A t \in Token : Stored(t)' => rows'[t].profile # p
        BY <1>2, <1>9, RowType, TokensAssumption DEF DeleteProfile, Stored
      <3>2. QED BY <1>2, <2>1, <2>2, <3>1 DEF RowInv, Fades
    <2>6. QED BY <2>4, <2>5
  <1>10. CASE ~Reads
    <2>1. ASSUME NEW q \in Call, Arrives(q) \/ Fails(q) \/ Done(q)
          PROVE  Reads
      BY <2>1 DEF Arrives, AskPair, AskRefresh, AskSelect, AskLogout, AskRotate, Ask, Fails, Done,
                  Reads
    <2>2. ASSUME NEW q \in Call, Check(q) \/ List(q) \/ FindProfile(q) \/ RefuseSpend(q)
                                 \/ Confirm(q) \/ SaveCode(q)
          PROVE  Reads
      BY <2>2 DEF Check, List, FindProfile, RefuseSpend, Confirm, SaveCode, Reads
    <2>3. ASSUME NEW q \in Call, NEW d \in Device, NEW t \in Token, Insert(q, d, t)
          PROVE  Reads \/ ~UNCHANGED table
      BY <2>3 DEF Insert, Reads
    <2>4. CASE Restart \/ UNCHANGED vars
      BY <1>10, <2>4 DEF Restart, vars, Reads
    <2>5. ASSUME NEW q \in Call, Handle(q)
          PROVE  TypeOK' /\ RowInv' /\ OneLiveToken'
      BY <1>4, <1>5, <1>7, <1>10, <2>2, <2>3, <2>5 DEF Handle
    <2>6. QED BY <1>8, <1>9, <1>10, <2>1, <2>4, <2>5 DEF Next
  <1>11. QED BY <1>3, <1>10

(***************************************************************************)
(* Theorems.                                                               *)
(***************************************************************************)

\* The initial states are states of the invariant.
LEMMA InitInv ==
  ASSUME Init
  PROVE  IInv
  <1>1. profiles = Profile /\ profiles # {} /\ Oldest \in Profile
    BY OldestExists, TokensAssumption DEF Init
  <1>2. Row(None, Oldest) \in Rows /\ NoRow \in Rows /\ NoRow.profile = 0
    BY <1>1, RowType
  <1>3. rows = [t \in Token |-> IF t \in Legacy THEN Row(None, Oldest) ELSE NoRow]
    BY DEF Init
  <1>4. rows \in [Token -> Rows]
    BY <1>2, <1>3
  <1>5. Idle \in Calls /\ Idle.at = "idle"
    BY DEF Idle, Calls, Request
  <1>6. call \in [Call -> Calls] /\ CallInv
    BY <1>5 DEF Init, CallInv, At
  <1>7. 0 \in Code
    BY TokensAssumption DEF Code
  <1>8. TypeOK
    BY <1>1, <1>4, <1>6, <1>7, TokensAssumption DEF TypeOK, Init
  <1>9. RowInv
    BY <1>1, <1>2, <1>3 DEF RowInv, Stored, Init, Row
  <1>10. \A t \in Token : rows[t].device = None
    BY <1>3 DEF Row, NoRow
  <1>11. OneLiveToken
    BY <1>10 DEF OneLiveToken
  <1>12. QED BY <1>6, <1>8, <1>9, <1>11 DEF IInv

\* The invariant is inductive.
LEMMA StepInv ==
  ASSUME IInv, [Next]_vars
  PROVE  IInv'
  BY CallKept, TableKept DEF CallOK, IInv

\* The inductive invariant holds in every state of the specification.
THEOREM Invariance == Spec => []IInv
  <1>1. Init => IInv
    BY InitInv
  <1>2. IInv /\ [Next]_vars => IInv'
    BY StepInv
  <1>3. QED BY <1>1, <1>2, PTL DEF Spec

\* Every variable of the token table and its handlers keeps its type, and the
\* household never loses its last profile.
THEOREM TypeCorrect == Spec => []TypeOK
  <1>1. IInv => TypeOK
    BY DEF IInv
  <1>2. QED BY <1>1, Invariance, PTL

\* A device never has two refresh tokens it could go on with.
THEOREM NoTokenSpentTwice == Spec => []OneLiveToken
  <1>1. IInv => OneLiveToken
    BY DEF IInv
  <1>2. QED BY <1>1, Invariance, PTL

\* No device is left signed in to a profile that was deleted.
THEOREM NobodySignedInAsNobody == Spec => []LiveHasProfile
  <1>1. IInv => LiveHasProfile
    BY DEF IInv, RowInv, LiveHasProfile, Live
  <1>2. QED BY <1>1, Invariance, PTL

(***************************************************************************)
(* The life of a device.                                                   *)
(***************************************************************************)

\* A device that was not paired is new.
LEMMA LifeType ==
  \A d \in Device : Life(d) \in {"new", "paired", "ended"} /\ (Life(d) = "new" <=> d \notin paired)
  BY DEF Life

\* A step that only signs devices out ends the lives of some.
LEMMA FadesEnds ==
  ASSUME IInv, Fades
  PROVE  Lives!Next
  <1> DEFINE D == {d \in Device : Life(d) = "paired" /\ Life(d)' = "ended"}
             life == [d \in Device |-> Life(d)]
  <1>1. rows \in [Token -> Rows] /\ paired' = paired
    BY DEF IInv, TypeOK, Fades
  <1>2. ASSUME NEW d \in Device
        PROVE  Life(d)' = IF d \in D THEN "ended" ELSE Life(d)
    <2>1. ASSUME NEW t \in Token, Live(t)'
          PROVE  Live(t) /\ rows'[t].device = rows[t].device
      BY <1>1, <2>1, FadesLive
    <2>2. QED BY <1>1, <2>1 DEF Life, Family
  <1>3. life' = [d \in Device |-> IF d \in D THEN "ended" ELSE life[d]]
    BY <1>2
  <1>4. \A d \in D : life[d] = "paired"
    OBVIOUS
  <1>5. D \in SUBSET Device
    OBVIOUS
  <1> HIDE DEF D
  <1>6. Lives!End(D)
    BY <1>3, <1>4 DEF Lives!End
  <1>7. QED BY <1>5, <1>6 DEF Lives!Next

\* The lives of the devices, all of them.
Biography == [d \in Device |-> Life(d)]

\* A step of the handlers is a step of the devices' lives, or none.
LEMMA LifeStep ==
  ASSUME IInv, [Next]_vars
  PROVE  Lives!Next \/ UNCHANGED Biography
  <1>1. rows \in [Token -> Rows] /\ None \notin Device /\ RowInv
    BY TokensAssumption DEF IInv, TypeOK
  <1>2. CASE UNCHANGED table
    <2>1. rows' = rows /\ paired' = paired
      BY <1>2 DEF table
    <2>2. \A d \in Device : Life(d)' = Life(d)
      BY <2>1 DEF Life, Family, Live, Stored
    <2>3. QED BY <2>2 DEF Biography
  <1>3. ASSUME NEW q \in Call, NEW d \in Device, NEW t \in Token, Insert(q, d, t), ~UNCHANGED table
        PROVE  Lives!Next
    <2>1. /\ rows' = [rows EXCEPT ![t] = Row(d, call[q].prof)]
          /\ d \notin paired /\ t \notin drawn /\ paired' = paired \cup {d}
      BY <1>3, InsertKeeps
    <2>2. Row(d, call[q].prof).device = d /\ ~Row(d, call[q].prof).revoked
          /\ ~Row(d, call[q].prof).expired /\ Row(d, call[q].prof).profile = call[q].prof
      BY DEF Row
    <2>3. call[q].prof # 0
      <3>1. call[q].prof \in profiles
        BY <1>3 DEF Insert, KeyHolds
      <3>2. QED BY <3>1, TokensAssumption DEF IInv, TypeOK
    <2>4. rows'[t].device = d /\ Live(t)'
      BY <1>1, <2>1, <2>2, <2>3 DEF Live, Stored
    <2>5. ~Live(t)
      BY <1>1, <2>1 DEF RowInv, Live
    <2>6. \A u \in Token \ {t} : rows'[u] = rows[u] /\ (Live(u)' <=> Live(u))
      BY <1>1, <2>1 DEF Live, Stored
    <2>7. ASSUME NEW e \in Device, e # d
          PROVE  Life(e)' = Life(e)
      <3>1. e \in paired' <=> e \in paired
        BY <2>1, <2>7
      <3>2. (\E u \in Family(e) : Live(u))' <=> \E u \in Family(e) : Live(u)
        BY <2>4, <2>5, <2>6, <2>7 DEF Family
      <3>3. QED BY <3>1, <3>2 DEF Life
    <2>8. Life(d) = "new" /\ Life(d)' = "paired"
      <3>1. (\E u \in Family(d) : Live(u))'
        BY <2>4 DEF Family
      <3>2. QED BY <2>1, <3>1 DEF Life
    <2>9. Biography' = [Biography EXCEPT ![d] = "paired"]
      BY <2>7, <2>8 DEF Biography
    <2>10. QED BY <2>8, <2>9 DEF Lives!Next, Lives!Pair, Biography
  <1>4. ASSUME NEW q \in Call, NEW u \in Token, Spend(q, u)
        PROVE  UNCHANGED Biography
    <2> DEFINE t == call[q].tok
    <2>1. /\ t \in Token /\ Live(t) /\ Live(u)' /\ ~Live(u)
          /\ rows'[u].device = rows[t].device
          /\ \A v \in Token \ {u} : rows'[v].device = rows[v].device /\ (Live(v)' => Live(v))
      BY <1>4, SpendKeeps
    <2>2. \A v \in Token \ {t, u} : Live(v) => Live(v)'
      <3>1. rows' = Successor(t, u, Target(q))
        BY <1>4 DEF Spend
      <3>2. QED BY <1>1, <3>1 DEF Successor, Live, Stored
    <2>3. paired' = paired
      BY <1>4 DEF Spend
    <2> HIDE DEF t
    <2>4. ASSUME NEW d \in Device
          PROVE  Life(d)' = Life(d)
      <3>1. CASE rows[t].device = d
        <4>1. \E v \in Family(d) : Live(v)
          BY <2>1, <3>1 DEF Family
        <4>2. (\E v \in Family(d) : Live(v))'
          BY <2>1, <3>1 DEF Family
        <4>3. QED BY <2>3, <4>1, <4>2 DEF Life
      <3>2. CASE rows[t].device # d
        <4>1. (\E v \in Family(d) : Live(v))' => \E v \in Family(d) : Live(v)
          BY <2>1, <3>2 DEF Family
        <4>2. (\E v \in Family(d) : Live(v)) => (\E v \in Family(d) : Live(v))'
          BY <2>1, <2>2, <3>2 DEF Family
        <4>3. QED BY <2>3, <4>1, <4>2 DEF Life
      <3>3. QED BY <3>1, <3>2
    <2>5. QED BY <2>4 DEF Biography
  <1>5. CASE ~UNCHANGED table
    <2>1. ASSUME NEW q \in Call, Arrives(q) \/ Fails(q) \/ Done(q)
          PROVE  UNCHANGED table
      BY <2>1 DEF Arrives, AskPair, AskRefresh, AskSelect, AskLogout, AskRotate, Ask, Fails, Done
    <2>2. ASSUME NEW q \in Call, Check(q) \/ List(q) \/ FindProfile(q) \/ RefuseSpend(q)
                                 \/ Confirm(q) \/ SaveCode(q)
          PROVE  UNCHANGED table
      BY <2>2 DEF Check, List, FindProfile, RefuseSpend, Confirm, SaveCode
    <2>3. CASE Restart \/ UNCHANGED vars
      BY <1>5, <2>3 DEF Restart, vars
    <2>4. ASSUME NEW q \in Call, Replay(q) \/ Revoke(q) \/ RevokeAll(q)
          PROVE  Lives!Next
      BY <2>4, SignOuts, FadesEnds
    <2>5. CASE (\E L \in Lines : RevokeDevice(L)) \/ (\E p \in Profile : DeleteProfile(p))
               \/ (\E t \in Token : Expire(t))
      BY <2>5, SignOuts, FadesEnds
    <2>6. ASSUME NEW q \in Call, Handle(q)
          PROVE  Lives!Next \/ UNCHANGED Biography
      BY <1>3, <1>4, <1>5, <2>2, <2>4, <2>6 DEF Handle
    <2>7. QED BY <1>5, <2>1, <2>3, <2>5, <2>6 DEF Next
  <1>6. QED BY <1>2, <1>5

\* A device that was signed out, by itself, the operator, time or the replay of
\* a spent token, never comes back: Tokens implements DeviceLife.
THEOREM SignedOutForGood == Spec => ImplementsLife
  <1>1. Init => Lives!Init
    <2>1. ASSUME Init PROVE \A d \in Device : Life(d) = "new"
      BY <2>1 DEF Init, Life
    <2>2. QED BY <2>1 DEF Lives!Init
  <1>2. IInv /\ [Next]_vars => Lives!Next \/ UNCHANGED Biography
    BY LifeStep
  <1>3. QED BY <1>1, <1>2, Invariance, PTL DEF Spec, ImplementsLife, Lives!Spec, Biography

=============================================================================
