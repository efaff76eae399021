--------------------------- MODULE StreamingProofs ---------------------------
(***************************************************************************)
(* Proofs about Streaming for any number of viewers, session ids, caps and  *)
(* restarts.                                                                *)
(***************************************************************************)
EXTENDS Streaming, FiniteSetTheorems, TLAPS

\* The units a function from handles to costs adds up to.
Units(f) == 2 * Cardinality({r \in Request : f[r] = 2})
              + Cardinality({r \in Request : f[r] = 1})

(***************************************************************************)
(* Lemmas about costs.                                                     *)
(***************************************************************************)

\* The capacity of the box is a natural number under any override.
LEMMA CapacityType ==
  ASSUME NEW o \in Nat PROVE VideoCapacity(o) \in Nat
  BY StreamingAssumption DEF VideoCapacity, EstimatedCapacity

\* A mode costs 0, 1 or 2 units.
LEMMA ModeCostType ==
  ASSUME NEW m PROVE ModeCost(m) \in 0..2
  BY DEF ModeCost

\* A set of handles is finite.
LEMMA HandlesFinite ==
  ASSUME NEW S \in SUBSET Request
  PROVE  IsFiniteSet(S) /\ Cardinality(S) \in Nat
  BY StreamingAssumption, FS_Subset, FS_CardinalityType

\* The units of a function are a natural number.
LEMMA UnitsType ==
  ASSUME NEW f PROVE Units(f) \in Nat
  <1>1. /\ Cardinality({r \in Request : f[r] = 2}) \in Nat
        /\ Cardinality({r \in Request : f[r] = 1}) \in Nat
    BY HandlesFinite
  <1>2. QED BY <1>1 DEF Units

\* Nobody holds anything: no units.
LEMMA UnitsZero ==
  Units([r \in Request |-> 0]) = 0
  <1>1. /\ {r \in Request : [q \in Request |-> 0][r] = 2} = {}
        /\ {r \in Request : [q \in Request |-> 0][r] = 1} = {}
    OBVIOUS
  <1>2. QED BY <1>1, FS_EmptySet DEF Units

\* How the number of handles with a given cost changes with one handle.
LEMMA CountChange ==
  ASSUME NEW f \in [Request -> 0..2], NEW r \in Request, NEW c \in 0..2,
         NEW v \in {1, 2}
  PROVE  LET g == [f EXCEPT ![r] = c]
             F == {q \in Request : f[q] = v}
             G == {q \in Request : g[q] = v}
         IN  Cardinality(G) = Cardinality(F)
               - (IF f[r] = v THEN 1 ELSE 0) + (IF c = v THEN 1 ELSE 0)
  <1> DEFINE g == [f EXCEPT ![r] = c]
             F == {q \in Request : f[q] = v}
             G == {q \in Request : g[q] = v}
             H == F \ {r}
  <1>1. IsFiniteSet(F) /\ Cardinality(F) \in Nat
    BY HandlesFinite
  <1>2. /\ IsFiniteSet(H)
        /\ Cardinality(H) = Cardinality(F) - (IF f[r] = v THEN 1 ELSE 0)
    <2>1. r \in F <=> f[r] = v
      OBVIOUS
    <2>2. QED BY <1>1, <2>1, FS_RemoveElement
  <1>3. G = IF c = v THEN H \cup {r} ELSE H
    OBVIOUS
  <1>4. r \notin H
    OBVIOUS
  <1>5. Cardinality(G) = Cardinality(H) + (IF c = v THEN 1 ELSE 0)
    <2>1. Cardinality(H \cup {r}) = Cardinality(H) + 1
      BY <1>2, <1>4, FS_AddElement
    <2>2. Cardinality(H) \in Nat
      BY <1>2, FS_CardinalityType
    <2>3. QED BY <1>3, <2>1, <2>2
  <1> HIDE DEF g, F, G, H
  <1>6. Cardinality(G) = Cardinality(F)
               - (IF f[r] = v THEN 1 ELSE 0) + (IF c = v THEN 1 ELSE 0)
    BY <1>1, <1>2, <1>5
  <1>7. QED BY <1>6 DEF g, F, G

\* Changing one handle's cost changes the units by the difference.
LEMMA UnitsChange ==
  ASSUME NEW f \in [Request -> 0..2], NEW r \in Request, NEW c \in 0..2
  PROVE  Units([f EXCEPT ![r] = c]) = Units(f) - f[r] + c
  <1> DEFINE g == [f EXCEPT ![r] = c]
             F2 == Cardinality({q \in Request : f[q] = 2})
             F1 == Cardinality({q \in Request : f[q] = 1})
             G2 == Cardinality({q \in Request : g[q] = 2})
             G1 == Cardinality({q \in Request : g[q] = 1})
  <1>1. F2 \in Nat /\ F1 \in Nat
    BY HandlesFinite
  <1>2. G2 = F2 - (IF f[r] = 2 THEN 1 ELSE 0) + (IF c = 2 THEN 1 ELSE 0)
    BY CountChange
  <1>3. G1 = F1 - (IF f[r] = 1 THEN 1 ELSE 0) + (IF c = 1 THEN 1 ELSE 0)
    BY CountChange
  <1>4. f[r] \in 0..2
    OBVIOUS
  <1>5. Units(f) = 2 * F2 + F1 /\ Units(g) = 2 * G2 + G1
    BY DEF Units
  <1> HIDE DEF g, F1, F2, G1, G2
  <1>6. Units(g) = Units(f) - f[r] + c
    <2>1. f[r] \in {0, 1, 2} /\ c \in {0, 1, 2}
      BY <1>4
    <2>2. QED BY <1>1, <1>2, <1>3, <1>5, <2>1
  <1>7. QED BY <1>6 DEF g

\* What a handle holds is part of the units.
LEMMA UnitsBound ==
  ASSUME NEW f \in [Request -> 0..2], NEW r \in Request
  PROVE  f[r] <= Units(f)
  <1>1. Units([f EXCEPT ![r] = 0]) = Units(f) - f[r] + 0
    <2>1. 0 \in 0..2
      OBVIOUS
    <2>2. QED BY <2>1, UnitsChange
  <1>2. Units([f EXCEPT ![r] = 0]) \in Nat /\ Units(f) \in Nat /\ f[r] \in 0..2
    BY UnitsType
  <1>3. QED BY <1>1, <1>2

(***************************************************************************)
(* The inductive invariant.                                                *)
(***************************************************************************)

\* Labels of a request whose own handle may be in hlsSess.
OwnerLabel == {"list", "answered", "fetch", "idle"}

\* Labels of a request that has taken no slot yet, or whose slot is gone.
NoSlotLabel == {"lookup", "acquire", "admit", "touch", "discard"}

\* A registered handle is registered under its own key, once its owner is past
\* registration; the reaper's victim is registered and its slot is given back.
HandlesInv ==
  /\ \A k \in Key : hls[k] # None => req[hls[k]].key = k /\ pc[hls[k]] \in OwnerLabel
  /\ \A r \in Request : pc[r] # "idle" => req[r].key \in Key
  /\ \A r \in Request : pc[r] \in {"touch", "discard", "fetch"} => joined[r] # None
  /\ victim # None => Registered(victim) /\ held[victim] = 0

\* Where a slot is held, and what cost.
SlotInv ==
  /\ SlotHasOwner
  /\ \A r \in Request : pc[r] = "lookup" => req[r].mode = "video"
  /\ \A r \in Request : pc[r] \in {"acquire", "admit"} => req[r].mode \in {"audio", "video"}
  /\ \A r \in Request : pc[r] \in {"start", "wait", "register"} => held[r] = 2

\* A running encoder belongs to a handle that is being started or registered,
\* and its video slot is held.
EncoderInv ==
  /\ EncoderIsPaid
  /\ \A r \in Request : ff[r] = "running" => pc[r] \in {"wait", "register"} \cup OwnerLabel

\* The capacity in force and the budgets read are within the ceiling, and it is
\* within every capacity the box can have.
BudgetInv ==
  /\ SlotsAccounted
  /\ WithinBudget
  /\ override \in Caps \cup {0}
  /\ VideoCapacity(override) <= ceiling /\ ceiling <= CapacityBound
  /\ \A r \in Request : budget[r] <= 2 * ceiling

\* A budget is kept only from its reading to the lock.
AskInv == \A r \in Request : pc[r] # "admit" => budget[r] = 0

IInv == TypeOK /\ HandlesInv /\ SlotInv /\ EncoderInv /\ BudgetInv /\ AskInv

(***************************************************************************)
(* Type correctness.                                                       *)
(***************************************************************************)

\* What the releases and touches do to the variables they change keeps types.
LEMMA ReleaseType ==
  ASSUME TypeOK, SlotsAccounted, NEW h \in Request, ReleaseSlot(h)
  PROVE  /\ inFlight' \in Nat /\ inFlight' = inFlight - held[h]
         /\ held' \in [Request -> 0..2]
         /\ UNCHANGED <<budget, override>>
  <1>1. inFlight = Units(held)
    BY DEF SlotsAccounted, Paying, Units
  <1>2. held \in [Request -> 0..2] /\ inFlight \in Nat
    BY DEF TypeOK
  <1>3. held[h] <= inFlight
    BY <1>1, <1>2, UnitsBound
  <1>4. QED BY <1>2, <1>3 DEF ReleaseSlot

\* Every step keeps the types (a release needs the accounting: the counter
\* does not go below zero).
LEMMA TypeStep ==
  ASSUME TypeOK, HandlesInv, SlotsAccounted, [Next]_vars PROVE TypeOK'
  <1>0. ASSUME NEW o \in Nat PROVE Raised(VideoCapacity(o)) \in Nat /\ VideoCapacity(o) \in Nat
    BY CapacityType DEF Raised, TypeOK
  <1>1. CASE EnsureFFmpeg
    BY <1>0, <1>1 DEF EnsureFFmpeg, TypeOK, sessions, access
  <1>2. ASSUME NEW n \in Caps, PatchConfig(n) PROVE TypeOK'
    <2>1. (IF ready THEN n ELSE override) \in Nat
      BY StreamingAssumption DEF TypeOK
    <2>2. ceiling' \in Nat
      BY <1>0, <1>2, <2>1 DEF PatchConfig
    <2>3. QED BY <1>2, <2>1, <2>2 DEF PatchConfig, TypeOK, sessions, access
  <1>3. CASE Restart
    <2>1. req' \in [Request -> [key : Key \cup {None}, mode : AllModes]]
      BY <1>3 DEF Restart, AllModes
    <2>2. restarts' \in 0..MaxRestarts
      BY <1>3, StreamingAssumption DEF Restart, TypeOK
    <2>3. /\ pc' \in [Request -> Label]
          /\ joined' \in [Request -> Handle]
          /\ hls' \in [Key -> Handle]
          /\ ff' \in [Request -> {"none", "running", "cancelled"}]
      BY <1>3 DEF Restart, Label, Handle
    <2>4. budget' \in [Request -> Nat] /\ held' \in [Request -> 0..2]
      BY <1>3 DEF Restart
    <2>5. ceiling' \in Nat
      BY <1>0, <1>3 DEF Restart
    <2>6. QED BY <1>3, <2>1, <2>2, <2>3, <2>4, <2>5 DEF Restart, TypeOK, Handle
  <1>4. ASSUME NEW r \in Request, NEW k \in Key, NEW m \in Modes, Arrive(r, k, m) PROVE TypeOK'
    BY <1>4, StreamingAssumption DEF Arrive, TypeOK, Goto, Label, StartPhase, AllModes, admission, sessions, access, process
  <1>5. ASSUME NEW r \in Request, ReadBudget(r) PROVE TypeOK'
    BY <1>0, <1>5 DEF ReadBudget, TypeOK, Goto, Label, StartPhase, Handle, KeyOf, Touch, Forget, Live, Cancelled, admission, sessions, access, process
  <1>6. ASSUME NEW r \in Request, Admit(r) PROVE TypeOK'
    BY <1>6, ModeCostType DEF Admit, Fits, TypeOK, Goto, Label, StartPhase, Handle, KeyOf, Touch, Forget, Live, Cancelled, admission, sessions, access, process, CostOf
  <1>7. ASSUME NEW r \in Request, Busy(r) PROVE TypeOK'
    BY <1>7 DEF Busy, Fits, TypeOK, Goto, Label, StartPhase, Handle, KeyOf, Touch, Forget, Live, Cancelled, admission, sessions, access, process
  <1>8. ASSUME NEW r \in Request, AddStream(r) PROVE TypeOK'
    BY <1>8 DEF AddStream, TypeOK, HandlesInv, Goto, Label, StartPhase, Handle, KeyOf, Touch, Forget, Live, Cancelled, admission, sessions, access, process
  <1>9. ASSUME NEW r \in Request, Release(r) PROVE TypeOK'
    BY <1>9, ReleaseType DEF Release, TypeOK, Goto, Label, StartPhase, Handle, KeyOf, Touch, Forget, Live, Cancelled, admission, sessions, access, process
  <1>10. ASSUME NEW r \in Request, Lookup(r) PROVE TypeOK'
    BY <1>10 DEF Lookup, TypeOK, HandlesInv, Goto, Label, StartPhase, Handle, KeyOf, Touch, Forget, Live, Cancelled, admission, sessions, access, process
  <1>11. ASSUME NEW r \in Request, TouchJoined(r) PROVE TypeOK'
    BY <1>11 DEF TouchJoined, TypeOK, HandlesInv, Goto, Label, StartPhase, Handle, KeyOf, Touch, Forget, Live, Cancelled, admission, sessions, access, process
  <1>12. ASSUME NEW r \in Request, StartFFmpeg(r) PROVE TypeOK'
    BY <1>12 DEF StartFFmpeg, TypeOK, HandlesInv, Goto, Label, StartPhase, Handle, KeyOf, Touch, Forget, Live, Cancelled, admission, sessions, access, process
  <1>13. ASSUME NEW r \in Request, StartFails(r) PROVE TypeOK'
    BY <1>13 DEF StartFails, TypeOK, Goto, Label, StartPhase, Handle, KeyOf, Touch, Forget, Live, Cancelled, admission, sessions, access, process
  <1>14. ASSUME NEW r \in Request, PlaylistAppears(r) PROVE TypeOK'
    BY <1>14 DEF PlaylistAppears, TypeOK, Goto, Label, StartPhase, Handle, KeyOf, Touch, Forget, Live, Cancelled, admission, sessions, access, process
  <1>15. ASSUME NEW r \in Request, WaitTimeout(r) PROVE TypeOK'
    BY <1>15 DEF WaitTimeout, TypeOK, Goto, Label, StartPhase, Handle, KeyOf, Touch, Forget, Live, Cancelled, admission, sessions, access, process
  <1>16. ASSUME NEW r \in Request, Register(r) PROVE TypeOK'
    BY <1>16 DEF Register, TypeOK, Goto, Label, StartPhase, Handle, KeyOf, Touch, Forget, Live, Cancelled, admission, sessions, access, process
  <1>17. ASSUME NEW r \in Request, LoseRace(r) PROVE TypeOK'
    BY <1>17, ReleaseType DEF LoseRace, TypeOK, HandlesInv, Goto, Label, StartPhase, Handle, KeyOf, Touch, Forget, Live, Cancelled, admission, sessions, access, process
  <1>18. ASSUME NEW r \in Request, DropScratch(r) PROVE TypeOK'
    BY <1>18 DEF DropScratch, TypeOK, HandlesInv, Goto, Label, StartPhase, Handle, KeyOf, Touch, Forget, Live, Cancelled, admission, sessions, access, process
  <1>19. ASSUME NEW r \in Request, ListSession(r) PROVE TypeOK'
    BY <1>19 DEF ListSession, TypeOK, HandlesInv, Goto, Label, StartPhase, Handle, KeyOf, Touch, Forget, Live, Cancelled, admission, sessions, access, process
  <1>20. ASSUME NEW r \in Request, EndStream(r) PROVE TypeOK'
    BY <1>20 DEF EndStream, TypeOK, Goto, Label, StartPhase, Handle, KeyOf, Touch, Forget, Live, Cancelled, admission, sessions, access, process
  <1>21. ASSUME NEW r \in Request, FetchLookup(r) PROVE TypeOK'
    BY <1>21 DEF FetchLookup, TypeOK, HandlesInv, Goto, Label, StartPhase, Handle, KeyOf, Touch, Forget, Live, Cancelled, admission, sessions, access, process
  <1>22. ASSUME NEW r \in Request, FetchTouch(r) PROVE TypeOK'
    BY <1>22 DEF FetchTouch, TypeOK, HandlesInv, Goto, Label, StartPhase, Handle, KeyOf, Touch, Forget, Live, Cancelled, admission, sessions, access, process
  <1>23. ASSUME NEW r \in Request, Leave(r) PROVE TypeOK'
    BY <1>23 DEF Leave, TypeOK, Goto, Label, StartPhase, Handle, KeyOf, Touch, Forget, Live, Cancelled, admission, sessions, access, process
  <1>24. ASSUME NEW r \in Request, FFmpegWrites(r) PROVE TypeOK'
    BY <1>24 DEF FFmpegWrites, TypeOK, Goto, Label, StartPhase, Handle, KeyOf, Touch, Forget, Live, Cancelled, admission, sessions, access, process
  <1>25. ASSUME NEW r \in Request, FFmpegExits(r) PROVE TypeOK'
    BY <1>25 DEF FFmpegExits, TypeOK, Goto, Label, StartPhase, Handle, KeyOf, Touch, Forget, Live, Cancelled, admission, sessions, access, process
  <1>26. ASSUME NEW r \in Request, GoIdle(r) PROVE TypeOK'
    BY <1>26 DEF GoIdle, TypeOK, Goto, Label, StartPhase, Handle, KeyOf, Touch, Forget, Live, Cancelled, admission, sessions, access, process
  <1>27. ASSUME NEW r \in Request, ReapStop(r) PROVE TypeOK'
    BY <1>27, ReleaseType DEF ReapStop, TypeOK, Goto, Label, StartPhase, Handle, KeyOf, Touch, Forget, Live, Cancelled, admission, sessions, access, process
  <1>28. CASE ReapRemove
    <2>1. KeyOf(victim) \in Key
      BY <1>28 DEF ReapRemove, HandlesInv, Registered, KeyOf
    <2>2. overtaken' \subseteq Key
      BY <1>28, <2>1 DEF ReapRemove, TypeOK
    <2>3. QED BY <1>28, <2>2 DEF ReapRemove, TypeOK, Handle, KeyOf, Forget, admission, process
  <1>29. CASE UNCHANGED vars
    BY <1>29 DEF vars, TypeOK, admission, sessions, access, process
  <1>30. QED BY <1>1, <1>2, <1>3, <1>4, <1>5, <1>6, <1>7, <1>8, <1>9, <1>10, <1>11, <1>12, <1>13, <1>14, <1>15, <1>16, <1>17, <1>18, <1>19, <1>20, <1>21, <1>22, <1>23, <1>24, <1>25, <1>26, <1>27, <1>28, <1>29 DEF Next, Serve, Play

(***************************************************************************)
(* Each part of the invariant is kept by every step.                       *)
(***************************************************************************)

\* Handles stay under their keys, and the victim stays registered.
LEMMA HandlesStep ==
  ASSUME IInv, [Next]_vars PROVE HandlesInv'
  <1>1. CASE EnsureFFmpeg
    BY <1>1, StreamingAssumption DEF EnsureFFmpeg, sessions, IInv, TypeOK,
       HandlesInv, OwnerLabel, Registered
  <1>2. ASSUME NEW n \in Caps, PatchConfig(n) PROVE HandlesInv'
    BY <1>2, StreamingAssumption DEF PatchConfig, sessions, IInv, TypeOK,
       HandlesInv, OwnerLabel, Registered
  <1>3. CASE Restart
    BY <1>3, StreamingAssumption DEF Restart, IInv, TypeOK, HandlesInv, OwnerLabel,
       Registered
  <1>4. ASSUME NEW r \in Request, NEW k \in Key, NEW m \in Modes, Arrive(r, k, m) PROVE HandlesInv'
    BY <1>4, StreamingAssumption DEF Arrive, Goto, HandleFree, MutexFree,
       admission, sessions, IInv, TypeOK, HandlesInv, OwnerLabel, Registered
  <1>5. ASSUME NEW r \in Request, ReadBudget(r) PROVE HandlesInv'
    BY <1>5, StreamingAssumption DEF ReadBudget, Goto, sessions, IInv, TypeOK,
       HandlesInv, OwnerLabel, Registered
  <1>6. ASSUME NEW r \in Request, Admit(r) PROVE HandlesInv'
    BY <1>6, StreamingAssumption DEF Admit, Fits, Goto, sessions, KeyOf, IInv, TypeOK,
       HandlesInv, OwnerLabel, Registered
  <1>7. ASSUME NEW r \in Request, Busy(r) PROVE HandlesInv'
    BY <1>7, StreamingAssumption DEF Busy, Fits, Goto, sessions, IInv, TypeOK,
       HandlesInv, OwnerLabel, Registered
  <1>8. ASSUME NEW r \in Request, AddStream(r) PROVE HandlesInv'
    BY <1>8, StreamingAssumption DEF AddStream, Goto, admission, IInv, TypeOK,
       HandlesInv, OwnerLabel, Registered
  <1>9. ASSUME NEW r \in Request, Release(r) PROVE HandlesInv'
    BY <1>9, StreamingAssumption DEF Release, Goto, ReleaseSlot, sessions, IInv,
       TypeOK, HandlesInv, OwnerLabel, Registered
  <1>10. ASSUME NEW r \in Request, Lookup(r) PROVE HandlesInv'
    <2>1. UNCHANGED <<hls, req, victim, held>> /\ pc[r] # "idle"
      BY <1>10 DEF Lookup, admission
    <2>2. \A q \in Request : q # r => pc'[q] = pc[q] /\ joined'[q] = joined[q]
      BY <1>10 DEF Lookup, Goto, IInv, TypeOK
    <2>3. pc'[r] \notin {"touch", "discard", "fetch"} \/ joined'[r] # None
      BY <1>10 DEF Lookup, Goto, KeyOf, IInv, TypeOK
    <2>4. pc[r] \in OwnerLabel => pc'[r] \in OwnerLabel
      BY <1>10 DEF Lookup, Goto, OwnerLabel, IInv, TypeOK
    <2>5. QED BY <2>1, <2>2, <2>3, <2>4, StreamingAssumption
          DEF IInv, TypeOK, HandlesInv, Registered, Handle
  <1>11. ASSUME NEW r \in Request, TouchJoined(r) PROVE HandlesInv'
    BY <1>11, StreamingAssumption DEF TouchJoined, Goto, admission, sessions, IInv,
       TypeOK, HandlesInv, OwnerLabel, Registered
  <1>12. ASSUME NEW r \in Request, StartFFmpeg(r) PROVE HandlesInv'
    BY <1>12, StreamingAssumption DEF StartFFmpeg, Goto, admission, sessions, IInv,
       TypeOK, HandlesInv, OwnerLabel, Registered
  <1>13. ASSUME NEW r \in Request, StartFails(r) PROVE HandlesInv'
    BY <1>13, StreamingAssumption DEF StartFails, Goto, admission, sessions, IInv,
       TypeOK, HandlesInv, OwnerLabel, Registered
  <1>14. ASSUME NEW r \in Request, PlaylistAppears(r) PROVE HandlesInv'
    BY <1>14, StreamingAssumption DEF PlaylistAppears, Goto, admission, sessions,
       IInv, TypeOK, HandlesInv, OwnerLabel, Registered
  <1>15. ASSUME NEW r \in Request, WaitTimeout(r) PROVE HandlesInv'
    BY <1>15, StreamingAssumption DEF WaitTimeout, Goto, admission, sessions,
       Cancelled, IInv, TypeOK, HandlesInv, OwnerLabel, Registered
  <1>16. ASSUME NEW r \in Request, Register(r) PROVE HandlesInv'
    BY <1>16, StreamingAssumption DEF Register, Goto, admission, KeyOf, IInv,
       TypeOK, HandlesInv, OwnerLabel, Registered
  <1>17. ASSUME NEW r \in Request, LoseRace(r) PROVE HandlesInv'
    BY <1>17, StreamingAssumption DEF LoseRace, Goto, ReleaseSlot, KeyOf,
       Cancelled, IInv, TypeOK, HandlesInv, OwnerLabel, Registered
  <1>18. ASSUME NEW r \in Request, DropScratch(r) PROVE HandlesInv'
    BY <1>18, StreamingAssumption DEF DropScratch, Goto, admission, sessions, IInv,
       TypeOK, HandlesInv, OwnerLabel, Registered
  <1>19. ASSUME NEW r \in Request, ListSession(r) PROVE HandlesInv'
    BY <1>19, StreamingAssumption DEF ListSession, Goto, admission, IInv, TypeOK,
       HandlesInv, OwnerLabel, Registered
  <1>20. ASSUME NEW r \in Request, EndStream(r) PROVE HandlesInv'
    BY <1>20, StreamingAssumption DEF EndStream, Goto, admission, IInv, TypeOK,
       HandlesInv, OwnerLabel, Registered
  <1>21. ASSUME NEW r \in Request, FetchLookup(r) PROVE HandlesInv'
    <2>1. UNCHANGED <<hls, req, victim, held>> /\ pc[r] # "idle"
      BY <1>21 DEF FetchLookup, admission
    <2>2. \A q \in Request : q # r => pc'[q] = pc[q] /\ joined'[q] = joined[q]
      BY <1>21 DEF FetchLookup, Goto, IInv, TypeOK
    <2>3. pc'[r] \notin {"touch", "discard", "fetch"} \/ joined'[r] # None
      BY <1>21 DEF FetchLookup, Goto, KeyOf, IInv, TypeOK
    <2>4. pc[r] \in OwnerLabel => pc'[r] \in OwnerLabel
      BY <1>21 DEF FetchLookup, Goto, OwnerLabel, IInv, TypeOK
    <2>5. QED BY <2>1, <2>2, <2>3, <2>4, StreamingAssumption
          DEF IInv, TypeOK, HandlesInv, Registered, Handle
  <1>22. ASSUME NEW r \in Request, FetchTouch(r) PROVE HandlesInv'
    BY <1>22, StreamingAssumption DEF FetchTouch, Goto, admission, sessions, IInv,
       TypeOK, HandlesInv, OwnerLabel, Registered
  <1>23. ASSUME NEW r \in Request, Leave(r) PROVE HandlesInv'
    BY <1>23, StreamingAssumption DEF Leave, Goto, admission, IInv, TypeOK,
       HandlesInv, OwnerLabel, Registered
  <1>24. ASSUME NEW r \in Request, FFmpegWrites(r) PROVE HandlesInv'
    BY <1>24, StreamingAssumption DEF FFmpegWrites, admission, sessions, IInv,
       TypeOK, HandlesInv, OwnerLabel, Registered
  <1>25. ASSUME NEW r \in Request, FFmpegExits(r) PROVE HandlesInv'
    BY <1>25, StreamingAssumption DEF FFmpegExits, admission, sessions, IInv,
       TypeOK, HandlesInv, OwnerLabel, Registered
  <1>26. ASSUME NEW r \in Request, GoIdle(r) PROVE HandlesInv'
    BY <1>26, StreamingAssumption DEF GoIdle, admission, sessions, IInv, TypeOK,
       HandlesInv, OwnerLabel, Registered
  <1>27. ASSUME NEW r \in Request, ReapStop(r) PROVE HandlesInv'
    BY <1>27, StreamingAssumption DEF ReapStop, ReleaseSlot, sessions, Cancelled,
       MutexFree, IInv, TypeOK, HandlesInv, OwnerLabel, Registered
  <1>28. CASE ReapRemove
    BY <1>28, StreamingAssumption DEF ReapRemove, KeyOf, admission, IInv, TypeOK,
       HandlesInv, OwnerLabel, Registered
  <1>29. CASE UNCHANGED vars
    BY <1>29, StreamingAssumption DEF vars, admission, sessions, IInv, TypeOK,
       HandlesInv, OwnerLabel, Registered
  <1>30. QED BY <1>1, <1>2, <1>3, <1>4, <1>5, <1>6, <1>7, <1>8, <1>9, <1>10, <1>11, <1>12, <1>13, <1>14, <1>15, <1>16, <1>17, <1>18, <1>19, <1>20, <1>21, <1>22, <1>23, <1>24, <1>25, <1>26, <1>27, <1>28, <1>29 DEF Next, Serve, Play

\* Slots stay with an owner.
LEMMA SlotStep ==
  ASSUME IInv, [Next]_vars PROVE SlotInv'
  <1>1. CASE EnsureFFmpeg
    BY <1>1, StreamingAssumption DEF EnsureFFmpeg, sessions, IInv, TypeOK,
       HandlesInv, SlotInv, SlotHasOwner, OwnerLabel, Registered, Handle
  <1>2. ASSUME NEW n \in Caps, PatchConfig(n) PROVE SlotInv'
    BY <1>2, StreamingAssumption DEF PatchConfig, sessions, IInv, TypeOK,
       HandlesInv, SlotInv, SlotHasOwner, OwnerLabel, Registered, Handle
  <1>3. CASE Restart
    BY <1>3, StreamingAssumption DEF Restart, IInv, TypeOK, HandlesInv, SlotInv,
       SlotHasOwner, OwnerLabel, Registered, Handle
  <1>4. ASSUME NEW r \in Request, NEW k \in Key, NEW m \in Modes, Arrive(r, k, m) PROVE SlotInv'
    BY <1>4, StreamingAssumption DEF Arrive, Goto, HandleFree, MutexFree,
       admission, sessions, IInv, TypeOK, HandlesInv, SlotInv, SlotHasOwner,
       OwnerLabel, Registered, Handle
  <1>5. ASSUME NEW r \in Request, ReadBudget(r) PROVE SlotInv'
    BY <1>5, StreamingAssumption DEF ReadBudget, Goto, sessions, IInv, TypeOK,
       HandlesInv, SlotInv, SlotHasOwner, OwnerLabel, Registered, Handle
  <1>6. ASSUME NEW r \in Request, Admit(r) PROVE SlotInv'
    BY <1>6, StreamingAssumption DEF Admit, Fits, Goto, sessions, KeyOf, CostOf,
       ModeCost, IInv, TypeOK, HandlesInv, SlotInv, SlotHasOwner, OwnerLabel,
       Registered, Handle
  <1>7. ASSUME NEW r \in Request, Busy(r) PROVE SlotInv'
    BY <1>7, StreamingAssumption DEF Busy, Fits, Goto, sessions, IInv, TypeOK,
       HandlesInv, SlotInv, SlotHasOwner, OwnerLabel, Registered, Handle
  <1>8. ASSUME NEW r \in Request, AddStream(r) PROVE SlotInv'
    BY <1>8, StreamingAssumption DEF AddStream, Goto, admission, IInv, TypeOK,
       HandlesInv, SlotInv, SlotHasOwner, OwnerLabel, Registered, Handle
  <1>9. ASSUME NEW r \in Request, Release(r) PROVE SlotInv'
    BY <1>9, StreamingAssumption DEF Release, Goto, ReleaseSlot, sessions, IInv,
       TypeOK, HandlesInv, SlotInv, SlotHasOwner, OwnerLabel, Registered, Handle
  <1>10. ASSUME NEW r \in Request, Lookup(r) PROVE SlotInv'
    BY <1>10, StreamingAssumption DEF Lookup, Goto, admission, KeyOf, IInv, TypeOK,
       HandlesInv, SlotInv, SlotHasOwner, OwnerLabel, Registered, Handle
  <1>11. ASSUME NEW r \in Request, TouchJoined(r) PROVE SlotInv'
    BY <1>11, StreamingAssumption DEF TouchJoined, Goto, admission, sessions, IInv,
       TypeOK, HandlesInv, SlotInv, SlotHasOwner, OwnerLabel, Registered, Handle
  <1>12. ASSUME NEW r \in Request, StartFFmpeg(r) PROVE SlotInv'
    BY <1>12, StreamingAssumption DEF StartFFmpeg, Goto, admission, sessions, IInv,
       TypeOK, HandlesInv, SlotInv, SlotHasOwner, OwnerLabel, Registered, Handle
  <1>13. ASSUME NEW r \in Request, StartFails(r) PROVE SlotInv'
    BY <1>13, StreamingAssumption DEF StartFails, Goto, admission, sessions, IInv,
       TypeOK, HandlesInv, SlotInv, SlotHasOwner, OwnerLabel, Registered, Handle
  <1>14. ASSUME NEW r \in Request, PlaylistAppears(r) PROVE SlotInv'
    BY <1>14, StreamingAssumption DEF PlaylistAppears, Goto, admission, sessions,
       IInv, TypeOK, HandlesInv, SlotInv, SlotHasOwner, OwnerLabel, Registered,
       Handle
  <1>15. ASSUME NEW r \in Request, WaitTimeout(r) PROVE SlotInv'
    BY <1>15, StreamingAssumption DEF WaitTimeout, Goto, admission, sessions,
       Cancelled, IInv, TypeOK, HandlesInv, SlotInv, SlotHasOwner, OwnerLabel,
       Registered, Handle
  <1>16. ASSUME NEW r \in Request, Register(r) PROVE SlotInv'
    BY <1>16, StreamingAssumption DEF Register, Goto, admission, KeyOf, IInv,
       TypeOK, HandlesInv, SlotInv, SlotHasOwner, OwnerLabel, Registered, Handle
  <1>17. ASSUME NEW r \in Request, LoseRace(r) PROVE SlotInv'
    BY <1>17, StreamingAssumption DEF LoseRace, Goto, ReleaseSlot, KeyOf,
       Cancelled, IInv, TypeOK, HandlesInv, SlotInv, SlotHasOwner, OwnerLabel,
       Registered, Handle
  <1>18. ASSUME NEW r \in Request, DropScratch(r) PROVE SlotInv'
    BY <1>18, StreamingAssumption DEF DropScratch, Goto, admission, sessions, IInv,
       TypeOK, HandlesInv, SlotInv, SlotHasOwner, OwnerLabel, Registered, Handle
  <1>19. ASSUME NEW r \in Request, ListSession(r) PROVE SlotInv'
    BY <1>19, StreamingAssumption DEF ListSession, Goto, admission, IInv, TypeOK,
       HandlesInv, SlotInv, SlotHasOwner, OwnerLabel, Registered, Handle
  <1>20. ASSUME NEW r \in Request, EndStream(r) PROVE SlotInv'
    BY <1>20, StreamingAssumption DEF EndStream, Goto, admission, IInv, TypeOK,
       HandlesInv, SlotInv, SlotHasOwner, OwnerLabel, Registered, Handle
  <1>21. ASSUME NEW r \in Request, FetchLookup(r) PROVE SlotInv'
    BY <1>21, StreamingAssumption DEF FetchLookup, Goto, admission, KeyOf, IInv,
       TypeOK, HandlesInv, SlotInv, SlotHasOwner, OwnerLabel, Registered, Handle
  <1>22. ASSUME NEW r \in Request, FetchTouch(r) PROVE SlotInv'
    BY <1>22, StreamingAssumption DEF FetchTouch, Goto, admission, sessions, IInv,
       TypeOK, HandlesInv, SlotInv, SlotHasOwner, OwnerLabel, Registered, Handle
  <1>23. ASSUME NEW r \in Request, Leave(r) PROVE SlotInv'
    BY <1>23, StreamingAssumption DEF Leave, Goto, admission, IInv, TypeOK,
       HandlesInv, SlotInv, SlotHasOwner, OwnerLabel, Registered, Handle
  <1>24. ASSUME NEW r \in Request, FFmpegWrites(r) PROVE SlotInv'
    BY <1>24, StreamingAssumption DEF FFmpegWrites, admission, sessions, IInv,
       TypeOK, HandlesInv, SlotInv, SlotHasOwner, OwnerLabel, Registered, Handle
  <1>25. ASSUME NEW r \in Request, FFmpegExits(r) PROVE SlotInv'
    BY <1>25, StreamingAssumption DEF FFmpegExits, admission, sessions, IInv,
       TypeOK, HandlesInv, SlotInv, SlotHasOwner, OwnerLabel, Registered, Handle
  <1>26. ASSUME NEW r \in Request, GoIdle(r) PROVE SlotInv'
    BY <1>26, StreamingAssumption DEF GoIdle, admission, sessions, IInv, TypeOK,
       HandlesInv, SlotInv, SlotHasOwner, OwnerLabel, Registered, Handle
  <1>27. ASSUME NEW r \in Request, ReapStop(r) PROVE SlotInv'
    BY <1>27, StreamingAssumption DEF ReapStop, ReleaseSlot, sessions, Cancelled,
       MutexFree, IInv, TypeOK, HandlesInv, SlotInv, SlotHasOwner, OwnerLabel,
       Registered, Handle
  <1>28. CASE ReapRemove
    BY <1>28, StreamingAssumption DEF ReapRemove, KeyOf, admission, IInv, TypeOK,
       HandlesInv, SlotInv, SlotHasOwner, OwnerLabel, Registered, Handle
  <1>29. CASE UNCHANGED vars
    BY <1>29, StreamingAssumption DEF vars, admission, sessions, IInv, TypeOK,
       HandlesInv, SlotInv, SlotHasOwner, OwnerLabel, Registered, Handle
  <1>30. QED BY <1>1, <1>2, <1>3, <1>4, <1>5, <1>6, <1>7, <1>8, <1>9, <1>10, <1>11, <1>12, <1>13, <1>14, <1>15, <1>16, <1>17, <1>18, <1>19, <1>20, <1>21, <1>22, <1>23, <1>24, <1>25, <1>26, <1>27, <1>28, <1>29 DEF Next, Serve, Play

\* Running encoders stay paid for.
LEMMA EncoderStep ==
  ASSUME IInv, [Next]_vars PROVE EncoderInv'
  <1>1. CASE EnsureFFmpeg
    BY <1>1, StreamingAssumption DEF EnsureFFmpeg, sessions, IInv, TypeOK,
       HandlesInv, SlotInv, SlotHasOwner, EncoderInv, EncoderIsPaid, OwnerLabel,
       Registered, Handle
  <1>2. ASSUME NEW n \in Caps, PatchConfig(n) PROVE EncoderInv'
    BY <1>2, StreamingAssumption DEF PatchConfig, sessions, IInv, TypeOK,
       HandlesInv, SlotInv, SlotHasOwner, EncoderInv, EncoderIsPaid, OwnerLabel,
       Registered, Handle
  <1>3. CASE Restart
    BY <1>3, StreamingAssumption DEF Restart, IInv, TypeOK, HandlesInv, SlotInv,
       SlotHasOwner, EncoderInv, EncoderIsPaid, OwnerLabel, Registered, Handle
  <1>4. ASSUME NEW r \in Request, NEW k \in Key, NEW m \in Modes, Arrive(r, k, m) PROVE EncoderInv'
    BY <1>4, StreamingAssumption DEF Arrive, Goto, HandleFree, MutexFree,
       admission, sessions, IInv, TypeOK, HandlesInv, SlotInv, SlotHasOwner,
       EncoderInv, EncoderIsPaid, OwnerLabel, Registered, Handle
  <1>5. ASSUME NEW r \in Request, ReadBudget(r) PROVE EncoderInv'
    BY <1>5, StreamingAssumption DEF ReadBudget, Goto, sessions, IInv, TypeOK,
       HandlesInv, SlotInv, SlotHasOwner, EncoderInv, EncoderIsPaid, OwnerLabel,
       Registered, Handle
  <1>6. ASSUME NEW r \in Request, Admit(r) PROVE EncoderInv'
    BY <1>6, StreamingAssumption DEF Admit, Fits, Goto, sessions, KeyOf, CostOf,
       ModeCost, IInv, TypeOK, HandlesInv, SlotInv, SlotHasOwner, EncoderInv,
       EncoderIsPaid, OwnerLabel, Registered, Handle
  <1>7. ASSUME NEW r \in Request, Busy(r) PROVE EncoderInv'
    BY <1>7, StreamingAssumption DEF Busy, Fits, Goto, sessions, IInv, TypeOK,
       HandlesInv, SlotInv, SlotHasOwner, EncoderInv, EncoderIsPaid, OwnerLabel,
       Registered, Handle
  <1>8. ASSUME NEW r \in Request, AddStream(r) PROVE EncoderInv'
    BY <1>8, StreamingAssumption DEF AddStream, Goto, admission, IInv, TypeOK,
       HandlesInv, SlotInv, SlotHasOwner, EncoderInv, EncoderIsPaid, OwnerLabel,
       Registered, Handle
  <1>9. ASSUME NEW r \in Request, Release(r) PROVE EncoderInv'
    BY <1>9, StreamingAssumption DEF Release, Goto, ReleaseSlot, sessions, IInv,
       TypeOK, HandlesInv, SlotInv, SlotHasOwner, EncoderInv, EncoderIsPaid,
       OwnerLabel, Registered, Handle
  <1>10. ASSUME NEW r \in Request, Lookup(r) PROVE EncoderInv'
    BY <1>10, StreamingAssumption DEF Lookup, Goto, admission, KeyOf, IInv, TypeOK,
       HandlesInv, SlotInv, SlotHasOwner, EncoderInv, EncoderIsPaid, OwnerLabel,
       Registered, Handle
  <1>11. ASSUME NEW r \in Request, TouchJoined(r) PROVE EncoderInv'
    BY <1>11, StreamingAssumption DEF TouchJoined, Goto, admission, sessions, IInv,
       TypeOK, HandlesInv, SlotInv, SlotHasOwner, EncoderInv, EncoderIsPaid,
       OwnerLabel, Registered, Handle
  <1>12. ASSUME NEW r \in Request, StartFFmpeg(r) PROVE EncoderInv'
    BY <1>12, StreamingAssumption DEF StartFFmpeg, Goto, admission, sessions, IInv,
       TypeOK, HandlesInv, SlotInv, SlotHasOwner, EncoderInv, EncoderIsPaid,
       OwnerLabel, Registered, Handle
  <1>13. ASSUME NEW r \in Request, StartFails(r) PROVE EncoderInv'
    BY <1>13, StreamingAssumption DEF StartFails, Goto, admission, sessions, IInv,
       TypeOK, HandlesInv, SlotInv, SlotHasOwner, EncoderInv, EncoderIsPaid,
       OwnerLabel, Registered, Handle
  <1>14. ASSUME NEW r \in Request, PlaylistAppears(r) PROVE EncoderInv'
    BY <1>14, StreamingAssumption DEF PlaylistAppears, Goto, admission, sessions,
       IInv, TypeOK, HandlesInv, SlotInv, SlotHasOwner, EncoderInv, EncoderIsPaid,
       OwnerLabel, Registered, Handle
  <1>15. ASSUME NEW r \in Request, WaitTimeout(r) PROVE EncoderInv'
    BY <1>15, StreamingAssumption DEF WaitTimeout, Goto, admission, sessions,
       Cancelled, IInv, TypeOK, HandlesInv, SlotInv, SlotHasOwner, EncoderInv,
       EncoderIsPaid, OwnerLabel, Registered, Handle
  <1>16. ASSUME NEW r \in Request, Register(r) PROVE EncoderInv'
    BY <1>16, StreamingAssumption DEF Register, Goto, admission, KeyOf, IInv,
       TypeOK, HandlesInv, SlotInv, SlotHasOwner, EncoderInv, EncoderIsPaid,
       OwnerLabel, Registered, Handle
  <1>17. ASSUME NEW r \in Request, LoseRace(r) PROVE EncoderInv'
    BY <1>17, StreamingAssumption DEF LoseRace, Goto, ReleaseSlot, KeyOf,
       Cancelled, IInv, TypeOK, HandlesInv, SlotInv, SlotHasOwner, EncoderInv,
       EncoderIsPaid, OwnerLabel, Registered, Handle
  <1>18. ASSUME NEW r \in Request, DropScratch(r) PROVE EncoderInv'
    BY <1>18, StreamingAssumption DEF DropScratch, Goto, admission, sessions, IInv,
       TypeOK, HandlesInv, SlotInv, SlotHasOwner, EncoderInv, EncoderIsPaid,
       OwnerLabel, Registered, Handle
  <1>19. ASSUME NEW r \in Request, ListSession(r) PROVE EncoderInv'
    BY <1>19, StreamingAssumption DEF ListSession, Goto, admission, IInv, TypeOK,
       HandlesInv, SlotInv, SlotHasOwner, EncoderInv, EncoderIsPaid, OwnerLabel,
       Registered, Handle
  <1>20. ASSUME NEW r \in Request, EndStream(r) PROVE EncoderInv'
    BY <1>20, StreamingAssumption DEF EndStream, Goto, admission, IInv, TypeOK,
       HandlesInv, SlotInv, SlotHasOwner, EncoderInv, EncoderIsPaid, OwnerLabel,
       Registered, Handle
  <1>21. ASSUME NEW r \in Request, FetchLookup(r) PROVE EncoderInv'
    BY <1>21, StreamingAssumption DEF FetchLookup, Goto, admission, KeyOf, IInv,
       TypeOK, HandlesInv, SlotInv, SlotHasOwner, EncoderInv, EncoderIsPaid,
       OwnerLabel, Registered, Handle
  <1>22. ASSUME NEW r \in Request, FetchTouch(r) PROVE EncoderInv'
    BY <1>22, StreamingAssumption DEF FetchTouch, Goto, admission, sessions, IInv,
       TypeOK, HandlesInv, SlotInv, SlotHasOwner, EncoderInv, EncoderIsPaid,
       OwnerLabel, Registered, Handle
  <1>23. ASSUME NEW r \in Request, Leave(r) PROVE EncoderInv'
    BY <1>23, StreamingAssumption DEF Leave, Goto, admission, IInv, TypeOK,
       HandlesInv, SlotInv, SlotHasOwner, EncoderInv, EncoderIsPaid, OwnerLabel,
       Registered, Handle
  <1>24. ASSUME NEW r \in Request, FFmpegWrites(r) PROVE EncoderInv'
    BY <1>24, StreamingAssumption DEF FFmpegWrites, admission, sessions, IInv,
       TypeOK, HandlesInv, SlotInv, SlotHasOwner, EncoderInv, EncoderIsPaid,
       OwnerLabel, Registered, Handle
  <1>25. ASSUME NEW r \in Request, FFmpegExits(r) PROVE EncoderInv'
    BY <1>25, StreamingAssumption DEF FFmpegExits, admission, sessions, IInv,
       TypeOK, HandlesInv, SlotInv, SlotHasOwner, EncoderInv, EncoderIsPaid,
       OwnerLabel, Registered, Handle
  <1>26. ASSUME NEW r \in Request, GoIdle(r) PROVE EncoderInv'
    BY <1>26, StreamingAssumption DEF GoIdle, admission, sessions, IInv, TypeOK,
       HandlesInv, SlotInv, SlotHasOwner, EncoderInv, EncoderIsPaid, OwnerLabel,
       Registered, Handle
  <1>27. ASSUME NEW r \in Request, ReapStop(r) PROVE EncoderInv'
    BY <1>27, StreamingAssumption DEF ReapStop, ReleaseSlot, sessions, Cancelled,
       MutexFree, IInv, TypeOK, HandlesInv, SlotInv, SlotHasOwner, EncoderInv,
       EncoderIsPaid, OwnerLabel, Registered, Handle
  <1>28. CASE ReapRemove
    BY <1>28, StreamingAssumption DEF ReapRemove, KeyOf, admission, IInv, TypeOK,
       HandlesInv, SlotInv, SlotHasOwner, EncoderInv, EncoderIsPaid, OwnerLabel,
       Registered, Handle
  <1>29. CASE UNCHANGED vars
    BY <1>29, StreamingAssumption DEF vars, admission, sessions, IInv, TypeOK,
       HandlesInv, SlotInv, SlotHasOwner, EncoderInv, EncoderIsPaid, OwnerLabel,
       Registered, Handle
  <1>30. QED BY <1>1, <1>2, <1>3, <1>4, <1>5, <1>6, <1>7, <1>8, <1>9, <1>10, <1>11, <1>12, <1>13, <1>14, <1>15, <1>16, <1>17, <1>18, <1>19, <1>20, <1>21, <1>22, <1>23, <1>24, <1>25, <1>26, <1>27, <1>28, <1>29 DEF Next, Serve, Play

(***************************************************************************)
(* The budget.                                                             *)
(***************************************************************************)

\* A request that is being admitted holds nothing yet, and asks for one or two
\* units.
LEMMA AdmitFromNothing ==
  ASSUME IInv, NEW r \in Request, pc[r] = "admit"
  PROVE  held[r] = 0 /\ CostOf(r) \in {1, 2}
  <1>1. CostOf(r) \in {1, 2}
    BY DEF IInv, SlotInv, CostOf, ModeCost
  <1>2. ~Registered(r)
    BY StreamingAssumption DEF IInv, HandlesInv, Registered, OwnerLabel
  <1>3. held[r] = 0
    BY <1>2 DEF IInv, SlotInv, SlotHasOwner, TypeOK
  <1>4. QED BY <1>1, <1>3

\* The accounting in terms of Units.
LEMMA AccountedUnits == SlotsAccounted <=> inFlight = Units(held)
  BY DEF SlotsAccounted, Paying, Units

\* Giving a slot back keeps the accounting and can only lower the count.
LEMMA ReleaseBudget ==
  ASSUME IInv, NEW h \in Request, ReleaseSlot(h), UNCHANGED ceiling PROVE BudgetInv'
  <1>1. /\ held \in [Request -> 0..2] /\ inFlight \in Nat
        /\ inFlight = Units(held) /\ inFlight <= 2 * ceiling
        /\ ceiling \in Nat
    BY AccountedUnits DEF IInv, BudgetInv, TypeOK, WithinBudget
  <1>2. Units([held EXCEPT ![h] = 0]) = Units(held) - held[h] + 0
    <2>1. 0 \in 0..2
      OBVIOUS
    <2>2. QED BY <1>1, <2>1, UnitsChange
  <1>3. inFlight' = inFlight - held[h] /\ held' = [held EXCEPT ![h] = 0]
        /\ UNCHANGED <<budget, override>>
    BY DEF ReleaseSlot
  <1>4. held[h] \in 0..2
    BY <1>1
  <1>5. SlotsAccounted' /\ WithinBudget'
    <2>1. (inFlight = Units(held))'
      BY <1>1, <1>2, <1>3, <1>4
    <2>2. SlotsAccounted'
      BY <2>1 DEF SlotsAccounted, Paying, Units
    <2>3. WithinBudget'
      BY <1>1, <1>3, <1>4 DEF WithinBudget
    <2>4. QED BY <2>2, <2>3
  <1>6. QED BY <1>3, <1>5 DEF IInv, BudgetInv, VideoCapacity

\* A step that leaves the admission variables alone keeps the budget.
LEMMA FrameBudget ==
  ASSUME BudgetInv, UNCHANGED <<budget, held, inFlight, override, ceiling>> PROVE BudgetInv'
  BY DEF BudgetInv, SlotsAccounted, Paying, WithinBudget, VideoCapacity

\* So does one that puts a capacity in force, or reads one: where the ceiling
\* comes down to it nothing runs and no budget has been read.
LEMMA RaisedBudget ==
  ASSUME IInv, NEW o \in Caps \cup {0}, override' = o, ceiling' = Raised(VideoCapacity(o)),
         UNCHANGED <<held, inFlight>>,
         \A r \in Request : budget'[r] = budget[r] \/ budget'[r] = 2 * VideoCapacity(o)
  PROVE  BudgetInv'
  <1> DEFINE c == VideoCapacity(o)
  <1>1. c \in Nat /\ c <= CapacityBound
    BY StreamingAssumption, CapacityType
  <1>2. /\ ceiling \in Nat /\ inFlight \in Nat /\ CapacityBound \in Nat
        /\ inFlight <= 2 * ceiling /\ ceiling <= CapacityBound
        /\ \A r \in Request : budget[r] \in Nat /\ budget[r] <= 2 * ceiling
    BY StreamingAssumption DEF IInv, TypeOK, BudgetInv, WithinBudget
  <1>3. VideoCapacity(override)' = c
    BY DEF VideoCapacity
  <1>4. SlotsAccounted'
    BY DEF IInv, BudgetInv, SlotsAccounted, Paying
  <1> HIDE DEF c
  <1>5. CASE Quiet
    <2>1. inFlight = 0 /\ \A r \in Request : budget[r] = 0
      BY <1>5 DEF Quiet, IInv, AskInv
    <2>2. ceiling' = c
      BY <1>5 DEF Raised, c
    <2>3. \A r \in Request : budget'[r] <= 2 * ceiling'
      BY <1>1, <2>1, <2>2 DEF c
    <2>4. WithinBudget'
      BY <1>1, <2>1, <2>2 DEF WithinBudget
    <2>5. QED BY <1>1, <1>3, <1>4, <2>2, <2>3, <2>4 DEF BudgetInv
  <1>6. CASE ~Quiet
    <2>1. ceiling' = IF ceiling < c THEN c ELSE ceiling
      BY <1>6 DEF Raised, c
    <2>2. ceiling' \in Nat /\ ceiling <= ceiling' /\ c <= ceiling' /\ ceiling' <= CapacityBound
      BY <1>1, <1>2, <2>1
    <2>3. \A r \in Request : budget'[r] = budget[r] \/ budget'[r] = 2 * c
      BY DEF c
    <2>4. \A r \in Request : budget'[r] <= 2 * ceiling'
      BY <1>1, <1>2, <2>2, <2>3
    <2>5. WithinBudget'
      BY <1>2, <2>2 DEF WithinBudget
    <2>6. QED BY <1>3, <1>4, <2>2, <2>4, <2>5 DEF BudgetInv
  <1>7. QED BY <1>5, <1>6

\* Steps that have nothing to do with admission.
Elsewhere(r) ==
  \/ AddStream(r) \/ EndStream(r) \/ Lookup(r) \/ TouchJoined(r)
  \/ StartFFmpeg(r) \/ StartFails(r) \/ PlaylistAppears(r) \/ WaitTimeout(r)
  \/ Register(r) \/ DropScratch(r) \/ ListSession(r)
  \/ FetchLookup(r) \/ FetchTouch(r) \/ Leave(r)

\* Every step keeps the budget.
LEMMA BudgetStep ==
  ASSUME IInv, [Next]_vars PROVE BudgetInv'
  <1> USE DEF admission, process
  <1>1. CASE EnsureFFmpeg
    BY <1>1, RaisedBudget DEF EnsureFFmpeg
  <1>2. ASSUME NEW n \in Caps, PatchConfig(n) PROVE BudgetInv'
    <2>1. (IF ready THEN n ELSE override) \in Caps \cup {0}
      BY DEF IInv, BudgetInv
    <2>2. QED BY <1>2, <2>1, RaisedBudget DEF PatchConfig
  <1>3. CASE Restart
    <2>1. SlotsAccounted'
      <3>1. (inFlight = Units(held))'
        BY <1>3, UnitsZero DEF Restart
      <3>2. QED BY <3>1 DEF SlotsAccounted, Paying, Units
    <2>2. VideoCapacity(override)' = VideoCapacity(0)
      BY <1>3 DEF Restart, VideoCapacity
    <2>3. VideoCapacity(0) \in Nat /\ VideoCapacity(0) <= CapacityBound
      BY StreamingAssumption, CapacityType
    <2>4. inFlight' = 0 /\ ceiling' = VideoCapacity(0) /\ override' = 0
      BY <1>3 DEF Restart
    <2>5. WithinBudget' /\ (\A r \in Request : budget'[r] <= 2 * ceiling')
      BY <1>3, <2>3, <2>4 DEF Restart, WithinBudget
    <2>6. QED BY <2>1, <2>2, <2>3, <2>4, <2>5 DEF BudgetInv
  <1>4. ASSUME NEW r \in Request, NEW k \in Key, NEW m \in Modes, Arrive(r, k, m)
        PROVE BudgetInv'
    BY <1>4, FrameBudget DEF Arrive, IInv
  <1>5. ASSUME NEW r \in Request, ReadBudget(r) PROVE BudgetInv'
    <2>1. override \in Caps \cup {0}
      BY DEF IInv, BudgetInv
    <2>2. \A q \in Request : budget'[q] = budget[q] \/ budget'[q] = 2 * VideoCapacity(override)
      BY <1>5 DEF ReadBudget, IInv, TypeOK
    <2>3. QED BY <1>5, <2>1, <2>2, RaisedBudget DEF ReadBudget
  <1>6. ASSUME NEW r \in Request, Admit(r) PROVE BudgetInv'
    <2>1. held[r] = 0 /\ CostOf(r) \in {1, 2}
      BY <1>6, AdmitFromNothing DEF Admit, Fits
    <2>2. /\ held \in [Request -> 0..2] /\ inFlight \in Nat /\ inFlight = Units(held)
          /\ budget[r] \in Nat /\ budget[r] <= 2 * ceiling /\ ceiling \in Nat
      BY AccountedUnits DEF IInv, BudgetInv, TypeOK
    <2>3. Units([held EXCEPT ![r] = CostOf(r)]) = Units(held) - held[r] + CostOf(r)
      <3>1. CostOf(r) \in 0..2
        BY <2>1
      <3>2. QED BY <2>2, <3>1, UnitsChange
    <2>4. /\ inFlight' = inFlight + CostOf(r) /\ inFlight + CostOf(r) <= budget[r]
          /\ held' = [held EXCEPT ![r] = CostOf(r)]
          /\ budget' = [budget EXCEPT ![r] = 0] /\ UNCHANGED <<override, ceiling>>
      BY <1>6 DEF Admit, Fits
    <2>5. (inFlight = Units(held))'
      BY <2>1, <2>2, <2>3, <2>4
    <2>6. SlotsAccounted'
      BY <2>5 DEF SlotsAccounted, Paying, Units
    <2>7. WithinBudget'
      BY <2>1, <2>2, <2>4 DEF WithinBudget
    <2>8. \A q \in Request : budget'[q] <= 2 * ceiling
      BY <2>2, <2>4 DEF IInv, BudgetInv, TypeOK
    <2>9. QED BY <2>4, <2>6, <2>7, <2>8 DEF IInv, BudgetInv, VideoCapacity
  <1>7. ASSUME NEW r \in Request, Busy(r) PROVE BudgetInv'
    <2>1. \A q \in Request : budget'[q] <= 2 * ceiling
      BY <1>7 DEF Busy, Fits, IInv, TypeOK, BudgetInv
    <2>2. UNCHANGED <<held, inFlight, override, ceiling>>
      BY <1>7 DEF Busy
    <2>3. QED BY <2>1, <2>2 DEF IInv, BudgetInv, SlotsAccounted, Paying, WithinBudget, VideoCapacity
  <1>8. ASSUME NEW r \in Request, Release(r) \/ LoseRace(r) \/ ReapStop(r) PROVE BudgetInv'
    BY <1>8, ReleaseBudget DEF Release, LoseRace, ReapStop
  <1>9. ASSUME NEW r \in Request,
               Elsewhere(r) \/ FFmpegWrites(r) \/ FFmpegExits(r) \/ GoIdle(r)
        PROVE BudgetInv'
    <2>1. UNCHANGED <<admission, process>>
      BY <1>9 DEF Elsewhere, AddStream, EndStream, Lookup, TouchJoined, StartFFmpeg, StartFails,
         PlaylistAppears, WaitTimeout, Register, DropScratch, ListSession, FetchLookup,
         FetchTouch, Leave, FFmpegWrites, FFmpegExits, GoIdle
    <2>2. QED BY <2>1, FrameBudget DEF IInv
  <1>10. CASE ReapRemove
    BY <1>10, FrameBudget DEF ReapRemove, IInv
  <1>11. CASE UNCHANGED vars
    BY <1>11, FrameBudget DEF vars, IInv
  <1>12. QED BY <1>1, <1>2, <1>3, <1>4, <1>5, <1>6, <1>7, <1>8, <1>9, <1>10, <1>11
         DEF Next, Serve, Play, Elsewhere

\* Every step keeps budgets to those who are about to take the lock.
LEMMA AskStep ==
  ASSUME IInv, [Next]_vars PROVE AskInv'
  <1> USE DEF admission, IInv
  <1>1. CASE UNCHANGED <<pc, budget>>
    BY <1>1 DEF AskInv
  <1>2. CASE Restart
    BY <1>2 DEF Restart, AskInv
  <1>3. ASSUME NEW r \in Request, NEW x, Goto(r, x), UNCHANGED budget, pc[r] # "admit"
        PROVE AskInv'
    BY <1>3 DEF Goto, TypeOK, AskInv
  <1>4. ASSUME NEW r \in Request, NEW k \in Key, NEW m \in Modes, Arrive(r, k, m) PROVE AskInv'
    BY <1>4, <1>3 DEF Arrive
  <1>5. ASSUME NEW r \in Request, ReadBudget(r) PROVE AskInv'
    BY <1>5 DEF ReadBudget, Goto, TypeOK, AskInv
  <1>6. ASSUME NEW r \in Request, Admit(r) \/ Busy(r) PROVE AskInv'
    BY <1>6 DEF Admit, Busy, Goto, TypeOK, AskInv
  <1>7. ASSUME NEW r \in Request, Elsewhere(r) PROVE AskInv'
    BY <1>7, <1>3 DEF Elsewhere, AddStream, EndStream, Lookup, TouchJoined, StartFFmpeg,
       StartFails, PlaylistAppears, WaitTimeout, Register, DropScratch, ListSession,
       FetchLookup, FetchTouch, Leave
  <1>8. ASSUME NEW r \in Request, Release(r) \/ LoseRace(r) PROVE AskInv'
    BY <1>8, <1>3 DEF Release, LoseRace, ReleaseSlot
  <1>9. ASSUME NEW h \in Request, FFmpegWrites(h) \/ FFmpegExits(h) \/ GoIdle(h) \/ ReapStop(h)
        PROVE AskInv'
    BY <1>9, <1>1 DEF FFmpegWrites, FFmpegExits, GoIdle, ReapStop, ReleaseSlot
  <1>10. CASE EnsureFFmpeg \/ ReapRemove \/ \E n \in Caps : PatchConfig(n)
    BY <1>10, <1>1 DEF EnsureFFmpeg, ReapRemove, PatchConfig
  <1>11. CASE UNCHANGED vars
    BY <1>11, <1>1 DEF vars
  <1>12. QED BY <1>2, <1>4, <1>5, <1>6, <1>7, <1>8, <1>9, <1>10, <1>11
         DEF Next, Serve, Play, Elsewhere

(***************************************************************************)
(* The theorems.                                                           *)
(***************************************************************************)

\* The inductive invariant holds initially.
LEMMA InitInv == Init => IInv
  <1> SUFFICES ASSUME Init PROVE IInv
    OBVIOUS
  <1>1. TypeOK
    <2>1. req \in [Request -> [key : Key \cup {None}, mode : AllModes]]
      BY DEF Init, AllModes
    <2>2. /\ pc \in [Request -> Label] /\ joined \in [Request -> Handle]
          /\ hls \in [Key -> Handle] /\ victim \in Handle
      BY DEF Init, Label, Handle
    <2>3. /\ budget \in [Request -> Nat] /\ held \in [Request -> 0..2]
          /\ inFlight \in Nat /\ override \in Nat
          /\ restarts \in 0..MaxRestarts /\ cfgCap \in Caps
      BY StreamingAssumption DEF Init
    <2>4. /\ ff \in [Request -> {"none", "running", "cancelled"}]
          /\ dir \in [Key -> {"none", "made", "ready"}]
          /\ listed \subseteq Key /\ older \subseteq Request \X Request
          /\ idle \subseteq Request /\ ready \in BOOLEAN /\ overtaken \subseteq Key
      BY DEF Init
    <2>5. ceiling \in Nat
      BY CapacityType DEF Init
    <2>6. QED BY <2>1, <2>2, <2>3, <2>4, <2>5 DEF TypeOK
  <1>2. HandlesInv /\ SlotInv /\ EncoderInv /\ AskInv
    BY DEF Init, AskInv, HandlesInv, SlotInv, SlotHasOwner, EncoderInv, EncoderIsPaid, Registered
  <1>3. BudgetInv
    <2>1. inFlight = Units(held)
      BY UnitsZero DEF Init
    <2>2. SlotsAccounted
      BY <2>1, AccountedUnits
    <2>3. VideoCapacity(0) \in Nat /\ VideoCapacity(0) <= CapacityBound
      BY CapacityType, StreamingAssumption
    <2>4. override = 0 /\ ceiling = VideoCapacity(0) /\ inFlight = 0
          /\ \A r \in Request : budget[r] = 0
      BY DEF Init
    <2>5. QED BY <2>2, <2>3, <2>4 DEF BudgetInv, WithinBudget
  <1>4. QED BY <1>1, <1>2, <1>3 DEF IInv

\* The inductive invariant holds in every reachable state.
LEMMA Invariance == Spec => []IInv
  <1>1. IInv /\ [Next]_vars => IInv'
    <2> SUFFICES ASSUME IInv, [Next]_vars PROVE IInv'
      OBVIOUS
    <2>1. TypeOK'
      BY TypeStep DEF IInv, BudgetInv
    <2>2. QED BY <2>1, HandlesStep, SlotStep, EncoderStep, BudgetStep, AskStep DEF IInv
  <1>2. QED BY <1>1, InitInv, PTL DEF Spec

\* Type correctness of the streaming core; in particular the admission counter
\* never goes below zero.
THEOREM TypeCorrect == Spec => []TypeOK
  <1>1. IInv => TypeOK
    BY DEF IInv
  <1>2. QED BY <1>1, Invariance, PTL

\* The counter is the sum of the outstanding slots, whatever the interleaving
\* of requests, races, timeouts, reaping and cap changes.
THEOREM BudgetSafe == Spec => []SlotsAccounted
  <1>1. IInv => SlotsAccounted
    BY DEF IInv, BudgetInv
  <1>2. QED BY <1>1, Invariance, PTL

\* The box never runs more than the largest capacity it has had since it last ran
\* nothing and nobody was asking, although the cap is read before the lock is
\* taken and is raised and lowered meanwhile.
THEOREM BudgetKept == Spec => []WithinBudget
  <1>1. IInv => WithinBudget
    BY DEF IInv, BudgetInv
  <1>2. QED BY <1>1, Invariance, PTL

\* No slot leaks: whoever holds one can still give it back.
THEOREM NoLeakedSlot == Spec => []SlotHasOwner
  <1>1. IInv => SlotHasOwner
    BY DEF IInv, SlotInv
  <1>2. QED BY <1>1, Invariance, PTL

\* No encoder runs without a video slot.
THEOREM EncodersPaid == Spec => []EncoderIsPaid
  <1>1. IInv => EncoderIsPaid
    BY DEF IInv, EncoderInv
  <1>2. QED BY <1>1, Invariance, PTL

\* A registered session is replaced by nobody: it stays until it is removed.
THEOREM WinnerStays == Spec => WinnerKept
  <1>1. IInv /\ [Next]_vars
          => [\A k \in Key : hls[k] # None => hls'[k] \in {hls[k], None}]_vars
    <2> SUFFICES ASSUME IInv, [Next]_vars, NEW k \in Key, hls[k] # None
                 PROVE  hls'[k] \in {hls[k], None}
      OBVIOUS
    <2>1. UNCHANGED hls => hls'[k] \in {hls[k], None}
      OBVIOUS
    <2>2. ASSUME NEW r \in Request, Register(r) PROVE hls'[k] \in {hls[k], None}
      BY <2>2 DEF Register, IInv, TypeOK
    <2>3. CASE Restart
      BY <2>3 DEF Restart
    <2>4. CASE ReapRemove
      BY <2>4 DEF ReapRemove, IInv, TypeOK
    <2>5. CASE UNCHANGED vars
      BY <2>5 DEF vars, sessions
    <2>6. CASE EnsureFFmpeg \/ \E n \in Caps : PatchConfig(n)
      BY <2>6 DEF EnsureFFmpeg, PatchConfig, sessions
    <2>7. ASSUME NEW r \in Request,
                 \/ \E q \in Key, m \in Modes : Arrive(r, q, m)
                 \/ ReadBudget(r) \/ Admit(r) \/ Busy(r) \/ Release(r)
                 \/ AddStream(r) \/ EndStream(r) \/ Lookup(r) \/ TouchJoined(r)
                 \/ StartFFmpeg(r) \/ StartFails(r) \/ PlaylistAppears(r)
                 \/ WaitTimeout(r) \/ LoseRace(r) \/ DropScratch(r) \/ ListSession(r)
                 \/ FetchLookup(r) \/ FetchTouch(r) \/ Leave(r)
                 \/ FFmpegWrites(r) \/ FFmpegExits(r) \/ GoIdle(r) \/ ReapStop(r)
          PROVE hls'[k] \in {hls[k], None}
      BY <2>7 DEF Arrive, ReadBudget, Admit, Busy, Release, AddStream, EndStream, Lookup,
         TouchJoined, StartFFmpeg, StartFails, PlaylistAppears, WaitTimeout, LoseRace,
         DropScratch, ListSession, FetchLookup, FetchTouch, Leave, FFmpegWrites,
         FFmpegExits, GoIdle, ReapStop, sessions
    <2>8. QED BY <2>2, <2>3, <2>4, <2>5, <2>6, <2>7 DEF Next, Serve, Play
  <1>2. QED BY <1>1, Invariance, PTL DEF Spec, WinnerKept

(***************************************************************************)
(* Admission implements the abstract pool.                                 *)
(***************************************************************************)

\* The pool's sum, under the refinement mapping, is Units(held).
LEMMA PoolGranted == Pool!Granted = Units(held)
  <1>1. /\ Pool!Holders(2) = {r \in Request : held[r] = 2}
        /\ Pool!Holders(1) = {r \in Request : held[r] = 1}
    BY DEF Pool!Holders
  <1>2. \A S : Pool!Cardinality(S) = Cardinality(S)
    BY DEF Pool!Cardinality, Cardinality
  <1>3. QED BY <1>1, <1>2 DEF Pool!Granted, Units

\* Giving a slot back returns a grant, or changes nothing.
LEMMA ReleaseIsReturn ==
  ASSUME TypeOK, NEW h \in Request, ReleaseSlot(h) PROVE [Pool!Next]_held
  <1>1. CASE held[h] = 0
    BY <1>1 DEF ReleaseSlot, TypeOK
  <1>2. CASE held[h] # 0
    BY <1>2 DEF ReleaseSlot, Pool!Next, Pool!Return
  <1>3. QED BY <1>1, <1>2

\* Every step of the streaming core grants, returns, clears or stutters.
LEMMA PoolStep ==
  ASSUME IInv, [Next]_vars PROVE [Pool!Next]_held
  <1>1. UNCHANGED held => [Pool!Next]_held
    OBVIOUS
  <1>2. ASSUME NEW r \in Request, Admit(r) PROVE [Pool!Next]_held
    <2>1. held[r] = 0 /\ CostOf(r) \in {1, 2}
      BY <1>2, AdmitFromNothing DEF Admit, Fits
    <2>2. Pool!Granted + CostOf(r) <= 2 * CapacityBound
      <3>1. Pool!Granted = inFlight
        BY PoolGranted, AccountedUnits DEF IInv, BudgetInv
      <3>2. /\ inFlight + CostOf(r) <= budget[r] /\ budget[r] <= 2 * ceiling
            /\ ceiling <= CapacityBound /\ ceiling \in Nat
            /\ inFlight \in Nat /\ budget[r] \in Nat /\ CapacityBound \in Nat
        BY <1>2, StreamingAssumption DEF Admit, Fits, IInv, BudgetInv, TypeOK
      <3>3. QED BY <2>1, <3>1, <3>2
    <2>3. held' = [held EXCEPT ![r] = CostOf(r)]
      BY <1>2 DEF Admit, Fits
    <2>4. Pool!Acquire(r, CostOf(r))
      BY <2>1, <2>2, <2>3 DEF Pool!Acquire
    <2>5. QED BY <2>1, <2>4 DEF Pool!Next
  <1>3. ASSUME NEW r \in Request, Release(r) \/ LoseRace(r) \/ ReapStop(r)
        PROVE [Pool!Next]_held
    BY <1>3, ReleaseIsReturn DEF Release, LoseRace, ReapStop, IInv
  <1>4. CASE Restart
    BY <1>4 DEF Restart, Pool!Next, Pool!Clear
  <1>5. CASE UNCHANGED vars
    BY <1>5, <1>1 DEF vars, admission
  <1>6. CASE EnsureFFmpeg \/ ReapRemove \/ \E n \in Caps : PatchConfig(n)
    BY <1>6, <1>1 DEF EnsureFFmpeg, PatchConfig, ReapRemove, admission
  <1>7. ASSUME NEW r \in Request,
               \/ \E q \in Key, m \in Modes : Arrive(r, q, m)
               \/ ReadBudget(r) \/ Busy(r)
               \/ AddStream(r) \/ EndStream(r) \/ Lookup(r) \/ TouchJoined(r)
               \/ StartFFmpeg(r) \/ StartFails(r) \/ PlaylistAppears(r) \/ WaitTimeout(r)
               \/ Register(r) \/ DropScratch(r) \/ ListSession(r)
               \/ FetchLookup(r) \/ FetchTouch(r) \/ Leave(r)
               \/ FFmpegWrites(r) \/ FFmpegExits(r) \/ GoIdle(r)
        PROVE [Pool!Next]_held
    BY <1>7, <1>1 DEF Arrive, ReadBudget, Busy, AddStream, EndStream, Lookup,
       TouchJoined, StartFFmpeg, StartFails, PlaylistAppears, WaitTimeout, Register,
       DropScratch, ListSession, FetchLookup, FetchTouch, Leave, FFmpegWrites,
       FFmpegExits, GoIdle, admission
  <1>8. QED BY <1>2, <1>3, <1>4, <1>5, <1>6, <1>7 DEF Next, Serve, Play

\* The streaming core implements the abstract admission pool: whatever races,
\* a slot is granted only when it fits next to all the outstanding ones.
THEOREM Refinement == Spec => ImplementsPool
  <1>1. Init => Pool!Init
    BY DEF Init, Pool!Init
  <1>2. QED BY <1>1, PoolStep, Invariance, PTL DEF Spec, ImplementsPool, Pool!Spec

(***************************************************************************)
(* The dashboard's list, where HLS is all there is.                        *)
(***************************************************************************)
OnlyHLS == Modes = {"video"}

\* Every request is an HLS request: none goes where progressive streams go.
VideoInv ==
  \A r \in Request :
    /\ pc[r] # "idle" => req[r].mode = "video"
    /\ pc[r] \notin {"add", "streaming", "release"}

\* Whoever is about to list a session has its id registered, or it was taken away
\* from under them.
LateInv == \A r \in Request : pc[r] = "list" => hls[KeyOf(r)] # None \/ KeyOf(r) \in overtaken

ListedInv == LateInv /\ ListingExact

ListInv == VideoInv /\ ListedInv

\* Every step keeps the requests to HLS.
LEMMA VideoStep ==
  ASSUME OnlyHLS, TypeOK, VideoInv, [Next]_vars PROVE VideoInv'
  <1>1. CASE UNCHANGED <<pc, req>>
    BY <1>1 DEF VideoInv
  <1>2. CASE Restart
    BY <1>2 DEF Restart, VideoInv
  <1>3. ASSUME NEW r \in Request, NEW k \in Key, NEW m \in Modes, Arrive(r, k, m) PROVE VideoInv'
    BY <1>3 DEF Arrive, Goto, OnlyHLS, TypeOK, VideoInv
  <1>4. ASSUME NEW r \in Request, NEW x, Goto(r, x), UNCHANGED req, pc[r] # "idle",
               x \notin {"add", "streaming", "release"}
        PROVE VideoInv'
    BY <1>4 DEF Goto, TypeOK, VideoInv
  <1>5. ASSUME NEW r \in Request, Admit(r) PROVE VideoInv'
    BY <1>5, <1>4 DEF Admit, VideoInv
  <1>6. ASSUME NEW r \in Request, ReadBudget(r) \/ Busy(r) \/ Release(r) PROVE VideoInv'
    BY <1>6, <1>4 DEF ReadBudget, Busy, Release
  <1>7. ASSUME NEW r \in Request, Lookup(r) \/ TouchJoined(r) \/ FetchLookup(r) \/ FetchTouch(r) \/ Leave(r)
        PROVE VideoInv'
    BY <1>7, <1>4 DEF Lookup, TouchJoined, FetchLookup, FetchTouch, Leave
  <1>8. ASSUME NEW r \in Request, StartFFmpeg(r) \/ StartFails(r) \/ PlaylistAppears(r) \/ WaitTimeout(r)
        PROVE VideoInv'
    BY <1>8, <1>4 DEF StartFFmpeg, StartFails, PlaylistAppears, WaitTimeout
  <1>9. ASSUME NEW r \in Request, Register(r) \/ LoseRace(r) \/ DropScratch(r) \/ ListSession(r)
        PROVE VideoInv'
    BY <1>9, <1>4 DEF Register, LoseRace, DropScratch, ListSession
  <1>10. ASSUME NEW r \in Request, AddStream(r) \/ EndStream(r) PROVE VideoInv'
    BY <1>10 DEF AddStream, EndStream, VideoInv
  <1>11. ASSUME NEW h \in Request, FFmpegWrites(h) \/ FFmpegExits(h) \/ GoIdle(h) \/ ReapStop(h)
         PROVE VideoInv'
    BY <1>11, <1>1 DEF FFmpegWrites, FFmpegExits, GoIdle, ReapStop
  <1>12. CASE EnsureFFmpeg \/ ReapRemove \/ \E n \in Caps : PatchConfig(n)
    BY <1>12, <1>1 DEF EnsureFFmpeg, ReapRemove, PatchConfig
  <1>13. CASE UNCHANGED vars
    BY <1>13, <1>1 DEF vars
  <1>14. QED BY <1>2, <1>3, <1>5, <1>6, <1>7, <1>8, <1>9, <1>10, <1>11, <1>12, <1>13
         DEF Next, Serve, Play

\* A step that touches neither the list nor the sessions, and takes nobody to or
\* from the place before the listing, keeps the list exact.
LEMMA ListedFrame ==
  ASSUME TypeOK, ListedInv, NEW r \in Request, NEW x, Goto(r, x), UNCHANGED <<req, hls, listed, overtaken>>,
         pc[r] # "list", x # "list"
  PROVE  ListedInv'
  BY DEF Goto, TypeOK, Handle, ListedInv, LateInv, KeyOf, ListingExact

\* Every step keeps the list exact.
LEMMA ListedStep ==
  ASSUME OnlyHLS, IInv, VideoInv, ListedInv, [Next]_vars PROVE ListedInv'
  <1> USE DEF IInv, ListedInv
  <1>1. CASE UNCHANGED <<pc, req, hls, listed, overtaken>>
    BY <1>1 DEF LateInv, KeyOf, ListingExact
  <1>2. CASE Restart
    BY <1>2 DEF Restart, LateInv, ListingExact
  <1>3. ASSUME NEW r \in Request, NEW k \in Key, NEW m \in Modes, Arrive(r, k, m) PROVE ListedInv'
    <2>1. m = "video" /\ pc' = [pc EXCEPT ![r] = "lookup"] /\ ~Registered(r)
      BY <1>3 DEF OnlyHLS, Arrive, Goto, HandleFree
    <2>2. UNCHANGED <<hls, listed, overtaken>> /\ \A q \in Request : q # r => req'[q] = req[q]
      BY <1>3 DEF Arrive, sessions, TypeOK
    <2>3. QED BY <2>1, <2>2 DEF LateInv, KeyOf, ListingExact, Registered, TypeOK, Handle
  <1>4. ASSUME NEW r \in Request, ReadBudget(r) \/ Admit(r) \/ Busy(r) \/ Release(r) PROVE ListedInv'
    BY <1>4, ListedFrame DEF ReadBudget, Admit, Busy, Release, sessions
  <1>5. ASSUME NEW r \in Request, Lookup(r) \/ TouchJoined(r) \/ FetchLookup(r) \/ FetchTouch(r) \/ Leave(r)
        PROVE ListedInv'
    BY <1>5, ListedFrame DEF Lookup, TouchJoined, FetchLookup, FetchTouch, Leave, sessions
  <1>6. ASSUME NEW r \in Request, StartFFmpeg(r) \/ StartFails(r) \/ PlaylistAppears(r) \/ WaitTimeout(r)
        PROVE ListedInv'
    BY <1>6, ListedFrame DEF StartFFmpeg, StartFails, PlaylistAppears, WaitTimeout, sessions
  <1>7. ASSUME NEW r \in Request, LoseRace(r) \/ DropScratch(r) PROVE ListedInv'
    BY <1>7, ListedFrame DEF LoseRace, DropScratch, sessions
  <1>8. ASSUME NEW r \in Request, Register(r) PROVE ListedInv'
    <2>1. /\ pc[r] = "register" /\ pc' = [pc EXCEPT ![r] = "list"]
          /\ hls' = [hls EXCEPT ![req[r].key] = r]
          /\ UNCHANGED <<req, listed, overtaken>>
      BY <1>8 DEF Register, Goto, KeyOf
    <2>2. req[r].key \in Key /\ r # None
      BY <2>1, StreamingAssumption DEF HandlesInv
    <2>3. \A k \in Key : hls'[k] = IF k = req[r].key THEN r ELSE hls[k]
      BY <2>1 DEF TypeOK
    <2>4. LateInv'
      <3>1. ASSUME NEW q \in Request, pc'[q] = "list"
            PROVE  hls'[req[q].key] # None \/ req[q].key \in overtaken
        <4>1. CASE q = r
          BY <2>2, <2>3, <4>1
        <4>2. CASE q # r
          <5>1. pc[q] = "list" /\ req[q].key \in Key
            BY <2>1, <3>1, <4>2 DEF TypeOK, HandlesInv
          <5>2. QED BY <2>2, <2>3, <5>1 DEF LateInv, KeyOf
        <4>3. QED BY <4>1, <4>2
      <3>2. QED BY <2>1, <3>1 DEF LateInv, KeyOf
    <2>5. ListingExact'
      BY <2>1, <2>2, <2>3 DEF ListingExact, TypeOK, Handle
    <2>6. QED BY <2>4, <2>5
  <1>9. ASSUME NEW r \in Request, ListSession(r) PROVE ListedInv'
    <2>1. /\ pc[r] = "list" /\ pc' = [pc EXCEPT ![r] = "answered"]
          /\ listed' = listed \cup {req[r].key} /\ UNCHANGED <<req, hls, overtaken>>
      BY <1>9 DEF ListSession, Goto, KeyOf
    <2>2. r # None /\ req[r].key \in Key
      BY <2>1, StreamingAssumption DEF HandlesInv
    <2>3. ASSUME NEW k \in Key, hls[k] = r PROVE k = req[r].key
      BY <2>2, <2>3 DEF HandlesInv
    <2>4. ListingExact'
      BY <2>1, <2>2, <2>3 DEF LateInv, KeyOf, ListingExact, TypeOK, Handle
    <2>5. LateInv'
      BY <2>1 DEF LateInv, KeyOf, TypeOK
    <2>6. QED BY <2>4, <2>5
  <1>10. ASSUME NEW r \in Request, AddStream(r) \/ EndStream(r) PROVE ListedInv'
    BY <1>10 DEF AddStream, EndStream, VideoInv
  <1>11. ASSUME NEW h \in Request, FFmpegWrites(h) \/ FFmpegExits(h) \/ GoIdle(h) \/ ReapStop(h)
         PROVE ListedInv'
    BY <1>11, <1>1 DEF FFmpegWrites, FFmpegExits, GoIdle, ReapStop, sessions
  <1>12. CASE ReapRemove
    <2> DEFINE v == req[victim].key
               late == \E r \in Request : pc[r] = "list" /\ req[r].key = v
    <2>1. /\ victim # None /\ listed' = listed \ {v} /\ hls' = [hls EXCEPT ![v] = None]
          /\ UNCHANGED <<pc, req>>
          /\ overtaken' = IF late THEN overtaken \cup {v} ELSE overtaken \ {v}
      BY <1>12 DEF ReapRemove, KeyOf
    <2>2. \A k \in Key : hls'[k] = IF k = v THEN None ELSE hls[k]
      BY <2>1 DEF TypeOK
    <2>3. ASSUME NEW q \in Request, pc[q] = "list"
          PROVE  hls'[req[q].key] # None \/ req[q].key \in overtaken'
      <3>1. CASE req[q].key = v
        <4>1. late
          BY <2>3, <3>1
        <4>2. QED BY <2>1, <3>1, <4>1
      <3>2. CASE req[q].key # v
        <4>1. req[q].key \in Key
          BY <2>3 DEF HandlesInv
        <4>2. hls[req[q].key] # None \/ req[q].key \in overtaken
          BY <2>3 DEF LateInv, KeyOf
        <4> HIDE DEF v, late
        <4>3. QED BY <2>1, <2>2, <3>2, <4>1, <4>2
      <3>3. QED BY <3>1, <3>2
    <2>4. LateInv'
      BY <2>1, <2>3 DEF LateInv, KeyOf
    <2>5. ListingExact'
      <3> HIDE DEF v, late
      <3>1. QED BY <2>1, <2>2 DEF ListingExact
    <2>6. QED BY <2>4, <2>5
  <1>13. CASE EnsureFFmpeg \/ \E n \in Caps : PatchConfig(n)
    BY <1>13, <1>1 DEF EnsureFFmpeg, PatchConfig, sessions
  <1>14. CASE UNCHANGED vars
    BY <1>14, <1>1 DEF vars, sessions
  <1>15. QED BY <1>2, <1>3, <1>4, <1>5, <1>6, <1>7, <1>8, <1>9, <1>10, <1>11, <1>12, <1>13,
             <1>14 DEF Next, Serve, Play

\* What the dashboard shows, and the playback gate acts on, is what runs, for any
\* number of viewers and sessions, however starts, races and the reaper interleave,
\* but for a session that eviction took away before it was listed.
THEOREM ListIsExact == ASSUME OnlyHLS PROVE Spec => []ListingExact
  <1>1. Init => ListInv
    BY StreamingAssumption DEF Init, ListInv, VideoInv, ListedInv, LateInv, ListingExact
  <1>2. IInv /\ ListInv /\ [Next]_vars => ListInv'
    BY VideoStep, ListedStep DEF ListInv, IInv
  <1>3. ListInv => ListingExact
    BY DEF ListInv, ListedInv
  <1>4. QED BY <1>1, <1>2, <1>3, Invariance, PTL DEF Spec
=============================================================================
