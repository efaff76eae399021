-------------------------------- MODULE Limiter --------------------------------
(* The sliding-window limiter of the pairing handler (internal/api/limiter.go)   *)
(* and, copied, of the coordinator's connect (broker/limiter.go).                *)
EXTENDS Naturals, Sequences, FiniteSets

CONSTANTS
  LimitKey,   \* "*" for the pair limiter, an address for connects
  Window,     \* length of the window, in ticks
  MaxHits,    \* attempts admitted in a window
  MaxTicks    \* bound on the clock

ASSUME LimiterAssumption == Window \in Nat /\ MaxHits \in Nat /\ MaxTicks \in Nat

VARIABLES
  hits,       \* limiter.hits: key -> the times recorded, each with the number of
              \* its attempt, which keeps two of one time apart
  clock,      \* time.Now
  tried       \* history: every answer, <<key, time, admitted>>

limVars == <<hits, clock, tried>>

LimInit ==
  /\ hits = [k \in LimitKey |-> {}]
  /\ clock = 0
  /\ tried = <<>>

\* t.After(cutoff), on a clock that starts at 0.
Kept(k) == {h \in hits[k]: h[2] + Window > clock}

Allow(k) ==
  /\ Len(tried) < 2 * MaxHits + 2
  /\ LET ok == Cardinality(Kept(k)) < MaxHits
         now == IF ok THEN {<<Len(tried) + 1, clock>>} ELSE {}
     IN  /\ hits' = [hits EXCEPT ![k] = Kept(k) \cup now]
         /\ tried' = Append(tried, <<k, clock, ok>>)
  /\ UNCHANGED clock

Tick ==
  /\ clock < MaxTicks
  /\ clock' = clock + 1
  /\ UNCHANGED <<hits, tried>>

LimNext == Tick \/ \E k \in LimitKey: Allow(k)

LimSpec == LimInit /\ [][LimNext]_limVars

-----------------------------------------------------------------------------
\* No window of any key admits more than the cap, and an attempt is refused only
\* when its window is full of admitted ones: refusals do not prolong the lockout
\* ("a rejected attempt is NOT recorded", limiter.go:36).
LimiterFair ==
  \A i \in DOMAIN tried:
    LET k == tried[i][1]
        t == tried[i][2]
        before == {j \in DOMAIN tried: /\ j < i /\ tried[j][1] = k /\ tried[j][3]
                                       /\ tried[j][2] + Window > t}
    IN  tried[i][3] <=> Cardinality(before) < MaxHits
=============================================================================
