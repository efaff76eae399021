\* Two viewers of one HLS session, started, joined, raced for and evicted when the scratch disk
\* is full, on a box that one of them fills until its cap is patched: liveness under the
\* scheduling and the reaper's ticker, and the dashboard list against the sessions.
SPECIFICATION FairSpec
CONSTANTS
  Request = {r1, r2}
  Key = {k1}
  Modes = {"video"}
  Backend = "software"
  NumCPU = 1
  Caps = {0, 2}
  CapacityBound = 2
  ScratchPressure = TRUE
  MaxRestarts = 0
  None = None
INVARIANTS ListingExact
PROPERTIES  RequestAnswered
