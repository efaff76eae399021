-------------------------------- MODULE Carriers --------------------------------
(* What a request passes through on its way back: the tunnel to a browser away   *)
(* from home (Tunnel), the read-ahead buffer of a stream (ReadAhead) and, before *)
(* a pairing or a connect is answered at all, the limiter (Limiter).  Each has   *)
(* its own state and takes its steps whatever the others do.                     *)
EXTENDS Tunnel, ReadAhead, Limiter

CarriersSpec == TunSpec /\ RaSpec /\ LimSpec

-----------------------------------------------------------------------------
\* What carries an answer hands on, in order, what it was given up to the first
\* end it is told of, and makes no answer of pieces: a response over the tunnel, a
\* stream through the read-ahead buffer; and an attempt is turned away only by a
\* full window (tunnel.go, readahead.go, limiter.go).
HandedOn == ResponseIsWritten /\ StreamHandedOn /\ LimiterFair
=============================================================================
