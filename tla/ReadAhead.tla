------------------------------- MODULE ReadAhead -------------------------------
(* The read-ahead pump of a progressive stream (transcode/readahead.go): a       *)
(* goroutine that reads ffmpeg's pipe into a bounded channel of chunks, and the  *)
(* handler that drains it.                                                       *)
EXTENDS Naturals, Sequences

CONSTANTS
  MaxBytes,     \* bound on what ffmpeg writes
  ChunkBytes,   \* readAheadChunkBytes
  Chunks        \* capacity of the channel

VARIABLES
  ch,           \* readAhead.ch: buffered chunks, each a sequence of bytes
  chClosed,     \* the pump has returned
  stop,         \* readAhead.stop is closed
  cur,          \* readAhead.cur
  held,         \* the chunk the pump has read and not yet sent
  ended,        \* what src.Read has returned: "no" error, "eof" or "failed"
  source,       \* bytes ffmpeg has handed over, numbered in order
  read,         \* history: what Read has returned
  sawEOF        \* history: Read returned io.EOF

raVars == <<ch, chClosed, stop, cur, held, ended, source, read, sawEOF>>

RaInit ==
  /\ ch = <<>> /\ cur = <<>> /\ held = <<>> /\ read = <<>>
  /\ chClosed = FALSE /\ stop = FALSE /\ ended = "no" /\ sawEOF = FALSE
  /\ source = 0

\* src.Read returns n bytes, or none, with or without an error; the pump holds
\* them, sends what it holds before it looks at the error.
PumpReads ==
  /\ ~chClosed /\ held = <<>> /\ ended = "no"
  /\ \E n \in 0..ChunkBytes, err \in {"no", "eof", "failed"}:
       /\ source + n <= MaxBytes
       /\ n > 0 \/ err # "no"
       /\ held' = [i \in 1..n |-> source + i]
       /\ source' = source + n
       /\ ended' = err
  /\ UNCHANGED <<ch, chClosed, stop, cur, read, sawEOF>>

PumpSends ==
  /\ held # <<>> /\ Len(ch) < Chunks
  /\ ch' = Append(ch, held)
  /\ held' = <<>>
  /\ UNCHANGED <<chClosed, stop, cur, ended, source, read, sawEOF>>

\* The pump returns: at the stop channel with a chunk in hand, or at an error,
\* whatever it is.
PumpReturns ==
  /\ ~chClosed
  /\ \/ held # <<>> /\ stop
     \/ held = <<>> /\ ended # "no"
  /\ chClosed' = TRUE
  /\ held' = <<>>
  /\ UNCHANGED <<ch, stop, cur, ended, source, read, sawEOF>>

\* Read copies up to n bytes of the chunk at hand, or of the next.
ReadSome(n) ==
  LET from == IF cur = <<>> THEN Head(ch) ELSE cur
      m    == IF n < Len(from) THEN n ELSE Len(from)
  IN  /\ ~stop /\ ~sawEOF
      /\ cur # <<>> \/ ch # <<>>
      /\ ch' = IF cur = <<>> THEN Tail(ch) ELSE ch
      /\ cur' = SubSeq(from, m + 1, Len(from))
      /\ read' = read \o SubSeq(from, 1, m)
      /\ UNCHANGED <<chClosed, stop, held, ended, source, sawEOF>>

ReadEOF ==
  /\ ~stop /\ cur = <<>> /\ ch = <<>> /\ chClosed
  /\ sawEOF' = TRUE
  /\ UNCHANGED <<ch, chClosed, stop, cur, held, ended, source, read>>

\* The handler is done, at the end of the stream or because the client left.
CloseReader ==
  /\ ~stop
  /\ stop' = TRUE
  /\ UNCHANGED <<ch, chClosed, cur, held, ended, source, read, sawEOF>>

RaNext ==
  \/ PumpReads \/ PumpSends \/ PumpReturns \/ ReadEOF \/ CloseReader
  \/ \E n \in 1..ChunkBytes: ReadSome(n)

RaSpec == RaInit /\ [][RaNext]_raVars

-----------------------------------------------------------------------------
(* Properties. *)

\* The viewer is given ffmpeg's bytes in order and without a gap, and an end of
\* stream only once src.Read has ended or failed (readahead.go:47-49 makes no
\* difference) and nothing the pump read before it is left behind, although the
\* pump closes the channel while chunks still wait in it.
StreamHandedOn ==
  /\ read = [i \in DOMAIN read |-> i]
  /\ Len(read) <= source
  /\ sawEOF => Len(read) = source /\ ended # "no"
=============================================================================
