----------------------------- MODULE CarrierProofs -----------------------------
(***************************************************************************)
(* Proofs about what answers and carries an answer: the read-ahead buffer,  *)
(* for any size of its chunks, any capacity of its channel and any amount   *)
(* of bytes; the tunnel, for any number of chunks and any statuses; the     *)
(* limiter, for any keys, window and cap.                                   *)
(***************************************************************************)
EXTENDS Carriers, SequenceTheorems, FiniteSetTheorems, TLAPS


(***************************************************************************)
(* The read-ahead buffer: what was read, what is at hand, the chunks in   *)
(* the channel and the chunk the pump holds follow one another.             *)
(***************************************************************************)

\* q is the bytes of ffmpeg after the first a, up to the b-th.
Run(q, a, b) ==
  /\ q \in Seq(Nat) /\ a \in Nat /\ b \in Nat
  /\ Len(q) = b - a
  /\ \A i \in 1..Len(q) : q[i] = a + i

\* The chunks in the channel begin after the bytes at[1], at[2]... and the pump
\* goes on after the last of at.
Runs(at) ==
  /\ ch \in Seq(Seq(Nat))
  /\ at \in [1..Len(ch) + 1 -> Nat]
  /\ \A i \in 1..Len(ch) : Run(ch[i], at[i], at[i + 1])
  /\ Run(read, 0, Len(read))
  /\ Run(cur, Len(read), at[1])
  /\ held # <<>> \/ ~(chClosed /\ stop) => Run(held, at[Len(ch) + 1], source)
  /\ \A i \in 1..Len(ch) + 1 : at[i] <= source

PumpInv ==
  /\ source \in Nat
  /\ chClosed \in BOOLEAN /\ stop \in BOOLEAN
  /\ chClosed => held = <<>>
  /\ chClosed /\ ~stop => ended # "no"
  /\ sawEOF => chClosed /\ ch = <<>> /\ cur = <<>> /\ Len(read) = source /\ ended # "no"

RaInv == PumpInv /\ \E at : Runs(at)

(***************************************************************************)
(* Runs of bytes.                                                          *)
(***************************************************************************)

\* A run is cut into two, and two make one.
LEMMA CutRun ==
  ASSUME NEW q, NEW a, NEW b, Run(q, a, b), NEW m \in 0..Len(q)
  PROVE  Run(SubSeq(q, 1, m), a, a + m) /\ Run(SubSeq(q, m + 1, Len(q)), a + m, b)
  <1>1. /\ q \in Seq(Nat) /\ a \in Nat /\ b \in Nat /\ Len(q) = b - a /\ Len(q) \in Nat
        /\ \A i \in 1..Len(q) : q[i] = a + i /\ q[i] \in Nat
    BY LenProperties DEF Run
  <1>2. /\ SubSeq(q, 1, m) \in Seq(Nat) /\ Len(SubSeq(q, 1, m)) = m
        /\ \A i \in 1..m : SubSeq(q, 1, m)[i] = q[i]
    BY <1>1, SubSeqProperties
  <1>3. /\ SubSeq(q, m + 1, Len(q)) \in Seq(Nat)
        /\ Len(SubSeq(q, m + 1, Len(q))) = Len(q) - m
        /\ \A i \in 1..Len(q) - m : SubSeq(q, m + 1, Len(q))[i] = q[m + i]
    BY <1>1, SubSeqProperties
  <1>4. Run(SubSeq(q, 1, m), a, a + m)
    BY <1>1, <1>2 DEF Run
  <1>5. Run(SubSeq(q, m + 1, Len(q)), a + m, b)
    BY <1>1, <1>3 DEF Run
  <1>6. QED BY <1>4, <1>5

\* Two runs of bytes that meet make one.
LEMMA JoinRuns ==
  ASSUME NEW p, NEW q, NEW a, NEW b, NEW c, Run(p, a, b), Run(q, b, c)
  PROVE  Run(p \o q, a, c) /\ Len(p \o q) = c - a
  <1>1. /\ p \in Seq(Nat) /\ q \in Seq(Nat) /\ a \in Nat /\ b \in Nat /\ c \in Nat
        /\ Len(p) = b - a /\ Len(q) = c - b /\ Len(p) \in Nat /\ Len(q) \in Nat
        /\ \A i \in 1..Len(p) : p[i] = a + i
        /\ \A i \in 1..Len(q) : q[i] = b + i
    BY LenProperties DEF Run
  <1>2. /\ p \o q \in Seq(Nat) /\ Len(p \o q) = Len(p) + Len(q)
        /\ \A i \in 1..Len(p) + Len(q) : (p \o q)[i] = IF i <= Len(p) THEN p[i] ELSE q[i - Len(p)]
    BY <1>1, ConcatProperties
  <1>3. ASSUME NEW i \in 1..Len(p \o q) PROVE (p \o q)[i] = a + i
    <2>1. CASE i <= Len(p)
      BY <1>1, <1>2, <2>1
    <2>2. CASE i > Len(p)
      <3>1. i - Len(p) \in 1..Len(q) /\ (p \o q)[i] = q[i - Len(p)]
        BY <1>1, <1>2, <2>2
      <3>2. QED BY <1>1, <3>1
    <2>3. QED BY <1>1, <1>2, <2>1, <2>2
  <1>4. QED BY <1>1, <1>2, <1>3 DEF Run

\* No bytes are a run.
LEMMA NoBytes == \A a \in Nat : Run(<<>>, a, a)
  BY DEF Run

(***************************************************************************)
(* The steps.                                                              *)
(***************************************************************************)
LEMMA RaStarts == ASSUME RaInit PROVE RaInv
  <1> DEFINE at == [i \in 1..1 |-> 0]
  <1>1. ch = <<>> /\ Len(ch) = 0 /\ Len(read) = 0 /\ source = 0
    BY DEF RaInit
  <1>2. Run(<<>>, 0, 0)
    BY NoBytes
  <1>3. Runs(at)
    BY <1>1, <1>2 DEF RaInit, Runs
  <1>4. QED BY <1>3 DEF RaInit, RaInv, PumpInv

\* The pump reads: what it holds follows what it has sent.
LEMMA PumpReadsKeeps == ASSUME RaInv, PumpReads PROVE RaInv'
  <1>1. PICK at : Runs(at)
    BY DEF RaInv
  <1>2. PICK n \in 0..ChunkBytes, err \in {"no", "eof", "failed"} :
          held' = [i \in 1..n |-> source + i] /\ source' = source + n
    BY DEF PumpReads
  <1>3. /\ ~chClosed /\ held = <<>> /\ UNCHANGED <<ch, chClosed, stop, cur, read, sawEOF>>
        /\ source \in Nat /\ n \in Nat
    BY <1>2 DEF PumpReads, RaInv, PumpInv
  <1>4. at[Len(ch) + 1] = source
    BY <1>1, <1>3 DEF Runs, Run
  <1>5. held' \in Seq(Nat) /\ Len(held') = n /\ \A i \in 1..n : held'[i] = source + i
    <2>1. \A i \in 1..n : source + i \in Nat
      BY <1>3
    <2>2. QED BY <1>2, <1>3, <2>1
  <1>6. Run(held', source, source')
    BY <1>2, <1>3, <1>5 DEF Run
  <1>7. Runs(at)'
    <2>1. Run(held', at[Len(ch') + 1], source')
      BY <1>3, <1>4, <1>6
    <2>2. ASSUME NEW i \in 1..Len(ch) + 1 PROVE at[i] <= source'
      <3>1. at[i] <= source /\ at[i] \in Nat
        BY <1>1 DEF Runs
      <3>2. QED BY <1>2, <1>3, <3>1
    <2>3. QED BY <1>1, <1>3, <2>1, <2>2 DEF Runs
  <1>8. PumpInv'
    BY <1>2, <1>3 DEF RaInv, PumpInv
  <1>9. QED BY <1>7, <1>8 DEF RaInv

\* The chunk goes into the channel after the others.
LEMMA PumpSendsKeeps == ASSUME RaInv, PumpSends PROVE RaInv'
  <1>1. PICK at : Runs(at)
    BY DEF RaInv
  <1> DEFINE n == Len(ch)
  <1>2. /\ held # <<>> /\ ch' = Append(ch, held) /\ held' = <<>>
        /\ UNCHANGED <<chClosed, stop, cur, ended, source, read, sawEOF>>
    BY DEF PumpSends
  <1> PICK to : to = [i \in 1..n + 2 |-> IF i = n + 2 THEN source ELSE at[i]]
    OBVIOUS
  <1>3. Run(held, at[n + 1], source) /\ ch \in Seq(Seq(Nat)) /\ held \in Seq(Nat) /\ source \in Nat
    BY <1>1, <1>2 DEF Runs, Run
  <1>4. /\ n \in Nat /\ ch' \in Seq(Seq(Nat)) /\ Len(ch') = n + 1 /\ ch'[n + 1] = held
        /\ \A i \in 1..n : ch'[i] = ch[i]
    BY <1>2, <1>3, AppendProperties, LenProperties
  <1>5. at \in [1..n + 1 -> Nat]
    BY <1>1 DEF Runs
  <1>6. /\ to \in [1..Len(ch') + 1 -> Nat] /\ to[n + 2] = source
        /\ \A i \in 1..n + 1 : to[i] = at[i]
    BY <1>3, <1>4, <1>5
  <1>7. ASSUME NEW i \in 1..Len(ch') PROVE Run(ch'[i], to[i], to[i + 1])
    <2>1. CASE i \in 1..n
      <3>1. Run(ch[i], at[i], at[i + 1])
        BY <1>1, <2>1 DEF Runs
      <3>2. ch'[i] = ch[i] /\ to[i] = at[i] /\ to[i + 1] = at[i + 1]
        BY <1>4, <1>6, <2>1
      <3>3. QED BY <3>1, <3>2
    <2>2. CASE i = n + 1
      BY <1>3, <1>4, <1>6, <2>2
    <2>3. QED BY <1>4, <2>1, <2>2
  <1>8. Run(held', to[Len(ch') + 1], source')
    BY <1>2, <1>3, <1>4, <1>6, NoBytes
  <1>9. Runs(to)'
    <2>1. Run(cur', Len(read'), to[1]) /\ Run(read', 0, Len(read'))
      BY <1>1, <1>2, <1>4, <1>6 DEF Runs
    <2>2. ASSUME NEW i \in 1..Len(ch') + 1 PROVE to[i] <= source'
      <3>1. CASE i = n + 2
        BY <1>2, <1>3, <1>6, <3>1
      <3>2. CASE i \in 1..n + 1
        <4>1. at[i] <= source
          BY <1>1, <3>2 DEF Runs
        <4>2. QED BY <1>2, <1>6, <3>2, <4>1
      <3>3. QED BY <1>4, <3>1, <3>2
    <2>3. ch' \in Seq(Seq(Nat)) /\ to \in [1..Len(ch') + 1 -> Nat]
      BY <1>4, <1>6
    <2>4. QED BY <1>7, <1>8, <2>1, <2>2, <2>3 DEF Runs
  <1>10. PumpInv'
    BY <1>2 DEF RaInv, PumpInv
  <1>11. QED BY <1>9, <1>10 DEF RaInv

\* The pump returns; what it holds is lost only when nobody reads any more.
LEMMA PumpReturnsKeeps == ASSUME RaInv, PumpReturns PROVE RaInv'
  <1>1. PICK at : Runs(at)
    BY DEF RaInv
  <1>2. /\ ~chClosed /\ chClosed' /\ held' = <<>>
        /\ \/ held # <<>> /\ stop
           \/ held = <<>> /\ ended # "no"
        /\ UNCHANGED <<ch, stop, cur, ended, source, read, sawEOF>>
    BY DEF PumpReturns
  <1>3. Runs(at)'
    BY <1>1, <1>2 DEF Runs
  <1>4. PumpInv'
    BY <1>2 DEF RaInv, PumpInv, PumpReturns
  <1>5. QED BY <1>3, <1>4 DEF RaInv

\* Read goes on where it left.
LEMMA ReadSomeKeeps == ASSUME RaInv, NEW n \in 1..ChunkBytes, ReadSome(n) PROVE RaInv'
  <1> DEFINE from == IF cur = <<>> THEN Head(ch) ELSE cur
             m    == IF n < Len(from) THEN n ELSE Len(from)
             k    == Len(read)
  <1>1. PICK at : Runs(at)
    BY DEF RaInv
  <1>2. /\ ~stop /\ ~sawEOF /\ (cur # <<>> \/ ch # <<>>)
        /\ ch' = IF cur = <<>> THEN Tail(ch) ELSE ch
        /\ cur' = SubSeq(from, m + 1, Len(from))
        /\ read' = read \o SubSeq(from, 1, m)
        /\ UNCHANGED <<chClosed, stop, held, ended, source, sawEOF>>
    BY DEF ReadSome
  <1>3. PumpInv'
    BY <1>2 DEF RaInv, PumpInv
  <1>4. /\ ch \in Seq(Seq(Nat)) /\ at \in [1..Len(ch) + 1 -> Nat] /\ Len(ch) \in Nat
        /\ Run(read, 0, k) /\ k \in Nat /\ Run(cur, k, at[1])
        /\ \A i \in 1..Len(ch) : Run(ch[i], at[i], at[i + 1])
        /\ Run(held, at[Len(ch) + 1], source)
        /\ \A i \in 1..Len(ch) + 1 : at[i] <= source
    BY <1>1, <1>2, LenProperties DEF Runs, Run
  <1>5. ASSUME NEW b \in Nat, Run(from, k, b)
        PROVE  Run(read', 0, Len(read')) /\ Run(cur', Len(read'), b)
    <2>1. from \in Seq(Nat) /\ Len(from) \in Nat /\ m \in 0..Len(from)
      BY <1>5, LenProperties DEF Run
    <2>2. Run(SubSeq(from, 1, m), k, k + m) /\ Run(cur', k + m, b)
      BY <1>2, <1>5, <2>1, CutRun
    <2>3. Run(read', 0, k + m) /\ Len(read') = k + m
      BY <1>2, <1>4, <2>1, <2>2, JoinRuns
    <2>4. QED BY <2>2, <2>3
  <1>6. CASE cur # <<>>
    <2>1. from = cur /\ ch' = ch
      BY <1>2, <1>6
    <2>2. Run(read', 0, Len(read')) /\ Run(cur', Len(read'), at[1])
      <3>1. at[1] \in Nat /\ Run(from, k, at[1])
        BY <1>4, <2>1 DEF Run
      <3>2. QED BY <1>5, <3>1
    <2>3. Runs(at)'
      BY <1>2, <1>4, <2>1, <2>2 DEF Runs
    <2>4. QED BY <1>3, <2>3 DEF RaInv
  <1>7. CASE cur = <<>>
    <2> PICK to : to = [i \in 1..Len(ch) |-> at[i + 1]]
      OBVIOUS
    <2>1. /\ ch # <<>> /\ ch' = Tail(ch) /\ from = Head(ch)
      BY <1>2, <1>7
    <2>2. /\ Len(ch) >= 1 /\ Head(ch) = ch[1] /\ Tail(ch) \in Seq(Seq(Nat))
          /\ Len(ch') = Len(ch) - 1 /\ \A i \in 1..Len(ch') : ch'[i] = ch[i + 1]
      BY <1>4, <2>1, HeadTailProperties, EmptySeq
    <2>3. at[1] = k
      BY <1>4, <1>7 DEF Run
    <2>4. Run(from, k, at[2]) /\ at[2] \in Nat
      <3>1. Run(ch[1], at[1], at[1 + 1]) /\ at[1 + 1] = at[2]
        BY <1>4, <2>2
      <3>2. from = ch[1]
        BY <2>1, <2>2
      <3>3. Run(from, k, at[2])
        BY <2>3, <3>1, <3>2
      <3>4. QED BY <3>3 DEF Run
    <2>5. Run(read', 0, Len(read')) /\ Run(cur', Len(read'), at[2])
      BY <1>5, <2>4
    <2>6. /\ to \in [1..Len(ch') + 1 -> Nat]
          /\ \A i \in 1..Len(ch') + 1 : to[i] = at[i + 1]
      BY <1>4, <2>2
    <2>7. to[1] = at[2] /\ to[Len(ch') + 1] = at[Len(ch) + 1]
      BY <1>4, <2>2, <2>6
    <2>8. ASSUME NEW i \in 1..Len(ch') PROVE Run(ch'[i], to[i], to[i + 1])
      <3>1. i + 1 \in 1..Len(ch) /\ ch'[i] = ch[i + 1] /\ to[i] = at[i + 1]
            /\ to[i + 1] = at[(i + 1) + 1]
        BY <1>4, <2>2, <2>6
      <3>2. QED BY <1>4, <3>1
    <2>9. Runs(to)'
      <3>1. Run(cur', Len(read'), to[1]) /\ Run(held', to[Len(ch') + 1], source')
        BY <1>2, <1>4, <2>5, <2>7
      <3>2. \A i \in 1..Len(ch') + 1 : to[i] <= source'
        BY <1>2, <1>4, <2>2, <2>6
      <3>3. ch' \in Seq(Seq(Nat)) /\ to \in [1..Len(ch') + 1 -> Nat]
        BY <2>1, <2>2, <2>6
      <3>4. QED BY <2>5, <2>8, <3>1, <3>2, <3>3 DEF Runs
    <2>10. QED BY <1>3, <2>9 DEF RaInv
  <1>8. QED BY <1>6, <1>7

\* At the end, nothing is left behind.
LEMMA ReadEOFKeeps == ASSUME RaInv, ReadEOF PROVE RaInv'
  <1>1. PICK at : Runs(at)
    BY DEF RaInv
  <1>2. /\ ~stop /\ cur = <<>> /\ ch = <<>> /\ chClosed /\ sawEOF'
        /\ UNCHANGED <<ch, chClosed, stop, cur, held, ended, source, read>>
    BY DEF ReadEOF
  <1>3. held = <<>>
    BY <1>2 DEF RaInv, PumpInv
  <1>4. Len(read) = at[1] /\ at[1] = source
    BY <1>1, <1>2, <1>3 DEF Runs, Run
  <1>5. Runs(at)'
    BY <1>1, <1>2 DEF Runs
  <1>6. PumpInv'
    BY <1>2, <1>4 DEF RaInv, PumpInv
  <1>7. QED BY <1>5, <1>6 DEF RaInv

\* Every step keeps the invariant.
LEMMA RaStep == ASSUME RaInv, [RaNext]_raVars PROVE RaInv'
  <1>1. CASE CloseReader
    <2>1. PICK at : Runs(at)
      BY DEF RaInv
    <2>2. Runs(at)'
      BY <1>1, <2>1 DEF CloseReader, Runs
    <2>3. PumpInv'
      BY <1>1 DEF CloseReader, RaInv, PumpInv
    <2>4. QED BY <2>2, <2>3 DEF RaInv
  <1>2. CASE UNCHANGED raVars
    <2>1. PICK at : Runs(at)
      BY DEF RaInv
    <2>2. Runs(at)'
      BY <1>2, <2>1 DEF raVars, Runs
    <2>3. PumpInv'
      BY <1>2 DEF raVars, RaInv, PumpInv
    <2>4. QED BY <2>2, <2>3 DEF RaInv
  <1>3. QED
    BY <1>1, <1>2, PumpReadsKeeps, PumpSendsKeeps, PumpReturnsKeeps, ReadSomeKeeps,
       ReadEOFKeeps
    DEF RaNext

(***************************************************************************)
(* The stream.                                                             *)
(***************************************************************************)

\* The viewer gets ffmpeg's bytes, in order, without a gap, and the end of the
\* stream only when src.Read has ended or failed and after the last byte it gave,
\* however reader and pump take turns.
THEOREM NoByteIsLost == RaSpec => []StreamHandedOn
  <1>1. ASSUME RaInv PROVE StreamHandedOn
    <2>1. PICK at : Runs(at)
      BY <1>1 DEF RaInv
    <2>2. read \in Seq(Nat) /\ DOMAIN read = 1..Len(read) /\ \A i \in 1..Len(read) : read[i] = i
      BY <2>1, LenProperties DEF Runs, Run
    <2>3. read = [i \in DOMAIN read |-> i]
      BY <2>2
    <2>4. Len(read) <= source
      <3>1. Len(cur) \in Nat /\ Len(cur) = at[1] - Len(read) /\ Len(read) \in Nat /\ at[1] \in Nat
        BY <2>1, LenProperties DEF Runs, Run
      <3>2. 1 \in 1..Len(ch) + 1
        BY <2>1, LenProperties DEF Runs
      <3>3. at[1] <= source
        BY <2>1, <3>2 DEF Runs
      <3>4. source \in Nat
        BY <1>1 DEF RaInv, PumpInv
      <3>5. QED BY <3>1, <3>3, <3>4
    <2>5. QED BY <1>1, <2>3, <2>4 DEF StreamHandedOn, RaInv, PumpInv
  <1>2. QED BY <1>1, RaStarts, RaStep, PTL DEF RaSpec

(***************************************************************************)
(* The tunnel: the messages on the wire continue the frames the browser has *)
(* made, in the order the box writes them: the status, the chunks, the end. *)
(***************************************************************************)

Message == {"length", "payload", "shut"} \X Nat
BoxState == {"read", "serve", "refuse", "finish", "end", "closed"}
BrowserState == {"opening", "head", "body", "resolved", "failed"}

\* What the box sends of a response, message by message: the status and then the
\* chunks, each a length and a payload.
Content(k) == IF k = 0 THEN status ELSE k
Nth(j) == IF j % 2 = 1 THEN <<"length", Content((j - 1) \div 2)>>
                       ELSE <<"payload", Content((j - 2) \div 2)>>

\* The messages the browser has taken, and the frames it has made of them.
Taken == 2 * Len(got) + (IF pending THEN 1 ELSE 0)
InOrder == \A i \in 1..Len(got): got[i] = Content(i - 1)

TunTypeOK ==
  /\ toBrowser \in Seq(Message) /\ got \in Seq(Nat)
  /\ alive \in BOOLEAN /\ pending \in BOOLEAN /\ wrote \in BOOLEAN
  /\ browser \in BrowserState /\ box \in BoxState
  /\ status \in Nat \ {0} /\ written \in 0..MaxChunks /\ emptyAt \in 0..Nowhere

\* How many messages are on their way or taken: a Write that fails leaves at most
\* one message of its frame behind, or none or one of the envelope.
Sent(t, state, begun, whole) ==
  /\ ~begun => t = 0
  /\ state = "serve" /\ begun => t = 2 * whole + 2
  /\ begun => t \in {0, 1, 2 * whole + 2, 2 * whole + 3}

\* The first n messages on the wire continue what was taken.
Follows(n) ==
  /\ InOrder
  /\ browser = "body" <=> Len(got) > 0
  /\ \A i \in 1..n: toBrowser[i] = Nth(Taken + i)

\* After them, once the box has closed, comes the close, with or without the end
\* frame before it.
Wire(n) ==
  /\ Follows(n)
  /\ box # "closed" => Len(toBrowser) = n
  /\ box = "closed" =>
       \/ Len(toBrowser) = n + 1 /\ toBrowser[n + 1] = Shut
       \/ /\ Len(toBrowser) = n + 2
          /\ toBrowser[n + 1] = <<"length", 0>> /\ toBrowser[n + 2] = Shut
  /\ Sent(Taken + n, box, wrote, written)

\* Or comes the end frame of an empty Write, and it no longer matters what else.
Ended(n) ==
  /\ Follows(n)
  /\ Taken + n = 2 * emptyAt + 2
  /\ Len(toBrowser) > n /\ toBrowser[n + 1] = <<"length", 0>>

Waits == alive /\ browser \in {"opening", "head", "body"}

TunInv ==
  /\ TunTypeOK
  /\ box = "read" => ~wrote
  /\ ~wrote => written = 0 /\ emptyAt = Nowhere
  /\ ~alive => toBrowser = <<>> \/ toBrowser = <<Shut>>
  /\ browser = "resolved" =>
       /\ wrote /\ Len(got) = Told + 1 /\ InOrder
       /\ emptyAt = Nowhere => box = "closed"
  /\ Waits => IF emptyAt = Nowhere THEN \E n \in Nat: Wire(n) ELSE \E n \in Nat: Ended(n)

\* Content k is sent as the messages 2k+1 and 2k+2: its length, its payload.
LEMMA NthMessage ==
  ASSUME TunTypeOK, NEW k \in Nat
  PROVE  /\ Content(k) \in Nat \ {0}
         /\ Nth(2 * k + 1) = <<"length", Content(k)>>
         /\ Nth(2 * k + 2) = <<"payload", Content(k)>>
<1>1. (2 * k + 1) % 2 = 1 /\ (2 * k + 1 - 1) \div 2 = k
  OBVIOUS
<1>2. (2 * k + 2) % 2 = 0 /\ (2 * k + 2 - 2) \div 2 = k
  OBVIOUS
<1>3. Content(k) \in Nat \ {0}
  BY DEF Content, TunTypeOK
<1> QED
  BY <1>1, <1>2, <1>3 DEF Nth

\* Types: what is counted is a number.
LEMMA TunTypes == ASSUME TunTypeOK PROVE Taken \in Nat /\ Len(got) \in Nat /\ Len(toBrowser) \in Nat
BY LenProperties DEF TunTypeOK, Taken

\* Before the request nothing is on the wire.
LEMMA TunStarts == ASSUME TunInit PROVE TunInv
<1>1. TunTypeOK
  <2>1. toBrowser \in Seq(Message) /\ got \in Seq(Nat)
    BY DEF TunInit
  <2>2. browser \in BrowserState /\ box \in BoxState
    BY DEF TunInit, BrowserState, BoxState
  <2>3. alive \in BOOLEAN /\ pending \in BOOLEAN /\ wrote \in BOOLEAN
    BY DEF TunInit
  <2>4. status \in Nat \ {0} /\ written \in 0..MaxChunks
    BY TunnelAssumption DEF TunInit
  <2>5. emptyAt \in 0..Nowhere
    BY TunnelAssumption DEF TunInit, Nowhere
  <2> QED
    BY <2>1, <2>2, <2>3, <2>4, <2>5 DEF TunTypeOK
<1>2. Len(got) = 0 /\ Len(toBrowser) = 0 /\ Taken = 0
  BY DEF TunInit, Taken
<1>3. Wire(0)
  BY <1>2 DEF TunInit, Wire, Follows, InOrder, Sent
<1> QED
  BY <1>1, <1>3 DEF TunInit, TunInv, Waits

\* What the wire says does not change with a step that leaves it, and what was
\* taken from it, alone.
LEMMA SameWire ==
  ASSUME TunInv, TunTypeOK', NEW n \in Nat, Wire(n), box # "closed", box' # "closed",
         UNCHANGED <<toBrowser, got, pending, browser>>,
         wrote => UNCHANGED status, Sent(Taken + n, box', wrote', written')
  PROVE  Wire(n)'
<1>1. Taken' = Taken
  BY DEF Taken
<1>2. ~wrote => Taken = 0 /\ n = 0
  BY TunTypes DEF Wire, Follows, Sent, TunInv
<1>3. ~wrote => Len(got) = 0
  BY <1>2, TunTypes DEF Taken, TunInv
<1>4. wrote => \A k \in Nat: Content(k)' = Content(k)
  BY DEF Content
<1>5. wrote => \A j: Nth(j)' = Nth(j)
  BY DEF Nth, Content
<1> QED
  BY <1>1, <1>2, <1>3, <1>4, <1>5 DEF Wire, Follows, InOrder

\* k more messages of the response on the wire.
LEMMA MoreWire ==
  ASSUME TunInv, TunTypeOK', NEW n \in Nat, Wire(n), box # "closed", box' # "closed",
         UNCHANGED <<got, pending, browser, status>>,
         NEW more \in Seq(Message), toBrowser' = toBrowser \o more,
         \A i \in 1..Len(more): more[i] = Nth(Taken + n + i),
         Sent(Taken + n + Len(more), box', wrote', written')
  PROVE  Wire(n + Len(more))'
<1>1. Taken' = Taken /\ Taken \in Nat /\ Len(more) \in Nat
  BY TunTypes, LenProperties DEF Taken, TunInv
<1>2. \A j: Nth(j)' = Nth(j)
  BY DEF Nth, Content
<1>3. InOrder'
  BY DEF Wire, Follows, InOrder, Content
<1>4. Len(toBrowser) = n /\ toBrowser \in Seq(Message)
  BY DEF Wire, Follows, TunInv, TunTypeOK
<1>5. /\ Len(toBrowser') = n + Len(more)
      /\ \A i \in 1..(n + Len(more)): toBrowser'[i] = IF i <= n THEN toBrowser[i] ELSE more[i - n]
  BY <1>4, ConcatProperties
<1>6. \A i \in 1..(n + Len(more)): toBrowser'[i] = Nth(Taken + i)
  <2> SUFFICES ASSUME NEW i \in 1..(n + Len(more)) PROVE toBrowser'[i] = Nth(Taken + i)
    OBVIOUS
  <2>1. CASE i <= n
    BY <2>1, <1>5 DEF Wire, Follows
  <2>2. CASE i > n
    <3>1. i - n \in 1..Len(more) /\ Taken + n + (i - n) = Taken + i
      BY <2>2, <1>1
    <3> QED
      BY <2>2, <3>1, <1>5
  <2>3. i <= n \/ i > n
    BY <1>1
  <2> QED
    BY <2>1, <2>2, <2>3, Zenon
<1>7. Sent(Taken + (n + Len(more)), box', wrote', written')
  BY <1>1
<1> QED
  BY <1>1, <1>2, <1>3, <1>5, <1>6, <1>7 DEF Wire, Follows

\* The box closes, after the end frame or without it.
LEMMA CloseWire ==
  ASSUME TunInv, TunTypeOK', NEW n \in Nat, Wire(n), box # "closed", box' = "closed",
         UNCHANGED <<got, pending, browser, status, written>>, wrote => wrote',
         \/ toBrowser' = Append(toBrowser, Shut)
         \/ toBrowser' = toBrowser \o <<<<"length", 0>>, Shut>>
  PROVE  Wire(n)'
<1>1. Taken' = Taken /\ Taken \in Nat
  BY TunTypes DEF Taken, TunInv
<1>2. \A j: Nth(j)' = Nth(j)
  BY DEF Nth, Content
<1>3. InOrder'
  BY DEF Wire, Follows, InOrder, Content
<1>4. Len(toBrowser) = n /\ toBrowser \in Seq(Message) /\ Shut \in Message /\ <<"length", 0>> \in Message
  BY DEF Wire, Follows, TunInv, TunTypeOK, Shut, Message
<1>5. \/ /\ Len(toBrowser') = n + 1 /\ toBrowser'[n + 1] = Shut
         /\ \A i \in 1..n: toBrowser'[i] = toBrowser[i]
      \/ /\ Len(toBrowser') = n + 2 /\ toBrowser'[n + 1] = <<"length", 0>> /\ toBrowser'[n + 2] = Shut
         /\ \A i \in 1..n: toBrowser'[i] = toBrowser[i]
  <2>1. CASE toBrowser' = Append(toBrowser, Shut)
    BY <1>4, <2>1, AppendProperties
  <2>2. CASE toBrowser' = toBrowser \o <<<<"length", 0>>, Shut>>
    <3> DEFINE e == <<<<"length", 0>>, Shut>>
    <3>1. e \in Seq(Message) /\ Len(e) = 2 /\ e[1] = <<"length", 0>> /\ e[2] = Shut
      BY <1>4
    <3> HIDE DEF e
    <3>2. toBrowser' = toBrowser \o e
      BY <2>2 DEF e
    <3>3. /\ Len(toBrowser') = n + Len(e)
          /\ \A i \in 1..(n + Len(e)): toBrowser'[i] = IF i <= n THEN toBrowser[i] ELSE e[i - n]
      BY <1>4, <3>1, <3>2, ConcatProperties
    <3>4. /\ Len(toBrowser') = n + 2
          /\ \A i \in 1..(n + 2): toBrowser'[i] = IF i <= n THEN toBrowser[i] ELSE e[i - n]
      BY <3>1, <3>3
    <3> QED
      BY <3>1, <3>4
  <2> QED
    BY <2>1, <2>2
<1>6. Sent(Taken + n, box', wrote', written')
  BY <1>1 DEF Wire, Follows, Sent, TunInv
<1> QED
  BY <1>1, <1>2, <1>3, <1>5, <1>6 DEF Wire, Follows

\* While no empty Write has ended the response, a step that continues the wire
\* keeps the invariant.
LEMMA Assembles ==
  ASSUME TunInv, TunTypeOK', box' = "read" => ~wrote', ~wrote' => written' = 0,
         UNCHANGED <<got, alive, browser, emptyAt>>,
         ~alive => UNCHANGED toBrowser,
         box # "closed", emptyAt = Nowhere,
         (alive /\ browser \in {"opening", "head", "body"}) => \E n \in Nat: Wire(n)'
  PROVE  TunInv'
BY DEF TunInv, Waits

\* After an empty Write it does not matter what more is sent.
LEMMA EndedStays ==
  ASSUME TunInv, TunTypeOK', box' # "read", emptyAt # Nowhere, wrote',
         UNCHANGED <<alive, browser, pending, got, status, emptyAt>>,
         NEW more \in Seq(Message), toBrowser' = IF alive THEN toBrowser \o more ELSE toBrowser
  PROVE  TunInv'
<1>1. wrote /\ Taken \in Nat /\ Len(got) \in Nat /\ Len(toBrowser) \in Nat /\ Len(more) \in Nat
  BY TunTypes, LenProperties DEF TunInv
<1>2. Taken' = Taken /\ InOrder' = InOrder /\ Told' = Told /\ \A j: Nth(j)' = Nth(j)
  BY DEF Taken, InOrder, Told, Nth, Content, Nowhere
<1>3. ASSUME Waits PROVE \E n \in Nat: Ended(n)'
  <2>1. PICK n \in Nat: Ended(n)
    BY <1>3 DEF TunInv
  <2>2. /\ Len(toBrowser') = Len(toBrowser) + Len(more)
        /\ \A i \in 1..Len(toBrowser): toBrowser'[i] = toBrowser[i]
    <3>1. alive /\ toBrowser \in Seq(Message)
      BY <1>3 DEF Waits, TunInv, TunTypeOK
    <3>2. /\ Len(toBrowser \o more) = Len(toBrowser) + Len(more)
          /\ \A i \in 1..Len(toBrowser) + Len(more):
               (toBrowser \o more)[i] = IF i <= Len(toBrowser) THEN toBrowser[i]
                                        ELSE more[i - Len(toBrowser)]
      BY <3>1, ConcatProperties
    <3> QED
      BY <1>1, <3>1, <3>2
  <2>3. Len(toBrowser) > n /\ toBrowser[n + 1] = <<"length", 0>>
    BY <2>1 DEF Ended
  <2>4. \A i \in 1..n: toBrowser'[i] = Nth(Taken + i)
    BY <1>1, <2>1, <2>2, <2>3 DEF Ended, Follows
  <2>5. Len(toBrowser') > n /\ toBrowser'[n + 1] = <<"length", 0>>
    BY <1>1, <2>2, <2>3
  <2>6. Follows(n)'
    BY <1>2, <2>1, <2>4 DEF Ended, Follows
  <2>7. Ended(n)'
    BY <1>2, <2>1, <2>5, <2>6 DEF Ended
  <2> QED
    BY <2>7
<1>4. Waits' = Waits /\ emptyAt' # Nowhere'
  BY DEF Waits, Nowhere
<1> QED
  BY <1>1, <1>2, <1>3, <1>4 DEF TunInv

\* Nor does it matter that nothing more is sent.
LEMMA SameEnded ==
  ASSUME TunInv, TunTypeOK', box' # "read", emptyAt # Nowhere, wrote',
         UNCHANGED <<toBrowser, alive, browser, pending, got, status, emptyAt>>
  PROVE  TunInv'
<1>1. PICK more: more = <<>>
  OBVIOUS
<1>2. more \in Seq(Message) /\ toBrowser' = IF alive THEN toBrowser \o more ELSE toBrowser
  BY <1>1, ConcatEmptySeq DEF TunInv, TunTypeOK
<1> QED
  BY <1>2, EndedStays


\* A frame is the next two messages of the response.
LEMMA FrameIsNext ==
  ASSUME TunTypeOK, NEW k \in Nat
  PROVE  /\ Frame(Content(k)) \in Seq(Message) /\ Len(Frame(Content(k))) = 2
         /\ Frame(Content(k))[1] = Nth(2 * k + 1) /\ Frame(Content(k))[2] = Nth(2 * k + 2)
<1>1. Content(k) \in Nat /\ <<"length", Content(k)>> \in Message /\ <<"payload", Content(k)>> \in Message
  BY NthMessage DEF Message
<1> QED
  BY <1>1, NthMessage DEF Frame

\* What a Write sends is what comes next: the envelope, if it has not gone yet,
\* and the chunk.
LEMMA BatchIsNext ==
  ASSUME TunInv, NEW n \in Nat, Wire(n), box = "serve", written < MaxChunks,
         NEW batch, batch = EnvelopeFirst \o Frame(written + 1)
  PROVE  /\ batch \in Seq(Message)
         /\ Taken + n + Len(batch) = 2 * written + 4
         /\ \A i \in 1..Len(batch): batch[i] = Nth(Taken + n + i)
<1>1. TunTypeOK /\ written \in Nat /\ Taken \in Nat
  BY TunTypes, TunnelAssumption DEF TunInv, TunTypeOK
<1>2. PICK frame, head: frame = Frame(written + 1) /\ head = Frame(status)
  OBVIOUS
<1>3. /\ frame \in Seq(Message) /\ Len(frame) = 2
      /\ frame[1] = Nth(2 * written + 3) /\ frame[2] = Nth(2 * written + 4)
  <2>1. written + 1 \in Nat /\ Content(written + 1) = written + 1
    BY <1>1 DEF Content
  <2>2. frame = Frame(Content(written + 1))
    BY <1>2, <2>1
  <2>3. 2 * (written + 1) + 1 = 2 * written + 3 /\ 2 * (written + 1) + 2 = 2 * written + 4
    BY <1>1
  <2> QED
    BY <1>1, <2>1, <2>2, <2>3, FrameIsNext
<1>4. head \in Seq(Message) /\ Len(head) = 2 /\ head[1] = Nth(1) /\ head[2] = Nth(2)
  <2>1. head = Frame(Content(0))
    BY <1>2 DEF Content
  <2>2. 2 * 0 + 1 = 1 /\ 2 * 0 + 2 = 2
    OBVIOUS
  <2> QED
    BY <1>1, <2>1, <2>2, FrameIsNext
<1>5. CASE wrote
  <2>1. batch = frame
    BY <1>2, <1>3, <1>5, ConcatEmptySeq DEF EnvelopeFirst
  <2>2. Taken + n = 2 * written + 2
    BY <1>5 DEF Wire, Follows, Sent
  <2>3. \A i \in 1..2: batch[i] = Nth(Taken + n + i)
    <3>1. Taken + n + 1 = 2 * written + 3 /\ Taken + n + 2 = 2 * written + 4
      BY <1>1, <2>2
    <3>2. \A i \in 1..2: i = 1 \/ i = 2
      OBVIOUS
    <3> QED
      BY <1>3, <2>1, <3>1, <3>2
  <2>4. batch \in Seq(Message) /\ Len(batch) = 2
    BY <1>3, <2>1
  <2>5. Taken + n + 2 = 2 * written + 4
    BY <1>1, <2>2
  <2> QED
    BY <2>3, <2>4, <2>5
<1>6. CASE ~wrote
  <2>1. batch = head \o frame
    BY <1>2, <1>6 DEF EnvelopeFirst
  <2>2. Taken + n = 0 /\ written = 0
    BY <1>6 DEF Wire, Follows, Sent, TunInv
  <2>3. /\ batch \in Seq(Message) /\ Len(batch) = Len(head) + Len(frame)
        /\ \A i \in 1..(Len(head) + Len(frame)):
             batch[i] = IF i <= Len(head) THEN head[i] ELSE frame[i - Len(head)]
    <3>1. frame \in Seq(Message) /\ head \in Seq(Message)
      BY <1>3, <1>4
    <3> QED
      BY <2>1, <3>1, ConcatProperties
  <2>4. /\ Len(batch) = 4
        /\ \A i \in 1..4: batch[i] = IF i <= 2 THEN head[i] ELSE frame[i - 2]
    BY <1>3, <1>4, <2>3
  <2>5. batch[1] = Nth(1) /\ batch[2] = Nth(2)
    BY <1>4, <2>4
  <2>6. batch[3] = frame[1] /\ batch[4] = frame[2]
    BY <2>4
  <2>7. frame[1] = Nth(3) /\ frame[2] = Nth(4)
    BY <1>3, <2>2
  <2>8. \A i \in 1..4: batch[i] = Nth(i)
    <3>1. batch[3] = Nth(3) /\ batch[4] = Nth(4)
      BY <2>6, <2>7
    <3>2. \A i \in 1..4: i = 1 \/ i = 2 \/ i = 3 \/ i = 4
      OBVIOUS
    <3> QED
      BY <2>5, <3>1, <3>2
  <2>9. \A i \in 1..4: Taken + n + i = i
    BY <2>2
  <2> QED
    BY <2>2, <2>3, <2>4, <2>8, <2>9
<1> QED
  BY <1>5, <1>6


\* A part of what is to be sent.
LEMMA PartOf ==
  ASSUME NEW batch \in Seq(Message), NEW k \in 0..Len(batch)
  PROVE  /\ SubSeq(batch, 1, k) \in Seq(Message) /\ Len(SubSeq(batch, 1, k)) = k
         /\ \A i \in 1..k: SubSeq(batch, 1, k)[i] = batch[i]
<1>1. Len(batch) \in Nat /\ k \in Nat /\ k <= Len(batch)
  BY LenProperties
<1>2. \A i \in 1..k: batch[i] \in Message
  BY <1>1, ElementOfSeq
<1> QED
  BY <1>1, <1>2, SubSeqProperties

\* The box sends more of the response and keeps serving, gives up or is done.
LEMMA SendsMore ==
  ASSUME TunInv, box \in {"serve", "refuse", "finish"}, box' \in {"serve", "finish", "end"},
         UNCHANGED <<alive, browser, pending, got, status, emptyAt>>,
         NEW more \in Seq(Message), toBrowser' = IF alive THEN toBrowser \o more ELSE toBrowser,
         written' \in 0..MaxChunks, wrote' = TRUE,
         \A n \in Nat: Wire(n) => /\ \A i \in 1..Len(more): more[i] = Nth(Taken + n + i)
                                  /\ Sent(Taken + n + Len(more), box', wrote', written')
  PROVE  TunInv'
<1>1. TunTypeOK'
  <2>1. toBrowser' \in Seq(Message)
    BY ConcatProperties DEF TunInv, TunTypeOK
  <2> QED
    BY <2>1 DEF TunInv, TunTypeOK, BoxState, Nowhere
<1>2. ASSUME emptyAt = Nowhere, alive, browser \in {"opening", "head", "body"}
      PROVE  \E n \in Nat: Wire(n)'
  <2>1. PICK n \in Nat: Wire(n)
    BY <1>2 DEF TunInv, Waits
  <2>2. Wire(n + Len(more))'
    BY <1>1, <1>2, <2>1, MoreWire
  <2>3. n + Len(more) \in Nat
    BY LenProperties
  <2> QED
    BY <2>2, <2>3
<1> QED
  BY <1>1, <1>2, Assembles, EndedStays

\* Write: the first one puts the envelope before its chunk; a Write that fails
\* leaves a proper prefix of its messages on the wire.
LEMMA WriteKeepsWire == ASSUME TunInv, Write PROVE TunInv'
<1> DEFINE batch == EnvelopeFirst \o Frame(written + 1)
<1>1. /\ box = "serve" /\ written < MaxChunks /\ wrote' = TRUE
      /\ UNCHANGED <<alive, browser, pending, got, status, emptyAt>>
      /\ \/ /\ toBrowser' = IF alive THEN toBrowser \o batch ELSE toBrowser
            /\ written' = written + 1 /\ box' = box
         \/ /\ \E k \in 0..(Len(batch) - 1):
                 toBrowser' = IF alive THEN toBrowser \o SubSeq(batch, 1, k) ELSE toBrowser
            /\ box' = "finish" /\ written' = written
  BY DEF Write, Sends, SendsPart
<1>2. /\ TunTypeOK /\ written \in 0..MaxChunks /\ written + 1 \in 0..MaxChunks
      /\ Taken \in Nat /\ (~wrote => written = 0)
  BY <1>1, TunTypes, TunnelAssumption DEF TunInv, TunTypeOK
<1>3. batch \in Seq(Message)
  <2>1. written + 1 \in Nat /\ Content(written + 1) = written + 1 /\ Content(0) = status
    BY <1>2 DEF Content
  <2>2. Frame(written + 1) \in Seq(Message) /\ Frame(status) \in Seq(Message)
    BY <1>2, <2>1, FrameIsNext
  <2>3. EnvelopeFirst \in Seq(Message)
    BY <2>2 DEF EnvelopeFirst
  <2> QED
    BY <2>2, <2>3, ConcatProperties
<1>4. ASSUME NEW n \in Nat, Wire(n)
      PROVE  /\ Taken + n + Len(batch) = 2 * written + 4
             /\ \A i \in 1..Len(batch): batch[i] = Nth(Taken + n + i)
  BY <1>1, <1>4, BatchIsNext
<1> HIDE DEF batch
<1>5. Len(batch) \in Nat
  BY <1>3, LenProperties
<1>6. CASE /\ toBrowser' = IF alive THEN toBrowser \o batch ELSE toBrowser
           /\ written' = written + 1 /\ box' = box
  <2>1. ASSUME NEW n \in Nat, Wire(n)
        PROVE  /\ \A i \in 1..Len(batch): batch[i] = Nth(Taken + n + i)
               /\ Sent(Taken + n + Len(batch), box', wrote', written')
    <3>1. Taken + n + Len(batch) = 2 * written' + 2
      BY <1>2, <1>4, <1>6, <2>1
    <3> QED
      BY <1>1, <1>4, <2>1, <3>1 DEF Sent
  <2>2. box \in {"serve", "refuse", "finish"} /\ box' \in {"serve", "finish", "end"} /\ written' \in 0..MaxChunks
    BY <1>1, <1>2, <1>6
  <2> QED
    BY <1>1, <1>3, <1>6, <2>1, <2>2, SendsMore
<1>7. ASSUME NEW k \in 0..(Len(batch) - 1),
             toBrowser' = IF alive THEN toBrowser \o SubSeq(batch, 1, k) ELSE toBrowser,
             box' = "finish", written' = written
      PROVE  TunInv'
  <2>1. k \in 0..Len(batch)
    BY <1>5
  <2>2. PICK part: part = SubSeq(batch, 1, k)
    OBVIOUS
  <2>3. part \in Seq(Message) /\ Len(part) = k /\ \A i \in 1..k: part[i] = batch[i]
    BY <1>3, <2>1, <2>2, PartOf
  <2>4. ASSUME NEW n \in Nat, Wire(n)
        PROVE  /\ \A i \in 1..Len(part): part[i] = Nth(Taken + n + i)
               /\ Sent(Taken + n + Len(part), box', wrote', written')
    <3>1. \A i \in 1..Len(part): part[i] = Nth(Taken + n + i)
      BY <1>4, <1>5, <2>3, <2>4
    <3>2. Sent(Taken + n, box, wrote, written)
      BY <2>4 DEF Wire, Follows
    <3>3. CASE wrote
      <4>1. Taken + n = 2 * written + 2
        BY <1>1, <3>2, <3>3 DEF Sent
      <4>2. k \in {0, 1}
        BY <1>2, <1>4, <1>5, <2>4, <4>1
      <4>3. Taken + n + Len(part) \in {2 * written + 2, 2 * written + 3}
        BY <1>2, <2>3, <4>1, <4>2
      <4> QED
        BY <1>1, <1>7, <3>1, <4>3 DEF Sent
    <3>4. CASE ~wrote
      <4>1. Taken + n = 0 /\ written = 0
        BY <1>2, <3>2, <3>4 DEF Sent
      <4>2. k \in {0, 1, 2, 3}
        BY <1>2, <1>4, <1>5, <2>4, <4>1
      <4>3. Taken + n + Len(part) \in {0, 1, 2 * written + 2, 2 * written + 3}
        BY <1>2, <2>3, <4>1, <4>2
      <4> QED
        BY <1>1, <1>7, <3>1, <4>3 DEF Sent
    <3> QED
      BY <3>3, <3>4
  <2>5. toBrowser' = IF alive THEN toBrowser \o part ELSE toBrowser
    BY <1>7, <2>2
  <2>6. box \in {"serve", "refuse", "finish"} /\ box' \in {"serve", "finish", "end"} /\ written' \in 0..MaxChunks
    BY <1>1, <1>2, <1>7
  <2> QED
    BY <1>1, <2>3, <2>4, <2>5, <2>6, SendsMore
<1> QED
  BY <1>1, <1>6, <1>7


\* The box closes without having begun, or after what it has sent.
LEMMA Closes ==
  ASSUME TunInv, box # "closed", BoxCloses, UNCHANGED <<alive, browser, pending, got, status, written, emptyAt>>,
         wrote' \in BOOLEAN, wrote => wrote'
  PROVE  TunInv'
<1>1. box' = "closed" /\ toBrowser' = (IF alive THEN Append(toBrowser, Shut) ELSE toBrowser)
  BY DEF BoxCloses
<1>2. TunTypeOK'
  <2>1. Shut \in Message
    BY DEF Shut, Message
  <2>2. toBrowser' \in Seq(Message)
    BY <1>1, <2>1, AppendProperties DEF TunInv, TunTypeOK
  <2> QED
    BY <1>1, <2>2 DEF TunInv, TunTypeOK, BoxState, Nowhere
<1>3. ASSUME emptyAt = Nowhere, alive, browser \in {"opening", "head", "body"}
      PROVE  \E n \in Nat: Wire(n)'
  <2>1. PICK n \in Nat: Wire(n)
    BY <1>3 DEF TunInv, Waits
  <2>2. Wire(n)'
    BY <1>1, <1>2, <1>3, <2>1, CloseWire
  <2> QED
    BY <2>2
<1>4. ~wrote' => written' = 0
  BY DEF TunInv
<1>5. CASE emptyAt = Nowhere
  BY <1>1, <1>2, <1>3, <1>4, <1>5, Assembles
<1>6. CASE emptyAt # Nowhere
  <2>1. PICK more: more = <<Shut>>
    OBVIOUS
  <2>2. Shut \in Message /\ more \in Seq(Message)
    BY <2>1 DEF Shut, Message
  <2>3. toBrowser' = IF alive THEN toBrowser \o more ELSE toBrowser
    BY <1>1, <2>1, <2>2, AppendIsConcat DEF TunInv, TunTypeOK
  <2>4. wrote'
    BY <1>6 DEF TunInv
  <2> QED
    BY <1>1, <1>2, <1>6, <2>2, <2>3, <2>4, EndedStays
<1> QED
  BY <1>5, <1>6

\* The box reads the request, or closes for want of one.
LEMMA ReadKeeps == ASSUME TunInv, BoxReads PROVE TunInv'
<1>1. /\ box = "read" /\ ~wrote /\ emptyAt = Nowhere
      /\ UNCHANGED <<alive, browser, pending, got, wrote, written, emptyAt>>
  BY DEF BoxReads, TunInv
<1>2. CASE UNCHANGED <<box, status, toBrowser>>
  BY <1>1, <1>2 DEF TunInv, Waits, Told, Nowhere, TunTypeOK, Wire, Follows, InOrder, Taken, Nth, Content
<1>3. CASE BoxCloses /\ UNCHANGED status
  BY <1>1, <1>3, Closes DEF TunInv, TunTypeOK
<1>4. ASSUME box' \in {"refuse", "serve"}, status' \in Nat \ {0}, UNCHANGED toBrowser PROVE TunInv'
  <2>1. TunTypeOK'
    BY <1>1, <1>4 DEF TunInv, TunTypeOK, BoxState, Nowhere
  <2>2. ASSUME alive, browser \in {"opening", "head", "body"} PROVE \E n \in Nat: Wire(n)'
    <3>1. PICK n \in Nat: Wire(n)
      BY <1>1, <2>2 DEF TunInv, Waits
    <3>2. Sent(Taken + n, box', wrote', written')
      BY <1>1, <3>1 DEF Wire, Follows, Sent
    <3> QED
      BY <1>1, <1>4, <2>1, <3>1, <3>2, SameWire
  <2> QED
    BY <1>1, <1>4, <2>1, <2>2, Assembles DEF TunInv
<1>5. \/ UNCHANGED <<box, status, toBrowser>>
      \/ BoxCloses /\ UNCHANGED status
      \/ box' \in {"refuse", "serve"} /\ status' \in {400, status} /\ UNCHANGED toBrowser
  BY DEF BoxReads
<1>6. 400 \in Nat \ {0} /\ status \in Nat \ {0}
  BY DEF TunInv, TunTypeOK
<1> QED
  BY <1>2, <1>3, <1>4, <1>5, <1>6

\* WriteHeader sets the status only while no envelope is on the wire.
LEMMA HeaderKeeps == ASSUME TunInv, NEW s \in Status, WriteHeader(s) PROVE TunInv'
<1>1. /\ box = "serve" /\ status' = (IF wrote THEN status ELSE s)
      /\ UNCHANGED <<toBrowser, alive, browser, pending, got, box, wrote, written, emptyAt>>
  BY DEF WriteHeader
<1>2. s \in Nat \ {0}
  BY TunnelAssumption
<1>3. TunTypeOK'
  BY <1>1, <1>2 DEF TunInv, TunTypeOK, Nowhere
<1>4. ASSUME emptyAt = Nowhere, alive, browser \in {"opening", "head", "body"}
      PROVE  \E n \in Nat: Wire(n)'
  <2>1. PICK n \in Nat: Wire(n)
    BY <1>4 DEF TunInv, Waits
  <2>2. Sent(Taken + n, box', wrote', written')
    BY <1>1, <2>1 DEF Wire, Follows
  <2> QED
    BY <1>1, <1>3, <2>1, <2>2, SameWire
<1>5. CASE emptyAt # Nowhere
  BY <1>1, <1>3, <1>5, SameEnded DEF TunInv
<1> QED
  BY <1>1, <1>3, <1>4, <1>5, Assembles DEF TunInv

\* The handler returns: what was written is on the wire.
LEMMA ReturnKeeps == ASSUME TunInv, HandlerReturns PROVE TunInv'
<1>1. /\ box = "serve" /\ box' = "finish"
      /\ UNCHANGED <<toBrowser, alive, browser, pending, got, status, wrote, written, emptyAt>>
  BY DEF HandlerReturns
<1>2. TunTypeOK'
  BY <1>1 DEF TunInv, TunTypeOK, BoxState, Nowhere
<1>3. ASSUME emptyAt = Nowhere, alive, browser \in {"opening", "head", "body"}
      PROVE  \E n \in Nat: Wire(n)'
  <2>1. PICK n \in Nat: Wire(n)
    BY <1>3 DEF TunInv, Waits
  <2>2. Sent(Taken + n, box', wrote', written')
    BY <1>1, <2>1 DEF Wire, Follows, Sent
  <2> QED
    BY <1>1, <1>2, <2>1, <2>2, SameWire
<1>4. CASE emptyAt # Nowhere
  BY <1>1, <1>2, <1>4, SameEnded DEF TunInv
<1> QED
  BY <1>1, <1>2, <1>3, <1>4, Assembles DEF TunInv

\* The envelope of a response that has not begun, as messages.
LEMMA EnvelopeIsFirst ==
  ASSUME TunInv
  PROVE  /\ Frame(status) \in Seq(Message) /\ Len(Frame(status)) = 2
         /\ Frame(status)[1] = Nth(1) /\ Frame(status)[2] = Nth(2)
<1>1. TunTypeOK /\ written \in Nat /\ (~wrote => written = 0) /\ Content(0) = status
  BY TunnelAssumption DEF TunInv, TunTypeOK, Content
<1>2. 2 * 0 + 1 = 1 /\ 2 * 0 + 2 = 2
  OBVIOUS
<1> QED
  BY <1>1, <1>2, FrameIsNext

\* And before it nothing.
LEMMA NothingBefore ==
  ASSUME TunInv, NEW n \in Nat, Wire(n)
  PROVE  /\ Taken \in Nat /\ Sent(Taken + n, box, wrote, written)
         /\ ~wrote => Taken = 0 /\ n = 0
BY TunTypes DEF TunInv, Wire, Sent

\* The box sends as much of the envelope as it can, and gives up or is done.
LEMMA PartOfEnvelope ==
  ASSUME TunInv, box \in {"serve", "refuse", "finish"}, box' \in {"finish", "end"}, wrote' = TRUE,
         UNCHANGED <<alive, browser, pending, got, status, written, emptyAt>>,
         NEW more \in Seq(Message), Len(more) <= Len(EnvelopeFirst),
         \A i \in 1..Len(more): more[i] = EnvelopeFirst[i],
         toBrowser' = IF alive THEN toBrowser \o more ELSE toBrowser
  PROVE  TunInv'
<1>1. TunTypeOK /\ written \in Nat /\ (~wrote => written = 0) /\ Len(more) \in Nat
  BY TunnelAssumption, LenProperties DEF TunInv, TunTypeOK
<1>2. ASSUME NEW n \in Nat, Wire(n)
      PROVE  /\ \A i \in 1..Len(more): more[i] = Nth(Taken + n + i)
             /\ Sent(Taken + n + Len(more), box', wrote', written')
  <2>1. /\ Taken \in Nat /\ Sent(Taken + n, box, wrote, written)
        /\ ~wrote => Taken = 0 /\ n = 0
    BY <1>2, NothingBefore
  <2>2. CASE wrote
    <3>1. Len(more) = 0 /\ Taken + n + 0 = Taken + n
      <4>1. Len(EnvelopeFirst) = 0
        BY <2>2 DEF EnvelopeFirst
      <4> QED
        BY <1>1, <2>1, <4>1
    <3>2. \A i \in 1..Len(more): more[i] = Nth(Taken + n + i)
      BY <3>1
    <3>3. Sent(Taken + n, box', wrote', written')
      BY <2>1, <2>2 DEF Sent
    <3> QED
      BY <3>1, <3>2, <3>3
  <2>3. CASE ~wrote
    <3>1. EnvelopeFirst = Frame(status)
      BY <2>3 DEF EnvelopeFirst
    <3>2. Taken = 0 /\ n = 0 /\ written = 0 /\ Len(more) \in {0, 1, 2}
      <4>1. Len(more) <= 2
        BY <3>1, EnvelopeIsFirst
      <4>2. Len(more) \in {0, 1, 2}
        <5>1. \A l \in Nat: l <= 2 => l \in {0, 1, 2}
          OBVIOUS
        <5> QED
          BY <1>1, <4>1, <5>1
      <4>3. Taken = 0 /\ n = 0 /\ written = 0
        BY <1>1, <2>1, <2>3, Zenon
      <4> QED
        BY <4>2, <4>3
    <3>3. \A i \in 1..2: i = 1 \/ i = 2
      OBVIOUS
    <3>4. \A i \in 1..Len(more): more[i] = Nth(i) /\ Taken + n + i = i
      BY <3>1, <3>2, <3>3, EnvelopeIsFirst
    <3>5. Sent(Len(more), box', wrote', written') /\ Taken + n + Len(more) = Len(more)
      BY <3>2 DEF Sent
    <3> QED
      BY <3>4, <3>5
  <2> QED
    BY <2>2, <2>3
<1>3. written' \in 0..MaxChunks /\ box' \in {"serve", "finish", "end"}
  BY <1>1 DEF TunTypeOK
<1> QED
  BY <1>2, <1>3, SendsMore

\* The same of a proper part of it.
LEMMA PartOfEnvelopeGoes ==
  ASSUME TunInv, box \in {"serve", "refuse", "finish"}, box' \in {"finish", "end"}, wrote' = TRUE,
         UNCHANGED <<alive, browser, pending, got, status, written, emptyAt>>,
         NEW k \in 0..Len(EnvelopeFirst), NEW more, more = SubSeq(EnvelopeFirst, 1, k),
         toBrowser' = IF alive THEN toBrowser \o more ELSE toBrowser
  PROVE  TunInv'
<1>1. EnvelopeFirst \in Seq(Message)
  BY EnvelopeIsFirst DEF EnvelopeFirst
<1>2. more \in Seq(Message) /\ Len(more) = k /\ \A i \in 1..k: more[i] = EnvelopeFirst[i]
  BY <1>1, PartOf
<1>3. Len(more) <= Len(EnvelopeFirst)
  BY <1>1, <1>2, LenProperties
<1> QED
  BY <1>2, <1>3, PartOfEnvelope

\* finish: an empty response gets its envelope, in part or whole.
LEMMA FinishKeeps == ASSUME TunInv, FinishResponse PROVE TunInv'
<1>1. /\ box = "finish" /\ wrote' = TRUE
      /\ UNCHANGED <<alive, browser, pending, got, status, written, emptyAt>>
  BY DEF FinishResponse
<1>2. TunTypeOK /\ written \in Nat /\ (~wrote => written = 0 /\ emptyAt = Nowhere)
  BY TunnelAssumption DEF TunInv, TunTypeOK
<1>3. /\ Frame(status) \in Seq(Message) /\ Len(Frame(status)) = 2
      /\ Frame(status)[1] = Nth(1) /\ Frame(status)[2] = Nth(2)
  BY EnvelopeIsFirst
<1>4. ASSUME NEW n \in Nat, Wire(n)
      PROVE  /\ Taken \in Nat /\ Sent(Taken + n, box, wrote, written)
             /\ ~wrote => Taken = 0 /\ n = 0
  BY <1>4, NothingBefore
<1>5. CASE Sends(EnvelopeFirst) /\ box' = "end"
  <2>1. PICK more: more = EnvelopeFirst
    OBVIOUS
  <2>2. more \in Seq(Message) /\ Len(more) <= Len(EnvelopeFirst)
    BY <1>3, <2>1, LenProperties DEF EnvelopeFirst
  <2>3. toBrowser' = IF alive THEN toBrowser \o more ELSE toBrowser
    BY <1>5, <2>1 DEF Sends
  <2> QED
    BY <1>1, <1>5, <2>1, <2>2, <2>3, PartOfEnvelope
<1>6. ASSUME NEW k \in 0..(Len(EnvelopeFirst) - 1), box' = "closed",
             toBrowser' = IF alive THEN toBrowser \o Append(SubSeq(EnvelopeFirst, 1, k), Shut)
                          ELSE toBrowser
      PROVE  TunInv'
  <2>1. ~wrote
    <3>1. wrote => Len(EnvelopeFirst) = 0
      BY DEF EnvelopeFirst
    <3> QED
      BY <3>1, <1>6
  <2>2. EnvelopeFirst = Frame(status) /\ k \in {0, 1}
    <3>1. EnvelopeFirst = Frame(status)
      BY <2>1 DEF EnvelopeFirst
    <3>2. k \in 0..(2 - 1)
      BY <1>3, <1>6, <3>1
    <3> QED
      BY <3>1, <3>2
  <2>3. PICK part: part = SubSeq(Frame(status), 1, k)
    OBVIOUS
  <2>4. part \in Seq(Message) /\ Len(part) = k /\ (k = 1 => part[1] = Nth(1))
    BY <1>3, <2>2, <2>3, PartOf
  <2>5. PICK last: last = Append(part, Shut)
    OBVIOUS
  <2>6. Shut \in Message
    BY DEF Shut, Message
  <2>7. last \in Seq(Message) /\ Len(last) = k + 1 /\ last[k + 1] = Shut /\ (k = 1 => last[1] = Nth(1))
    BY <2>2, <2>4, <2>5, <2>6, AppendProperties
  <2>8. toBrowser' = IF alive THEN toBrowser \o last ELSE toBrowser
    BY <1>6, <2>2, <2>3, <2>5
  <2>9. TunTypeOK'
    <3>1. toBrowser' \in Seq(Message)
      BY <1>2, <2>7, <2>8, ConcatProperties DEF TunTypeOK
    <3> QED
      BY <1>1, <1>2, <1>6, <3>1 DEF TunTypeOK, BoxState, Nowhere
  <2>10. ASSUME alive, browser \in {"opening", "head", "body"} PROVE \E n \in Nat: Wire(n)'
    <3>1. PICK n \in Nat: Wire(n)
      BY <1>2, <2>1, <2>10 DEF TunInv, Waits
    <3>2. Taken = 0 /\ n = 0 /\ Len(toBrowser) = 0 /\ Taken' = Taken
      BY <1>1, <1>4, <2>1, <3>1 DEF Wire, Follows, Taken
    <3>3. toBrowser = <<>>
      BY <1>2, <3>2, EmptySeq DEF TunTypeOK
    <3>4. toBrowser' = last
      BY <2>7, <2>8, <2>10, <3>3, ConcatEmptySeq
    <3>5. Wire(k)'
      <4>1. k \in Nat /\ Len(toBrowser') = k + 1 /\ toBrowser'[k + 1] = Shut
        BY <2>2, <2>7, <3>4
      <4>2. \A i \in 1..k: toBrowser'[i] = Nth(0 + i)
        BY <2>2, <2>7, <3>4
      <4>3. \A j: Nth(j)' = Nth(j)
        BY <1>1 DEF Nth, Content
      <4>4. InOrder'
        BY <1>1, <3>1 DEF Wire, Follows, InOrder, Content
      <4>5. Sent(0 + k, box', wrote', written')
        BY <1>1, <1>6, <2>2 DEF Sent
      <4> QED
        BY <1>1, <1>6, <3>1, <3>2, <4>1, <4>2, <4>3, <4>4, <4>5 DEF Wire, Follows
    <3> QED
      BY <2>2, <3>5
  <2> QED
    BY <1>1, <1>2, <1>6, <2>1, <2>9, <2>10, Assembles DEF TunInv
<1> QED
  BY <1>5, <1>6 DEF FinishResponse

\* The refusal, all of it or the part that went before an error nobody looks at.
LEMMA RefuseKeeps == ASSUME TunInv, RefuseRequest PROVE TunInv'
<1>1. /\ box = "refuse" /\ box' = "end" /\ wrote' = TRUE
      /\ UNCHANGED <<alive, browser, pending, got, status, written, emptyAt>>
      /\ Sends(EnvelopeFirst) \/ SendsPart(EnvelopeFirst)
  BY DEF RefuseRequest
<1>2. EnvelopeFirst \in Seq(Message) /\ Len(EnvelopeFirst) \in Nat
  BY EnvelopeIsFirst, LenProperties DEF EnvelopeFirst
<1>3. CASE Sends(EnvelopeFirst)
  <2>1. PICK more: more = EnvelopeFirst
    OBVIOUS
  <2>2. more \in Seq(Message) /\ Len(more) <= Len(EnvelopeFirst)
    BY <1>2, <2>1
  <2>3. toBrowser' = IF alive THEN toBrowser \o more ELSE toBrowser
    BY <1>3, <2>1 DEF Sends
  <2> QED
    BY <1>1, <2>1, <2>2, <2>3, PartOfEnvelope
<1>4. CASE SendsPart(EnvelopeFirst)
  <2>1. PICK k \in 0..(Len(EnvelopeFirst) - 1): Sends(SubSeq(EnvelopeFirst, 1, k))
    BY <1>4 DEF SendsPart
  <2>2. PICK more: more = SubSeq(EnvelopeFirst, 1, k)
    OBVIOUS
  <2>3. k \in 0..Len(EnvelopeFirst) /\ toBrowser' = IF alive THEN toBrowser \o more ELSE toBrowser
    BY <1>2, <2>1, <2>2 DEF Sends
  <2> QED
    BY <1>1, <2>2, <2>3, PartOfEnvelopeGoes
<1> QED
  BY <1>1, <1>3, <1>4

\* An empty Write ends the response for the browser, or fails before it has.
LEMMA EmptyKeeps == ASSUME TunInv, WriteEmpty PROVE TunInv'
<1> DEFINE batch == EnvelopeFirst \o EndFrame
<1>1. /\ box = "serve" /\ emptyAt = Nowhere /\ wrote' = TRUE
      /\ UNCHANGED <<alive, browser, pending, got, status, written>>
      /\ \/ Sends(batch) /\ emptyAt' = written /\ box' = box
         \/ SendsPart(batch) /\ box' = "finish" /\ emptyAt' = emptyAt
  BY DEF WriteEmpty
<1>2. /\ TunTypeOK /\ written \in Nat /\ written < Nowhere /\ (~wrote => written = 0)
      /\ Len(toBrowser) \in Nat
  BY TunTypes, TunnelAssumption DEF TunInv, TunTypeOK, Nowhere
<1>3. EndFrame \in Seq(Message) /\ Len(EndFrame) = 1 /\ EndFrame[1] = <<"length", 0>>
  BY DEF EndFrame, Message
<1>4. EnvelopeFirst \in Seq(Message) /\ Len(EnvelopeFirst) \in Nat
  BY EnvelopeIsFirst, LenProperties DEF EnvelopeFirst
<1> PICK m: m = Len(EnvelopeFirst)
  OBVIOUS
<1>5. /\ batch \in Seq(Message) /\ Len(batch) = m + 1 /\ batch[m + 1] = <<"length", 0>>
      /\ \A i \in 1..m: batch[i] = EnvelopeFirst[i]
  <2>1. /\ batch \in Seq(Message) /\ Len(batch) = m + Len(EndFrame)
        /\ \A i \in 1..(m + Len(EndFrame)):
             batch[i] = IF i <= m THEN EnvelopeFirst[i] ELSE EndFrame[i - m]
    BY <1>3, <1>4, ConcatProperties
  <2>2. (m + 1) - m = 1 /\ m + 1 \in 1..(m + Len(EndFrame)) /\ ~(m + 1 <= m)
    BY <1>3, <1>4
  <2>3. batch[m + 1] = EndFrame[1]
    BY <2>1, <2>2
  <2> QED
    BY <1>3, <1>4, <2>1, <2>3
<1> HIDE DEF batch
<1>6. CASE Sends(batch) /\ emptyAt' = written /\ box' = box
  <2>1. TunTypeOK'
    <3>1. toBrowser' \in Seq(Message)
      BY <1>2, <1>5, <1>6, ConcatProperties DEF Sends, TunTypeOK
    <3>2. emptyAt' \in 0..Nowhere /\ Nowhere' = Nowhere
      BY <1>2, <1>6, TunnelAssumption DEF Nowhere
    <3> QED
      BY <1>1, <1>2, <1>6, <3>1, <3>2 DEF TunTypeOK
  <2>2. ASSUME Waits PROVE \E n \in Nat: Ended(n)'
    <3>1. PICK n \in Nat: Wire(n)
      BY <1>1, <2>2 DEF TunInv
    <3>2. /\ Taken \in Nat /\ Sent(Taken + n, box, wrote, written)
          /\ ~wrote => Taken = 0 /\ n = 0
      BY <3>1, NothingBefore
    <3>3. Len(toBrowser) = n /\ toBrowser \in Seq(Message) /\ toBrowser' = toBrowser \o batch
      BY <1>1, <1>2, <1>6, <2>2, <3>1 DEF Wire, TunTypeOK, Sends, Waits
    <3>4. /\ Len(toBrowser') = n + (m + 1)
          /\ \A i \in 1..(n + (m + 1)): toBrowser'[i] = IF i <= n THEN toBrowser[i] ELSE batch[i - n]
      <4>1. /\ Len(toBrowser \o batch) = Len(toBrowser) + Len(batch)
            /\ \A i \in 1..(Len(toBrowser) + Len(batch)):
                 (toBrowser \o batch)[i] = IF i <= Len(toBrowser) THEN toBrowser[i]
                                           ELSE batch[i - Len(toBrowser)]
        BY <1>5, <3>3, ConcatProperties
      <4> QED
        BY <1>5, <3>3, <4>1
    <3>5. /\ Taken + n + m = 2 * written + 2
          /\ \A i \in 1..m: batch[i] = Nth(Taken + n + i)
      <4>1. CASE wrote
        <5>1. m = 0 /\ Taken + n = 2 * written + 2
          BY <1>1, <3>2, <4>1 DEF EnvelopeFirst, Sent
        <5> QED
          BY <1>2, <5>1
      <4>2. CASE ~wrote
        <5>1. EnvelopeFirst = Frame(status) /\ m = 2
          BY <4>2, EnvelopeIsFirst DEF EnvelopeFirst
        <5>2. Taken = 0 /\ n = 0 /\ written = 0 /\ \A i \in 1..2: i = 1 \/ i = 2
          BY <1>2, <3>2, <4>2
        <5>3. \A i \in 1..2: batch[i] = Nth(i) /\ Taken + n + i = i
          BY <1>5, <5>1, <5>2, EnvelopeIsFirst
        <5> QED
          BY <5>1, <5>2, <5>3
      <4> QED
        BY <4>1, <4>2
    <3>6. Taken' = Taken /\ \A j: Nth(j)' = Nth(j)
      BY <1>1 DEF Taken, Nth, Content
    <3>7. \A i \in 1..(n + m): toBrowser'[i] = Nth(Taken + i)
      <4> SUFFICES ASSUME NEW i \in 1..(n + m) PROVE toBrowser'[i] = Nth(Taken + i)
        OBVIOUS
      <4>0. m \in Nat
        BY <1>4
      <4>1. CASE i <= n
        <5>1. toBrowser'[i] = toBrowser[i]
          BY <3>4, <4>0, <4>1
        <5> QED
          BY <3>1, <4>0, <4>1, <5>1 DEF Wire, Follows
      <4>2. CASE i > n
        <5>1. i - n \in 1..m /\ Taken + n + (i - n) = Taken + i /\ ~(i <= n) /\ i \in 1..(n + (m + 1))
          BY <3>2, <4>0, <4>2
        <5>2. toBrowser'[i] = batch[i - n]
          BY <3>4, <5>1
        <5> QED
          BY <3>5, <5>1, <5>2
      <4> QED
        BY <4>0, <4>1, <4>2
    <3>8. Len(toBrowser') > n + m /\ toBrowser'[(n + m) + 1] = <<"length", 0>>
      <4>1. /\ (n + m) + 1 = n + (m + 1) /\ (n + m) + 1 \in 1..(n + (m + 1))
            /\ ((n + m) + 1) - n = m + 1 /\ ~((n + m) + 1 <= n)
        BY <1>4
      <4> QED
        BY <1>4, <1>5, <3>4, <4>1
    <3>9. Follows(n + m)'
      <4>1. InOrder' /\ (browser' = "body" <=> Len(got') > 0)
        BY <1>1, <3>1 DEF Wire, Follows, InOrder, Content
      <4> QED
        BY <3>6, <3>7, <4>1 DEF Follows
    <3>10. Taken' + (n + m) = 2 * emptyAt' + 2 /\ n + m \in Nat
      BY <1>4, <1>6, <3>2, <3>5, <3>6
    <3>11. Ended(n + m)'
      BY <3>8, <3>9, <3>10 DEF Ended
    <3> QED
      BY <3>10, <3>11
  <2>3. browser # "resolved"
    BY <1>1 DEF TunInv
  <2>4. Waits' = Waits /\ emptyAt' # Nowhere' /\ (~alive => UNCHANGED toBrowser)
    BY <1>1, <1>2, <1>6 DEF Waits, Nowhere, Sends
  <2> QED
    BY <1>1, <1>6, <2>1, <2>2, <2>3, <2>4 DEF TunInv
<1>7. CASE SendsPart(batch) /\ box' = "finish" /\ emptyAt' = emptyAt
  <2>1. PICK k \in 0..(Len(batch) - 1): Sends(SubSeq(batch, 1, k))
    BY <1>7 DEF SendsPart
  <2>2. k \in 0..Len(batch) /\ k \in 0..m
    BY <1>4, <1>5, <2>1
  <2>3. PICK more: more = SubSeq(batch, 1, k)
    OBVIOUS
  <2>4. more \in Seq(Message) /\ Len(more) = k /\ \A i \in 1..k: more[i] = batch[i]
    BY <1>5, <2>2, <2>3, PartOf
  <2>5. \A i \in 1..Len(more): more[i] = EnvelopeFirst[i]
    BY <1>4, <1>5, <2>2, <2>4
  <2>6. Len(more) <= Len(EnvelopeFirst) /\ toBrowser' = IF alive THEN toBrowser \o more ELSE toBrowser
    BY <1>4, <2>1, <2>2, <2>3, <2>4 DEF Sends
  <2> QED
    BY <1>1, <1>7, <2>4, <2>5, <2>6, PartOfEnvelope
<1> QED
  BY <1>1, <1>6, <1>7

\* The end frame comes after all that was written, and the close after that.
LEMMA EndKeeps == ASSUME TunInv, EndResponse PROVE TunInv'
<1>1. /\ box = "end" /\ box' = "closed"
      /\ UNCHANGED <<alive, browser, pending, got, status, wrote, written, emptyAt>>
      /\ \/ Sends(<<Shut>>)
         \/ Sends(Append(EndFrame, Shut))
  BY DEF EndResponse
<1>2. TunTypeOK /\ Shut \in Message /\ <<"length", 0>> \in Message
  BY DEF TunInv, Shut, Message
<1>3. CASE Sends(<<Shut>>)
  <2>1. BoxCloses
    BY <1>1, <1>2, <1>3, AppendIsConcat DEF BoxCloses, Sends, TunTypeOK
  <2> QED
    BY <1>1, <1>2, <2>1, Closes DEF TunTypeOK
<1>4. CASE Sends(Append(EndFrame, Shut))
  <2>1. Append(EndFrame, Shut) = <<<<"length", 0>>, Shut>>
    <3> DEFINE s == EndFrame  t == <<<<"length", 0>>, Shut>>
    <3>1. s \in Seq(Message) /\ Len(s) = 1 /\ s[1] = <<"length", 0>>
      BY <1>2 DEF EndFrame
    <3>2. t \in Seq(Message) /\ Len(t) = 2 /\ t[1] = <<"length", 0>> /\ t[2] = Shut
      BY <1>2
    <3> HIDE DEF s, t
    <3>3. /\ Append(s, Shut) \in Seq(Message) /\ Len(Append(s, Shut)) = 2
          /\ Append(s, Shut)[1] = t[1] /\ Append(s, Shut)[2] = t[2]
      BY <1>2, <3>1, <3>2, AppendProperties
    <3>4. \A i \in 1..2: Append(s, Shut)[i] = t[i]
      BY <3>3
    <3>5. Append(s, Shut) = t
      BY <3>2, <3>3, <3>4, SeqEqual
    <3> QED
      BY <3>5 DEF s, t
  <2>2. toBrowser' = IF alive THEN toBrowser \o <<<<"length", 0>>, Shut>> ELSE toBrowser
    BY <1>4, <2>1 DEF Sends
  <2>3. <<<<"length", 0>>, Shut>> \in Seq(Message)
    BY <1>2
  <2>4. TunTypeOK'
    <3>1. toBrowser' \in Seq(Message)
      BY <1>2, <2>2, <2>3, ConcatProperties DEF TunTypeOK
    <3> QED
      BY <1>1, <1>2, <3>1 DEF TunTypeOK, BoxState, Nowhere
  <2>5. ASSUME emptyAt = Nowhere, alive, browser \in {"opening", "head", "body"}
        PROVE  \E n \in Nat: Wire(n)'
    <3>1. PICK n \in Nat: Wire(n)
      BY <2>5 DEF TunInv, Waits
    <3>2. Wire(n)'
      BY <1>1, <2>2, <2>4, <2>5, <3>1, CloseWire
    <3> QED
      BY <3>2
  <2>6. CASE emptyAt # Nowhere
    <3>1. PICK more: more = <<<<"length", 0>>, Shut>>
      OBVIOUS
    <3>2. wrote' /\ more \in Seq(Message)
      BY <1>1, <2>3, <2>6, <3>1 DEF TunInv
    <3> QED
      BY <1>1, <2>2, <2>4, <2>6, <3>1, <3>2, EndedStays
  <2> QED
    BY <1>1, <2>2, <2>4, <2>5, <2>6, Assembles DEF TunInv
<1> QED
  BY <1>1, <1>3, <1>4


\* The browser asks: nothing has been sent yet.
LEMMA AskTheBox == ASSUME TunInv, NEW e \in Envelope, Ask(e) PROVE TunInv'
<1>1. /\ browser = "opening" /\ browser' = "head"
      /\ UNCHANGED <<toBrowser, alive, pending, got, box, status, wrote, written, emptyAt>>
  BY DEF Ask
<1> QED
  BY <1>1 DEF TunInv, Waits, Ended, Nowhere, TunTypeOK, Wire, Follows, InOrder, Taken, Nth, Content, BrowserState

\* FrameReader.push: the next message of the response makes or begins the next frame.
LEMMA ReceiveFollows ==
  ASSUME TunInv, Receive, NEW n \in Nat, n > 0, Follows(n), n <= Len(toBrowser)
  PROVE  /\ TunTypeOK' /\ Follows(n - 1)' /\ Taken' = Taken + 1 /\ browser' \in {"head", "body"}
         /\ Len(toBrowser') = Len(toBrowser) - 1
         /\ \A i \in 1..(Len(toBrowser) - 1): toBrowser'[i] = toBrowser[i + 1]
<1>1. /\ browser \in {"head", "body"} /\ toBrowser # <<>> /\ toBrowser' = Tail(toBrowser)
      /\ UNCHANGED <<alive, box, status, wrote, written, emptyAt>>
  BY DEF Receive
<1>2. /\ TunTypeOK /\ Taken \in Nat /\ Len(got) \in Nat /\ Len(toBrowser) \in Nat /\ InOrder
      /\ written \in Nat
  BY TunTypes, TunnelAssumption DEF TunInv, TunTypeOK, Follows
<1>3. toBrowser[1] = Nth(Taken + 1) /\ Head(toBrowser) = toBrowser[1]
  BY <1>1, <1>2 DEF Follows, TunTypeOK
<1>4. /\ toBrowser' \in Seq(Message) /\ Len(toBrowser') = Len(toBrowser) - 1
      /\ \A i \in 1..(Len(toBrowser) - 1): toBrowser'[i] = toBrowser[i + 1]
  BY <1>1, <1>2, HeadTailProperties DEF TunTypeOK
<1>5. \A j: Nth(j)' = Nth(j)
  BY <1>1 DEF Nth, Content
<1>6. ASSUME Taken' = Taken + 1, InOrder', browser' = "body" <=> Len(got') > 0
      PROVE  Follows(n - 1)'
  <2>1. \A i \in 1..(n - 1): toBrowser'[i] = Nth(Taken + 1 + i)
    <3> SUFFICES ASSUME NEW i \in 1..(n - 1) PROVE toBrowser'[i] = Nth(Taken + 1 + i)
      OBVIOUS
    <3>1. i + 1 \in 1..n /\ i \in 1..(Len(toBrowser) - 1) /\ Taken + (i + 1) = Taken + 1 + i
      BY <1>2
    <3> QED
      BY <1>4, <3>1 DEF Follows
  <2> QED
    BY <1>5, <1>6, <2>1 DEF Follows
<1>7. CASE pending
  <2>1. Taken + 1 = 2 * Len(got) + 2
    BY <1>2, <1>7 DEF Taken
  <2>2. toBrowser[1] = <<"payload", Content(Len(got))>> /\ Content(Len(got)) \in Nat
    BY <1>2, <1>3, <2>1, NthMessage
  <2>3. pending' = FALSE /\ got' = Append(got, Content(Len(got))) /\ browser' = "body"
    BY <1>3, <2>2 DEF Receive, Shut, EndFrame
  <2>4. /\ got' \in Seq(Nat) /\ Len(got') = Len(got) + 1 /\ got'[Len(got) + 1] = Content(Len(got))
        /\ \A i \in 1..Len(got): got'[i] = got[i]
    BY <1>2, <2>2, <2>3, AppendProperties DEF TunTypeOK
  <2>5. Taken' = Taken + 1
    BY <1>2, <1>7, <2>3, <2>4 DEF Taken
  <2>6. InOrder'
    <3> SUFFICES ASSUME NEW i \in 1..(Len(got) + 1) PROVE got'[i] = Content(i - 1)
      BY <1>1, <2>4 DEF InOrder, Content
    <3>1. i \in 1..Len(got) \/ i = Len(got) + 1
      BY <1>2
    <3>2. (Len(got) + 1) - 1 = Len(got)
      BY <1>2
    <3> QED
      BY <1>2, <2>4, <3>1, <3>2 DEF InOrder
  <2>7. Follows(n - 1)'
    BY <1>2, <1>6, <2>3, <2>4, <2>5, <2>6
  <2>8. TunTypeOK'
    BY <1>1, <1>2, <1>4, <2>3, <2>4 DEF TunTypeOK, BrowserState, Nowhere
  <2> QED
    BY <1>4, <2>3, <2>5, <2>7, <2>8
<1>8. CASE ~pending
  <2>1. Taken + 1 = 2 * Len(got) + 1
    BY <1>2, <1>8 DEF Taken
  <2>2. toBrowser[1] = <<"length", Content(Len(got))>> /\ Content(Len(got)) # 0
    BY <1>2, <1>3, <2>1, NthMessage
  <2>3. pending' = TRUE /\ UNCHANGED <<browser, got>>
    BY <1>3, <2>2 DEF Receive, Shut, EndFrame
  <2>4. Taken' = Taken + 1
    BY <1>2, <1>8, <2>3 DEF Taken
  <2>5. InOrder' /\ (browser' = "body" <=> Len(got') > 0)
    BY <1>1, <1>2, <2>3 DEF InOrder, Content, Follows
  <2>6. Follows(n - 1)'
    BY <1>6, <2>4, <2>5
  <2>7. TunTypeOK'
    BY <1>1, <1>2, <1>4, <2>3 DEF TunTypeOK, Nowhere
  <2> QED
    BY <1>1, <1>4, <2>3, <2>4, <2>6, <2>7
<1> QED
  BY <1>7, <1>8

\* As long as the wire holds more of the response.
LEMMA ReceiveNext ==
  ASSUME TunInv, Receive, Waits, emptyAt = Nowhere, NEW n \in Nat, Wire(n), n > 0
  PROVE  TunInv'
<1>1. /\ browser \in {"head", "body"} /\ UNCHANGED <<alive, box, status, wrote, written, emptyAt>>
  BY DEF Receive
<1>2. /\ TunTypeOK /\ Taken \in Nat /\ Len(toBrowser) \in Nat /\ Follows(n) /\ n <= Len(toBrowser)
  BY TunTypes DEF TunInv, TunTypeOK, Wire
<1>3. /\ TunTypeOK' /\ Follows(n - 1)' /\ Taken' = Taken + 1 /\ browser' \in {"head", "body"}
      /\ Len(toBrowser') = Len(toBrowser) - 1
      /\ \A i \in 1..(Len(toBrowser) - 1): toBrowser'[i] = toBrowser[i + 1]
  BY <1>2, ReceiveFollows
<1>4. n - 1 \in Nat /\ Taken' + (n - 1) = Taken + n
  BY <1>2, <1>3
<1>5. box' # "closed" => Len(toBrowser') = n - 1
  BY <1>1, <1>2, <1>3 DEF Wire
<1>6. box' = "closed" =>
        \/ Len(toBrowser') = (n - 1) + 1 /\ toBrowser'[(n - 1) + 1] = Shut
        \/ /\ Len(toBrowser') = (n - 1) + 2
           /\ toBrowser'[(n - 1) + 1] = <<"length", 0>> /\ toBrowser'[(n - 1) + 2] = Shut
  <2>1. (n - 1) + 1 = n /\ (n - 1) + 2 = n + 1
    OBVIOUS
  <2>2. CASE Len(toBrowser) = n + 1 /\ toBrowser[n + 1] = Shut
    BY <1>2, <1>3, <2>1, <2>2
  <2>3. CASE Len(toBrowser) = n + 2 /\ toBrowser[n + 1] = <<"length", 0>> /\ toBrowser[n + 2] = Shut
    <3>1. n \in 1..(Len(toBrowser) - 1) /\ n + 1 \in 1..(Len(toBrowser) - 1) /\ (n + 1) + 1 = n + 2
      BY <2>3
    <3> QED
      BY <1>2, <1>3, <2>1, <2>3, <3>1
  <2> QED
    BY <1>1, <2>2, <2>3 DEF Wire
<1>7. Sent(Taken' + (n - 1), box', wrote', written')
  BY <1>1, <1>4 DEF Wire
<1>8. Wire(n - 1)'
  BY <1>3, <1>5, <1>6, <1>7 DEF Wire
<1>9. alive /\ Nowhere' = Nowhere
  BY DEF Waits, Nowhere
<1> QED
  BY <1>1, <1>3, <1>4, <1>8, <1>9 DEF TunInv

\* What comes before the end frame of an empty Write, and that end frame.
LEMMA ReceiveEnded ==
  ASSUME TunInv, Receive, Waits, emptyAt # Nowhere, NEW n \in Nat, Ended(n)
  PROVE  TunInv'
<1>1. /\ browser \in {"head", "body"} /\ toBrowser # <<>> /\ toBrowser' = Tail(toBrowser)
      /\ UNCHANGED <<alive, box, status, wrote, written, emptyAt>>
  BY DEF Receive
<1>2. /\ TunTypeOK /\ Taken \in Nat /\ Len(toBrowser) \in Nat /\ Len(got) \in Nat
      /\ emptyAt \in Nat /\ wrote /\ alive /\ Nowhere' = Nowhere
  BY TunTypes, TunnelAssumption DEF TunInv, TunTypeOK, Waits, Nowhere
<1>3. /\ Follows(n) /\ Taken + n = 2 * emptyAt + 2
      /\ Len(toBrowser) > n /\ toBrowser[n + 1] = <<"length", 0>>
  BY DEF Ended
<1>4. CASE n > 0
  <2>1. /\ TunTypeOK' /\ Follows(n - 1)' /\ Taken' = Taken + 1 /\ browser' \in {"head", "body"}
        /\ Len(toBrowser') = Len(toBrowser) - 1
        /\ \A i \in 1..(Len(toBrowser) - 1): toBrowser'[i] = toBrowser[i + 1]
    <3>1. n <= Len(toBrowser)
      BY <1>2, <1>3
    <3> QED
      BY <1>3, <1>4, <3>1, ReceiveFollows
  <2>2. /\ n - 1 \in Nat /\ Taken' + (n - 1) = 2 * emptyAt + 2 /\ Len(toBrowser') > n - 1
        /\ n \in 1..(Len(toBrowser) - 1) /\ (n - 1) + 1 = n
    BY <1>2, <1>3, <1>4, <2>1
  <2>3. toBrowser'[(n - 1) + 1] = <<"length", 0>>
    BY <1>3, <2>1, <2>2
  <2>4. Ended(n - 1)'
    BY <1>1, <2>1, <2>2, <2>3 DEF Ended
  <2> QED
    BY <1>1, <1>2, <2>1, <2>2, <2>4 DEF TunInv
<1>5. CASE n = 0
  <2>1. Len(got) = emptyAt + 1 /\ ~pending
    BY <1>2, <1>3, <1>5 DEF Taken, TunTypeOK
  <2>2. browser = "body" /\ InOrder
    BY <1>2, <1>3, <2>1 DEF Follows
  <2>3. Head(toBrowser) = <<"length", 0>>
    BY <1>1, <1>2, <1>3, <1>5, HeadTailProperties DEF TunTypeOK
  <2>4. browser' = "resolved" /\ UNCHANGED <<pending, got>>
    BY <2>1, <2>2, <2>3 DEF Receive, Shut, EndFrame
  <2>5. toBrowser' \in Seq(Message)
    BY <1>1, <1>2, HeadTailProperties DEF TunTypeOK
  <2>6. TunTypeOK' /\ InOrder' /\ Told' = emptyAt
    BY <1>1, <1>2, <2>2, <2>4, <2>5 DEF TunTypeOK, BrowserState, InOrder, Content, Told
  <2> QED
    BY <1>1, <1>2, <2>1, <2>4, <2>6 DEF TunInv, Waits
<1> QED
  BY <1>4, <1>5

\* The end: a close on its own is a failure, an end frame after whole frames is
\* the end of the body, and one inside a frame is taken for a piece of it.
LEMMA ReceiveEnd ==
  ASSUME TunInv, Receive, alive, emptyAt = Nowhere, Wire(0)
  PROVE  TunInv'
<1>1. /\ browser \in {"head", "body"} /\ toBrowser # <<>> /\ toBrowser' = Tail(toBrowser)
      /\ UNCHANGED <<alive, box, status, wrote, written, emptyAt>> /\ Nowhere' = Nowhere
  BY DEF Receive, Nowhere
<1>2. /\ TunTypeOK /\ Taken \in Nat /\ Len(got) \in Nat /\ Len(toBrowser) \in Nat /\ InOrder
      /\ written \in Nat
  BY TunTypes, TunnelAssumption DEF TunInv, TunTypeOK, Wire, Follows
<1>3. /\ toBrowser' \in Seq(Message) /\ Len(toBrowser') = Len(toBrowser) - 1
      /\ \A i \in 1..(Len(toBrowser) - 1): toBrowser'[i] = toBrowser[i + 1]
      /\ Head(toBrowser) = toBrowser[1] /\ Len(toBrowser) # 0
  BY <1>1, <1>2, HeadTailProperties, EmptySeq DEF TunTypeOK
<1>4. /\ box = "closed"
      /\ \/ Len(toBrowser) = 1 /\ toBrowser[1] = Shut
         \/ Len(toBrowser) = 2 /\ toBrowser[1] = <<"length", 0>> /\ toBrowser[2] = Shut
  BY <1>2, <1>3 DEF Wire, Follows
<1>5. CASE toBrowser[1] = Shut
  <2>1. browser' = "failed" /\ UNCHANGED <<pending, got>>
    BY <1>3, <1>5 DEF Receive, Shut, EndFrame
  <2> QED
    BY <1>1, <1>2, <1>3, <2>1 DEF TunInv, Waits, TunTypeOK, BrowserState
<1>6. CASE toBrowser[1] = <<"length", 0>> /\ pending
  <2>1. pending' = TRUE /\ UNCHANGED <<browser, got>>
    <3>1. Head(toBrowser) # Shut /\ Head(toBrowser)[1] # "payload"
      BY <1>3, <1>6 DEF Shut
    <3>2. \/ Head(toBrowser) = EndFrame[1] /\ ~pending
          \/ pending' = TRUE /\ UNCHANGED <<browser, got>>
      BY <3>1 DEF Receive
    <3> QED
      BY <1>6, <3>2
  <2>2. Taken' = Taken /\ InOrder' /\ TunTypeOK'
    BY <1>1, <1>2, <1>3, <1>6, <2>1 DEF Taken, InOrder, Content, TunTypeOK, Nowhere
  <2>3. Len(toBrowser) = 2 /\ toBrowser[2] = Shut
    <3>1. toBrowser[1] # Shut
      BY <1>6 DEF Shut
    <3> QED
      BY <1>4, <3>1
  <2>4. Len(toBrowser') = 0 + 1 /\ toBrowser'[0 + 1] = Shut
    BY <1>3, <2>3
  <2>5. Sent(Taken' + 0, box', wrote', written')
    BY <1>1, <2>2 DEF Wire, Follows
  <2>6. browser' = "body" <=> Len(got') > 0
    BY <2>1 DEF Wire, Follows
  <2>7. Wire(0)'
    <3>1. \A i \in 1..0: (toBrowser[i] = Nth(Taken + i))'
      OBVIOUS
    <3>2. box' = "closed" /\ InOrder'
      BY <1>1, <1>4, <2>2
    <3> QED
      BY <2>4, <2>5, <2>6, <3>1, <3>2, Zenon DEF Wire, Follows
  <2> QED
    BY <1>1, <2>1, <2>2, <2>7 DEF TunInv, Waits
<1>7. CASE toBrowser[1] = <<"length", 0>> /\ ~pending
  <2>1. browser' = (IF browser = "head" THEN "failed" ELSE "resolved") /\ UNCHANGED <<pending, got>>
    BY <1>3, <1>7 DEF Receive, Shut, EndFrame
  <2>2. TunTypeOK' /\ InOrder' /\ Told' = written
    BY <1>1, <1>2, <1>3, <2>1 DEF TunTypeOK, BrowserState, InOrder, Content, Told, Nowhere
  <2>3. browser = "body" => Len(got) = written + 1
    <3> SUFFICES ASSUME browser = "body" PROVE Len(got) = written + 1
      OBVIOUS
    <3>1. Taken = 2 * Len(got) /\ Taken > 0 /\ Taken + 0 = Taken
      BY <1>2, <1>7 DEF Taken, Wire, Follows
    <3>2. 2 * Len(got) \in {0, 1, 2 * written + 2, 2 * written + 3}
      BY <3>1 DEF Wire, Follows, Sent
    <3> QED
      BY <1>2, <3>1, <3>2
  <2>4. browser = "body" => wrote
    BY <1>2, <2>3 DEF Wire, Sent, Taken
  <2> QED
    BY <1>1, <1>4, <2>1, <2>2, <2>3, <2>4 DEF TunInv, Waits
<1> QED
  BY <1>4, <1>5, <1>6, <1>7

\* The browser takes one message, whatever it is.
LEMMA ReceiveKeeps == ASSUME TunInv, Receive PROVE TunInv'
<1>1. ASSUME alive PROVE TunInv'
  <2>1. Waits
    BY <1>1 DEF Waits, Receive
  <2>2. ASSUME emptyAt = Nowhere PROVE TunInv'
    <3>1. PICK n \in Nat: Wire(n)
      BY <2>1, <2>2 DEF TunInv
    <3> QED
      BY <1>1, <2>1, <2>2, <3>1, ReceiveNext, ReceiveEnd
  <2>3. ASSUME emptyAt # Nowhere PROVE TunInv'
    <3>1. PICK n \in Nat: Ended(n)
      BY <2>1, <2>3 DEF TunInv
    <3> QED
      BY <2>1, <2>3, <3>1, ReceiveEnded
  <2> QED
    BY <2>2, <2>3
<1>2. CASE ~alive
  <2>1. /\ toBrowser = <<Shut>> /\ toBrowser' = Tail(toBrowser)
        /\ UNCHANGED <<alive, box, status, wrote, written, emptyAt>>
    BY <1>2 DEF TunInv, Receive
  <2>2. Head(toBrowser) = Shut /\ toBrowser' = <<>>
    BY <2>1
  <2>3. browser' = "failed" /\ UNCHANGED <<pending, got>>
    BY <2>2 DEF Receive, Shut, EndFrame
  <2> QED
    BY <1>2, <2>1, <2>2, <2>3 DEF TunInv, Waits, TunTypeOK, BrowserState, Nowhere
<1> QED
  BY <1>1, <1>2

\* The connection is gone: all that comes is the close.
LEMMA DropKeeps == ASSUME TunInv, Dropped PROVE TunInv'
<1>1. /\ alive' = FALSE /\ toBrowser' = <<Shut>>
      /\ UNCHANGED <<browser, pending, got, box, status, wrote, written, emptyAt>>
  BY DEF Dropped
<1>2. toBrowser' \in Seq(Message)
  BY <1>1 DEF Shut, Message
<1> QED
  BY <1>1, <1>2 DEF TunInv, Waits, Told, Nowhere, TunTypeOK, InOrder, Content

\* Every step keeps the invariant.
LEMMA TunStep == ASSUME TunInv, [TunNext]_tunVars PROVE TunInv'
<1>1. CASE UNCHANGED tunVars
  BY <1>1 DEF tunVars, Waits, Ended, Told, Nowhere, TunInv, TunTypeOK, Wire, Follows, InOrder, Taken, Nth, Content
<1>2. CASE OpenTimesOut
  BY <1>2 DEF OpenTimesOut, TunInv, Waits, Told, Nowhere, InOrder, Content, TunTypeOK, BrowserState
<1>3. CASE ReadFails
  BY <1>3, Closes DEF ReadFails, TunInv, TunTypeOK
<1> QED
  BY <1>1, <1>2, <1>3, AskTheBox, ReadKeeps, HeaderKeeps, WriteKeepsWire, ReturnKeeps,
     FinishKeeps, EmptyKeeps, RefuseKeeps,
     EndKeeps, DropKeeps, ReceiveKeeps DEF TunNext

\* For any statuses and any number of chunks, whatever fails on either side: a
\* Response the browser resolves is the status and the chunks the handler wrote
\* before the first end frame, each of them whole.
THEOREM ResponsesAreWritten == TunSpec => []ResponseIsWritten
<1>1. TunInv => ResponseIsWritten
  <2> SUFFICES ASSUME TunInv, browser = "resolved"
               PROVE  got # <<>> /\ Head(got) = status /\ Tail(got) = [i \in 1..Told |-> i]
    BY DEF ResponseIsWritten
  <2>1. got \in Seq(Nat) /\ Told \in Nat /\ Len(got) = Told + 1 /\ InOrder
    BY TunnelAssumption DEF TunInv, TunTypeOK, Told, Nowhere
  <2>2. got # <<>> /\ Head(got) = got[1] /\ got[1] = status
    BY <2>1 DEF InOrder, Content
  <2>3. /\ Tail(got) \in Seq(Nat) /\ Len(Tail(got)) = Told
        /\ \A i \in 1..Told: Tail(got)[i] = got[i + 1]
    BY <2>1, <2>2, HeadTailProperties
  <2>4. \A i \in 1..Told: Tail(got)[i] = i
    BY <2>1, <2>3 DEF InOrder, Content
  <2>5. Tail(got) = [i \in 1..Told |-> i]
    BY <2>3, <2>4, LenProperties
  <2> QED
    BY <2>2, <2>5
<1> QED
  BY <1>1, TunStarts, TunStep, PTL DEF TunSpec


(***************************************************************************)
(* The limiter: what it remembers of a key are the attempts it admitted,    *)
(* less some that have expired.                                             *)
(***************************************************************************)

Attempts == LimitKey \X Nat \X BOOLEAN

\* The admitted attempts of k before the i-th that its window holds at time t.
Before(tr, i, k, t) ==
  {j \in DOMAIN tr : /\ j < i /\ tr[j][1] = k /\ tr[j][3]
                     /\ tr[j][2] + Window > t}

FairAt(tr, i) ==
  tr[i][3] <=> Cardinality(Before(tr, i, tr[i][1], tr[i][2])) < MaxHits

Remembers(rec, tr, k, now) ==
  /\ \A h \in rec :
       /\ h[1] \in DOMAIN tr /\ tr[h[1]][1] = k /\ tr[h[1]][3]
       /\ h[2] = tr[h[1]][2]
  /\ \A j \in DOMAIN tr : tr[j][1] = k /\ tr[j][3] =>
       <<j, tr[j][2]>> \in rec \/ tr[j][2] + Window <= now

LimInv ==
  /\ tried \in Seq(Attempts) /\ clock \in Nat
  /\ hits \in [LimitKey -> SUBSET (Nat \X Nat)]
  /\ \A k \in LimitKey : Remembers(hits[k], tried, k, clock)
  /\ \A i \in DOMAIN tried : FairAt(tried, i)

\* The attempts that are kept are as many as the admitted ones of the window.
LEMMA KeptAreCounted ==
  ASSUME LimInv, NEW k \in LimitKey
  PROVE  Cardinality(Kept(k)) = Cardinality(Before(tried, Len(tried) + 1, k, clock))
<1> DEFINE n == Len(tried) + 1
           B == Before(tried, n, k, clock)
           K == Kept(k)
           f == [j \in B |-> <<j, tried[j][2]>>]
<1>1. /\ tried \in Seq(Attempts) /\ DOMAIN tried = 1..Len(tried) /\ Len(tried) \in Nat
      /\ clock \in Nat /\ Window \in Nat /\ hits[k] \subseteq Nat \X Nat
      /\ \A j \in DOMAIN tried : tried[j] \in Attempts
  BY LenProperties, ElementOfSeq, LimiterAssumption DEF LimInv
<1>2. \A j \in DOMAIN tried : tried[j][1] \in LimitKey /\ tried[j][2] \in Nat
  BY <1>1 DEF Attempts
<1>3. B \subseteq 1..Len(tried) /\ IsFiniteSet(B)
  <2>1. B \subseteq 1..Len(tried)
    BY <1>1 DEF Before
  <2>2. IsFiniteSet(1..Len(tried))
    BY <1>1, FS_Interval
  <2> QED BY <2>1, <2>2, FS_Subset
<1>4. \A j \in B : f[j] \in K
  BY <1>1, <1>2 DEF Before, Kept, LimInv, Remembers
<1>5. \A h \in K : h[1] \in B /\ f[h[1]] = h
  <2> SUFFICES ASSUME NEW h \in K
               PROVE  h[1] \in B /\ f[h[1]] = h
    OBVIOUS
  <2>1. /\ h \in Nat \X Nat /\ h \in hits[k] /\ h[2] + Window > clock
    BY <1>1 DEF Kept
  <2>2. h[1] \in DOMAIN tried /\ tried[h[1]][1] = k /\ tried[h[1]][3] /\ h[2] = tried[h[1]][2]
    BY <2>1 DEF LimInv, Remembers
  <2>3. h[1] \in B
    BY <1>1, <2>1, <2>2 DEF Before
  <2> QED BY <2>1, <2>2, <2>3
<1>6. \A i, j \in B : f[i] = f[j] => i = j
  OBVIOUS
<1>7. f \in Bijection(B, K)
  <2>1. f \in [B -> K]
    BY <1>4
  <2>2. \A h \in K : \E j \in B : f[j] = h
    BY <1>5
  <2> HIDE DEF f, B, K
  <2> QED BY <2>1, <2>2, <1>6 DEF Bijection, Injection, Surjection, IsInjective
<1> QED BY <1>3, <1>7, FS_Bijection DEF ExistsBijection


\* One more attempt does not change what was before the earlier ones.
LEMMA BeforeIsFixed ==
  ASSUME NEW tr \in Seq(Attempts), NEW a \in Attempts, NEW i \in 1..Len(tr) + 1
  PROVE  \A k, t : Before(Append(tr, a), i, k, t) = Before(tr, i, k, t)
<1>1. /\ DOMAIN tr = 1..Len(tr) /\ DOMAIN Append(tr, a) = 1..Len(tr) + 1 /\ Len(tr) \in Nat
      /\ \A j \in 1..Len(tr) : Append(tr, a)[j] = tr[j]
  BY LenProperties, AppendProperties
<1>2. \A j \in DOMAIN Append(tr, a) : j < i => j \in DOMAIN tr
  BY <1>1
<1>3. \A j \in DOMAIN tr : j \in DOMAIN Append(tr, a)
  BY <1>1
<1> QED BY <1>1, <1>2, <1>3 DEF Before

\* An attempt, admitted or refused, leaves the memory of every key true.
LEMMA AllowKeeps ==
  ASSUME LimInv, NEW k \in LimitKey, Allow(k)
  PROVE  LimInv'
<1> DEFINE n == Len(tried) + 1
           ok == Cardinality(Kept(k)) < MaxHits
           now == IF ok THEN {<<n, clock>>} ELSE {}
           a == <<k, clock, ok>>
<1>1. /\ tried \in Seq(Attempts) /\ DOMAIN tried = 1..Len(tried) /\ Len(tried) \in Nat
      /\ clock \in Nat /\ Window \in Nat /\ clock' = clock
      /\ \A q \in LimitKey : hits[q] \subseteq Nat \X Nat
      /\ hits \in [LimitKey -> SUBSET (Nat \X Nat)]
      /\ tried' = Append(tried, a) /\ a \in Attempts
      /\ hits' = [hits EXCEPT ![k] = Kept(k) \cup now]
  <2>1. /\ tried \in Seq(Attempts) /\ clock \in Nat /\ Window \in Nat
        /\ hits \in [LimitKey -> SUBSET (Nat \X Nat)]
    BY LimiterAssumption DEF LimInv
  <2>2. ok \in BOOLEAN
    OBVIOUS
  <2>3. a \in Attempts
    <3> HIDE DEF ok
    <3> QED BY <2>1, <2>2 DEF Attempts
  <2>4. /\ clock' = clock /\ tried' = Append(tried, a)
        /\ hits' = [hits EXCEPT ![k] = Kept(k) \cup now]
    BY DEF Allow
  <2>5. \A q \in LimitKey : hits[q] \subseteq Nat \X Nat
    BY <2>1
  <2> QED BY <2>1, <2>3, <2>4, <2>5, LenProperties
<1>2. /\ tried' \in Seq(Attempts) /\ DOMAIN tried' = 1..n
      /\ \A j \in 1..Len(tried) : tried'[j] = tried[j]
      /\ tried'[n] = a
  BY <1>1, AppendProperties
<1>3. /\ tried'[n][1] = k /\ tried'[n][2] = clock /\ tried'[n][3] = ok
      /\ n \in Nat /\ n \in DOMAIN tried' /\ DOMAIN tried \subseteq DOMAIN tried'
      /\ \A j \in DOMAIN tried' : j \in DOMAIN tried \/ j = n
  BY <1>1, <1>2
<1>4. hits' \in [LimitKey -> SUBSET (Nat \X Nat)]
  <2>1. Kept(k) \cup now \in SUBSET (Nat \X Nat)
    BY <1>1, <1>3 DEF Kept
  <2> HIDE DEF now
  <2> QED BY <1>1, <2>1
<1>5. \A q \in LimitKey : Remembers(hits'[q], tried', q, clock')
  <2> SUFFICES ASSUME NEW q \in LimitKey
               PROVE  Remembers(hits'[q], tried', q, clock)
    BY <1>1
  <2>0. Remembers(hits[q], tried, q, clock)
    BY DEF LimInv
  <2>1. CASE q = k
    <3>1. hits'[q] = Kept(k) \cup now
      BY <1>1, <2>1
    <3>2. \A h \in Kept(k) : h \in hits[k]
      BY DEF Kept
    <3>3. ASSUME NEW h \in hits'[q]
          PROVE  /\ h[1] \in DOMAIN tried' /\ tried'[h[1]][1] = q /\ tried'[h[1]][3]
                 /\ h[2] = tried'[h[1]][2]
      <4>1. CASE h \in Kept(k)
        BY <1>1, <1>2, <1>3, <2>0, <2>1, <3>2, <4>1 DEF Remembers
      <4>2. CASE h \in now
        <5>1. ok /\ h = <<n, clock>>
          BY <4>2
        <5> HIDE DEF ok
        <5> QED BY <1>3, <5>1, <2>1
      <4> QED BY <3>1, <3>3, <4>1, <4>2
    <3>4. ASSUME NEW j \in DOMAIN tried', tried'[j][1] = q, tried'[j][3]
          PROVE  <<j, tried'[j][2]>> \in hits'[q] \/ tried'[j][2] + Window <= clock
      <4>1. CASE j \in DOMAIN tried
        <5>1. tried[j][2] \in Nat /\ tried'[j] = tried[j]
          BY <1>1, <1>2, <4>1, ElementOfSeq DEF Attempts
        <5>2. <<j, tried[j][2]>> \in hits[k] \/ tried[j][2] + Window <= clock
          BY <2>0, <2>1, <3>4, <4>1, <5>1 DEF Remembers
        <5>3. <<j, tried[j][2]>> \in hits[k] /\ ~(tried[j][2] + Window <= clock)
                => <<j, tried[j][2]>> \in Kept(k)
          BY <1>1, <5>1 DEF Kept
        <5> QED BY <3>1, <5>1, <5>2, <5>3
      <4>2. CASE j = n
        <5>1. ok
          BY <1>3, <3>4, <4>2
        <5>2. <<n, clock>> \in now
          BY <5>1
        <5> HIDE DEF ok, now
        <5> QED BY <1>3, <3>1, <4>2, <5>2
      <4> QED BY <1>3, <3>4, <4>1, <4>2
    <3> QED BY <3>3, <3>4 DEF Remembers
  <2>2. CASE q # k
    <3>1. hits'[q] = hits[q]
      BY <1>1, <2>2
    <3> QED BY <1>1, <1>2, <1>3, <2>0, <2>2, <3>1 DEF Remembers
  <2> QED BY <2>1, <2>2
<1>6. \A i \in DOMAIN tried' : FairAt(tried', i)
  <2> SUFFICES ASSUME NEW i \in DOMAIN tried'
               PROVE  FairAt(tried', i)
    OBVIOUS
  <2>1. Before(tried', i, tried'[i][1], tried'[i][2]) = Before(tried, i, tried'[i][1], tried'[i][2])
    BY <1>1, <1>2, BeforeIsFixed
  <2>2. CASE i \in DOMAIN tried
    BY <1>1, <1>2, <2>1, <2>2 DEF LimInv, FairAt
  <2>3. CASE i = n
    <3>1. Cardinality(Kept(k)) = Cardinality(Before(tried, n, k, clock))
      BY KeptAreCounted
    <3>2. Before(tried', n, k, clock) = Before(tried, n, k, clock)
      BY <1>3, <2>1, <2>3
    <3> QED BY <1>3, <2>3, <3>1, <3>2 DEF FairAt
  <2> QED BY <1>3, <2>2, <2>3
<1> QED BY <1>1, <1>2, <1>4, <1>5, <1>6 DEF LimInv

\* Time only makes attempts expire.
LEMMA TickKeeps ==
  ASSUME LimInv, Tick
  PROVE  LimInv'
<1>1. /\ clock' = clock + 1 /\ UNCHANGED <<hits, tried>>
      /\ clock \in Nat /\ Window \in Nat /\ tried \in Seq(Attempts)
      /\ \A j \in DOMAIN tried : tried[j][2] \in Nat
  BY ElementOfSeq, LenProperties, LimiterAssumption DEF LimInv, Tick, Attempts
<1>2. \A k \in LimitKey : Remembers(hits[k], tried, k, clock')
  <2> SUFFICES ASSUME NEW k \in LimitKey
               PROVE  Remembers(hits[k], tried, k, clock')
    OBVIOUS
  <2>1. Remembers(hits[k], tried, k, clock)
    BY DEF LimInv
  <2> QED BY <1>1, <2>1 DEF Remembers
<1>3. \A i \in DOMAIN tried : FairAt(tried, i)
  BY DEF LimInv
<1> QED BY <1>1, <1>2, <1>3 DEF LimInv

\* No window of any key admits more than the cap, and an attempt is refused only
\* when its window is full (limiter.go allow).
THEOREM LimitsAreFair == LimSpec => []LimiterFair
<1>1. LimInit => LimInv
  <2>1. <<>> \in Seq(Attempts) /\ DOMAIN <<>> = {}
    BY EmptySeq
  <2> QED BY <2>1 DEF LimInit, LimInv, Remembers
<1>2. LimInv /\ [LimNext]_limVars => LimInv'
  <2> SUFFICES ASSUME LimInv, [LimNext]_limVars
               PROVE  LimInv'
    OBVIOUS
  <2>1. CASE Tick
    BY <2>1, TickKeeps
  <2>2. ASSUME NEW k \in LimitKey, Allow(k)
        PROVE  LimInv'
    BY <2>2, AllowKeeps
  <2>3. CASE UNCHANGED limVars
    BY <2>3 DEF limVars, LimInv
  <2> QED BY <2>1, <2>2, <2>3 DEF LimNext
<1>3. LimInv => LimiterFair
  BY DEF LimInv, LimiterFair, FairAt, Before
<1> QED BY <1>1, <1>2, <1>3, PTL DEF LimSpec

(***************************************************************************)
(* The three together.                                                     *)
(***************************************************************************)

\* What carries an answer hands on, in order, what it was given up to the first end
\* it is told of, and makes no answer of pieces; who is turned away met a full
\* window (tunnel.go, readahead.go, limiter.go).
THEOREM CarriersHandOn == CarriersSpec => []HandedOn
<1>1. TunSpec => []ResponseIsWritten
  BY ResponsesAreWritten
<1>2. RaSpec => []StreamHandedOn
  BY NoByteIsLost
<1>3. LimSpec => []LimiterFair
  BY LimitsAreFair
<1>4. ResponseIsWritten /\ StreamHandedOn /\ LimiterFair => HandedOn
  BY DEF HandedOn
<1> QED BY <1>1, <1>2, <1>3, <1>4, PTL DEF CarriersSpec
=============================================================================
