-------------------------------- MODULE Tunnel --------------------------------
(* One HTTP request over one data channel (internal/remote/tunnel.go on the box, *)
(* frontend/js/api/tunnel.js in the browser).  A frame is two messages, a length *)
(* and a payload; a length of zero ends the body.  A chunk is longer than the    *)
(* four bytes of a length.                                                       *)
EXTENDS Naturals, Sequences

CONSTANTS
  Envelope,    \* what the first frame holds: subset of {"good", "bad_url", "not_json"}
  Status,      \* statuses a handler sets, above every chunk number
  MaxChunks    \* bound on the chunks a handler writes

ASSUME TunnelAssumption ==
  /\ MaxChunks \in Nat
  /\ Status \subseteq {s \in Nat: s > MaxChunks}

VARIABLES
  toBox,       \* messages on their way to the box
  toBrowser,   \* messages on their way to the browser; "shut" is the close event
  alive,          \* the data channel carries messages
  browser,     \* "opening", "head", "body", "resolved" or "failed"
  pending,     \* FrameReader.buf holds a length whose payload has not come
  got,         \* frames reassembled: the status, then the chunks
  box,         \* ServeConn: "read", "serve", "refuse", "finish", "end" or "closed"
  status,      \* dcResponseWriter.status
  wrote,       \* dcResponseWriter.wrote
  written,     \* chunks whose Write returned without an error
  emptyAt      \* history: the chunks before an empty Write, or Nowhere

tunVars == <<toBox, toBrowser, alive, browser, pending, got, box, status, wrote, written,
             emptyAt>>

Nowhere == MaxChunks + 1

TunInit ==
  /\ toBox = <<>> /\ toBrowser = <<>> /\ got = <<>>
  /\ alive = TRUE /\ pending = FALSE /\ wrote = FALSE
  /\ browser = "opening" /\ box = "read"
  /\ status = 200 /\ written = 0 /\ emptyAt = Nowhere

\* writeFrame: the length, then the payload.
Frame(x) == <<<<"length", x>>, <<"payload", x>>>>
EndFrame == <<<<"length", 0>>>>
Shut == <<"shut", 0>>

\* tunnelFetch: the channel is open, sendFrame sends the envelope.
Ask(e) ==
  /\ browser = "opening" /\ alive
  /\ browser' = "head"
  /\ toBox' = <<"length", e>>
  /\ UNCHANGED <<toBrowser, alive, pending, got, box, status, wrote, written, emptyAt>>

OpenTimesOut ==
  /\ browser = "opening"
  /\ browser' = "failed"
  /\ UNCHANGED <<toBox, toBrowser, alive, pending, got, box, status, wrote, written, emptyAt>>

\* ServeConn returns: the deferred Close follows whatever was sent.
BoxCloses ==
  /\ box' = "closed"
  /\ toBrowser' = IF alive THEN Append(toBrowser, Shut) ELSE toBrowser

\* readFrame and the request made of it; an envelope that is no JSON ends the
\* serving, a URL that does not parse is answered 400 without the handler.
BoxReads ==
  /\ box = "read" /\ toBox # <<>>
  /\ toBox' = Tail(toBox)
  /\ IF Head(toBox) = "length" THEN UNCHANGED <<box, status, toBrowser>>
     ELSE \/ /\ Head(toBox) = "not_json" /\ BoxCloses /\ UNCHANGED status
          \/ /\ Head(toBox) = "bad_url"
             /\ status' = 400 /\ box' = "refuse" /\ UNCHANGED toBrowser
          \/ /\ Head(toBox) = "good"
             /\ box' = "serve" /\ UNCHANGED <<status, toBrowser>>
  /\ UNCHANGED <<alive, browser, pending, got, wrote, written, emptyAt>>

\* reqReadTimeout, or the read fails because the channel is gone.
ReadFails ==
  /\ box = "read"
  /\ BoxCloses
  /\ UNCHANGED <<toBox, alive, browser, pending, got, status, wrote, written, emptyAt>>

WriteHeader(s) ==
  /\ box = "serve"
  /\ status' = IF wrote THEN status ELSE s
  /\ UNCHANGED <<toBox, toBrowser, alive, browser, pending, got, box, wrote, written, emptyAt>>

\* (A mutant: ensureEnvelope forgets that it has sent one.)
EnvelopeAlways == Frame(status)
EnvelopeFirst == IF wrote THEN <<>> ELSE Frame(status)

\* Writes reach the wire, vanish with a channel that is gone, or fail after some
\* of their messages: the peer is gone, or writeTimeout has passed.
Sends(messages) == toBrowser' = IF alive THEN toBrowser \o messages ELSE toBrowser
SendsPart(messages) ==
  \E k \in 0..(Len(messages) - 1): Sends(SubSeq(messages, 1, k))

\* A handler that writes more than once stops at the first error.
Write ==
  /\ box = "serve" /\ written < MaxChunks
  /\ wrote' = TRUE
  /\ \/ /\ Sends(EnvelopeFirst \o Frame(written + 1))
        /\ written' = written + 1
        /\ UNCHANGED box
     \/ /\ SendsPart(EnvelopeFirst \o Frame(written + 1))
        /\ box' = "finish"                    \* the handler gives up
        /\ UNCHANGED written
  /\ UNCHANGED <<toBox, alive, browser, pending, got, status, emptyAt>>

\* Write of no bytes (the tail of an empty log): its frame is an end frame.  One
\* is enough, the browser has stopped listening before a second.
WriteEmpty ==
  /\ box = "serve" /\ emptyAt = Nowhere
  /\ wrote' = TRUE
  /\ \/ /\ Sends(EnvelopeFirst \o EndFrame)
        /\ emptyAt' = written
        /\ UNCHANGED box
     \/ /\ SendsPart(EnvelopeFirst \o EndFrame)
        /\ box' = "finish"
        /\ UNCHANGED emptyAt
  /\ UNCHANGED <<toBox, alive, browser, pending, got, status, written>>

HandlerReturns ==
  /\ box = "serve"
  /\ box' = "finish"
  /\ UNCHANGED <<toBox, toBrowser, alive, browser, pending, got, status, wrote, written, emptyAt>>

\* The answer to a URL that does not parse: an error of finish is dropped.
RefuseRequest ==
  /\ box = "refuse"
  /\ wrote' = TRUE /\ box' = "end"
  /\ Sends(EnvelopeFirst) \/ SendsPart(EnvelopeFirst)
  /\ UNCHANGED <<toBox, alive, browser, pending, got, status, written, emptyAt>>

\* finish: the envelope of an empty response.  After a Write that failed nothing
\* is left to fail here, and the end frame follows.
FinishResponse ==
  /\ box = "finish"
  /\ wrote' = TRUE
  /\ \/ Sends(EnvelopeFirst) /\ box' = "end"
     \/ \E k \in 0..(Len(EnvelopeFirst) - 1):
          /\ box' = "closed"
          /\ toBrowser' = IF alive THEN toBrowser \o Append(SubSeq(EnvelopeFirst, 1, k), Shut)
                          ELSE toBrowser
  /\ UNCHANGED <<toBox, alive, browser, pending, got, status, written, emptyAt>>

\* The end frame, or its failure; either way the channel is closed.
EndResponse ==
  /\ box = "end"
  /\ box' = "closed"
  /\ \E sent \in {<<Shut>>, Append(EndFrame, Shut)}: Sends(sent)
  /\ UNCHANGED <<toBox, alive, browser, pending, got, status, wrote, written, emptyAt>>

\* The peer connection fails: what is in flight is lost in both directions.
Dropped ==
  /\ alive
  /\ alive' = FALSE
  /\ toBox' = <<>>
  /\ toBrowser' = <<Shut>>
  /\ UNCHANGED <<browser, pending, got, box, status, wrote, written, emptyAt>>

\* FrameReader.push and tunnelFetch: a payload completes a frame, a length that
\* lands inside an unfinished frame is taken for a piece of it, an end frame ends
\* the body, or is no answer at all where the status should be.
Receive ==
  /\ browser \in {"head", "body"} /\ toBrowser # <<>>
  /\ toBrowser' = Tail(toBrowser)
  /\ LET m == Head(toBrowser)
     IN  \/ /\ m = Shut
            /\ browser' = "failed"
            /\ UNCHANGED <<pending, got>>
         \/ /\ m[1] = "payload"
            /\ pending' = FALSE
            /\ got' = Append(got, m[2])
            /\ browser' = "body"
         \/ /\ m = EndFrame[1] /\ ~pending
            /\ browser' = IF browser = "head" THEN "failed" ELSE "resolved"
            /\ UNCHANGED <<pending, got>>
         \/ /\ m[1] = "length" /\ (pending \/ m # EndFrame[1])
            /\ pending' = TRUE
            /\ UNCHANGED <<browser, got>>
  /\ UNCHANGED <<toBox, alive, box, status, wrote, written, emptyAt>>

TunNext ==
  \/ \E e \in Envelope: Ask(e)
  \/ OpenTimesOut \/ BoxReads \/ ReadFails
  \/ \E s \in Status: WriteHeader(s)
  \/ Write \/ WriteEmpty \/ HandlerReturns \/ RefuseRequest \/ FinishResponse \/ EndResponse \/ Dropped \/ Receive

TunSpec == TunInit /\ [][TunNext]_tunVars

-----------------------------------------------------------------------------
(* Properties. *)

\* What the browser takes for the body: the chunks before the first end frame.
Told == IF emptyAt = Nowhere THEN written ELSE emptyAt

\* A Response the browser resolves has the status in force at the handler's first
\* write and, in order and each as it was written, the chunks whose Write succeeded
\* before the first end frame: an empty Write sends one (tunnel.go:155-164), and so
\* does ServeConn after a Write that failed (236-239), of which the browser is told
\* nothing.  A frame cut in two and a channel that closes early never make a
\* Response, although a close follows every whole one.
ResponseIsWritten ==
  browser = "resolved" =>
    /\ got # <<>>
    /\ Head(got) = status
    /\ Tail(got) = [i \in 1..Told |-> i]
=============================================================================
