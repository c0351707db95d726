------------------------------ MODULE FeedServer ------------------------------
(***************************************************************************)
(* The HTTP feed: a reading goroutine fills a bounded channel, and the     *)
(* consumers' GET /next and GET /batch take from it.  It serves a capture  *)
(* (replay-engine --serve) or, inside the k6 engine, the stream of the     *)
(* host through the feed bridge.  The pacing of the original timing only   *)
(* delays the reader.                                                      *)
(***************************************************************************)
EXTENDS Sharding

CONSTANTS
    Consumers,          \* the HTTP clients, e.g. the VUs of k6
    FeedBuffer,         \* BufferSize of the channel
    FeedBatch,          \* the n of GET /batch, after clamping to 1 .. 1000
    MaxAcks             \* bound on what clients acknowledge

ASSUME FeedAssumption ==
    FeedBuffer > 0 /\ FeedBatch \in 1 .. 1000 /\ MaxAcks \in Nat

VARIABLES
    source,             \* "capture" or "bridge"
    feedPos,            \* how many requests Next has returned
    feeder,             \* [pc, hand]: readLoop and the request it is about to push
    feedErr,            \* readErr is set
    feedCh,             \* reqCh
    done,               \* close(s.done) and the cancelled inner context
    server,             \* "up", "stopping", "stopped"
    call,               \* [Consumers -> [pc, n, live]]: the handler of the consumer's call,
                        \* the length of its batch, and whether the client still waits
    told,               \* [Consumers -> what ended its feed: "none", "gone" or "error"]
    taken,              \* what left the channel, in order: s.served counts it
    acked               \* s.acked

readerVars == <<source, feedPos, feeder, feedErr>>
callVars == <<call, told, taken>>
feedVars == <<readerVars, feedCh, done, server, callVars, acked>>

NoCall == [pc |-> "none", n |-> 0, live |-> FALSE]

\* NewFeedServer and Start: the reader is open, the loop runs, the listener is up.
FeedInit ==
    /\ source \in {"capture", "bridge"}
    /\ feedPos = 0 /\ feeder = [pc |-> "next", hand |-> <<>>] /\ feedErr = FALSE
    /\ feedCh = <<>> /\ done = FALSE /\ server = "up"
    /\ call = [c \in Consumers |-> NoCall] /\ told = [c \in Consumers |-> "none"]
    /\ taken = <<>> /\ acked = 0

-----------------------------------------------------------------------------
(***************************************************************************)
(* readLoop.                                                               *)
(***************************************************************************)
FeedReturn(err) ==
    /\ feeder' = [pc |-> "closing", hand |-> <<>>]
    /\ feedErr' = err
    /\ UNCHANGED feedPos

\* What the reader returns at its end: the capture readers ErrReaderDone, the bridge
\* io.EOF, which is not ErrReaderDone.
EndIsError == source = "bridge"

FeedReadSilent ==               \* mutant: a reader's error is not stored
    /\ feeder.pc = "next"
    /\ \/ feedPos < Len(Capture) /\ FeedReturn(FALSE)
       \/ /\ feedPos < Len(Capture)
          /\ feedPos' = feedPos + 1
          /\ feeder' = [pc |-> "push", hand |-> <<Capture[feedPos + 1]>>]
          /\ feedErr' = feedErr
    /\ UNCHANGED <<source, feedCh, done, server, callVars, acked>>

\* A turn of the loop up to the send.  Next fails when the storage does, when the stream
\* behind the bridge breaks, or when Stop cancels its context; any error but ErrReaderDone
\* is stored.
FeedRead ==
    /\ feeder.pc = "next"
    /\ \/ done /\ FeedReturn(feedErr)
       \/ feedPos = Len(Capture) /\ FeedReturn(EndIsError)
       \/ FeedReturn(TRUE)
       \/ /\ feedPos < Len(Capture)
          /\ feedPos' = feedPos + 1
          /\ feeder' = [pc |-> "push", hand |-> <<Capture[feedPos + 1]>>]
          /\ feedErr' = feedErr
    /\ UNCHANGED <<source, feedCh, done, server, callVars, acked>>

\* The delay and the send, both giving up when Stop was called.
FeedPush ==
    /\ feeder.pc = "push"
    /\ \/ done /\ FeedReturn(feedErr) /\ feedCh' = feedCh
       \/ /\ Len(feedCh) < FeedBuffer
          /\ feedCh' = feedCh \o feeder.hand
          /\ feeder' = [pc |-> "next", hand |-> <<>>]
          /\ UNCHANGED <<feedPos, feedErr>>
    /\ UNCHANGED <<source, done, server, callVars, acked>>

\* The deferred function: readerDone, then close(reqCh).
FeedClose ==
    /\ feeder.pc = "closing"
    /\ feeder' = [feeder EXCEPT !.pc = "closed"]
    /\ UNCHANGED <<source, feedPos, feedErr, feedCh, done, server, callVars, acked>>

-----------------------------------------------------------------------------
(***************************************************************************)
(* The handlers.                                                           *)
(***************************************************************************)
\* A consumer stops asking once it is told the feed is gone (script.js, refill).
Call(c, kind) ==
    /\ server = "up" /\ call[c].pc = "none" /\ told[c] # "gone"
    /\ call' = [call EXCEPT ![c] = [pc |-> kind, n |-> 0, live |-> TRUE]]
    /\ UNCHANGED <<readerVars, feedCh, done, server, told, taken, acked>>

\* The handler ends.
Answered(c) == call' = [call EXCEPT ![c] = NoCall]

\* One request leaves the channel.
TakeOne ==
    /\ feedCh # <<>>
    /\ feedCh' = Tail(feedCh) /\ taken' = Append(taken, Head(feedCh)) /\ told' = told

\* The channel is closed and empty: 500 after an error of the reader, 410 otherwise.
TellEnd(c) ==
    /\ feedCh = <<>> /\ feeder.pc = "closed"
    /\ told' = [told EXCEPT ![c] = IF feedErr THEN "error" ELSE "gone"]
    /\ UNCHANGED <<feedCh, taken>>

\* handleNext: the channel and the client's context race in one select.
HandleNext(c) ==
    /\ call[c].pc = "next" /\ Answered(c)
    /\ \/ TakeOne
       \/ TellEnd(c)
       \/ ~call[c].live /\ UNCHANGED <<feedCh, taken, told>>
    /\ UNCHANGED <<readerVars, done, server, acked>>

\* collectBatch: it blocks for the first request, whatever the client does ...
BatchFirst(c) ==
    /\ call[c].pc = "batch"
    /\ \/ TakeOne /\ call' = [call EXCEPT ![c].pc = "more", ![c].n = 1]
       \/ TellEnd(c) /\ Answered(c)
    /\ UNCHANGED <<readerVars, done, server, acked>>

\* ... and takes what is there after that, up to n.
BatchMore(c) ==
    /\ call[c].pc = "more"
    /\ IF feedCh # <<>> /\ call[c].n < FeedBatch
       THEN TakeOne /\ call' = [call EXCEPT ![c].n = @ + 1]
       ELSE Answered(c) /\ UNCHANGED <<feedCh, taken, told>>
    /\ UNCHANGED <<readerVars, done, server, acked>>

\* A client gives up: its request's context is cancelled.  What its handler takes is lost.
Disconnect(c) ==
    /\ call[c].live
    /\ call' = [call EXCEPT ![c].live = FALSE]
    /\ UNCHANGED <<readerVars, feedCh, done, server, told, taken, acked>>

\* handleAck adds a count that is not negative, whatever was served.
Ack(n) ==
    /\ server = "up" /\ acked + n <= MaxAcks
    /\ acked' = acked + n
    /\ UNCHANGED <<readerVars, feedCh, done, server, callVars>>

-----------------------------------------------------------------------------
(***************************************************************************)
(* Stop: it unblocks the reader, then waits for the handlers.  The 10 s of *)
(* its context are never what ends the wait here.                          *)
(***************************************************************************)
Stop ==
    /\ server = "up"
    /\ server' = "stopping" /\ done' = TRUE
    /\ UNCHANGED <<readerVars, feedCh, callVars, acked>>

Shutdown ==
    /\ server = "stopping"
    /\ \A c \in Consumers : call[c].pc = "none"
    /\ server' = "stopped"
    /\ UNCHANGED <<readerVars, feedCh, done, callVars, acked>>

FeederStep == FeedRead \/ FeedPush \/ FeedClose
HandlerStep(c) == HandleNext(c) \/ BatchFirst(c) \/ BatchMore(c)

FeedNext ==
    \/ FeederStep \/ Stop \/ Shutdown
    \/ \E c \in Consumers :
          Call(c, "next") \/ Call(c, "batch") \/ HandlerStep(c) \/ Disconnect(c)
    \/ \E n \in 0 .. MaxAcks : Ack(n)

-----------------------------------------------------------------------------
(***************************************************************************)
(* Properties.                                                             *)
(***************************************************************************)
\* The type invariant of the feed server's state.
FeedTypeOK ==
    /\ source \in {"capture", "bridge"} /\ feedPos \in 0 .. Len(Capture)
    /\ feeder.pc \in {"next", "push", "closing", "closed"} /\ Len(feeder.hand) <= 1
    /\ Len(feedCh) <= FeedBuffer
    /\ feedErr \in BOOLEAN /\ done \in BOOLEAN /\ server \in {"up", "stopping", "stopped"}
    /\ \A c \in Consumers :
          /\ call[c].pc \in {"none", "next", "batch", "more"}
          /\ call[c].n <= FeedBatch /\ told[c] \in {"none", "gone", "error"}
    /\ acked \in 0 .. MaxAcks

\* Concurrent /next and /batch calls split the feed: what left the channel, what is in
\* it and what the loop holds are together the requests read so far, in the order of the
\* capture, none twice; a stop may only cut the end off.
FeedSplit ==
    LET inFlight == taken \o feedCh \o feeder.hand
    IN  /\ \E n \in 0 .. Len(Capture) : inFlight = SubSeq(Capture, 1, n)
        /\ ~done => Len(inFlight) = feedPos

\* A consumer is told "replay complete" (410) only when every request has been taken, or
\* the server was stopped: an error of the reader is stored before the channel closes.
GoneMeansExhausted ==
    \A c \in Consumers : told[c] = "gone" => done \/ taken = Capture

\* Each request of the capture leaves the channel once, to one handler (whose client may be
\* gone by then), and no consumer is told that the replay is complete before.
FeedExact == FeedSplit /\ GoneMeansExhausted

\* A consumer whose call waits gets an answer: by a request, by the end of the feed, by
\* the reader's error or by the stop (the loop always closes the channel).
CallsAnswered ==
    \A c \in Consumers : []<>(call[c].pc = "none")
=============================================================================
