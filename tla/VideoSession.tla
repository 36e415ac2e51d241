---- MODULE VideoSession ----
(***************************************************************************)
(* The video of one viewer: the relay's frame queue and pusher             *)
(* (flux-web/upstream.go), one QUIC stream per frame, and the browser's    *)
(* sequencer, decode chain and keyframe requests                           *)
(* (ui/lib/webtransport-client.ts).  The host is a source of frames that   *)
(* answers an IDR request with a keyframe sooner or later; losses on the   *)
(* way to the relay are not modelled here.                                 *)
(***************************************************************************)
EXTENDS FrameSequencer

CONSTANTS
  QueueLimit,     \* capacity of frameChan, 120 in the code
  Window,         \* bound on the span of the sequence numbers alive at a time
  MaxFaults       \* bound on overflows, resets, decoder trouble and tab switches

\* The window keeps the numbers alive within half the number space; the code
\* relies on 2^31 frames not fitting into the gap timeout.
ASSUME SessionAssumption ==
  /\ QueueLimit \in Nat \ {0}
  /\ Window \in Nat \ {0} /\ MaxFaults \in Nat
  /\ 2 * (Window - 1) + MaxFaults < Modulus \div 2

VARIABLES
  \* the relay
  frameChan,      \* machineUpstream.frameChan: TRUE for an IDR frame
  needsIDR,       \* Session.needsIDR
  gateOpen,       \* idrRequestGate would allow a request
  asked,          \* an IDR request is on its way to, or at, the encoder
  nextSequence,   \* Session.nextSequence
  \* the network
  streams,        \* frame streams on their way: whole, or reset by the relay
  request,        \* a keyframe-request is on its way to the relay
  \* the browser
  sq,             \* the FrameSequencer
  waiting,        \* waitingForKeyframe
  hidden,         \* the tab is hidden
  askOpen,        \* 500 ms have passed since lastKeyframeRequest
  decodeChain,    \* frames accepted and not yet given to the decoder
  reference,      \* the last frame given to the decoder, NoSeq without a decoder
  faults

relay == <<frameChan, needsIDR, nextSequence>>
upward == <<gateOpen, asked>>
browser == <<sq, waiting, hidden, decodeChain, reference>>
asking == <<request, askOpen>>
vars == <<relay, upward, streams, browser, asking, faults>>

\* Every part of the relay's queue, the streams on their way, the browser's
\* buffer and the keyframe request has its type.
TypeOK ==
  /\ frameChan \in Seq(BOOLEAN) /\ Len(frameChan) <= QueueLimit
  /\ {needsIDR, gateOpen, asked, request} \subseteq BOOLEAN
  /\ {waiting, hidden, askOpen} \subseteq BOOLEAN
  /\ nextSequence \in Seqs
  /\ reference \in Seqs \cup {NoSeq}
  /\ streams \subseteq [frame : Frames, whole : BOOLEAN]
  /\ sq \in Sequencers /\ Cardinality(sq.buffered) <= MaxBuffered
  /\ decodeChain \in Seq(Frames)
  /\ faults \in 0 .. MaxFaults

\* handleWebTransport has bound the session, stored needsIDR and asked for the
\* session's first IDR.  The pusher saw the session between the first two, and
\* may have sent it a frame.
Init ==
  /\ frameChan = <<>> /\ needsIDR = TRUE
  /\ gateOpen = FALSE /\ asked = TRUE
  /\ \/ nextSequence = 0 /\ streams = {}
     \/ nextSequence = 1 /\ \E key \in BOOLEAN :
          streams = {[frame |-> [seq |-> 0, key |-> key], whole |-> TRUE]}
  /\ request = FALSE
  /\ sq = NewSequencer /\ waiting = TRUE /\ hidden = FALSE /\ askOpen = TRUE
  /\ decodeChain = <<>> /\ reference = NoSeq
  /\ faults = 0

Fault == faults < MaxFaults /\ faults' = faults + 1
FaultIf(trouble) == IF trouble THEN Fault ELSE UNCHANGED faults

---------------------------------------------------------------------------
(* The relay *)

\* sendIDRRequest: at most one request every idrRequestInterval.
RequestIDR ==
  /\ asked' = (asked \/ gateOpen)
  /\ gateOpen' = FALSE

GateReopens ==
  /\ ~gateOpen /\ gateOpen' = TRUE
  /\ UNCHANGED <<relay, asked, streams, browser, asking, faults>>

\* The host encodes a frame; dispatchFrame queues it.
HostSends(idr) ==
  /\ Len(frameChan) < QueueLimit
  /\ frameChan' = Append(frameChan, idr)
  /\ asked' = (asked /\ ~idr)
  /\ UNCHANGED <<needsIDR, nextSequence, gateOpen, streams, browser, asking, faults>>

\* queueFrame when the queue is full: the oldest frame goes, and dispatchFrame
\* asks for an IDR.
Overflow(idr) ==
  /\ Len(frameChan) = QueueLimit /\ Fault
  /\ frameChan' = Append(Tail(frameChan), idr)
  /\ asked' = (gateOpen \/ (asked /\ ~idr)) /\ gateOpen' = FALSE
  /\ UNCHANGED <<needsIDR, nextSequence, streams, browser, asking>>

\* latestFrame: the newest IDR frame of the queue, or its newest frame.
LatestFrame(q) == \E i \in 1 .. Len(q) : q[i]

Live ==
  {f.seq : f \in sq.buffered \cup Range(decodeChain)} \cup {s.frame.seq : s \in streams}

InWindow == \A seq \in Live : Distance(nextSequence, seq) < Window

\* framePusher and nextFrame, up to the write.  late: the frame has waited longer than
\* maxRelayBacklog, so the pusher skips ahead if others are queued.
\* skipFrameUntilIDR: after a drop, deltas are held back until an IDR.
NextFrame(late) ==
  LET stale == late /\ Len(frameChan) > 1
      idr == IF stale THEN LatestFrame(frameChan) ELSE Head(frameChan)
  IN  [idr |-> idr, stale |-> stale,
       rest |-> IF stale THEN <<>> ELSE Tail(frameChan),
       hold |-> (needsIDR \/ stale) /\ ~idr]

\* Mutant: frames are held back without asking.
HoldFrameSilently(late) ==
  /\ frameChan # <<>> /\ NextFrame(late).hold
  /\ frameChan' = NextFrame(late).rest
  /\ needsIDR' = TRUE
  /\ UNCHANGED <<nextSequence, upward, streams, browser, asking, faults>>

\* The frame is released, and an IDR asked for.
HoldFrame(late) ==
  /\ frameChan # <<>> /\ NextFrame(late).hold
  /\ frameChan' = NextFrame(late).rest
  /\ needsIDR' = TRUE /\ RequestIDR
  /\ UNCHANGED <<nextSequence, streams, browser, asking, faults>>

\* writeFrame: a stream of its own, under the next sequence number.
Write(idr, whole) ==
  /\ InWindow
  /\ streams' = streams \cup {[frame |-> [seq |-> nextSequence, key |-> idr], whole |-> whole]}
  /\ nextSequence' = Succ(nextSequence)

\* An IDR ends the wait.  After a skip-ahead that found one, the request for
\* another goes out all the same.
WriteFrame(late) ==
  LET next == NextFrame(late) IN
  /\ frameChan # <<>> /\ ~next.hold
  /\ frameChan' = next.rest
  /\ needsIDR' = FALSE
  /\ Write(next.idr, TRUE)
  /\ IF next.stale THEN RequestIDR ELSE UNCHANGED upward
  /\ UNCHANGED <<browser, asking, faults>>

\* shouldResetFrame: a delta that takes too long is cut off if others are
\* queued by then.
ResetFrame ==
  LET next == NextFrame(FALSE) IN
  /\ Len(frameChan) > 1 /\ ~next.hold /\ ~next.idr /\ Fault
  /\ frameChan' = next.rest
  /\ Write(FALSE, FALSE)
  /\ needsIDR' = TRUE /\ RequestIDR
  /\ UNCHANGED <<browser, asking>>

\* handleControlMessage, "keyframe-request".
KeyframeRequested ==
  /\ request /\ request' = FALSE
  /\ needsIDR' = TRUE /\ RequestIDR
  /\ UNCHANGED <<frameChan, nextSequence, streams, browser, askOpen, faults>>

---------------------------------------------------------------------------
(* The browser *)

\* requestKeyframeIfAllowed
RequestKeyframe ==
  IF hidden \/ ~askOpen THEN UNCHANGED asking ELSE request' = TRUE /\ askOpen' = FALSE

AskReopens ==
  /\ ~askOpen /\ askOpen' = TRUE
  /\ UNCHANGED <<relay, upward, streams, request, browser, faults>>

\* keyframeNudgeInterval runs until the first frame is shown; here, also when
\* the decoder is gone.
Nudge ==
  /\ reference = NoSeq /\ askOpen /\ ~hidden
  /\ RequestKeyframe
  /\ UNCHANGED <<relay, upward, streams, browser, faults>>

\* Mutant: a frame refused for backlog does not make the client wait.
AcceptAfterBacklog(acc, f, backlog) ==
  IF ~f.key /\ (acc.waiting \/ backlog)
  THEN [acc EXCEPT !.ask = TRUE]
  ELSE [acc EXCEPT !.waiting = @ /\ ~f.key, !.chain = Append(@, f)]

\* One ready frame of acceptSequence; backlog: the decoder's queue is too long.
Accept(acc, f, backlog) ==
  IF ~f.key /\ (acc.waiting \/ backlog)
  THEN [acc EXCEPT !.waiting = TRUE, !.ask = TRUE]
  ELSE [acc EXCEPT !.waiting = @ /\ ~f.key, !.chain = Append(@, f)]

\* acceptSequence
AcceptSequence(res, backlog) ==
  LET start == [waiting |-> waiting \/ res.ask, chain |-> decodeChain, ask |-> res.ask]
      end == FoldLeft(LAMBDA acc, f : Accept(acc, f, backlog), start, res.ready)
  IN
  /\ sq' = res.sq
  /\ waiting' = (hidden \/ end.waiting)
  /\ decodeChain' = IF hidden THEN decodeChain ELSE end.chain
  /\ IF end.ask THEN RequestKeyframe ELSE UNCHANGED asking
  /\ backlog => reference # NoSeq
  /\ UNCHANGED <<relay, upward, hidden, reference>>

\* readMetadataStream: the frame is whole.
Receive(s, backlog) ==
  /\ s.whole /\ streams' = streams \ {s}
  /\ AcceptSequence(Push(sq, s.frame), backlog)
  /\ FaultIf(backlog)

\* readMetadataStream: the stream was reset after its header was read ...
ReceiveLost(s) ==
  /\ ~s.whole /\ streams' = streams \ {s}
  /\ AcceptSequence(MarkLost(sq, s.frame.seq), FALSE)
  /\ UNCHANGED faults

\* ... or before: the browser cannot tell which frame it was.
ReceiveUnknown(s) ==
  /\ ~s.whole /\ streams' = streams \ {s}
  /\ UNCHANGED <<relay, upward, browser, asking, faults>>

\* sequenceInterval, 25 ms: time is up for a gap, or for frames that wait for the
\* first keyframe.  It is a fault if a frame is still on its way by then.
ExpireGap(old, backlog) ==
  /\ IF Started(sq) THEN sq.gap /\ old = {} ELSE old # {}
  /\ FaultIf(backlog \/ (Started(sq) /\ \E s \in streams : s.whole))
  /\ UNCHANGED streams
  /\ AcceptSequence(Expire(sq, old), backlog)

\* handleDecoderError
DecoderError ==
  /\ reference' = NoSeq /\ waiting' = TRUE
  /\ RequestKeyframe

\* decodeFrame; a keyframe first configures a decoder if there is none.
DecodeFrame ==
  LET f == Head(decodeChain) IN
  /\ decodeChain # <<>> /\ decodeChain' = Tail(decodeChain)
  /\ \/ /\ reference # NoSeq \/ f.key
        /\ reference' = f.seq
        /\ UNCHANGED <<waiting, asking, faults>>
     \/ /\ reference = NoSeq /\ ~f.key
        /\ RequestKeyframe
        /\ UNCHANGED <<waiting, reference, faults>>
     \/ /\ f.key /\ Fault                     \* configureDecoder failed
        /\ DecoderError
  /\ UNCHANGED <<relay, upward, streams, sq, hidden>>

\* The decoder reports an error on its own.
DecoderFails ==
  /\ reference # NoSeq /\ Fault
  /\ DecoderError
  /\ UNCHANGED <<relay, upward, streams, sq, hidden, decodeChain>>

\* updateVisibility
Hide ==
  /\ ~hidden /\ Fault
  /\ hidden' = TRUE /\ waiting' = TRUE
  /\ UNCHANGED <<relay, upward, streams, asking, sq, decodeChain, reference>>

Show ==
  /\ hidden
  /\ hidden' = FALSE /\ waiting' = TRUE
  /\ sq' = NewSequencer
  /\ request' = TRUE /\ askOpen' = FALSE
  /\ UNCHANGED <<relay, upward, streams, decodeChain, reference, faults>>

Next ==
  \/ GateReopens \/ KeyframeRequested
  \/ \E idr \in BOOLEAN : HostSends(idr) \/ Overflow(idr)
  \/ \E late \in BOOLEAN : HoldFrame(late) \/ WriteFrame(late)
  \/ ResetFrame
  \/ AskReopens \/ Nudge
  \/ \E s \in streams : ReceiveLost(s) \/ ReceiveUnknown(s)
  \/ \E s \in streams, backlog \in BOOLEAN : Receive(s, backlog)
  \/ \E old \in SUBSET sq.buffered, backlog \in BOOLEAN : ExpireGap(old, backlog)
  \/ DecodeFrame \/ DecoderFails \/ Hide \/ Show

Spec == Init /\ [][Next]_vars

\* Goroutines and the browser's event loop keep running, timers fire, streams
\* arrive; frames keep coming, and an asked encoder gets to emit its IDR.  The
\* user need not come back to a hidden tab.  (The last three name the event, not
\* the action: a stream arrives, a frame is decoded, the buffer is expired.)
Fairness ==
  /\ WF_vars(GateReopens) /\ WF_vars(KeyframeRequested) /\ WF_vars(AskReopens)
  /\ WF_vars(HostSends(FALSE)) /\ SF_vars(asked /\ HostSends(TRUE))
  /\ WF_vars(\E late \in BOOLEAN : HoldFrame(late) \/ WriteFrame(late))
  /\ WF_streams(\E s \in streams : streams' = streams \ {s})
  /\ WF_decodeChain(decodeChain # <<>> /\ decodeChain' = Tail(decodeChain))
  /\ []<>(sq.buffered = {})

FairSpec == Spec /\ Fairness

---------------------------------------------------------------------------
(* Properties *)

\* A decoder is only ever given a keyframe, or the very next frame after the
\* one it was given last: whatever was reordered, reset, refused for backlog,
\* lost with a failed decoder or skipped while hidden, no delta is decoded
\* against the wrong reference (frame-sequencer.ts, acceptSequence).
DecodesInSequence ==
  [][reference' \notin {reference, NoSeq} =>
       Head(decodeChain).key \/ (reference # NoSeq /\ reference' = Succ(reference))]_vars

\* Whatever is buffered is ahead of the frame expected next, across the wrap of
\* the sequence numbers, and the gap timer runs: no frame is stuck in the
\* buffer, and giving up a gap never moves the sequence backwards.
BufferIsAhead ==
  Started(sq) /\ sq.buffered # {} =>
    /\ sq.gap
    /\ \A f \in sq.buffered : f.seq # sq.expected /\ ~Behind(f.seq, sq.expected)

\* The reorder buffer is bounded, and ahead of the sequence.
VideoSafe == TypeOK /\ BufferIsAhead

\* A viewer that waits for a keyframe gets one, although both rate limits (the
\* browser's and the relay's) swallow requests: whoever still lacks the
\* keyframe asks again.
ViewerRecovers == (waiting /\ ~hidden) ~> (~waiting \/ hidden)
====
