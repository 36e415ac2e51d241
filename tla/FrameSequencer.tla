---- MODULE FrameSequencer ----
(***************************************************************************)
(* The browser's reorder buffer (ui/lib/frame-sequencer.ts).  Every video  *)
(* frame travels on a QUIC stream of its own, so frames arrive in any      *)
(* order and some never do; the sequencer hands them to the decoder in     *)
(* sequence, or gives up on a gap and waits for a keyframe.                *)
(*                                                                         *)
(* A frame is its sequence number and whether it is a keyframe.  A         *)
(* sequencer is a record: the number `expected' next (NoSeq before the     *)
(* first keyframe), whether it waits for a keyframe, whether the gap timer *)
(* runs, and the frames buffered ahead of the gap.  An operation returns   *)
(* the sequencer after it, the frames that became ready, and whether to    *)
(* ask for a keyframe; drop counts are statistics and are left out.        *)
(***************************************************************************)
EXTENDS Integers, FiniteSets, Sequences, SequencesExt

CONSTANTS
  Modulus,        \* sequence numbers wrap at this; 2^32 in the code
  MaxBuffered     \* maxBufferedFrames, 256 in the code

ASSUME SequencerAssumption ==
  /\ Modulus \in Nat \ {0} /\ Modulus % 2 = 0
  /\ MaxBuffered \in Nat \ {0}

Seqs == 0 .. Modulus - 1
NoSeq == -1
Frames == [seq : Seqs, key : BOOLEAN]

Succ(seq) == (seq + 1) % Modulus

\* sequenceDistance: how far seq is ahead of expected.
Distance(seq, expected) == (seq - expected) % Modulus

\* Half the number space is "ahead", the other half "behind".
Behind(seq, expected) == Distance(seq, expected) >= Modulus \div 2

NewSequencer == [expected |-> NoSeq, waiting |-> TRUE, gap |-> FALSE, buffered |-> {}]

Sequencers == [expected : Seqs \cup {NoSeq}, waiting : BOOLEAN, gap : BOOLEAN, buffered : SUBSET Frames]

Result(sq) == [sq |-> sq, ready |-> <<>>, ask |-> FALSE]
Asking(res) == [res EXCEPT !.ask = TRUE]
Buffer(sq, f) == [sq EXCEPT !.buffered = {g \in @ : g.seq # f.seq} \cup {f}]

\* consume: the frame whose turn it is goes to the decoder, unless it is a
\* delta and its reference was given up.
Consume(res, f) ==
  LET sq == [res.sq EXCEPT !.expected = Succ(f.seq), !.buffered = @ \ {f}] IN
  IF res.sq.waiting /\ ~f.key
  THEN [res EXCEPT !.sq = sq, !.ask = TRUE]
  ELSE [res EXCEPT !.sq = [sq EXCEPT !.waiting = @ /\ ~f.key], !.ready = Append(@, f)]

\* Buffered frames, nearest first.
InOrder(sq) ==
  SetToSortSeq(sq.buffered, LAMBDA f, g : Distance(f.seq, sq.expected) < Distance(g.seq, sq.expected))

\* The buffered frames that follow `expected' without a hole.
Contiguous(sq) ==
  SelectSeq(InOrder(sq), LAMBDA f :
    \A d \in 0 .. Distance(f.seq, sq.expected) :
      \E g \in sq.buffered : Distance(g.seq, sq.expected) = d)

\* drain: and the gap timer keeps running only while something is buffered.
Drain(res) ==
  LET end == FoldLeft(Consume, res, Contiguous(res.sq))
  IN  [end EXCEPT !.sq.gap = end.sq.buffered # {}]

\* Mutant: what is buffered behind the keyframe is forgotten there.
RestartKeepsBehind(sq, f) ==
  [expected |-> f.seq, waiting |-> FALSE, gap |-> FALSE,
   buffered |-> {g \in sq.buffered : g.seq # f.seq}]

\* A keyframe restarts the sequence at itself: what is buffered behind it goes.
Restart(sq, f) ==
  [expected |-> f.seq, waiting |-> FALSE, gap |-> FALSE,
   buffered |-> {g \in sq.buffered : g.seq # f.seq /\ ~Behind(g.seq, f.seq)}]

Started(sq) == sq.expected # NoSeq

\* push: a whole frame arrived.
Push(sq, f) ==
  IF Started(sq) /\ Behind(f.seq, sq.expected) THEN Result(sq)
  ELSE IF f.key THEN Drain(Consume(Result(Restart(sq, f)), f))
  ELSE IF f.seq = sq.expected THEN Drain(Consume(Result(sq), f))
  ELSE IF Cardinality(sq.buffered) >= MaxBuffered THEN Asking(Result(sq))
  ELSE Result([Buffer(sq, f) EXCEPT !.gap = @ \/ Started(sq)])

\* markLost: the stream of frame seq was reset after its header had arrived.
MarkLost(sq, seq) ==
  IF ~Started(sq) THEN Asking(Result(sq))
  ELSE IF Behind(seq, sq.expected) THEN Result(sq)
  ELSE IF seq # sq.expected THEN Result([sq EXCEPT !.gap = TRUE])
  ELSE Drain(Asking(Result([sq EXCEPT !.expected = Succ(seq), !.waiting = TRUE])))

\* One round of expire's loop: a frame past a gap gives the gap up.
GiveUpTo(res, f) ==
  Consume(IF f.seq = res.sq.expected \/ Behind(f.seq, res.sq.expected) THEN res
          ELSE Asking([res EXCEPT !.sq.expected = f.seq, !.sq.waiting = TRUE]), f)

\* expire: before the first keyframe the frames that waited too long (old) go;
\* after it, a gap that lasted too long is given up.
Expire(sq, old) ==
  IF ~Started(sq)
  THEN Asking(Result([sq EXCEPT !.buffered = @ \ old]))
  ELSE [FoldLeft(GiveUpTo, Result(sq), InOrder(sq)) EXCEPT !.sq.gap = FALSE]
====
