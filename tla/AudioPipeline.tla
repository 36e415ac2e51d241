---------------------------- MODULE AudioPipeline ----------------------------
(***************************************************************************)
(* Desktop audio: a PipeWire thread feeds a bounded queue                  *)
(* (flux-audio/src/capture/pipewire.rs) that drops its oldest buffer; the  *)
(* audio thread (flux-server/src/audio.rs) cuts what it takes into frames  *)
(* (framer.rs), encodes them (encoder.rs) and broadcasts the packets.      *)
(*                                                                         *)
(* A sample (one per channel) is the number of its position in what the    *)
(* sink played, which is also its capture time.                            *)
(***************************************************************************)
EXTENDS Integers, Sequences

CONSTANTS
  BufferSizes,   \* samples of one PipeWire buffer; 0 is a partial frame
  FrameSamples,  \* samples of one Opus frame
  QueueCap,      \* QUEUE_CAP
  MaxSamples     \* bound: samples that the sink plays

ASSUME AudioAssumption ==
  /\ BufferSizes \subseteq Nat
  /\ FrameSamples \in Nat \ {0}
  /\ QueueCap \in Nat /\ MaxSamples \in Nat

VARIABLES
  stream,        \* the PipeWire thread, [pc, pos, buf, quit]
  queue,         \* the bounded channel
  audio,         \* audio_loop, [pc, chunks]
  framer,        \* AudioFramer, [pending, start]; start 0 is None
  encoder,       \* OpusEncoder.sequence
  clients,       \* receiver_count() > 0
  sent           \* the last packet that was broadcast, [sequence, ts]

audioVars == <<stream, queue, audio, framer, encoder, clients, sent>>

NoBuffer == [data |-> <<>>, ts |-> 0]

(* With audio.enabled unset there is no audio thread. *)
AudioInit ==
  /\ stream = [pc |-> "none", pos |-> 0, buf |-> NoBuffer, quit |-> FALSE]
  /\ queue = <<>>
  /\ audio \in [pc : {"create", "done"}, chunks : {<<>>}]
  /\ framer = [pending |-> <<>>, start |-> 0]
  /\ encoder = 0
  /\ clients \in BOOLEAN
  /\ sent = [sequence |-> 0, ts |-> 0]

-----------------------------------------------------------------------------
(* The PipeWire thread.                                                    *)

(* run_loop up to mainloop.run(); any error ends the thread, and with it   *)
(* the only Sender of the queue.                                           *)
StreamConnects ==
  /\ stream.pc = "spawned"
  /\ \E pc \in {"run", "ended"} : stream' = [stream EXCEPT !.pc = pc]
  /\ UNCHANGED <<queue, audio, framer, encoder, clients, sent>>

(* read_buffer: whole frames only, stamped with the time of capture. *)
ReadBuffer(n) == [data |-> [i \in 1..n |-> stream.pos + i], ts |-> stream.pos + 1]

(* The process callback reads a buffer... *)
Process ==
  /\ stream.pc = "run"
  /\ \E n \in BufferSizes :
       /\ stream.pos + n <= MaxSamples
       /\ stream' = [stream EXCEPT !.pc = "send", !.pos = stream.pos + n,
                                   !.buf = ReadBuffer(n)]
  /\ UNCHANGED <<queue, audio, framer, encoder, clients, sent>>

(* ...and queues it.  A full queue loses its oldest buffer first, in a     *)
(* step of its own; a queue that was emptied meanwhile loses this one.     *)
TrySend ==
  /\ stream.pc = "send"
  /\ IF Len(queue) < QueueCap
     THEN /\ queue' = Append(queue, stream.buf)
          /\ stream' = [stream EXCEPT !.pc = "run", !.buf = NoBuffer]
     ELSE stream' = [stream EXCEPT !.pc = "drain"] /\ UNCHANGED queue
  /\ UNCHANGED <<audio, framer, encoder, clients, sent>>

DropOldest ==
  /\ stream.pc = "drain"
  /\ IF queue = <<>>
     THEN stream' = [stream EXCEPT !.pc = "run", !.buf = NoBuffer] /\ UNCHANGED queue
     ELSE stream' = [stream EXCEPT !.pc = "send"] /\ queue' = Tail(queue)
  /\ UNCHANGED <<audio, framer, encoder, clients, sent>>

StreamQuits ==
  /\ stream.pc = "run" /\ stream.quit
  /\ stream' = [stream EXCEPT !.pc = "ended"]
  /\ UNCHANGED <<queue, audio, framer, encoder, clients, sent>>

-----------------------------------------------------------------------------
(* AudioFramer and OpusEncoder.                                            *)

(* Mutant: every frame is stamped as if it began with the buffer. *)
StartUnshifted(f, b, i) == IF i = 1 /\ f.start # 0 THEN f.start ELSE b.ts

(* The time of the i-th frame: a frame that begins in this buffer is       *)
(* stamped by its place in it.                                             *)
StartOf(f, b, i) ==
  IF i = 1 /\ f.start # 0 THEN f.start
  ELSE b.ts + (i - 1) * FrameSamples - Len(f.pending)

Pending(f, b, rest, n) ==
  [pending |-> rest, start |-> IF rest = <<>> THEN 0 ELSE StartOf(f, b, n + 1)]

(* push: the frames that are complete now, and what stays pending. *)
Push(f, b) ==
  LET all == f.pending \o b.data
      n == Len(all) \div FrameSamples
  IN [chunks |-> [i \in 1..n |->
                    [data |-> SubSeq(all, (i - 1) * FrameSamples + 1, i * FrameSamples),
                     ts |-> StartOf(f, b, i)]],
      framer |-> Pending(f, b, SubSeq(all, n * FrameSamples + 1, Len(all)), n)]

(* encode counts the packets it makes; a wrong length is an error. *)
Encodes(chunk, failed) == Len(chunk.data) = FrameSamples /\ ~failed

-----------------------------------------------------------------------------
(* audio_loop.                                                             *)

(* The capture is made and started. *)
AudioCreates ==
  /\ audio.pc = "create"
  /\ \/ /\ audio' = [audio EXCEPT !.pc = "encoder"]
        /\ stream' = [stream EXCEPT !.pc = "spawned"]
     \/ audio' = [audio EXCEPT !.pc = "done"] /\ UNCHANGED stream
  /\ UNCHANGED <<queue, framer, encoder, clients, sent>>

(* OpusEncoder::new takes five rates and two channel counts. *)
EncoderCreates ==
  /\ audio.pc = "encoder"
  /\ \E pc \in {"recv", "stop"} : audio' = [audio EXCEPT !.pc = pc]
  /\ UNCHANGED <<stream, queue, framer, encoder, clients, sent>>

(* next_samples blocks until there is a buffer, or no Sender. *)
NextSamples ==
  /\ audio.pc = "recv"
  /\ \/ /\ queue # <<>>
        /\ LET pushed == Push(framer, Head(queue)) IN
             /\ framer' = pushed.framer
             /\ audio' = [pc |-> IF pushed.chunks = <<>> THEN "recv" ELSE "encode",
                          chunks |-> pushed.chunks]
        /\ queue' = Tail(queue)
     \/ /\ queue = <<>> /\ stream.pc = "ended"
        /\ audio' = [audio EXCEPT !.pc = "stop"]
        /\ UNCHANGED <<queue, framer>>
  /\ UNCHANGED <<stream, encoder, clients, sent>>

(* One frame of the for loop: skipped with no clients, lost on an error. *)
EncodeFrame ==
  /\ audio.pc = "encode"
  /\ LET rest == Tail(audio.chunks) IN
       audio' = [pc |-> IF rest = <<>> THEN "recv" ELSE "encode", chunks |-> rest]
  /\ \E failed \in BOOLEAN :
       IF clients /\ Encodes(Head(audio.chunks), failed)
       THEN /\ encoder' = encoder + 1
            /\ sent' = [sequence |-> encoder + 1, ts |-> Head(audio.chunks).ts]
       ELSE UNCHANGED <<encoder, sent>>
  /\ UNCHANGED <<stream, queue, framer, clients>>

(* Mutant: the thread is joined without being told to quit. *)
StopJoins ==
  /\ audio.pc = "stop" /\ stream.pc = "ended"
  /\ audio' = [audio EXCEPT !.pc = "done"]
  /\ UNCHANGED <<stream, queue, framer, encoder, clients, sent>>

(* stop, called or by drop: Quit is sent, then the thread is joined. *)
StopCapture ==
  /\ audio.pc = "stop"
  /\ \/ ~stream.quit /\ stream' = [stream EXCEPT !.quit = TRUE] /\ UNCHANGED audio
     \/ /\ stream.quit /\ stream.pc = "ended"
        /\ audio' = [audio EXCEPT !.pc = "done"]
        /\ UNCHANGED stream
  /\ UNCHANGED <<queue, framer, encoder, clients, sent>>

ClientsChange ==
  /\ clients' = ~clients
  /\ UNCHANGED <<stream, queue, audio, framer, encoder, sent>>

AudioNext ==
  \/ StreamConnects \/ Process \/ TrySend \/ DropOldest \/ StreamQuits
  \/ AudioCreates \/ EncoderCreates \/ NextSamples \/ EncodeFrame \/ StopCapture
  \/ ClientsChange

AudioSpec == AudioInit /\ [][AudioNext]_audioVars

(* Both threads run; the sink need not play. *)
AudioFairness ==
  /\ WF_audioVars(StreamConnects \/ TrySend \/ DropOldest)
  /\ SF_audioVars(StreamQuits)
  /\ WF_audioVars(AudioCreates \/ EncoderCreates \/ NextSamples \/ EncodeFrame \/ StopCapture)

-----------------------------------------------------------------------------
(* What every variable ranges over; frames are waited for only by a loop   *)
(* that has some, and pending_start is set exactly when samples pend.      *)
AudioTypeOK ==
  /\ stream.pc \in {"none", "spawned", "run", "send", "drain", "ended"}
  /\ stream.pos \in 0..MaxSamples /\ Len(queue) \in 0..QueueCap
  /\ audio.pc \in {"create", "encoder", "recv", "encode", "stop", "done"}
  /\ audio.pc = "encode" <=> audio.chunks # <<>>
  /\ Len(framer.pending) \in 0..FrameSamples - 1
  /\ framer.start = 0 <=> framer.pending = <<>>

(* A frame has the length the encoder takes, and carries the capture time  *)
(* of its own first sample, whatever buffers it was put together from and  *)
(* however many of them were dropped.                                      *)
FrameTimeIsItsStart ==
  \A i \in 1..Len(audio.chunks) :
    /\ Len(audio.chunks[i].data) = FrameSamples
    /\ audio.chunks[i].ts = audio.chunks[i].data[1]

Rises(s) == \A i, j \in 1..Len(s) : i < j => s[i] < s[j]
Before(s, t) == \A i \in 1..Len(s), j \in 1..Len(t) : s[i] < t[j]

(* All samples on their way, from the encoder back to PipeWire. *)
Line ==
  LET datas(s) == [i \in 1..Len(s) |-> s[i].data]
  IN datas(audio.chunks) \o <<framer.pending>> \o datas(queue) \o <<stream.buf.data>>

(* Samples keep their order from PipeWire to the encoder, and none is sent *)
(* twice: dropping the oldest buffer never moves a later one.              *)
SamplesInOrder ==
  LET line == Line
  IN \A i \in 1..Len(line) :
       /\ Rises(line[i])
       /\ \A j \in 1..Len(line) : i < j => Before(line[i], line[j])

(* The sound that reaches the encoder is what was captured, in order and at  *)
(* the times it was captured.                                                *)
AudioSafe == AudioTypeOK /\ FrameTimeIsItsStart /\ SamplesInOrder

(* Packets are numbered without a gap and with times that rise, through    *)
(* frames that were skipped for want of a client or that failed to encode. *)
PacketsAreNumbered ==
  [][sent' # sent => /\ sent'.sequence = sent.sequence + 1
                     /\ sent'.ts > sent.ts]_sent

(* A stream thread that ends, or an encoder that cannot be made, ends both *)
(* threads: the loop does not wait for samples that cannot come, and stop  *)
(* does not wait for a thread that was never told.                         *)
AudioEnds ==
  stream.pc = "ended" \/ audio.pc = "stop" ~> audio.pc = "done" /\ stream.pc = "ended"

(* The packets go out without a gap for as long as there is sound, and the   *)
(* threads end with it.                                                      *)
AudioDelivers == PacketsAreNumbered /\ AudioEnds
=============================================================================
