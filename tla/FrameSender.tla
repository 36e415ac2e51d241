---------------------------- MODULE FrameSender ----------------------------
(***************************************************************************)
(* The host's end of a relay connection: quic_frames.rs and frame_server.rs *)
(* take encoded frames from a broadcast channel, and cursor shapes and     *)
(* status messages from channels of their own, and write them to the relay *)
(* one after the other.  Over QUIC a delta that is still being written     *)
(* when newer frames arrive may be reset or followed by the newest of      *)
(* them; over TCP every frame received is written out.                     *)
(*                                                                         *)
(* Frames are numbered; the encoder makes the next one an IDR if it was    *)
(* asked for one.  A broadcast receiver that falls more than the channel's *)
(* capacity behind is told so once and goes on with the oldest frame kept. *)
(***************************************************************************)
EXTENDS Integers, FiniteSets, Sequences

CONSTANTS
  Capacity,        \* of the frame channel, 8 in the code
  Threshold,       \* FRAME_RESET_BACKLOG_THRESHOLD, 3 in the code
  MaxEncoded,      \* bound: frames encoded
  MaxSide,         \* bound: cursor changes and status messages, each
  MaxConnects      \* bound: connections of the relay

ASSUME SenderAssumption ==
  /\ {Capacity, Threshold} \subseteq Nat \ {0}
  /\ {MaxEncoded, MaxSide, MaxConnects} \subseteq Nat

VARIABLES
  transport,   \* "quic" or "tcp"
  encoded,     \* the frames broadcast so far: TRUE for an IDR
  idrAsked,    \* a request is in the channel to the capture loop
  rx,          \* the next frame the connection's receiver reads
  at,          \* "closed", "loop", "write" or "message"
  writing,     \* the frame being written
  pending_frame,
  backlog, dropped_frames,
  cooling,     \* FRAME_RESET_IDR_COOLDOWN has not passed since last_recovery
  side,        \* cursor version and status messages made
  seen,        \* those the connection has taken from their channels
  message,     \* what send_message is writing
  arrived,     \* newest frame, cursor and status the relay has in whole
  loss,        \* ghost: frames lost since the last IDR the relay got
  connects

queueVars == <<encoded, idrAsked, side>>
callVars == <<writing, pending_frame, backlog, dropped_frames>>
connectionVars == <<rx, at, callVars, cooling, seen, message, arrived, loss>>
senderVars == <<transport, queueVars, connectionVars, connects>>

NoSide == [cursor |-> 0, status |-> 0]

SenderInit ==
  /\ transport \in {"quic", "tcp"}
  /\ encoded = <<>> /\ idrAsked = FALSE /\ side = NoSide
  /\ rx = 1 /\ at = "closed" /\ cooling = FALSE
  /\ writing = 0 /\ pending_frame = 0 /\ backlog = 0 /\ dropped_frames = FALSE
  /\ seen = NoSide /\ message = [kind |-> "cursor", version |-> 0]
  /\ arrived = [frame |-> 0, cursor |-> 0, status |-> 0]
  /\ loss = "none" /\ connects = MaxConnects

-----------------------------------------------------------------------------
(* The encoder and the other sources *)

Encoded ==
  /\ Len(encoded) < MaxEncoded
  /\ encoded' = Append(encoded, idrAsked \/ encoded = <<>>)
  /\ idrAsked' = FALSE
  /\ UNCHANGED <<transport, side, connectionVars, connects>>

SideChanges(kind) ==
  /\ side[kind] < MaxSide
  /\ side' = [side EXCEPT ![kind] = @ + 1]
  /\ UNCHANGED <<transport, encoded, idrAsked, connectionVars, connects>>

Newest == Len(encoded)
Lagged == Newest - rx >= Capacity
Oldest == Newest - Capacity + 1

\* What was lost; a request makes up for it, and so does an IDR that arrives.
Lost(by) == loss' = by

-----------------------------------------------------------------------------
(* The connection *)

\* The receivers subscribe from now on, the first cursor is written, and the
\* relay asks for an IDR, which read_command passes on.
Subscribe ==
  /\ at = "closed" /\ connects > 0
  /\ connects' = connects - 1
  /\ rx' = Newest + 1
  /\ seen' = side
  /\ at' = "message" /\ message' = [kind |-> "cursor", version |-> side.cursor]
  /\ cooling' = FALSE
  /\ writing' = 0 /\ pending_frame' = 0
  /\ loss' = "asked" /\ idrAsked' = TRUE
  /\ arrived' = [frame |-> Newest, cursor |-> 0, status |-> side.status]
  /\ UNCHANGED <<transport, encoded, side, backlog, dropped_frames>>

Accept == transport = "quic" /\ Subscribe
AcceptTcp == transport = "tcp" /\ Subscribe

\* send_frame_message starts on a frame.
Begin(f) ==
  /\ at' = "write" /\ writing' = f
  /\ pending_frame' = 0 /\ backlog' = 0 /\ dropped_frames' = FALSE

\* The main loop's receive.  Frames it lagged behind are lost without a request.
RecvFrame ==
  /\ at = "loop" /\ pending_frame = 0
  /\ rx <= Newest
  /\ IF Lagged
     THEN rx' = Oldest /\ Lost("silent") /\ UNCHANGED <<at, callVars>>
     ELSE Begin(rx) /\ rx' = rx + 1 /\ UNCHANGED loss
  /\ UNCHANGED <<transport, queueVars, cooling, seen, message, arrived, connects>>

\* The frame that superseded the last one goes first.
TakePending ==
  /\ at = "loop" /\ pending_frame # 0
  /\ Begin(pending_frame)
  /\ UNCHANGED <<transport, queueVars, rx, cooling, seen, message, arrived, loss, connects>>

\* should_request_idr: a request, and with it the next cooldown.
RequestIfCool ==
  /\ idrAsked' = (idrAsked \/ ~cooling)
  /\ cooling' = TRUE
  /\ Lost(IF cooling THEN "silent" ELSE "asked")

Interruptible == at = "write" /\ transport = "quic" /\ ~encoded[writing]

NewerFramesQuiet ==
  /\ Interruptible /\ rx <= Newest /\ ~Lagged
  /\ rx' = Newest + 1
  /\ backlog' = backlog + Newest - rx + 1
  /\ pending_frame' = Newest
  /\ dropped_frames' = (dropped_frames \/ Newest > rx)
  /\ IF backlog' >= Threshold /\ ~cooling
     THEN /\ at' = "loop" /\ cooling' = TRUE /\ Lost("owed")
          /\ UNCHANGED <<idrAsked, writing>>
     ELSE UNCHANGED <<at, cooling, loss, idrAsked, writing>>
  /\ UNCHANGED <<transport, encoded, side, seen, message, arrived, connects>>

\* A newer frame arrives while a delta is written: the channel is drained and
\* its newest frame kept.  With enough frames behind it the delta is reset.
NewerFrames ==
  /\ Interruptible /\ rx <= Newest /\ ~Lagged
  /\ rx' = Newest + 1
  /\ backlog' = backlog + Newest - rx + 1
  /\ pending_frame' = Newest
  /\ dropped_frames' = (dropped_frames \/ Newest > rx)
  /\ IF backlog' >= Threshold /\ ~cooling
     THEN /\ at' = "loop" /\ cooling' = TRUE
          /\ idrAsked' = TRUE /\ Lost("asked")
          /\ UNCHANGED writing
     ELSE /\ IF pending_frame # 0 \/ Newest > rx THEN Lost("owed") ELSE UNCHANGED loss
          /\ UNCHANGED <<at, cooling, idrAsked, writing>>
  /\ UNCHANGED <<transport, encoded, side, seen, message, arrived, connects>>

LaggedWhileWriting ==
  /\ Interruptible /\ rx <= Newest /\ Lagged
  /\ rx' = Oldest
  /\ backlog' = backlog + Oldest - rx
  /\ dropped_frames' = TRUE
  /\ RequestIfCool
  /\ UNCHANGED <<transport, encoded, side, at, writing, pending_frame, seen, message, arrived,
                 connects>>

FinishKeepsNothing ==
  /\ at = "write" /\ transport = "quic"
  /\ at' = "loop"
  /\ arrived' = [arrived EXCEPT !.frame = writing]
  /\ pending_frame' = 0
  /\ loss' = IF encoded[writing] THEN "none" ELSE loss
  /\ UNCHANGED <<transport, queueVars, rx, writing, backlog, dropped_frames, cooling, seen,
                 message, connects>>

\* The last byte is written.  dropped_frames knows of the frames one drain
\* skipped, not of a pending frame that a later drain replaced.
Finish ==
  /\ at = "write" /\ transport = "quic"
  /\ at' = "loop"
  /\ arrived' = [arrived EXCEPT !.frame = writing]
  /\ IF pending_frame # 0 /\ dropped_frames THEN RequestIfCool
     ELSE /\ Lost(IF loss = "owed" THEN "silent"
                  ELSE IF encoded[writing] THEN "none" ELSE loss)
          /\ UNCHANGED <<idrAsked, cooling>>
  /\ UNCHANGED <<transport, encoded, side, rx, callVars, seen, message, connects>>

\* write_frame_message over TCP, which nothing interrupts.
FinishTcp ==
  /\ at = "write" /\ transport = "tcp"
  /\ at' = "loop"
  /\ arrived' = [arrived EXCEPT !.frame = writing]
  /\ Lost(IF encoded[writing] THEN "none" ELSE loss)
  /\ UNCHANGED <<transport, queueVars, rx, callVars, cooling, seen, message, connects>>

CooldownEnds ==
  /\ cooling /\ cooling' = FALSE
  /\ UNCHANGED <<transport, queueVars, rx, at, callVars, seen, message, arrived, loss, connects>>

\* The other arms of select!: the cursor's watch channel holds the latest shape,
\* the status channel's receiver is far from lagging.
TakeMessage(kind) ==
  /\ at = "loop" /\ pending_frame = 0
  /\ seen[kind] < side[kind]
  /\ at' = "message"
  /\ seen' = [seen EXCEPT ![kind] = IF kind = "cursor" THEN side.cursor ELSE @ + 1]
  /\ message' = [kind |-> kind, version |-> seen'[kind]]
  /\ UNCHANGED <<transport, queueVars, rx, callVars, cooling, arrived, loss, connects>>

MessageSent ==
  /\ at = "message"
  /\ at' = "loop"
  /\ arrived' = [arrived EXCEPT ![message.kind] = message.version]
  /\ UNCHANGED <<transport, queueVars, rx, callVars, cooling, seen, message, loss, connects>>

\* A write fails.
Disconnect ==
  /\ at # "closed"
  /\ at' = "closed"
  /\ UNCHANGED <<transport, queueVars, rx, callVars, cooling, seen, message, arrived, loss,
                 connects>>

\* read_commands ends: the TCP loop selects on its reader.
ReaderEnds == transport = "tcp" /\ at = "loop" /\ Disconnect

SenderStep ==
  \/ RecvFrame \/ TakePending \/ Finish \/ FinishTcp \/ MessageSent
  \/ \E kind \in {"cursor", "status"} : TakeMessage(kind)
SenderNext ==
  \/ Encoded \/ \E kind \in {"cursor", "status"} : SideChanges(kind)
  \/ Accept \/ AcceptTcp \/ SenderStep \/ NewerFrames \/ LaggedWhileWriting \/ CooldownEnds \/ Disconnect
  \/ ReaderEnds

SenderSpec == SenderInit /\ [][SenderNext]_senderVars

-----------------------------------------------------------------------------
(* Properties *)

\* Every part of the connection has its type; what is being written has been
\* taken from the channel, and a pending frame is newer.
SenderTypeOK ==
  /\ transport \in {"quic", "tcp"}
  /\ at \in {"closed", "loop", "write", "message"}
  /\ rx \in 1 .. Newest + 1
  /\ pending_frame \in 0 .. rx - 1
  /\ at = "write" => writing \in 1 .. rx - 1
  /\ loss \in {"none", "owed", "asked", "silent"}
  /\ {idrAsked, cooling, dropped_frames} \subseteq BOOLEAN

\* The relay gets the frames in order and none twice, however resets, drains
\* and the pending frame interleave.
FramesInOrder == at = "write" => writing > arrived.frame

\* "discarded intermediate frames still warrant a rate-limited IDR request"
\* (FrameResetPolicy): when the loop goes on, an IDR was asked for after the
\* last frame was lost.  Losses that stay silent: what the cooldown swallows, what
\* the main loop lagged behind, and a pending frame replaced by a later drain.
LossIsAnswered == at = "loop" => loss # "owed"

\* Frames leave in order, and one that is left out is made up for.
SenderSafe == SenderTypeOK /\ FramesInOrder /\ LossIsAnswered

\* Frames may be lost, but never the newest: once the encoder pauses, a still
\* connected relay has the last picture.
NewestIsSent == <>[](at = "closed" \/ arrived.frame = Newest)

\* The relay ends up with the latest cursor and the last status message, also
\* when they change while an earlier one is being written.
SideCatchesUp ==
  <>[](at = "closed" \/ (arrived.cursor = side.cursor /\ arrived.status = side.status))

\* Whatever was skipped on the way, the relay ends up with the latest of each.
SenderCatchesUp == NewestIsSent /\ SideCatchesUp
=============================================================================
