----------------------------- MODULE RateControl -----------------------------
(***************************************************************************)
(* Who says at what bitrate the host encodes.  The relay follows what the  *)
(* viewer's connection carries (flux-web/abr.go) and sends commands; the   *)
(* viewer picks a quality, from which the capture loop                     *)
(* (flux-server/src/capture_loop.rs) derives a bitrate of its own; an      *)
(* encoder that is built anew starts with that one.  The host reports it   *)
(* in its heartbeats, and the relay takes it for a ceiling.                *)
(*                                                                         *)
(* Bitrates are numbers of steps that onEstimate takes for material, in    *)
(* the order of the code's constants.                                      *)
(***************************************************************************)
EXTENDS Integers, Sequences

CONSTANTS
  FrameSizes,    \* sizes of encoded frames
  Levels,        \* quality levels, with their frame rates
  ChanCap,       \* capacity of commandChan
  MaxChanges     \* bound: qualities picked, links, rebuilds, failures

ASSUME RateConstants ==
  /\ FrameSizes \subseteq Nat /\ Levels \subseteq Nat /\ {1} \subseteq FrameSizes \cap Levels
  /\ ChanCap \in Nat \ {0} /\ MaxChanges \in Nat

abrMinKbps == 1
EncoderMin == 2
abrInitialBitrateKbps == 3
abrMaxBitrateKbps == 4

VARIABLES
  viewer,        \* "none", "joined" or, with the upstream connected, "linked"
  abr,           \* abrState of the upstream, [target, ceiling]; 0 for unset
  commandChan,   \* commands on their way, of kind "bitrate" or "quality"
  bitrate_rx,    \* the latest bitrate the capture loop has to take, or 0
  quality_rx,    \* the qualities it has to take
  encoder,       \* the bitrate of the encoder, 0 if there is none
  encode_size, quality_level,
  reported,      \* target_bitrate_kbps of RuntimeStatus
  beat,          \* the heartbeat on its way, 0 for none
  lost,          \* history: a bitrate the relay asked for came to nothing,
                 \* and it has asked for none since
  changes

relayRates == <<viewer, abr, commandChan>>
hostRates == <<bitrate_rx, quality_rx, encoder, encode_size, quality_level, reported>>
rateVars == <<relayRates, hostRates, beat, lost, changes>>

RateChange == changes < MaxChanges /\ changes' = changes + 1

Clamped(n, low, high) == IF n < low THEN low ELSE IF n > high THEN high ELSE n

(* bitrate_kbps_for *)
BitrateFor(size, level) == Clamped(size * level, EncoderMin, abrMaxBitrateKbps)

NoAbr == [target |-> 0, ceiling |-> 0]
Bitrate(k) == [kind |-> "bitrate", value |-> k]

RateInit ==
  /\ viewer = "none" /\ abr = NoAbr /\ commandChan = <<>>
  /\ bitrate_rx = 0 /\ quality_rx = <<>>
  /\ encoder = 0 /\ encode_size = 1 /\ quality_level = 1 /\ reported = 0
  /\ beat = 0 /\ lost = FALSE /\ changes = 0

-----------------------------------------------------------------------------
(* The relay.                                                              *)

(* sendBitrateCommand: when the channel is full the command is dropped.    *)
SendBitrate(k) ==
  IF Len(commandChan) < ChanCap
  THEN commandChan' = Append(commandChan, Bitrate(k)) /\ lost' = FALSE
  ELSE lost' = TRUE /\ UNCHANGED commandChan

(* handleWebTransport: acquire makes an upstream, whose abrState knows no  *)
(* ceiling (upsert does not keep TargetBitrate), and the first estimate is *)
(* made before the upstream is connected.                                  *)
JoinRates ==
  /\ viewer = "none" /\ RateChange
  /\ viewer' = "joined"
  /\ abr' = [target |-> abrInitialBitrateKbps, ceiling |-> 0]
  /\ commandChan' = <<Bitrate(abrInitialBitrateKbps)>>
  /\ lost' = FALSE
  /\ UNCHANGED <<hostRates, beat>>

(* The upstream connects; drainCommands empties the channel. *)
LinkRates ==
  /\ viewer = "joined"
  /\ viewer' = "linked"
  /\ \/ /\ commandChan' = <<>>
        /\ lost' = (lost \/ \E i \in DOMAIN commandChan : commandChan[i].kind = "bitrate")
     \/ UNCHANGED <<commandChan, lost>>     \* connected before the estimate
  /\ UNCHANGED <<abr, hostRates, beat, changes>>

(* The viewer leaves, or the link ends, which ends the viewer; with the    *)
(* upstream goes what was queued.                                          *)
LeaveRates ==
  /\ viewer # "none"
  /\ viewer' = "none"
  /\ abr' = NoAbr
  /\ commandChan' = <<>>
  /\ lost' = TRUE
  /\ UNCHANGED <<hostRates, beat, changes>>

(* The tick of the viewer's session, and onEstimate. *)
Estimate(k) ==
  /\ viewer # "none"
  /\ LET floor == IF k < abrMinKbps THEN abrMinKbps ELSE k
         kbps == IF abr.ceiling # 0 /\ floor > abr.ceiling THEN abr.ceiling ELSE floor
     IN /\ kbps # abr.target
        /\ abr' = [abr EXCEPT !.target = kbps]
        /\ SendBitrate(kbps)
  /\ UNCHANGED <<viewer, hostRates, beat, changes>>

(* setSenderTarget *)
SetSenderTarget(k) ==
  IF abr.target <= k
  THEN abr' = [abr EXCEPT !.ceiling = k] /\ UNCHANGED <<commandChan, lost>>
  ELSE abr' = [target |-> k, ceiling |-> k] /\ SendBitrate(k)

(* The viewer picks a quality; a full channel drops it. *)
PickQuality(level) ==
  /\ viewer # "none" /\ RateChange
  /\ commandChan' = IF Len(commandChan) < ChanCap
                    THEN Append(commandChan, [kind |-> "quality", value |-> level])
                    ELSE commandChan
  /\ UNCHANGED <<viewer, abr, hostRates, beat, lost>>

(* Mutant: of the bitrates that wait the first is taken. *)
ForwardFirst ==
  /\ viewer = "linked" /\ commandChan # <<>>
  /\ LET cmd == Head(commandChan) IN
       IF cmd.kind = "bitrate"
       THEN /\ bitrate_rx' = IF bitrate_rx = 0 THEN cmd.value ELSE bitrate_rx
            /\ UNCHANGED quality_rx
       ELSE quality_rx' = Append(quality_rx, cmd.value) /\ UNCHANGED bitrate_rx
  /\ commandChan' = Tail(commandChan)
  /\ UNCHANGED <<viewer, abr, encoder, encode_size, quality_level, reported, beat,
                 lost, changes>>

(* The upstream writes a command, and the host's reader hands it to the    *)
(* capture loop.                                                           *)
ForwardRate ==
  /\ viewer = "linked" /\ commandChan # <<>>
  /\ LET cmd == Head(commandChan) IN
       IF cmd.kind = "bitrate"
       THEN bitrate_rx' = cmd.value /\ UNCHANGED quality_rx
       ELSE quality_rx' = Append(quality_rx, cmd.value) /\ UNCHANGED bitrate_rx
  /\ commandChan' = Tail(commandChan)
  /\ UNCHANGED <<viewer, abr, encoder, encode_size, quality_level, reported, beat,
                 lost, changes>>

-----------------------------------------------------------------------------
(* The host.                                                               *)

(* One pass of the capture loop over its channels: the qualities in order, *)
(* the i-th being the last that set_bitrate succeeds for, then the latest  *)
(* bitrate, if `set'.  Without an encoder nothing is set.                  *)
RatePass ==
  /\ bitrate_rx # 0 \/ quality_rx # <<>>
  /\ \E i \in 0..Len(quality_rx), set \in BOOLEAN :
       /\ encoder = 0 => i = 0 /\ ~set
       /\ bitrate_rx = 0 => ~set
       /\ IF encoder # 0 /\ (i < Len(quality_rx) \/ (bitrate_rx # 0 /\ ~set))
          THEN RateChange ELSE UNCHANGED changes
       /\ quality_level' = IF quality_rx = <<>> THEN quality_level
                           ELSE quality_rx[Len(quality_rx)]
       /\ reported' = IF i = 0 THEN reported ELSE BitrateFor(encode_size, quality_rx[i])
       /\ encoder' = IF set THEN bitrate_rx ELSE IF i = 0 THEN encoder ELSE reported'
       /\ lost' = (lost \/ (bitrate_rx # 0 /\ ~set))
  /\ bitrate_rx' = 0 /\ quality_rx' = <<>>
  /\ UNCHANGED <<relayRates, encode_size, beat>>

(* A frame of another size, or a retry: the encoder is built anew, or that *)
(* fails; the status says the bitrate either way.                          *)
Rebuild ==
  /\ RateChange
  /\ encode_size' \in FrameSizes
  /\ reported' = BitrateFor(encode_size', quality_level)
  /\ encoder' \in {reported', 0}
  /\ UNCHANGED <<relayRates, bitrate_rx, quality_rx, quality_level, beat, lost>>

(* The registration task takes a snapshot... *)
SendBeat ==
  /\ beat = 0 /\ reported # 0
  /\ beat' = reported
  /\ UNCHANGED <<relayRates, hostRates, lost, changes>>

(* ...which reaches upsert, or gets lost. *)
BeatArrives ==
  /\ beat # 0
  /\ beat' = 0
  /\ IF viewer # "none" THEN SetSenderTarget(beat)
     ELSE UNCHANGED <<abr, commandChan, lost>>
  /\ UNCHANGED <<viewer, hostRates, changes>>

BeatLost ==
  /\ beat # 0 /\ RateChange
  /\ beat' = 0
  /\ UNCHANGED <<relayRates, hostRates, lost>>

RateNext ==
  \/ JoinRates \/ LinkRates \/ LeaveRates
  \/ \E k \in 0..abrMaxBitrateKbps : Estimate(k)
  \/ \E level \in Levels : PickQuality(level)
  \/ ForwardRate \/ RatePass \/ Rebuild \/ SendBeat \/ BeatArrives \/ BeatLost

RateSpec == RateInit /\ [][RateNext]_rateVars

(* The connected upstream's writer, the capture loop and the registration  *)
(* task go on; estimates, people and faults owe nothing.                   *)
RateFairness ==
  /\ WF_rateVars(ForwardRate) /\ WF_rateVars(RatePass)
  /\ WF_rateVars(SendBeat \/ BeatArrives)

-----------------------------------------------------------------------------
RateRange == 0..abrMaxBitrateKbps

(* What every variable ranges over; a channel holds no more than it can. *)
RateTypeOK ==
  /\ viewer \in {"none", "joined", "linked"}
  /\ abr \in [target : RateRange, ceiling : RateRange]
  /\ commandChan \in Seq([kind : {"bitrate"}, value : RateRange \ {0}]
                         \cup [kind : {"quality"}, value : Levels])
  /\ Len(commandChan) <= ChanCap
  /\ {bitrate_rx, encoder, reported, beat} \subseteq RateRange
  /\ quality_rx \in Seq(Levels)
  /\ encode_size \in FrameSizes /\ quality_level \in Levels
  /\ lost \in BOOLEAN /\ changes \in 0..MaxChanges

(* The relay never asks for more than the host said it would encode at,    *)
(* in whatever order heartbeats and estimates come.                        *)
TargetWithinCeiling == abr.ceiling # 0 => abr.target <= abr.ceiling

(* A command the relay sent before it knew of a lower quality may raise    *)
(* the encoder above it; the heartbeat that tells of the quality brings it *)
(* back, unless that command was dropped.                                  *)
RateSettles ==
  viewer = "linked" /\ encoder > reported
  ~> encoder <= reported \/ lost \/ viewer # "linked"

(* What the relay asks for is what the encoder runs at, or what the host's *)
(* own quality gives, unless the command was dropped.                      *)
AskedIsApplied ==
  \A k \in RateRange \ {0} :
    viewer = "linked" /\ abr.target = k /\ encoder # 0 /\ ~lost
    ~> \/ encoder \in {k, reported} \/ encoder = 0
       \/ abr.target # k \/ lost \/ viewer # "linked"

(* The bitrate of the quality in force reaches the relay's abrState. *)
CeilingArrives ==
  \A r \in RateRange \ {0} :
    viewer # "none" /\ reported = r
    ~> abr.ceiling = r \/ reported # r \/ viewer = "none"

(* The three control loops agree in the end: the relay's estimate, the       *)
(* user's quality and the encoder's bitrate.                                 *)
RatesSettle == RateSettles /\ AskedIsApplied /\ CeilingArrives
=============================================================================
