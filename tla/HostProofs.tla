----------------------------- MODULE HostProofs -----------------------------
(***************************************************************************)
(* What is proved of a host besides its logins, each part on its own, for  *)
(* every bound: a link has one owner at the relay from the hello it opens  *)
(* with to the close that ends it; the capture loop never hands a frame to an*)
(* encoder of another size; the relay never asks for more than the host    *)
(* said it would encode at; and the physical outputs that privacy mode     *)
(* switches off always have a way back.                                    *)
(***************************************************************************)
EXTENDS HostLinks, CaptureLoop, RateControl, PrivacyTopology, TLAPS

(* A leaf that does not name its prover is first tried with Zenon; the leaves *)
(* that need arithmetic, or more than Zenon knows of sequences and records,    *)
(* name SMT.                                                                   *)
USE ZenonT(30), SMTT(30)

(* RateControl.                                                            *)

\* The bitrate of a quality is clamped to what an encoder takes.
LEMMA BitrateInRange ==
    ASSUME NEW size \in FrameSizes, NEW level \in Levels
    PROVE  BitrateFor(size, level) \in RateRange \ {0}
<1>1. size \in Nat /\ level \in Nat
  BY RateConstants
<1>2. size * level \in Nat
  BY <1>1, SMTT(30)
<1>. QED
  BY <1>2, SMTT(30) DEF BitrateFor, Clamped, EncoderMin, abrMaxBitrateKbps, RateRange

Command == [kind: {"bitrate"}, value: RateRange \ {0}] \cup [kind: {"quality"}, value: Levels]

\* A bitrate that is sent is queued or dropped.
LEMMA SendKeepsQueue ==
    ASSUME RateTypeOK, NEW k \in RateRange \ {0}, SendBitrate(k)
    PROVE  /\ commandChan' \in Seq(Command) /\ Len(commandChan') <= ChanCap
           /\ lost' \in BOOLEAN
<1>1. Bitrate(k) \in Command
  BY DEF Bitrate, Command
<1>2. commandChan \in Seq(Command)
  BY DEF RateTypeOK, Command
<1>3. CASE Len(commandChan) < ChanCap
  <2>1. commandChan' = Append(commandChan, Bitrate(k)) /\ lost' = FALSE
    BY <1>3 DEF SendBitrate
  <2>2. commandChan' \in Seq(Command) /\ Len(commandChan') = Len(commandChan) + 1
    BY <1>1, <1>2, <2>1, SMTT(30)
  <2>3. Len(commandChan') <= ChanCap
    BY <1>2, <1>3, <2>2, RateConstants, SMTT(30)
  <2>4. lost' \in BOOLEAN
    BY <2>1
  <2>. QED BY <2>2, <2>3, <2>4
<1>4. CASE ~(Len(commandChan) < ChanCap)
  BY <1>2, <1>4 DEF SendBitrate, RateTypeOK
<1>. QED BY <1>3, <1>4

\* The host's side, the relay's and what goes between them.
HostTyped ==
    /\ {bitrate_rx, encoder, reported} \subseteq RateRange
    /\ quality_rx \in Seq(Levels) /\ encode_size \in FrameSizes /\ quality_level \in Levels
RelayTyped ==
    /\ viewer \in {"none", "joined", "linked"}
    /\ abr \in [target : RateRange, ceiling : RateRange]
    /\ commandChan \in Seq(Command) /\ Len(commandChan) <= ChanCap
    /\ TargetWithinCeiling
SharedTyped == beat \in RateRange /\ lost \in BOOLEAN /\ changes \in 0..MaxChanges

RateIInv == HostTyped /\ RelayTyped /\ SharedTyped

\* The parts together are the type invariant and the property.
LEMMA Together == RateIInv <=> RateTypeOK /\ TargetWithinCeiling
  BY DEF RateIInv, HostTyped, RelayTyped, SharedTyped, RateTypeOK, Command

\* A change is counted.
LEMMA ChangeCounted == ASSUME changes \in 0..MaxChanges, RateChange PROVE changes' \in 0..MaxChanges
  BY RateConstants, SMTT(30) DEF RateChange

\* What the relay does of its own accord.
LEMMA RelayStep ==
    ASSUME RateIInv, JoinRates \/ LinkRates \/ LeaveRates
    PROVE  RateIInv'
<1>1. CASE JoinRates
  <2>1. /\ abr' \in [target : RateRange, ceiling : RateRange]
        /\ abr'.ceiling = 0
    BY <1>1, SMTT(30) DEF JoinRates, abrInitialBitrateKbps, RateRange, abrMaxBitrateKbps
  <2>2. Bitrate(abrInitialBitrateKbps) \in Command
    BY SMTT(30) DEF Bitrate, Command, abrInitialBitrateKbps, RateRange, abrMaxBitrateKbps
  <2>3. commandChan' \in Seq(Command) /\ Len(commandChan') <= ChanCap
    BY <1>1, <2>2, RateConstants, SMTT(30) DEF JoinRates
  <2>. QED
    BY <1>1, <2>1, <2>3, ChangeCounted
    DEF JoinRates, hostRates, RateIInv, HostTyped, RelayTyped, SharedTyped, TargetWithinCeiling
<1>2. CASE LinkRates
  <2>1. commandChan' \in Seq(Command) /\ Len(commandChan') <= ChanCap /\ lost' \in BOOLEAN
    <3>1. CASE UNCHANGED <<commandChan, lost>>
      BY <3>1 DEF RateIInv, RelayTyped, SharedTyped
    <3>2. CASE /\ commandChan' = <<>>
               /\ lost' = (lost \/ \E i \in DOMAIN commandChan : commandChan[i].kind = "bitrate")
      <4>1. commandChan' \in Seq(Command) /\ Len(commandChan') <= ChanCap
        BY <3>2, RateConstants, SMTT(30)
      <4>2. lost' \in BOOLEAN
        BY <3>2
      <4>. QED BY <4>1, <4>2
    <3>. QED BY <1>2, <3>1, <3>2 DEF LinkRates
  <2>. QED
    BY <1>2, <2>1
    DEF LinkRates, hostRates, RateIInv, HostTyped, RelayTyped, SharedTyped, TargetWithinCeiling
<1>3. CASE LeaveRates
  <2>1. abr' \in [target : RateRange, ceiling : RateRange] /\ abr'.ceiling = 0
    BY <1>3, SMTT(30) DEF LeaveRates, NoAbr, RateRange, abrMaxBitrateKbps
  <2>2. commandChan' \in Seq(Command) /\ Len(commandChan') <= ChanCap
    BY <1>3, RateConstants, SMTT(30) DEF LeaveRates
  <2>. QED
    BY <1>3, <2>1, <2>2
    DEF LeaveRates, hostRates, RateIInv, HostTyped, RelayTyped, SharedTyped, TargetWithinCeiling
<1>. QED BY <1>1, <1>2, <1>3

\* An estimate is held below the ceiling.
LEMMA EstimateStep ==
    ASSUME RateIInv, NEW k \in 0..abrMaxBitrateKbps, Estimate(k)
    PROVE  RateIInv'
<1>. DEFINE floor == IF k < abrMinKbps THEN abrMinKbps ELSE k
            kbps == IF abr.ceiling # 0 /\ floor > abr.ceiling THEN abr.ceiling ELSE floor
<1>1. /\ kbps \in RateRange \ {0}
      /\ abr.ceiling # 0 => kbps <= abr.ceiling
  BY SMTT(30) DEF RateIInv, RelayTyped, RateRange, abrMaxBitrateKbps, abrMinKbps
<1>2. abr' = [abr EXCEPT !.target = kbps] /\ SendBitrate(kbps)
  BY DEF Estimate
<1>. HIDE DEF kbps
<1>3. commandChan' \in Seq(Command) /\ Len(commandChan') <= ChanCap /\ lost' \in BOOLEAN
  BY <1>1, <1>2, SendKeepsQueue, Together
<1>4. /\ abr' \in [target : RateRange, ceiling : RateRange]
      /\ abr'.target = kbps /\ abr'.ceiling = abr.ceiling
  BY <1>1, <1>2 DEF RateIInv, RelayTyped
<1>. QED
  BY <1>1, <1>3, <1>4
  DEF Estimate, hostRates, RateIInv, HostTyped, RelayTyped, SharedTyped, TargetWithinCeiling

\* A heartbeat that arrives lowers the target with the ceiling.
LEMMA BeatStep ==
    ASSUME RateIInv, BeatArrives
    PROVE  RateIInv'
<1>0. /\ beat \in RateRange \ {0} /\ beat' = 0 /\ 0 \in RateRange
      /\ UNCHANGED <<viewer, hostRates, changes>>
  BY SMTT(30) DEF BeatArrives, RateIInv, SharedTyped, RateRange, abrMaxBitrateKbps
<1>1. CASE viewer = "none"
  BY <1>0, <1>1
  DEF BeatArrives, hostRates, RateIInv, HostTyped, RelayTyped, SharedTyped, TargetWithinCeiling
<1>2. CASE viewer # "none" /\ abr.target <= beat
  <2>1. abr' = [abr EXCEPT !.ceiling = beat] /\ UNCHANGED <<commandChan, lost>>
    BY <1>2 DEF BeatArrives, SetSenderTarget
  <2>2. /\ abr' \in [target : RateRange, ceiling : RateRange]
        /\ abr'.target = abr.target /\ abr'.ceiling = beat
    BY <1>0, <2>1 DEF RateIInv, RelayTyped
  <2>. QED
    BY <1>0, <1>2, <2>1, <2>2
    DEF hostRates, RateIInv, HostTyped, RelayTyped, SharedTyped, TargetWithinCeiling
<1>3. CASE viewer # "none" /\ ~(abr.target <= beat)
  <2>1. abr' = [target |-> beat, ceiling |-> beat] /\ SendBitrate(beat)
    BY <1>3 DEF BeatArrives, SetSenderTarget
  <2>2. commandChan' \in Seq(Command) /\ Len(commandChan') <= ChanCap /\ lost' \in BOOLEAN
    BY <1>0, <2>1, SendKeepsQueue, Together
  <2>3. /\ abr' \in [target : RateRange, ceiling : RateRange]
        /\ abr'.target <= abr'.ceiling
    BY <1>0, <2>1, SMTT(30) DEF RateRange
  <2>. QED
    BY <1>0, <2>2, <2>3
    DEF hostRates, RateIInv, HostTyped, RelayTyped, SharedTyped, TargetWithinCeiling
<1>. QED BY <1>1, <1>2, <1>3

\* A quality that is picked is queued or dropped.
LEMMA PickStep ==
    ASSUME RateIInv, NEW level \in Levels, PickQuality(level)
    PROVE  RateIInv'
<1>1. [kind |-> "quality", value |-> level] \in Command
  BY DEF Command
<1>2. commandChan' \in Seq(Command) /\ Len(commandChan') <= ChanCap
  <2>1. CASE Len(commandChan) < ChanCap
    <3>1. commandChan' = Append(commandChan, [kind |-> "quality", value |-> level])
      BY <2>1 DEF PickQuality
    <3>2. commandChan' \in Seq(Command) /\ Len(commandChan') = Len(commandChan) + 1
      BY <1>1, <3>1, SMTT(30) DEF RateIInv, RelayTyped
    <3>. QED BY <2>1, <3>2, RateConstants, SMTT(30) DEF RateIInv, RelayTyped
  <2>2. CASE ~(Len(commandChan) < ChanCap)
    BY <2>2 DEF PickQuality, RateIInv, RelayTyped
  <2>. QED BY <2>1, <2>2
<1>. QED
  BY <1>2, ChangeCounted
  DEF PickQuality, hostRates, RateIInv, HostTyped, RelayTyped, SharedTyped, TargetWithinCeiling

\* A command that is written leaves the channel for the capture loop.
LEMMA ForwardStep == ASSUME RateIInv, ForwardRate PROVE RateIInv'
<1>1. Head(commandChan) \in Command
  BY SMTT(30) DEF ForwardRate, RateIInv, RelayTyped
<1>2. commandChan' \in Seq(Command) /\ Len(commandChan') <= ChanCap
  BY RateConstants, SMTT(30) DEF ForwardRate, RateIInv, RelayTyped
<1>3. bitrate_rx' \in RateRange /\ quality_rx' \in Seq(Levels)
  <2>1. CASE Head(commandChan).kind = "bitrate"
    BY <1>1, <2>1 DEF ForwardRate, RateIInv, HostTyped, Command
  <2>2. CASE Head(commandChan).kind # "bitrate"
    BY <1>1, <2>2, SMTT(30) DEF ForwardRate, RateIInv, HostTyped, Command
  <2>. QED BY <2>1, <2>2
<1>. QED
  BY <1>2, <1>3
  DEF ForwardRate, RateIInv, HostTyped, RelayTyped, SharedTyped, TargetWithinCeiling

\* A pass of the capture loop leaves the encoder at a bitrate that was asked for
\* or that a quality gives.
LEMMA PassStep == ASSUME RateIInv, RatePass PROVE RateIInv'
<1>1. PICK i \in 0..Len(quality_rx), set \in BOOLEAN :
        /\ IF encoder # 0 /\ (i < Len(quality_rx) \/ (bitrate_rx # 0 /\ ~set))
           THEN RateChange ELSE UNCHANGED changes
        /\ quality_level' = IF quality_rx = <<>> THEN quality_level
                            ELSE quality_rx[Len(quality_rx)]
        /\ reported' = IF i = 0 THEN reported ELSE BitrateFor(encode_size, quality_rx[i])
        /\ encoder' = IF set THEN bitrate_rx ELSE IF i = 0 THEN encoder ELSE reported'
        /\ lost' = (lost \/ (bitrate_rx # 0 /\ ~set))
  BY DEF RatePass
<1>2. quality_level' \in Levels
  <2>1. quality_rx # <<>> => quality_rx[Len(quality_rx)] \in Levels
    BY SMTT(30) DEF RateIInv, HostTyped
  <2>. QED BY <1>1, <2>1 DEF RateIInv, HostTyped
<1>3. reported' \in RateRange
  <2>1. CASE i = 0
    BY <1>1, <2>1 DEF RateIInv, HostTyped
  <2>2. CASE i # 0
    <3>1. quality_rx[i] \in Levels
      BY <2>2, SMTT(30) DEF RateIInv, HostTyped
    <3>. QED BY <1>1, <2>2, <3>1, BitrateInRange DEF RateIInv, HostTyped
  <2>. QED BY <2>1, <2>2
<1>4. encoder' \in RateRange
  BY <1>1, <1>3 DEF RateIInv, HostTyped
<1>5. lost' \in BOOLEAN
  BY <1>1
<1>6. changes' \in 0..MaxChanges
  BY <1>1, ChangeCounted DEF RateIInv, SharedTyped
<1>7. /\ bitrate_rx' = 0 /\ quality_rx' = <<>> /\ 0 \in RateRange /\ <<>> \in Seq(Levels)
      /\ UNCHANGED <<relayRates, encode_size, beat>>
  BY SMTT(30) DEF RatePass, RateRange, abrMaxBitrateKbps
<1>. QED
  BY <1>2, <1>3, <1>4, <1>5, <1>6, <1>7
  DEF relayRates, RateIInv, HostTyped, RelayTyped, SharedTyped, TargetWithinCeiling

\* An encoder that is built anew, and the heartbeats of the registration task.
LEMMA HostStep == ASSUME RateIInv, Rebuild \/ SendBeat \/ BeatLost PROVE RateIInv'
<1>0. 0 \in RateRange
  BY SMTT(30) DEF RateRange, abrMaxBitrateKbps
<1>1. CASE Rebuild
  <2>1. encode_size' \in FrameSizes /\ reported' \in RateRange
    BY <1>1, BitrateInRange DEF Rebuild, RateIInv, HostTyped
  <2>. QED
    BY <1>0, <1>1, <2>1, ChangeCounted
    DEF Rebuild, relayRates, RateIInv, HostTyped, RelayTyped, SharedTyped, TargetWithinCeiling
<1>2. CASE SendBeat
  BY <1>2
  DEF SendBeat, relayRates, hostRates, RateIInv, HostTyped, RelayTyped, SharedTyped,
      TargetWithinCeiling
<1>3. CASE BeatLost
  BY <1>0, <1>3, ChangeCounted
  DEF BeatLost, relayRates, hostRates, RateIInv, HostTyped, RelayTyped, SharedTyped,
      TargetWithinCeiling
<1>. QED BY <1>1, <1>2, <1>3

\* The invariant is inductive.
THEOREM RateInvariant == RateSpec => []RateIInv
<1>1. RateInit => RateIInv
  <2>. SUFFICES ASSUME RateInit PROVE RateIInv
    OBVIOUS
  <2>1. /\ abr \in [target : RateRange, ceiling : RateRange] /\ abr.ceiling = 0
        /\ 0 \in RateRange
    BY SMTT(30) DEF RateInit, NoAbr, RateRange, abrMaxBitrateKbps
  <2>2. commandChan \in Seq(Command) /\ Len(commandChan) <= ChanCap
    BY RateConstants, SMTT(30) DEF RateInit
  <2>3. HostTyped
    BY <2>1, RateConstants, SMTT(30) DEF RateInit, HostTyped
  <2>4. RelayTyped
    BY <2>1, <2>2 DEF RateInit, RelayTyped, TargetWithinCeiling
  <2>5. SharedTyped
    <3>1. lost \in BOOLEAN
      BY DEF RateInit
    <3>2. changes \in 0..MaxChanges /\ beat \in RateRange
      BY <2>1, RateConstants, SMTT(30) DEF RateInit
    <3>. QED BY <3>1, <3>2 DEF SharedTyped
  <2>. QED BY <2>3, <2>4, <2>5 DEF RateIInv
<1>2. RateIInv /\ [RateNext]_rateVars => RateIInv'
  <2>. SUFFICES ASSUME RateIInv, [RateNext]_rateVars PROVE RateIInv'
    OBVIOUS
  <2>1. CASE UNCHANGED rateVars
    BY <2>1
    DEF rateVars, relayRates, hostRates, RateIInv, HostTyped, RelayTyped, SharedTyped,
        TargetWithinCeiling
  <2>. QED
    BY <2>1, RelayStep, EstimateStep, PickStep, ForwardStep, PassStep, HostStep, BeatStep
    DEF RateNext
<1>. QED BY <1>1, <1>2, PTL DEF RateSpec

\* The relay's target never exceeds the bitrate the host said it would encode at,
\* in whatever order heartbeats, estimates and viewers come and go.
THEOREM TargetAlwaysWithinCeiling == RateSpec => []TargetWithinCeiling
<1>1. RateIInv => TargetWithinCeiling
  BY Together
<1>. QED BY <1>1, RateInvariant, PTL

\* Every bitrate is in its range, and the command channel within its capacity.
THEOREM RateTypeCorrect == RateSpec => []RateTypeOK
<1>1. RateIInv => RateTypeOK
  BY Together
<1>. QED BY <1>1, RateInvariant, PTL

-----------------------------------------------------------------------------
(* HostLinks.                                                              *)

LinkPlaces == {"none", "hello", "park"}
UpstreamPlaces == {"none", "check", "look", "wait", "serve"}
LinkRecord == [host : BOOLEAN, relay : BOOLEAN, acked : BOOLEAN]
Upstream == [pc : UpstreamPlaces, stop : BOOLEAN, conn : Links \cup {0},
             signalled : BOOLEAN]
Machine == [known : BOOLEAN, online : BOOLEAN, fresh : BOOLEAN, dials : BOOLEAN,
            status : 0..MaxStatus, upstream : Upstreams \cup {0}]

HostShape ==
  /\ hostd \in [up : BOOLEAN, dials : BOOLEAN]
  /\ runtime \in 0..MaxStatus
  /\ reg \in [pc : {"off", "send", "wait", "leave"}, first : BOOLEAN, sent : 0..MaxStatus]
  /\ reg.pc # "off" => hostd.up
  /\ dial \in [pc : {"off", "connect", "ack", "bridge"}, link : Links \cup {0}]
  /\ dial.pc \in {"ack", "bridge"} <=> dial.link # 0

RelayShape ==
  /\ link \in [Links -> LinkRecord]
  /\ handler \in [Links -> LinkPlaces]
  /\ hub \in Links \cup {0}
  /\ ups \in [Upstreams -> Upstream]
  /\ machine \in Machine

(* An upstream holds a connection where it serves, and an unused one holds *)
(* nothing.                                                                *)
UpstreamsOwn ==
  \A u \in Upstreams :
    /\ ups[u].pc = "serve" <=> ups[u].conn # 0
    /\ ups[u].pc = "none" => ~ups[u].stop

(* The registered upstream runs, and is that of a known machine. *)
RegisteredRuns ==
  /\ machine.online => machine.known
  /\ machine.upstream # 0 =>
       /\ machine.known
       /\ ups[machine.upstream].pc # "none" /\ ~ups[machine.upstream].stop

(* A link that is being set up is neither parked nor taken. *)
HandlerOwns ==
  \A l \in Links : handler[l] # "none" =>
    hub # l /\ \A u \in Upstreams : ups[u].conn # l

Ownership ==
  /\ UpstreamsOwn /\ RegisteredRuns /\ HandlerOwns
  /\ HandedOutOnce /\ NoOrphanLink /\ ParkedIsRegistered

LinkIInv == HostShape /\ RelayShape /\ Ownership

-----------------------------------------------------------------------------
(* Nothing is open, nothing is registered. *)
LEMMA InitInv == LinksInit => LinkIInv
  BY LinkNames, SMTT(30)
     DEF LinksInit, LinkIInv, HostShape, RelayShape, Ownership, UpstreamsOwn,
         RegisteredRuns, HandlerOwns, HandedOutOnce, NoOrphanLink,
         ParkedIsRegistered, Closed, Unknown, NoUpstream, RegOff, DialOff,
         LinkPlaces, UpstreamPlaces, LinkRecord, Upstream, Machine

-----------------------------------------------------------------------------
(* A function of links with one of them replaced is one again.           *)
LEMMA LinkSet ==
  ASSUME NEW f \in [Links -> LinkRecord], NEW l \in Links, NEW b \in BOOLEAN
  PROVE  /\ [f EXCEPT ![l].host = b] \in [Links -> LinkRecord]
         /\ [f EXCEPT ![l].relay = b] \in [Links -> LinkRecord]
         /\ [f EXCEPT ![l].acked = b] \in [Links -> LinkRecord]
<1>1. f[l] \in LinkRecord
  OBVIOUS
<1>2. /\ [f[l] EXCEPT !.host = b] \in LinkRecord
      /\ [f[l] EXCEPT !.relay = b] \in LinkRecord
      /\ [f[l] EXCEPT !.acked = b] \in LinkRecord
  BY <1>1 DEF LinkRecord
<1>. QED BY <1>2

(* An upstream that is told to stop is still an upstream.                *)
LEMMA UpstreamStop ==
  ASSUME NEW f \in [Upstreams -> Upstream], NEW u \in Upstreams
  PROVE  [f EXCEPT ![u].stop = TRUE] \in [Upstreams -> Upstream]
<1>1. f[u] \in Upstream
  OBVIOUS
<1>2. [f[u] EXCEPT !.stop = TRUE] \in Upstream
  BY <1>1 DEF Upstream
<1>. QED BY <1>2

(* An upstream whose goroutine moves on is still an upstream.            *)
LEMMA UpstreamMoves ==
  ASSUME NEW f \in [Upstreams -> Upstream], NEW u \in Upstreams,
         NEW p \in UpstreamPlaces, NEW c \in Links \cup {0}
  PROVE  /\ [f EXCEPT ![u].pc = p] \in [Upstreams -> Upstream]
         /\ [f EXCEPT ![u].pc = p, ![u].conn = c] \in [Upstreams -> Upstream]
         /\ [f EXCEPT ![u].pc = p, ![u].signalled = FALSE]
              \in [Upstreams -> Upstream]
<1>1. f[u] \in Upstream
  OBVIOUS
<1>2. /\ [f[u] EXCEPT !.pc = p] \in Upstream
      /\ [f[u] EXCEPT !.pc = p, !.conn = c] \in Upstream
      /\ [f[u] EXCEPT !.pc = p, !.signalled = FALSE] \in Upstream
  BY <1>1 DEF Upstream
<1>. QED BY <1>2

(* signalLocked changes nothing but the signal. *)
LEMMA SignalledKeeps ==
  ASSUME NEW f \in [Upstreams -> Upstream]
  PROVE  /\ Signalled(f) \in [Upstreams -> Upstream]
         /\ \A u \in Upstreams : /\ Signalled(f)[u].pc = f[u].pc
                                 /\ Signalled(f)[u].conn = f[u].conn
                                 /\ Signalled(f)[u].stop = f[u].stop
<1>1. ASSUME NEW u \in Upstreams
      PROVE  /\ [f[u] EXCEPT !.signalled = TRUE] \in Upstream
             /\ [f[u] EXCEPT !.signalled = TRUE].pc = f[u].pc
             /\ [f[u] EXCEPT !.signalled = TRUE].conn = f[u].conn
             /\ [f[u] EXCEPT !.signalled = TRUE].stop = f[u].stop
  <2>1. f[u] \in Upstream
    OBVIOUS
  <2>. QED BY <2>1 DEF Upstream
<1>. QED BY <1>1 DEF Signalled

(* Stopping an upstream changes no other, and nothing but its stop. *)
LEMMA StopKeeps ==
  ASSUME NEW f \in [Upstreams -> Upstream], NEW w \in Upstreams \cup {0}
  PROVE  /\ StopUpstream(f, w) \in [Upstreams -> Upstream]
         /\ \A u \in Upstreams : /\ StopUpstream(f, w)[u].pc = f[u].pc
                                 /\ StopUpstream(f, w)[u].conn = f[u].conn
                                 /\ u # w => StopUpstream(f, w)[u].stop = f[u].stop
<1>1. CASE w = 0
  BY <1>1 DEF StopUpstream
<1>2. CASE w \in Upstreams /\ w # 0
  <2>1. StopUpstream(f, w) = [f EXCEPT ![w].stop = TRUE]
    BY <1>2 DEF StopUpstream
  <2>2. StopUpstream(f, w) \in [Upstreams -> Upstream]
    BY <1>2, <2>1, UpstreamStop, SMTT(30)
  <2>3. ASSUME NEW u \in Upstreams
        PROVE  /\ StopUpstream(f, w)[u].pc = f[u].pc
               /\ StopUpstream(f, w)[u].conn = f[u].conn
               /\ u # w => StopUpstream(f, w)[u].stop = f[u].stop
    <3>1. f[u] \in Upstream /\ f[w] \in Upstream
      BY <1>2
    <3>2. StopUpstream(f, w)[u] = IF u = w THEN [f[w] EXCEPT !.stop = TRUE] ELSE f[u]
      BY <1>2, <2>1
    <3>3. [f[w] EXCEPT !.stop = TRUE].pc = f[w].pc
          /\ [f[w] EXCEPT !.stop = TRUE].conn = f[w].conn
      BY <3>1 DEF Upstream
    <3>. QED BY <3>2, <3>3
  <2>. QED BY <2>2, <2>3
<1>. QED BY <1>1, <1>2

(* remove: the parked link is closed, and no other; the upstreams are as   *)
(* they were, but for the signal.                                          *)
LEMMA RemoveLinkKeeps ==
  ASSUME RelayShape, NEW us \in [Upstreams -> Upstream], RemoveLink(us)
  PROVE  /\ hub' = 0
         /\ link' \in [Links -> LinkRecord]
         /\ \A l \in Links : link'[l].relay => link[l].relay /\ l # hub
         /\ ups' \in [Upstreams -> Upstream]
         /\ \A u \in Upstreams : /\ ups'[u].pc = us[u].pc
                                 /\ ups'[u].conn = us[u].conn
                                 /\ ups'[u].stop = us[u].stop
<1>1. ups' \in [Upstreams -> Upstream]
      /\ \A u \in Upstreams : /\ ups'[u].pc = us[u].pc
                              /\ ups'[u].conn = us[u].conn
                              /\ ups'[u].stop = us[u].stop
  BY SignalledKeeps DEF RemoveLink
<1>2. link' \in [Links -> LinkRecord]
  BY LinkSet DEF RemoveLink, RelayShape
<1>3. \A l \in Links : link'[l].relay => link[l].relay /\ l # hub
  BY LinkNames DEF RemoveLink, RelayShape, LinkRecord
<1>. QED BY <1>1, <1>2, <1>3 DEF RemoveLink

(* An upsert renews the record and may close the parked link. *)
LEMMA UpsertInv ==
  ASSUME LinkIInv, Upsert(reg.sent), UNCHANGED handler
  PROVE  RelayShape' /\ Ownership'
<1>. USE LinkNames DEF LinkIInv
<1>1. /\ machine' \in Machine
      /\ machine'.upstream = machine.upstream
      /\ machine'.known
      /\ machine'.dials = hostd.dials
  BY DEF Upsert, HostShape, RelayShape, Machine
<1>2. CASE machine.dials /\ ~hostd.dials
  <2>1. RemoveLink(ups)
    BY <1>2 DEF Upsert
  <2>2. /\ hub' = 0
        /\ link' \in [Links -> LinkRecord]
        /\ \A l \in Links : link'[l].relay => link[l].relay /\ l # hub
        /\ ups' \in [Upstreams -> Upstream]
        /\ \A u \in Upstreams : /\ ups'[u].pc = ups[u].pc
                                /\ ups'[u].conn = ups[u].conn
                                /\ ups'[u].stop = ups[u].stop
    BY <2>1, RemoveLinkKeeps DEF RelayShape
  <2>3. RelayShape'
    BY <1>1, <2>2 DEF RelayShape
  <2>4. RegisteredRuns'
    BY <1>1, <2>2 DEF Ownership, RegisteredRuns, RelayShape, Machine
  <2>. QED BY <1>1, <2>2, <2>3, <2>4, SMTT(30)
           DEF Ownership, UpstreamsOwn, HandlerOwns, HandedOutOnce,
               NoOrphanLink, ParkedIsRegistered, RelayShape
<1>3. CASE ~(machine.dials /\ ~hostd.dials)
  <2>1. UNCHANGED <<hub, link, ups>>
    BY <1>3 DEF Upsert
  <2>2. ParkedIsRegistered'
    BY <1>1, <1>3, <2>1 DEF Ownership, ParkedIsRegistered
  <2>3. RegisteredRuns'
    BY <1>1, <2>1 DEF Ownership, RegisteredRuns
  <2>. QED BY <1>1, <2>1, <2>2, <2>3
           DEF Ownership, UpstreamsOwn, HandlerOwns, HandedOutOnce,
               NoOrphanLink, RelayShape
<1>. QED BY <1>2, <1>3

(* Without the machine, or with a machine that has no upstream any more,   *)
(* no link is parked.                                                      *)
LEMMA RemovedInv ==
  ASSUME LinkIInv, UNCHANGED handler,
         machine' \in Machine, machine'.upstream = 0,
         machine'.online => machine'.known,
         RemoveLink(StopUpstream(ups, machine.upstream))
  PROVE  RelayShape' /\ Ownership'
<1>. USE LinkNames DEF LinkIInv
<1>1. machine.upstream \in Upstreams \cup {0}
  BY DEF RelayShape, Machine
<1>2. /\ StopUpstream(ups, machine.upstream) \in [Upstreams -> Upstream]
      /\ \A u \in Upstreams :
           /\ StopUpstream(ups, machine.upstream)[u].pc = ups[u].pc
           /\ StopUpstream(ups, machine.upstream)[u].conn = ups[u].conn
           /\ u # machine.upstream =>
                StopUpstream(ups, machine.upstream)[u].stop = ups[u].stop
  BY <1>1, StopKeeps DEF RelayShape
<1>3. /\ hub' = 0
      /\ link' \in [Links -> LinkRecord]
      /\ \A l \in Links : link'[l].relay => link[l].relay /\ l # hub
      /\ ups' \in [Upstreams -> Upstream]
      /\ \A u \in Upstreams :
           /\ ups'[u].pc = ups[u].pc /\ ups'[u].conn = ups[u].conn
           /\ u # machine.upstream => ups'[u].stop = ups[u].stop
  BY <1>2, RemoveLinkKeeps
<1>4. RelayShape'
  BY <1>3 DEF RelayShape
<1>5. UpstreamsOwn'
  BY <1>1, <1>3, SMTT(30) DEF Ownership, UpstreamsOwn, RegisteredRuns
<1>6. RegisteredRuns' /\ ParkedIsRegistered'
  BY <1>3 DEF RegisteredRuns, ParkedIsRegistered
<1>. QED BY <1>3, <1>4, <1>5, <1>6, SMTT(30)
         DEF Ownership, HandlerOwns, HandedOutOnce, NoOrphanLink, RelayShape

(* The host's own steps, and links that break: the relay owns what it did. *)
LEMMA HostFrame == HostShape /\ UNCHANGED hostVars => HostShape'
  BY DEF HostShape, hostVars

(* Ownership depends on the relay's ends of the links only.              *)
LEMMA LinkFrame ==
  ASSUME RelayShape, Ownership, UNCHANGED relayVars,
         link' \in [Links -> LinkRecord],
         \A l \in Links : link'[l].relay => link[l].relay
  PROVE  RelayShape' /\ Ownership'
  BY DEF relayVars, RelayShape, Ownership, UpstreamsOwn, RegisteredRuns,
         HandlerOwns, HandedOutOnce, NoOrphanLink, ParkedIsRegistered

(* A step that leaves the relay alone keeps what the relay owns.         *)
LEMMA RelayFrame ==
  RelayShape /\ Ownership /\ UNCHANGED <<link, relayVars>>
    => RelayShape' /\ Ownership'
  BY LinkFrame DEF RelayShape

-----------------------------------------------------------------------------
(* One lemma per action, or per group of actions of one kind.              *)

(* A registration or heartbeat reaches upsert, or is lost.               *)
LEMMA RegSendsInv == LinkIInv /\ RegSends => LinkIInv'
<1>. SUFFICES ASSUME LinkIInv, RegSends PROVE LinkIInv'
  OBVIOUS
<1>1. HostShape'
  BY LinkNames, SMTT(30) DEF LinkIInv, HostShape, RegSends
<1>2. CASE Upsert(reg.sent)
  BY <1>1, <1>2, UpsertInv DEF LinkIInv, RegSends
<1>3. CASE UNCHANGED <<machine, hub, link, ups>>
  BY <1>1, <1>3, RelayFrame DEF LinkIInv, RegSends, relayVars
<1>. QED BY <1>2, <1>3 DEF RegSends

(* A host that ends removes its registration, if the relay hears it.     *)
LEMMA RegStopsInv == LinkIInv /\ RegStops => LinkIInv'
<1>. SUFFICES ASSUME LinkIInv, RegStops PROVE LinkIInv'
  OBVIOUS
<1>1. HostShape'
  <2>1. hostd' \in [up : BOOLEAN, dials : BOOLEAN]
    BY DEF LinkIInv, HostShape, RegStops
  <2>. QED BY <2>1, LinkNames, SMTT(30) DEF LinkIInv, HostShape, RegStops, RegOff
<1>2. CASE machine' = Unknown /\ RemoveLink(StopUpstream(ups, machine.upstream))
  <2>1. machine' \in Machine /\ machine'.upstream = 0 /\ ~machine'.online
    BY <1>2, LinkNames, SMTT(30) DEF Unknown, Machine
  <2>. QED BY <1>1, <1>2, <2>1, RemovedInv DEF LinkIInv, RegStops
<1>3. CASE UNCHANGED <<machine, hub, link, ups>>
  BY <1>1, <1>3, RelayFrame DEF LinkIInv, RegStops, relayVars
<1>. QED BY <1>2, <1>3 DEF RegStops, Deregister

(* A machine that has not been heard of is removed.                      *)
LEMMA ExpireLinkInv == LinkIInv /\ ExpireLink => LinkIInv'
<1>. SUFFICES ASSUME LinkIInv, ExpireLink PROVE LinkIInv'
  OBVIOUS
<1>1. machine' \in Machine /\ machine'.upstream = 0 /\ ~machine'.online
  BY DEF LinkIInv, RelayShape, Machine, ExpireLink
<1>. QED BY <1>1, HostFrame, RemovedInv DEF LinkIInv, ExpireLink

(* Steps of the host that touch none of its links.                       *)
LEMMA HostStepInv ==
  LinkIInv /\ (RegWakes \/ StatusChanges \/ BridgeEnds \/ HostStarts) => LinkIInv'
<1>. SUFFICES ASSUME LinkIInv,
                     RegWakes \/ StatusChanges \/ BridgeEnds \/ HostStarts
              PROVE  LinkIInv'
  OBVIOUS
<1>1. HostShape'
  <2>1. CASE RegWakes
    <3>1. reg' \in [pc : {"off", "send", "wait", "leave"}, first : BOOLEAN,
                    sent : 0..MaxStatus] /\ reg'.pc = "send"
      BY <2>1 DEF LinkIInv, HostShape, RegWakes
    <3>. QED BY <2>1, <3>1 DEF LinkIInv, HostShape, RegWakes
  <2>2. CASE StatusChanges
    BY <2>2, LinkNames, SMTT(30) DEF LinkIInv, HostShape, StatusChanges
  <2>3. CASE BridgeEnds
    BY <2>3 DEF LinkIInv, HostShape, BridgeEnds, DialFails
  <2>4. CASE HostStarts
    BY <2>4, LinkNames, SMTT(30)
       DEF LinkIInv, HostShape, HostStarts, DialStarts, DialOff, RegStarts, RegOff
  <2>. QED BY <2>1, <2>2, <2>3, <2>4
<1>2. UNCHANGED <<link, relayVars>>
  BY DEF RegWakes, StatusChanges, BridgeEnds, HostStarts
<1>. QED BY <1>1, <1>2, RelayFrame DEF LinkIInv

(* dial_out reads the relay's acknowledgement.                           *)
LEMMA DialAckedInv == LinkIInv /\ DialAcked => LinkIInv'
<1>. SUFFICES ASSUME LinkIInv, DialAcked PROVE LinkIInv'
  OBVIOUS
<1>1. HostShape'
  BY SMTT(30) DEF LinkIInv, HostShape, DialAcked, DialFails
<1>2. dial.link \in Links
  BY DEF LinkIInv, HostShape, DialAcked
<1>3. link' \in [Links -> LinkRecord]
  <2>1. [link EXCEPT ![dial.link].acked = FALSE] \in [Links -> LinkRecord]
    BY <1>2, LinkSet DEF LinkIInv, RelayShape
  <2>. QED BY <2>1 DEF LinkIInv, RelayShape, DialAcked
<1>4. \A l \in Links : link'[l].relay => link[l].relay
  BY <1>2 DEF LinkIInv, RelayShape, LinkRecord, DialAcked
<1>. QED BY <1>1, <1>3, <1>4, LinkFrame DEF LinkIInv, DialAcked

(* The bridge ends and closes the host's end of its link.                *)
LEMMA BridgeClosesInv == LinkIInv /\ BridgeCloses => LinkIInv'
<1>. SUFFICES ASSUME LinkIInv, BridgeCloses PROVE LinkIInv'
  OBVIOUS
<1>1. HostShape'
  BY DEF LinkIInv, HostShape, BridgeCloses, DialFails
<1>2. dial.link \in Links
  BY DEF LinkIInv, HostShape, BridgeCloses
<1>3. link' \in [Links -> LinkRecord]
  BY <1>2, LinkSet DEF LinkIInv, RelayShape, BridgeCloses
<1>4. \A l \in Links : link'[l].relay => link[l].relay
  BY <1>2 DEF LinkIInv, RelayShape, LinkRecord, BridgeCloses
<1>. QED BY <1>1, <1>3, <1>4, LinkFrame DEF LinkIInv, BridgeCloses

(* The daemon ends, and with it its ends of all links.                   *)
LEMMA HostEndsInv == LinkIInv /\ HostEnds => LinkIInv'
<1>. SUFFICES ASSUME LinkIInv, HostEnds PROVE LinkIInv'
  OBVIOUS
<1>1. HostShape'
  <2>1. CASE hostd' = [hostd EXCEPT !.up = FALSE] /\ reg' = RegOff
    <3>1. hostd' \in [up : BOOLEAN, dials : BOOLEAN]
      BY <2>1 DEF LinkIInv, HostShape
    <3>. QED BY <2>1, <3>1, LinkNames, SMTT(30)
             DEF LinkIInv, HostShape, HostEnds, RegOff, DialOff
  <2>2. CASE reg.pc = "wait" /\ reg' = [reg EXCEPT !.pc = "leave"]
             /\ UNCHANGED hostd
    BY <2>2 DEF LinkIInv, HostShape, HostEnds, DialOff
  <2>. QED BY <2>1, <2>2 DEF HostEnds
<1>2. ASSUME NEW l \in Links
      PROVE  /\ [link[l] EXCEPT !.host = FALSE] \in LinkRecord
             /\ [link[l] EXCEPT !.host = FALSE].relay = link[l].relay
  <2>1. link[l] \in LinkRecord
    BY DEF LinkIInv, RelayShape
  <2>. QED BY <2>1 DEF LinkRecord
<1>3. /\ link' \in [Links -> LinkRecord]
      /\ \A l \in Links : link'[l].relay => link[l].relay
  BY <1>2 DEF HostEnds, HostEndsClosed
<1>. QED BY <1>1, <1>3, LinkFrame DEF LinkIInv, HostEnds

(* A link breaks, or its loss is noticed.                                *)
LEMMA LinkEndsInv ==
  ASSUME LinkIInv, NEW l \in Links, LinkBreaks(l) \/ EndNoticed(l)
  PROVE  LinkIInv'
<1>1. link' \in [Links -> LinkRecord]
  <2>1. CASE LinkBreaks(l)
    <3>1. /\ [link EXCEPT ![l].host = FALSE] \in [Links -> LinkRecord]
          /\ [link EXCEPT ![l].relay = FALSE] \in [Links -> LinkRecord]
      BY LinkSet DEF LinkIInv, RelayShape
    <3>. QED BY <2>1, <3>1 DEF LinkBreaks
  <2>2. CASE EndNoticed(l)
    BY <2>2 DEF LinkIInv, RelayShape, EndNoticed, Closed, LinkRecord
  <2>. QED BY <2>1, <2>2
<1>2. \A k \in Links : link'[k].relay => link[k].relay
  <2>1. CASE LinkBreaks(l)
    BY <2>1 DEF LinkIInv, RelayShape, LinkRecord, LinkBreaks
  <2>2. CASE EndNoticed(l)
    BY <2>2 DEF LinkIInv, RelayShape, LinkRecord, EndNoticed, Closed
  <2>. QED BY <2>1, <2>2
<1>3. UNCHANGED hostVars /\ UNCHANGED relayVars
  BY DEF LinkBreaks, EndNoticed
<1>. QED BY <1>1, <1>2, <1>3, HostFrame, LinkFrame DEF LinkIInv

(* A new link belongs to its handler. *)
LEMMA DialConnectsInv == LinkIInv /\ DialConnects => LinkIInv'
<1>. SUFFICES ASSUME LinkIInv, DialConnects PROVE LinkIInv'
  OBVIOUS
<1>. DEFINE l == Some(FreeLinks)
<1>1. l \in FreeLinks
  BY DEF DialConnects, Some
<1>2. l \in Links /\ l # 0 /\ hub # l /\ \A u \in Upstreams : ups[u].conn # l
  BY <1>1, LinkNames DEF FreeLinks
<1>. HIDE DEF l
<1>. DEFINE new == [Closed EXCEPT !.host = TRUE, !.relay = TRUE]
<1>a. new \in LinkRecord
  BY DEF Closed, LinkRecord
<1>. HIDE DEF new
<1>3. /\ dial' = [pc |-> "ack", link |-> l]
      /\ link' = [link EXCEPT ![l] = new]
      /\ handler' = [handler EXCEPT ![l] = "hello"]
      /\ UNCHANGED <<hostd, runtime, reg, machine, hub, ups>>
  BY DEF DialConnects, l, new
<1>4. HostShape'
  BY <1>2, <1>3 DEF LinkIInv, HostShape
<1>5. RelayShape'
  BY <1>2, <1>3, <1>a DEF LinkIInv, RelayShape, LinkPlaces
<1>6. NoOrphanLink' /\ HandlerOwns'
  BY <1>2, <1>3 DEF LinkIInv, RelayShape, Ownership, NoOrphanLink, HandlerOwns
<1>. QED BY <1>3, <1>4, <1>5, <1>6
         DEF LinkIInv, Ownership, UpstreamsOwn, RegisteredRuns, HandedOutOnce,
             ParkedIsRegistered

(* The handler answers or gives its link up.                             *)
LEMMA HandlerAcksInv ==
  ASSUME LinkIInv, NEW l \in Links, HandlerAcks(l) PROVE LinkIInv'
<1>1. HostShape' /\ UNCHANGED <<machine, hub, ups>>
  BY HostFrame DEF LinkIInv, HandlerAcks
<1>2. CASE /\ link' = [link EXCEPT ![l].acked = TRUE]
           /\ handler' = [handler EXCEPT ![l] = "park"]
  <2>1. link' \in [Links -> LinkRecord]
    BY <1>2, LinkSet DEF LinkIInv, RelayShape
  <2>2. \A k \in Links : link'[k].relay = link[k].relay
    BY <1>2 DEF LinkIInv, RelayShape, LinkRecord
  <2>3. RelayShape'
    BY <1>1, <1>2, <2>1 DEF LinkIInv, RelayShape, LinkPlaces
  <2>. QED BY <1>1, <1>2, <2>2, <2>3, SMTT(30)
           DEF LinkIInv, HandlerAcks, RelayShape, Ownership, UpstreamsOwn,
               RegisteredRuns, HandlerOwns, HandedOutOnce, NoOrphanLink,
               ParkedIsRegistered
<1>3. CASE Rejected(l)
  <2>1. link' \in [Links -> LinkRecord]
    BY <1>3, LinkSet DEF LinkIInv, RelayShape, Rejected
  <2>2. ~link'[l].relay /\ \A k \in Links : link'[k].relay => link[k].relay
    BY <1>3 DEF LinkIInv, RelayShape, LinkRecord, Rejected
  <2>3. RelayShape'
    BY <1>1, <1>3, <2>1 DEF LinkIInv, RelayShape, LinkPlaces, Rejected
  <2>. QED BY <1>1, <1>3, <2>2, <2>3
           DEF LinkIInv, Rejected, RelayShape, Ownership, UpstreamsOwn,
               RegisteredRuns, HandlerOwns, HandedOutOnce, NoOrphanLink,
               ParkedIsRegistered
<1>. QED BY <1>2, <1>3 DEF HandlerAcks

(* The handler gives its link to the hub, or closes it; so is a link that  *)
(* was parked before.                                                      *)
LEMMA HandlerParksInv ==
  ASSUME LinkIInv, NEW l \in Links, HandlerParks(l) PROVE LinkIInv'
<1>1. HostShape' /\ UNCHANGED machine
  BY HostFrame DEF LinkIInv, HandlerParks
<1>2. CASE machine.known /\ machine.dials /\ machine.fresh
  <2>1. /\ hub' = l /\ ups' = Signalled(ups)
        /\ handler' = [handler EXCEPT ![l] = "none"]
        /\ link' = [k \in Links |-> IF k = hub /\ k # l
                      THEN [link[k] EXCEPT !.relay = FALSE] ELSE link[k]]
    BY <1>2 DEF HandlerParks
  <2>2. ASSUME NEW k \in Links
        PROVE  /\ [link[k] EXCEPT !.relay = FALSE] \in LinkRecord
               /\ ~[link[k] EXCEPT !.relay = FALSE].relay
    <3>1. link[k] \in LinkRecord
      BY DEF LinkIInv, RelayShape
    <3>. QED BY <3>1 DEF LinkRecord
  <2>3. /\ link' \in [Links -> LinkRecord]
        /\ \A k \in Links : link'[k].relay => link[k].relay /\ (k # hub \/ k = l)
    BY <2>1, <2>2 DEF LinkIInv, RelayShape
  <2>4. /\ ups' \in [Upstreams -> Upstream]
        /\ \A u \in Upstreams : /\ ups'[u].pc = ups[u].pc
                                /\ ups'[u].conn = ups[u].conn
                                /\ ups'[u].stop = ups[u].stop
    BY <2>1, SignalledKeeps DEF LinkIInv, RelayShape
  <2>5. RelayShape'
    BY <1>1, <2>1, <2>3, <2>4 DEF LinkIInv, RelayShape, LinkPlaces
  <2>6. RegisteredRuns' /\ ParkedIsRegistered'
    BY <1>1, <1>2, <2>4
       DEF LinkIInv, Ownership, RegisteredRuns, ParkedIsRegistered, RelayShape, Machine
  <2>7. \A u \in Upstreams : ups[u].conn # l
    BY DEF LinkIInv, Ownership, HandlerOwns, HandlerParks
  <2>8. HandlerOwns' /\ HandedOutOnce' /\ NoOrphanLink'
    BY <2>1, <2>3, <2>4, <2>7, SMTT(30)
       DEF LinkIInv, RelayShape, Ownership, HandlerOwns, HandedOutOnce, NoOrphanLink
  <2>. QED BY <1>1, <2>4, <2>5, <2>6, <2>8
           DEF LinkIInv, Ownership, UpstreamsOwn
<1>3. CASE ~(machine.known /\ machine.dials /\ machine.fresh)
  <2>1. Rejected(l) /\ UNCHANGED <<hub, ups>>
    BY <1>3 DEF HandlerParks
  <2>2. link' \in [Links -> LinkRecord]
    BY <2>1, LinkSet DEF LinkIInv, RelayShape, Rejected
  <2>3. ~link'[l].relay /\ \A k \in Links : link'[k].relay => link[k].relay
    BY <2>1 DEF LinkIInv, RelayShape, LinkRecord, Rejected
  <2>4. RelayShape'
    BY <1>1, <2>1, <2>2 DEF LinkIInv, RelayShape, LinkPlaces, Rejected
  <2>. QED BY <1>1, <2>1, <2>3, <2>4
           DEF LinkIInv, Rejected, RelayShape, Ownership, UpstreamsOwn,
               RegisteredRuns, HandlerOwns, HandedOutOnce, NoOrphanLink,
               ParkedIsRegistered
<1>. QED BY <1>2, <1>3

(* The hub forgets a parked link that is closed.                         *)
LEMMA HubForgetsInv ==
  ASSUME LinkIInv, NEW l \in Links, HubForgets(l) PROVE LinkIInv'
<1>1. HostShape' /\ UNCHANGED <<handler, machine, link>> /\ hub' = 0
  BY HostFrame DEF LinkIInv, HubForgets
<1>2. /\ ups' \in [Upstreams -> Upstream]
      /\ \A u \in Upstreams : /\ ups'[u].pc = ups[u].pc
                              /\ ups'[u].conn = ups[u].conn
                              /\ ups'[u].stop = ups[u].stop
  BY SignalledKeeps DEF LinkIInv, RelayShape, HubForgets
<1>3. RelayShape'
  BY <1>1, <1>2 DEF LinkIInv, RelayShape
<1>4. RegisteredRuns'
  BY <1>1, <1>2 DEF LinkIInv, Ownership, RegisteredRuns, RelayShape, Machine
<1>. QED BY <1>1, <1>2, <1>3, <1>4, LinkNames, SMTT(30)
         DEF LinkIInv, HubForgets, RelayShape, Ownership, UpstreamsOwn,
             HandlerOwns, HandedOutOnce, NoOrphanLink, ParkedIsRegistered

(* A viewer's acquire starts an upstream or joins the one there is.      *)
LEMMA LinkAcquireInv == LinkIInv /\ LinkAcquire => LinkIInv'
<1>. SUFFICES ASSUME LinkIInv, LinkAcquire PROVE LinkIInv'
  OBVIOUS
<1>. DEFINE u == Some(FreeUpstreams)
<1>1. u \in FreeUpstreams
  BY DEF LinkAcquire, Some
<1>2. u \in Upstreams /\ ups[u].pc = "none"
  BY <1>1 DEF FreeUpstreams
<1>. HIDE DEF u
<1>3. /\ machine' = [machine EXCEPT !.upstream = u]
      /\ ups' = [ups EXCEPT ![u].pc = "check"]
      /\ UNCHANGED <<handler, hub, link>>
  BY DEF LinkAcquire, u
<1>4. HostShape'
  BY HostFrame DEF LinkIInv, LinkAcquire
<1>5. ups' \in [Upstreams -> Upstream]
  <2>1. "check" \in UpstreamPlaces
    BY DEF UpstreamPlaces
  <2>. QED BY <1>2, <1>3, <2>1, UpstreamMoves DEF LinkIInv, RelayShape
<1>6. /\ ups'[u].pc = "check"
      /\ \A v \in Upstreams : /\ ups'[v].conn = ups[v].conn
                              /\ ups'[v].stop = ups[v].stop
                              /\ v # u => ups'[v].pc = ups[v].pc
  BY <1>2, <1>3 DEF LinkIInv, RelayShape, Upstream
<1>7. /\ machine' \in Machine /\ machine'.upstream = u
      /\ machine'.known = machine.known /\ machine'.dials = machine.dials
      /\ machine'.online = machine.online
  BY <1>2, <1>3 DEF LinkIInv, RelayShape, Machine
<1>8. machine.known
  BY DEF LinkIInv, LinkAcquire, Ownership, RegisteredRuns
<1>9. RelayShape'
  BY <1>3, <1>5, <1>7 DEF LinkIInv, RelayShape
<1>10. UpstreamsOwn'
  BY <1>2, <1>6 DEF LinkIInv, Ownership, UpstreamsOwn
<1>11. RegisteredRuns'
  BY <1>2, <1>6, <1>7, <1>8, <1>10
     DEF LinkIInv, Ownership, UpstreamsOwn, RegisteredRuns
<1>. QED BY <1>3, <1>4, <1>6, <1>7, <1>9, <1>10, <1>11, SMTT(30)
         DEF LinkIInv, Ownership, HandlerOwns, HandedOutOnce, NoOrphanLink,
             ParkedIsRegistered

(* The last viewer's release stops the upstream.                         *)
LEMMA LinkReleaseInv == LinkIInv /\ LinkRelease => LinkIInv'
<1>. SUFFICES ASSUME LinkIInv, LinkRelease PROVE LinkIInv'
  OBVIOUS
<1>1. machine.upstream \in Upstreams
  BY DEF LinkIInv, RelayShape, Machine, LinkRelease
<1>2. HostShape' /\ UNCHANGED <<handler, hub, link>>
  BY HostFrame DEF LinkIInv, LinkRelease
<1>3. /\ ups' \in [Upstreams -> Upstream]
      /\ \A u \in Upstreams :
           /\ ups'[u].pc = ups[u].pc /\ ups'[u].conn = ups[u].conn
           /\ u # machine.upstream => ups'[u].stop = ups[u].stop
  BY <1>1, StopKeeps DEF LinkIInv, RelayShape, LinkRelease
<1>4. /\ machine' \in Machine /\ machine'.upstream = 0
      /\ machine'.known = machine.known /\ machine'.dials = machine.dials
      /\ machine'.online = machine.online
  BY DEF LinkIInv, RelayShape, Machine, LinkRelease
<1>5. RelayShape'
  BY <1>2, <1>3, <1>4 DEF LinkIInv, RelayShape
<1>6. UpstreamsOwn' /\ RegisteredRuns'
  BY <1>1, <1>3, <1>4, LinkNames, SMTT(30) DEF LinkIInv, Ownership, UpstreamsOwn, RegisteredRuns
<1>. QED BY <1>2, <1>3, <1>4, <1>5, <1>6, SMTT(30)
         DEF LinkIInv, Ownership, HandlerOwns, HandedOutOnce, NoOrphanLink,
             ParkedIsRegistered

(* take and serveQUIC, but for the moment a link is taken: the upstream    *)
(* moves, no connection changes hands.                                     *)
LEMMA TakeChecksInv ==
  ASSUME LinkIInv, NEW u \in Upstreams, TakeChecks(u) PROVE LinkIInv'
<1>1. HostShape' /\ UNCHANGED <<handler, machine, hub, link>>
  BY HostFrame DEF LinkIInv, TakeChecks
<1>. QED BY <1>1, LinkNames, SMTT(30)
         DEF LinkIInv, TakeChecks, NoUpstream, RelayShape, Upstream,
             UpstreamPlaces, Machine, Ownership, UpstreamsOwn, RegisteredRuns,
             HandlerOwns, HandedOutOnce, NoOrphanLink, ParkedIsRegistered

(* take finds a parked link and hands it out, or goes to wait.           *)
LEMMA TakeLooksInv ==
  ASSUME LinkIInv, NEW u \in Upstreams, TakeLooks(u) PROVE LinkIInv'
<1>1. /\ HostShape' /\ UNCHANGED <<handler, machine, link>> /\ hub' = 0
      /\ ups[u].pc = "look"
  BY HostFrame DEF LinkIInv, TakeLooks
<1>. DEFINE c == IF hub # 0 /\ link[hub].relay THEN hub ELSE 0
            p == IF hub = 0 THEN "wait"
                 ELSE IF link[hub].relay THEN "serve" ELSE "check"
<1>2. /\ ups' \in [Upstreams -> Upstream]
      /\ ups'[u].pc = p /\ ups'[u].conn = c
      /\ \A v \in Upstreams :
           /\ ups'[v].stop = ups[v].stop
           /\ v # u => ups'[v].pc = ups[v].pc /\ ups'[v].conn = ups[v].conn
  <2>1. ups[u].conn = 0
    BY DEF LinkIInv, Ownership, UpstreamsOwn, TakeLooks
  <2>2. {"wait", "serve", "check"} \subseteq UpstreamPlaces
    BY DEF UpstreamPlaces
  <2>3. CASE hub = 0
    <3>1. ups' = [ups EXCEPT ![u].pc = "wait", ![u].signalled = FALSE]
      BY <2>3 DEF TakeLooks
    <3>2. ups' \in [Upstreams -> Upstream]
      BY <2>2, <3>1, UpstreamMoves, LinkNames, ZenonT(40) DEF LinkIInv, RelayShape
    <3>. QED BY <2>1, <2>3, <3>1, <3>2 DEF LinkIInv, RelayShape, Upstream
  <2>4. CASE hub # 0 /\ link[hub].relay
    <3>. DEFINE f == [ups EXCEPT ![u].pc = "serve", ![u].conn = hub]
    <3>1. ups' = Signalled(f)
      BY <2>4 DEF TakeLooks
    <3>2. f \in [Upstreams -> Upstream]
      BY <2>2, UpstreamMoves DEF LinkIInv, RelayShape
    <3>3. /\ f[u].pc = "serve" /\ f[u].conn = hub
          /\ \A v \in Upstreams :
               /\ f[v].stop = ups[v].stop
               /\ v # u => f[v].pc = ups[v].pc /\ f[v].conn = ups[v].conn
      BY DEF LinkIInv, RelayShape, Upstream
    <3>. HIDE DEF f
    <3>. QED BY <2>4, <3>1, <3>2, <3>3, SignalledKeeps, SMTT(30)
  <2>5. CASE hub # 0 /\ ~link[hub].relay
    <3>. DEFINE f == [ups EXCEPT ![u].pc = "check"]
    <3>1. ups' = Signalled(f)
      BY <2>5 DEF TakeLooks
    <3>2. f \in [Upstreams -> Upstream]
      BY <2>2, UpstreamMoves DEF LinkIInv, RelayShape
    <3>3. /\ f[u].pc = "check" /\ f[u].conn = 0
          /\ \A v \in Upstreams :
               /\ f[v].stop = ups[v].stop
               /\ v # u => f[v].pc = ups[v].pc /\ f[v].conn = ups[v].conn
      BY <2>1 DEF LinkIInv, RelayShape, Upstream
    <3>. HIDE DEF f
    <3>. QED BY <2>5, <3>1, <3>2, <3>3, SignalledKeeps, SMTT(30)
  <2>. QED BY <2>3, <2>4, <2>5
<1>3. /\ p # "none" /\ (p = "serve" <=> c # 0)
      /\ c # 0 => c = hub
      /\ hub # 0 /\ link[hub].relay => c = hub
  OBVIOUS
<1>. HIDE DEF c, p
<1>4. RelayShape'
  BY <1>1, <1>2 DEF LinkIInv, RelayShape
<1>5. UpstreamsOwn' /\ RegisteredRuns' /\ ParkedIsRegistered'
  BY <1>1, <1>2, <1>3, SMTT(30)
     DEF LinkIInv, RelayShape, Machine, Ownership, UpstreamsOwn, RegisteredRuns,
         ParkedIsRegistered
<1>6. HandlerOwns' /\ HandedOutOnce' /\ NoOrphanLink'
  BY <1>1, <1>2, <1>3, LinkNames, SMTT(30)
     DEF LinkIInv, RelayShape, Ownership, UpstreamsOwn, HandlerOwns,
         HandedOutOnce, NoOrphanLink
<1>. QED BY <1>1, <1>4, <1>5, <1>6 DEF LinkIInv, Ownership

(* take wakes from its wait: signalled, stopped or timed out.            *)
LEMMA TakeWaitsInv ==
  ASSUME LinkIInv, NEW u \in Upstreams, TakeWaits(u) PROVE LinkIInv'
<1>1. HostShape' /\ UNCHANGED <<handler, machine, hub, link>>
  BY HostFrame DEF LinkIInv, TakeWaits
<1>2. ups[u].pc = "wait" /\ ups[u].conn = 0
  BY DEF LinkIInv, Ownership, UpstreamsOwn, TakeWaits
<1>3. CASE ups' = [ups EXCEPT ![u].pc = "check"]
  <2>1. "check" \in UpstreamPlaces
    BY DEF UpstreamPlaces
  <2>2. ups' \in [Upstreams -> Upstream]
    BY <1>3, <2>1, UpstreamMoves DEF LinkIInv, RelayShape
  <2>3. /\ ups'[u].pc = "check"
        /\ \A v \in Upstreams : /\ ups'[v].stop = ups[v].stop
                                /\ ups'[v].conn = ups[v].conn
                                /\ v # u => ups'[v].pc = ups[v].pc
    BY <1>3 DEF LinkIInv, RelayShape, Upstream
  <2>4. RelayShape'
    BY <1>1, <2>2 DEF LinkIInv, RelayShape
  <2>5. RegisteredRuns' /\ UpstreamsOwn'
    BY <1>1, <1>2, <2>3
       DEF LinkIInv, RelayShape, Machine, Ownership, RegisteredRuns, UpstreamsOwn
  <2>. QED BY <1>1, <2>3, <2>4, <2>5, SMTT(30)
           DEF LinkIInv, Ownership, HandlerOwns, HandedOutOnce, NoOrphanLink,
               ParkedIsRegistered
<1>4. CASE ups[u].stop /\ ups' = [ups EXCEPT ![u] = NoUpstream]
  BY <1>1, <1>2, <1>4, LinkNames, SMTT(30)
     DEF LinkIInv, NoUpstream, RelayShape, Upstream, UpstreamPlaces, Machine,
         Ownership, UpstreamsOwn, RegisteredRuns, HandlerOwns, HandedOutOnce,
         NoOrphanLink, ParkedIsRegistered
<1>. QED BY <1>3, <1>4 DEF TakeWaits

(* serveQUIC closes the link it had. *)
LEMMA ServeEndsInv ==
  ASSUME LinkIInv, NEW u \in Upstreams, ServeEnds(u) PROVE LinkIInv'
<1>1. HostShape' /\ UNCHANGED <<handler, machine, hub>>
  BY HostFrame DEF LinkIInv, ServeEnds
<1>. DEFINE l == ups[u].conn
<1>2. l \in Links
  BY DEF LinkIInv, RelayShape, Upstream, Ownership, UpstreamsOwn, ServeEnds
<1>3. /\ link' \in [Links -> LinkRecord]
      /\ ~link'[l].relay /\ \A k \in Links : link'[k].relay => link[k].relay
  <2>1. link' \in [Links -> LinkRecord]
    BY <1>2, LinkSet DEF LinkIInv, RelayShape, ServeEnds
  <2>. QED BY <1>2, <2>1 DEF LinkIInv, RelayShape, LinkRecord, ServeEnds
<1>4. ups' \in [Upstreams -> Upstream]
  <2>1. "check" \in UpstreamPlaces
    BY DEF UpstreamPlaces
  <2>. QED BY <2>1, UpstreamMoves DEF LinkIInv, RelayShape, ServeEnds
<1>5. /\ ups'[u].pc = "check" /\ ups'[u].conn = 0
      /\ \A v \in Upstreams :
           /\ ups'[v].stop = ups[v].stop
           /\ v # u => ups'[v].pc = ups[v].pc /\ ups'[v].conn = ups[v].conn
  BY DEF LinkIInv, RelayShape, Upstream, ServeEnds
<1>6. RelayShape'
  BY <1>1, <1>3, <1>4 DEF LinkIInv, RelayShape
<1>7. UpstreamsOwn' /\ RegisteredRuns' /\ ParkedIsRegistered'
  BY <1>1, <1>5
     DEF LinkIInv, RelayShape, Machine, Ownership, UpstreamsOwn, RegisteredRuns,
         ParkedIsRegistered, ServeEnds
<1>8. HandlerOwns' /\ HandedOutOnce' /\ NoOrphanLink'
  BY <1>1, <1>3, <1>5, LinkNames, SMTT(30)
     DEF LinkIInv, RelayShape, Ownership, HandlerOwns, HandedOutOnce, NoOrphanLink
<1>. QED BY <1>1, <1>6, <1>7, <1>8 DEF LinkIInv, Ownership

(* A relay that restarts knows no machine and owns no link.              *)
LEMMA RelayRestartsInv == LinkIInv /\ RelayRestarts => LinkIInv'
<1>. SUFFICES ASSUME LinkIInv, RelayRestarts PROVE LinkIInv'
  OBVIOUS
<1>1. ASSUME NEW l \in Links
      PROVE  /\ [link[l] EXCEPT !.relay = FALSE] \in LinkRecord
             /\ ~[link[l] EXCEPT !.relay = FALSE].relay
  <2>1. link[l] \in LinkRecord
    BY DEF LinkIInv, RelayShape
  <2>. QED BY <2>1 DEF LinkRecord
<1>2. /\ link' \in [Links -> LinkRecord]
      /\ \A l \in Links : ~link'[l].relay
  BY <1>1 DEF RelayRestarts
<1>. QED BY <1>2, HostFrame, LinkNames, SMTT(30)
         DEF LinkIInv, RelayRestarts, NoUpstream, Unknown, RelayShape, Upstream,
             UpstreamPlaces, LinkPlaces, Machine, Ownership, UpstreamsOwn,
             RegisteredRuns, HandlerOwns, HandedOutOnce, NoOrphanLink,
             ParkedIsRegistered

(* A host whose heartbeats stop is only not heard of any more.           *)
LEMMA HeartbeatsStopInv == LinkIInv /\ HeartbeatsStop => LinkIInv'
<1>. SUFFICES ASSUME LinkIInv, HeartbeatsStop PROVE LinkIInv'
  OBVIOUS
<1>1. /\ machine' \in Machine
      /\ machine'.known = machine.known /\ machine'.online = machine.online
      /\ machine'.dials = machine.dials /\ machine'.upstream = machine.upstream
  BY DEF LinkIInv, RelayShape, Machine, HeartbeatsStop
<1>. QED BY <1>1, HostFrame
         DEF LinkIInv, HeartbeatsStop, RelayShape, Ownership, UpstreamsOwn,
             RegisteredRuns, HandlerOwns, HandedOutOnce, NoOrphanLink,
             ParkedIsRegistered

-----------------------------------------------------------------------------
(* The invariant holds in every reachable state. *)
THEOREM LinksInvariant == LinksSpec => []LinkIInv
<1>1. LinkIInv /\ UNCHANGED linkVars => LinkIInv'
  BY HostFrame, RelayFrame DEF LinkIInv, linkVars
<1>2. ASSUME LinkIInv, LinksNext PROVE LinkIInv'
  <2>1. CASE RegStep
    BY <1>2, <2>1, RegSendsInv, RegStopsInv, HostStepInv DEF RegStep
  <2>2. CASE DialStep \/ BridgeCloses
    BY <1>2, <2>2, DialConnectsInv, DialAckedInv, HostStepInv, BridgeClosesInv
       DEF DialStep
  <2>3. CASE \E l \in Links : \/ HandlerStep(l) \/ HubForgets(l)
                              \/ LinkBreaks(l) \/ EndNoticed(l)
    BY <1>2, <2>3, HandlerAcksInv, HandlerParksInv, HubForgetsInv, LinkEndsInv
       DEF HandlerStep
  <2>4. CASE \E u \in Upstreams : UpstreamStep(u)
    BY <1>2, <2>4, TakeChecksInv, TakeLooksInv, TakeWaitsInv, ServeEndsInv
       DEF UpstreamStep
  <2>5. CASE \/ LinkAcquire \/ LinkRelease \/ ExpireLink \/ HostStarts
             \/ HostEnds \/ RelayRestarts \/ HeartbeatsStop \/ StatusChanges
    BY <1>2, <2>5, LinkAcquireInv, LinkReleaseInv, ExpireLinkInv, HostStepInv,
       HostEndsInv, RelayRestartsInv, HeartbeatsStopInv
  <2>. QED BY <1>2, <2>1, <2>2, <2>3, <2>4, <2>5 DEF LinksNext
<1>. QED BY <1>1, <1>2, InitInv, PTL DEF LinksSpec

(* take hands a parked link to one upstream only, for any number of links  *)
(* and upstreams: it leaves the hub under the lock it was found with.      *)
THEOREM HandedOutOnceHolds == LinksSpec => []HandedOutOnce
  BY LinksInvariant, PTL DEF LinkIInv, Ownership

(* handleHostLink, the hub and serveQUIC leave no link open at the relay   *)
(* that none of them owns.                                                 *)
THEOREM NoOrphanLinkHolds == LinksSpec => []NoOrphanLink
  BY LinksInvariant, PTL DEF LinkIInv, Ownership

(* parkHostLink and upsert keep the hub in step with the registry: what is *)
(* parked belongs to a machine that is known and dials out.                *)
THEOREM ParkedIsRegisteredHolds == LinksSpec => []ParkedIsRegistered
  BY LinksInvariant, PTL DEF LinkIInv, Ownership

(* Every link open at the relay has exactly one owner there and waits for  *)
(* a registered machine only, through re-dials, relay restarts, expired    *)
(* registrations and upstreams that give up.                               *)
THEOREM LinksAreAlwaysOwned == LinksSpec => []LinksAreOwned
  BY HandedOutOnceHolds, NoOrphanLinkHolds, ParkedIsRegisteredHolds, PTL DEF LinksAreOwned

(* Every variable stays in its range, and connections are held exactly     *)
(* where an upstream serves, a link where dial_out waits or bridges.       *)
THEOREM LinkTypeOKHolds == LinksSpec => []LinkTypeOK
<1>1. LinkIInv => LinkTypeOK
  <2>. SUFFICES ASSUME LinkIInv PROVE LinkTypeOK
    OBVIOUS
  <2>1. \A u \in Upstreams :
          /\ ups[u].pc \in UpstreamPlaces
          /\ IF ups[u].pc = "serve" THEN ups[u].conn \in Links ELSE ups[u].conn = 0
    BY DEF LinkIInv, RelayShape, Upstream, Ownership, UpstreamsOwn
  <2>. QED BY <2>1, LinkNames
           DEF LinkIInv, HostShape, RelayShape, Ownership, RegisteredRuns,
               LinkTypeOK, LinkPlaces, UpstreamPlaces
<1>. QED BY <1>1, LinksInvariant, PTL

-----------------------------------------------------------------------------
(* CaptureLoop.                                                            *)

(* Every initial state satisfies the inductive invariant. *)
LEMMA InitIInv == Init => IInv
<1> SUFFICES ASSUME Init PROVE IInv
  OBVIOUS
<1>1. host \in HostType /\ host.native \in Sizes /\ 0 \in SizeOrNone
  BY ConstantsAssumption, SMTT(30) DEF Init, HostType, SizeOrNone
<1>2. status \in StatusType
  BY <1>1 DEF Init, StatusType
<1>3. queue \in Seq(Requestable) /\ Len(queue) <= MaxQueue
  BY ConstantsAssumption, SMTT(30) DEF Init
<1>4. events \in 0..MaxEvents
  BY ConstantsAssumption, SMTT(30) DEF Init
<1>5. session \in SizeOrNone
  BY ConstantsAssumption, <1>1, SMTT(30) DEF Init, Sizes, SizeOrNone
<1>6. TypeOK
  BY <1>1, <1>2, <1>3, <1>4, <1>5 DEF Init, TypeOK
<1> QED
  BY <1>6 DEF Init, IInv, EncoderMatchesFrames, KeyframeOwed, SuccessIsLatest

(* A request at the head of the queue is a requestable size. *)
LEMMA HeadRequest ==
  ASSUME TypeOK, queue # <<>>
  PROVE  /\ Head(queue) \in Requestable
         /\ Head(queue) \in SizeOrNone
         /\ Head(queue) # 0
         /\ Tail(queue) \in Seq(Requestable)
         /\ Len(Tail(queue)) <= MaxQueue
<1>1. queue \in Seq(Requestable) /\ Len(queue) <= MaxQueue /\ Len(queue) \in Nat
  BY SMTT(30) DEF TypeOK
<1>2. Head(queue) \in Requestable /\ Tail(queue) \in Seq(Requestable)
  BY <1>1, SMTT(30)
<1>3. Len(Tail(queue)) = Len(queue) - 1
  BY <1>1, SMTT(30)
<1>4. \A size \in Requestable : size \in SizeOrNone /\ size # 0
  BY ConstantsAssumption, SMTT(30) DEF Sizes, SizeOrNone
<1>5. Len(queue) - 1 <= MaxQueue
  BY <1>1, ConstantsAssumption, SMTT(30)
<1> QED
  BY <1>2, <1>3, <1>4, <1>5

(* AskMode keeps the types. *)
LEMMA AskModeType == TypeOK /\ AskMode => TypeOK'
  BY ConstantsAssumption, SMTT(30)
  DEF TypeOK, AskMode, Sizes, SizeOrNone, HostType, StatusType,
      here, loopVars, displayVars, encoderVars, trackerVars

(* AskKeyframe keeps the types. *)
LEMMA AskKeyframeType == TypeOK /\ AskKeyframe => TypeOK'
  BY ConstantsAssumption
  DEF TypeOK, AskKeyframe, Sizes, SizeOrNone, HostType, StatusType,
      here, loopVars, displayVars, encoderVars, trackerVars

(* FrameArrives keeps the types. *)
LEMMA FrameArrivesType == TypeOK /\ FrameArrives => TypeOK'
  BY ConstantsAssumption, SMTT(30)
  DEF TypeOK, FrameArrives, FrameSize, Windows, Sizes, SizeOrNone, HostType, StatusType,
      here, loopVars, displayVars, encoderVars, trackerVars

(* CompositorApplies keeps the types. *)
LEMMA CompositorAppliesType == TypeOK /\ CompositorApplies => TypeOK'
  BY ConstantsAssumption, SMTT(30)
  DEF TypeOK, CompositorApplies, Sizes, SizeOrNone, HostType, StatusType,
      here, loopVars, displayVars, encoderVars, trackerVars

(* CaptureCloses keeps the types. *)
LEMMA CaptureClosesType ==
  ASSUME TypeOK, CaptureCloses
  PROVE  TypeOK'
<1> USE DEF CaptureCloses, here, loopVars, displayVars, encoderVars, trackerVars
<1>1. host' \in Hosts /\ queue' \in Seq(Requestable) /\ Len(queue') <= MaxQueue
  BY ConstantsAssumption DEF TypeOK
<1>2. /\ idr' \in BOOLEAN /\ alive' \in BOOLEAN /\ force' \in BOOLEAN
      /\ backoff' \in BOOLEAN /\ owed' \in BOOLEAN
  BY DEF TypeOK
<1>3. /\ primary' \in Sizes /\ screen' \in Sizes /\ asked' \in SizeOrNone
      /\ session' \in SizeOrNone /\ slot' \in SizeOrNone
      /\ frame' \in SizeOrNone
  BY ConstantsAssumption DEF TypeOK, Sizes, SizeOrNone, HostType
<1>4. /\ enc' \in SizeOrNone /\ captureRes' \in SizeOrNone
      /\ encodeRes' \in SizeOrNone
  BY ConstantsAssumption DEF TypeOK, Sizes, SizeOrNone, HostType
<1>5. /\ pending' \in SizeOrNone /\ target' \in SizeOrNone
      /\ latest' \in SizeOrNone /\ success' \in SizeOrNone
      /\ recovering' \in SizeOrNone
  BY ConstantsAssumption DEF TypeOK, Sizes, SizeOrNone
<1>6. status' \in StatusType
  BY ConstantsAssumption DEF TypeOK, StatusType, Sizes, SizeOrNone
<1>7. /\ pc' \in {"top", "serve", "capture", "recover", "replug", "rollback",
                   "retry", "frame", "encode", "done"}
      /\ packet' \in {"none", "delta", "key"}
      /\ events' \in 0..MaxEvents
  BY ConstantsAssumption, SMTT(30) DEF TypeOK
<1> QED
  BY <1>1, <1>2, <1>3, <1>4, <1>5, <1>6, <1>7 DEF TypeOK

(* DisplayChanges keeps the types. *)
LEMMA DisplayChangesType == TypeOK /\ DisplayChanges => TypeOK'
  BY ConstantsAssumption, SMTT(30)
  DEF TypeOK, DisplayChanges, Sizes, SizeOrNone, HostType, StatusType,
      here, loopVars, displayVars, encoderVars, trackerVars

(* RetryDue keeps the types. *)
LEMMA RetryDueType == TypeOK /\ RetryDue => TypeOK'
  BY ConstantsAssumption
  DEF TypeOK, RetryDue, Sizes, SizeOrNone, HostType, StatusType,
      here, loopVars, displayVars, encoderVars, trackerVars

(* NoRequest keeps the types. *)
LEMMA NoRequestType == TypeOK /\ NoRequest => TypeOK'
  BY ConstantsAssumption
  DEF TypeOK, NoRequest, Sizes, SizeOrNone, HostType, StatusType,
      here, loopVars, displayVars, encoderVars, trackerVars

(* TakeRequestWindows keeps the types. *)
LEMMA TakeRequestWindowsType ==
  ASSUME TypeOK, TakeRequestWindows
  PROVE  TypeOK'
<1> DEFINE h == Head(queue)
<1>1. queue # <<>>
  BY DEF TakeRequestWindows
<1>2. h \in SizeOrNone /\ Tail(queue) \in Seq(Requestable) /\ Len(Tail(queue)) <= MaxQueue
  BY <1>1, HeadRequest
<1>3. 0 \in SizeOrNone
  BY ConstantsAssumption, SMTT(30) DEF SizeOrNone
<1> HIDE DEF h
<1>4. /\ queue' = Tail(queue) /\ latest' = h /\ success' = 0
      /\ UNCHANGED <<host, frame, idr, primary, screen, asked, backoff, pending,
                     recovering, packet, owed, events>>
      /\ target' \in {target, h} /\ session' \in {session, 0}
      /\ slot' \in {slot, 0} /\ enc' \in {enc, 0}
      /\ captureRes' \in {captureRes, 0} /\ encodeRes' \in {encodeRes, 0}
  BY DEF h, TakeRequestWindows, Started, Publish, DropEncoder,
     ReleaseCapture, here, loopVars, displayVars, encoderVars, trackerVars
<1>5. /\ alive' \in BOOLEAN /\ force' \in BOOLEAN
      /\ pc' \in {"serve", "replug"}
  BY DEF TypeOK, TakeRequestWindows, DropEncoder, ReleaseCapture, here, loopVars, displayVars, encoderVars, trackerVars
<1>6. status' \in StatusType
  <2>1. \/ status' = status
        \/ status' = [state |-> "succeeded", size |-> h, encode |-> 0]
    BY DEF h, TakeRequestWindows, Publish
  <2> QED
    BY <2>1, <1>2, <1>3, SMTT(30) DEF TypeOK, StatusType
<1> QED
  BY <1>2, <1>3, <1>4, <1>5, <1>6, SMTT(30) DEF TypeOK

(* TakeRequestLinux keeps the types. *)
LEMMA TakeRequestLinuxType ==
  ASSUME TypeOK, TakeRequestLinux
  PROVE  TypeOK'
<1> DEFINE h == Head(queue)
<1>1. queue # <<>>
  BY DEF TakeRequestLinux
<1>2. h \in SizeOrNone /\ Tail(queue) \in Seq(Requestable) /\ Len(Tail(queue)) <= MaxQueue
  BY <1>1, HeadRequest
<1>3. 0 \in SizeOrNone
  BY ConstantsAssumption, SMTT(30) DEF SizeOrNone
<1> HIDE DEF h
<1>4. /\ queue' = Tail(queue) /\ latest' = h /\ success' = 0
      /\ UNCHANGED <<host, frame, idr, primary, screen, session, slot, enc,
                     captureRes, encodeRes, backoff, target, recovering,
                     packet, owed, events>>
      /\ asked' \in {asked, h} /\ pending' \in {pending, h, 0}
      /\ pc' = "serve"
  BY DEF h, TakeRequestLinux, Started, Publish, here, loopVars, displayVars, encoderVars, trackerVars
<1>5. alive' \in BOOLEAN /\ force' \in BOOLEAN
  BY DEF TypeOK, TakeRequestLinux, here, loopVars, displayVars, encoderVars, trackerVars
<1>6. status' \in StatusType
  <2>1. \/ status' = status
        \/ status' = [state |-> "succeeded", size |-> h, encode |-> 0]
        \/ status' = [state |-> "failed", size |-> h, encode |-> 0]
    BY DEF h, TakeRequestLinux, Publish
  <2> QED
    BY <2>1, <1>2, <1>3, SMTT(30) DEF TypeOK, StatusType
<1> QED
  BY <1>2, <1>3, <1>4, <1>5, <1>6 DEF TypeOK

(* TransitionSucceeds keeps the types. *)
LEMMA TransitionSucceedsType ==
  ASSUME TypeOK, target \in Sizes, TransitionSucceeds
  PROVE  TypeOK'
<1> USE DEF TransitionSucceeds, Replugged, StartCapture, Applied, Smaller, here, loopVars, displayVars, encoderVars, trackerVars
<1>1. host' \in Hosts /\ queue' \in Seq(Requestable) /\ Len(queue') <= MaxQueue
  BY ConstantsAssumption DEF TypeOK
<1>2. /\ idr' \in BOOLEAN /\ alive' \in BOOLEAN /\ force' \in BOOLEAN
      /\ backoff' \in BOOLEAN /\ owed' \in BOOLEAN
  BY DEF TypeOK
<1>3. /\ primary' \in Sizes /\ screen' \in Sizes /\ asked' \in SizeOrNone
      /\ session' \in SizeOrNone /\ slot' \in SizeOrNone
      /\ frame' \in SizeOrNone
  BY ConstantsAssumption, SMTT(30) DEF TypeOK, Sizes, SizeOrNone, HostType
<1>4. /\ enc' \in SizeOrNone /\ captureRes' \in SizeOrNone
      /\ encodeRes' \in SizeOrNone
  BY ConstantsAssumption DEF TypeOK, Sizes, SizeOrNone, HostType
<1>5. /\ pending' \in SizeOrNone /\ target' \in SizeOrNone
      /\ latest' \in SizeOrNone /\ success' \in SizeOrNone
      /\ recovering' \in SizeOrNone
  BY ConstantsAssumption, SMTT(30) DEF TypeOK, Sizes, SizeOrNone
<1>6. status' \in StatusType
  BY ConstantsAssumption DEF TypeOK, StatusType, Sizes, SizeOrNone
<1>7. /\ pc' \in {"top", "serve", "capture", "recover", "replug", "rollback",
                   "retry", "frame", "encode", "done"}
      /\ packet' \in {"none", "delta", "key"}
      /\ events' \in 0..MaxEvents
  BY ConstantsAssumption DEF TypeOK
<1> QED
  BY <1>1, <1>2, <1>3, <1>4, <1>5, <1>6, <1>7 DEF TypeOK

(* TransitionFails keeps the types. *)
LEMMA TransitionFailsType == TypeOK /\ TransitionFails => TypeOK'
  BY ConstantsAssumption
  DEF TypeOK, TransitionFails, Sizes, SizeOrNone, HostType, StatusType,
      here, loopVars, displayVars, encoderVars, trackerVars

(* Rollback keeps the types. *)
LEMMA RollbackType ==
  ASSUME TypeOK, Rollback
  PROVE  TypeOK'
<1> USE DEF Rollback, Replugged, StartCapture, Failed, Publish, Smaller, here, loopVars, displayVars, encoderVars, trackerVars
<1>1. host' \in Hosts /\ queue' \in Seq(Requestable) /\ Len(queue') <= MaxQueue
  BY ConstantsAssumption DEF TypeOK
<1>2. /\ idr' \in BOOLEAN /\ alive' \in BOOLEAN /\ force' \in BOOLEAN
      /\ backoff' \in BOOLEAN /\ owed' \in BOOLEAN
  BY DEF TypeOK
<1>3. /\ primary' \in Sizes /\ screen' \in Sizes /\ asked' \in SizeOrNone
      /\ session' \in SizeOrNone /\ slot' \in SizeOrNone
      /\ frame' \in SizeOrNone
  BY ConstantsAssumption, SMTT(30) DEF TypeOK, Sizes, SizeOrNone, HostType
<1>4. /\ enc' \in SizeOrNone /\ captureRes' \in SizeOrNone
      /\ encodeRes' \in SizeOrNone
  BY ConstantsAssumption DEF TypeOK, Sizes, SizeOrNone, HostType
<1>5. /\ pending' \in SizeOrNone /\ target' \in SizeOrNone
      /\ latest' \in SizeOrNone /\ success' \in SizeOrNone
      /\ recovering' \in SizeOrNone
  BY ConstantsAssumption, SMTT(30) DEF TypeOK, Sizes, SizeOrNone
<1>6. status' \in StatusType
  BY ConstantsAssumption, SMTT(30) DEF TypeOK, StatusType, Sizes, SizeOrNone
<1>7. /\ pc' \in {"top", "serve", "capture", "recover", "replug", "rollback",
                   "retry", "frame", "encode", "done"}
      /\ packet' \in {"none", "delta", "key"}
      /\ events' \in 0..MaxEvents
  BY ConstantsAssumption DEF TypeOK
<1> QED
  BY <1>1, <1>2, <1>3, <1>4, <1>5, <1>6, <1>7 DEF TypeOK

(* RollbackRetry keeps the types. *)
LEMMA RollbackRetryType == TypeOK /\ RollbackRetry => TypeOK'
  BY ConstantsAssumption, SMTT(30)
  DEF TypeOK, RollbackRetry, Replugged, StartCapture, Smaller, Sizes, SizeOrNone, HostType, StatusType,
      here, loopVars, displayVars, encoderVars, trackerVars

(* ServeKeyframe keeps the types. *)
LEMMA ServeKeyframeType == TypeOK /\ ServeKeyframe => TypeOK'
  BY ConstantsAssumption, ZenonT(40)
  DEF TypeOK, ServeKeyframe, Sizes, SizeOrNone, HostType, StatusType,
      here, loopVars, displayVars, encoderVars, trackerVars

(* NoFrame keeps the types. *)
LEMMA NoFrameType == TypeOK /\ NoFrame => TypeOK'
  BY ConstantsAssumption, SMTT(30)
  DEF TypeOK, NoFrame, SettlePendingMode, Applied, Failed, Publish, Sizes, SizeOrNone, HostType, StatusType,
      here, loopVars, displayVars, encoderVars, trackerVars

(* CaptureError keeps the types. *)
LEMMA CaptureErrorType == TypeOK /\ CaptureError => TypeOK'
  BY ConstantsAssumption
  DEF TypeOK, CaptureError, Sizes, SizeOrNone, HostType, StatusType,
      here, loopVars, displayVars, encoderVars, trackerVars

(* CaptureLost keeps the types. *)
LEMMA CaptureLostType ==
  ASSUME TypeOK, CaptureLost
  PROVE  TypeOK'
<1> USE DEF CaptureLost, DropEncoder, ReleaseCapture, here, loopVars, displayVars, encoderVars, trackerVars
<1>1. host' \in Hosts /\ queue' \in Seq(Requestable) /\ Len(queue') <= MaxQueue
  BY ConstantsAssumption DEF TypeOK
<1>2. /\ idr' \in BOOLEAN /\ alive' \in BOOLEAN /\ force' \in BOOLEAN
      /\ backoff' \in BOOLEAN /\ owed' \in BOOLEAN
  BY DEF TypeOK
<1>3. /\ primary' \in Sizes /\ screen' \in Sizes /\ asked' \in SizeOrNone
      /\ session' \in SizeOrNone /\ slot' \in SizeOrNone
      /\ frame' \in SizeOrNone
  BY ConstantsAssumption, SMTT(30) DEF TypeOK, Sizes, SizeOrNone, HostType
<1>4. /\ enc' \in SizeOrNone /\ captureRes' \in SizeOrNone
      /\ encodeRes' \in SizeOrNone
  BY ConstantsAssumption, SMTT(30) DEF TypeOK, Sizes, SizeOrNone, HostType
<1>5. /\ pending' \in SizeOrNone /\ target' \in SizeOrNone
      /\ latest' \in SizeOrNone /\ success' \in SizeOrNone
      /\ recovering' \in SizeOrNone
  BY ConstantsAssumption DEF TypeOK, Sizes, SizeOrNone
<1>6. status' \in StatusType
  BY ConstantsAssumption DEF TypeOK, StatusType, Sizes, SizeOrNone
<1>7. /\ pc' \in {"top", "serve", "capture", "recover", "replug", "rollback",
                   "retry", "frame", "encode", "done"}
      /\ packet' \in {"none", "delta", "key"}
      /\ events' \in 0..MaxEvents
  BY ConstantsAssumption DEF TypeOK
<1> QED
  BY <1>1, <1>2, <1>3, <1>4, <1>5, <1>6, <1>7 DEF TypeOK

(* RecoverLostCapture keeps the types. *)
LEMMA RecoverLostCaptureType == TypeOK /\ RecoverLostCapture => TypeOK'
  BY ConstantsAssumption, SMTT(30)
  DEF TypeOK, RecoverLostCapture, StartCapture, Smaller, Sizes, SizeOrNone, HostType, StatusType,
      here, loopVars, displayVars, encoderVars, trackerVars

(* SkipFrame keeps the types. *)
LEMMA SkipFrameType == TypeOK /\ SkipFrame => TypeOK'
  BY ConstantsAssumption, SMTT(30)
  DEF TypeOK, SkipFrame, SettlePendingMode, Applied, Failed, Publish, Sizes, SizeOrNone, HostType, StatusType,
      here, loopVars, displayVars, encoderVars, trackerVars

(* AcceptFrame keeps the types. *)
LEMMA AcceptFrameType == TypeOK /\ AcceptFrame => TypeOK'
  BY ConstantsAssumption, SMTT(30)
  DEF TypeOK, AcceptFrame, SettlePendingMode, Applied, Failed, Publish, Sizes, SizeOrNone, HostType, StatusType,
      here, loopVars, displayVars, encoderVars, trackerVars

(* KeepEncoder keeps the types. *)
LEMMA KeepEncoderType == TypeOK /\ KeepEncoder => TypeOK'
  BY ConstantsAssumption
  DEF TypeOK, KeepEncoder, RebuildNeeded, Sizes, SizeOrNone, HostType, StatusType,
      here, loopVars, displayVars, encoderVars, trackerVars

(* RebuildFails keeps the types. *)
LEMMA RebuildFailsType ==
  ASSUME TypeOK, RebuildFails
  PROVE  TypeOK'
<1> USE DEF RebuildFails, Publish, here, loopVars, displayVars, encoderVars, trackerVars
<1>1. host' \in Hosts /\ queue' \in Seq(Requestable) /\ Len(queue') <= MaxQueue
  BY ConstantsAssumption DEF TypeOK
<1>2. /\ idr' \in BOOLEAN /\ alive' \in BOOLEAN /\ force' \in BOOLEAN
      /\ backoff' \in BOOLEAN /\ owed' \in BOOLEAN
  BY DEF TypeOK
<1>3. /\ primary' \in Sizes /\ screen' \in Sizes /\ asked' \in SizeOrNone
      /\ session' \in SizeOrNone /\ slot' \in SizeOrNone
      /\ frame' \in SizeOrNone
  BY ConstantsAssumption DEF TypeOK, Sizes, SizeOrNone, HostType
<1>4. /\ enc' \in SizeOrNone /\ captureRes' \in SizeOrNone
      /\ encodeRes' \in SizeOrNone
  BY ConstantsAssumption, SMTT(30) DEF TypeOK, Sizes, SizeOrNone, HostType
<1>5. /\ pending' \in SizeOrNone /\ target' \in SizeOrNone
      /\ latest' \in SizeOrNone /\ success' \in SizeOrNone
      /\ recovering' \in SizeOrNone
  BY ConstantsAssumption DEF TypeOK, Sizes, SizeOrNone
<1>6. status' \in StatusType
  BY ConstantsAssumption, SMTT(30) DEF TypeOK, StatusType, Sizes, SizeOrNone
<1>7. /\ pc' \in {"top", "serve", "capture", "recover", "replug", "rollback",
                   "retry", "frame", "encode", "done"}
      /\ packet' \in {"none", "delta", "key"}
      /\ events' \in 0..MaxEvents
  BY ConstantsAssumption DEF TypeOK
<1> QED
  BY <1>1, <1>2, <1>3, <1>4, <1>5, <1>6, <1>7 DEF TypeOK

(* RebuildFits keeps the types. *)
LEMMA RebuildFitsType == TypeOK /\ RebuildFits => TypeOK'
  BY ConstantsAssumption, ZenonT(40)
  DEF TypeOK, RebuildFits, Fit, Smaller, Sizes, SizeOrNone, HostType, StatusType,
      here, loopVars, displayVars, encoderVars, trackerVars

(* RebuildDownscales keeps the types. *)
LEMMA RebuildDownscalesType ==
  ASSUME TypeOK, RebuildDownscales
  PROVE  TypeOK'
<1> USE DEF RebuildDownscales, StartCapture, ReleaseCapture, Fit, Smaller, here, loopVars, displayVars, encoderVars, trackerVars
<1>1. host' \in Hosts /\ queue' \in Seq(Requestable) /\ Len(queue') <= MaxQueue
  BY ConstantsAssumption DEF TypeOK
<1>2. /\ idr' \in BOOLEAN /\ alive' \in BOOLEAN /\ force' \in BOOLEAN
      /\ backoff' \in BOOLEAN /\ owed' \in BOOLEAN
  BY ZenonT(40) DEF TypeOK
<1>3. /\ primary' \in Sizes /\ screen' \in Sizes /\ asked' \in SizeOrNone
      /\ session' \in SizeOrNone /\ slot' \in SizeOrNone
      /\ frame' \in SizeOrNone
  BY ConstantsAssumption, SMTT(30) DEF TypeOK, Sizes, SizeOrNone, HostType
<1>4. /\ enc' \in SizeOrNone /\ captureRes' \in SizeOrNone
      /\ encodeRes' \in SizeOrNone
  BY ConstantsAssumption, SMTT(30) DEF TypeOK, Sizes, SizeOrNone, HostType
<1>5. /\ pending' \in SizeOrNone /\ target' \in SizeOrNone
      /\ latest' \in SizeOrNone /\ success' \in SizeOrNone
      /\ recovering' \in SizeOrNone
  BY ConstantsAssumption DEF TypeOK, Sizes, SizeOrNone
<1>6. status' \in StatusType
  BY ConstantsAssumption DEF TypeOK, StatusType, Sizes, SizeOrNone
<1>7. /\ pc' \in {"top", "serve", "capture", "recover", "replug", "rollback",
                   "retry", "frame", "encode", "done"}
      /\ packet' \in {"none", "delta", "key"}
      /\ events' \in 0..MaxEvents
  BY ConstantsAssumption DEF TypeOK
<1> QED
  BY <1>1, <1>2, <1>3, <1>4, <1>5, <1>6, <1>7 DEF TypeOK

(* EmitPacket keeps the types. *)
LEMMA EmitPacketType ==
  ASSUME TypeOK, EmitPacket
  PROVE  TypeOK'
<1> USE DEF EmitPacket, OnPacketEmitted, Publish, here, loopVars, displayVars, encoderVars, trackerVars
<1>1. host' \in Hosts /\ queue' \in Seq(Requestable) /\ Len(queue') <= MaxQueue
  BY ConstantsAssumption DEF TypeOK
<1>2. /\ idr' \in BOOLEAN /\ alive' \in BOOLEAN /\ force' \in BOOLEAN
      /\ backoff' \in BOOLEAN /\ owed' \in BOOLEAN
  BY ZenonT(40) DEF TypeOK
<1>3. /\ primary' \in Sizes /\ screen' \in Sizes /\ asked' \in SizeOrNone
      /\ session' \in SizeOrNone /\ slot' \in SizeOrNone
      /\ frame' \in SizeOrNone
  BY ConstantsAssumption, SMTT(30) DEF TypeOK, Sizes, SizeOrNone, HostType
<1>4. /\ enc' \in SizeOrNone /\ captureRes' \in SizeOrNone
      /\ encodeRes' \in SizeOrNone
  BY ConstantsAssumption DEF TypeOK, Sizes, SizeOrNone, HostType
<1>5. /\ pending' \in SizeOrNone /\ target' \in SizeOrNone
      /\ latest' \in SizeOrNone /\ success' \in SizeOrNone
      /\ recovering' \in SizeOrNone
  BY ConstantsAssumption, SMTT(30) DEF TypeOK, Sizes, SizeOrNone
<1>6. status' \in StatusType
  BY ConstantsAssumption, SMTT(30) DEF TypeOK, StatusType, Sizes, SizeOrNone
<1>7. /\ pc' \in {"top", "serve", "capture", "recover", "replug", "rollback",
                   "retry", "frame", "encode", "done"}
      /\ packet' \in {"none", "delta", "key"}
      /\ events' \in 0..MaxEvents
  BY ConstantsAssumption DEF TypeOK
<1> QED
  BY <1>1, <1>2, <1>3, <1>4, <1>5, <1>6, <1>7 DEF TypeOK

(* NoPacket keeps the types. *)
LEMMA NoPacketType == TypeOK /\ NoPacket => TypeOK'
  BY ConstantsAssumption, SMTT(30)
  DEF TypeOK, NoPacket, Sizes, SizeOrNone, HostType, StatusType,
      here, loopVars, displayVars, encoderVars, trackerVars

(* EncodeError keeps the types. *)
LEMMA EncodeErrorType ==
  ASSUME TypeOK, EncodeError
  PROVE  TypeOK'
<1> USE DEF EncodeError, here, loopVars, displayVars, encoderVars, trackerVars
<1>1. host' \in Hosts /\ queue' \in Seq(Requestable) /\ Len(queue') <= MaxQueue
  BY ConstantsAssumption DEF TypeOK
<1>2. /\ idr' \in BOOLEAN /\ alive' \in BOOLEAN /\ force' \in BOOLEAN
      /\ backoff' \in BOOLEAN /\ owed' \in BOOLEAN
  BY DEF TypeOK
<1>3. /\ primary' \in Sizes /\ screen' \in Sizes /\ asked' \in SizeOrNone
      /\ session' \in SizeOrNone /\ slot' \in SizeOrNone
      /\ frame' \in SizeOrNone
  BY ConstantsAssumption, SMTT(30) DEF TypeOK, Sizes, SizeOrNone, HostType
<1>4. /\ enc' \in SizeOrNone /\ captureRes' \in SizeOrNone
      /\ encodeRes' \in SizeOrNone
  BY ConstantsAssumption DEF TypeOK, Sizes, SizeOrNone, HostType
<1>5. /\ pending' \in SizeOrNone /\ target' \in SizeOrNone
      /\ latest' \in SizeOrNone /\ success' \in SizeOrNone
      /\ recovering' \in SizeOrNone
  BY ConstantsAssumption DEF TypeOK, Sizes, SizeOrNone
<1>6. status' \in StatusType
  BY ConstantsAssumption DEF TypeOK, StatusType, Sizes, SizeOrNone
<1>7. /\ pc' \in {"top", "serve", "capture", "recover", "replug", "rollback",
                   "retry", "frame", "encode", "done"}
      /\ packet' \in {"none", "delta", "key"}
      /\ events' \in 0..MaxEvents
  BY ConstantsAssumption DEF TypeOK
<1> QED
  BY <1>1, <1>2, <1>3, <1>4, <1>5, <1>6, <1>7 DEF TypeOK

(* AskMode keeps the inductive invariant. *)
LEMMA AskModeIInv == IInv /\ AskMode => IInv'
  BY AskModeType, SMTT(30) DEF IInv, EncoderMatchesFrames, KeyframeOwed,
     SuccessIsLatest, Windows, AskMode, here, loopVars, displayVars,
     encoderVars, trackerVars

(* AskKeyframe keeps the inductive invariant. *)
LEMMA AskKeyframeIInv == IInv /\ AskKeyframe => IInv'
  BY AskKeyframeType, SMTT(30) DEF IInv, EncoderMatchesFrames, KeyframeOwed,
     SuccessIsLatest, Windows, AskKeyframe, here, loopVars, displayVars,
     encoderVars, trackerVars

(* FrameArrives keeps the inductive invariant. *)
LEMMA FrameArrivesIInv == IInv /\ FrameArrives => IInv'
  BY FrameArrivesType, SMTT(30) DEF IInv, EncoderMatchesFrames, KeyframeOwed,
     SuccessIsLatest, Windows, FrameArrives, FrameSize, here, loopVars,
     displayVars, encoderVars, trackerVars

(* CompositorApplies keeps the inductive invariant. *)
LEMMA CompositorAppliesIInv == IInv /\ CompositorApplies => IInv'
  BY CompositorAppliesType, SMTT(30) DEF IInv, EncoderMatchesFrames, KeyframeOwed,
     SuccessIsLatest, Windows, CompositorApplies, here, loopVars,
     displayVars, encoderVars, trackerVars

(* CaptureCloses keeps the inductive invariant. *)
LEMMA CaptureClosesIInv ==
  ASSUME IInv, CaptureCloses
  PROVE  IInv'
<1>1. TypeOK'
  BY CaptureClosesType DEF IInv
<1>2. EncoderMatchesFrames' /\ (enc # 0 => captureRes = enc /\ encodeRes = enc)'
  BY DEF IInv, TypeOK, EncoderMatchesFrames, CaptureCloses, RebuildNeeded,
     here, loopVars, displayVars, encoderVars, trackerVars
<1>3. KeyframeOwed'
  BY DEF IInv, TypeOK, KeyframeOwed, CaptureCloses, here, loopVars, displayVars, encoderVars, trackerVars
<1>4. /\ SuccessIsLatest'
      /\ (pending # 0 => host.kind = "virtual" /\ success = 0)'
      /\ (success # 0 => host.kind # "monitor")'
  BY DEF IInv, TypeOK, SuccessIsLatest, Windows, CaptureCloses,
     here, loopVars, displayVars, encoderVars, trackerVars
<1>5. /\ (pc \in {"replug", "rollback", "retry"} => Windows /\ target # 0)'
      /\ (pc \in {"replug", "rollback", "retry", "recover"} => enc = 0)'
  BY DEF IInv, TypeOK, Windows, CaptureCloses,
     here, loopVars, displayVars, encoderVars, trackerVars
<1> QED
  BY <1>1, <1>2, <1>3, <1>4, <1>5 DEF IInv

(* DisplayChanges keeps the inductive invariant. *)
LEMMA DisplayChangesIInv == IInv /\ DisplayChanges => IInv'
  BY DisplayChangesType, SMTT(30) DEF IInv, EncoderMatchesFrames, KeyframeOwed,
     SuccessIsLatest, Windows, DisplayChanges, here, loopVars, displayVars,
     encoderVars, trackerVars

(* RetryDue keeps the inductive invariant. *)
LEMMA RetryDueIInv == IInv /\ RetryDue => IInv'
  BY RetryDueType, SMTT(30) DEF IInv, EncoderMatchesFrames, KeyframeOwed,
     SuccessIsLatest, Windows, RetryDue, here, loopVars, displayVars,
     encoderVars, trackerVars

(* NoRequest keeps the inductive invariant. *)
LEMMA NoRequestIInv == IInv /\ NoRequest => IInv'
  BY NoRequestType, SMTT(30) DEF IInv, EncoderMatchesFrames, KeyframeOwed,
     SuccessIsLatest, Windows, NoRequest, here, loopVars, displayVars,
     encoderVars, trackerVars

(* TakeRequestWindows keeps the inductive invariant. *)
LEMMA TakeRequestWindowsIInv ==
  ASSUME IInv, TakeRequestWindows
  PROVE  IInv'
<1>1. TypeOK'
  BY TakeRequestWindowsType DEF IInv
<1>2. EncoderMatchesFrames' /\ (enc # 0 => captureRes = enc /\ encodeRes = enc)'
  BY DEF IInv, TypeOK, EncoderMatchesFrames, TakeRequestWindows, Started, Publish, DropEncoder, ReleaseCapture, RebuildNeeded,
     here, loopVars, displayVars, encoderVars, trackerVars
<1>3. KeyframeOwed'
  BY SMTT(30) DEF IInv, TypeOK, KeyframeOwed, TakeRequestWindows, Started, Publish, DropEncoder, ReleaseCapture, here, loopVars, displayVars, encoderVars, trackerVars
<1>4. /\ SuccessIsLatest'
      /\ (pending # 0 => host.kind = "virtual" /\ success = 0)'
      /\ (success # 0 => host.kind # "monitor")'
  BY DEF IInv, TypeOK, SuccessIsLatest, Windows, TakeRequestWindows, Started, Publish, DropEncoder, ReleaseCapture,
     here, loopVars, displayVars, encoderVars, trackerVars
<1>5. /\ (pc \in {"replug", "rollback", "retry"} => Windows /\ target # 0)'
      /\ (pc \in {"replug", "rollback", "retry", "recover"} => enc = 0)'
  <2>1. Head(queue) # 0
    BY HeadRequest DEF IInv, TakeRequestWindows
  <2> QED
    BY <2>1 DEF IInv, TakeRequestWindows, DropEncoder, Windows, here
<1> QED
  BY <1>1, <1>2, <1>3, <1>4, <1>5 DEF IInv

(* TakeRequestLinux keeps the inductive invariant. *)
LEMMA TakeRequestLinuxIInv == IInv /\ TakeRequestLinux => IInv'
  BY TakeRequestLinuxType, SMTT(30) DEF IInv, EncoderMatchesFrames, KeyframeOwed,
     SuccessIsLatest, Windows, TakeRequestLinux, Started, Publish, here,
     loopVars, displayVars, encoderVars, trackerVars

(* TransitionSucceeds keeps the inductive invariant. *)
LEMMA TransitionSucceedsIInv ==
  ASSUME IInv, TransitionSucceeds
  PROVE  IInv'
<1>1. TypeOK'
  <2>1. target # 0 /\ target \in SizeOrNone
    BY DEF IInv, TypeOK, TransitionSucceeds
  <2>2. target \in Sizes
    BY <2>1, ConstantsAssumption, SMTT(30) DEF Sizes, SizeOrNone
  <2> QED
    BY <2>2, TransitionSucceedsType DEF IInv
<1>2. EncoderMatchesFrames' /\ (enc # 0 => captureRes = enc /\ encodeRes = enc)'
  BY DEF IInv, TypeOK, EncoderMatchesFrames, TransitionSucceeds, Replugged, StartCapture, Applied, Smaller, RebuildNeeded,
     here, loopVars, displayVars, encoderVars, trackerVars
<1>3. KeyframeOwed'
  BY DEF IInv, TypeOK, KeyframeOwed, TransitionSucceeds, Replugged, StartCapture, Applied, Smaller, here, loopVars, displayVars, encoderVars, trackerVars
<1>4. /\ SuccessIsLatest'
      /\ (pending # 0 => host.kind = "virtual" /\ success = 0)'
      /\ (success # 0 => host.kind # "monitor")'
  BY DEF IInv, TypeOK, SuccessIsLatest, Windows, TransitionSucceeds, Replugged, StartCapture, Applied, Smaller,
     here, loopVars, displayVars, encoderVars, trackerVars
<1>5. /\ (pc \in {"replug", "rollback", "retry"} => Windows /\ target # 0)'
      /\ (pc \in {"replug", "rollback", "retry", "recover"} => enc = 0)'
  BY DEF IInv, TypeOK, Windows, TransitionSucceeds, Replugged, StartCapture, Applied, Smaller,
     here, loopVars, displayVars, encoderVars, trackerVars
<1> QED
  BY <1>1, <1>2, <1>3, <1>4, <1>5 DEF IInv

(* TransitionFails keeps the inductive invariant. *)
LEMMA TransitionFailsIInv == IInv /\ TransitionFails => IInv'
  BY TransitionFailsType DEF IInv, EncoderMatchesFrames, KeyframeOwed,
     SuccessIsLatest, Windows, TransitionFails, here, loopVars, displayVars,
     encoderVars, trackerVars

(* Rollback keeps the inductive invariant. *)
LEMMA RollbackIInv == IInv /\ Rollback => IInv'
  BY RollbackType, ZenonT(40) DEF IInv, EncoderMatchesFrames, KeyframeOwed,
     SuccessIsLatest, Windows, Rollback, Replugged, StartCapture, Failed,
     Publish, Smaller, here, loopVars, displayVars, encoderVars, trackerVars

(* RollbackRetry keeps the inductive invariant. *)
LEMMA RollbackRetryIInv == IInv /\ RollbackRetry => IInv'
  BY RollbackRetryType DEF IInv, EncoderMatchesFrames, KeyframeOwed,
     SuccessIsLatest, Windows, RollbackRetry, Replugged, StartCapture,
     Smaller, here, loopVars, displayVars, encoderVars, trackerVars

(* ServeKeyframe keeps the inductive invariant. *)
LEMMA ServeKeyframeIInv == IInv /\ ServeKeyframe => IInv'
  BY ServeKeyframeType, ZenonT(40) DEF IInv, EncoderMatchesFrames, KeyframeOwed,
     SuccessIsLatest, Windows, ServeKeyframe, here, loopVars, displayVars,
     encoderVars, trackerVars

(* NoFrame keeps the inductive invariant. *)
LEMMA NoFrameIInv == IInv /\ NoFrame => IInv'
  BY NoFrameType, SMTT(30) DEF IInv, EncoderMatchesFrames, KeyframeOwed,
     SuccessIsLatest, Windows, NoFrame, SettlePendingMode, Applied, Failed,
     Publish, here, loopVars, displayVars, encoderVars, trackerVars

(* CaptureError keeps the inductive invariant. *)
LEMMA CaptureErrorIInv == IInv /\ CaptureError => IInv'
  BY CaptureErrorType, SMTT(30) DEF IInv, EncoderMatchesFrames, KeyframeOwed,
     SuccessIsLatest, Windows, CaptureError, here, loopVars, displayVars,
     encoderVars, trackerVars

(* CaptureLost keeps the inductive invariant. *)
LEMMA CaptureLostIInv == IInv /\ CaptureLost => IInv'
  BY CaptureLostType DEF IInv, EncoderMatchesFrames, KeyframeOwed,
     SuccessIsLatest, Windows, CaptureLost, DropEncoder, ReleaseCapture,
     here, loopVars, displayVars, encoderVars, trackerVars

(* RecoverLostCapture keeps the inductive invariant. *)
LEMMA RecoverLostCaptureIInv ==
  ASSUME IInv, RecoverLostCapture
  PROVE  IInv'
<1>1. TypeOK'
  BY RecoverLostCaptureType DEF IInv
<1>2. EncoderMatchesFrames' /\ (enc # 0 => captureRes = enc /\ encodeRes = enc)'
  BY DEF IInv, TypeOK, EncoderMatchesFrames, RecoverLostCapture, StartCapture, Smaller, RebuildNeeded,
     here, loopVars, displayVars, encoderVars, trackerVars
<1>3. KeyframeOwed'
  BY DEF IInv, TypeOK, KeyframeOwed, RecoverLostCapture, StartCapture, Smaller, here, loopVars, displayVars, encoderVars, trackerVars
<1>4. /\ SuccessIsLatest'
      /\ (pending # 0 => host.kind = "virtual" /\ success = 0)'
      /\ (success # 0 => host.kind # "monitor")'
  <2>1. UNCHANGED <<host, latest, success>> /\ pending' = 0
    BY DEF RecoverLostCapture, here, trackerVars
  <2>2. host.kind = "virtual" => primary' = primary
    BY DEF RecoverLostCapture
  <2>3. host.kind \in {"dxgi", "virtual", "monitor"}
    BY ConstantsAssumption DEF IInv, TypeOK, HostType
  <2> QED
    BY <2>1, <2>2, <2>3 DEF IInv, SuccessIsLatest, Windows
<1>5. /\ (pc \in {"replug", "rollback", "retry"} => Windows /\ target # 0)'
      /\ (pc \in {"replug", "rollback", "retry", "recover"} => enc = 0)'
  BY DEF IInv, TypeOK, Windows, RecoverLostCapture, StartCapture, Smaller,
     here, loopVars, displayVars, encoderVars, trackerVars
<1> QED
  BY <1>1, <1>2, <1>3, <1>4, <1>5 DEF IInv

(* SkipFrame keeps the inductive invariant. *)
LEMMA SkipFrameIInv == IInv /\ SkipFrame => IInv'
  BY SkipFrameType, SMTT(30) DEF IInv, EncoderMatchesFrames, KeyframeOwed,
     SuccessIsLatest, Windows, SkipFrame, SettlePendingMode, Applied, Failed,
     Publish, here, loopVars, displayVars, encoderVars, trackerVars

(* AcceptFrame keeps the inductive invariant. *)
LEMMA AcceptFrameIInv == IInv /\ AcceptFrame => IInv'
  BY AcceptFrameType, SMTT(30) DEF IInv, EncoderMatchesFrames, KeyframeOwed,
     SuccessIsLatest, Windows, AcceptFrame, SettlePendingMode, Applied,
     Failed, Publish, here, loopVars, displayVars, encoderVars, trackerVars

(* KeepEncoder keeps the inductive invariant. *)
LEMMA KeepEncoderIInv == IInv /\ KeepEncoder => IInv'
  BY KeepEncoderType, SMTT(30) DEF IInv, EncoderMatchesFrames, KeyframeOwed,
     SuccessIsLatest, Windows, KeepEncoder, RebuildNeeded, here, loopVars,
     displayVars, encoderVars, trackerVars

(* RebuildFails keeps the inductive invariant. *)
LEMMA RebuildFailsIInv == IInv /\ RebuildFails => IInv'
  BY RebuildFailsType, ZenonT(40) DEF IInv, EncoderMatchesFrames, KeyframeOwed,
     SuccessIsLatest, Windows, RebuildFails, Publish, here, loopVars,
     displayVars, encoderVars, trackerVars

(* RebuildFits keeps the inductive invariant. *)
LEMMA RebuildFitsIInv == IInv /\ RebuildFits => IInv'
  BY RebuildFitsType DEF IInv, EncoderMatchesFrames, KeyframeOwed,
     SuccessIsLatest, Windows, RebuildFits, Fit, Smaller, here, loopVars,
     displayVars, encoderVars, trackerVars

(* RebuildDownscales keeps the inductive invariant. *)
LEMMA RebuildDownscalesIInv == IInv /\ RebuildDownscales => IInv'
  BY RebuildDownscalesType, ZenonT(40) DEF IInv, EncoderMatchesFrames, KeyframeOwed,
     SuccessIsLatest, Windows, RebuildDownscales, StartCapture,
     ReleaseCapture, Fit, Smaller, here, loopVars, displayVars, encoderVars,
     trackerVars

(* EmitPacket keeps the inductive invariant. *)
LEMMA EmitPacketIInv ==
  ASSUME IInv, EmitPacket
  PROVE  IInv'
<1>1. TypeOK'
  BY EmitPacketType DEF IInv
<1>2. EncoderMatchesFrames' /\ (enc # 0 => captureRes = enc /\ encodeRes = enc)'
  BY DEF IInv, TypeOK, EncoderMatchesFrames, EmitPacket, OnPacketEmitted, Publish, RebuildNeeded,
     here, loopVars, displayVars, encoderVars, trackerVars
<1>3. KeyframeOwed'
  <2>1. enc' = enc /\ (owed' = FALSE \/ (owed' = owed /\ force' = force))
    BY ZenonT(40) DEF EmitPacket
  <2> QED
    BY <2>1 DEF IInv, KeyframeOwed
<1>4. /\ SuccessIsLatest'
      /\ (pending # 0 => host.kind = "virtual" /\ success = 0)'
      /\ (success # 0 => host.kind # "monitor")'
  BY DEF IInv, TypeOK, SuccessIsLatest, Windows, EmitPacket, OnPacketEmitted, Publish,
     here, loopVars, displayVars, encoderVars, trackerVars
<1>5. /\ (pc \in {"replug", "rollback", "retry"} => Windows /\ target # 0)'
      /\ (pc \in {"replug", "rollback", "retry", "recover"} => enc = 0)'
  BY DEF IInv, TypeOK, Windows, EmitPacket, OnPacketEmitted, Publish,
     here, loopVars, displayVars, encoderVars, trackerVars
<1> QED
  BY <1>1, <1>2, <1>3, <1>4, <1>5 DEF IInv

(* NoPacket keeps the inductive invariant. *)
LEMMA NoPacketIInv == IInv /\ NoPacket => IInv'
  BY NoPacketType, SMTT(30) DEF IInv, EncoderMatchesFrames, KeyframeOwed,
     SuccessIsLatest, Windows, NoPacket, here, loopVars, displayVars,
     encoderVars, trackerVars

(* EncodeError keeps the inductive invariant. *)
LEMMA EncodeErrorIInv == IInv /\ EncodeError => IInv'
  BY EncodeErrorType DEF IInv, EncoderMatchesFrames, KeyframeOwed,
     SuccessIsLatest, Windows, EncodeError, here, loopVars, displayVars,
     encoderVars, trackerVars

(* The inductive invariant holds of every behaviour of the loop. *)
THEOREM Invariance == Spec => []IInv
<1>1. Init => IInv
  BY InitIInv
<1>2. IInv /\ [Next]_vars => IInv'
  <2> SUFFICES ASSUME IInv, [Next]_vars PROVE IInv'
    OBVIOUS
  <2>1. CASE AskMode
    BY <2>1, AskModeIInv
  <2>2. CASE AskKeyframe
    BY <2>2, AskKeyframeIInv
  <2>3. CASE FrameArrives
    BY <2>3, FrameArrivesIInv
  <2>4. CASE CompositorApplies
    BY <2>4, CompositorAppliesIInv
  <2>5. CASE CaptureCloses
    BY <2>5, CaptureClosesIInv
  <2>6. CASE DisplayChanges
    BY <2>6, DisplayChangesIInv
  <2>7. CASE RetryDue
    BY <2>7, RetryDueIInv
  <2>8. CASE NoRequest
    BY <2>8, NoRequestIInv
  <2>9. CASE TakeRequestWindows
    BY <2>9, TakeRequestWindowsIInv
  <2>10. CASE TakeRequestLinux
    BY <2>10, TakeRequestLinuxIInv
  <2>11. CASE TransitionSucceeds
    BY <2>11, TransitionSucceedsIInv
  <2>12. CASE TransitionFails
    BY <2>12, TransitionFailsIInv
  <2>13. CASE Rollback
    BY <2>13, RollbackIInv
  <2>14. CASE RollbackRetry
    BY <2>14, RollbackRetryIInv
  <2>15. CASE ServeKeyframe
    BY <2>15, ServeKeyframeIInv
  <2>16. CASE NoFrame
    BY <2>16, NoFrameIInv
  <2>17. CASE CaptureError
    BY <2>17, CaptureErrorIInv
  <2>18. CASE CaptureLost
    BY <2>18, CaptureLostIInv
  <2>19. CASE RecoverLostCapture
    BY <2>19, RecoverLostCaptureIInv
  <2>20. CASE SkipFrame
    BY <2>20, SkipFrameIInv
  <2>21. CASE AcceptFrame
    BY <2>21, AcceptFrameIInv
  <2>22. CASE KeepEncoder
    BY <2>22, KeepEncoderIInv
  <2>23. CASE RebuildFails
    BY <2>23, RebuildFailsIInv
  <2>24. CASE RebuildFits
    BY <2>24, RebuildFitsIInv
  <2>25. CASE RebuildDownscales
    BY <2>25, RebuildDownscalesIInv
  <2>26. CASE EmitPacket
    BY <2>26, EmitPacketIInv
  <2>27. CASE NoPacket
    BY <2>27, NoPacketIInv
  <2>28. CASE EncodeError
    BY <2>28, EncodeErrorIInv
  <2>29. CASE UNCHANGED vars
    BY <2>29, SMTT(30) DEF vars, here, loopVars, displayVars, encoderVars, trackerVars, IInv, TypeOK,
       EncoderMatchesFrames, KeyframeOwed, SuccessIsLatest, Windows
  <2> QED
    BY <2>1, <2>2, <2>3, <2>4, <2>5, <2>6, <2>7, <2>8, <2>9, <2>10, <2>11, <2>12, <2>13, <2>14, <2>15, <2>16, <2>17, <2>18, <2>19, <2>20, <2>21, <2>22, <2>23, <2>24, <2>25, <2>26, <2>27, <2>28, <2>29
    DEF Next, Environment, Loop
<1> QED
  BY <1>1, <1>2, PTL DEF Spec

(* The encoder dimensions always match the frames it receives. *)
THEOREM FramesFitEncoder == Spec => []EncoderMatchesFrames
<1>1. IInv => EncoderMatchesFrames
  BY DEF IInv
<1> QED
  BY <1>1, Invariance, PTL

(* An IDR request the loop took is not forgotten by a rebuild. *)
THEOREM KeyframeNotLost == Spec => []KeyframeOwed
<1>1. IInv => KeyframeOwed
  BY DEF IInv
<1> QED
  BY <1>1, Invariance, PTL

(* A success waiting for its packet is that of the latest request. *)
THEOREM NoStaleSuccess == Spec => []SuccessIsLatest
<1>1. IInv => SuccessIsLatest
  BY DEF IInv
<1> QED
  BY <1>1, Invariance, PTL

(* Every variable of the capture thread stays in its range; the queue of     *)
(* mode requests within its capacity.                                        *)
THEOREM TypeCorrect == Spec => []TypeOK
<1>1. IInv => TypeOK
  BY DEF IInv
<1> QED
  BY <1>1, Invariance, PTL

-----------------------------------------------------------------------------
(* PrivacyTopology.                                                        *)

\* The two things that take the way back away: a recovery that gave the file up,
\* and a configure_once that wrote back what it had queried before.
Excused == history.discarded \/ history.raced
PanelsOn == topology.physical \/ Excused

Operation == [kind: {"none", "apply"} \cup Restoring,
              step: {"none", "query", "read", "write", "set", "verify", "remove"},
              token: Tokens \cup {0}, seen: BOOLEAN]

Replacement == [step: {"none", "unplug", "plug", "query", "apply"}, seen: BOOLEAN]

Records ==
    /\ topology \in [physical: BOOLEAN, virtual: BOOLEAN]
    /\ snapshot.exists \in BOOLEAN /\ snapshot.physical \in BOOLEAN
    /\ history \in [restoreFailed: BOOLEAN, discarded: BOOLEAN, raced: BOOLEAN,
                    touched: BOOLEAN]
    /\ op \in Operation
    /\ applied \in BOOLEAN
    /\ replug \in Replacement

\* A snapshot that exists shows the panels on: it is only ever written by an
\* apply that found them on.
SnapshotShowsPanels == snapshot.exists => snapshot.physical \/ Excused

\* A controller that has applied nothing sees the panels on, unless it is about
\* to find out that it has just switched them off, or has yet to recover.
NotAppliedIsOn ==
    process # "down" /\ ~applied /\ op.kind # "recover" /\
    ~(op.kind = "apply" /\ op.step = "verify") => PanelsOn

\* What the operation under way relies on.
OperationShape ==
    /\ op.kind = "apply" => /\ ~applied /\ process # "down"
                            /\ op.step \in {"query", "write", "set", "verify"}
    /\ op.kind = "apply" /\ op.step = "write" => op.seen \/ Excused
    /\ op.step \in {"set", "verify", "remove"} => snapshot.exists
    /\ op.step = "remove" => PanelsOn

PrivacyIInv ==
    /\ Records
    /\ PanelsHaveAWayBack
    /\ SnapshotShowsPanels
    /\ NotAppliedIsOn
    /\ OperationShape

\* What the controller knows of its viewers.  An apply was started by the only
\* token with a viewer, so undoing its count leaves none; a leave has none; and
\* a process that is not up yet has neither viewers nor privacy.
OperationServesViewers ==
    /\ op.kind = "apply" => /\ op.token \in Tokens
                            /\ \A t \in Tokens \ {op.token}: connections[t] <= 0
                            /\ HasViewers(connections)
    /\ op.kind = "leave" => ~HasViewers(connections)
    /\ process \in {"down", "starting"} => ~HasViewers(connections) /\ ~applied
    /\ op.kind = "recover" => process = "starting"
    /\ op.kind \in {"shutdown", "drop"} => process = "stopping"

\* Privacy without a viewer is the work of a restore that failed, and that
\* touched the topology.
LeftoverIsFailure ==
    Idle /\ applied /\ ~HasViewers(connections) => history.restoreFailed /\ history.touched

ViewersIInv ==
    /\ clock \in [epoch: Nat, ticks: 0 .. 1]
    /\ snapshot \in [exists: BOOLEAN, boot: Nat, physical: BOOLEAN]
    /\ process \in {"down", "starting", "up", "stopping"}
    /\ connections \in [Tokens -> -1 .. 1]
    /\ live \subseteq Tokens
    /\ OperationServesViewers
    /\ LeftoverIsFailure
    /\ PrivacyFollowsViewers
    /\ PrivacyHolds

-----------------------------------------------------------------------------
(* How an operation ends or goes on *)

\* An operation that goes on keeps its kind, its token and what it saw.
LEMMA StepGoesOn ==
    ASSUME Records, Step("set") \/ Step("verify") \/ Step("remove")
    PROVE  /\ op' \in Operation
           /\ op'.kind = op.kind /\ op'.seen = op.seen
           /\ Step("set") => op'.step = "set"
           /\ Step("verify") => op'.step = "verify"
           /\ Step("remove") => op'.step = "remove"
  BY DEF Records, Operation, Step, Restoring

\* No operation is under way.
LEMMA NoOpIsOperation ==
    /\ NoOp \in Operation
    /\ NoOp.kind = "none" /\ NoOp.step = "none"
    /\ NoReplug \in Replacement
  BY DEF NoOp, NoReplug, Operation, Replacement

\* An operation that opens with reading the file.
LEMMA OpeningIsOperation ==
    ASSUME NEW k \in Restoring
    PROVE  LET o == [NoOp EXCEPT !.kind = k, !.step = "read"]
           IN  o \in Operation /\ o.kind = k /\ o.step = "read"
  BY ZenonT(40) DEF NoOp, Operation, Restoring

\* A stopped process promises nothing but what the file says.
LEMMA StoppedInv ==
    ASSUME PrivacyIInv, Stopped, UNCHANGED <<snapshot, history>>,
           \/ UNCHANGED topology
           \/ topology' = [physical |-> TRUE, virtual |-> FALSE]
    PROVE  PrivacyIInv'
<1>1. /\ topology' \in [physical: BOOLEAN, virtual: BOOLEAN]
      /\ topology.physical => topology'.physical
  <2>1. CASE UNCHANGED topology
    BY <2>1 DEF PrivacyIInv, Records
  <2>2. CASE topology' = [physical |-> TRUE, virtual |-> FALSE]
    BY <2>2
  <2>. QED BY <2>1, <2>2
<1>1a. Records'
  BY <1>1, NoOpIsOperation, ZenonT(40) DEF PrivacyIInv, Records, Stopped
<1>2. QED
  BY <1>1, <1>1a, NoOpIsOperation
  DEF PrivacyIInv, Records, Stopped, PanelsHaveAWayBack, SnapshotShowsPanels, NotAppliedIsOn,
      OperationShape, PanelsOn, Excused

\* An apply that fails leaves the panels on or the file that shows them on.
LEMMA ApplyFailedInv ==
    ASSUME PrivacyIInv, NEW rejected \in BOOLEAN, ApplyFailed(rejected), op.kind = "apply",
           UNCHANGED <<process, replug>>,
           topology' \in [physical: BOOLEAN, virtual: BOOLEAN],
           \/ UNCHANGED topology /\ (rejected => op.step # "verify")
           \/ ~rejected /\ op.step = "set"
    PROVE  PrivacyIInv'
<1>1. snapshot' = (IF rejected THEN NoSnapshot ELSE snapshot) /\ op' = NoOp
  BY DEF ApplyFailed
<1>2. /\ snapshot'.exists <=> ~rejected /\ snapshot.exists
      /\ applied' <=> ~rejected /\ snapshot.exists
      /\ snapshot'.exists => snapshot' = snapshot
      /\ {snapshot'.exists, snapshot'.physical, applied'} \subseteq BOOLEAN
  <2>1. CASE rejected
    <3>1. snapshot' = NoSnapshot /\ applied' = FALSE
      BY <1>1, <2>1 DEF ApplyFailed
    <3>2. NoSnapshot.exists = FALSE /\ NoSnapshot.physical = FALSE
      BY DEF NoSnapshot
    <3>. QED BY <2>1, <3>1, <3>2
  <2>2. CASE ~rejected
    BY <1>1, <2>2 DEF ApplyFailed, PrivacyIInv, Records
  <2>. QED BY <2>1, <2>2
<1>3. /\ history' \in [restoreFailed: BOOLEAN, discarded: BOOLEAN, raced: BOOLEAN,
                       touched: BOOLEAN]
      /\ history'.discarded = history.discarded /\ history'.raced = history.raced
  BY DEF ApplyFailed, PrivacyIInv, Records
<1>4. Records'
  BY <1>1, <1>2, <1>3, NoOpIsOperation DEF PrivacyIInv, Records
<1>5. QED
  BY <1>1, <1>2, <1>3, <1>4, NoOpIsOperation
  DEF PrivacyIInv, Records, PanelsHaveAWayBack, SnapshotShowsPanels, NotAppliedIsOn,
      OperationShape, PanelsOn, Excused

\* A restore that fails keeps the file, or is the recovery and is excused.
LEMMA RestoreFailedInv ==
    ASSUME PrivacyIInv, RestoreFailed, op.kind \in Restoring,
           \/ UNCHANGED topology
           \/ snapshot.exists /\ topology' = [topology EXCEPT !.physical = snapshot.physical]
    PROVE  PrivacyIInv'
<1>1. /\ topology' \in [physical: BOOLEAN, virtual: BOOLEAN]
      /\ \/ topology'.physical <=> topology.physical
         \/ snapshot.exists /\ (topology'.physical <=> snapshot.physical)
  <2>1. CASE UNCHANGED topology
    BY <2>1 DEF PrivacyIInv, Records
  <2>2. CASE snapshot.exists /\ topology' = [topology EXCEPT !.physical = snapshot.physical]
    BY <2>2 DEF PrivacyIInv, Records
  <2>. QED BY <2>1, <2>2
<1>2. /\ history' \in [restoreFailed: BOOLEAN, discarded: BOOLEAN, raced: BOOLEAN,
                       touched: BOOLEAN]
      /\ history'.raced = history.raced
      /\ history'.discarded = (history.discarded \/ op.kind = "recover")
  BY DEF RestoreFailed, PrivacyIInv, Records
<1>3. /\ op.kind # "recover" => snapshot' = snapshot
      /\ snapshot'.exists \in BOOLEAN /\ snapshot'.physical \in BOOLEAN
  BY DEF RestoreFailed, PrivacyIInv, Records, NoSnapshot
<1>4. /\ op' = NoOp /\ applied' \in BOOLEAN
      /\ replug' = NoReplug \/ replug' = replug
      /\ process' = "down" \/ (process' = process /\ applied' = applied)
  BY DEF RestoreFailed, Stopped, PrivacyIInv, Records
<1>5. replug' \in Replacement
  BY <1>4, NoOpIsOperation DEF PrivacyIInv, Records
<1>6. Records'
  BY <1>1, <1>2, <1>3, <1>4, <1>5, NoOpIsOperation DEF Records
<1>7. CASE op.kind = "recover"
  BY <1>2, <1>4, <1>6, <1>7, NoOpIsOperation
  DEF PrivacyIInv, PanelsHaveAWayBack, SnapshotShowsPanels, NotAppliedIsOn,
      OperationShape, PanelsOn, Excused
<1>8. CASE op.kind # "recover"
  BY <1>1, <1>2, <1>3, <1>4, <1>6, <1>8, NoOpIsOperation
  DEF PrivacyIInv, Records, PanelsHaveAWayBack, SnapshotShowsPanels, NotAppliedIsOn,
      OperationShape, PanelsOn, Excused, Restoring
<1>. QED BY <1>7, <1>8

-----------------------------------------------------------------------------
(* One lemma for each step *)

\* The query sees the panels on: nothing is applied yet.
LEMMA QueryInv == ASSUME PrivacyIInv, QueryTopology PROVE PrivacyIInv'
<1>1. CASE ApplyFailed(FALSE)
  BY <1>1, ApplyFailedInv DEF QueryTopology, At, PrivacyIInv, Records
<1>2. CASE /\ op' = [op EXCEPT !.step = "write", !.seen = topology.physical]
           /\ UNCHANGED <<snapshot, applied, history>>
  <2>1. /\ op' \in Operation
        /\ op'.kind = "apply" /\ op'.step = "write" /\ (op'.seen <=> topology.physical)
    BY <1>2 DEF QueryTopology, At, PrivacyIInv, Records, Operation
  <2>. QED
    BY <1>2, <2>1
    DEF QueryTopology, At, PrivacyIInv, Records, PanelsHaveAWayBack, SnapshotShowsPanels, NotAppliedIsOn,
      OperationShape, PanelsOn, Excused
<1>. QED BY <1>1, <1>2 DEF QueryTopology

\* The file is on disk before the outputs go off, and it shows them on.
LEMMA WriteInv == ASSUME PrivacyIInv, WriteSnapshot PROVE PrivacyIInv'
<1>1. CASE ApplyFailed(FALSE)
  BY <1>1, ApplyFailedInv, ZenonT(40) DEF WriteSnapshot, At, PrivacyIInv, Records
<1>2. CASE /\ snapshot' = [exists |-> TRUE, boot |-> BootSessionId, physical |-> op.seen]
           /\ Step("set") /\ UNCHANGED <<applied, history>>
  <2>1. /\ op' \in Operation /\ op'.kind = "apply" /\ op'.step = "set"
    BY <1>2, StepGoesOn DEF WriteSnapshot, At, PrivacyIInv
  <2>2. snapshot'.exists = TRUE /\ snapshot'.physical = op.seen
    BY <1>2
  <2>3. op.seen \in BOOLEAN /\ (op.seen \/ Excused)
    BY DEF WriteSnapshot, At, PrivacyIInv, Records, OperationShape, Operation
  <2>. QED
    BY <1>2, <2>1, <2>2, <2>3, ZenonT(40)
    DEF WriteSnapshot, At, PrivacyIInv, Records, PanelsHaveAWayBack, SnapshotShowsPanels, NotAppliedIsOn,
      OperationShape, PanelsOn, Excused
<1>. QED BY <1>1, <1>2 DEF WriteSnapshot

\* Switching off, and an attempt of it that fails.
LEMMA SetPrivacyInv == ASSUME PrivacyIInv, SetPrivacy PROVE PrivacyIInv'
<1>0. op.kind = "apply" /\ op.step = "set" /\ UNCHANGED <<process, replug>>
  BY DEF SetPrivacy, At
<1>1. CASE ApplyFailed(TRUE) /\ UNCHANGED topology
  BY <1>0, <1>1, ApplyFailedInv DEF PrivacyIInv, Records
<1>2. CASE /\ ApplyFailed(FALSE)
           /\ \E off \in BOOLEAN: topology' = [topology EXCEPT !.physical = @ /\ ~off]
  <2>1. topology' \in [physical: BOOLEAN, virtual: BOOLEAN]
    BY <1>2 DEF PrivacyIInv, Records
  <2>. QED BY <1>0, <1>2, <2>1, ApplyFailedInv
<1>3. CASE /\ topology' = [topology EXCEPT !.physical = FALSE]
           /\ Step("verify") /\ UNCHANGED <<snapshot, applied, history>>
  <2>1. op' \in Operation /\ op'.kind = "apply" /\ op'.step = "verify"
    BY <1>0, <1>3, StepGoesOn DEF PrivacyIInv
  <2>2. topology' \in [physical: BOOLEAN, virtual: BOOLEAN]
    BY <1>3 DEF PrivacyIInv, Records
  <2>. QED
    BY <1>0, <1>3, <2>1, <2>2
    DEF PrivacyIInv, Records, PanelsHaveAWayBack, SnapshotShowsPanels, NotAppliedIsOn,
      OperationShape, PanelsOn, Excused
<1>. QED BY <1>1, <1>2, <1>3 DEF SetPrivacy

\* The verification turns the apply into applied, or fails it.
LEMMA VerifyPrivacyInv == ASSUME PrivacyIInv, VerifyPrivacy PROVE PrivacyIInv'
<1>1. CASE ApplyFailed(FALSE)
  BY <1>1, ApplyFailedInv DEF VerifyPrivacy, At, PrivacyIInv, Records
<1>2. CASE /\ applied' = TRUE /\ op' = NoOp /\ UNCHANGED snapshot
           /\ history' = [history EXCEPT !.touched = FALSE, !.restoreFailed = FALSE]
  <2>1. /\ history' \in [restoreFailed: BOOLEAN, discarded: BOOLEAN, raced: BOOLEAN,
                         touched: BOOLEAN]
        /\ (history'.discarded <=> history.discarded) /\ (history'.raced <=> history.raced)
    BY <1>2 DEF PrivacyIInv, Records
  <2>. QED
    BY <1>2, <2>1, NoOpIsOperation
    DEF VerifyPrivacy, At, PrivacyIInv, Records, PanelsHaveAWayBack, SnapshotShowsPanels, NotAppliedIsOn,
      OperationShape, PanelsOn, Excused
<1>. QED BY <1>1, <1>2 DEF VerifyPrivacy

\* The file is read, its boot session compared.
LEMMA ReadInv == ASSUME PrivacyIInv, ReadSnapshot PROVE PrivacyIInv'
<1>1. CASE RestoreFailed
  BY <1>1, RestoreFailedInv DEF ReadSnapshot, At
<1>2. CASE snapshot.exists /\ Continue("set")
  <2>1. op' \in Operation /\ op'.kind = op.kind /\ op'.step = "set"
    BY <1>2, StepGoesOn DEF Continue, PrivacyIInv
  <2>. QED
    BY <1>2, <2>1
    DEF ReadSnapshot, At, Continue, Restoring, PrivacyIInv, Records, PanelsHaveAWayBack, SnapshotShowsPanels, NotAppliedIsOn,
      OperationShape, PanelsOn, Excused
<1>. QED BY <1>1, <1>2 DEF ReadSnapshot

\* The outputs of the file are switched on again.
LEMMA SetRestoreInv == ASSUME PrivacyIInv, SetRestore PROVE PrivacyIInv'
<1>0. op.kind \in Restoring /\ op.step = "set" /\ snapshot.exists
  BY DEF SetRestore, At, PrivacyIInv, OperationShape
<1>1. CASE /\ RestoreFailed
           /\ topology' \in {topology, [topology EXCEPT !.physical = snapshot.physical]}
  BY <1>0, <1>1, RestoreFailedInv
<1>2. CASE /\ topology' = [topology EXCEPT !.physical = snapshot.physical]
           /\ Continue("verify")
  <2>1. op' \in Operation /\ op'.kind = op.kind /\ op'.step = "verify"
    BY <1>2, StepGoesOn DEF Continue, PrivacyIInv
  <2>2. /\ topology' \in [physical: BOOLEAN, virtual: BOOLEAN]
        /\ topology'.physical <=> snapshot.physical
    BY <1>2 DEF PrivacyIInv, Records
  <2>. QED
    BY <1>0, <1>2, <2>1, <2>2
    DEF Continue, Restoring, PrivacyIInv, Records, PanelsHaveAWayBack, SnapshotShowsPanels, NotAppliedIsOn,
      OperationShape, PanelsOn, Excused
<1>. QED BY <1>1, <1>2 DEF SetRestore

\* What the file shows on is on, so the file may go.
LEMMA VerifyRestoreInv == ASSUME PrivacyIInv, VerifyRestore PROVE PrivacyIInv'
<1>1. CASE RestoreFailed
  BY <1>1, RestoreFailedInv DEF VerifyRestore, At
<1>2. CASE /\ snapshot.physical => topology.physical
           /\ Continue("remove")
  <2>1. op' \in Operation /\ op'.kind = op.kind /\ op'.step = "remove"
    BY <1>2, StepGoesOn DEF Continue, PrivacyIInv
  <2>. QED
    BY <1>2, <2>1
    DEF VerifyRestore, At, Continue, Restoring, PrivacyIInv, Records, PanelsHaveAWayBack, SnapshotShowsPanels, NotAppliedIsOn,
      OperationShape, PanelsOn, Excused
<1>. QED BY <1>1, <1>2 DEF VerifyRestore

\* The file goes once the outputs are back.
LEMMA RemoveInv == ASSUME PrivacyIInv, RemoveSnapshot PROVE PrivacyIInv'
<1>1. CASE RestoreFailed
  BY <1>1, RestoreFailedInv DEF RemoveSnapshot, At
<1>2. CASE /\ snapshot' = NoSnapshot /\ Restored
           /\ history' = [history EXCEPT !.restoreFailed = FALSE]
  <2>1. /\ history' \in [restoreFailed: BOOLEAN, discarded: BOOLEAN, raced: BOOLEAN,
                         touched: BOOLEAN]
        /\ (history'.discarded <=> history.discarded) /\ (history'.raced <=> history.raced)
    BY <1>2 DEF PrivacyIInv, Records
  <2>2. snapshot'.exists = FALSE /\ snapshot'.physical = FALSE
    BY <1>2 DEF NoSnapshot
  <2>3. op' = NoOp /\ applied' = FALSE /\ (replug' = replug \/ replug' = NoReplug)
    BY <1>2 DEF Restored, Stopped
  <2>4. PanelsOn /\ UNCHANGED topology
    BY DEF RemoveSnapshot, At, PrivacyIInv, OperationShape
  <2>5. Records'
    BY <2>1, <2>2, <2>3, <2>4, NoOpIsOperation DEF PrivacyIInv, Records
  <2>. QED
    BY <2>1, <2>2, <2>3, <2>4, <2>5, NoOpIsOperation
    DEF PrivacyIInv, PanelsHaveAWayBack, SnapshotShowsPanels, NotAppliedIsOn,
      OperationShape, PanelsOn, Excused
<1>. QED BY <1>1, <1>2 DEF RemoveSnapshot

\* The capture thread only turns panels on, unless it raced.
LEMMA ReplugInv == ASSUME PrivacyIInv, Replug \/ ChangeMode PROVE PrivacyIInv'
<1>1. CASE Unplug
  <2>1. topology' = [physical |-> TRUE, virtual |-> FALSE]
    BY <1>1 DEF Unplug
  <2>2. topology' \in [physical: BOOLEAN, virtual: BOOLEAN] /\ topology'.physical
    BY <2>1
  <2>3. replug' \in Replacement
    BY <1>1 DEF Unplug, PrivacyIInv, Records, Replacement
  <2>4. history' \in [restoreFailed: BOOLEAN, discarded: BOOLEAN, raced: BOOLEAN,
                      touched: BOOLEAN]
    BY <1>1 DEF Unplug, PrivacyIInv, Records
  <2>. QED
    BY <1>1, <2>2, <2>3, <2>4
    DEF Unplug, PrivacyIInv, Records, PanelsHaveAWayBack, SnapshotShowsPanels, NotAppliedIsOn,
      OperationShape, PanelsOn, Excused
<1>2. CASE PlugIn
  <2>1. topology' \in [physical: BOOLEAN, virtual: BOOLEAN]
        /\ (topology'.physical <=> topology.physical)
    BY <1>2 DEF PlugIn, PrivacyIInv, Records
  <2>2. replug' \in Replacement
    BY <1>2 DEF PlugIn, PrivacyIInv, Records, Replacement
  <2>. QED
    BY <1>2, <2>1, <2>2
    DEF PlugIn, PrivacyIInv, Records, PanelsHaveAWayBack, SnapshotShowsPanels, NotAppliedIsOn,
      OperationShape, PanelsOn, Excused
<1>3. CASE ConfigureApply
  <2>1. /\ topology' \in [physical: BOOLEAN, virtual: BOOLEAN]
        /\ topology'.physical <=> replug.seen
    BY <1>3 DEF ConfigureApply, PrivacyIInv, Records, Replacement
  <2>2. /\ history' \in [restoreFailed: BOOLEAN, discarded: BOOLEAN, raced: BOOLEAN,
                         touched: BOOLEAN]
        /\ history'.discarded <=> history.discarded
        /\ history'.raced <=> history.raced \/ replug.seen # topology.physical
    BY <1>3 DEF ConfigureApply, PrivacyIInv, Records, Replacement
  <2>3. replug' \in Replacement
    BY <1>3, NoOpIsOperation DEF ConfigureApply
  <2>4. (topology'.physical <=> topology.physical) \/ history'.raced
    BY <2>1, <2>2 DEF PrivacyIInv, Records, Replacement
  <2>5. process' # "down" <=> process # "down"
    BY <1>3 DEF ConfigureApply
  <2>. QED
    BY <1>3, <2>1, <2>2, <2>3, <2>4, <2>5
    DEF ConfigureApply, PrivacyIInv, Records, PanelsHaveAWayBack, SnapshotShowsPanels, NotAppliedIsOn,
      OperationShape, PanelsOn, Excused
<1>4. CASE ConfigureQuery \/ ConfigureRetries \/ ChangeMode
  <2>1. replug' \in Replacement
    <3>1. CASE ConfigureQuery
      BY <3>1 DEF ConfigureQuery, PrivacyIInv, Records, Replacement
    <3>2. CASE ConfigureRetries
      BY <3>2 DEF ConfigureRetries, PrivacyIInv, Records, Replacement
    <3>3. CASE ChangeMode
      BY <3>3 DEF ChangeMode, Replacement
    <3>. QED BY <1>4, <3>1, <3>2, <3>3
  <2>. QED
    BY <1>4, <2>1, SMTT(30)
    DEF ConfigureQuery, ConfigureRetries, ChangeMode, PrivacyIInv, Records,
      PanelsHaveAWayBack, SnapshotShowsPanels, NotAppliedIsOn,
      OperationShape, PanelsOn, Excused
<1>. QED BY <1>1, <1>2, <1>3, <1>4 DEF Replug

\* Starting recovers a file that was left, or finds the panels on.
LEMMA StartInv == ASSUME PrivacyIInv, Start PROVE PrivacyIInv'
<1>1. replug' \in Replacement
  BY DEF Start, Replacement
<1>2. CASE snapshot.exists
  <2>1. op' = [NoOp EXCEPT !.kind = "recover", !.step = "read"]
    BY <1>2 DEF Start
  <2>2. op' \in Operation /\ op'.kind = "recover" /\ op'.step = "read"
    BY <2>1 DEF NoOp, Operation, Restoring
  <2>. QED
    BY <1>1, <2>2
    DEF Start, PrivacyIInv, Records, PanelsHaveAWayBack, SnapshotShowsPanels, NotAppliedIsOn,
      OperationShape, PanelsOn, Excused
<1>3. CASE ~snapshot.exists
  <2>1. op' = NoOp
    BY <1>3 DEF Start
  <2>. QED
    BY <1>1, <1>3, <2>1, NoOpIsOperation
    DEF Start, PrivacyIInv, Records, PanelsHaveAWayBack, SnapshotShowsPanels, NotAppliedIsOn,
      OperationShape, PanelsOn, Excused
<1>. QED BY <1>2, <1>3

\* Stopping, orderly or not.
LEMMA StopInv ==
    ASSUME PrivacyIInv, Shutdown \/ DropController \/ Crash \/ Reboot
    PROVE  PrivacyIInv'
<1>1. CASE Crash \/ Reboot
  BY <1>1, StoppedInv DEF Crash, Reboot
<1>2. CASE DropController /\ Stopped
  BY <1>2, StoppedInv DEF DropController
<1>3. CASE Shutdown \/ (DropController /\ UNCHANGED <<process, applied, replug>>)
  <2>1. /\ op' \in Operation
        /\ op'.kind \in {"none", "shutdown", "drop"} /\ op'.step \in {"none", "read"}
    <3>1. \/ op' = NoOp
          \/ op' = [NoOp EXCEPT !.kind = "shutdown", !.step = "read"]
          \/ op' = [NoOp EXCEPT !.kind = "drop", !.step = "read"]
      BY <1>3 DEF Shutdown, DropController, Stopped
    <3>2. "shutdown" \in Restoring /\ "drop" \in Restoring
      BY DEF Restoring
    <3>. QED BY <3>1, <3>2, NoOpIsOperation, OpeningIsOperation
  <2>2. op.kind = "none"
    BY <1>3, NoOpIsOperation DEF Shutdown, DropController, Idle
  <2>. QED
    BY <1>3, <2>1, <2>2
    DEF Shutdown, DropController, PrivacyIInv, Records, PanelsHaveAWayBack, SnapshotShowsPanels, NotAppliedIsOn,
      OperationShape, PanelsOn, Excused
<1>. QED BY <1>1, <1>2, <1>3 DEF DropController

\* A count received starts an apply only when nothing is applied.
LEMMA ViewersInv == ASSUME PrivacyIInv, Viewers PROVE PrivacyIInv'
<1>1. PICK t \in Tokens:
        Connect(t) \/ Disconnect(t) \/ \E n \in 0 .. 1: UpdateConnection(t, n)
  BY DEF Viewers
<1>2. CASE Connect(t)
  BY <1>2 DEF Connect, PrivacyIInv, Records, PanelsHaveAWayBack, SnapshotShowsPanels, NotAppliedIsOn,
      OperationShape, PanelsOn, Excused
<1>3. CASE Disconnect(t) \/ \E n \in 0 .. 1: UpdateConnection(t, n)
  <2>1. /\ op = NoOp /\ process # "down"
        /\ UNCHANGED <<topology, snapshot, process, applied, replug, history>>
        /\ \/ op' = [kind |-> "apply", step |-> "query", token |-> t, seen |-> FALSE] /\ ~applied
           \/ op' = [NoOp EXCEPT !.kind = "leave", !.step = "read"] /\ applied
           \/ op' = NoOp
    BY <1>3 DEF Disconnect, UpdateConnection, Decide, Idle
  <2>2. /\ op' \in Operation
        /\ \/ op'.kind = "apply" /\ op'.step = "query" /\ ~applied
           \/ op'.kind = "leave" /\ op'.step = "read"
           \/ op'.kind = "none" /\ op'.step = "none"
    <3>1. CASE op' = [kind |-> "apply", step |-> "query", token |-> t, seen |-> FALSE] /\ ~applied
      BY <3>1 DEF Operation
    <3>2. CASE op' = [NoOp EXCEPT !.kind = "leave", !.step = "read"]
      <4>1. "leave" \in Restoring
        BY DEF Restoring
      <4>. QED BY <3>2, <4>1, OpeningIsOperation
    <3>3. CASE op' = NoOp
      BY <3>3, NoOpIsOperation
    <3>. QED BY <2>1, <3>1, <3>2, <3>3
  <2>. QED
    BY <2>1, <2>2, NoOpIsOperation
    DEF PrivacyIInv, Records, PanelsHaveAWayBack, SnapshotShowsPanels, NotAppliedIsOn,
      OperationShape, PanelsOn, Excused
<1>. QED BY <1>1, <1>2, <1>3

-----------------------------------------------------------------------------
(* The theorems *)

\* Every state of the controller, the capture thread and Windows satisfies the
\* inductive invariant, for any number of relay connections and whatever the
\* bounds on updates, failures, kills and reboots.
THEOREM PrivacyInvariant == PrivacySpec => []PrivacyIInv
<1>1. PrivacyInit => PrivacyIInv
  <2>. SUFFICES ASSUME PrivacyInit PROVE PrivacyIInv
    OBVIOUS
  <2>1. topology \in [physical: BOOLEAN, virtual: BOOLEAN] /\ topology.physical
    BY DEF PrivacyInit
  <2>2. snapshot.exists = FALSE /\ snapshot.physical = FALSE
    BY DEF PrivacyInit, NoSnapshot
  <2>3. history \in [restoreFailed: BOOLEAN, discarded: BOOLEAN, raced: BOOLEAN,
                     touched: BOOLEAN]
    BY DEF PrivacyInit
  <2>. QED
    BY <2>1, <2>2, <2>3, NoOpIsOperation, ZenonT(40)
    DEF PrivacyInit, PrivacyIInv, Records, PanelsHaveAWayBack, SnapshotShowsPanels,
        NotAppliedIsOn, OperationShape, PanelsOn, Excused
<1>2. PrivacyIInv /\ [PrivacyNext]_privacyVars => PrivacyIInv'
  <2>. SUFFICES ASSUME PrivacyIInv, [PrivacyNext]_privacyVars PROVE PrivacyIInv'
    OBVIOUS
  <2>1. CASE Tick \/ UNCHANGED privacyVars
    BY <2>1, SMTT(30)
    DEF Tick, privacyVars, PrivacyIInv, Records, PanelsHaveAWayBack, SnapshotShowsPanels,
        NotAppliedIsOn, OperationShape, PanelsOn, Excused
  <2>2. CASE Controller
    BY <2>2, QueryInv, WriteInv, SetPrivacyInv, VerifyPrivacyInv, ReadInv, SetRestoreInv,
       VerifyRestoreInv, RemoveInv
    DEF Controller
  <2>3. CASE Process
    BY <2>3, StartInv, StopInv DEF Process
  <2>. QED BY <2>1, <2>2, <2>3, ViewersInv, ReplugInv DEF PrivacyNext
<1>. QED BY <1>1, <1>2, PTL DEF PrivacySpec

\* Physical outputs are never off without a snapshot that shows them on,
\* wherever a kill falls between the steps of apply_privacy and
\* restore_snapshot; the exceptions are the two the property names.
THEOREM PanelsAlwaysHaveAWayBack == PrivacySpec => []PanelsHaveAWayBack
<1>1. PrivacyIInv => PanelsHaveAWayBack
  BY DEF PrivacyIInv
<1>. QED BY <1>1, PrivacyInvariant, PTL

\* A controller that is up, between updates and has privacy_applied false has
\* the physical outputs on, with the same exceptions.
THEOREM PanelsAreAlwaysBack == PrivacySpec => []PanelsAreBack
<1>1. PrivacyIInv => PanelsAreBack
  BY NoOpIsOperation DEF PrivacyIInv, NotAppliedIsOn, PanelsAreBack, PanelsOn, Excused, Idle
<1>. QED BY <1>1, PrivacyInvariant, PTL
-----------------------------------------------------------------------------
(* The viewers *)

\* The boot session is a natural number: the ticks never reach a second.
LEMMA BootIsNat == ASSUME ViewersIInv PROVE BootSessionId \in Nat
<1>1. clock.epoch \in Nat /\ clock.ticks \in 0 .. 1
  BY DEF ViewersIInv
<1>2. clock.ticks \div 2 = 0
  BY <1>1, SMTT(30)
<1>3. (clock.epoch + clock.ticks) \div 2 \in Nat
  BY <1>1, SMTT(30)
<1>. QED BY <1>2, <1>3, SMTT(30) DEF BootSessionId

\* A file that is not there has the fields of one.
LEMMA NoSnapshotIsAFile == NoSnapshot \in [exists: BOOLEAN, boot: Nat, physical: BOOLEAN]
  BY DEF NoSnapshot

\* Counts that all say -1 hold no viewer.
LEMMA NobodyCounted ==
    /\ [t \in Tokens |-> -1] \in [Tokens -> -1 .. 1]
    /\ ~HasViewers([t \in Tokens |-> -1])
  BY SMTT(30) DEF HasViewers

\* What is not between two operations promises nothing of the topology.
LEMMA BusyPromisesNothing ==
    ASSUME op.kind # "none" PROVE ~Idle
  BY NoOpIsOperation DEF Idle

\* An apply that fails with nothing applied takes the only viewer back.
LEMMA ApplyFailedViewers ==
    ASSUME PrivacyIInv, ViewersIInv, NEW rejected \in BOOLEAN, ApplyFailed(rejected),
           op.kind = "apply", UNCHANGED <<clock, process, live>>
    PROVE  ViewersIInv'
<1>1. /\ op' = NoOp /\ applied' \in BOOLEAN
      /\ history'.touched = TRUE /\ snapshot' \in {snapshot, NoSnapshot}
      /\ connections' = IF applied' THEN connections ELSE [connections EXCEPT ![op.token] = 0]
  BY DEF ApplyFailed, PrivacyIInv, Records
<1>2. snapshot' \in [exists: BOOLEAN, boot: Nat, physical: BOOLEAN]
  BY <1>1, NoSnapshotIsAFile DEF ViewersIInv
<1>3. /\ op.token \in Tokens /\ HasViewers(connections)
      /\ \A t \in Tokens \ {op.token}: connections[t] <= 0
      /\ connections \in [Tokens -> -1 .. 1]
      /\ process \notin {"down", "starting"}
  BY DEF ViewersIInv, OperationServesViewers
<1>4. /\ connections' \in [Tokens -> -1 .. 1]
      /\ HasViewers(connections') <=> applied'
  <2>1. CASE applied'
    BY <1>1, <1>3, <2>1
  <2>2. CASE ~applied'
    BY <1>1, <1>3, <2>2, SMTT(30) DEF HasViewers
  <2>. QED BY <2>1, <2>2
<1>. QED
  BY <1>1, <1>2, <1>3, <1>4, NoOpIsOperation
  DEF ViewersIInv, OperationServesViewers, LeftoverIsFailure, PrivacyFollowsViewers,
      PrivacyHolds, Idle

\* A process that stops has neither viewers nor privacy.
LEMMA StoppedViewers ==
    ASSUME ViewersIInv, Stopped, clock' \in [epoch: Nat, ticks: 0 .. 1],
           snapshot' \in [exists: BOOLEAN, boot: Nat, physical: BOOLEAN]
    PROVE  ViewersIInv'
  BY NobodyCounted, NoOpIsOperation
  DEF Stopped, ViewersIInv, OperationServesViewers, LeftoverIsFailure, PrivacyFollowsViewers,
      PrivacyHolds, Idle

\* A restore that fails says so, whoever asked for it.
LEMMA RestoreFailedViewers ==
    ASSUME PrivacyIInv, ViewersIInv, RestoreFailed, op.kind \in Restoring, UNCHANGED clock
    PROVE  ViewersIInv'
<1>1. /\ history'.touched = TRUE /\ history'.restoreFailed = TRUE
      /\ snapshot' \in {snapshot, NoSnapshot} /\ op' = NoOp
  BY DEF RestoreFailed, Stopped, PrivacyIInv, Records
<1>2. snapshot' \in [exists: BOOLEAN, boot: Nat, physical: BOOLEAN]
  BY <1>1, NoSnapshotIsAFile DEF ViewersIInv
<1>3. CASE Stopped
  BY <1>2, <1>3, StoppedViewers DEF ViewersIInv
<1>4. CASE UNCHANGED <<process, applied, connections, live>>
  <2>1. HasViewers(connections) => process # "up"
    BY DEF ViewersIInv, OperationServesViewers, Restoring
  <2>. QED
    BY <1>1, <1>2, <1>4, <2>1, NoOpIsOperation
    DEF ViewersIInv, OperationServesViewers, LeftoverIsFailure, PrivacyFollowsViewers,
        PrivacyHolds
<1>. QED BY <1>3, <1>4 DEF RestoreFailed

\* An operation that goes on keeps the viewers it serves.
LEMMA GoesOnViewers ==
    ASSUME ViewersIInv, op'.kind = op.kind, op'.token = op.token, op.kind # "none",
           snapshot' \in [exists: BOOLEAN, boot: Nat, physical: BOOLEAN],
           UNCHANGED <<clock, process, applied, connections, live>>
    PROVE  ViewersIInv'
<1>1. op' # NoOp
  BY NoOpIsOperation
<1>. QED
  BY <1>1, ZenonT(40)
  DEF ViewersIInv, OperationServesViewers, LeftoverIsFailure, PrivacyFollowsViewers,
      PrivacyHolds, Idle

\* The steps of apply_privacy.
LEMMA ApplyViewers ==
    ASSUME PrivacyIInv, ViewersIInv, QueryTopology \/ WriteSnapshot \/ SetPrivacy \/ VerifyPrivacy
    PROVE  ViewersIInv'
<1>0. op.kind = "apply" /\ UNCHANGED <<clock, process, live>>
  BY DEF QueryTopology, WriteSnapshot, SetPrivacy, VerifyPrivacy, At
<1>1. CASE \E rejected \in BOOLEAN: ApplyFailed(rejected)
  BY <1>0, <1>1, ApplyFailedViewers
<1>2. CASE /\ op' = [op EXCEPT !.step = "write", !.seen = topology.physical]
           /\ UNCHANGED <<snapshot, applied, connections>>
  <2>1. op'.kind = op.kind /\ op'.token = op.token
    BY <1>2 DEF PrivacyIInv, Records, Operation
  <2>. QED BY <1>0, <1>2, <2>1, GoesOnViewers DEF ViewersIInv
<1>3. CASE /\ snapshot' \in {snapshot, [exists |-> TRUE, boot |-> BootSessionId, physical |-> op.seen]}
           /\ Step("set") \/ Step("verify")
           /\ UNCHANGED <<applied, connections>>
  <2>1. op'.kind = op.kind /\ op'.token = op.token /\ op.seen \in BOOLEAN
    BY <1>3 DEF PrivacyIInv, Records, Operation, Step
  <2>2. snapshot' \in [exists: BOOLEAN, boot: Nat, physical: BOOLEAN]
    <3>1. CASE snapshot' = snapshot
      BY <3>1 DEF ViewersIInv
    <3>2. CASE snapshot' = [exists |-> TRUE, boot |-> BootSessionId, physical |-> op.seen]
      BY <2>1, <3>2, BootIsNat
    <3>. QED BY <1>3, <3>1, <3>2
  <2>. QED BY <1>0, <1>3, <2>1, <2>2, GoesOnViewers
<1>4. CASE /\ applied' = TRUE /\ op' = NoOp /\ ~topology.physical
           /\ UNCHANGED <<snapshot, connections, topology>>
  <2>1. HasViewers(connections) /\ process \notin {"down", "starting"}
    BY <1>0 DEF ViewersIInv, OperationServesViewers
  <2>. QED
    BY <1>0, <1>4, <2>1, NoOpIsOperation
    DEF ViewersIInv, OperationServesViewers, LeftoverIsFailure, PrivacyFollowsViewers,
        PrivacyHolds
<1>5. CASE QueryTopology
  BY <1>1, <1>2, <1>5 DEF QueryTopology
<1>6. CASE WriteSnapshot
  BY <1>1, <1>3, <1>6 DEF WriteSnapshot
<1>7. CASE SetPrivacy
  BY <1>1, <1>3, <1>7 DEF SetPrivacy
<1>8. CASE VerifyPrivacy
  BY <1>1, <1>4, <1>8 DEF VerifyPrivacy
<1>. QED BY <1>5, <1>6, <1>7, <1>8
\* The steps of restore_snapshot.
LEMMA RestoreViewers ==
    ASSUME PrivacyIInv, ViewersIInv,
           ReadSnapshot \/ SetRestore \/ VerifyRestore \/ RemoveSnapshot
    PROVE  ViewersIInv'
<1>0. op.kind \in Restoring /\ UNCHANGED clock
  BY DEF ReadSnapshot, SetRestore, VerifyRestore, RemoveSnapshot, At
<1>1. CASE RestoreFailed
  BY <1>0, <1>1, RestoreFailedViewers
<1>2. CASE \E step \in {"set", "verify", "remove"}: Continue(step)
  <2>1. op'.kind = op.kind /\ op'.token = op.token
    BY <1>2 DEF Continue, Step, PrivacyIInv, Records, Operation
  <2>. QED BY <1>0, <1>2, <2>1, GoesOnViewers DEF ViewersIInv, Continue, Restoring
<1>3. CASE snapshot' = NoSnapshot /\ Restored
  <2>1. CASE Stopped
    BY <1>0, <1>3, <2>1, StoppedViewers, NoSnapshotIsAFile DEF ViewersIInv
  <2>2. CASE /\ op' = NoOp /\ applied' = FALSE
             /\ connections' = IF op.kind = "shutdown" THEN [t \in Tokens |-> -1] ELSE connections
             /\ UNCHANGED <<process, live>>
    <3>1. /\ connections' \in [Tokens -> -1 .. 1]
          /\ HasViewers(connections') => process = "stopping"
      BY <1>0, <2>2, NobodyCounted DEF ViewersIInv, OperationServesViewers, Restoring
    <3>. QED
      BY <1>0, <1>3, <2>2, <3>1, NoOpIsOperation, NoSnapshotIsAFile
      DEF ViewersIInv, OperationServesViewers, LeftoverIsFailure, PrivacyFollowsViewers,
          PrivacyHolds
  <2>. QED BY <1>3, <2>1, <2>2 DEF Restored
<1>4. CASE ReadSnapshot
  BY <1>1, <1>2, <1>4 DEF ReadSnapshot
<1>5. CASE SetRestore
  BY <1>1, <1>2, <1>5 DEF SetRestore
<1>6. CASE VerifyRestore
  BY <1>1, <1>2, <1>6 DEF VerifyRestore
<1>7. CASE RemoveSnapshot
  BY <1>1, <1>3, <1>7 DEF RemoveSnapshot
<1>. QED BY <1>4, <1>5, <1>6, <1>7

\* The capture thread counts nobody, and what it does to the outputs is noted.
LEMMA ReplugViewers ==
    ASSUME PrivacyIInv, ViewersIInv, Replug \/ ChangeMode PROVE ViewersIInv'
<1>1. /\ UNCHANGED <<snapshot, clock, applied, connections, live, op>>
      /\ process' = process \/ (process = "starting" /\ process' = "up" /\ Idle)
  BY DEF Replug, ChangeMode, Unplug, PlugIn, ConfigureQuery, ConfigureApply, ConfigureRetries,
         MayReplug
<1>2. /\ history'.restoreFailed = history.restoreFailed
      /\ history.touched => history'.touched
      /\ history'.touched \/ topology'.physical = topology.physical
  <2>1. CASE Unplug \/ ConfigureApply
    BY <2>1 DEF Unplug, ConfigureApply, PrivacyIInv, Records
  <2>2. CASE PlugIn
    BY <2>2 DEF PlugIn, PrivacyIInv, Records
  <2>3. CASE ChangeMode \/ ConfigureQuery \/ ConfigureRetries
    BY <2>3 DEF ChangeMode, ConfigureQuery, ConfigureRetries
  <2>. QED BY <2>1, <2>2, <2>3 DEF Replug
<1>3. process = "starting" => ~HasViewers(connections) /\ ~applied
  BY DEF ViewersIInv, OperationServesViewers
<1>4. history.touched \in BOOLEAN /\ history'.touched \in BOOLEAN
  <2>1. CASE UNCHANGED history
    BY <2>1 DEF PrivacyIInv, Records
  <2>2. CASE Unplug \/ ConfigureApply
    BY <2>2 DEF Unplug, ConfigureApply, PrivacyIInv, Records
  <2>. QED BY <2>1, <2>2 DEF Replug, ChangeMode, PlugIn, ConfigureQuery, ConfigureRetries
<1>5. op.kind = "recover" => process' = process
  BY <1>1, NoOpIsOperation DEF Idle
<1>. QED
  BY <1>1, <1>2, <1>3, <1>4, <1>5, NoOpIsOperation
  DEF ViewersIInv, OperationServesViewers, LeftoverIsFailure, PrivacyFollowsViewers,
      PrivacyHolds, Idle

\* Starting, stopping and being killed.
LEMMA ProcessViewers ==
    ASSUME PrivacyIInv, ViewersIInv, Process PROVE ViewersIInv'
<1>1. CASE Crash \/ (DropController /\ Stopped)
  BY <1>1, StoppedViewers DEF Crash, DropController, ViewersIInv
<1>2. CASE Reboot
  <2>1. clock' \in [epoch: Nat, ticks: 0 .. 1]
    BY <1>2, SMTT(30) DEF Reboot, ViewersIInv
  <2>. QED BY <1>2, <2>1, StoppedViewers DEF Reboot, ViewersIInv
<1>3. CASE \/ Start \/ Shutdown
           \/ DropController /\ UNCHANGED <<process, applied, connections, live>>
  <2>1. /\ UNCHANGED <<topology, snapshot, clock, applied, connections, live, history>>
        /\ \/ process = "down" /\ process' = "starting"
           \/ process \in {"up", "stopping"} /\ process' = "stopping" /\ Idle
    BY <1>3 DEF Start, Shutdown, DropController
  <2>2. /\ op' = NoOp \/ op'.kind \in Restoring
        /\ op'.kind \in {"none", "recover", "shutdown", "drop"}
        /\ op'.kind = "recover" => process' = "starting"
        /\ op'.kind \in {"shutdown", "drop"} => process' = "stopping"
    <3>1. \/ op' = NoOp
          \/ process' = "starting" /\ op' = [NoOp EXCEPT !.kind = "recover", !.step = "read"]
          \/ process' = "stopping" /\ op' = [NoOp EXCEPT !.kind = "shutdown", !.step = "read"]
          \/ process' = "stopping" /\ op' = [NoOp EXCEPT !.kind = "drop", !.step = "read"]
      BY <1>3 DEF Start, Shutdown, DropController, Stopped
    <3>2. CASE op' = NoOp
      BY <3>2, NoOpIsOperation
    <3>3. ASSUME NEW k \in {"recover", "shutdown", "drop"},
                 op' = [NoOp EXCEPT !.kind = k, !.step = "read"]
          PROVE  op'.kind = k /\ k \in Restoring
      BY <3>3, OpeningIsOperation DEF Restoring
    <3>. QED BY <3>1, <3>2, <3>3
  <2>3. process' = "starting" => ~HasViewers(connections) /\ ~applied
    BY <2>1 DEF ViewersIInv, OperationServesViewers
  <2>. QED
    BY <2>1, <2>2, <2>3, NoOpIsOperation
    DEF ViewersIInv, OperationServesViewers, LeftoverIsFailure, PrivacyFollowsViewers,
        PrivacyHolds, Idle
<1>. QED BY <1>1, <1>2, <1>3 DEF Process, DropController

\* A count received, and a connection that goes away with its count.
LEMMA CountViewers ==
    ASSUME PrivacyIInv, ViewersIInv, Viewers PROVE ViewersIInv'
<1>1. PICK t \in Tokens:
        Connect(t) \/ Disconnect(t) \/ \E n \in 0 .. 1: UpdateConnection(t, n)
  BY DEF Viewers
<1>2. CASE Connect(t)
  <2>1. /\ connections' \in [Tokens -> -1 .. 1]
        /\ HasViewers(connections') <=> HasViewers(connections)
    BY <1>2, SMTT(30) DEF Connect, ViewersIInv, HasViewers
  <2>. QED
    BY <1>2, <2>1
    DEF Connect, ViewersIInv, OperationServesViewers, LeftoverIsFailure,
        PrivacyFollowsViewers, PrivacyHolds, Idle, NoOp
<1>3. CASE Disconnect(t) \/ \E n \in 0 .. 1: UpdateConnection(t, n)
  <2>1. PICK n \in -1 .. 1: Decide(t, [connections EXCEPT ![t] = n])
    BY <1>3, SMTT(30) DEF Disconnect, UpdateConnection
  <2>2. /\ UNCHANGED <<topology, snapshot, clock, process, applied, history>>
        /\ process \in {"up", "stopping"} /\ Idle /\ live' \subseteq Tokens
    BY <1>3 DEF Disconnect, UpdateConnection, ViewersIInv
  <2>3. /\ connections' = [connections EXCEPT ![t] = n]
        /\ connections' \in [Tokens -> -1 .. 1]
    BY <2>1 DEF Decide, ViewersIInv
  <2>4. CASE ~HasViewers(connections) /\ HasViewers(connections') /\ ~applied
    <3>1. op' = [kind |-> "apply", step |-> "query", token |-> t, seen |-> FALSE]
      BY <2>1, <2>3, <2>4 DEF Decide
    <3>2. op'.kind = "apply" /\ op'.token = t
      BY <3>1
    <3>3. \A u \in Tokens \ {t}: connections'[u] <= 0
      BY <2>3, <2>4, SMTT(30) DEF HasViewers, ViewersIInv
    <3>4. op' # NoOp
      BY <3>2, NoOpIsOperation
    <3>. QED
      BY <2>2, <2>3, <2>4, <3>2, <3>3, <3>4
      DEF ViewersIInv, OperationServesViewers, LeftoverIsFailure, PrivacyFollowsViewers,
          PrivacyHolds, Idle
  <2>5. CASE HasViewers(connections) /\ ~HasViewers(connections') /\ applied
    <3>1. op' = [NoOp EXCEPT !.kind = "leave", !.step = "read"]
      BY <2>1, <2>3, <2>5 DEF Decide
    <3>2. op'.kind = "leave" /\ op' # NoOp
      BY <3>1, NoOpIsOperation, OpeningIsOperation, ZenonT(40) DEF Restoring
    <3>. QED
      BY <2>2, <2>3, <2>5, <3>2
      DEF ViewersIInv, OperationServesViewers, LeftoverIsFailure, PrivacyFollowsViewers,
          PrivacyHolds, Idle
  <2>6. CASE /\ ~(~HasViewers(connections) /\ HasViewers(connections') /\ ~applied)
             /\ ~(HasViewers(connections) /\ ~HasViewers(connections') /\ applied)
    <3>1. op' = NoOp
      BY <2>1, <2>3, <2>6 DEF Decide
    <3>2. applied \in BOOLEAN
      BY DEF PrivacyIInv, Records
    <3>. QED
      BY <2>2, <2>3, <2>6, <3>1, <3>2, NoOpIsOperation
      DEF ViewersIInv, OperationServesViewers, LeftoverIsFailure, PrivacyFollowsViewers,
          PrivacyHolds, Idle
  <2>. QED BY <2>4, <2>5, <2>6
<1>. QED BY <1>1, <1>2, <1>3

\* The second invariant holds in every reachable state.
THEOREM ViewersInvariant == PrivacySpec => []ViewersIInv
<1>1. PrivacyInit => ViewersIInv
  <2>. SUFFICES ASSUME PrivacyInit PROVE ViewersIInv
    OBVIOUS
  <2>1. clock \in [epoch: Nat, ticks: 0 .. 1]
    BY PrivacyAssumption, SMTT(30) DEF PrivacyInit
  <2>. QED
    BY <2>1, NobodyCounted, NoSnapshotIsAFile, NoOpIsOperation, ZenonT(40)
    DEF PrivacyInit, ViewersIInv, OperationServesViewers, LeftoverIsFailure,
        PrivacyFollowsViewers, PrivacyHolds
<1>2. PrivacyIInv /\ ViewersIInv /\ [PrivacyNext]_privacyVars => ViewersIInv'
  <2>. SUFFICES ASSUME PrivacyIInv, ViewersIInv, [PrivacyNext]_privacyVars PROVE ViewersIInv'
    OBVIOUS
  <2>1. CASE Tick \/ UNCHANGED privacyVars
    <3>1. clock' \in [epoch: Nat, ticks: 0 .. 1]
      BY <2>1, SMTT(30) DEF Tick, privacyVars, ViewersIInv
    <3>. QED
      BY <2>1, <3>1, SMTT(30)
      DEF Tick, privacyVars, ViewersIInv, OperationServesViewers, LeftoverIsFailure,
          PrivacyFollowsViewers, PrivacyHolds, Idle
  <2>2. CASE Controller
    BY <2>2, ApplyViewers, RestoreViewers DEF Controller
  <2>. QED BY <2>1, <2>2, CountViewers, ReplugViewers, ProcessViewers DEF PrivacyNext
<1>. QED BY <1>1, <1>2, PrivacyInvariant, PTL DEF PrivacySpec

\* The whole of what privacy mode promises: between updates it follows the
\* viewers, the outputs are off while it is applied and untouched, and they
\* always have a way back.
THEOREM PrivacyIsSafe == PrivacySpec => []PrivacySafe
<1>1. PrivacyIInv /\ ViewersIInv => PrivacyTypeOK
  BY DEF PrivacyIInv, ViewersIInv, Records, Operation, PrivacyTypeOK
<1>2. PrivacyIInv /\ ViewersIInv => PrivacyFollowsViewers /\ PrivacyHolds
  BY DEF ViewersIInv
<1>. QED
  BY <1>1, <1>2, PrivacyInvariant, ViewersInvariant, PanelsAlwaysHaveAWayBack,
     PanelsAreAlwaysBack, PTL DEF PrivacySafe
=============================================================================
