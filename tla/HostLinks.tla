------------------------------ MODULE HostLinks ------------------------------
(***************************************************************************)
(* A host that dials out: flux-hostd registers itself with the relay       *)
(* (flux-core/src/registration.rs), opens a QUIC link to it and waits to   *)
(* be used (flux-hostd/src/quic.rs); the relay parks the link              *)
(* (flux-web/hostlink.go) until the upstream of a viewer takes it          *)
(* (registry.go, upstream.go).  Links break, requests get lost, and host   *)
(* and relay restart.                                                      *)
(*                                                                         *)
(* There is one machine.  What its registration says is a version number.  *)
(* Times are left out: a backoff, a tick and a timeout each just end.      *)
(***************************************************************************)
EXTENDS Integers, FiniteSets

CONSTANTS
  Links,         \* connections between host and relay; an ended one is reused
  Upstreams,     \* machineUpstreams of the relay; an ended one is reused
  MaxStatus,     \* bound: changes of RuntimeStatus
  MaxFaults      \* bound: crashes, restarts, broken links, lost requests

(* 0 stands for no link and for no upstream. *)
ASSUME LinkNames ==
  0 \notin Links /\ 0 \notin Upstreams /\ MaxStatus \in Nat

VARIABLES
  hostd,         \* [up, dials]: the process, and host_dials_out
  runtime,       \* RuntimeStatus
  reg,           \* the registration task, [pc, first, sent]
  dial,          \* the dial_out task, [pc, link]
  link,          \* [host, relay, acked] of each link: its two ends
  handler,       \* handleHostLink, for each link
  machine,       \* the registry's record, [known, online, fresh, dials,
                 \* status, upstream]
  hub,           \* hostLinkHub.links for the machine, 0 for none
  ups,           \* each upstream, [pc, stop, conn, signalled]
  faults

hostVars == <<hostd, runtime, reg, dial>>
relayVars == <<handler, machine, hub, ups>>
linkVars == <<hostVars, relayVars, link, faults>>

Closed == [host |-> FALSE, relay |-> FALSE, acked |-> FALSE]
Unknown == [known |-> FALSE, online |-> FALSE, fresh |-> FALSE,
            dials |-> FALSE, status |-> 0, upstream |-> 0]
NoUpstream == [pc |-> "none", stop |-> FALSE, conn |-> 0, signalled |-> FALSE]
RegOff == [pc |-> "off", first |-> TRUE, sent |-> 0]
DialOff == [pc |-> "off", link |-> 0]

LinksInit ==
  /\ hostd = [up |-> FALSE, dials |-> TRUE]
  /\ runtime \in 0..MaxStatus
  /\ reg = RegOff /\ dial = DialOff
  /\ link = [l \in Links |-> Closed]
  /\ handler = [l \in Links |-> "none"]
  /\ machine = Unknown
  /\ hub = 0
  /\ ups = [u \in Upstreams |-> NoUpstream]
  /\ faults = 0

(* Which one of the unused names a new link or upstream gets is no matter. *)
Some(names) == CHOOSE n \in names : TRUE

LinkFault == faults < MaxFaults /\ faults' = faults + 1

-----------------------------------------------------------------------------
(* The registry, called with its lock held.                                *)

(* Mutant: no one is woken. *)
NotSignalled(us) == us

(* signalLocked: whoever waits for a change is woken. *)
Signalled(us) ==
  [u \in Upstreams |-> IF us[u].pc = "wait"
                       THEN [us[u] EXCEPT !.signalled = TRUE] ELSE us[u]]

StopUpstream(us, u) ==
  IF u = 0 THEN us ELSE [us EXCEPT ![u].stop = TRUE]

(* remove, and the CloseWithError its callers end with. *)
RemoveLink(us) ==
  /\ hub' = 0
  /\ link' = IF hub = 0 THEN link ELSE [link EXCEPT ![hub].relay = FALSE]
  /\ ups' = IF hub = 0 THEN us ELSE Signalled(us)

(* upsert, for a registration and for a heartbeat: a machine that does not *)
(* dial out any more loses its parked link.                                *)
Upsert(s) ==
  /\ machine' = [machine EXCEPT !.known = TRUE, !.online = TRUE,
                   !.fresh = TRUE, !.dials = hostd.dials, !.status = s]
  /\ IF machine.dials /\ ~hostd.dials THEN RemoveLink(ups)
     ELSE UNCHANGED <<hub, link, ups>>

Deregister ==
  IF ~machine.known THEN UNCHANGED <<machine, hub, link, ups>>
  ELSE machine' = Unknown /\ RemoveLink(StopUpstream(ups, machine.upstream))

(* get or list, after machineExpiry without a heartbeat. *)
ExpireLink ==
  /\ machine.online /\ ~machine.fresh
  /\ machine' = [machine EXCEPT !.online = FALSE, !.upstream = 0]
  /\ RemoveLink(StopUpstream(ups, machine.upstream))
  /\ UNCHANGED <<hostVars, handler, faults>>

-----------------------------------------------------------------------------
(* The registration task.                                                  *)

(* start: an invalid base_url, or an id that cannot be kept, leave no task. *)
RegStarts(ok) ==
  IF ok THEN [pc |-> "send", first |-> TRUE, sent |-> runtime] ELSE RegOff

(* The task registers once, then sends heartbeats, with the status of the  *)
(* moment.  The answer is awaited; an error is logged.                     *)
RegSends ==
  /\ reg.pc = "send"
  /\ reg' = [pc |-> "wait", first |-> FALSE, sent |-> 0]
  /\ \/ Upsert(reg.sent) /\ UNCHANGED faults
     \/ LinkFault /\ UNCHANGED <<machine, hub, link, ups>>
  /\ UNCHANGED <<hostd, runtime, dial, handler>>

(* The tick, or a notification. *)
RegWakes ==
  /\ reg.pc = "wait"
  /\ reg' = [reg EXCEPT !.pc = "send", !.sent = runtime]
  /\ UNCHANGED <<hostd, runtime, dial, relayVars, link, faults>>

(* The handle's stop: deregister is sent, and may get lost. *)
RegStops ==
  /\ reg.pc = "leave"
  /\ reg' = RegOff
  /\ hostd' = [hostd EXCEPT !.up = FALSE]
  /\ \/ Deregister /\ UNCHANGED faults
     \/ LinkFault /\ UNCHANGED <<machine, hub, link, ups>>
  /\ UNCHANGED <<runtime, dial, handler>>

(* RuntimeStatus changes; the notification only makes a heartbeat earlier. *)
StatusChanges ==
  /\ hostd.up /\ runtime < MaxStatus
  /\ runtime' = runtime + 1
  /\ UNCHANGED <<hostd, reg, dial, relayVars, link, faults>>

-----------------------------------------------------------------------------
(* dial_out.                                                               *)

(* Whatever failed or ended, the next link is dialled after a pause. *)
DialFails == dial' = [pc |-> "connect", link |-> 0]

(* An invalid address, or no trust roots, end the task before its loop. *)
DialStarts(ok) == IF ok THEN [pc |-> "connect", link |-> 0] ELSE DialOff

FreeLinks ==
  {l \in Links : /\ ~link[l].host /\ ~link[l].relay
                 /\ handler[l] = "none" /\ hub # l
                 /\ \A u \in Upstreams : ups[u].conn # l}

(* The name is resolved, the endpoint made, the connection opened and the  *)
(* hello sent.                                                             *)
DialConnects ==
  /\ dial.pc = "connect" /\ FreeLinks # {}
  /\ LET l == Some(FreeLinks) IN
       /\ dial' = [pc |-> "ack", link |-> l]
       /\ link' = [link EXCEPT ![l] = [Closed EXCEPT !.host = TRUE,
                                                    !.relay = TRUE]]
       /\ handler' = [handler EXCEPT ![l] = "hello"]
  /\ UNCHANGED <<hostd, runtime, reg, machine, hub, ups, faults>>

(* connect_link: the acknowledgement, or the end of the link. *)
DialAcked ==
  /\ dial.pc = "ack"
  /\ \/ /\ link[dial.link].acked /\ link[dial.link].host
        /\ dial' = [dial EXCEPT !.pc = "bridge"]
        /\ link' = [link EXCEPT ![dial.link].acked = FALSE]
     \/ ~link[dial.link].host /\ DialFails /\ UNCHANGED link
  /\ UNCHANGED <<hostd, runtime, reg, relayVars, faults>>

(* bridge returns when the link ends; the next one is dialled. *)
BridgeEnds ==
  /\ dial.pc = "bridge"
  /\ ~link[dial.link].host
  /\ DialFails
  /\ UNCHANGED <<hostd, runtime, reg, relayVars, link, faults>>

(* A relay that uses the link: the host's handler may end it. *)
BridgeCloses ==
  /\ dial.pc = "bridge"
  /\ LinkFault
  /\ link' = [link EXCEPT ![dial.link].host = FALSE]
  /\ DialFails
  /\ UNCHANGED <<hostd, runtime, reg, relayVars>>

-----------------------------------------------------------------------------
(* The relay: handleHostLink.                                              *)

Rejected(l) ==
  /\ link' = [link EXCEPT ![l].relay = FALSE]
  /\ handler' = [handler EXCEPT ![l] = "none"]

(* The hello is read, or the stream ends or times out; the machine is      *)
(* looked up under the lock; the acknowledgement is written.               *)
HandlerAcks(l) ==
  /\ handler[l] = "hello"
  /\ IF link[l].relay /\ machine.known /\ machine.dials
     THEN /\ link' = [link EXCEPT ![l].acked = TRUE]
          /\ handler' = [handler EXCEPT ![l] = "park"]
     ELSE Rejected(l)
  /\ UNCHANGED <<hostVars, machine, hub, ups, faults>>

(* parkHostLink checks again, under the lock; a link that was parked is    *)
(* replaced and closed.                                                    *)
HandlerParks(l) ==
  /\ handler[l] = "park"
  /\ IF machine.known /\ machine.dials /\ machine.fresh
     THEN /\ hub' = l
          /\ ups' = Signalled(ups)
          /\ handler' = [handler EXCEPT ![l] = "none"]
          /\ link' = [k \in Links |-> IF k = hub /\ k # l
                        THEN [link[k] EXCEPT !.relay = FALSE] ELSE link[k]]
     ELSE Rejected(l) /\ UNCHANGED <<hub, ups>>
  /\ UNCHANGED <<hostVars, machine, faults>>

(* park's goroutine: a parked link that ends leaves the hub. *)
HubForgets(l) ==
  /\ hub = l /\ ~link[l].relay
  /\ hub' = 0
  /\ ups' = Signalled(ups)
  /\ UNCHANGED <<hostVars, handler, machine, link, faults>>

-----------------------------------------------------------------------------
(* The relay: the upstream of a viewer.                                    *)

FreeUpstreams == {u \in Upstreams : ups[u].pc = "none"}

LinkAcquire ==
  /\ machine.online /\ machine.fresh /\ machine.dials
  /\ machine.upstream = 0
  /\ FreeUpstreams # {}
  /\ LET u == Some(FreeUpstreams) IN
       /\ machine' = [machine EXCEPT !.upstream = u]
       /\ ups' = [ups EXCEPT ![u].pc = "check"]
  /\ UNCHANGED <<hostVars, handler, hub, link, faults>>

LinkRelease ==
  /\ machine.upstream # 0
  /\ machine' = [machine EXCEPT !.upstream = 0]
  /\ ups' = StopUpstream(ups, machine.upstream)
  /\ UNCHANGED <<hostVars, handler, hub, link, faults>>

(* take: stopChan is looked at with no lock held. *)
TakeChecks(u) ==
  /\ ups[u].pc = "check"
  /\ ups' = IF ups[u].stop THEN [ups EXCEPT ![u] = NoUpstream]
            ELSE [ups EXCEPT ![u].pc = "look"]
  /\ UNCHANGED <<hostVars, handler, machine, hub, link, faults>>

(* take, under the hub's lock: a live link, or the channel to wait on. *)
TakeLooks(u) ==
  /\ ups[u].pc = "look"
  /\ hub' = 0
  /\ ups' =
       IF hub = 0
       THEN [ups EXCEPT ![u].pc = "wait", ![u].signalled = FALSE]
       ELSE IF link[hub].relay
       THEN Signalled([ups EXCEPT ![u].pc = "serve", ![u].conn = hub])
       ELSE Signalled([ups EXCEPT ![u].pc = "check"])
  /\ UNCHANGED <<hostVars, handler, machine, link, faults>>

TakeWaits(u) ==
  /\ ups[u].pc = "wait"
  /\ \/ ups[u].signalled /\ ups' = [ups EXCEPT ![u].pc = "check"]
     \/ ups[u].stop /\ ups' = [ups EXCEPT ![u] = NoUpstream]
  /\ UNCHANGED <<hostVars, handler, machine, hub, link, faults>>

(* Mutant: a link that served is let go of, not closed. *)
ServeLeaves(u) ==
  /\ ups[u].pc = "serve"
  /\ ups[u].stop \/ ~link[ups[u].conn].relay
  /\ ups' = [ups EXCEPT ![u].pc = "check", ![u].conn = 0]
  /\ UNCHANGED <<hostVars, handler, machine, hub, link, faults>>

(* serveQUIC ends with the link, or with the upstream; it closes the link. *)
(* After a second connectFrameServer looks for another.                    *)
ServeEnds(u) ==
  /\ ups[u].pc = "serve"
  /\ ups[u].stop \/ ~link[ups[u].conn].relay
  /\ link' = [link EXCEPT ![ups[u].conn].relay = FALSE]
  /\ ups' = [ups EXCEPT ![u].pc = "check", ![u].conn = 0]
  /\ UNCHANGED <<hostVars, handler, machine, hub, faults>>

-----------------------------------------------------------------------------
(* The rest of the world.                                                  *)

HostStarts ==
  /\ ~hostd.up
  /\ \E d, ok, registers \in BOOLEAN :
       /\ hostd' = [up |-> TRUE, dials |-> d]
       /\ dial' = IF d THEN DialStarts(ok) ELSE DialOff
       /\ reg' = RegStarts(registers)
  /\ UNCHANGED <<runtime, relayVars, link, faults>>

HostEndsClosed == [l \in Links |-> [link[l] EXCEPT !.host = FALSE]]

(* The process ends: at once, or with the registration stopped first. *)
HostEnds ==
  /\ hostd.up /\ LinkFault
  /\ \/ hostd' = [hostd EXCEPT !.up = FALSE] /\ reg' = RegOff
     \/ /\ reg.pc = "wait" /\ reg' = [reg EXCEPT !.pc = "leave"]
        /\ UNCHANGED hostd
  /\ dial' = DialOff
  /\ link' = HostEndsClosed
  /\ UNCHANGED <<runtime, relayVars>>

RelayRestarts ==
  /\ LinkFault
  /\ link' = [l \in Links |-> [link[l] EXCEPT !.relay = FALSE]]
  /\ handler' = [l \in Links |-> "none"]
  /\ machine' = Unknown
  /\ hub' = 0
  /\ ups' = [u \in Upstreams |-> NoUpstream]
  /\ UNCHANGED hostVars

(* One end of a link sees it broken... *)
LinkBreaks(l) ==
  /\ link[l].host /\ link[l].relay /\ LinkFault
  /\ link' \in {[link EXCEPT ![l].host = FALSE], [link EXCEPT ![l].relay = FALSE]}
  /\ UNCHANGED <<hostVars, relayVars>>

(* ...and so does the other: it is told, or its idle timeout ends. *)
EndNoticed(l) ==
  /\ link[l].host # link[l].relay
  /\ link' = [link EXCEPT ![l] = Closed]
  /\ UNCHANGED <<hostVars, relayVars, faults>>

(* machineExpiry passes with no heartbeat. *)
HeartbeatsStop ==
  /\ machine.fresh
  /\ IF hostd.up THEN LinkFault ELSE UNCHANGED faults
  /\ machine' = [machine EXCEPT !.fresh = FALSE]
  /\ UNCHANGED <<hostVars, handler, hub, ups, link>>

-----------------------------------------------------------------------------
RegStep == RegSends \/ RegWakes \/ RegStops
DialStep == DialConnects \/ DialAcked \/ BridgeEnds
HandlerStep(l) == HandlerAcks(l) \/ HandlerParks(l)
UpstreamStep(u) ==
  TakeChecks(u) \/ TakeLooks(u) \/ TakeWaits(u) \/ ServeEnds(u)

LinksNext ==
  \/ RegStep \/ DialStep \/ BridgeCloses
  \/ \E l \in Links : HandlerStep(l) \/ HubForgets(l) \/ LinkBreaks(l) \/ EndNoticed(l)
  \/ \E u \in Upstreams : UpstreamStep(u)
  \/ LinkAcquire \/ LinkRelease \/ ExpireLink
  \/ HostStarts \/ HostEnds \/ RelayRestarts \/ HeartbeatsStop \/ StatusChanges

LinksSpec == LinksInit /\ [][LinksNext]_linkVars

(* Tasks and goroutines that can run do; viewers, faults and the host's    *)
(* administrator owe nothing.                                              *)
LinksFairness ==
  /\ WF_linkVars(RegStep) /\ WF_linkVars(DialStep)
  /\ \A l \in Links :
       WF_linkVars(HandlerStep(l)) /\ WF_linkVars(EndNoticed(l))
  /\ WF_linkVars(\E l \in Links : HubForgets(l))
  /\ \A u \in Upstreams : WF_linkVars(UpstreamStep(u))

-----------------------------------------------------------------------------
(* What every variable ranges over; a task holds a link, and an upstream a *)
(* connection, exactly where the code does.                                *)
LinkTypeOK ==
  /\ hostd \in [up : BOOLEAN, dials : BOOLEAN] /\ runtime \in 0..MaxStatus
  /\ reg.pc \in {"off", "send", "wait", "leave"}
  /\ reg.pc # "off" => hostd.up
  /\ dial.pc \in {"off", "connect", "ack", "bridge"}
  /\ IF dial.pc \in {"ack", "bridge"} THEN dial.link \in Links
     ELSE dial.link = 0
  /\ \A l \in Links : handler[l] \in {"none", "hello", "park"}
  /\ \A u \in Upstreams :
       /\ ups[u].pc \in {"none", "check", "look", "wait", "serve"}
       /\ IF ups[u].pc = "serve" THEN ups[u].conn \in Links ELSE ups[u].conn = 0
  /\ machine.upstream # 0 => /\ machine.known
                             /\ ups[machine.upstream].pc # "none"
                             /\ ~ups[machine.upstream].stop

(* A link is handed to one upstream: take deletes it from the hub with the *)
(* lock it was found under, so that two upstreams of a machine (one being  *)
(* stopped, one new) never serve the same connection.                      *)
HandedOutOnce ==
  \A u \in Upstreams : ups[u].conn # 0 =>
    /\ ups[u].conn # hub
    /\ \A v \in Upstreams \ {u} : ups[v].conn # ups[u].conn

(* The relay never keeps a link open that nobody there owns: every way out *)
(* of handleHostLink, the hub and serveQUIC closes it, so that a host      *)
(* whose link is open is one that can be reached.                          *)
NoOrphanLink ==
  \A l \in Links : link[l].relay =>
    \/ handler[l] # "none" \/ hub = l
    \/ \E u \in Upstreams : ups[u].conn = l

(* A parked link belongs to a machine that is registered as dialling out,  *)
(* although the registry may change between handleHostLink's check and     *)
(* parkHostLink.                                                           *)
ParkedIsRegistered == hub # 0 => machine.known /\ machine.dials

(* Every link open at the relay has one owner there, and waits only for a    *)
(* machine that is registered.                                               *)
LinksAreOwned == HandedOutOnce /\ NoOrphanLink /\ ParkedIsRegistered

(* A viewer of a host that is up, registers and dials out is served:       *)
(* whatever broke, the host dials again, the link is parked, and the       *)
(* upstream that waits in take is woken for it.                            *)
HostIsServed ==
  LET reachable == hostd.up /\ reg.pc \in {"send", "wait"} /\ dial.pc # "off"
  IN \A u \in Upstreams :
       ups[u].pc # "none" /\ reachable
       ~> ups[u].pc \in {"serve", "none"} \/ ups[u].stop \/ ~reachable

(* What the host last said of itself reaches the relay: requests fail and  *)
(* the relay forgets, but the next heartbeat is a registration again.      *)
StatusArrives ==
  \A s \in 0..MaxStatus :
    /\ reg.pc # "off" /\ runtime = s
    ~> \/ machine.known /\ machine.status = s
       \/ runtime # s \/ reg.pc \in {"off", "leave"}

(* An upstream that is stopped ends, wherever it waits: take watches       *)
(* stopChan along with the hub, and serveQUIC is cancelled.                *)
StoppedTakerEnds == \A u \in Upstreams : ups[u].stop ~> ups[u].pc = "none"

(* Nothing on the way between host and relay waits for ever: viewers, what   *)
(* the host says of itself, and upstreams that were told to stop.            *)
LinksSettle == HostIsServed /\ StatusArrives /\ StoppedTakerEnds
=============================================================================
