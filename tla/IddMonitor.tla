----------------------------- MODULE IddMonitor -----------------------------
(***************************************************************************)
(* The virtual monitor of a headless Windows host: the indirect display    *)
(* driver (drivers/flux-idd), the handle through which flux-server plugs   *)
(* the monitor in and out (virtual_display.rs), and the two sequences that *)
(* use the handle, server startup (main.rs) and a change of mode           *)
(* (replug_capture and transition_resolution in capture_loop.rs).          *)
(*                                                                         *)
(* An I/O control call runs in the driver as several steps, because the    *)
(* driver's mutex is released around every call into IddCx; a server that  *)
(* dies leaves its call running.  IddCx calls back concurrently, to ask    *)
(* for the modes and to hand over or take away the swap chain, which a     *)
(* thread of the driver drains.                                            *)
(***************************************************************************)
EXTENDS Integers, FiniteSets

CONSTANTS
    Modes,            \* the modes a server may ask for
    MaxWakes,         \* bound: power-ups of the device
    MaxStarts,        \* bound: starts of the server process
    MaxRequests,      \* bound: changes of mode
    MaxChains,        \* bound: swap chains IddCx hands over
    MaxFaults         \* bound: failing calls and waits that time out

ASSUME IddAssumption ==
    /\ Modes # {}
    /\ 0 \notin Modes
    /\ {MaxWakes, MaxStarts, MaxRequests, MaxChains, MaxFaults} \subseteq Nat

VARIABLES
    adapter,    \* initialisation of the adapter, as DriverState records it
    driver,     \* DriverState: plugged_in, operation_in_progress, preferred
    call,       \* the plug-in or plug-out call the driver is executing
    monitor,    \* the monitor Windows has: its mode and the mode it was offered
    objects,    \* IddCx monitor objects that exist
    chain,      \* the swap chain Windows considers assigned, 0 if none
    processor,  \* DriverState.processor, the chain it processes, 0 if none
    callback,   \* the assign or unassign callback that is running
    threads,    \* the processor thread of every chain
    server,     \* the server process and its VirtualDisplay handle
    iddBudget   \* how much of every bound is used

driverVars == <<adapter, driver, call, monitor, objects>>
chainVars == <<chain, processor, callback, threads>>
iddVars == <<driverVars, chainVars, server, iddBudget>>

NoCall == [op |-> "none", step |-> "none", mode |-> 0, old |-> 0, thread |-> 0,
           answered |-> FALSE]
NoCallback == [op |-> "none", step |-> "none", thread |-> 0, chain |-> 0]
Off == [pc |-> "off", mode |-> 0, old |-> 0, owns |-> FALSE, starting |-> TRUE]
NoMonitor == [mode |-> 0, offered |-> 0]

IddInit ==
    /\ adapter = [pending |-> FALSE, ready |-> FALSE]
    /\ driver = [plugged |-> FALSE, busy |-> FALSE, preferred |-> 0]
    /\ call = NoCall
    /\ monitor = NoMonitor
    /\ objects = 0
    /\ chain = 0
    /\ processor = 0
    /\ callback = NoCallback
    /\ threads = [c \in 1 .. MaxChains |-> "none"]
    /\ server = Off
    /\ iddBudget = [wakes |-> 0, starts |-> 0, requests |-> 0, chains |-> 0, faults |-> 0]

Spend(what, bound) ==
    /\ iddBudget[what] < bound
    /\ iddBudget' = [iddBudget EXCEPT ![what] = @ + 1]

DriverFault == Spend("faults", MaxFaults)

-----------------------------------------------------------------------------
(* The adapter *)

\* Every power-up initialises the adapter again; the outcome is only recorded,
\* so that the status call keeps working.
D0Entry ==
    /\ ~adapter.pending
    /\ Spend("wakes", MaxWakes)
    /\ \E ok \in BOOLEAN: adapter' = [adapter EXCEPT !.pending = ok]
    /\ UNCHANGED <<driver, call, monitor, objects, chainVars, server>>

AdapterInitFinished ==
    /\ adapter.pending
    /\ \E ok \in BOOLEAN: adapter' = [adapter EXCEPT !.pending = FALSE, !.ready = ok]
    /\ UNCHANGED <<driver, call, monitor, objects, chainVars, server, iddBudget>>

-----------------------------------------------------------------------------
(* The swap chain and its processor thread *)

\* Dropping a processor sets its terminate event; its thread is joined next.
Tell(t) ==
    IF t # 0 /\ threads[t] = "running" THEN [threads EXCEPT ![t] = "told"] ELSE threads

Joined(t) == t # 0 => threads[t] = "ended"

AssignSwapChain ==
    /\ callback = NoCallback
    /\ monitor # NoMonitor
    /\ chain = 0
    /\ Spend("chains", MaxChains)
    /\ callback' = [op |-> "assign", step |-> "join", thread |-> processor,
                    chain |-> iddBudget.chains + 1]
    /\ threads' = Tell(processor)
    /\ processor' = 0
    /\ UNCHANGED <<driverVars, chain, server>>

\* SwapChainProcessor::start returns once the thread runs, or abandons the chain.
StartProcessor ==
    /\ callback.op = "assign" /\ callback.step = "join"
    /\ Joined(callback.thread)
    /\ \/ /\ threads' = [threads EXCEPT ![callback.chain] = "running"]
          /\ callback' = [callback EXCEPT !.step = "store"]
          /\ UNCHANGED iddBudget
       \/ /\ DriverFault
          /\ callback' = NoCallback
          /\ UNCHANGED threads
    /\ UNCHANGED <<driverVars, chain, processor, server>>

StoreProcessor ==
    /\ callback.op = "assign" /\ callback.step = "store"
    /\ processor' = callback.chain
    /\ chain' = callback.chain
    /\ callback' = NoCallback
    /\ UNCHANGED <<driverVars, threads, server, iddBudget>>

UnassignSwapChain ==
    /\ callback = NoCallback
    /\ chain # 0
    /\ callback' = [op |-> "unassign", step |-> "join", thread |-> processor, chain |-> chain]
    /\ threads' = Tell(processor)
    /\ processor' = 0
    /\ UNCHANGED <<driverVars, chain, server, iddBudget>>

Unassigned ==
    /\ callback.op = "unassign"
    /\ Joined(callback.thread)
    /\ chain' = 0
    /\ callback' = NoCallback
    /\ UNCHANGED <<driverVars, processor, threads, server, iddBudget>>

\* run_core: the thread stops when it is told to, and when the chain is lost.
ThreadEnds(c) ==
    /\ threads[c] \in {"running", "told"}
    /\ threads' = [threads EXCEPT ![c] = "ended"]
    /\ UNCHANGED <<driverVars, chain, processor, callback, server, iddBudget>>

-----------------------------------------------------------------------------
(* Failures of the server's sequences *)

\* Startup drops the handle, which plugs out a monitor the handle owns, and
\* the process exits; a transition rolls back to the mode it had, and goes on.
AfterFailure(s) ==
    IF ~s.starting THEN [s EXCEPT !.pc = "unplug", !.mode = s.old]
    ELSE IF s.owns THEN [s EXCEPT !.pc = "drop"]
    ELSE Off

\* A plug-in that fails at startup asks for the status before it gives up.
AfterRefusal(s) ==
    IF s.pc \in {"plug", "plugging"} THEN [s EXCEPT !.pc = "status"] ELSE AfterFailure(s)

Fails == server' = AfterFailure(server)

-----------------------------------------------------------------------------
(* IOCTL_FLUXIDD_PLUG_IN *)

Refused == ~adapter.ready \/ driver.plugged \/ driver.busy

\* What a caller that is still there makes of the answer.
AnswerPlugIn(ok) ==
    server' = IF ~call.answered THEN server
              ELSE IF ok THEN [server EXCEPT !.pc = "appear", !.owns = TRUE]
              ELSE AfterRefusal(server)

PlugInMonitor(m) ==
    \/ /\ Refused
       /\ server' = AfterRefusal(server)
       /\ UNCHANGED <<driver, call>>
    \/ /\ ~Refused
       /\ driver' = [driver EXCEPT !.busy = TRUE, !.preferred = m]
       /\ call' = [op |-> "plugIn", step |-> "create", mode |-> m, old |-> driver.preferred,
                   thread |-> 0, answered |-> TRUE]
       /\ server' = [server EXCEPT !.pc = IF server.pc = "plug" THEN "plugging" ELSE "replugging"]

IssuePlugIn ==
    /\ server.pc \in {"plug", "replug"}
    /\ PlugInMonitor(server.mode)
    /\ UNCHANGED <<adapter, monitor, objects, chainVars, iddBudget>>

PlugInFailed == driver' = [driver EXCEPT !.busy = FALSE, !.preferred = call.old]

MonitorCreate ==
    /\ call.op = "plugIn" /\ call.step = "create"
    /\ \/ /\ objects' = objects + 1
          /\ call' = [call EXCEPT !.step = "arrive"]
          /\ UNCHANGED <<driver, server, iddBudget>>
       \/ /\ DriverFault
          /\ PlugInFailed
          /\ AnswerPlugIn(FALSE)
          /\ call' = NoCall
          /\ UNCHANGED objects
    /\ UNCHANGED <<adapter, monitor, chainVars>>

MonitorArrival ==
    /\ call.op = "plugIn" /\ call.step = "arrive"
    /\ monitor' = [mode |-> call.mode, offered |-> 0]
    /\ call' = [call EXCEPT !.step = "arrived"]
    /\ UNCHANGED <<adapter, driver, objects, chainVars, server, iddBudget>>

\* The monitor that never arrived is deleted, and a processor is dropped; the
\* wait for its thread, which needs nothing of the others, is part of the step.
ArrivalFails ==
    /\ call.op = "plugIn" /\ call.step = "arrive"
    /\ DriverFault
    /\ objects' = objects - 1
    /\ PlugInFailed
    /\ AnswerPlugIn(FALSE)
    /\ call' = NoCall
    /\ threads' = [c \in DOMAIN threads |-> IF c = processor THEN "ended" ELSE threads[c]]
    /\ processor' = 0
    /\ UNCHANGED <<adapter, monitor, chain, callback>>

PlugInDone ==
    /\ call.op = "plugIn" /\ call.step = "arrived"
    /\ driver' = [driver EXCEPT !.plugged = TRUE, !.busy = FALSE]
    /\ AnswerPlugIn(TRUE)
    /\ call' = NoCall
    /\ UNCHANGED <<adapter, monitor, objects, chainVars, iddBudget>>

\* Windows asks for the modes at any time after the arrival; mode_list puts
\* the preferred mode first.
QueryModes ==
    /\ monitor # NoMonitor
    /\ monitor' = [monitor EXCEPT !.offered = driver.preferred]
    /\ UNCHANGED <<adapter, driver, call, objects, chainVars, server, iddBudget>>

-----------------------------------------------------------------------------
(* IOCTL_FLUXIDD_PLUG_OUT *)

PlugOutMonitor ==
    /\ driver.plugged /\ ~driver.busy
    /\ driver' = [driver EXCEPT !.busy = TRUE]
    /\ call' = [NoCall EXCEPT !.op = "plugOut", !.step = "join", !.thread = processor,
                              !.answered = TRUE]
    /\ threads' = Tell(processor)
    /\ processor' = 0

IssuePlugOut ==
    /\ server.pc \in {"unplug", "drop"}
    /\ \/ /\ PlugOutMonitor
          /\ server' = [server EXCEPT !.pc = IF @ = "drop" THEN "dropping" ELSE "unplugging"]
       \/ /\ ~driver.plugged \/ driver.busy
          /\ server' = IF server.pc = "drop" THEN Off ELSE AfterFailure(server)
          /\ UNCHANGED <<driver, call, processor, threads>>
    /\ UNCHANGED <<adapter, monitor, objects, chain, callback, iddBudget>>

AnswerPlugOut(ok) ==
    server' = IF ~call.answered THEN server
              ELSE IF server.pc = "dropping" THEN Off
              ELSE IF ok THEN [server EXCEPT !.pc = "vanish", !.owns = FALSE]
              ELSE AfterFailure(server)

MonitorDeparture ==
    /\ call.op = "plugOut"
    /\ Joined(call.thread)
    /\ \/ /\ monitor' = NoMonitor
          /\ objects' = objects - 1
          /\ driver' = [driver EXCEPT !.busy = FALSE, !.plugged = FALSE]
          /\ AnswerPlugOut(TRUE)
          /\ UNCHANGED iddBudget
       \/ /\ DriverFault
          /\ driver' = [driver EXCEPT !.busy = FALSE]
          /\ AnswerPlugOut(FALSE)
          /\ UNCHANGED <<monitor, objects>>
    /\ call' = NoCall
    /\ UNCHANGED <<adapter, chainVars>>

-----------------------------------------------------------------------------
(* The server process *)

serverOnly == <<driverVars, chainVars>>

StartServer ==
    /\ server = Off
    /\ Spend("starts", MaxStarts)
    /\ \E m \in Modes: server' = [Off EXCEPT !.pc = "plug", !.mode = m, !.old = m]
    /\ UNCHANGED serverOnly

AdoptAsIs ==
    /\ server.pc = "status"
    /\ server' = IF driver.plugged THEN [server EXCEPT !.pc = "appear"] ELSE Off
    /\ UNCHANGED <<serverOnly, iddBudget>>

\* An existing monitor is adopted, and replaced: its mode is not known.
Adopt ==
    /\ server.pc = "status"
    /\ server' = IF driver.plugged /\ ~driver.busy THEN [server EXCEPT !.pc = "unplug"] ELSE Off
    /\ UNCHANGED <<serverOnly, iddBudget>>

\* wait_for_displays for the output to disappear, and for it to come back.
OutputVanishes ==
    /\ server.pc = "vanish"
    /\ \/ /\ monitor = NoMonitor
          /\ server' = [server EXCEPT !.pc = "replug"]
          /\ UNCHANGED iddBudget
       \/ DriverFault /\ Fails
    /\ UNCHANGED serverOnly

OutputAppears ==
    /\ server.pc = "appear"
    /\ \/ /\ monitor # NoMonitor
          /\ server' = [server EXCEPT !.pc = "configure"]
          /\ UNCHANGED iddBudget
       \/ DriverFault /\ Fails
    /\ UNCHANGED serverOnly

\* configure_virtual_display retries until the mode the server asked for, which
\* the monitor must have been offered, is the active one.
Configure ==
    /\ server.pc = "configure"
    /\ \/ /\ monitor.offered = server.mode
          /\ server' = [server EXCEPT !.pc = "running", !.starting = FALSE, !.old = server.mode]
          /\ UNCHANGED iddBudget
       \/ DriverFault /\ Fails
    /\ UNCHANGED serverOnly

RequestMode ==
    /\ server.pc = "running"
    /\ Spend("requests", MaxRequests)
    /\ \E m \in Modes \ {server.mode}:
          server' = [server EXCEPT !.pc = "unplug", !.mode = m]
    /\ UNCHANGED serverOnly

\* A killed server, and one that returns from main: the capture thread owns
\* the handle and is never joined, so the handle is not dropped.
ServerEnds ==
    /\ server # Off
    /\ iddBudget.starts < MaxStarts
    /\ server' = Off
    /\ call' = [call EXCEPT !.answered = FALSE]
    /\ UNCHANGED <<adapter, driver, monitor, objects, chainVars, iddBudget>>

Adapter == D0Entry \/ AdapterInitFinished
SwapChains ==
    \/ AssignSwapChain \/ StartProcessor \/ StoreProcessor
    \/ UnassignSwapChain \/ Unassigned
    \/ \E c \in 1 .. MaxChains: ThreadEnds(c)
DriverCall == MonitorCreate \/ MonitorArrival \/ ArrivalFails \/ PlugInDone \/ MonitorDeparture
ServerStep ==
    IssuePlugIn \/ IssuePlugOut \/ Adopt \/ OutputVanishes \/ OutputAppears \/ Configure

IddNext ==
    \/ Adapter \/ SwapChains \/ DriverCall \/ QueryModes \/ ServerStep
    \/ StartServer \/ RequestMode \/ ServerEnds

IddSpec == IddInit /\ [][IddNext]_iddVars

\* Calls into Windows return, its queries and callbacks are made, threads run.
IddFairness ==
    /\ WF_iddVars(AdapterInitFinished)
    /\ WF_iddVars(DriverCall)
    /\ WF_iddVars(QueryModes)
    /\ WF_iddVars(ServerStep)
    /\ WF_iddVars(StartProcessor \/ StoreProcessor \/ Unassigned)
    /\ \A c \in 1 .. MaxChains: WF_iddVars(ThreadEnds(c))

IddFairSpec == IddSpec /\ IddFairness

-----------------------------------------------------------------------------
(* Properties *)

\* Every part of the driver's and the server's state has its type: at most one
\* monitor object, and no mode but 0 and the ones servers ask for.
IddTypeOK ==
    /\ adapter \in [pending: BOOLEAN, ready: BOOLEAN]
    /\ driver \in [plugged: BOOLEAN, busy: BOOLEAN, preferred: Modes \cup {0}]
    /\ call.op \in {"none", "plugIn", "plugOut"}
    /\ monitor \in [mode: Modes \cup {0}, offered: Modes \cup {0}]
    /\ objects \in 0 .. 1
    /\ {chain, processor} \subseteq 0 .. MaxChains
    /\ threads \in [1 .. MaxChains -> {"none", "running", "told", "ended"}]
    /\ server.owns \in BOOLEAN /\ server.mode \in Modes \cup {0}

\* A server that streams has its own monitor: plugged in, at the mode the server
\* asked for, whatever an earlier server, killed during any call, left behind.
RunningHasItsMonitor ==
    server.pc = "running" => driver.plugged /\ ~driver.busy /\ monitor.mode = server.mode

\* Windows is only ever offered, as the preferred mode, the mode of the plug-in
\* call that created the monitor: a refused or failed call does not leak its
\* mode into the list mode_list builds.
OfferedIsRequested == monitor.offered \in {0, monitor.mode}

\* Monitor objects do not leak: one exists exactly while the driver creates it
\* or Windows has it, also after a plug-in whose arrival failed and was retried.
MonitorNotLeaked ==
    objects = IF monitor # NoMonitor \/ call.step = "arrive" THEN 1 ELSE 0

\* No processor thread is forgotten: one that has not been told to end is the one
\* DriverState holds or the one the running assign callback is about to store.
ThreadIsOwned ==
    \A c \in 1 .. MaxChains:
        threads[c] = "running" =>
            \/ processor = c
            \/ callback.op = "assign" /\ callback.chain = c

\* A change of mode ends with a running server, at the new or at the old mode.
TransitionEnds ==
    (server # Off /\ ~server.starting) ~> (server.pc = "running" \/ server = Off)
=============================================================================
