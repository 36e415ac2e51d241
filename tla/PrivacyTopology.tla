-------------------------- MODULE PrivacyTopology ---------------------------
(***************************************************************************)
(* Privacy mode on a Windows host (ccd_display.rs): while a remote viewer  *)
(* is connected the physical outputs are switched off, and the topology    *)
(* that was active before is kept in a snapshot file so that it can be     *)
(* restored when the last viewer leaves, when the server stops, and when   *)
(* the server starts again after it was killed.                            *)
(*                                                                         *)
(* The controller's mutex is held for a whole update, but the topology     *)
(* belongs to Windows: a crash can fall between any two steps, and the     *)
(* capture thread replaces and configures the virtual monitor (a change of *)
(* mode) without taking the mutex.                                         *)
(***************************************************************************)
EXTENDS Integers, FiniteSets

CONSTANTS
    Tokens,        \* relay connections
    Epochs,        \* boot times, in half seconds
    MaxUpdates,    \* bound: viewer counts received
    MaxReplugs,    \* bound: changes of mode
    MaxErrors,     \* bound: display calls and file operations that fail
    MaxCrashes     \* bound: kills and reboots

ASSUME PrivacyAssumption ==
    /\ Epochs \subseteq Nat
    /\ {MaxUpdates, MaxReplugs, MaxErrors, MaxCrashes} \subseteq Nat

VARIABLES
    topology,     \* the outputs Windows drives
    snapshot,     \* the snapshot file
    clock,        \* wall clock at boot and half seconds since, modulo one second
    process,      \* the server: "down", "starting", "up" or "stopping"
    applied,      \* PrivacyState.privacy_applied
    connections,  \* PrivacyState.connections, -1 for a token without an entry
    live,         \* connections whose PrivacyConnection has not been dropped
    op,           \* the operation that holds the mutex
    replug,       \* the capture thread's replacement of the virtual monitor
    history,      \* ghost: restoreFailed, discarded, raced, touched
    privacyBudget

privacyVars == <<topology, snapshot, clock, process, applied, connections, live, op, replug,
                 history, privacyBudget>>

NoOp == [kind |-> "none", step |-> "none", token |-> 0, seen |-> FALSE]
NoReplug == [step |-> "none", seen |-> FALSE]
NoSnapshot == [exists |-> FALSE, boot |-> 0, physical |-> FALSE]

PrivacyInit ==
    /\ topology = [physical |-> TRUE, virtual |-> FALSE]
    /\ snapshot = NoSnapshot
    /\ \E e \in Epochs: clock = [epoch |-> e, ticks |-> 0]
    /\ process = "down"
    /\ applied = FALSE
    /\ connections = [t \in Tokens |-> -1]
    /\ live = {}
    /\ op = NoOp
    /\ replug = NoReplug
    /\ history = [restoreFailed |-> FALSE, discarded |-> FALSE, raced |-> FALSE,
                  touched |-> FALSE]
    /\ privacyBudget = [updates |-> 0, replugs |-> 0, errors |-> 0, crashes |-> 0]

Use(what, bound) ==
    /\ privacyBudget[what] < bound
    /\ privacyBudget' = [privacyBudget EXCEPT ![what] = @ + 1]

Error == Use("errors", MaxErrors)

\* The boot session: wall clock minus uptime, each truncated to seconds first.
BootSessionId == (clock.epoch + clock.ticks) \div 2 - clock.ticks \div 2

Tick ==
    /\ clock' = [clock EXCEPT !.ticks = 1 - @]
    /\ UNCHANGED <<topology, snapshot, process, applied, connections, live, op, replug,
                   history, privacyBudget>>

HasViewers(c) == \E t \in Tokens: c[t] > 0

-----------------------------------------------------------------------------
(* update_connection, disconnect *)

Idle == op = NoOp

Connect(t) ==
    /\ process = "up" /\ Idle
    /\ t \notin live /\ connections[t] = -1
    /\ live' = live \cup {t}
    /\ connections' = [connections EXCEPT ![t] = 0]
    /\ UNCHANGED <<topology, snapshot, clock, process, applied, op, replug, history,
                   privacyBudget>>

\* The first viewer switches the outputs off, the last one restores them.
Decide(t, new) ==
    /\ connections' = new
    /\ op' = IF ~HasViewers(connections) /\ HasViewers(new) /\ ~applied
             THEN [kind |-> "apply", step |-> "query", token |-> t, seen |-> FALSE]
             ELSE IF HasViewers(connections) /\ ~HasViewers(new) /\ applied
             THEN [NoOp EXCEPT !.kind = "leave", !.step = "read"]
             ELSE NoOp

UpdateConnection(t, count) ==
    /\ process \in {"up", "stopping"} /\ Idle
    /\ t \in live
    /\ Use("updates", MaxUpdates)
    /\ Decide(t, [connections EXCEPT ![t] = count])
    /\ UNCHANGED <<topology, snapshot, clock, process, applied, live, replug, history>>

Disconnect(t) ==
    /\ process \in {"up", "stopping"} /\ Idle
    /\ t \in live
    /\ live' = live \ {t}
    /\ Decide(t, [connections EXCEPT ![t] = -1])
    /\ UNCHANGED <<topology, snapshot, clock, process, applied, replug, history, privacyBudget>>

-----------------------------------------------------------------------------
(* apply_privacy *)

At(kinds, step) == op.kind \in kinds /\ op.step = step
Step(step) == op' = [op EXCEPT !.step = step]

\* A failed apply is undone on the spot only when validation rejected it;
\* otherwise the snapshot, if there is one, leaves the restoring to the disconnect.
ApplyFailed(rejected) ==
    /\ op' = NoOp
    /\ snapshot' = IF rejected THEN NoSnapshot ELSE snapshot
    /\ applied' = (~rejected /\ snapshot.exists)
    /\ connections' = IF applied' THEN connections ELSE [connections EXCEPT ![op.token] = 0]
    /\ history' = [history EXCEPT !.touched = TRUE]

QueryTopology ==
    /\ At({"apply"}, "query")
    /\ \/ /\ topology.virtual
          /\ op' = [op EXCEPT !.step = "write", !.seen = topology.physical]
          /\ UNCHANGED <<snapshot, applied, connections, history, privacyBudget>>
       \/ /\ ~topology.virtual
          /\ ApplyFailed(FALSE)
          /\ UNCHANGED privacyBudget
       \/ Error /\ ApplyFailed(FALSE)
    /\ UNCHANGED <<topology, clock, process, live, replug>>

WriteSnapshotLate ==
    /\ At({"apply"}, "write")
    /\ Step("set")
    /\ UNCHANGED <<topology, snapshot, clock, process, applied, connections, live, replug,
                   history, privacyBudget>>

\* The new file replaces the old one with a rename.
WriteSnapshot ==
    /\ At({"apply"}, "write")
    /\ \/ /\ snapshot' = [exists |-> TRUE, boot |-> BootSessionId, physical |-> op.seen]
          /\ Step("set")
          /\ UNCHANGED <<applied, connections, history, privacyBudget>>
       \/ Error /\ ApplyFailed(FALSE)
    /\ UNCHANGED <<topology, clock, process, live, replug>>

\* SetDisplayConfig: rejected by the validation, applied, or failed in between.
\* A configuration that names a monitor which is gone is rejected.
SetPrivacy ==
    /\ At({"apply"}, "set")
    /\ \/ /\ topology.virtual
          /\ topology' = [topology EXCEPT !.physical = FALSE]
          /\ Step("verify")
          /\ UNCHANGED <<snapshot, applied, connections, history, privacyBudget>>
       \/ /\ ~topology.virtual
          /\ ApplyFailed(TRUE)
          /\ UNCHANGED <<topology, privacyBudget>>
       \/ /\ Error
          /\ \/ ApplyFailed(TRUE) /\ UNCHANGED topology
             \/ /\ ApplyFailed(FALSE)
                /\ \E off \in BOOLEAN:
                      topology' = [topology EXCEPT !.physical = @ /\ ~off]
    /\ UNCHANGED <<clock, process, live, replug>>

\* No active source but the virtual one may be left.
VerifyPrivacy ==
    /\ At({"apply"}, "verify")
    /\ \/ /\ topology.virtual /\ ~topology.physical
          /\ applied' = TRUE
          /\ op' = NoOp
          /\ history' = [history EXCEPT !.touched = FALSE, !.restoreFailed = FALSE]
          /\ UNCHANGED <<snapshot, connections, privacyBudget>>
       \/ /\ ~topology.virtual \/ topology.physical
          /\ ApplyFailed(FALSE)
          /\ UNCHANGED privacyBudget
       \/ Error /\ ApplyFailed(FALSE)
    /\ UNCHANGED <<topology, clock, process, live, replug>>

-----------------------------------------------------------------------------
(* restore_snapshot, for the last viewer, a shutdown, a drop and a recovery *)

Restoring == {"leave", "shutdown", "drop", "recover"}

Stopped ==
    /\ process' = "down"
    /\ applied' = FALSE
    /\ connections' = [t \in Tokens |-> -1]
    /\ live' = {}
    /\ op' = NoOp
    /\ replug' = NoReplug

\* What each caller does once the snapshot is restored and removed.
Restored ==
    \/ /\ op.kind = "drop" /\ Stopped
    \/ /\ op.kind # "drop"
       /\ op' = NoOp
       /\ applied' = FALSE
       /\ connections' = IF op.kind = "shutdown" THEN [t \in Tokens |-> -1] ELSE connections
       /\ UNCHANGED <<process, live, replug>>

\* What it does when that fails: only the recovery gives the snapshot up.
RestoreFailed ==
    /\ history' = [history EXCEPT !.restoreFailed = TRUE, !.touched = TRUE,
                                  !.discarded = @ \/ op.kind = "recover"]
    /\ snapshot' = IF op.kind = "recover" THEN NoSnapshot ELSE snapshot
    /\ \/ op.kind = "drop" /\ Stopped
       \/ op.kind # "drop" /\ op' = NoOp /\ UNCHANGED <<process, applied, connections, live, replug>>

Continue(step) ==
    Step(step) /\ UNCHANGED <<snapshot, process, applied, connections, live, replug, history,
                              privacyBudget>>

ReadSnapshot ==
    /\ At(Restoring, "read")
    /\ \/ /\ snapshot.exists /\ snapshot.boot = BootSessionId
          /\ Continue("set")
       \/ /\ ~snapshot.exists \/ snapshot.boot # BootSessionId
          /\ RestoreFailed
          /\ UNCHANGED privacyBudget
       \/ Error /\ RestoreFailed
    /\ UNCHANGED <<topology, clock>>

SetRestore ==
    /\ At(Restoring, "set")
    /\ \/ /\ topology.virtual
          /\ topology' = [topology EXCEPT !.physical = snapshot.physical]
          /\ Continue("verify")
       \/ /\ ~topology.virtual
          /\ RestoreFailed
          /\ UNCHANGED <<topology, privacyBudget>>
       \/ /\ Error
          /\ RestoreFailed
          /\ topology' \in {topology, [topology EXCEPT !.physical = snapshot.physical]}
    /\ UNCHANGED clock

VerifyRestore ==
    /\ At(Restoring, "verify")
    /\ \/ /\ topology.virtual /\ (snapshot.physical => topology.physical)
          /\ Continue("remove")
       \/ /\ ~topology.virtual \/ (snapshot.physical /\ ~topology.physical)
          /\ RestoreFailed
          /\ UNCHANGED privacyBudget
       \/ Error /\ RestoreFailed
    /\ UNCHANGED <<topology, clock>>

RemoveSnapshot ==
    /\ At(Restoring, "remove")
    /\ \/ /\ snapshot' = NoSnapshot
          /\ Restored
          /\ history' = [history EXCEPT !.restoreFailed = FALSE]
          /\ UNCHANGED privacyBudget
       \/ Error /\ RestoreFailed
    /\ UNCHANGED <<topology, clock>>

-----------------------------------------------------------------------------
(* The capture thread replaces and configures the virtual monitor *)

MayReplug == process # "down" /\ (process = "starting" => Idle)

ChangeMode ==
    /\ process = "up" /\ replug = NoReplug
    /\ Use("replugs", MaxReplugs)
    /\ replug' = [step |-> "unplug", seen |-> FALSE]
    /\ UNCHANGED <<topology, snapshot, clock, process, applied, connections, live, op, history>>

\* Windows lights a physical output when the last active one goes away.
Unplug ==
    /\ MayReplug /\ replug.step = "unplug"
    /\ topology' = [physical |-> TRUE, virtual |-> FALSE]
    /\ replug' = [replug EXCEPT !.step = "plug"]
    /\ history' = [history EXCEPT !.touched = TRUE]
    /\ UNCHANGED <<snapshot, clock, process, applied, connections, live, op, privacyBudget>>

PlugIn ==
    /\ MayReplug /\ replug.step = "plug"
    /\ topology' = [topology EXCEPT !.virtual = TRUE]
    /\ replug' = [replug EXCEPT !.step = "query"]
    /\ UNCHANGED <<snapshot, clock, process, applied, connections, live, op, history,
                   privacyBudget>>

\* configure_once: query all active paths, change the virtual one, set them all.
ConfigureQuery ==
    /\ MayReplug /\ replug.step = "query"
    /\ replug' = [step |-> "apply", seen |-> topology.physical]
    /\ UNCHANGED <<topology, snapshot, clock, process, applied, connections, live, op, history,
                   privacyBudget>>

ConfigureApply ==
    /\ MayReplug /\ replug.step = "apply"
    /\ topology' = [topology EXCEPT !.physical = replug.seen]
    /\ history' = [history EXCEPT !.touched = TRUE,
                                  !.raced = @ \/ replug.seen # topology.physical]
    /\ replug' = NoReplug
    /\ process' = IF process = "starting" THEN "up" ELSE process
    /\ UNCHANGED <<snapshot, clock, applied, connections, live, op, privacyBudget>>

ConfigureRetries ==
    /\ MayReplug /\ replug.step = "apply"
    /\ Error
    /\ replug' = [replug EXCEPT !.step = "query"]
    /\ UNCHANGED <<topology, snapshot, clock, process, applied, connections, live, op, history>>

-----------------------------------------------------------------------------
(* The process *)

\* main restores what an unclean end left before it touches the displays.
Start ==
    /\ process = "down"
    /\ process' = "starting"
    /\ op' = IF snapshot.exists THEN [NoOp EXCEPT !.kind = "recover", !.step = "read"] ELSE NoOp
    /\ replug' = [step |-> IF topology.virtual THEN "unplug" ELSE "plug", seen |-> FALSE]
    /\ UNCHANGED <<topology, snapshot, clock, applied, connections, live, history, privacyBudget>>

Shutdown ==
    /\ process = "up" /\ Idle
    /\ process' = "stopping"
    /\ op' = IF applied \/ snapshot.exists
             THEN [NoOp EXCEPT !.kind = "shutdown", !.step = "read"] ELSE NoOp
    /\ UNCHANGED <<topology, snapshot, clock, applied, connections, live, replug, history,
                   privacyBudget>>

\* The last controller is dropped when the runtime goes away.
DropController ==
    /\ process = "stopping" /\ Idle
    /\ \/ /\ applied \/ snapshot.exists
          /\ op' = [NoOp EXCEPT !.kind = "drop", !.step = "read"]
          /\ UNCHANGED <<process, applied, connections, live, replug>>
       \/ ~applied /\ ~snapshot.exists /\ Stopped
    /\ UNCHANGED <<topology, snapshot, clock, history, privacyBudget>>

Crash ==
    /\ process # "down"
    /\ Use("crashes", MaxCrashes)
    /\ Stopped
    /\ UNCHANGED <<topology, snapshot, clock, history>>

\* No topology is saved in Windows' database, so a reboot undoes all of them.
Reboot ==
    /\ Use("crashes", MaxCrashes)
    /\ Stopped
    /\ topology' = [physical |-> TRUE, virtual |-> FALSE]
    /\ clock' = [epoch |-> clock.epoch + 4, ticks |-> 0]
    /\ UNCHANGED <<snapshot, history>>

Viewers ==
    \E t \in Tokens: Connect(t) \/ Disconnect(t) \/ \E n \in 0 .. 1: UpdateConnection(t, n)
Controller ==
    \/ QueryTopology \/ WriteSnapshot \/ SetPrivacy \/ VerifyPrivacy
    \/ ReadSnapshot \/ SetRestore \/ VerifyRestore \/ RemoveSnapshot
Replug == Unplug \/ PlugIn \/ ConfigureQuery \/ ConfigureApply \/ ConfigureRetries
Process == Start \/ Shutdown \/ DropController \/ Crash \/ Reboot

PrivacyNext == Tick \/ Viewers \/ Controller \/ ChangeMode \/ Replug \/ Process

PrivacySpec == PrivacyInit /\ [][PrivacyNext]_privacyVars

-----------------------------------------------------------------------------
(* Properties *)

\* Every part of the controller's and Windows' state has its type; a connection
\* holds the count its relay sent last, never more.
PrivacyTypeOK ==
    /\ topology \in [physical: BOOLEAN, virtual: BOOLEAN]
    /\ snapshot \in [exists: BOOLEAN, boot: Nat, physical: BOOLEAN]
    /\ process \in {"down", "starting", "up", "stopping"}
    /\ applied \in BOOLEAN
    /\ connections \in [Tokens -> -1 .. 1]
    /\ live \subseteq Tokens
    /\ op.kind \in {"none", "apply"} \cup Restoring

\* Physical outputs are never off without a way back: the snapshot that shows
\* them on is on disk before they go off and until they are on again, wherever a
\* kill falls.  Exceptions: a recovery that failed discards the file, and a
\* configure_once that overlapped the controller's own change wrote back what
\* it had queried before.
PanelsHaveAWayBack ==
    ~topology.physical =>
        \/ snapshot.exists /\ snapshot.physical
        \/ history.discarded \/ history.raced

\* Between updates the mode follows the viewers: with a viewer counted it is
\* applied, and without one it is not, unless restoring the topology failed.
PrivacyFollowsViewers ==
    process = "up" /\ Idle =>
        /\ HasViewers(connections) => applied
        /\ applied /\ ~HasViewers(connections) => history.restoreFailed

\* While a viewer is counted and the apply succeeded, the physical outputs are
\* off; only a change of mode, which replaces the monitor, turns them on again.
PrivacyHolds ==
    Idle /\ applied /\ HasViewers(connections) /\ ~history.touched => ~topology.physical

\* A controller that believes the topology restored is right about it.
PanelsAreBack ==
    process = "up" /\ Idle /\ ~applied =>
        topology.physical \/ history.discarded \/ history.raced

\* The panels are off when they have to be, on when they may be, and can always
\* be brought back.
PrivacySafe ==
    /\ PrivacyTypeOK
    /\ PanelsHaveAWayBack /\ PrivacyFollowsViewers /\ PrivacyHolds /\ PanelsAreBack

\* Only a killed server leaves the physical outputs off once nobody watches.
PanelsComeBack ==
    process = "up" /\ Idle /\ ~HasViewers(connections) => topology.physical
=============================================================================
