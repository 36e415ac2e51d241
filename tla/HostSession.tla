---------------------------- MODULE HostSession ----------------------------
(***************************************************************************)
(* flux-hostd: the daemon that logs a person in to the host over the relay *)
(* connection and then proxies that connection to the person's agent.      *)
(*                                                                         *)
(* Every connection runs handle_connection.  The connections share one     *)
(* SessionManager, whose `inner` is the OS session (owner, locked), whose  *)
(* `claim` is the slot of a fresh login in progress, and whose generation  *)
(* tells stale idle timers apart.  The manager's methods hold a mutex per  *)
(* read or write, not per method, so one step here is one such section.    *)
(* Code between two awaits runs alone when the tokio runtime has a single  *)
(* worker (SingleThread) and interleaves section by section otherwise.     *)
(***************************************************************************)
EXTENDS Naturals

CONSTANTS
    Conns,          \* relay connections that may be open at once
    Users,          \* the names a person may type at the Username prompt
    None,
    Canon,          \* the account name PAM ends up with for a typed name
    SingleThread,   \* the runtime has one worker thread
    IdleLogout,     \* FLUX_SESSION_IDLE_LOGOUT_SECS is not zero
    Signals,        \* SIGTERM may arrive
    MaxFailures,    \* MAX_LOGIN_FAILURES
    MaxGeneration   \* bound: no name is typed beyond it

ASSUME ConstantsAssumption ==
    /\ None \notin Users
    /\ Canon \in [Users -> Users]
    /\ \A u \in Users : Canon[Canon[u]] = Canon[u]
    /\ SingleThread \in BOOLEAN /\ IdleLogout \in BOOLEAN /\ Signals \in BOOLEAN
    /\ MaxFailures \in Nat \ {0}
    /\ MaxGeneration \in Nat

VARIABLES
    owner,          \* inner: the user of the OS session, or None
    locked,         \* inner: locked_since is set
    claim,          \* claim: the typed name of a fresh login, or None
    generation,     \* lock, attach and logout events
    timers,         \* the tasks of schedule_idle_logout
    status,         \* RuntimeStatus: login_state and logged_in_user
    failures,       \* LoginRateLimiter: failures of the relay's address
    blocked,        \* LoginRateLimiter: blocked_until lies ahead
    down,           \* the shutdown future of main
    pc,             \* where a connection's handler is
    user,           \* the name typed on a connection
    mode            \* Mode of a connection: fresh logins hold the Claim guard

manager == <<owner, locked, claim, generation>>
limiter == <<failures, blocked>>
vars == <<owner, locked, claim, generation, timers, status, failures, blocked,
          down, pc, user, mode>>

-----------------------------------------------------------------------------
(* Where a handler can be.  At the places in MidSection it is between two  *)
(* critical sections with no await to the next one.                        *)
MidSection == {"reading", "checking", "claiming", "opening", "opened", "attached",
               "ended", "locking", "erring", "syncing"}
Awaiting == {"idle", "username", "pam", "starting", "okframe", "proxy"}

(* The OS session is this connection's own: between open or try_attach and *)
(* the lock() that ends it.                                                *)
Attached == {"opened", "attached", "okframe", "proxy", "ended", "locking", "erring"}

(* A fresh login that has claimed the slot and not opened the session yet. *)
Claiming == {"pam", "starting"}

TimerMid == {"matched", "expired"}
Timer == [gen : Nat, at : {"asleep", "stopping"} \cup TimerMid]
Status == [state : {"idle"}, user : {None}] \cup [state : {"active", "locked"}, user : Users]

ConnRuns(c) ==
    /\ down # "exited"
    /\ SingleThread =>
         /\ \A d \in Conns \ {c} : pc[d] \notin MidSection
         /\ \A t \in timers : t.at \notin TimerMid

TimerRuns(t) ==
    /\ down # "exited"
    /\ SingleThread =>
         /\ \A d \in Conns : pc[d] \notin MidSection
         /\ \A s \in timers \ {t} : s.at \notin TimerMid

(* SessionManager::state() as update_login_status shows it. *)
Shown ==
    CASE claim # None \/ owner = None -> [state |-> "idle", user |-> None]
      [] claim = None /\ owner # None /\ locked -> [state |-> "locked", user |-> owner]
      [] claim = None /\ owner # None /\ ~locked -> [state |-> "active", user |-> owner]

(* The handler leaves its login: a Claim guard in scope is dropped. *)
Leave(c, place) ==
    /\ pc' = [pc EXCEPT ![c] = place]
    /\ user' = [user EXCEPT ![c] = None]
    /\ mode' = [mode EXCEPT ![c] = "none"]
    /\ claim' = IF mode[c] = "fresh" THEN None ELSE claim

(* Mutant: the guard is forgotten, not dropped. *)
LeaveKeepingClaim(c, place) ==
    /\ pc' = [pc EXCEPT ![c] = place]
    /\ user' = [user EXCEPT ![c] = None]
    /\ mode' = [mode EXCEPT ![c] = "none"]
    /\ claim' = claim

GoTo(c, place) == pc' = [pc EXCEPT ![c] = place]

-----------------------------------------------------------------------------
Init ==
    /\ owner = None /\ locked = FALSE /\ claim = None /\ generation = 0
    /\ timers = {}
    /\ status = [state |-> "idle", user |-> None]
    /\ failures = 0 /\ blocked = FALSE
    /\ down = "up"
    /\ pc = [c \in Conns |-> "idle"]
    /\ user = [c \in Conns |-> None]
    /\ mode = [c \in Conns |-> "none"]

(* A connection is accepted, sits out the cooldown, says hello and is shown *)
(* the Username prompt.                                                     *)
Accept(c) ==
    /\ ConnRuns(c)
    /\ pc[c] = "idle"
    /\ ~blocked
    /\ GoTo(c, "username")
    /\ UNCHANGED <<manager, timers, status, limiter, down, user, mode>>

CooldownOver ==
    /\ blocked /\ down # "exited"
    /\ blocked' = FALSE
    /\ UNCHANGED <<manager, timers, status, failures, down, pc, user, mode>>

(* The relay hangs up, at the Username prompt or during the PAM dialogue. *)
HangUp(c) ==
    /\ ConnRuns(c)
    /\ pc[c] \in {"username", "pam"}
    /\ Leave(c, "idle")
    /\ UNCHANGED <<owner, locked, generation, timers, status, limiter, down>>

(* A name arrives; state() reads the claim first.  Claimed is answered busy. *)
GiveName(c, u) ==
    /\ ConnRuns(c)
    /\ pc[c] = "username"
    /\ generation < MaxGeneration
    /\ IF claim = None
       THEN GoTo(c, "reading") /\ user' = [user EXCEPT ![c] = u]
       ELSE GoTo(c, "idle") /\ user' = user
    /\ UNCHANGED <<manager, timers, status, limiter, down, mode>>

(* state() reads inner: Free, Locked by this very name, or busy. *)
ReadInner(c) ==
    /\ ConnRuns(c)
    /\ pc[c] = "reading"
    /\ \/ /\ owner = None
          /\ GoTo(c, "checking")
          /\ UNCHANGED <<claim, user, mode>>
       \/ /\ owner # None /\ locked /\ owner = user[c]
          /\ GoTo(c, "pam")
          /\ mode' = [mode EXCEPT ![c] = "reattach"]
          /\ UNCHANGED <<claim, user>>
       \/ /\ owner # None /\ ~(locked /\ owner = user[c])
          /\ Leave(c, "idle")
    /\ UNCHANGED <<owner, locked, generation, timers, status, limiter, down>>

(* try_claim, first section: a session exists already. *)
CheckInner(c) ==
    /\ ConnRuns(c)
    /\ pc[c] = "checking"
    /\ IF owner = None
       THEN GoTo(c, "claiming") /\ UNCHANGED <<claim, user, mode>>
       ELSE Leave(c, "idle")
    /\ UNCHANGED <<owner, locked, generation, timers, status, limiter, down>>

(* try_claim, second section: another claim exists, or the slot is taken. *)
TryClaim(c) ==
    /\ ConnRuns(c)
    /\ pc[c] = "claiming"
    /\ \/ /\ claim = None
          /\ claim' = user[c]
          /\ mode' = [mode EXCEPT ![c] = "fresh"]
          /\ GoTo(c, "pam")
          /\ user' = user
       \/ /\ claim # None
          /\ Leave(c, "idle")
    /\ UNCHANGED <<owner, locked, generation, timers, status, limiter, down>>

-----------------------------------------------------------------------------
(* PAM accepts a fresh login; the account is looked up: found, unknown (the *)
(* prompt again) or unreadable (the connection ends).                       *)
PamOpens(c) ==
    /\ ConnRuns(c)
    /\ pc[c] = "pam" /\ mode[c] = "fresh"
    /\ failures' = 0
    /\ \/ GoTo(c, "starting") /\ UNCHANGED <<claim, user, mode>>
       \/ \E place \in {"username", "idle"} : Leave(c, place)
    /\ UNCHANGED <<owner, locked, generation, timers, status, blocked, down>>

(* Mutant: try_attach does not check that the session is still locked. *)
PamReattachesUnchecked(c) ==
    /\ ConnRuns(c)
    /\ pc[c] = "pam" /\ mode[c] = "reattach"
    /\ failures' = 0
    /\ locked' = FALSE
    /\ generation' = generation + 1
    /\ GoTo(c, "attached")
    /\ UNCHANGED <<claim, user, mode>>
    /\ UNCHANGED <<owner, timers, status, blocked, down>>

(* PAM accepts the owner of a locked session; try_attach checks again. *)
PamReattaches(c) ==
    /\ ConnRuns(c)
    /\ pc[c] = "pam" /\ mode[c] = "reattach"
    /\ failures' = 0
    /\ \/ /\ owner = user[c] /\ locked
          /\ locked' = FALSE
          /\ generation' = generation + 1
          /\ GoTo(c, "attached")
          /\ UNCHANGED <<claim, user, mode>>
       \/ /\ ~(owner = user[c] /\ locked)
          /\ Leave(c, "idle")
          /\ UNCHANGED <<locked, generation>>
    /\ UNCHANGED <<owner, timers, status, blocked, down>>

(* Mutant: a failed login keeps the slot. *)
PamFailsKeepingClaim(c) ==
    /\ ConnRuns(c)
    /\ pc[c] = "pam"
    /\ IF failures + 1 >= MaxFailures
       THEN failures' = 0 /\ blocked' = TRUE /\ LeaveKeepingClaim(c, "idle")
       ELSE failures' = failures + 1 /\ blocked' = blocked /\ LeaveKeepingClaim(c, "username")
    /\ UNCHANGED <<owner, locked, generation, timers, status, down>>

(* PAM refuses: record_failure closes the connection on the last attempt,   *)
(* otherwise the Username prompt is shown again.                            *)
PamFails(c) ==
    /\ ConnRuns(c)
    /\ pc[c] = "pam"
    /\ IF failures + 1 >= MaxFailures
       THEN failures' = 0 /\ blocked' = TRUE /\ Leave(c, "idle")
       ELSE failures' = failures + 1 /\ blocked' = blocked /\ Leave(c, "username")
    /\ UNCHANGED <<owner, locked, generation, timers, status, down>>

(* start_user_session fails, or open() begins by clearing the claim. *)
StartSession(c) ==
    /\ ConnRuns(c)
    /\ pc[c] = "starting"
    /\ \/ /\ claim' = None
          /\ GoTo(c, "opening")
          /\ UNCHANGED <<user, mode>>
       \/ Leave(c, "idle")
    /\ UNCHANGED <<owner, locked, generation, timers, status, limiter, down>>

(* open() installs the session of the account PAM named. *)
Open(c) ==
    /\ ConnRuns(c)
    /\ pc[c] = "opening"
    /\ owner' = Canon[user[c]]
    /\ locked' = FALSE
    /\ GoTo(c, "opened")
    /\ UNCHANGED <<claim, generation, timers, status, limiter, down, user, mode>>

(* update_login_status after open or try_attach; the ok frame goes out next. *)
Announce(c) ==
    /\ ConnRuns(c)
    /\ pc[c] \in {"opened", "attached"}
    /\ status' = Shown
    /\ GoTo(c, "okframe")
    /\ UNCHANGED <<manager, timers, limiter, down, user, mode>>

(* The ok frame is written, or `?` ends the handler on the spot. *)
SendOk(c) ==
    /\ ConnRuns(c)
    /\ pc[c] = "okframe"
    /\ \/ GoTo(c, "proxy") /\ UNCHANGED <<claim, user, mode>>
       \/ Leave(c, "idle")
    /\ UNCHANGED <<owner, locked, generation, timers, status, limiter, down>>

-----------------------------------------------------------------------------
(* proxy() returns Disconnected or Locked ("ended"), or an error; the arm's *)
(* Claim guard is dropped.                                                  *)
ProxyEnds(c) ==
    /\ ConnRuns(c)
    /\ pc[c] = "proxy"
    /\ \E place \in {"ended", "erring"} : GoTo(c, place)
    /\ claim' = IF mode[c] = "fresh" THEN None ELSE claim
    /\ mode' = [mode EXCEPT ![c] = "none"]
    /\ UNCHANGED <<owner, locked, generation, timers, status, limiter, down, user>>

(* schedule_idle_logout notes the generation and starts a timer. *)
Schedule(c) ==
    /\ ConnRuns(c)
    /\ pc[c] = "ended"
    /\ timers' = IF IdleLogout THEN timers \cup {[gen |-> generation, at |-> "asleep"]}
                               ELSE timers
    /\ GoTo(c, "locking")
    /\ UNCHANGED <<manager, status, limiter, down, user, mode>>

(* lock() marks whatever session there is. *)
Lock(c) ==
    /\ ConnRuns(c)
    /\ pc[c] \in {"locking", "erring"}
    /\ locked' = (owner # None)
    /\ generation' = IF owner # None THEN generation + 1 ELSE generation
    /\ IF pc[c] = "locking" THEN GoTo(c, "syncing") /\ user' = user
                            ELSE GoTo(c, "idle") /\ user' = [user EXCEPT ![c] = None]
    /\ UNCHANGED <<owner, claim, timers, status, limiter, down, mode>>

(* update_login_status; the connection is over, or after a lock command it  *)
(* is back at the Username prompt.                                          *)
Synced(c) ==
    /\ ConnRuns(c)
    /\ pc[c] = "syncing"
    /\ status' = Shown
    /\ \E place \in {"idle", "username"} : GoTo(c, place)
    /\ user' = [user EXCEPT ![c] = None]
    /\ UNCHANGED <<manager, timers, limiter, down, mode>>

-----------------------------------------------------------------------------
(* The idle timer: compares the generation, asks for the state, and if the  *)
(* session is still locked takes it out, stops it and reports idle.         *)
TimerWakes(t) ==
    /\ TimerRuns(t)
    /\ t.at = "asleep"
    /\ timers' = (timers \ {t}) \cup
                   (IF t.gen = generation THEN {[t EXCEPT !.at = "matched"]} ELSE {})
    /\ UNCHANGED <<manager, status, limiter, down, pc, user, mode>>

TimerReads(t) ==
    /\ TimerRuns(t)
    /\ t.at = "matched"
    /\ timers' = (timers \ {t}) \cup
                   (IF Shown.state = "locked" THEN {[t EXCEPT !.at = "expired"]} ELSE {})
    /\ UNCHANGED <<manager, status, limiter, down, pc, user, mode>>

TimerTakes(t) ==
    /\ TimerRuns(t)
    /\ t.at = "expired"
    /\ timers' = (timers \ {t}) \cup
                   (IF owner # None THEN {[t EXCEPT !.at = "stopping"]} ELSE {})
    /\ owner' = None /\ locked' = FALSE
    /\ generation' = generation + 1
    /\ UNCHANGED <<claim, status, limiter, down, pc, user, mode>>

TimerDone(t) ==
    /\ TimerRuns(t)
    /\ t.at = "stopping"
    /\ timers' = timers \ {t}
    /\ status' = [state |-> "idle", user |-> None]
    /\ UNCHANGED <<manager, limiter, down, pc, user, mode>>

(* SIGTERM: logout_current takes the session out and stops it, and main     *)
(* returns.  The future runs on the main thread, beside the workers, and    *)
(* other connections run on until the process exits.                        *)
Terminate ==
    /\ Signals /\ down = "up"
    /\ down' = IF owner # None THEN "stopping" ELSE "exited"
    /\ owner' = None /\ locked' = FALSE
    /\ generation' = generation + 1
    /\ UNCHANGED <<claim, timers, status, limiter, pc, user, mode>>

Exit ==
    /\ down = "stopping"
    /\ down' = "exited"
    /\ status' = [state |-> "idle", user |-> None]
    /\ UNCHANGED <<manager, timers, limiter, pc, user, mode>>

PamStep(c) == HangUp(c) \/ PamOpens(c) \/ PamReattaches(c) \/ PamFails(c)

SectionStep(c) ==
    \/ ReadInner(c) \/ CheckInner(c) \/ TryClaim(c) \/ StartSession(c) \/ Open(c)
    \/ Announce(c) \/ SendOk(c) \/ Schedule(c) \/ Lock(c) \/ Synced(c)

TimerStep(t) == TimerWakes(t) \/ TimerReads(t) \/ TimerTakes(t) \/ TimerDone(t)

Next ==
    \/ \E c \in Conns : \/ Accept(c) \/ \E u \in Users : GiveName(c, u)
                        \/ PamStep(c) \/ SectionStep(c) \/ ProxyEnds(c)
    \/ \E t \in timers : TimerStep(t)
    \/ CooldownOver \/ Terminate \/ Exit

Spec == Init /\ [][Next]_vars

(* The runtime keeps polling its tasks, timers go off, and a PAM dialogue   *)
(* comes to an end: the person answers or the relay hangs up.               *)
HostFairness ==
    /\ \A c \in Conns : WF_vars(pc[c] = "pam" /\ PamStep(c)) /\ WF_vars(SectionStep(c))
    /\ WF_vars(\E t \in timers : TimerStep(t))

FairSpec == Spec /\ HostFairness

-----------------------------------------------------------------------------
(* PROPERTIES.  Connections go on logging in while SIGTERM's logout waits,  *)
(* so the safety properties speak of a daemon not yet told to stop.         *)

(* Every variable has its type; the failure count stays below the limit. *)
TypeOK ==
    /\ owner \in Users \cup {None} /\ locked \in BOOLEAN
    /\ claim \in Users \cup {None}
    /\ generation \in Nat
    /\ timers \subseteq Timer
    /\ status \in Status
    /\ failures \in 0 .. MaxFailures - 1 /\ blocked \in BOOLEAN
    /\ down \in {"up", "stopping", "exited"}
    /\ pc \in [Conns -> MidSection \cup Awaiting]
    /\ user \in [Conns -> Users \cup {None}]
    /\ mode \in [Conns -> {"none", "fresh", "reattach"}]

(* Two relay connections are never both attached to the OS session: PAM ran *)
(* for both, but open and try_attach let one through.                       *)
OneAttachment ==
    down = "up" =>
        \A c, d \in Conns : pc[c] \in Attached /\ pc[d] \in Attached => c = d

(* The connection that proxies is the one whose person owns the session,    *)
(* and the session is neither locked nor gone under it.                     *)
AttachedSessionIsOpen ==
    down = "up" =>
        \A c \in Conns : pc[c] \in Attached => owner = Canon[user[c]] /\ ~locked

(* try_claim hands the slot out only while no session exists, and the claim *)
(* is gone before the session appears.                                      *)
ClaimExcludesSession ==
    down = "up" => (claim # None => owner = None)

(* The claim is never orphaned: some connection in the middle of a fresh    *)
(* login still holds the guard that frees it.                               *)
ClaimIsHeld ==
    claim # None => \E c \in Conns : /\ mode[c] = "fresh" /\ user[c] = claim
                                     /\ pc[c] \in Claiming

(* A fresh login keeps its claim until open(): no other connection's guard  *)
(* frees the slot under it.                                                 *)
LoginKeepsClaim ==
    down = "up" =>
        \A c \in Conns : pc[c] \in Claiming /\ mode[c] = "fresh" => claim = user[c]

(* One login or one viewer has the machine: nobody is let in beside the one  *)
(* who claims the slot, or who is attached to the session.                   *)
SessionIsExclusive ==
    OneAttachment /\ AttachedSessionIsOpen /\ ClaimExcludesSession /\ LoginKeepsClaim

(* The OS session never passes from one user to another without a logout in *)
(* between: open() does not overwrite a session.                            *)
OwnerIsReplacedOnlyByLogout ==
    [][down = "up" /\ owner # None => owner' \in {owner, None}]_vars

(* What schedule_idle_logout captured is always older than the lock it was  *)
(* meant to time: a sleeping timer never matches a locked session.          *)
TimersAreStale ==
    down = "up" =>
        \A t \in timers : t.gen <= generation /\ (owner # None /\ locked => t.gen < generation)

(* The heartbeat names the session's owner whenever no handler is between   *)
(* changing the session and reporting it.                                   *)
HeartbeatNamesOwner ==
    down = "up" /\ (\A c \in Conns : pc[c] \in Awaiting) => status.user = owner

(* A claimed slot is freed again, by a session or by the end of the login.  *)
ClaimResolves == claim # None ~> claim = None

-----------------------------------------------------------------------------
(* THE INDUCTIVE INVARIANT of a daemon with one worker thread that has not  *)
(* been told to stop.                                                       *)

(* What a handler knows of itself at each place. *)
HandlerShape ==
    \A c \in Conns :
        /\ pc[c] \notin {"idle", "username"} => user[c] \in Users
        /\ mode[c] = "fresh" => pc[c] \in {"pam", "starting", "opening", "opened",
                                           "okframe", "proxy"}
        /\ pc[c] \in {"starting", "opening", "opened"} => mode[c] = "fresh"
        /\ pc[c] = "pam" => mode[c] # "none"

(* Code between two awaits runs alone. *)
RunsAlone ==
    /\ \A c, d \in Conns : pc[c] \in MidSection /\ pc[d] \in MidSection => c = d
    /\ \A t \in timers : t.at = "matched" => \A c \in Conns : pc[c] \notin MidSection

(* What state() and try_claim read still holds when the next section runs. *)
FreshReads ==
    \A c \in Conns :
        /\ pc[c] \in {"reading", "checking", "claiming", "opening"} => claim = None
        /\ pc[c] \in {"checking", "claiming", "opening"} => owner = None

(* The one who claimed, is opening or is attached is the only one, and the  *)
(* claim, the session and the lock are its own.                             *)
Holds(c) ==
    \/ mode[c] = "fresh" /\ pc[c] \in Claiming
    \/ pc[c] = "opening"
    \/ pc[c] \in Attached

OneHolder == \A c, d \in Conns : Holds(c) /\ Holds(d) => c = d

SessionShape ==
    /\ owner = None => ~locked
    /\ owner # None => Canon[owner] = owner
    /\ (\A c \in Conns : pc[c] # "opened") => status.user = owner

(* A timer whose generation matches finds the session attached: it never    *)
(* gets as far as the logout.                                               *)
NoLogout == \A t \in timers : t.at = "asleep" \/ (t.at = "matched" /\ t.gen = generation)

IInv ==
    /\ TypeOK
    /\ HandlerShape
    /\ down = "up" =>
         /\ RunsAlone /\ FreshReads /\ OneHolder /\ SessionShape /\ NoLogout
         /\ AttachedSessionIsOpen /\ ClaimExcludesSession /\ LoginKeepsClaim
         /\ TimersAreStale

=============================================================================
