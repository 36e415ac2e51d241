---------------------------- MODULE RelaySessions ----------------------------
(***************************************************************************)
(* The viewer slot of one machine in the flux-web relay.                   *)
(*                                                                         *)
(* A browser's WebTransport handler (webtransport.go) acquires the         *)
(* machine's slot from the registry (registry.go), passes the host-login   *)
(* gate (login.go), binds itself to the upstream and enters the session    *)
(* list (sessions.go).  When its transport dies, releaseNow walks back     *)
(* through the same state.  Meanwhile the upstream's own goroutine         *)
(* (upstream.go) dials the host, reads login frames and, when the link     *)
(* breaks, ends the viewers; the host registers, stays silent until it     *)
(* expires, or deregisters.                                                *)
(*                                                                         *)
(* A section under one of the mutexes (machineRegistry.mu,                 *)
(* machineUpstream.mu, loginMu, sessionRegistry.mu) is atomic, and what    *)
(* runs between two sections interleaves; two sections in a row are one    *)
(* step only where no other goroutine can tell.  The model follows one     *)
(* machine id: machines meet only through values keyed by id.  Video,      *)
(* input and the command queue are not part of this module.                *)
(***************************************************************************)
EXTENDS Naturals, FiniteSets

CONSTANTS
    Sessions,       \* WebTransport sessions, each used once (newID)
    Upstreams,      \* *machineUpstream values, each used once
    Records,        \* *machineRecord values, each used once
    None,           \* Go's nil
    SupportsLogin,  \* machineRegistration.SupportsLogin
    Churn,          \* how the registration may go away; {} for a static machine
    Quic,           \* the upstream's link is QUIC (dialled or host link), not TCP
    HostLogin,      \* the host end is flux-hostd, which speaks the login protocol
    SubOf           \* the relay identity of a session; None without OIDC

ASSUME ConstantsAssumption ==
    /\ None \notin Sessions \cup Upstreams \cup Records
    /\ SupportsLogin \in BOOLEAN
    /\ HostLogin \in BOOLEAN
    /\ Churn \subseteq {"expire", "deregister"}
    /\ Quic \in BOOLEAN

VARIABLES
    machine,    \* machineRegistry.machines[id]
    status,     \* record -> "unused", or machineInfo.Status
    fresh,      \* record -> time.Since(LastSeen) <= machineExpiry
    recUp,      \* record -> machineRecord.upstream
    viewers,    \* upstream -> machineUpstream.viewers
    stopped,    \* upstream -> stopChan is closed
    stale,      \* upstreams detached by get, list or deregister, not yet stopped
    link,       \* upstream -> where its connectFrameServer goroutine is
    ending,     \* upstream -> sessions onUpstreamDisconnected has left to end
    victim,     \* upstream -> the session its goroutine is ending (endByID)
    bound,      \* upstream -> machineUpstream.session
    login,      \* upstream -> machineUpstream.login
    spoken,     \* upstream -> machineUpstream.loginSpoken
    host,       \* upstream -> what flux-hostd's end of the link is doing
    pc,         \* session -> where its handleWebTransport goroutine is
    rel,        \* session -> where its releaseNow is
    got,        \* session -> the record acquire fetched with get
    up,         \* session -> the upstream acquire returned
    role,       \* session -> what gateViewer answered
    open,       \* session -> its transport is open
    entries     \* sessionRegistry.m

registryVars == <<machine, status, fresh, recUp, viewers>>
upstreamVars == <<stopped, stale, link, ending, victim, bound>>
loginVars    == <<login, spoken, host>>
sessionVars  == <<pc, rel, got, up, role, open, entries>>
vars == <<registryVars, upstreamVars, loginVars, sessionVars>>

NoLogin == [state |-> "idle", sess |-> None, sub |-> None]

(* Handler stages from which releaseNow has a machine and a release closure. *)
Attached == {"ready", "bound", "added", "running"}
PcStates == {"idle", "got", "acquired", "rejected", "rejectStop", "refused",
             "finished"} \cup Attached
RelStates == {"no", "cleared", "stopping", "leaving", "done"}

LinkStates == {"unused", "dialing", "up", "orphan", "ending", "exited"}
HostStates == {"asking", "answered", "proxy", "gone"}

Subs == {SubOf[s] : s \in Sessions} \cup {None}
LoginInfo == [state : {"idle", "auth", "active"}, sess : Sessions \cup {None}, sub : Subs]

(* Registry, upstreams, logins and the handlers' pointers have their       *)
(* types.                                                                  *)
TypeOK ==
    /\ machine \in Records \cup {None}
    /\ status \in [Records -> {"unused", "online", "offline"}]
    /\ fresh \in [Records -> BOOLEAN]
    /\ recUp \in [Records -> Upstreams \cup {None}]
    /\ viewers \in [Upstreams -> Nat]
    /\ stopped \in [Upstreams -> BOOLEAN]
    /\ stale \subseteq Upstreams
    /\ link \in [Upstreams -> LinkStates]
    /\ ending \in [Upstreams -> SUBSET Sessions]
    /\ victim \in [Upstreams -> Sessions \cup {None}]
    /\ bound \in [Upstreams -> Sessions \cup {None}]
    /\ login \in [Upstreams -> LoginInfo]
    /\ spoken \in [Upstreams -> BOOLEAN]
    /\ host \in [Upstreams -> HostStates]
    /\ pc \in [Sessions -> PcStates]
    /\ rel \in [Sessions -> RelStates]
    /\ got \in [Sessions -> Records \cup {None}]
    /\ up \in [Sessions -> Upstreams \cup {None}]
    /\ role \in [Sessions -> {"none", "auth", "viewer"}]
    /\ open \in [Sessions -> BOOLEAN]
    /\ entries \subseteq Sessions

Init ==
    /\ machine = None
    /\ status = [r \in Records |-> "unused"]
    /\ fresh = [r \in Records |-> FALSE]
    /\ recUp = [r \in Records |-> None]
    /\ viewers = [u \in Upstreams |-> 0]
    /\ stopped = [u \in Upstreams |-> FALSE]
    /\ stale = {}
    /\ link = [u \in Upstreams |-> "unused"]
    /\ ending = [u \in Upstreams |-> {}]
    /\ victim = [u \in Upstreams |-> None]
    /\ bound = [u \in Upstreams |-> None]
    /\ login = [u \in Upstreams |-> NoLogin]
    /\ spoken = [u \in Upstreams |-> FALSE]
    /\ host = [u \in Upstreams |-> "asking"]
    /\ pc = [s \in Sessions |-> "idle"]
    /\ rel = [s \in Sessions |-> "no"]
    /\ got = [s \in Sessions |-> None]
    /\ up = [s \in Sessions |-> None]
    /\ role = [s \in Sessions |-> "none"]
    /\ open = [s \in Sessions |-> TRUE]
    /\ entries = {}

-----------------------------------------------------------------------------
(* The registry: registrations, silence, expiry, deregistration.             *)

(* registry.go upsert: a registration or heartbeat creates the record or     *)
(* brings it back online; the upstream stays attached.                       *)
Upsert ==
    /\ \E r \in Records :
        /\ IF machine = None THEN status[r] = "unused" ELSE r = machine
        /\ machine' = r
        /\ status' = [status EXCEPT ![r] = "online"]
        /\ fresh' = [fresh EXCEPT ![r] = TRUE]
    /\ UNCHANGED <<recUp, viewers, upstreamVars, loginVars, sessionVars>>

(* machineExpiry passes without a heartbeat.                                 *)
Silence ==
    /\ "expire" \in Churn
    /\ machine # None
    /\ fresh[machine]
    /\ fresh' = [fresh EXCEPT ![machine] = FALSE]
    /\ UNCHANGED <<machine, status, recUp, viewers, upstreamVars, loginVars, sessionVars>>

(* The expiry branch shared by get and list: the record goes offline and its *)
(* upstream is detached, to be stopped once the registry lock is released.   *)
ExpireMachine ==
    /\ status' = [status EXCEPT ![machine] = "offline"]
    /\ recUp' = [recUp EXCEPT ![machine] = None]
    /\ stale' = stale \cup ({recUp[machine]} \ {None})

(* GET /api/machines, or a discovery request's get, meets an expired record. *)
List ==
    /\ machine # None
    /\ ~fresh[machine]
    /\ ExpireMachine
    /\ UNCHANGED <<machine, fresh, viewers, stopped, link, ending, victim, bound,
                   loginVars, sessionVars>>

(* registry.go deregister: the record leaves the map with its upstream       *)
(* pointer still set.                                                        *)
Deregister ==
    /\ "deregister" \in Churn
    /\ machine # None
    /\ machine' = None
    /\ stale' = stale \cup ({recUp[machine]} \ {None})
    /\ UNCHANGED <<status, fresh, recUp, viewers, stopped, link, ending, victim, bound,
                   loginVars, sessionVars>>

(* upstream.go stop, called by get, list or deregister after they unlock.    *)
StopStale(u) ==
    /\ u \in stale
    /\ stale' = stale \ {u}
    /\ stopped' = [stopped EXCEPT ![u] = TRUE]
    /\ UNCHANGED <<registryVars, link, ending, victim, bound, loginVars, sessionVars>>

-----------------------------------------------------------------------------
(* The viewer's handler, handleWebTransport.                                 *)

(* acquire, first registry section (get): the handler keeps the record it    *)
(* found; nothing is reserved yet.                                           *)
Get(s) ==
    /\ pc[s] = "idle"
    /\ IF machine = None
         THEN /\ pc' = [pc EXCEPT ![s] = "refused"]
              /\ UNCHANGED <<status, recUp, stale, got>>
         ELSE IF ~fresh[machine]
         THEN /\ ExpireMachine
              /\ pc' = [pc EXCEPT ![s] = "refused"]
              /\ UNCHANGED got
         ELSE /\ pc' = [pc EXCEPT ![s] = "got"]
              /\ got' = [got EXCEPT ![s] = machine]
              /\ UNCHANGED <<status, recUp, stale>>
    /\ UNCHANGED <<machine, fresh, viewers, stopped, link, ending, victim, bound,
                   loginVars, rel, up, role, open, entries>>

(* Mutant: acquire does not look at the viewer count.                        *)
AcquireUnchecked(s) ==
    /\ pc[s] = "got"
    /\ \E u \in Upstreams :
        /\ u = recUp[got[s]] \/ (recUp[got[s]] = None /\ link[u] = "unused")
        /\ viewers' = [viewers EXCEPT ![u] = @ + 1]
        /\ up' = [up EXCEPT ![s] = u]
        /\ recUp' = [recUp EXCEPT ![got[s]] = u]
        /\ link' = [link EXCEPT ![u] = IF @ = "unused" THEN "dialing" ELSE @]
    /\ pc' = [pc EXCEPT ![s] = "acquired"]
    /\ got' = [got EXCEPT ![s] = None]
    /\ UNCHANGED <<machine, status, fresh, stopped, stale, ending, victim, bound,
                   loginVars, rel, role, open, entries>>

(* acquire, second registry section: refuse an occupied upstream, otherwise  *)
(* take the record's upstream or create and start one.                       *)
Acquire(s) ==
    /\ pc[s] = "got"
    /\ LET r == got[s]
           current == recUp[r]
           Take(u) ==
             /\ viewers' = [viewers EXCEPT ![u] = @ + 1]
             /\ up' = [up EXCEPT ![s] = u]
             /\ pc' = [pc EXCEPT ![s] = "acquired"]
       IN  \/ /\ current # None
              /\ viewers[current] > 0
              /\ pc' = [pc EXCEPT ![s] = "refused"]
              /\ UNCHANGED <<recUp, viewers, link, up>>
           \/ /\ current # None
              /\ viewers[current] = 0
              /\ Take(current)
              /\ UNCHANGED <<recUp, link>>
           \/ /\ current = None
              /\ \E u \in Upstreams :
                    /\ link[u] = "unused"
                    /\ Take(u)
                    /\ recUp' = [recUp EXCEPT ![r] = u]
                    /\ link' = [link EXCEPT ![u] = "dialing"]
    /\ got' = [got EXCEPT ![s] = None]
    /\ UNCHANGED <<machine, status, fresh, stopped, stale, ending, victim, bound,
                   loginVars, rel, role, open, entries>>

(* login.go gateViewer.  When it admits the session, the handler also sets   *)
(* the release closure and starts the goroutine that waits for the           *)
(* transport to close.                                                       *)
GateViewer(s) ==
    /\ pc[s] = "acquired"
    /\ LET u == up[s]
           l == login[u]
       IN  \/ /\ ~SupportsLogin /\ ~spoken[u]
              /\ role' = [role EXCEPT ![s] = "viewer"]
              /\ pc' = [pc EXCEPT ![s] = "ready"]
              /\ UNCHANGED login
           \/ /\ SupportsLogin \/ spoken[u]
              /\ l.state = "auth" \/ (l.state = "active" /\ (l.sub = None \/ SubOf[s] # l.sub))
              /\ pc' = [pc EXCEPT ![s] = "rejected"]
              /\ UNCHANGED <<login, role>>
           \/ /\ SupportsLogin \/ spoken[u]
              /\ l.state = "active" /\ l.sub # None /\ SubOf[s] = l.sub
              /\ role' = [role EXCEPT ![s] = "viewer"]
              /\ pc' = [pc EXCEPT ![s] = "ready"]
              /\ UNCHANGED login
           \/ /\ SupportsLogin \/ spoken[u]
              /\ l.state = "idle"
              /\ login' = [login EXCEPT ![u] = [state |-> "auth", sess |-> s, sub |-> SubOf[s]]]
              /\ role' = [role EXCEPT ![s] = "auth"]
              /\ pc' = [pc EXCEPT ![s] = "ready"]
    /\ UNCHANGED <<registryVars, upstreamVars, spoken, host, rel, got, up, open, entries>>

(* A login response reaches flux-hostd, which reads one while it asks and     *)
(* passes it on to the agent once it proxies.                                *)
Answer(u) == host' = [host EXCEPT ![u] = IF @ = "asking" THEN "answered" ELSE @]

(* Mutant: release forgets to detach the upstream from its record.           *)
ReleaseKeepsUpstream(u) ==
    /\ viewers' = [viewers EXCEPT ![u] = IF @ > 0 THEN @ - 1 ELSE 0]
    /\ UNCHANGED recUp

(* registry.go release: give the slot back; at zero viewers detach the       *)
(* upstream from the record that is in the map.                              *)
ReleaseSlot(u) ==
    /\ viewers' = [viewers EXCEPT ![u] = IF @ > 0 THEN @ - 1 ELSE 0]
    /\ recUp' = IF viewers'[u] = 0 /\ machine # None /\ recUp[machine] = u
                  THEN [recUp EXCEPT ![machine] = None]
                  ELSE recUp

(* The reject path: the error reaches the viewer, then registry.release.     *)
Reject(s) ==
    /\ pc[s] = "rejected"
    /\ ReleaseSlot(up[s])
    /\ pc' = [pc EXCEPT ![s] = IF viewers'[up[s]] = 0 THEN "rejectStop" ELSE "refused"]
    /\ UNCHANGED <<machine, status, fresh, upstreamVars, loginVars, rel, got, up, role,
                   open, entries>>

RejectStop(s) ==
    /\ pc[s] = "rejectStop"
    /\ stopped' = [stopped EXCEPT ![up[s]] = TRUE]
    /\ pc' = [pc EXCEPT ![s] = "refused"]
    /\ UNCHANGED <<registryVars, stale, link, ending, victim, bound, loginVars, rel, got,
                   up, role, open, entries>>

(* bindSession; a session found there is replaced and its transport closed.  *)
(* Then, with nothing to wait for, replayPrompt for the authenticating       *)
(* viewer, which may answer the host's Username prompt itself, or the        *)
(* initial keyframe and resolution request for the others.  When the         *)
(* command queue has no room for the resolution, fail() closes the transport *)
(* and the handler returns without listing the session.                      *)
Bind(s) ==
    /\ pc[s] = "ready"
    /\ bound' = [bound EXCEPT ![up[s]] = s]
    /\ LET Replaced == bound[up[s]]
           Closed(X) == open' = [t \in Sessions |-> open[t] /\ t \notin X]
       IN  \/ /\ pc' = [pc EXCEPT ![s] = "bound"]
              /\ Closed({Replaced})
              /\ \/ UNCHANGED host
                 \/ role[s] = "auth" /\ spoken[up[s]] /\ Answer(up[s])
           \/ /\ role[s] = "viewer"
              /\ pc' = [pc EXCEPT ![s] = "running"]
              /\ Closed({Replaced, s})
              /\ UNCHANGED host
    /\ UNCHANGED <<registryVars, stopped, stale, link, ending, victim, login, spoken, rel,
                   got, up, role, entries>>

(* sessions.add *)
Add(s) ==
    /\ pc[s] = "bound"
    /\ entries' = entries \cup {s}
    /\ pc' = [pc EXCEPT ![s] = "added"]
    /\ UNCHANGED <<registryVars, upstreamVars, loginVars, rel, got, up, role, open>>

(* The handler's look at sessionDone after it listed the session.            *)
CheckDone(s) ==
    /\ pc[s] = "added"
    /\ entries' = IF rel[s] = "done" THEN entries \ {s} ELSE entries
    /\ pc' = [pc EXCEPT ![s] = "running"]
    /\ UNCHANGED <<registryVars, upstreamVars, loginVars, rel, got, up, role, open>>

(* readControlMessages returns; the handler's own releaseNow waits for the   *)
(* release that is under way.                                                *)
Finish(s) ==
    /\ pc[s] = "running"
    /\ rel[s] = "done"
    /\ pc' = [pc EXCEPT ![s] = "finished"]
    /\ UNCHANGED <<registryVars, upstreamVars, loginVars, rel, got, up, role, open, entries>>

(* The viewer leaves, its network dies, a control or video write fails.      *)
(* Before the session is attached nobody looks at the transport.             *)
Close(s) ==
    /\ pc[s] \in Attached
    /\ open[s]
    /\ open' = [open EXCEPT ![s] = FALSE]
    /\ UNCHANGED <<registryVars, upstreamVars, loginVars, pc, rel, got, up, role, entries>>

(* sessions.go disconnect: an operator ends a listed session.                *)
Disconnect(s) ==
    /\ s \in entries
    /\ open' = [open EXCEPT ![s] = FALSE]
    /\ UNCHANGED <<registryVars, upstreamVars, loginVars, pc, rel, got, up, role, entries>>

-----------------------------------------------------------------------------
(* releaseNow: runs once per session, in steps other goroutines interleave.  *)

(* Mutant: the release of a session its upstream is ending waits for the     *)
(* upstream, which waits for the release.                                    *)
BeginReleaseBehindEnd(s) ==
    /\ rel[s] = "no"
    /\ pc[s] \in Attached
    /\ ~open[s]
    /\ victim[up[s]] # s
    /\ bound' = [bound EXCEPT ![up[s]] = IF @ = s THEN None ELSE @]
    /\ entries' = entries \ {s}
    /\ rel' = [rel EXCEPT ![s] = "cleared"]
    /\ UNCHANGED <<registryVars, stopped, stale, link, ending, victim, loginVars, pc, got,
                   up, role, open>>

(* The once-section begins: clearSession, then sessions.remove.              *)
BeginRelease(s) ==
    /\ rel[s] = "no"
    /\ pc[s] \in Attached
    /\ ~open[s]
    /\ bound' = [bound EXCEPT ![up[s]] = IF @ = s THEN None ELSE @]
    /\ entries' = entries \ {s}
    /\ rel' = [rel EXCEPT ![s] = "cleared"]
    /\ UNCHANGED <<registryVars, stopped, stale, link, ending, victim, loginVars, pc, got,
                   up, role, open>>

Release(s) ==
    /\ rel[s] = "cleared"
    /\ ReleaseSlot(up[s])
    /\ rel' = [rel EXCEPT ![s] = IF viewers'[up[s]] = 0 THEN "stopping" ELSE "leaving"]
    /\ UNCHANGED <<machine, status, fresh, upstreamVars, loginVars, pc, got, up, role,
                   open, entries>>

StopReleased(s) ==
    /\ rel[s] = "stopping"
    /\ stopped' = [stopped EXCEPT ![up[s]] = TRUE]
    /\ rel' = [rel EXCEPT ![s] = "leaving"]
    /\ UNCHANGED <<registryVars, stale, link, ending, victim, bound, loginVars, pc, got, up,
                   role, open, entries>>

(* login.go onSessionLeft, then close(sessionDone).                          *)
SessionLeft(s) ==
    /\ rel[s] = "leaving"
    /\ LET u == up[s]
           l == login[u]
       IN  login' = IF \/ l.state = "auth" /\ l.sess = s
                       \/ l.state = "active" /\ entries \subseteq {s}
                      THEN [login EXCEPT ![u] = NoLogin]
                      ELSE login
    /\ rel' = [rel EXCEPT ![s] = "done"]
    /\ UNCHANGED <<registryVars, upstreamVars, spoken, host, pc, got, up, role, open, entries>>

-----------------------------------------------------------------------------
(* The upstream's goroutine, connectFrameServer, and the frames it reads.    *)

(* A dial that was under way succeeds, even on an upstream stopped meanwhile. *)
(* Over QUIC the command writer then sees stopChan and cancels the            *)
(* connection; over TCP stop() had no connection to close yet and nothing on  *)
(* the relay's side ends the read: an orphan, until the host hangs up.        *)
Connect(u) ==
    /\ link[u] = "dialing"
    /\ link' = [link EXCEPT ![u] = IF stopped[u] /\ ~Quic THEN "orphan" ELSE "up"]
    /\ UNCHANGED <<registryVars, stopped, stale, ending, victim, bound, loginVars, sessionVars>>

(* Mutant: the wait between two dials does not watch stopChan.               *)
StopDialingUnwatched(u) ==
    /\ link[u] = "dialing"
    /\ stopped[u]
    /\ link' = [link EXCEPT ![u] = "dialing"]
    /\ UNCHANGED <<registryVars, stopped, stale, ending, victim, bound, loginVars, sessionVars>>

(* The dial loop, or hostLinks.take, notices stopChan.                       *)
StopDialing(u) ==
    /\ link[u] = "dialing"
    /\ stopped[u]
    /\ link' = [link EXCEPT ![u] = "exited"]
    /\ UNCHANGED <<registryVars, stopped, stale, ending, victim, bound, loginVars, sessionVars>>

(* The link breaks or stop() closed it: onUpstreamDisconnected resets the     *)
(* login and collects sessionsFor(u.id), the sessions listed for the machine. *)
Lose(u) ==
    /\ link[u] \in {"up", "orphan"}
    /\ victim[u] = None
    /\ link' = [link EXCEPT ![u] = "ending"]
    /\ ending' = [ending EXCEPT ![u] = entries]
    /\ login' = [login EXCEPT ![u] = NoLogin]
    /\ spoken' = [spoken EXCEPT ![u] = FALSE]
    /\ host' = [host EXCEPT ![u] = "asking"]
    /\ UNCHANGED <<registryVars, stopped, stale, victim, bound, sessionVars>>

(* endByID on the next of them: a session no longer listed is skipped.       *)
EndByID(u, s) ==
    /\ link[u] = "ending"
    /\ victim[u] = None
    /\ s \in ending[u]
    /\ ending' = [ending EXCEPT ![u] = @ \ {s}]
    /\ \/ /\ s \in entries
          /\ victim' = [victim EXCEPT ![u] = s]
          /\ open' = [open EXCEPT ![s] = FALSE]
       \/ /\ s \notin entries
          /\ UNCHANGED <<victim, open>>
    /\ UNCHANGED <<registryVars, stopped, stale, link, bound, loginVars, pc, rel, got, up,
                   role, entries>>

(* The end callback returns once the session's releaseNow is through.        *)
EndReturns(u) ==
    /\ victim[u] # None
    /\ rel[victim[u]] = "done"
    /\ victim' = [victim EXCEPT ![u] = None]
    /\ UNCHANGED <<registryVars, stopped, stale, link, ending, bound, loginVars, sessionVars>>

(* Back in the dial loop, or out of it when stopped.                         *)
Redial(u) ==
    /\ link[u] = "ending"
    /\ victim[u] = None
    /\ ending[u] = {}
    /\ link' = [link EXCEPT ![u] = IF stopped[u] THEN "exited" ELSE "dialing"]
    /\ UNCHANGED <<registryVars, stopped, stale, ending, victim, bound, loginVars, sessionVars>>

(* handleLoginFrame, state "prompt": a bound viewer without a login exchange *)
(* is promoted; the Username prompt may be answered from its identity.       *)
LoginPrompt(u) ==
    /\ HostLogin
    /\ link[u] = "up"
    /\ victim[u] = None
    /\ host[u] \in {"asking", "answered"}
    /\ spoken' = [spoken EXCEPT ![u] = TRUE]
    /\ login' = IF login[u].state = "idle" /\ bound[u] # None
                  THEN [login EXCEPT ![u] = [state |-> "auth", sess |-> bound[u],
                                             sub |-> SubOf[bound[u]]]]
                  ELSE login
    /\ \/ host' = [host EXCEPT ![u] = "asking"]
       \/ /\ login'[u].state = "auth"
          /\ host' = [host EXCEPT ![u] = "answered"]
    /\ UNCHANGED <<registryVars, upstreamVars, sessionVars>>

(* handleLoginFrame, state "ok": the login becomes active and the viewer's   *)
(* deferred start runs; a full command queue fails that session.             *)
LoginOk(u) ==
    /\ link[u] = "up"
    /\ victim[u] = None
    /\ host[u] = "answered"
    /\ host' = [host EXCEPT ![u] = "proxy"]
    /\ spoken' = [spoken EXCEPT ![u] = TRUE]
    /\ login' = [login EXCEPT ![u].state = "active"]
    /\ \/ UNCHANGED open
       \/ /\ login[u].state = "auth"
          /\ open' = [open EXCEPT ![login[u].sess] = FALSE]
    /\ UNCHANGED <<registryVars, upstreamVars, pc, rel, got, up, role, entries>>

(* handleLoginFrame, state "failed": reported only; the host prompts again.  *)
LoginFailed(u) ==
    /\ link[u] = "up"
    /\ victim[u] = None
    /\ host[u] = "answered"
    /\ host' = [host EXCEPT ![u] = "asking"]
    /\ spoken' = [spoken EXCEPT ![u] = TRUE]
    /\ UNCHANGED <<registryVars, upstreamVars, login, sessionVars>>

(* handleLoginFrame, state "busy": the login is reset and the authenticating *)
(* viewer's session is ended.                                                *)
LoginBusy(u) ==
    /\ link[u] = "up"
    /\ victim[u] = None
    /\ host[u] = "answered"
    /\ host' = [host EXCEPT ![u] = "gone"]
    /\ spoken' = [spoken EXCEPT ![u] = TRUE]
    /\ login' = [login EXCEPT ![u] = NoLogin]
    /\ LET s == login[u].sess
       IN  IF login[u].state = "auth" /\ s \in entries
             THEN /\ victim' = [victim EXCEPT ![u] = s]
                  /\ open' = [open EXCEPT ![s] = FALSE]
             ELSE UNCHANGED <<victim, open>>
    /\ UNCHANGED <<registryVars, stopped, stale, link, ending, bound, pc, rel, got, up,
                   role, entries>>

(* Control message "login-response": sendLoginResponseIfAuth.                *)
LoginResponse(s) ==
    /\ pc[s] = "running" /\ open[s]
    /\ login[up[s]].state = "auth"
    /\ login[up[s]].sess = s
    /\ link[up[s]] = "up"
    /\ Answer(up[s])
    /\ UNCHANGED <<registryVars, upstreamVars, login, spoken, sessionVars>>

(* Control message "lock": viewerLock makes the locking viewer the next      *)
(* authenticating one.                                                       *)
ViewerLock(s) ==
    /\ pc[s] = "running" /\ open[s]
    /\ login[up[s]].state = "active"
    /\ SubOf[s] # None
    /\ SubOf[s] = login[up[s]].sub
    /\ login' = [login EXCEPT ![up[s]] = [state |-> "auth", sess |-> s, sub |-> SubOf[s]]]
    /\ host' = [host EXCEPT ![up[s]] = IF @ = "proxy" THEN "asking" ELSE @]
    /\ UNCHANGED <<registryVars, upstreamVars, spoken, sessionVars>>

-----------------------------------------------------------------------------
RegistryStep == Upsert \/ Silence \/ List \/ Deregister

HandlerStep(s) ==
    \/ Get(s) \/ Acquire(s) \/ GateViewer(s) \/ Reject(s) \/ RejectStop(s)
    \/ Bind(s) \/ Add(s) \/ CheckDone(s) \/ Finish(s)

ViewerStep(s) == Close(s) \/ Disconnect(s) \/ LoginResponse(s) \/ ViewerLock(s)

ReleaseStep(s) ==
    BeginRelease(s) \/ Release(s) \/ StopReleased(s) \/ SessionLeft(s)

LinkStep(u) ==
    \/ Connect(u) \/ StopDialing(u) \/ Lose(u)
    \/ (\E s \in Sessions : EndByID(u, s)) \/ EndReturns(u) \/ Redial(u)

LoginFrame(u) == LoginPrompt(u) \/ LoginOk(u) \/ LoginFailed(u) \/ LoginBusy(u)

Next ==
    \/ RegistryStep
    \/ \E s \in Sessions : HandlerStep(s) \/ ViewerStep(s) \/ ReleaseStep(s)
    \/ \E u \in Upstreams : StopStale(u) \/ LinkStep(u) \/ LoginFrame(u)

(* The Go scheduler runs every ready goroutine: handlers past acquire,       *)
(* releases, pending stops, and the upstream goroutine once it is stopped or *)
(* has a broken link.  Nobody owes a viewer, a host or an operator a step,   *)
(* and an orphaned TCP read waits for the host.                              *)
Fairness ==
    /\ \A s \in Sessions : /\ WF_vars(pc[s] # "idle" /\ HandlerStep(s))
                           /\ WF_vars(ReleaseStep(s))
    /\ \A u \in Upstreams : /\ WF_vars(StopStale(u))
                            /\ WF_vars(/\ stopped[u]
                                       /\ StopDialing(u) \/ (link[u] = "up" /\ Lose(u)))
                            /\ WF_vars(\E s \in Sessions : EndByID(u, s))
                            /\ WF_vars(EndReturns(u))
                            /\ WF_vars(Redial(u))

Spec == Init /\ [][Next]_vars
FairSpec == Spec /\ Fairness

-----------------------------------------------------------------------------
(* Session s owns a share of upstream u: acquire counted it, release has not *)
(* yet uncounted it.                                                         *)
Holds(s, u) ==
    /\ up[s] = u
    /\ \/ pc[s] \in {"acquired", "rejected"}
       \/ /\ pc[s] \in Attached
          /\ rel[s] \in {"no", "cleared"}

HoldsSlot(s) == \E u \in Upstreams : Holds(s, u)

Registered(u) == machine # None /\ recUp[machine] = u

(* The viewer count of an upstream is exact and never above one: acquire and *)
(* release stay paired on every path, the login-gate rejection and a         *)
(* release that overtakes the handler included, so release's own             *)
(* "if m.viewers > 0" never hides a double release.                          *)
SlotExclusive ==
    \A u \in Upstreams :
        /\ viewers[u] = 0 => \A s \in Sessions : ~Holds(s, u)
        /\ viewers[u] # 0 =>
            /\ viewers[u] = 1
            /\ \E s \in Sessions : Holds(s, u)
        /\ \A s, t \in Sessions : Holds(s, u) /\ Holds(t, u) => s = t

(* What the registry hands out is alive: an upstream reachable from the      *)
(* machine's record is running, nobody is about to stop it, and it has its   *)
(* viewer; expiry, deregistration and release all detach before they stop.   *)
RegisteredIsLive ==
    \A u \in Upstreams : Registered(u) =>
        /\ ~stopped[u]
        /\ u \notin stale
        /\ link[u] # "unused"
        /\ viewers[u] = 1

(* Frames of the registered upstream go to the session that owns the slot,   *)
(* even when a dying session binds itself after its own release cleared it.  *)
BoundOwnsSlot ==
    \A u \in Upstreams, s \in Sessions :
        Registered(u) /\ bound[u] = s => Holds(s, u)

(* The host login of the registered upstream belongs to the session that     *)
(* owns the slot: a viewer that left, or whose login the host or a lost link *)
(* reset, never remains the authenticating or logged-in one.                 *)
LoginOwnsSlot ==
    \A u \in Upstreams, s \in Sessions :
        Registered(u) /\ login[u].sess = s => Holds(s, u)

(* "machine already in use" is told only to a viewer whose machine another   *)
(* session really holds at that moment.                                      *)
InUseIsTrue ==
    [][\A s \in Sessions :
        pc[s] = "got" /\ pc'[s] = "refused" =>
            \E t \in Sessions \ {s} : Holds(t, recUp[got[s]])]_vars

(* A viewer whose transport died gives the slot back: the count reaches zero *)
(* although the handler, the upstream goroutine and an operator may all be   *)
(* inside the same session's release.                                        *)
SlotIsFreed ==
    \A s \in Sessions : (~open[s] /\ HoldsSlot(s)) ~> ~HoldsSlot(s)

(* stop() really ends the upstream's goroutine: it is never stuck behind a   *)
(* session it is ending or a dial that outlived it (a TCP dial that succeeds *)
(* after stop() is the one exception, see Connect).                          *)
StoppedExits ==
    \A u \in Upstreams : stopped[u] ~> link[u] \in {"exited", "orphan"}

-----------------------------------------------------------------------------
(* The inductive invariant behind the safety properties.                     *)

(* What a handler's stage says about the pointers it holds.                  *)
HandlerShape ==
    \A s \in Sessions :
        /\ pc[s] \in {"idle", "got"} => up[s] = None
        /\ pc[s] \in {"acquired", "rejected", "rejectStop", "finished"} \cup Attached
             => up[s] \in Upstreams
        /\ pc[s] \notin Attached \cup {"finished"} => rel[s] = "no"
        /\ pc[s] = "finished" => rel[s] = "done"
        /\ pc[s] = "got" => got[s] \in Records /\ status[got[s]] # "unused"

(* A record is registered once; no two records share an upstream.            *)
RecordShape ==
    /\ machine # None => status[machine] # "unused"
    /\ \A r \in Records : status[r] = "unused" => recUp[r] = None
    /\ \A q, r \in Records : recUp[q] = recUp[r] /\ recUp[q] # None => q = r

(* Nobody knows an upstream that was not created yet.                        *)
UnusedUpstream ==
    \A u \in Upstreams : link[u] = "unused" =>
        /\ viewers[u] = 0
        /\ ~stopped[u]
        /\ u \notin stale
        /\ \A r \in Records : recUp[r] # u
        /\ \A s \in Sessions : up[s] # u

(* Every session that ever got the registered upstream still holds it: the   *)
(* last release detaches it, so nobody takes it over.                        *)
RegisteredIsHeld ==
    \A u \in Upstreams : Registered(u) =>
        /\ ~stopped[u]
        /\ u \notin stale
        /\ viewers[u] = 1
        /\ \A s \in Sessions : up[s] = u => Holds(s, u)

(* Frames and login frames go to sessions that acquired this very upstream.  *)
TargetsOwnSessions ==
    \A u \in Upstreams, s \in Sessions :
        bound[u] = s \/ login[u].sess = s => up[s] = u

IInv ==
    /\ TypeOK
    /\ HandlerShape
    /\ RecordShape
    /\ UnusedUpstream
    /\ SlotExclusive
    /\ RegisteredIsHeld
    /\ TargetsOwnSessions
=============================================================================
