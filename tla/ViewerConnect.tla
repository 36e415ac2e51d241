--------------------------- MODULE ViewerConnect ---------------------------
(* How a browser comes to a connection (webtransport-client.ts and          *)
(* candidates.ts): connect() asks the relay for candidates, tries them one  *)
(* after the other, and is called again by a timer, or by the user while an *)
(* earlier call still awaits something.  A call is known by the generation  *)
(* it began; it opens at most one transport to each path.  While on the     *)
(* relay, a probe looks out for a direct path.                              *)
EXTENDS Integers, Sequences

CONSTANT MaxCalls    \* calls of connect() and disconnect()

ASSUME ViewerAssumption == MaxCalls \in Nat

VARIABLES
  client,       \* the fields of WebTransportClient
  call,         \* per generation, where its connect() is and what it has yet to try
  transport,    \* per generation and path, the state of the WebTransport
  directFailed, \* sessionStorage remembers a direct failure not long ago
  probing,      \* per generation, the probe begun for it
  displaced     \* calls whose transport a superseded call has replaced

viewerVars == <<client, call, transport, directFailed, probing, displaced>>

Calls == 1..MaxCalls
Paths == {"direct", "relay"}
NoTransport == <<0, "relay">>
Offers == {<<"direct", "relay">>, <<"relay">>, <<"direct">>}   \* by connection_path

ViewerInit ==
  /\ client = [generation |-> 0, intentional |-> FALSE, timer |-> FALSE, transport |-> NoTransport,
               path |-> "none", state |-> "new", available |-> FALSE, hadDirect |-> FALSE, probe |-> 0,
               ended |-> FALSE]
  /\ call = [g \in Calls |-> [pc |-> "none", todo |-> <<>>]]
  /\ transport = [t \in Calls \X Paths |-> "none"]
  /\ directFailed \in BOOLEAN
  /\ probing = [g \in Calls |-> [pc |-> "none", active |-> FALSE]]
  /\ displaced = {}

(* transport.close(), which also ends one not yet open. *)
Closed(ts, t) == [u \in DOMAIN ts |-> IF u = t THEN "closed" ELSE ts[u]]

(* The stop function of startDirectProbe. *)
Stopped(p) == [g \in Calls |-> IF g = p THEN [probing[g] EXCEPT !.active = FALSE] ELSE probing[g]]

(* setConnectionPath of a client c: another path ends the probe. *)
SetConnectionPath(c, path) ==
  /\ client' = IF c.path = path THEN c
               ELSE [c EXCEPT !.path = path, !.available = FALSE, !.probe = 0]
  /\ probing' = IF c.path = path THEN probing ELSE Stopped(c.probe)

(* closeCurrent, where c and ts have the other changes of the step. *)
CloseCurrent(c, ts) ==
  /\ transport' = Closed(ts, c.transport)
  /\ SetConnectionPath([c EXCEPT !.transport = NoTransport], "none")

(* scheduleReconnect *)
Scheduled(c) == IF c.intentional THEN c ELSE [c EXCEPT !.timer = TRUE]

(* connect() up to the fetch: the connection there was is closed. *)
Connect ==
  /\ client.generation < MaxCalls
  /\ CloseCurrent([client EXCEPT !.generation = @ + 1, !.intentional = FALSE, !.timer = FALSE,
                                 !.state = "connecting"], transport)
  /\ call' = [call EXCEPT ![client.generation + 1].pc = "fetch"]
  /\ UNCHANGED <<directFailed, displaced>>

(* The page opens or the user connects again, at any time; once the session  *)
(* has ended (endedReason) that loads another page.                          *)
UserConnects == ~client.ended /\ Connect

(* The timer of scheduleReconnect. *)
TimerConnects == client.timer /\ Connect

(* disconnect(): the page is left. *)
Disconnect ==
  /\ client.generation < MaxCalls /\ client.state # "new"
  /\ CloseCurrent([client EXCEPT !.generation = @ + 1, !.intentional = TRUE, !.timer = FALSE,
                                 !.hadDirect = FALSE, !.state = "disconnected"], transport)
  /\ UNCHANGED <<call, directFailed, displaced>>

(* The catch of connect(): a superseded call just ends. *)
GivesUp(g, ts) ==
  /\ call' = [call EXCEPT ![g].pc = "ended"]
  /\ \/ g # client.generation /\ transport' = ts /\ UNCHANGED <<client, probing>>
     \/ g = client.generation /\ CloseCurrent(Scheduled([client EXCEPT !.state = "failed"]), ts)

(* orderCandidates: after a recent direct failure the relay goes first. *)
Ordered(offer) ==
  IF directFailed /\ offer = <<"direct", "relay">> THEN <<"relay", "direct">> ELSE offer

(* Discovery answers, and the first candidate is opened. *)
Discovered(g) ==
  /\ call[g].pc = "fetch"
  /\ \E offer \in Offers :
       /\ client' = [client EXCEPT !.hadDirect = (offer # <<"relay">>)]
       /\ call' = [call EXCEPT ![g] = [pc |-> "opening", todo |-> Ordered(offer)]]
       /\ transport' = [transport EXCEPT ![<<g, Ordered(offer)[1]>>] = "opening"]
  /\ UNCHANGED <<directFailed, probing, displaced>>

(* Discovery fails, or has nothing to offer. *)
DiscoveryFails(g) ==
  /\ call[g].pc = "fetch"
  /\ GivesUp(g, transport)
  /\ UNCHANGED <<directFailed, displaced>>

Trying(g) == <<g, Head(call[g].todo)>>

(* connectFirst: the candidate is rejected or takes too long.  It is closed  *)
(* and the next one opened, or the call fails.                               *)
CandidateFails(g) ==
  /\ call[g].pc = "opening"
  /\ directFailed' = (directFailed \/ Head(call[g].todo) = "direct")
  /\ \/ /\ Len(call[g].todo) = 1
        /\ GivesUp(g, Closed(transport, Trying(g)))
     \/ /\ Len(call[g].todo) > 1
        /\ call' = [call EXCEPT ![g].todo = Tail(@)]
        /\ transport' = [Closed(transport, Trying(g)) EXCEPT ![<<g, call[g].todo[2]>>] = "opening"]
        /\ UNCHANGED <<client, probing>>
  /\ UNCHANGED displaced

(* The client takes over the transport of call g. *)
Takes(g) == SetConnectionPath([client EXCEPT !.transport = Trying(g)], Head(call[g].todo))

(* The candidate is ready, and the call goes on to open its control stream. *)
CandidateReady(g) ==
  /\ call[g].pc = "opening" /\ g = client.generation
  /\ Takes(g)
  /\ call' = [call EXCEPT ![g].pc = "stream"]
  /\ transport' = [transport EXCEPT ![Trying(g)] = "open"]
  /\ directFailed' = (directFailed /\ Head(call[g].todo) # "direct")
  /\ UNCHANGED displaced

(* Mutant: the transport of a superseded call stays open. *)
SupersededStaysOpen(g) ==
  /\ call[g].pc = "opening" /\ g # client.generation
  /\ UNCHANGED <<client, probing, directFailed, displaced>>
  /\ call' = [call EXCEPT ![g].pc = "ended"]
  /\ transport' = [transport EXCEPT ![Trying(g)] = "open"]

(* The candidate of a superseded call is ready: it is closed, but only after *)
(* the client has taken it over.                                             *)
SupersededReady(g) ==
  /\ call[g].pc = "opening" /\ g # client.generation
  /\ Takes(g)
  /\ call' = [call EXCEPT ![g].pc = "ended"]
  /\ transport' = Closed(transport, Trying(g))
  /\ displaced' = displaced \cup {h \in Calls : client.transport[1] = h /\ call[h].pc # "ended"}
  /\ UNCHANGED directFailed

(* The control stream is open: the call has a connection, and on the relay   *)
(* begins to probe for a direct path if discovery offered one.               *)
StreamOpens(g) ==
  LET probe == Head(call[g].todo) = "relay" /\ client.hadDirect IN
  /\ call[g].pc = "stream" /\ transport[Trying(g)] = "open"
  /\ call' = [call EXCEPT ![g].pc = "connected"]
  /\ client' = [client EXCEPT !.state = "connected", !.probe = IF probe THEN g ELSE @]
  /\ probing' = IF probe THEN [Stopped(client.probe) EXCEPT ![g] = [pc |-> "idle", active |-> TRUE]]
                ELSE probing
  /\ UNCHANGED <<transport, directFailed, displaced>>

StreamFails(g) ==
  /\ call[g].pc = "stream" /\ transport[Trying(g)] = "closed"
  /\ GivesUp(g, transport)
  /\ UNCHANGED <<directFailed, displaced>>

(* The other end closes a connection, or it breaks. *)
ConnectionEnds(g) ==
  /\ call[g].pc \in {"stream", "connected"} /\ transport[Trying(g)] = "open"
  /\ transport' = Closed(transport, Trying(g))
  /\ UNCHANGED <<client, call, directFailed, probing, displaced>>

(* Mutant: nothing is scheduled after a loss. *)
HandleClosedOnly(g) ==
  /\ call[g].pc = "connected" /\ transport[Trying(g)] = "closed"
  /\ call' = [call EXCEPT ![g].pc = "ended"]
  /\ IF g = client.generation /\ client.transport = Trying(g) /\ ~client.intentional
     THEN CloseCurrent([client EXCEPT !.state = "disconnected"], transport)
     ELSE UNCHANGED <<client, transport, probing>>
  /\ UNCHANGED <<directFailed, displaced>>

(* handleClosed: the loss of a transport that is not the client's, or that   *)
(* is intended, is not answered.                                             *)
HandleClosed(g) ==
  /\ call[g].pc = "connected" /\ transport[Trying(g)] = "closed"
  /\ call' = [call EXCEPT ![g].pc = "ended"]
  /\ IF g = client.generation /\ client.transport = Trying(g) /\ ~client.intentional
     THEN CloseCurrent(Scheduled([client EXCEPT !.state = "disconnected"]), transport)
     ELSE UNCHANGED <<client, transport, probing>>
  /\ UNCHANGED <<directFailed, displaced>>

(* A control message ends the session for good: error, or session-ended. *)
SessionEnds(g) ==
  /\ call[g].pc = "connected" /\ transport[Trying(g)] = "open"
  /\ call' = [call EXCEPT ![g].pc = "ended"]
  /\ \E s \in {"failed", "disconnected"} :
       CloseCurrent([client EXCEPT !.intentional = TRUE, !.state = s, !.ended = (@ \/ s = "disconnected")],
                    transport)
  /\ UNCHANGED <<directFailed, displaced>>

(* session-rejected: the relay is about to close the connection. *)
SessionRejected(g) ==
  /\ call[g].pc = "connected" /\ transport[Trying(g)] = "open"
  /\ client' = [client EXCEPT !.intentional = TRUE, !.ended = TRUE]
  /\ UNCHANGED <<call, transport, directFailed, probing, displaced>>

(* Five minutes after a direct failure (directFailurePreferenceMs). *)
FailureForgotten ==
  /\ directFailed /\ directFailed' = FALSE
  /\ UNCHANGED <<client, call, transport, probing, displaced>>

-----------------------------------------------------------------------------
(* startDirectProbe: the interval of a minute, unless the tab is hidden. *)
ProbeBegins(g) ==
  /\ probing[g] = [pc |-> "idle", active |-> TRUE]
  /\ probing' = [probing EXCEPT ![g].pc = "running"]
  /\ UNCHANGED <<client, call, transport, directFailed, displaced>>

ProbeFails(g) ==
  /\ probing[g].pc = "running"
  /\ probing' = [probing EXCEPT ![g].pc = "idle"]
  /\ UNCHANGED <<client, call, transport, directFailed, displaced>>

(* onAvailable *)
DirectAvailable(g) ==
  /\ client' = [client EXCEPT !.probe = 0, !.available = TRUE]
  /\ directFailed' = FALSE

(* The probe's connection was accepted, and is closed again.  If the probe   *)
(* was not stopped in the meantime it reports and ends.                      *)
ProbeSucceeds(g) ==
  /\ probing[g].pc = "running"
  /\ probing' = [probing EXCEPT ![g] = [pc |-> "idle", active |-> FALSE]]
  /\ IF probing[g].active THEN DirectAvailable(g) ELSE UNCHANGED <<client, directFailed>>
  /\ UNCHANGED <<call, transport, displaced>>

CallStep(g) ==
  \/ Discovered(g) \/ DiscoveryFails(g) \/ CandidateFails(g) \/ CandidateReady(g)
  \/ SupersededReady(g) \/ StreamOpens(g) \/ StreamFails(g) \/ HandleClosed(g)

ViewerNext ==
  \/ UserConnects \/ TimerConnects \/ Disconnect \/ FailureForgotten
  \/ \E g \in Calls : \/ CallStep(g) \/ ConnectionEnds(g) \/ SessionEnds(g) \/ SessionRejected(g)
                      \/ ProbeBegins(g) \/ ProbeFails(g) \/ ProbeSucceeds(g)

ViewerSpec == ViewerInit /\ [][ViewerNext]_viewerVars

-----------------------------------------------------------------------------
(* Every variable has its type; the client's transport and probe are those   *)
(* of some call.                                                             *)
ViewerTypeOK ==
  /\ client.generation \in 0..MaxCalls /\ client.probe \in 0..client.generation
  /\ client.intentional \in BOOLEAN /\ client.timer \in BOOLEAN
  /\ client.available \in BOOLEAN /\ client.hadDirect \in BOOLEAN /\ client.ended \in BOOLEAN
  /\ client.transport = NoTransport \/ transport[client.transport] \in {"open", "closed"}
  /\ client.path \in Paths \cup {"none"}
  /\ client.state \in {"new", "connecting", "connected", "failed", "disconnected"}
  /\ \A g \in Calls : /\ call[g].pc \in {"none", "fetch", "opening", "stream", "connected", "ended"}
                      /\ call[g].pc # "none" => g <= client.generation
                      /\ probing[g].active => client.probe = g
  /\ transport \in [Calls \X Paths -> {"none", "opening", "open", "closed"}]
  /\ directFailed \in BOOLEAN /\ displaced \subseteq Calls

(* The client holds every connection that is open, so that closing the       *)
(* client's ends the viewer's session on the relay or the endpoint: whatever *)
(* calls were superseded and wherever they fail.  The exception is a call    *)
(* superseded whose candidate becomes ready after its successor's:           *)
(* connect() stores it before it looks at the generation.                    *)
NoTransportLeaks ==
  displaced = {} => \A t \in DOMAIN transport : transport[t] = "open" => t = client.transport

(* A call that was superseded does not change the state the user sees, with  *)
(* the same exception.                                                       *)
SupersededIsSilent ==
  [][displaced' = {} /\ client'.state # client.state /\ client'.generation = client.generation =>
       call'[client.generation] # call[client.generation]]_viewerVars

(* "Switch to direct" is offered on a relay connection only, although a      *)
(* probe may end after the connection it was begun for.                      *)
AvailableOnRelay == displaced = {} /\ client.available => client.path = "relay"

(* A viewer who has left, or whose session was ended, is not connected again *)
(* by a timer; a displaced connection that is told so late is the exception. *)
LeavingIsFinal == displaced = {} /\ client.intentional => ~client.timer

(* Calls that overlap leave no connection, offer or timer of their own       *)
(* behind.                                                                   *)
ViewerSafe == ViewerTypeOK /\ NoTransportLeaks /\ AvailableOnRelay /\ LeavingIsFinal

Live ==
  /\ client.state = "connected" /\ client.transport # NoTransport
  /\ transport[client.transport] = "open"

(* A viewer who has not left gets a connection in the end, or keeps trying:  *)
(* no failure, loss or superseded call leaves the client waiting for         *)
(* nothing.  A displaced connection that is lost is the exception.           *)
ViewerKeepsTrying ==
  client.state # "new" ~>
    Live \/ client.intentional \/ client.generation = MaxCalls \/ displaced # {}

(* The call that counts reports what becomes of it, and no other does. *)
ViewerProgress == SupersededIsSilent /\ ViewerKeepsTrying
=============================================================================
