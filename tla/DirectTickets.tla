--------------------------- MODULE DirectTickets ---------------------------
(* Tickets for a direct endpoint: the relay signs them (ticket.go), the     *)
(* endpoint verifies each with the relay's public key and remembers its     *)
(* nonce, and fetches the key again from time to time and after a failed    *)
(* signature (direct_mode.go).  A key is a number, newer keys are larger,   *)
(* and a signature is the key it was made with; a request that arrives      *)
(* twice is two verifications of one ticket.                                *)
EXTENDS Integers

CONSTANTS
  Tickets,
  Handlers,        \* requests the endpoint handles at a time
  TicketTTL,       \* wtTicketTTL
  ClockSkew,       \* ticketClockSkew
  Cooldown,        \* directTicketKeyFailureCooldown
  MaxKeys,         \* bound on the relay's keys
  MaxTime,         \* bound on the time
  MaxTicketFaults  \* crashes, failed fetches and failed writes

ASSUME TicketAssumption ==
  /\ MaxKeys \in Nat \ {0} /\ {TicketTTL, MaxTime, MaxTicketFaults} \subseteq Nat
  /\ Cooldown \in Nat /\ Cooldown > 1 /\ ClockSkew \in Nat /\ ClockSkew > 0

VARIABLES
  time,
  relayKey,       \* the key of the relay's seed file
  issued,         \* the tickets signed, or Unsigned
  pinned,         \* FLUX_TICKET_PUBLIC_KEY is set
  endpoint,       \* the process: its pc and the verifier's key
  cache,          \* ticket-key.pub, or NoKey
  uncached,       \* the cache was not written with the key of the start
  nonces,         \* ticketVerifier.nonces
  verifying,      \* per handler, the ticket past verify's checks, or Idle
  admitted,       \* per ticket, how often this run admitted it in time
  refresher,      \* the goroutines that refresh the key
  refreshMu,      \* holder of directTicketKeyRefresher.mu
  lastAsked,      \* when a failed signature last asked for the key
  ticketFaults

ticketVars == <<time, relayKey, issued, pinned, endpoint, cache, uncached, nonces, verifying,
                admitted, refresher, refreshMu, lastAsked, ticketFaults>>
keyVars == <<pinned, endpoint, cache, uncached, refresher, refreshMu, lastAsked>>
verifierVars == <<nonces, verifying, admitted>>

NoKey == 0
Keys == 1..MaxKeys
Unsigned == [key |-> NoKey, expires |-> -1]
Idle == [ticket |-> NoKey, now |-> -1]
Goroutines == {"periodic", "failure"}
Resting == [pc |-> "idle", key |-> NoKey]
Never == -Cooldown

TicketFault == ticketFaults < MaxTicketFaults /\ ticketFaults' = ticketFaults + 1
Serving == endpoint.pc = "serving"
GoodUntil(t) == issued[t].expires + ClockSkew

TicketInit ==
  /\ time = 0 /\ relayKey = 1
  /\ issued = [t \in Tickets |-> Unsigned]
  /\ pinned \in BOOLEAN
  /\ endpoint = [pc |-> "loading", key |-> NoKey]
  /\ cache = NoKey /\ uncached = FALSE
  /\ nonces = {}
  /\ verifying = [h \in Handlers |-> Idle]
  /\ admitted = [t \in Tickets |-> 0]
  /\ refresher = [g \in Goroutines |-> Resting]
  /\ refreshMu = "free" /\ lastAsked = Never
  /\ ticketFaults = 0

-----------------------------------------------------------------------------
(* The relay is set up anew, and loadTicketSigner makes another seed. *)
Rekey ==
  /\ relayKey < MaxKeys /\ relayKey' = relayKey + 1
  /\ UNCHANGED <<time, issued, keyVars, verifierVars, ticketFaults>>

(* ticketSigner.sign *)
Sign(t) ==
  /\ issued[t] = Unsigned
  /\ issued' = [issued EXCEPT ![t] = [key |-> relayKey, expires |-> time + TicketTTL]]
  /\ UNCHANGED <<time, relayKey, keyVars, verifierVars, ticketFaults>>

-----------------------------------------------------------------------------
(* loadDirectTicketVerifier: a pinned key; else the relay's, which is        *)
(* cached, though nobody looks if that worked; else the cached one; else     *)
(* it is tried again.                                                        *)
Load ==
  /\ endpoint.pc = "loading"
  /\ \/ /\ pinned
        /\ endpoint' = [pc |-> "serving", key |-> 1]
        /\ UNCHANGED <<cache, uncached, ticketFaults>>
     \/ /\ ~pinned
        /\ endpoint' = [pc |-> "serving", key |-> relayKey]
        /\ \/ cache' = relayKey /\ uncached' = FALSE /\ UNCHANGED ticketFaults
           \/ TicketFault /\ cache' \in {cache, NoKey} /\ uncached' = TRUE
     \/ /\ ~pinned /\ TicketFault
        /\ cache # NoKey /\ endpoint' = [pc |-> "serving", key |-> cache]
        /\ uncached' = FALSE /\ UNCHANGED cache
  /\ UNCHANGED <<time, relayKey, issued, pinned, verifierVars, refresher, refreshMu, lastAsked>>

(* The endpoint dies with all it had in memory, and is started again. *)
EndpointCrash ==
  /\ Serving /\ TicketFault
  /\ endpoint' = [pc |-> "loading", key |-> NoKey]
  /\ nonces' = {} /\ verifying' = [h \in Handlers |-> Idle]
  /\ admitted' = [t \in Tickets |-> 0]
  /\ refresher' = [g \in Goroutines |-> Resting]
  /\ refreshMu' = "free" /\ lastAsked' = Never
  /\ UNCHANGED <<time, relayKey, issued, pinned, cache, uncached>>

-----------------------------------------------------------------------------
(* directTicketKeyRefresher.run: the ticker of five minutes. *)
PeriodicRefresh ==
  /\ Serving /\ ~pinned /\ refresher["periodic"] = Resting
  /\ refresher' = [refresher EXCEPT !["periodic"].pc = "fetch"]
  /\ UNCHANGED <<time, relayKey, issued, pinned, endpoint, cache, uncached, verifierVars,
                 refreshMu, lastAsked, ticketFaults>>

(* Mutant: the lock is kept when the fetch fails. *)
RefreshKeepsLock(g) ==
  /\ refresher[g].pc = "fetch" /\ refreshMu = "free"
  /\ refreshMu' = g
  /\ \/ /\ refresher' = [refresher EXCEPT ![g] = [pc |-> "write", key |-> relayKey]]
        /\ UNCHANGED ticketFaults
     \/ TicketFault /\ refresher' = [refresher EXCEPT ![g] = Resting]
  /\ UNCHANGED <<time, relayKey, issued, pinned, endpoint, cache, uncached, verifierVars, lastAsked>>

(* refresh: the key is fetched with the lock held; a failure ends it. *)
RefreshFetches(g) ==
  /\ refresher[g].pc = "fetch" /\ refreshMu = "free"
  /\ \/ /\ refreshMu' = g
        /\ refresher' = [refresher EXCEPT ![g] = [pc |-> "write", key |-> relayKey]]
        /\ UNCHANGED ticketFaults
     \/ TicketFault /\ refresher' = [refresher EXCEPT ![g] = Resting] /\ UNCHANGED refreshMu
  /\ UNCHANGED <<time, relayKey, issued, pinned, endpoint, cache, uncached, verifierVars, lastAsked>>

(* writeTicketKeyCache: the file is replaced whole, or refresh ends with    *)
(* the old key in use.                                                      *)
RefreshWrites(g) ==
  /\ refresher[g].pc = "write"
  /\ \/ /\ cache' = refresher[g].key /\ uncached' = FALSE
        /\ refresher' = [refresher EXCEPT ![g].pc = "store"]
        /\ UNCHANGED <<refreshMu, ticketFaults>>
     \/ /\ TicketFault
        /\ refresher' = [refresher EXCEPT ![g] = Resting] /\ refreshMu' = "free"
        /\ UNCHANGED <<cache, uncached>>
  /\ UNCHANGED <<time, relayKey, issued, pinned, endpoint, verifierVars, lastAsked>>

(* replacePublicKey, and the deferred unlock. *)
RefreshStores(g) ==
  /\ refresher[g].pc = "store"
  /\ endpoint' = [endpoint EXCEPT !.key = refresher[g].key]
  /\ refresher' = [refresher EXCEPT ![g] = Resting] /\ refreshMu' = "free"
  /\ UNCHANGED <<time, relayKey, issued, pinned, cache, uncached, verifierVars, lastAsked, ticketFaults>>

-----------------------------------------------------------------------------
(* requestAfterVerificationFailure: at most once in the cooldown.  Fetches  *)
(* time out long before it is over, so the goroutine asked before is gone.  *)
AskForKey ==
  IF pinned \/ time - lastAsked < Cooldown
  THEN UNCHANGED <<refresher, lastAsked>>
  ELSE /\ refresher' = [refresher EXCEPT !["failure"].pc = "fetch"]
       /\ lastAsked' = time

(* verify fails on a signature of another key. *)
WrongSignature(t) ==
  /\ Serving /\ issued[t] # Unsigned /\ issued[t].key # endpoint.key
  /\ AskForKey
  /\ UNCHANGED <<time, relayKey, issued, pinned, endpoint, cache, uncached, verifierVars,
                 refreshMu, ticketFaults>>

(* verify up to the lock: the ticket has not expired by the time read now. *)
CheckTicket(h, t) ==
  /\ Serving /\ verifying[h] = Idle
  /\ issued[t] # Unsigned /\ issued[t].key = endpoint.key
  /\ time <= GoodUntil(t)
  /\ verifying' = [verifying EXCEPT ![h] = [ticket |-> t, now |-> time]]
  /\ UNCHANGED <<time, relayKey, issued, keyVars, nonces, admitted, ticketFaults>>

Recorded(t, kept) ==
  /\ nonces' = kept \cup {t}
  /\ admitted' = IF t \notin kept /\ time <= GoodUntil(t)
                 THEN [admitted EXCEPT ![t] = @ + 1] ELSE admitted

(* Mutant: nonces are forgotten without the skew. *)
RecordNonceNoSkew(h) ==
  /\ verifying[h] # Idle
  /\ Recorded(verifying[h].ticket, {t \in nonces : verifying[h].now <= issued[t].expires})
  /\ verifying' = [verifying EXCEPT ![h] = Idle]
  /\ UNCHANGED <<time, relayKey, issued, keyVars, ticketFaults>>

(* verify under the lock: nonces that expired are forgotten, by the time     *)
(* read before; a nonce seen is refused, any other one recorded.             *)
RecordNonce(h) ==
  /\ verifying[h] # Idle
  /\ Recorded(verifying[h].ticket, {t \in nonces : verifying[h].now <= GoodUntil(t)})
  /\ verifying' = [verifying EXCEPT ![h] = Idle]
  /\ UNCHANGED <<time, relayKey, issued, keyVars, ticketFaults>>

PassTime ==
  /\ time < MaxTime
  /\ refresher["failure"] # Resting => time + 1 - lastAsked < Cooldown
  /\ time' = time + 1
  /\ UNCHANGED <<relayKey, issued, keyVars, verifierVars, ticketFaults>>

Refresh == \E g \in Goroutines : RefreshFetches(g) \/ RefreshWrites(g) \/ RefreshStores(g)

TicketNext ==
  \/ Rekey \/ Load \/ EndpointCrash \/ PeriodicRefresh \/ Refresh \/ PassTime
  \/ \E t \in Tickets : Sign(t) \/ WrongSignature(t)
  \/ \E h \in Handlers : RecordNonce(h) \/ \E t \in Tickets : CheckTicket(h, t)

TicketSpec == TicketInit /\ [][TicketNext]_ticketVars

-----------------------------------------------------------------------------
(* Every variable has its type; the refresher's lock is held exactly by the  *)
(* goroutine that has fetched a key.                                         *)
TicketTypeOK ==
  /\ time \in 0..MaxTime /\ relayKey \in Keys
  /\ \A t \in Tickets : issued[t] = Unsigned \/ issued[t].key \in 1..relayKey
  /\ endpoint \in [pc : {"loading"}, key : {NoKey}] \cup [pc : {"serving"}, key : Keys]
  /\ cache \in Keys \cup {NoKey} /\ uncached \in BOOLEAN /\ pinned \in BOOLEAN
  /\ nonces \subseteq Tickets /\ admitted \in [Tickets -> Nat]
  /\ \A h \in Handlers : verifying[h] = Idle \/ verifying[h].ticket \in Tickets
  /\ \A g \in Goroutines : (refresher[g].pc \in {"write", "store"}) <=> (refreshMu = g)
  /\ lastAsked \in {Never} \cup 0..time /\ ticketFaults \in 0..MaxTicketFaults

(* "single-use nonce" (docs/design/connection-modes.md): one run of the      *)
(* endpoint admits a ticket once, although requests interleave and nonces    *)
(* are forgotten.  It is about the time a ticket is good for: a nonce may be *)
(* forgotten before a verification that read the clock in time gets the      *)
(* lock.                                                                     *)
AdmittedOnce == \A t \in Tickets : admitted[t] <= 1

(* A refresh never brings back an older key, though a periodic one and one   *)
(* after a failure may be under way at once.                                 *)
KeyNeverStepsBack ==
  [][Serving /\ endpoint'.pc = "serving" => endpoint'.key >= endpoint.key]_ticketVars

(* "Cached keys permit startup during relay outages": what a restart finds   *)
(* in the cache is not older than the key in use, unless the cache could     *)
(* not be written at the start.                                              *)
CacheHasTheKey == Serving /\ ~pinned /\ ~uncached => cache >= endpoint.key

(* In the end the endpoint verifies with the relay's key, though the relay   *)
(* is set up anew, fetches and writes fail and the endpoint restarts.        *)
KeyArrives == <>[](pinned \/ (Serving /\ endpoint.key = relayKey))

(* A ticket opens one session, and a restart does not undo a change of key. *)
TicketsSafe == TicketTypeOK /\ AdmittedOnce /\ CacheHasTheKey

(* The endpoint's key follows the relay's, and never away from it. *)
KeyFollows == KeyNeverStepsBack /\ KeyArrives
=============================================================================
