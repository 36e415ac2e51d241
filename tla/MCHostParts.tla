---------------------------- MODULE MCHostParts ----------------------------
(* Parts of a host that run beside each other and share no state: the      *)
(* sessions of HostSession, the host's registration and link of HostLinks, *)
(* the audio of AudioPipeline.  A behaviour is about one of them.  While   *)
(* the status changes the host does not dial: what it tells the relay of   *)
(* itself and its link meet in the relay's record only.                    *)
EXTENDS MCHostSession, HostLinks, AudioPipeline

VARIABLE
  part           \* "sessions", "status", "links" or "audio"

PartsInit ==
  /\ part \in {"sessions", "status", "links", "audio"}
  /\ Init /\ LinksInit /\ AudioInit
  /\ part # "status" <=> runtime = MaxStatus
  /\ part # "audio" => clients /\ audio.pc = "done"

Sessions(A) == part = "sessions" /\ A /\ UNCHANGED <<part, linkVars, audioVars>>
Linking(A) ==
  /\ part \in {"status", "links"} /\ A
  /\ part = "status" => dial' = DialOff
  /\ UNCHANGED <<part, vars, audioVars>>
Sounding(A) == part = "audio" /\ A /\ UNCHANGED <<part, vars, linkVars>>

PartsNext == Sessions(Next) \/ Linking(LinksNext) \/ Sounding(AudioNext)

PartsSpec ==
  /\ PartsInit
  /\ [][PartsNext]_<<part, vars, linkVars, audioVars>>
  /\ HostFairness /\ LinksFairness /\ AudioFairness

=============================================================================
