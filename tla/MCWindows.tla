------------------------------ MODULE MCWindows -----------------------------
(***************************************************************************)
(* The Windows components, which share no state in their models, checked   *)
(* side by side: every behaviour is one of the video path, of the virtual  *)
(* monitor or of the privacy mode, the other two staying where they start. *)
(***************************************************************************)
EXTENDS WindowsVideo, IddMonitor, PrivacyTopology

VARIABLE part

Output(name, size, attached) ==
  [name |-> name, size |-> size, attached |-> attached]
Gpu(luid, software, outs) ==
  [luid |-> luid, software |-> software, outputs |-> outs]

(* One panel, and the same with the virtual display plugged in before it. *)
MCInventories ==
  {<<Gpu(1, FALSE, <<Output("panel", 2, TRUE)>>), Gpu(9, TRUE, <<>>)>>,
   <<Gpu(1, FALSE, <<Output("panel", 3, TRUE), Output("port", 2, FALSE)>>)>>}

MCInit ==
  /\ part \in {"video", "monitor", "privacy"}
  /\ WindowsInit /\ IddInit /\ PrivacyInit
  /\ part # "video" => inventory = CHOOSE i \in Inventories : TRUE
  /\ part # "privacy" => clock.epoch = CHOOSE e \in Epochs : TRUE

MCNext ==
  /\ UNCHANGED part
  /\ \/ part = "video" /\ WindowsNext /\ UNCHANGED <<iddVars, privacyVars>>
     \/ part = "monitor" /\ IddNext /\ UNCHANGED <<vars, privacyVars>>
     \/ part = "privacy" /\ PrivacyNext /\ UNCHANGED <<vars, iddVars>>

MCSpec == MCInit /\ [][MCNext]_<<part, vars, iddVars, privacyVars>>
=============================================================================
