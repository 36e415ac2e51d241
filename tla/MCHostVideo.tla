---------------------------- MODULE MCHostVideo ----------------------------
(* A small instance of HostVideo. *)
EXTENDS HostVideo

Dev(name, rank, h264, slots, families) ==
  [name |-> name, rank |-> rank, extensions |-> TRUE, h264 |-> h264,
   slots |-> slots, families |-> families]

(* Two GPUs of which the better encodes; and one that only copies beside   *)
(* one with a single DPB slot.                                             *)
MCHosts ==
  {{Dev("igpu", 1, TRUE, 2, <<{"encode"}, {"copy"}>>),
    Dev("dgpu", 0, TRUE, 2, <<{"encode", "copy"}>>)},
   {Dev("dgpu", 0, FALSE, 0, <<{"copy"}>>),
    Dev("igpu", 1, TRUE, 1, <<{"encode", "copy"}>>)}}

(* The builds with encoder-ffmpeg and encoder-vulkan, and with             *)
(* encoder-vaapi alone.                                                    *)
MCCandidates ==
  {<<"ffmpeg", "vulkan", "software">>, <<"vaapi", "software">>}
=============================================================================
