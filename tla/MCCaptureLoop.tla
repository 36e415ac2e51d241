--------------------------- MODULE MCCaptureLoop ---------------------------
(* Small instances of CaptureLoop: hosts of every kind, three sizes of     *)
(* which the largest is a real display's, beyond validate_mode_request.    *)
EXTENDS CaptureLoop

Host(kind, plug, native, limit, scaler, flaky) ==
  [kind |-> kind, plug |-> plug, native |-> native, limit |-> limit,
   scaler |-> scaler, flaky |-> flaky]

MCHosts ==
  {Host("dxgi", TRUE, 1, 2, FALSE, TRUE),
   Host("dxgi", FALSE, 3, 2, TRUE, TRUE),
   Host("dxgi", FALSE, 3, 2, FALSE, TRUE),
   Host("virtual", FALSE, 3, 2, FALSE, TRUE),
   Host("virtual", FALSE, 1, 3, FALSE, TRUE),
   Host("monitor", FALSE, 2, 3, FALSE, TRUE)}

MCRequestable == {1, 2}
=============================================================================
