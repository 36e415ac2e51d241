---- MODULE MCVideoSession ----
(***************************************************************************)
(* A small instance of VideoSession.                                       *)
(***************************************************************************)
EXTENDS VideoSession
====
