------------------------------ MODULE MCStream ------------------------------
(***************************************************************************)
(* Stream on small bounds; the constants are given in the .cfg file.       *)
(***************************************************************************)
EXTENDS Stream
=============================================================================
