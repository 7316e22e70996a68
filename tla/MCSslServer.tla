---------------------------- MODULE MCSslServer ----------------------------
(***************************************************************************)
(* SslServer on small bounds; the constants are given in the .cfg files.   *)
(***************************************************************************)
EXTENDS SslServer
=============================================================================
