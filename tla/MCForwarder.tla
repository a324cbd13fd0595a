---------------------------- MODULE MCForwarder ----------------------------
(* Small instances of Forwarder for TLC.                                   *)
EXTENDS Forwarder
=============================================================================
