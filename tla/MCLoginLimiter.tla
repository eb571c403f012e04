---------------------------- MODULE MCLoginLimiter ----------------------------
(* LoginLimiter needs no definitions of its own for TLC.                   *)
EXTENDS LoginLimiter
=============================================================================
