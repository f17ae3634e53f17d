------------------------------ MODULE MCPatches ------------------------------
(* Code patches and guard requests on one queue that holds fewer items than *)
(* are asked, over a restart.                                               *)
EXTENDS CodePatches
=============================================================================
