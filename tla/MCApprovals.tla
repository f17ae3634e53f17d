------------------------------- MODULE MCApprovals -------------------------------
(***************************************************************************)
(* The instance of ApprovedActions for TLC: more requests, of every kind,  *)
(* than the history holds, with faults.                                    *)
(***************************************************************************)
EXTENDS ApprovedActions
==================================================================================
