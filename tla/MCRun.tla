--------------------------------- MODULE MCRun ---------------------------------
(***************************************************************************)
(* Instances of the autonomous loop for TLC: two callers that share one    *)
(* slot, with a ledger that may fail and with one that works, and two      *)
(* callers at once.                                                        *)
(***************************************************************************)
EXTENDS AutonomousRun

CONSTANTS o1, o2, t1, t2

OneOpp == {o1}
TwoOpps == {o1, o2}
SecondOpp == {o2}
None == {}
TwoThreads == {t1, t2}
===============================================================================
