------------------------------ MODULE GatedFile ------------------------------
(***************************************************************************)
(* What the code patch service promises of a source file: apart from what  *)
(* others write, its content changes to the text of a proposal, after a    *)
(* human has granted that very proposal, and for each proposal once; a     *)
(* proposal that is over, or that the process has forgotten, is never      *)
(* written.                                                                *)
(***************************************************************************)
EXTENDS Naturals

CONSTANTS Proposals, Texts, NoText

VARIABLES content,    \* the text of the file, and the proposal that wrote it, or 0
          proposal,   \* the text a proposal asks for
          stage

vars == <<content, proposal, stage>>

TypeOK ==
  /\ content \in [text : Texts, by : Proposals \cup {0}]
  /\ proposal \in [Proposals -> Texts \cup {NoText}]
  /\ stage \in [Proposals -> {"none", "open", "granted", "over"}]

Init == /\ content \in [text : Texts, by : {0}]
        /\ proposal = [i \in Proposals |-> NoText]
        /\ stage = [i \in Proposals |-> "none"]

Write == \E t \in Texts : content' = [text |-> t, by |-> 0] /\ UNCHANGED <<proposal, stage>>

\* Each of these concerns any number of proposals at once.
Decided == \* a human answers, or the process forgets
  /\ \A i \in Proposals :
       stage'[i] \in CASE stage[i] = "none" -> {"none", "open", "over"}
                       [] stage[i] = "open" -> {"open", "granted", "over"}
                       [] stage[i] = "granted" -> {"granted", "over"}
                       [] stage[i] = "over" -> {"over"}
  /\ \A i \in Proposals :
       stage[i] # "none" /\ stage'[i] # "over" => proposal'[i] = proposal[i]
  /\ UNCHANGED content

Install(i) ==
  /\ stage[i] = "granted"
  /\ content' = [text |-> proposal[i], by |-> i]
  /\ stage'[i] = "over"
  /\ \A j \in Proposals \ {i} :
       /\ stage'[j] \in {stage[j], "over"}
       /\ stage'[j] # "over" => proposal'[j] = proposal[j]

Next == Write \/ Decided \/ \E i \in Proposals : Install(i)
Spec == Init /\ [][Next]_vars
=============================================================================
