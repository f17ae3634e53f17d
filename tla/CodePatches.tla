----------------------------- MODULE CodePatches -----------------------------
(***************************************************************************)
(* Code patches (agents/services/code_patch_service.py with the commands   *)
(* of self_improvement_commands.py and the monitor tick of main.py), for   *)
(* one target file, beside the safety guard on the shared queue.           *)
(*                                                                         *)
(* Patches are proposed by tools, on any thread.  Approving from the patch *)
(* table, and the tick, are handlers of the interface thread: `handler` is *)
(* the one that runs and `todo` what it has still to do, in steps, between *)
(* which other threads go on and the process may end.  A text is all a     *)
(* patch is, and its compiling all that verify looks at.  Nothing in the   *)
(* repository marks a file as in use yet; what the service does when       *)
(* something does is modelled all the same.                                *)
(***************************************************************************)
EXTENDS SafetyGuard, Sequences

CONSTANTS Texts,      \* texts the target may have
          Broken,     \* those that do not compile
          NoText

ASSUME TextAssumption == Broken \subseteq Texts /\ NoText \notin Texts

VARIABLES
  content,   \* the target: its text, and the patch that wrote it, or 0
  patch,     \* _patches: the text of a registered patch
  ledger,    \* _applied: the backup of a verified patch and its status
  inUse,     \* is the target in _in_use_files
  waiting,   \* _pending
  handler,   \* "idle", "approve", "drain", "tick" or "check"
  todo,      \* patches the handler has still to look at
  still      \* still_pending of a drain

patchVars == <<content, patch, ledger, inUse, waiting, handler, todo, still>>
vars == <<queueVars, guardVars, patchVars>>

Contents == [text : Texts, by : Ids \cup {0}]
NoRecord == [status |-> "none", backup |-> [text |-> NoText, by |-> 0]]
Elements(s) == {s[k] : k \in 1..Len(s)}

-----------------------------------------------------------------------------

\* propose: the request's id becomes the patch's.
Register(t) ==
  /\ Enqueue
  /\ patch' = [patch EXCEPT ![issued + 1] = t]
Propose(t) ==
  /\ Register(t)
  /\ UNCHANGED <<guardVars, content, ledger, inUse, waiting, handler, todo, still>>

SlipApplyAnyway(i) ==
  /\ handler = "idle"
  /\ Decide(i, "approved") \/ UNCHANGED queueVars
  /\ IF patch[i] = NoText THEN UNCHANGED <<handler, todo>>
     ELSE handler' = "approve" /\ todo' = <<i>>
  /\ UNCHANGED <<guardVars, content, patch, ledger, inUse, waiting, still>>
\* approve_and_apply: the patch table lists every pending request, patch or not.
ApproveAndApply(i) ==
  /\ handler = "idle"
  /\ Decide(i, "approved")
  /\ IF patch[i] = NoText THEN UNCHANGED <<handler, todo>>
     ELSE handler' = "approve" /\ todo' = <<i>>
  /\ UNCHANGED <<guardVars, content, patch, ledger, inUse, waiting, still>>

\* A decision from the approval panel or the Safety tab, or decline_patch:
\* whatever it is, no file is touched.
Judge(i, verdict) ==
  /\ Decide(i, verdict)
  /\ UNCHANGED <<guardVars, patchVars>>

SlipWaitingAfter(drained, nowStill) ==
  IF handler = "approve" \/ drained THEN <<>> ELSE waiting
\* A drain takes the whole list and puts back at its end what is still in use.
WaitingAfter(drained, nowStill) ==
  IF handler = "approve" THEN <<>> ELSE IF drained THEN nowStill ELSE waiting

\* What the handler goes on with when a patch is dealt with: the rest of a
\* drain; after an approval, a drain; after the drain of a tick, the check.
Continue(rest, nowStill) ==
  LET drained == rest = <<>> /\ handler # "approve"
  IN  /\ todo' = IF handler = "approve" THEN waiting ELSE rest
      /\ handler' = CASE handler = "approve" -> IF waiting = <<>> THEN "idle" ELSE "drain"
                      [] handler = "drain" -> IF drained THEN "idle" ELSE "drain"
                      [] handler = "tick" -> IF drained THEN "check" ELSE "tick"
      /\ waiting' = WaitingAfter(drained, nowStill)
      /\ still' = IF drained THEN <<>> ELSE nowStill

\* Backup, write, verify: a write that fails, or a text that does not compile,
\* leaves the content of the backup.
Install(i) ==
  \/ /\ patch[i] \notin Broken
     /\ content' = [text |-> patch[i], by |-> i]
     /\ ledger' = [ledger EXCEPT ![i] = [status |-> "verified", backup |-> content]]
  \/ UNCHANGED <<content, ledger>>

\* One patch of apply_approved or drain.
ApplyNext ==
  /\ handler \in {"approve", "drain", "tick"} /\ todo # <<>>
  /\ LET i == Head(todo)
     IN  IF ~inUse
         THEN Install(i) /\ Continue(Tail(todo), still)
         ELSE /\ IF handler = "approve"
                 THEN /\ waiting' = Append(waiting, i) /\ handler' = "idle"
                      /\ todo' = <<>> /\ UNCHANGED still
                 ELSE Continue(Tail(todo), Append(still, i))
              /\ UNCHANGED <<content, ledger>>
  /\ UNCHANGED <<queueVars, guardVars, patch, inUse>>

\* The tick of the monitor: first a drain, then a look at what was applied.
Tick ==
  /\ handler = "idle"
  /\ handler' = IF waiting = <<>> THEN "check" ELSE "tick"
  /\ todo' = waiting /\ waiting' = <<>>
  /\ UNCHANGED <<queueVars, guardVars, content, patch, ledger, inUse, still>>

Applied == {i \in Ids : ledger[i].status # "none"}
\* monitor_applied, one record; the last one ends the handler.  A file that no
\* longer compiles: the record has regressed, and its backup is proposed anew.
Check(i) ==
  /\ handler = "check" /\ i \in Applied \ Elements(todo)
  /\ IF content.text \in Broken
     THEN /\ ledger' = [ledger EXCEPT ![i].status = "regressed"]
          /\ Register(ledger[i].backup.text)
     ELSE /\ ledger' = [ledger EXCEPT ![i].status = "verified"]
          /\ UNCHANGED <<queueVars, patch>>
  /\ todo' = Append(todo, i)
  /\ UNCHANGED <<guardVars, content, inUse, waiting, handler, still>>
Checked ==
  /\ handler = "check" /\ Applied \subseteq Elements(todo)
  /\ handler' = "idle" /\ todo' = <<>>
  /\ UNCHANGED <<queueVars, guardVars, content, patch, ledger, inUse, waiting, still>>

\* mark_in_use, mark_free
MarkUse ==
  /\ inUse' = ~inUse
  /\ UNCHANGED <<queueVars, guardVars, content, patch, ledger, waiting, handler, todo, still>>

\* Others write the file.
Edit(t) ==
  /\ content' = [text |-> t, by |-> 0]
  /\ UNCHANGED <<queueVars, guardVars, patch, ledger, inUse, waiting, handler, todo, still>>

Forget ==
  /\ Restart /\ GuardForgets
  /\ patch' = [i \in Ids |-> NoText] /\ ledger' = [i \in Ids |-> NoRecord]
  /\ inUse' = FALSE /\ waiting' = <<>> /\ handler' = "idle"
  /\ todo' = <<>> /\ still' = <<>>

\* The process ends; when it ends between the write of a patch and its check,
\* the text stays.
Reboot ==
  /\ Forget
  /\ \/ UNCHANGED content
     \/ /\ handler \in {"approve", "drain", "tick"} /\ todo # <<>> /\ ~inUse
        /\ content' = [text |-> patch[Head(todo)], by |-> Head(todo)]

Init ==
  /\ QueueInit /\ GuardInit
  /\ content \in [text : Texts \ Broken, by : {0}]
  /\ patch = [i \in Ids |-> NoText] /\ ledger = [i \in Ids |-> NoRecord]
  /\ inUse = FALSE /\ waiting = <<>> /\ handler = "idle"
  /\ todo = <<>> /\ still = <<>>

Next ==
  \/ GuardNext /\ UNCHANGED patchVars
  \/ \E t \in Texts : Propose(t) \/ Edit(t)
  \/ \E i \in Ids : \/ ApproveAndApply(i) \/ Check(i)
                    \/ \E verdict \in Verdicts : Judge(i, verdict)
  \/ ApplyNext \/ Tick \/ Checked \/ MarkUse \/ Reboot

Spec == Init /\ [][Next]_vars

-----------------------------------------------------------------------------
(* Properties. *)

\* The variables keep their types.
TypeOK ==
  /\ QueueTypeOK /\ GuardTypeOK
  /\ content \in Contents
  /\ patch \in [Ids -> Texts \cup {NoText}]
  /\ ledger \in [Ids -> [status : {"none", "verified", "regressed"},
                          backup : Contents \cup {NoRecord.backup}]]
  /\ inUse \in BOOLEAN /\ {waiting, todo, still} \subseteq Seq(Ids)
  /\ handler \in {"idle", "approve", "drain", "tick", "check"}

\* Patches that a human has approved and that are still to be written.
Granted == Elements(waiting) \cup Elements(still)
             \cup (IF handler = "check" THEN {} ELSE Elements(todo))
Stage == [i \in Ids |-> IF i > issued THEN "none"
                        ELSE IF patch[i] = NoText THEN "over"
                        ELSE IF i \in Granted THEN "granted"
                        ELSE IF queue[i].status = "pending" THEN "open"
                        ELSE "over"]

\* The service keeps the promise of GatedFile.
Gate == INSTANCE GatedFile WITH Proposals <- Ids, proposal <- patch, stage <- Stage
FileIsGated == Gate!Spec

\* An approved patch that had to wait for its file is not lost or written twice:
\* no handler, use of the file or edit takes it off the list unless it is tried.
WaitingIsKept ==
  [][\A i \in Granted : i \notin Granted' =>
       \/ todo # <<>> /\ i = Head(todo) /\ ~inUse
       \/ restarts' # restarts]_vars
=============================================================================
