---------------------------- MODULE EvidenceStore ----------------------------
(***************************************************************************)
(* The table of evidence records (agents/evidence/evidence_store.py over   *)
(* the `evidence` table of app/database.py).  `id` is the primary key and  *)
(* record() is an INSERT OR REPLACE, so one row is kept per id: a later    *)
(* record with the same id takes the place of the earlier one, whichever   *)
(* opportunity that one was about.                                         *)
(***************************************************************************)
EXTENDS EvidencePolicy

CONSTANTS EvIds,        \* evidence ids; a converted payout record has id ""
          Opps,         \* opportunity ids
          NoEvidence    \* an empty row

EvidenceRecord == [id : EvIds, subject : Opps, type : STRING,
                   status : Statuses, level : Levels, method : STRING,
                   amount : Nat]

Record(table, ev) == [table EXCEPT ![ev.id] = ev]

Rows(table) == {table[i] : i \in EvIds} \ {NoEvidence}

\* for_subject("opportunity", o)
ForSubject(table, o) == {ev \in Rows(table) : ev.subject = o}

Tables == [EvIds -> EvidenceRecord \cup {NoEvidence}]

EmptyTable == [i \in EvIds |-> NoEvidence]
=============================================================================
