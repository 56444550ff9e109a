------------------------- MODULE PipelineRefinement -------------------------
(***************************************************************************)
(* The Go pipeline implements Compliance.  A decision exists from the step *)
(* in which the handler has set response.Flagged for good: the NER answer  *)
(* for a clean transaction, the end of the LLM call for a suspicious one.  *)
(***************************************************************************)
EXTENDS Pipeline

OutcomeOf(flagged, sar) ==
  IF sar THEN "sar" ELSE IF flagged THEN "flagged" ELSE "clear"

DecisionOf(r) ==
  IF status[r] \in {400, 500} THEN "refused"
  ELSE IF verdict[r] = "clean" \/ resp[r].flagged
    THEN OutcomeOf(resp[r].flagged, resp[r].sar)
  ELSE "open"

EntryOf(row) ==
  [by |-> row.by,
   decision |-> IF row.by = None THEN "open" ELSE OutcomeOf(row.flagged, row.sar)]

Abstract ==
  INSTANCE Compliance WITH
    decision <- [r \in Requests |-> DecisionOf(r)],
    ledger <- [id \in TxIds |-> EntryOf(rows[id])],
    unrecorded <- storeFailed,
    alerts <- events,
    answered <- {r \in Requests : status[r] = 200}

(* Every step of every handler, of the database and of the environment is  *)
(* a step Compliance allows or one it cannot see.                          *)
ImplementsCompliance == Abstract!CSpec
=============================================================================
