--------------------------- MODULE Investigation ----------------------------
(***************************************************************************)
(* POST /investigate of services/llm-service/trinity_llm/llm_service.py:   *)
(* what becomes of the model's reply.  The handler awaits the provider     *)
(* once; the rest is a function of the reply and the transaction.  Reasons *)
(* and recommended actions are left out.                                   *)
(***************************************************************************)

EXTENDS Naturals

Level == {"Low", "Medium", "High"}

(* A reply: "fails" (the provider raises), "object" (all of it is a JSON   *)
(* object), "wrapped" (text around one), "value" (JSON, not an object) or  *)
(* "prose".  risk is the risk_level of an object and the word after        *)
(* "Risk Level:" otherwise, capitalized: one of the three, another word, or*)
(* absent.  sar is an object's requires_sar; "quoted" is the text "false". *)
Replies ==
  [form : {"fails", "object", "wrapped", "value", "prose"},
   risk : Level \cup {"Severe", "absent"},
   sar : {"absent", "false", "true", "quoted"}]

(* The transaction's amount is whatever JSON the caller sent.              *)
Amounts == {"number", "unusable"}

(* json.loads of the reply; if that raises, of what is between its braces. *)
IsObject(reply) == reply.form \in {"object", "wrapped"}

RiskOf(reply) ==
  IF reply.risk = "absent" \/ (IsObject(reply) /\ reply.risk \notin Level)
    THEN "Low" ELSE reply.risk

(* bool() of the field, true of any non-empty text.                        *)
RequiresSar(reply) ==
  IF IsObject(reply) THEN reply.sar \in {"true", "quoted"}
  ELSE RiskOf(reply) \in {"Medium", "High"}

(* render_investigation_prompt and _build_sar_narrative both convert the    *)
(* amount to a float: one that raises does so before the model is asked.   *)
PromptRaises(amount) == amount = "unusable"

(* Slip: the narrative is left to _generate_sar, the increment is not.     *)
ParseLeavingNarrative(reply) ==
  LET sar == RequiresSar(reply) IN
  [risk |-> RiskOf(reply), sar |-> sar, narrative |-> FALSE, sars |-> IF sar THEN 1 ELSE 0]

(* _parse_investigation_response: the report is built from the template and*)
(* counted.                                                                *)
Parse(reply) ==
  LET sar == RequiresSar(reply) IN
  [risk |-> RiskOf(reply), sar |-> sar, narrative |-> sar, sars |-> IF sar THEN 1 ELSE 0]

(* _generate_sar, for a result without a narrative: the provider is asked  *)
(* again; its text or, if it fails, the template is counted, too.          *)
GenerateSar(result) == [result EXCEPT !.narrative = TRUE, !.sars = @ + 1]

(* investigate_transaction: the answer, 200 or 503, and by how much        *)
(* llm_sars_generated_total grows.                                         *)
Investigate(reply, amount) ==
  LET parsed == Parse(reply)
      result == IF parsed.sar /\ ~parsed.narrative THEN GenerateSar(parsed) ELSE parsed
  IN IF PromptRaises(amount) \/ reply.form = "fails"
       THEN [status |-> 503, risk |-> "absent", sar |-> FALSE, narrative |-> FALSE,
             sars |-> 0]
     ELSE [status |-> 200, risk |-> result.risk, sar |-> result.sar,
           narrative |-> result.narrative, sars |-> result.sars]

-----------------------------------------------------------------------------
(* A report is counted once exactly when an answer carries it, and an      *)
(* answer carries one exactly when it says one is required, although two   *)
(* places build and count one (_parse_investigation_response,              *)
(* _generate_sar).                                                         *)
ReportFor(reply, amount) ==
  LET answer == Investigate(reply, amount) IN
  /\ answer.sars = IF answer.narrative THEN 1 ELSE 0
  /\ answer.sar <=> answer.narrative
=============================================================================
