----------------------------- MODULE Compliance -----------------------------
(***************************************************************************)
(* What the Trinity pipeline promises, without its services: a request is  *)
(* refused, or decided once and for good; the ledger of an id holds the    *)
(* whole decision of one request; a decision is announced on exactly the   *)
(* channels it is entitled to and answered only after the ledger has an    *)
(* entry for its id or the recording is known to have failed.              *)
(***************************************************************************)
CONSTANTS Requests, TxIds, TxOf, None

VARIABLES
  decision,   \* decision[r]
  ledger,     \* ledger[id]: who decided it last and how
  unrecorded, \* requests whose recording is known to have failed
  alerts,     \* <<channel, request>> pairs announced
  answered    \* requests answered with their decision

cvars == <<decision, ledger, unrecorded, alerts, answered>>

Decided == {"clear", "flagged", "sar"}
Outcome == {"open", "refused"} \cup Decided

ChannelsOf(d) ==
  {"transactions"} \cup (IF d \in {"flagged", "sar"} THEN {"flagged"} ELSE {})
                   \cup (IF d = "sar" THEN {"sars"} ELSE {})

NoEntry == [by |-> None, decision |-> "open"]

CInit ==
  /\ decision = [r \in Requests |-> "open"]
  /\ ledger = [id \in TxIds |-> NoEntry]
  /\ unrecorded = {}
  /\ alerts = {}
  /\ answered = {}

Refuse(r) ==
  /\ decision[r] = "open"
  /\ decision' = [decision EXCEPT ![r] = "refused"]
  /\ UNCHANGED <<ledger, unrecorded, alerts, answered>>

Decide(r) ==
  /\ decision[r] = "open"
  /\ \E d \in Decided : decision' = [decision EXCEPT ![r] = d]
  /\ UNCHANGED <<ledger, unrecorded, alerts, answered>>

(* May come late, even after the answer, when the recording seemed to fail.*)
Record(r) ==
  /\ decision[r] \in Decided
  /\ ledger' = [ledger EXCEPT ![TxOf[r]] = [by |-> r, decision |-> decision[r]]]
  /\ UNCHANGED <<decision, unrecorded, alerts, answered>>

RecordFails(r) ==
  /\ decision[r] \in Decided
  /\ unrecorded' = unrecorded \cup {r}
  /\ UNCHANGED <<decision, ledger, alerts, answered>>

Accounted(r) == r \in unrecorded \/ ledger[TxOf[r]].by # None

Announce(r) ==
  /\ decision[r] \in Decided
  /\ Accounted(r)
  /\ \E ch \in ChannelsOf(decision[r]) : alerts' = alerts \cup {<<ch, r>>}
  /\ UNCHANGED <<decision, ledger, unrecorded, answered>>

Answer(r) ==
  /\ decision[r] \in Decided
  /\ Accounted(r)
  /\ answered' = answered \cup {r}
  /\ UNCHANGED <<decision, ledger, unrecorded, alerts>>

CNext ==
  \E r \in Requests :
    Refuse(r) \/ Decide(r) \/ Record(r) \/ RecordFails(r) \/ Announce(r)
    \/ Answer(r)

CSpec == CInit /\ [][CNext]_cvars
=============================================================================
