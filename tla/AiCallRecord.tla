---------------------------- MODULE AiCallRecord ----------------------------
(***************************************************************************)
(* What the audit of provider calls promises: a call that was opened gets  *)
(* one verdict and keeps it; its output may be used only together with the *)
(* verdict "succeeded"; the log shows the call and then that verdict (the  *)
(* trigger enforce_ai_call_logs_runtime_v2 of migration 024).              *)
(***************************************************************************)
EXTENDS Naturals

CONSTANTS Calls, Verdicts, None

VARIABLES
  opened,     \* calls with a durable started event
  verdict,    \* the status of the completed event, or None
  adopted,    \* calls whose output a business transaction has used
  shown       \* ai_call_logs.status, or None

vars == <<opened, verdict, adopted, shown>>

Init ==
  /\ opened = {}
  /\ verdict = [c \in Calls |-> None]
  /\ adopted = {}
  /\ shown = [c \in Calls |-> None]

Open(c) ==
  /\ c \notin opened
  /\ opened' = opened \cup {c}
  /\ UNCHANGED <<verdict, adopted, shown>>

Settle(c, v) ==
  /\ c \in opened /\ verdict[c] = None
  /\ verdict' = [verdict EXCEPT ![c] = v]
  /\ adopted' = IF v = "succeeded" THEN adopted \cup {c} ELSE adopted
  /\ UNCHANGED <<opened, shown>>

Show(c) ==
  /\ c \in opened
  /\ \/ shown[c] = None /\ shown' = [shown EXCEPT ![c] = "pending"]
     \/ /\ shown[c] = "pending" /\ verdict[c] # None
        /\ shown' = [shown EXCEPT ![c] = verdict[c]]
  /\ UNCHANGED <<opened, verdict, adopted>>

\* A pending call past its deadline: verdict and log at once.
WriteOff(c) ==
  /\ shown[c] = "pending" /\ verdict[c] = None
  /\ verdict' = [verdict EXCEPT ![c] = "outcome_unknown"]
  /\ shown' = [shown EXCEPT ![c] = "outcome_unknown"]
  /\ UNCHANGED <<opened, adopted>>

Next ==
  \E c \in Calls :
    \/ Open(c) \/ Show(c) \/ WriteOff(c)
    \/ \E v \in Verdicts \ {"outcome_unknown"} : Settle(c, v)

Spec == Init /\ [][Next]_vars
=============================================================================
