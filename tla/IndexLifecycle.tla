--------------------------- MODULE IndexLifecycle ---------------------------
(***************************************************************************)
(* What the database promises about the index versions of one knowledge    *)
(* base whatever the services do: the trigger enforce_retrieval_runtime_v1 *)
(* and the unique indexes of migration 019.                                *)
(***************************************************************************)
CONSTANT Indexes

VARIABLES
  status,     \* of each document_index_versions row
  complete,   \* the indexes all of whose items have their two hashes
  passed      \* the indexes with a formal_release evaluation that passed

lvars == <<status, complete, passed>>

Moves(i, from, to) ==
  /\ status[i] = from
  /\ status' = [status EXCEPT ![i] = to]

Built(i)  == Moves(i, "absent", "building") /\ UNCHANGED <<complete, passed>>
Filled(i) == /\ status[i] = "building"
             /\ complete' = complete \cup {i}
             /\ UNCHANGED <<status, passed>>
Ready(i)  == Moves(i, "building", "ready") /\ i \in complete /\ UNCHANGED <<complete, passed>>
Failed(i) == Moves(i, "building", "failed") /\ UNCHANGED <<complete, passed>>
Passed(i) == /\ status[i] \notin {"absent", "building", "failed"}
             /\ passed' = passed \cup {i}
             /\ UNCHANGED <<status, complete>>

\* uq_document_index_versions_kb_active: the other active index goes with it.
Activated(i) ==
  /\ status[i] = "ready" /\ i \in complete \cap passed
  /\ status' = [k \in Indexes |->
       IF k = i THEN "active"
       ELSE IF status[k] = "active" THEN "superseded" ELSE status[k]]
  /\ UNCHANGED <<complete, passed>>

Init ==
  /\ status = [i \in Indexes |-> "absent"]
  /\ complete = {} /\ passed = {}
Next ==
  \E i \in Indexes :
    Built(i) \/ Filled(i) \/ Ready(i) \/ Failed(i) \/ Passed(i) \/ Activated(i)
Spec == Init /\ [][Next]_lvars
=============================================================================
