----------------------- MODULE ParseVersionLifecycle -----------------------
(***************************************************************************)
(* What the parse versions of one file promise, whatever happens to the    *)
(* jobs that build them: a candidate is built once from its parent or      *)
(* fails, a built version never changes, and the active version is only    *)
(* replaced by a finished candidate made from it (trigger of migration     *)
(* 013, uq_parse_versions_file_active, PARSE_PARENT_STALE of               *)
(* document_correction.py).                                                *)
(***************************************************************************)
EXTENDS Naturals

CONSTANT Versions       \* version_no of the rows of one file

VARIABLES
  status,    \* of each document_parse_versions row
  parent,    \* parent_version_id
  fixes      \* the corrections a built version contains

lvars == <<status, parent, fixes>>

Moves(v, from, to) ==
  /\ status[v] = from
  /\ status' = [status EXCEPT ![v] = to]

Created(v) ==
  /\ Moves(v, "absent", "queued")
  /\ \E p \in Versions :
       status[p] = "active" /\ parent' = [parent EXCEPT ![v] = p]
  /\ UNCHANGED fixes

Begun(v) == Moves(v, "queued", "running") /\ UNCHANGED <<parent, fixes>>

\* A candidate is its parent, or its parent with its own correction.
Built(v) ==
  /\ Moves(v, "running", "succeeded") \/ Moves(v, "running", "review")
  /\ \E own \in SUBSET {v} :
       fixes' = [fixes EXCEPT ![v] = fixes[parent[v]] \cup own]
  /\ UNCHANGED parent

Failed(v) ==
  /\ Moves(v, "queued", "failed") \/ Moves(v, "running", "failed")
  /\ UNCHANGED <<parent, fixes>>

Activated(v) ==
  /\ status[v] = "succeeded" /\ status[parent[v]] = "active"
  /\ status' = [status EXCEPT ![parent[v]] = "superseded", ![v] = "active"]
  /\ UNCHANGED <<parent, fixes>>

Init ==
  /\ \E r \in Versions :
       status = [v \in Versions |-> IF v = r THEN "active" ELSE "absent"]
  /\ parent = [v \in Versions |-> 0]
  /\ fixes = [v \in Versions |-> {}]
Next == \E v \in Versions : Created(v) \/ Begun(v) \/ Built(v) \/ Failed(v) \/ Activated(v)
Spec == Init /\ [][Next]_lvars
=============================================================================
