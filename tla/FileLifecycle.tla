--------------------------- MODULE FileLifecycle ---------------------------
(***************************************************************************)
(* What the database promises about one row of the table files: the CHECK  *)
(* constraint lifecycle_matrix (migration 011) and the trigger function    *)
(* enforce_file_original_locator_v1 (migration 012), whatever statement    *)
(* writes the row.  FileProcessing implements it when no statement of the  *)
(* repository is ever refused.                                             *)
(***************************************************************************)

VARIABLE file    \* status, security_scan_status, originals locator written?

FileStatus == {"absent", "uploaded", "validating", "stored", "rejected", "archived"}
ScanStatus == {"pending", "clean", "infected", "unsupported", "scan_failed",
               "not_configured"}

FileRecord == [status : FileStatus, scan : ScanStatus, located : BOOLEAN]

NoFile  == [status |-> "absent", scan |-> "pending", located |-> FALSE]
NewFile == [status |-> "uploaded", scan |-> "pending", located |-> FALSE]

\* lifecycle_matrix: the scan results that a status admits.
ScansOf(status) ==
  CASE status = "uploaded"   -> {"pending"}
    [] status = "validating" -> {"pending", "scan_failed", "not_configured"}
    [] status = "rejected"   -> {"infected", "unsupported"}
    [] OTHER                 -> {"clean"}

RowAllowed(row) ==
  /\ row.status # "absent"                       \* files cannot be deleted
  /\ row.scan \in ScansOf(row.status)
  /\ row.located <=> row.status \in {"stored", "archived"}

\* The locator is written once, by the transition that finds the file clean.
LocatorAllowed(old, new) ==
  /\ old.located => new.located
  /\ new.located /\ ~old.located =>
       /\ old.status = "validating" /\ old.scan = "pending"
       /\ new.status = "stored" /\ new.scan = "clean"

Init == file = NoFile

Insert ==
  /\ file = NoFile
  /\ RowAllowed(file')
  /\ ~file'.located

Update ==
  /\ file.status # "absent"
  /\ RowAllowed(file')
  /\ LocatorAllowed(file, file')

Next == Insert \/ Update

Spec == Init /\ [][Next]_file
=============================================================================
