----------------------------- MODULE ConfigFile -----------------------------
(***************************************************************************)
(* A configuration file as the dashboard's editors see it: the entries     *)
(* (targets, profiles, project overrides, the reader capacity) and the     *)
(* revision every mutation has to name in If-Match.                        *)
(*                                                                         *)
(* The file is the sequence of the changes made to it, by the dashboard or *)
(* by anybody else; its revision (in the code the hash of its bytes) is    *)
(* their number, and the content of an entry is the number of the change   *)
(* that set it.  `base' records what the author of a change believed to be *)
(* replacing.                                                              *)
(***************************************************************************)
EXTENDS Integers, Sequences, FiniteSetsExt

CONSTANTS Entries,   \* the identifiers of the entries
          NoEntry    \* a blank identifier

ASSUME NoEntryAssumption == NoEntry \notin Entries

Changes == [entry : Entries, op : {"set", "remove"}, base : Nat]

Revision(file) == Len(file)

\* The content entry e had at revision rev, 0 when there was no such entry.
VersionAt(file, e, rev) ==
  LET mine == {k \in 1..rev : file[k].entry = e}
  IN  IF mine = {} \/ file[Max(mine)].op = "remove" THEN 0 ELSE Max(mine)

Version(file, e) == VersionAt(file, e, Revision(file))

\* What the server may answer to a mutation m.  The revision is compared first,
\* under the service's lock; a candidate that does not validate is rejected.
CreateAnswers(file, m) ==
  IF m.rev # Revision(file) THEN {"conflict"}
  ELSE IF Version(file, m.entry) # 0 THEN {"error"}
  ELSE {"ok", "error"}

\* Broken variant: an update is accepted whatever revision it names.
UpdateAnswersAnyRevision(file, m) == IF Version(file, m.entry) = 0 THEN {"error"} ELSE {"ok", "error"}

UpdateAnswers(file, m) ==
  IF m.rev # Revision(file) THEN {"conflict"}
  ELSE IF Version(file, m.entry) = 0 THEN {"error"}
  ELSE {"ok", "error"}

\* Whether other entries refer to this one is not modelled: either may be so.
DeleteAnswers(file, m) ==
  IF m.rev # Revision(file) THEN {"conflict"}
  ELSE IF Version(file, m.entry) = 0 THEN {"error"}
  ELSE {"ok", "error", "referenced"}

\* The file after an accepted mutation.
Changed(file, m) ==
  Append(file, [entry |-> m.entry, base |-> m.base,
                op |-> IF m.op = "delete" THEN "remove" ELSE "set"])
=============================================================================
