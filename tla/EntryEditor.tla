----------------------------- MODULE EntryEditor -----------------------------
(***************************************************************************)
(* The editor components of the dashboard, TargetEditor and ProfileEditor: *)
(* how their form follows the props of the screen that owns it, and how    *)
(* answers change it.  A screen passes `ed', its editorState; the component*)
(* keeps `f', its form.  The fields, texts and error messages are left out *)
(* (ProfileDraft has the fields of a profile): a form is the entry it is   *)
(* about, the version it was loaded from, the revision it will name when   *)
(* it saves, and its flags.  Where the two components agree there is one   *)
(* definition.                                                             *)
(***************************************************************************)
EXTENDS ConfigFile

Editors == [open : BOOLEAN, mode : {"create", "edit"}, entry : Entries \union {NoEntry},
            base : Nat, rev : Nat]
Forms   == [entry : Entries \union {NoEntry}, base : Nat, rev : Nat, dirty : BOOLEAN,
            busy : {"", "saving", "reloading"}, conflict : BOOLEAN]

NoEditor  == [open |-> FALSE, mode |-> "create", entry |-> NoEntry, base |-> 0, rev |-> 0]
EmptyForm == [entry |-> NoEntry, base |-> 0, rev |-> 0, dirty |-> FALSE, busy |-> "",
              conflict |-> FALSE]

\* What TargetEditor loads: the target it is given when it edits, else the
\* initial form.
TargetForm(ed) ==
  IF ed.mode = "edit" THEN [EmptyForm EXCEPT !.entry = ed.entry, !.base = ed.base, !.rev = ed.rev]
  ELSE [EmptyForm EXCEPT !.rev = ed.rev]

\* What ProfileEditor loads: the profile it is given, in either mode (a new
\* override may start from a profile's name).
ProfileForm(ed) == [EmptyForm EXCEPT !.entry = ed.entry, !.base = ed.base, !.rev = ed.rev]

\* The effect on [isOpen, mode, target or profile, revision], after the screen's
\* state went from `old' to `new', which loads `fresh'.  The draft of an open
\* dialog is kept.
Sync(f, old, new, fresh) ==
  IF ~new.open THEN [f EXCEPT !.dirty = FALSE, !.busy = "", !.conflict = FALSE]
  ELSE IF ~old.open \/ ~f.dirty THEN fresh
  ELSE f

\* Every input is disabled while a request is in flight, the identifier also
\* when an existing entry is edited.
CanType(ed, f) == ed.open /\ f.busy = ""
Names(ed, f)   == IF ed.mode = "create" THEN Entries \union {NoEntry} ELSE {f.entry}

\* A change of any field; e is the identifier after it.
EditField(f, e) == [f EXCEPT !.dirty = TRUE, !.entry = e]

\* handleSubmit gets as far as a request: no conflict is shown and there is an
\* identifier (TargetEditor disables its button, ProfileEditor reports an error).
CanSubmit(ed, f) == ed.open /\ f.busy = "" /\ ~f.conflict /\ f.entry # NoEntry

\* The mutation handleSubmit asks for.  A create replaces nothing.
Submission(ed, f) ==
  [op |-> IF ed.mode = "create" THEN "create" ELSE "update", entry |-> f.entry, rev |-> f.rev,
   base |-> IF ed.mode = "create" THEN 0 ELSE f.base]

\* Broken variant: a rejected save leaves its buttons disabled.
RejectedBusy(f, answer) == [f EXCEPT !.conflict = (answer = "conflict") \/ @]

\* handleSubmit's catch: 409 is a conflict, all else is an error.
Rejected(f, answer) ==
  [f EXCEPT !.busy = "", !.conflict = (answer = "conflict") \/ @]

\* Broken variant: the draft stays and takes the new revision.
ReloadedRevision(f, mode, e, version, rev) ==
  [f EXCEPT !.busy = "", !.conflict = FALSE, !.rev = IF rev = 0 THEN @ ELSE rev]

\* handleReloadConfiguration, given what the screen's onReloadRequired returned:
\* a revision (0 for nothing) and the version of entry e found there (0 for none).
Reloaded(f, mode, e, version, rev) ==
  IF rev = 0 \/ (mode = "edit" /\ version = 0) THEN [f EXCEPT !.busy = ""]
  ELSE [EmptyForm EXCEPT !.entry = IF version # 0 THEN e ELSE f.entry,
                         !.base = IF version # 0 THEN version ELSE f.base,
                         !.rev = rev]
=============================================================================
