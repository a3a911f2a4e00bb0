---------------------------- MODULE ConfigEditing ----------------------------
(***************************************************************************)
(* Editing a configuration file from the dashboard: the screens Targets,   *)
(* Profiles and (in ProjectDetail) project overrides, each with an editor  *)
(* and a deletion dialog, and the reader capacity of RuntimeSettings,      *)
(* against the mutation endpoints and other writers of the same file.      *)
(*                                                                         *)
(* Every request is a record in `net' that carries what the handler        *)
(* captured when it was called; it is served in one step, and the handler  *)
(* goes on in another, on the state of that moment.  The user stays on one *)
(* screen: leaving it unmounts its components, and what they were waiting  *)
(* for has no effect any more.                                             *)
(***************************************************************************)
EXTENDS EntryEditor

CONSTANTS Screens,     \* the screens a behaviour may be about
          Setting,     \* the entry RuntimeSettings edits
          Interrupts,  \* what the user does while a request is in flight
          MaxChanges,  \* bound: length of the file
          MaxOpens,    \* bound: dialogs opened
          MaxNet,      \* bound: requests in flight
          MaxFaults    \* bound: failures of the network or the daemon

EntryScreens == {"targets", "profiles", "overrides"}

\* close: close a dialog that is saving or reloading, with Escape, the scrim or
\* its X; reopen: ask for a second dialog before the first one appears; again:
\* press Reload a second time; type: type into RuntimeSettings while it saves.
InterruptKinds == {"close", "reopen", "again", "type"}

ASSUME EditingConstants ==
  /\ Screens \subseteq EntryScreens \union {"settings"} /\ Setting \in Entries
  /\ Interrupts \subseteq InterruptKinds
  /\ MaxChanges \in Nat /\ MaxOpens \in Nat /\ MaxNet \in Nat /\ MaxFaults \in Nat

VARIABLES
  file,        \* the configuration file
  screen,      \* the screen the user is on
  editor,      \* the screen's editorState
  form,        \* the state of TargetEditor or ProfileEditor
  dialog,      \* the state of the deletion dialog
  reader,      \* the state of RuntimeSettings
  net,         \* requests in flight
  opened,      \* number of dialogs opened
  faultsLeft   \* what is left of MaxFaults

vars == <<file, screen, editor, form, dialog, reader, net, opened, faultsLeft>>

Dialogs == [open : BOOLEAN, entry : Entries \union {NoEntry}, rev : Nat, busy : BOOLEAN,
            refs : BOOLEAN, confirmed : BOOLEAN, ticked : Entries \union {NoEntry}]
Readers == [loaded : BOOLEAN, dirty : BOOLEAN, base : Nat, rev : Nat, saving : {"", "sent", "refresh"},
            reloading : BOOLEAN, conflict : BOOLEAN]

\* ticked is the entry whose confirmation box the user saw and ticked.
NoDialog == [open |-> FALSE, entry |-> NoEntry, rev |-> 0, busy |-> FALSE, refs |-> FALSE,
             confirmed |-> FALSE, ticked |-> NoEntry]
NoReader == [loaded |-> FALSE, dirty |-> FALSE, base |-> 0, rev |-> 0, saving |-> "", reloading |-> FALSE,
             conflict |-> FALSE]

\* A request: who asked for what, in which dialog, and its answer once served;
\* a reload also captures the identifier typed, a deletion what was ticked.
\* `newest' is useDashboardQuery's request identity.
Request(for, op, mode, entry, rev, base) ==
  [for |-> for, op |-> op, mode |-> mode, entry |-> entry, rev |-> rev, base |-> base,
   asked |-> opened, typed |-> NoEntry, ticked |-> NoEntry, newest |-> TRUE,
   tries |-> 1, answer |-> "none", at |-> 0]

Mutations == {"create", "update", "delete"}

Send(m) == Cardinality(net) < MaxNet /\ net' = net \union {m}
Served(m, answer, at) == (net \ {m}) \union {[m EXCEPT !.answer = answer, !.at = at]}
Waiting(m) == m.answer = "none"
Arrives(m, for) == m \in net /\ m.for = for /\ ~Waiting(m) /\ net' = net \ {m}

Fault == faultsLeft > 0 /\ faultsLeft' = faultsLeft - 1

-----------------------------------------------------------------------------
Init ==
  /\ file = <<[entry |-> Setting, op |-> "set", base |-> 0]>>
  /\ screen \in Screens
  /\ editor = NoEditor /\ form = EmptyForm /\ dialog = NoDialog
  /\ reader = NoReader /\ opened = 0 /\ faultsLeft = MaxFaults
  /\ net = IF screen = "settings" THEN {Request("query", "read", "edit", Setting, 0, 0)} ELSE {}

(* The server and the network.                                             *)

\* Another session, or a person with a text editor, changes the file.
OtherWriter(e, op) ==
  /\ Len(file) < MaxChanges
  /\ op = "remove" => Version(file, e) # 0 /\ (screen = "settings" => e # Setting)
  /\ file' = Append(file, [entry |-> e, op |-> op, base |-> Version(file, e)])
  /\ UNCHANGED <<screen, editor, form, dialog, reader, net, opened, faultsLeft>>

\* A read: of one entry (an unknown one is 404), or of the list.
ReadsOne(m) == m.mode = "edit" /\ (screen # "overrides" \/ m.for = "open")

ServeRead(m) ==
  /\ Waiting(m) /\ m.op = "read"
  /\ net' = IF ReadsOne(m) /\ Version(file, m.entry) = 0 THEN Served(m, "error", 0)
            ELSE Served(m, "ok", Revision(file))
  /\ UNCHANGED <<file, screen, editor, form, dialog, reader, opened, faultsLeft>>

\* A mutation is answered, and carried out when it is accepted.
ServeMutation(m) ==
  /\ Waiting(m) /\ m.op \in Mutations
  /\ \E answer \in CASE m.op = "create" -> CreateAnswers(file, m)
                     [] m.op = "update" -> UpdateAnswers(file, m)
                     [] m.op = "delete" -> DeleteAnswers(file, m) :
       /\ answer = "ok" => Len(file) < MaxChanges
       /\ file' = IF answer = "ok" THEN Changed(file, m) ELSE file
       /\ net' = Served(m, answer, Revision(file'))
  /\ UNCHANGED <<screen, editor, form, dialog, reader, opened, faultsLeft>>

\* The answer never arrives, or the daemon fails after the file was replaced:
\* the client sees an error whatever was done.
LoseAnswer(m) ==
  /\ ~Waiting(m) /\ m.answer # "error" /\ Fault
  /\ net' = Served(m, "error", 0)
  /\ UNCHANGED <<file, screen, editor, form, dialog, reader, opened>>

\* mutateWithCsrf: the token is refused (the daemon was restarted), a new one is
\* fetched and the same request is sent once more; a second refusal is an error.
RefuseToken(m) ==
  /\ Waiting(m) /\ m.op \in Mutations /\ Fault
  /\ net' = (net \ {m}) \union
            {IF m.tries = 1 THEN [m EXCEPT !.tries = 2] ELSE [m EXCEPT !.answer = "error"]}
  /\ UNCHANGED <<file, screen, editor, form, dialog, reader, opened>>

-----------------------------------------------------------------------------
(* The editor of the three entry screens.                                  *)

entryUI == <<file, screen, reader, faultsLeft>>

\* A modal dialog covers the page; the page's buttons ask for one at a time.
CanAsk ==
  /\ screen \in EntryScreens /\ ~editor.open /\ ~dialog.open /\ opened < MaxOpens
  /\ (\E m \in net : m.for \in {"open", "openDelete"}) => "reopen" \in Interrupts

\* handleOpenCreate and handleOpenEdit: nothing opens before the answer.
AskOpen(mode, e) ==
  /\ CanAsk
  /\ IF mode = "edit" THEN e # NoEntry ELSE e = NoEntry \/ screen = "overrides"
  /\ Send(Request("open", "read", mode, e, 0, 0))
  /\ UNCHANGED <<entryUI, editor, form, dialog, opened>>

OpenedAt(m, rev) ==
  [open |-> TRUE, mode |-> m.mode, entry |-> m.entry, rev |-> rev,
   base |-> IF m.mode = "edit" THEN VersionAt(file, m.entry, rev) ELSE 0]

\* The editorStates an answer may open; none when the screen only reports the
\* error.  Targets never opens without a revision.
TargetsOpen(m) == IF m.answer = "error" THEN {} ELSE {OpenedAt(m, m.at)}

\* Profiles opens for a new profile without a revision.
ProfilesOpen(m) ==
  IF m.answer # "error" THEN {OpenedAt(m, m.at)}
  ELSE IF m.mode = "create" THEN {OpenedAt(m, 0)} ELSE {}

\* ProjectDetail falls back on the revision of its own poll, however old.
OverridesOpen(m) ==
  IF m.answer # "error" THEN {OpenedAt(m, m.at)}
  ELSE IF m.mode = "create" THEN {OpenedAt(m, rev) : rev \in 0..Revision(file)} ELSE {}

EditorsFor(m) ==
  CASE screen = "targets"   -> TargetsOpen(m)
    [] screen = "profiles"  -> ProfilesOpen(m)
    [] screen = "overrides" -> OverridesOpen(m)

Load(ed) == IF screen = "targets" THEN TargetForm(ed) ELSE ProfileForm(ed)

OpenArrives(m) ==
  /\ Arrives(m, "open")
  /\ IF EditorsFor(m) = {}
       THEN UNCHANGED <<editor, form, opened>>
       ELSE /\ editor' \in EditorsFor(m)
            /\ form' = Sync(form, editor, editor', Load(editor'))
            /\ opened' = opened + 1
  /\ UNCHANGED <<entryUI, dialog>>

\* onClose.  Cancel is disabled while a request is in flight; Escape, the scrim
\* and the X of Modal are not.
CloseEditor ==
  /\ editor.open /\ (form.busy # "" => "close" \in Interrupts)
  /\ editor' = [editor EXCEPT !.open = FALSE]
  /\ form' = Sync(form, editor, editor', Load(editor'))
  /\ UNCHANGED <<entryUI, dialog, net, opened>>

Type(e) ==
  /\ CanType(editor, form) /\ e \in Names(editor, form)
  /\ form' = EditField(form, e)
  /\ UNCHANGED <<entryUI, editor, dialog, net, opened>>

Save ==
  /\ CanSubmit(editor, form)
  /\ form' = [form EXCEPT !.busy = "saving"]
  /\ LET s == Submission(editor, form)
     IN  Send(Request("save", s.op, editor.mode, s.entry, s.rev, s.base))
  /\ UNCHANGED <<entryUI, editor, dialog, opened>>

\* handleSubmit goes on: onSaved and onClose close whatever editor is open.
SaveArrives(m) ==
  /\ Arrives(m, "save")
  /\ IF m.answer = "ok"
       THEN /\ editor' = [editor EXCEPT !.open = FALSE]
            /\ form' = Sync([form EXCEPT !.dirty = FALSE], editor, editor', Load(editor'))
       ELSE form' = Rejected(form, m.answer) /\ UNCHANGED editor
  /\ UNCHANGED <<entryUI, dialog, opened>>

\* The button of the conflict alert; it is not disabled by a reload in flight.
Reload ==
  /\ editor.open /\ form.conflict
  /\ form.busy = "reloading" => "again" \in Interrupts
  /\ form' = [form EXCEPT !.busy = "reloading"]
  /\ Send([Request("reload", "read", editor.mode, editor.entry, 0, 0) EXCEPT !.typed = form.entry])
  /\ UNCHANGED <<entryUI, editor, dialog, opened>>

\* onReloadRequired: the screen's editorState takes the revision it read and, if
\* it was editing, the entry found.
ReloadedEditor(m, rev) ==
  IF rev = 0 THEN editor
  ELSE IF m.mode = "edit" /\ VersionAt(file, m.entry, rev) # 0
    THEN [editor EXCEPT !.rev = rev, !.entry = m.entry, !.base = VersionAt(file, m.entry, rev)]
  ELSE [editor EXCEPT !.rev = rev]

\* The component goes on with the result before the screen is rendered again;
\* then its effect runs if a prop has changed (an entry read again is a new one).
ReloadArrives(m) ==
  /\ Arrives(m, "reload")
  /\ LET rev == IF m.answer = "ok" THEN m.at ELSE 0
         e   == IF m.mode = "edit" THEN m.entry ELSE m.typed
         v   == VersionAt(file, e, rev)
         f   == Reloaded(form, m.mode, e, v, rev)
     IN  /\ editor' = ReloadedEditor(m, rev)
         /\ form' = IF editor' # editor \/ (m.mode = "edit" /\ v # 0)
                    THEN Sync(f, editor, editor', Load(editor')) ELSE f
  /\ UNCHANGED <<entryUI, dialog, opened>>

-----------------------------------------------------------------------------
(* The deletion dialogs.                                                   *)

AskDelete(e) ==
  /\ CanAsk
  /\ Send(Request("openDelete", "read", "list", e, 0, 0))
  /\ UNCHANGED <<entryUI, editor, form, dialog, opened>>

DialogAt(m, rev) == [NoDialog EXCEPT !.open = TRUE, !.entry = m.entry, !.rev = rev]

\* ConfigurationMutationDialog keeps its own confirmation, and clears it only
\* while it is closed.
TargetsDialog(m) ==
  IF m.answer = "error" THEN {}
  ELSE {[DialogAt(m, m.at) EXCEPT !.confirmed = dialog.confirmed, !.ticked = dialog.ticked]}

\* Broken variant: the confirmation of the last dialog is still ticked.
ProfilesDialogTicked(m) ==
  IF m.answer = "error" THEN {}
  ELSE {[DialogAt(m, m.at) EXCEPT !.confirmed = dialog.confirmed, !.ticked = dialog.ticked]}

\* Profiles clears the confirmation when it opens the dialog.
ProfilesDialog(m) == IF m.answer = "error" THEN {} ELSE {DialogAt(m, m.at)}

\* So does ProjectDetail, which opens it in any case.
OverridesDialog(m) ==
  IF m.answer = "error" THEN {DialogAt(m, rev) : rev \in 0..Revision(file)} ELSE {DialogAt(m, m.at)}

DialogsFor(m) ==
  CASE screen = "targets"   -> TargetsDialog(m)
    [] screen = "profiles"  -> ProfilesDialog(m)
    [] screen = "overrides" -> OverridesDialog(m)

DeleteOpens(m) ==
  /\ Arrives(m, "openDelete")
  /\ IF DialogsFor(m) = {} THEN UNCHANGED <<dialog, opened>>
     ELSE dialog' \in DialogsFor(m) /\ opened' = opened + 1
  /\ UNCHANGED <<entryUI, editor, form>>

Tick ==
  /\ dialog.open /\ ~dialog.busy /\ ~dialog.refs
  /\ dialog' = [dialog EXCEPT !.confirmed = ~@,
                  !.ticked = IF dialog.confirmed THEN NoEntry ELSE dialog.entry]
  /\ UNCHANGED <<entryUI, editor, form, net, opened>>

ConfirmDelete ==
  /\ dialog.open /\ dialog.confirmed /\ ~dialog.busy /\ ~dialog.refs
  /\ dialog' = [dialog EXCEPT !.busy = TRUE]
  /\ Send([Request("delete", "delete", "list", dialog.entry, dialog.rev,
                   VersionAt(file, dialog.entry, dialog.rev)) EXCEPT !.ticked = dialog.ticked])
  /\ UNCHANGED <<entryUI, editor, form, opened>>

DeleteArrives(m) ==
  /\ Arrives(m, "delete")
  /\ dialog' = IF m.answer = "ok" THEN NoDialog
               ELSE [dialog EXCEPT !.busy = FALSE, !.refs = (m.answer = "referenced") \/ @]
  /\ UNCHANGED <<entryUI, editor, form, opened>>

CloseDialog ==
  /\ dialog.open /\ (dialog.busy => "close" \in Interrupts)
  /\ dialog' = IF screen = "targets"
               THEN [dialog EXCEPT !.open = FALSE, !.confirmed = FALSE, !.ticked = NoEntry]
               ELSE [dialog EXCEPT !.open = FALSE]
  /\ UNCHANGED <<entryUI, editor, form, net, opened>>

-----------------------------------------------------------------------------
(* RuntimeSettings: the reader capacity.                                   *)

settingsUI == <<file, screen, editor, form, dialog, opened, faultsLeft>>

At(rev) == [reader EXCEPT !.loaded = TRUE, !.dirty = FALSE, !.rev = rev,
            !.base = VersionAt(file, Setting, rev)]

\* A refresh after a save is waited for.
Queries == {"query", "savedQuery"}

\* refresh of useDashboardQuery: what is in flight is superseded.
Superseding(old, m) ==
  {IF q.for \in Queries THEN [q EXCEPT !.newest = FALSE] ELSE q : q \in old} \union {m}

\* The input is never disabled.
TypeReader ==
  /\ screen = "settings"
  /\ reader.saving # "" \/ reader.reloading => "type" \in Interrupts
  /\ reader' = [reader EXCEPT !.dirty = TRUE]
  /\ UNCHANGED <<settingsUI, net>>

SaveReader ==
  /\ screen = "settings" /\ reader.loaded /\ reader.saving = "" /\ ~reader.conflict
  /\ reader' = [reader EXCEPT !.saving = "sent"]
  /\ Send(Request("reader", "update", "edit", Setting, reader.rev, reader.base))
  /\ UNCHANGED settingsUI

\* saveReaderCapacity goes on; after a success it refreshes and waits for that.
ReaderSaveArrives(m) ==
  /\ m \in net /\ m.for = "reader" /\ ~Waiting(m)
  /\ IF m.answer = "ok"
       THEN /\ reader' = [At(m.at) EXCEPT !.saving = "refresh", !.conflict = FALSE]
            /\ net' = Superseding(net \ {m}, Request("savedQuery", "read", "list", Setting, 0, 0))
       ELSE /\ reader' = [reader EXCEPT !.saving = "", !.conflict = (m.answer = "conflict") \/ @]
            /\ net' = net \ {m}
  /\ UNCHANGED settingsUI

RefreshSettings ==
  /\ screen = "settings" /\ reader.loaded /\ Cardinality(net) < MaxNet
  /\ net' = Superseding(net, Request("query", "read", "list", Setting, 0, 0))
  /\ UNCHANGED <<settingsUI, reader>>

\* Broken variant: new settings replace a draft.
SettingsReplaceDraft(m) ==
  /\ Arrives(m, "query") \/ Arrives(m, "savedQuery")
  /\ LET after == IF m.newest /\ m.answer = "ok" THEN At(m.at) ELSE reader
     IN  reader' = IF m.for = "savedQuery" THEN [after EXCEPT !.saving = ""] ELSE after
  /\ UNCHANGED settingsUI

\* New settings reach the effect on [settings]: a draft keeps its revision.
SettingsArrive(m) ==
  /\ Arrives(m, "query") \/ Arrives(m, "savedQuery")
  /\ LET seen  == m.newest /\ m.answer = "ok"
         after == IF seen /\ ~reader.dirty THEN At(m.at)
                  ELSE [reader EXCEPT !.loaded = seen \/ @]
     IN  reader' = IF m.for = "savedQuery" THEN [after EXCEPT !.saving = ""] ELSE after
  /\ UNCHANGED settingsUI

ReloadReader ==
  /\ screen = "settings" /\ reader.conflict /\ ~reader.reloading
  /\ reader' = [reader EXCEPT !.reloading = TRUE]
  /\ Send(Request("readerReload", "read", "list", Setting, 0, 0))
  /\ UNCHANGED settingsUI

ReaderReloadArrives(m) ==
  /\ Arrives(m, "readerReload")
  /\ reader' = IF m.answer = "ok" THEN [At(m.at) EXCEPT !.conflict = FALSE, !.reloading = FALSE]
               ELSE [reader EXCEPT !.reloading = FALSE]
  /\ UNCHANGED settingsUI

-----------------------------------------------------------------------------
Serves(m)  == ServeRead(m) \/ ServeMutation(m)
Arrival(m) == OpenArrives(m) \/ SaveArrives(m) \/ ReloadArrives(m) \/ DeleteOpens(m)
              \/ DeleteArrives(m) \/ ReaderSaveArrives(m) \/ SettingsArrive(m)
              \/ ReaderReloadArrives(m)

Next ==
  \/ \E e \in Entries, op \in {"set", "remove"} : OtherWriter(e, op)
  \/ \E m \in net : Serves(m) \/ LoseAnswer(m) \/ RefuseToken(m) \/ Arrival(m)
  \/ \E mode \in {"create", "edit"}, e \in Entries \union {NoEntry} : AskOpen(mode, e)
  \/ \E e \in Entries : AskDelete(e)
  \/ \E e \in Entries \union {NoEntry} : Type(e)
  \/ CloseEditor \/ Save \/ Reload \/ Tick \/ ConfirmDelete \/ CloseDialog
  \/ TypeReader \/ SaveReader \/ RefreshSettings \/ ReloadReader

Spec == Init /\ [][Next]_vars

(* Requests are answered, if only with an error, and answers are handled,    *)
(* however many others are made meanwhile.                                   *)
Purposes == {"open", "save", "reload", "openDelete", "delete", "reader", "readerReload", "query",
             "savedQuery"}

Fairness ==
  \A for \in Purposes :
    /\ WF_vars(\E m \in net : m.for = for /\ Serves(m))
    /\ WF_vars(\E m \in net : m.for = for /\ Arrival(m))

FairSpec == Spec /\ Fairness

-----------------------------------------------------------------------------
(* Properties.                                                             *)

\* The type invariant.
TypeOK ==
  /\ file \in Seq(Changes) /\ screen \in Screens
  /\ editor \in Editors /\ form \in Forms /\ dialog \in Dialogs /\ reader \in Readers
  /\ opened \in 0..(MaxOpens + MaxNet) /\ faultsLeft \in 0..MaxFaults
  /\ \A m \in net : m.answer \in {"none", "ok", "error", "conflict", "referenced"}

\* Nothing is overwritten unseen: whoever changes an entry had loaded the very
\* version the change replaces, although the file changes under an open editor,
\* answers get lost and a save is repeated, and the revision of the form moves
\* with every reload (the If-Match checks of config_mutation.py together with
\* the revision TargetEditor.jsx:77 and ProfileEditor.jsx:86 keep).
NoLostUpdate ==
  \A k \in 1..Len(file) : file[k].base = VersionAt(file, file[k].entry, k - 1)

\* The revision an editor would save under is one at which its entry had the
\* content the form was loaded from, or no content at all: a form never claims
\* to know a newer version than it shows.
FormMatchesRevision ==
  /\ editor.open /\ editor.mode = "edit" => VersionAt(file, form.entry, form.rev) \in {0, form.base}
  /\ VersionAt(file, Setting, reader.rev) = reader.base

\* What an editor and the settings form believe of the file.
EditingInv == TypeOK /\ FormMatchesRevision

\* A draft disappears only when the user closes its dialog, or when its own
\* save or reload is answered; and as long as it is there, neither the content
\* nor the revision it started from is replaced (TargetEditor.jsx:60).
DraftKept ==
  [][/\ form.dirty /\ ~form'.dirty =>
          \/ editor.open /\ ~editor'.open /\ net' = net
          \/ \E m \in net \ net' : m.for \in {"save", "reload"} /\ m.asked = opened
     /\ form.dirty /\ form'.dirty => <<form'.base, form'.rev>> = <<form.base, form.rev>>
     /\ reader.dirty /\ ~reader'.dirty =>
          \E m \in net \ net' : m.for \in {"reader", "readerReload"}]_vars

\* A deletion is requested only for the entry whose confirmation was ticked, by
\* the user who saw that entry's name beside the box.
DeletesWhatWasConfirmed == \A m \in net : m.op = "delete" => m.ticked = m.entry

\* No dialog stays busy for good: after every failure, conflict and repeated
\* reload its buttons come back, and the save button of RuntimeSettings too.
BusyEnds ==
  []<>(form.busy = "" /\ ~dialog.busy /\ reader.saving = "" /\ ~reader.reloading)
=============================================================================
