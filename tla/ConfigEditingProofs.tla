------------------------- MODULE ConfigEditingProofs -------------------------
(***************************************************************************)
(* Nothing in a configuration file is overwritten unseen, and only what    *)
(* was confirmed is deleted, for any entries, any length of the file, any  *)
(* number of dialogs and requests, and any failures of the network.        *)
(*                                                                         *)
(* Both need something of the user, and say what: a deletion is the        *)
(* confirmed one unless a second dialog is asked for before the first one  *)
(* appears ("reopen"), and no update is lost unless the user also closes a *)
(* dialog that is busy ("close") or presses Reload again ("again").  TLC   *)
(* finds a lost update with each of the three.                             *)
(***************************************************************************)
EXTENDS ConfigEditing, WellFoundedInduction, TLAPS

Answers == {"none", "ok", "error", "conflict", "referenced"}
Modes   == {"create", "edit", "list"}
Named   == Entries \union {NoEntry}

Requests == [for : Purposes, op : Mutations \union {"read"}, mode : Modes, entry : Named,
             rev : Nat, base : Nat, asked : Nat, typed : Named, ticked : Named,
             newest : BOOLEAN, tries : {1, 2}, answer : Answers, at : Nat]

Opening == {"open", "openDelete"}
Writing == {"save", "reload"}

(* A request is about revisions the file has had, and a deletion is asked  *)
(* for only after its own entry was confirmed.                             *)
RequestOK(m) ==
  /\ m \in Requests
  /\ m.rev <= Len(file) /\ m.at <= Len(file)
  /\ m.for \in {"open", "reload"} => m.mode \in {"create", "edit"}
  /\ m.for = "openDelete" \/ m.op \in Mutations => m.entry \in Entries
  /\ m.op = "delete" => m.ticked = m.entry

RevisionsOK ==
  /\ editor.rev <= Len(file) /\ form.rev <= Len(file)
  /\ dialog.rev <= Len(file) /\ reader.rev <= Len(file)

(* One dialog is asked for at a time, and only while none is open.         *)
OneOpening ==
  \A m \in net : m.for \in Opening =>
    /\ screen \in EntryScreens /\ ~editor.open /\ ~dialog.open /\ opened < MaxOpens
    /\ \A n \in net : n.for \in Opening => n = m

(* What is ticked in the dialog is the box of its own entry.               *)
DialogOK ==
  /\ dialog.open => /\ dialog.entry \in Entries
                    /\ dialog.confirmed => dialog.ticked = dialog.entry
  /\ screen = "targets" /\ ~dialog.open => ~dialog.confirmed

ReaderOK == VersionAt(file, Setting, reader.rev) = reader.base

(* What the dialogs rest on; it needs that no second one is asked for.     *)
DInv == /\ TypeOK /\ opened <= MaxOpens
        /\ \A m \in net : RequestOK(m)
        /\ RevisionsOK /\ OneOpening /\ DialogOK /\ ReaderOK

(* The author of a mutation had loaded what is there at the revision it    *)
(* names, if anything is.                                                  *)
MutationOK(m) ==
  /\ m.op = "create" => m.base = 0
  /\ m.op = "update" => VersionAt(file, m.entry, m.rev) \in {0, m.base}
  /\ m.op = "delete" => VersionAt(file, m.entry, m.rev) = m.base

EditorOK == editor.mode = "edit" => VersionAt(file, editor.entry, editor.rev) \in {0, editor.base}
FormOK == editor.open /\ editor.mode = "edit" => VersionAt(file, form.entry, form.rev) \in {0, form.base}

(* A save or reload in flight is the only one, and is about the editor     *)
(* that is open.                                                           *)
OneWriting ==
  \A m \in net : m.for \in Writing =>
    /\ editor.open /\ form.busy # "" /\ m.mode = editor.mode /\ m.asked = opened
    /\ m.for = "reload" => m.entry = editor.entry
    /\ \A n \in net : n.for \in Writing => n = m

FormFlags ==
  /\ ~editor.open => ~form.dirty /\ form.busy = ""
  /\ form.busy = "saving" => ~form.conflict

(* What the editors rest on.                                               *)
EInv == /\ \A m \in net : MutationOK(m)
        /\ NoLostUpdate /\ EditorOK /\ FormOK /\ OneWriting /\ FormFlags

-----------------------------------------------------------------------------
(* The content of an entry at a revision.                                  *)

LEMMA LeastNatural ==
  ASSUME NEW T, T \subseteq Nat, T # {}
  PROVE  \E x \in T : \A y \in T : x <= y
<1>1. PICK x \in T : \A y \in T : ~(<<y, x>> \in OpToRel(<, Nat))
  BY NatLessThanWellFounded, WFMin
<1>2. ASSUME NEW y \in T PROVE x <= y
  <2>1. ~(<<y, x>> \in {ss \in Nat \X Nat : ss[1] < ss[2]})
    BY <1>1 DEF OpToRel
  <2>2. x \in Nat /\ y \in Nat /\ <<y, x>> \in Nat \X Nat
    OBVIOUS
  <2>3. ~(y < x)
    BY <2>1, <2>2
  <2> QED
    BY <2>2, <2>3
<1> QED
  BY <1>2

LEMMA MaxInSet ==
  ASSUME NEW n \in Nat, NEW S, S \subseteq 1..n, S # {}
  PROVE  Max(S) \in S
<1> DEFINE T == {i \in 0..n : n - i \in S}
<1>1. T \subseteq Nat /\ T # {}
  <2>1. PICK x : x \in S
    OBVIOUS
  <2>2. x \in 1..n
    BY <2>1
  <2>3. n - x \in 0..n /\ n - (n - x) = x
    BY <2>2
  <2>4. n - x \in T
    BY <2>1, <2>3
  <2> QED
    BY <2>4
<1>2. PICK i \in T : \A j \in T : i <= j
  <2> HIDE DEF T
  <2> QED
    BY <1>1, LeastNatural
<1>3. \A y \in S : n - i >= y
  <2> TAKE y \in S
  <2>1. y \in 1..n /\ n - (n - y) = y /\ n - y \in 0..n
    OBVIOUS
  <2>2. i <= n - y
    BY <1>2, <2>1
  <2> QED
    BY <2>1, <2>2
<1>4. n - i \in S
  BY <1>2
<1> QED
  BY <1>3, <1>4 DEF Max

LEMMA VersionTyped ==
  ASSUME NEW f, NEW e, NEW rev \in Nat
  PROVE  VersionAt(f, e, rev) \in Nat /\ VersionAt(f, e, 0) = 0
<1> DEFINE mine == {k \in 1..rev : f[k].entry = e}
<1>1. mine # {} => Max(mine) \in mine
  BY MaxInSet
<1>2. VersionAt(f, e, rev) \in Nat
  BY <1>1 DEF VersionAt
<1>3. VersionAt(f, e, 0) = 0
  BY DEF VersionAt
<1> QED
  BY <1>2, <1>3

(* It never changes afterwards.                                            *)
LEMMA VersionStable ==
  ASSUME NEW f \in Seq(Changes), NEW c \in Changes, NEW e,
         NEW rev \in Nat, rev <= Len(f)
  PROVE  VersionAt(Append(f, c), e, rev) = VersionAt(f, e, rev)
<1> DEFINE g == Append(f, c)
           mine == {k \in 1..rev : f[k].entry = e}
<1>1. \A k \in 1..rev : g[k] = f[k]
  OBVIOUS
<1> HIDE DEF g
<1>2. {k \in 1..rev : g[k].entry = e} = mine
  BY <1>1
<1>3. mine # {} => Max(mine) \in 1..rev
  BY MaxInSet
<1>4. VersionAt(g, e, rev) = VersionAt(f, e, rev)
  BY <1>1, <1>2, <1>3 DEF VersionAt
<1> QED
  BY <1>4 DEF g

(* The file is left alone, or one change is made.                          *)
Grows == file' = file \/ \E c \in Changes : file' = Append(file, c)

LEMMA GrowsKeeps ==
  ASSUME file \in Seq(Changes), Grows
  PROVE  /\ file' \in Seq(Changes)
         /\ Len(file) \in Nat /\ Len(file') \in Nat /\ Len(file) <= Len(file')
         /\ \A e : \A rev \in Nat : rev <= Len(file) =>
              VersionAt(file', e, rev) = VersionAt(file, e, rev)
<1>1. CASE file' = file
  BY <1>1
<1>2. ASSUME NEW c \in Changes, file' = Append(file, c)
      PROVE  /\ file' \in Seq(Changes) /\ Len(file') = Len(file) + 1
             /\ \A e : \A rev \in Nat : rev <= Len(file) =>
                  VersionAt(file', e, rev) = VersionAt(file, e, rev)
  BY <1>2, VersionStable
<1> QED
  BY <1>1, <1>2 DEF Grows

-----------------------------------------------------------------------------
(* The requests.                                                           *)

(* The same request, at another stage of its way.                          *)
Same(q, m) ==
  /\ q.for = m.for /\ q.op = m.op /\ q.mode = m.mode /\ q.entry = m.entry /\ q.rev = m.rev
  /\ q.base = m.base /\ q.asked = m.asked /\ q.typed = m.typed /\ q.ticked = m.ticked

LEMMA RequestTyped ==
  ASSUME NEW m \in Requests
  PROVE  /\ m.for \in Purposes /\ m.op \in Mutations \union {"read"} /\ m.mode \in Modes
         /\ m.entry \in Named /\ m.rev \in Nat /\ m.base \in Nat /\ m.asked \in Nat
         /\ m.typed \in Named /\ m.ticked \in Named /\ m.tries \in {1, 2}
         /\ m.answer \in Answers /\ m.at \in Nat
BY DEF Requests

LEMMA Answered ==
  ASSUME NEW m \in Requests, NEW a \in Answers, NEW n \in Nat
  PROVE  /\ [m EXCEPT !.answer = a, !.at = n] \in Requests
         /\ Same([m EXCEPT !.answer = a, !.at = n], m)
         /\ [m EXCEPT !.answer = a, !.at = n].at = n
BY DEF Requests, Same

LEMMA Refused ==
  ASSUME NEW m \in Requests
  PROVE  /\ [m EXCEPT !.tries = 2] \in Requests /\ Same([m EXCEPT !.tries = 2], m)
         /\ [m EXCEPT !.tries = 2].at = m.at
         /\ [m EXCEPT !.answer = "error"] \in Requests /\ Same([m EXCEPT !.answer = "error"], m)
         /\ [m EXCEPT !.answer = "error"].at = m.at
         /\ [m EXCEPT !.newest = FALSE] \in Requests /\ Same([m EXCEPT !.newest = FALSE], m)
         /\ [m EXCEPT !.newest = FALSE].at = m.at
BY DEF Requests, Same, Answers

LEMMA NewRequest ==
  ASSUME opened \in Nat, NEW for \in Purposes, NEW op \in Mutations \union {"read"},
         NEW mode \in Modes, NEW e \in Named, NEW rev \in Nat, NEW base \in Nat,
         NEW r, r = Request(for, op, mode, e, rev, base)
  PROVE  /\ r \in Requests /\ r.for = for /\ r.op = op /\ r.mode = mode /\ r.entry = e
         /\ r.rev = rev /\ r.base = base /\ r.asked = opened /\ r.at = 0
BY DEF Requests, Request, Named, Answers

(* What a reload and a deletion capture besides.                           *)
LEMMA Captured ==
  ASSUME NEW r \in Requests, NEW t \in Named,
         NEW q, q = [r EXCEPT !.typed = t] \/ q = [r EXCEPT !.ticked = t]
  PROVE  /\ q \in Requests /\ q.for = r.for /\ q.op = r.op /\ q.mode = r.mode /\ q.entry = r.entry
         /\ q.rev = r.rev /\ q.base = r.base /\ q.asked = r.asked /\ q.at = r.at
         /\ q = [r EXCEPT !.ticked = t] => q.ticked = t
<1>1. CASE q = [r EXCEPT !.typed = t]
  <2>1. q = [r EXCEPT !.ticked = t] => q.ticked = t
    BY DEF Requests
  <2> QED
    BY <1>1, <2>1 DEF Requests
<1>2. CASE q = [r EXCEPT !.ticked = t]
  BY <1>2 DEF Requests
<1> QED
  BY <1>1, <1>2

LEMMA RequestKeeps ==
  ASSUME file \in Seq(Changes), Grows, NEW m, RequestOK(m), NEW q \in Requests, Same(q, m),
         q.at <= Len(file')
  PROVE  RequestOK(q)'
<1>1. m \in Requests /\ m.rev \in Nat /\ q.rev = m.rev
  BY RequestTyped DEF RequestOK, Same
<1>2. q.rev <= Len(file')
  BY <1>1, GrowsKeeps DEF RequestOK
<1> QED
  BY <1>2 DEF RequestOK, Same

(* Requests in flight are left alone or forgotten.                         *)
LEMMA RequestsStay ==
  ASSUME file \in Seq(Changes), Grows, NEW m, RequestOK(m)
  PROVE  RequestOK(m)'
<1>1. m \in Requests /\ m.rev \in Nat /\ m.at \in Nat
  BY RequestTyped DEF RequestOK
<1>2. m.rev <= Len(file') /\ m.at <= Len(file')
  BY <1>1, GrowsKeeps DEF RequestOK
<1> QED
  BY <1>1, <1>2 DEF RequestOK

-----------------------------------------------------------------------------
(* The server, the network and other writers.                              *)

(* One request at most has come further.                                   *)
NetServed ==
  \/ net' = net
  \/ \E m \in net, q \in Requests :
       Same(q, m) /\ q.at <= Len(file') /\ net' = (net \ {m}) \union {q}

UI == <<screen, editor, form, dialog, reader, opened>>

LEMMA DInvFacts ==
  ASSUME DInv
  PROVE  /\ file \in Seq(Changes) /\ Len(file) \in Nat /\ opened \in Nat
         /\ MaxChanges \in Nat /\ MaxOpens \in Nat /\ MaxNet \in Nat /\ MaxFaults \in Nat
         /\ editor \in Editors /\ form \in Forms /\ dialog \in Dialogs /\ reader \in Readers
         /\ screen \in Screens /\ faultsLeft \in 0..MaxFaults
         /\ \A m \in net : RequestOK(m) /\ m \in Requests
BY EditingConstants DEF DInv, TypeOK, RequestOK

LEMMA ServedStep ==
  ASSUME DInv, NEW m \in net, NEW a \in Answers, NEW n \in Nat, n <= Len(file'),
         net' = Served(m, a, n)
  PROVE  NetServed
<1>1. m \in Requests
  BY DInvFacts
<1> DEFINE q == [m EXCEPT !.answer = a, !.at = n]
<1>2. net' = (net \ {m}) \union {q}
  BY DEF Served
<1>3. q \in Requests /\ Same(q, m) /\ q.at = n
  BY <1>1, Answered
<1> HIDE DEF q
<1> QED
  BY <1>2, <1>3 DEF NetServed

LEMMA ServeMutationStep ==
  ASSUME DInv, NEW m \in net, ServeMutation(m)
  PROVE  \E a \in Answers :
           /\ a \in CASE m.op = "create" -> CreateAnswers(file, m)
                      [] m.op = "update" -> UpdateAnswers(file, m)
                      [] m.op = "delete" -> DeleteAnswers(file, m)
           /\ file' = IF a = "ok" THEN Changed(file, m) ELSE file
           /\ net' = Served(m, a, Len(file'))
<1>1. PICK a : /\ a \in CASE m.op = "create" -> CreateAnswers(file, m)
                           [] m.op = "update" -> UpdateAnswers(file, m)
                           [] m.op = "delete" -> DeleteAnswers(file, m)
               /\ file' = IF a = "ok" THEN Changed(file, m) ELSE file
               /\ net' = Served(m, a, Revision(file'))
  BY DEF ServeMutation
<1>2. m.op = "create" \/ m.op = "update" \/ m.op = "delete"
  BY DEF ServeMutation, Mutations
<1>3. a \in CreateAnswers(file, m) \/ a \in UpdateAnswers(file, m) \/ a \in DeleteAnswers(file, m)
  BY <1>1, <1>2
<1>4. a \in Answers
  BY <1>3 DEF CreateAnswers, UpdateAnswers, DeleteAnswers, Answers
<1> QED
  BY <1>1, <1>4 DEF Revision

LEMMA ServerStep ==
  ASSUME DInv, NEW m \in net, Serves(m) \/ LoseAnswer(m) \/ RefuseToken(m)
  PROVE  UNCHANGED UI /\ Grows /\ NetServed /\ faultsLeft' \in 0..MaxFaults
<1>1. UNCHANGED UI
  BY DEF Serves, ServeRead, ServeMutation, LoseAnswer, RefuseToken, UI
<1>2. faultsLeft' \in 0..MaxFaults
  <2>1. faultsLeft \in 0..MaxFaults /\ MaxFaults \in Nat
    BY DInvFacts
  <2>2. faultsLeft' = faultsLeft \/ (faultsLeft > 0 /\ faultsLeft' = faultsLeft - 1)
    BY DEF Serves, ServeRead, ServeMutation, LoseAnswer, RefuseToken, Fault
  <2> QED
    BY <2>1, <2>2
<1>3. CASE ServeRead(m)
  <2>1. file' = file /\ (net' = Served(m, "error", 0) \/ net' = Served(m, "ok", Len(file)))
    BY <1>3 DEF ServeRead, Revision
  <2> QED
    BY <1>1, <1>2, <2>1, DInvFacts, ServedStep DEF Grows, Answers
<1>4. CASE ServeMutation(m)
  <2>1. PICK a \in Answers : /\ file' = IF a = "ok" THEN Changed(file, m) ELSE file
                             /\ net' = Served(m, a, Len(file'))
    BY <1>4, ServeMutationStep
  <2>2. m.op \in Mutations
    BY <1>4 DEF ServeMutation
  <2>3. m.entry \in Entries /\ m.base \in Nat
    BY <2>2, DInvFacts, RequestTyped DEF RequestOK
  <2>4. Grows
    BY <2>1, <2>3 DEF Grows, Changed, Changes
  <2>5. Len(file') \in Nat
    BY <2>4, DInvFacts, GrowsKeeps
  <2>6. NetServed
    BY <2>1, <2>5, ServedStep
  <2> QED
    BY <1>1, <1>2, <2>4, <2>6
<1>5. CASE LoseAnswer(m)
  <2>1. file' = file /\ net' = Served(m, "error", 0)
    BY <1>5 DEF LoseAnswer
  <2> QED
    BY <1>1, <1>2, <2>1, DInvFacts, ServedStep DEF Grows, Answers
<1>6. CASE RefuseToken(m)
  <2>1. file' = file /\ m.at <= Len(file) /\ m \in Requests
    BY <1>6, DInvFacts DEF RefuseToken, RequestOK
  <2>2. net' = (net \ {m}) \union {[m EXCEPT !.tries = 2]}
        \/ net' = (net \ {m}) \union {[m EXCEPT !.answer = "error"]}
    BY <1>6 DEF RefuseToken
  <2> QED
    BY <1>1, <1>2, <2>1, <2>2, Refused DEF Grows, NetServed
<1> QED
  BY <1>3, <1>4, <1>5, <1>6 DEF Serves

LEMMA OtherWriterStep ==
  ASSUME DInv, NEW e \in Entries, NEW op \in {"set", "remove"}, OtherWriter(e, op)
  PROVE  UNCHANGED UI /\ Grows /\ NetServed /\ faultsLeft' \in 0..MaxFaults
<1>1. Version(file, e) \in Nat
  BY DInvFacts, VersionTyped DEF Version, Revision
<1>2. UNCHANGED UI /\ net' = net /\ faultsLeft' = faultsLeft
      /\ file' = Append(file, [entry |-> e, op |-> op, base |-> Version(file, e)])
  BY DEF OtherWriter, UI
<1> QED
  BY <1>1, <1>2, DInvFacts DEF Grows, NetServed, Changes

LEMMA ServerKeepsDInv ==
  ASSUME DInv, UNCHANGED UI, Grows, NetServed, faultsLeft' \in 0..MaxFaults
  PROVE  DInv'
<1>1. /\ file' \in Seq(Changes)
      /\ Len(file) \in Nat /\ Len(file') \in Nat /\ Len(file) <= Len(file')
      /\ \A e : \A rev \in Nat : rev <= Len(file) =>
           VersionAt(file', e, rev) = VersionAt(file, e, rev)
  BY DInvFacts, GrowsKeeps
<1>2. ASSUME NEW q \in net' PROVE RequestOK(q)'
  <2>1. CASE q \in net
    BY <2>1, DInvFacts, RequestsStay
  <2>2. CASE q \notin net
    <3>1. PICK m \in net : Same(q, m) /\ q \in Requests /\ q.at <= Len(file')
      BY <1>2, <2>2 DEF NetServed
    <3> QED
      BY <3>1, DInvFacts, RequestKeeps
  <2> QED
    BY <2>1, <2>2
<1>3. OneOpening'
  BY DEF NetServed, OneOpening, DInv, Same, UI
<1>4. RevisionsOK' /\ ReaderOK'
  <2>1. /\ editor.rev \in Nat /\ form.rev \in Nat /\ dialog.rev \in Nat /\ reader.rev \in Nat
    BY DInvFacts DEF Editors, Forms, Dialogs, Readers
  <2> QED
    BY <1>1, <2>1 DEF DInv, RevisionsOK, ReaderOK, UI
<1>5. DialogOK' /\ (opened <= MaxOpens)'
  BY DEF DInv, DialogOK, UI
<1>6. TypeOK'
  <2>1. \A q \in net' : q.answer \in Answers
    BY <1>2, RequestTyped DEF RequestOK
  <2> QED
    BY <1>1, <2>1 DEF DInv, TypeOK, UI, Answers
<1> QED
  BY <1>2, <1>3, <1>4, <1>5, <1>6 DEF DInv

-----------------------------------------------------------------------------
(* The web client's steps leave the file alone.                            *)

LEMMA ClientKeepsDInv ==
  ASSUME DInv, UNCHANGED <<file, screen, faultsLeft>>,
         editor' \in Editors, form' \in Forms, dialog' \in Dialogs, reader' \in Readers,
         opened' \in Nat, opened' <= MaxOpens,
         RevisionsOK', OneOpening', DialogOK', ReaderOK',
         \A q \in net' : q \in net \/ RequestOK(q)
  PROVE  DInv'
<1>1. \A q \in net' : RequestOK(q) /\ RequestOK(q)' /\ q.answer \in Answers
  BY DInvFacts, RequestTyped DEF RequestOK
<1> QED
  BY <1>1, DInvFacts DEF DInv, TypeOK, Answers

(* No dialog is asked for or opened.                                       *)
LEMMA OpeningKeeps ==
  ASSUME DInv, UNCHANGED <<screen, opened>>,
         \A q \in net' : q \in net \/ q.for \notin Opening,
         editor'.open => editor.open, dialog'.open => dialog.open
  PROVE  OneOpening'
BY DEF DInv, OneOpening

LEMMA LoadTyped ==
  ASSUME NEW ed \in Editors
  PROVE  /\ Load(ed) \in Forms /\ Load(ed).rev = ed.rev
         /\ ~Load(ed).dirty /\ Load(ed).busy = "" /\ ~Load(ed).conflict
         /\ ed.mode = "edit" => Load(ed).entry = ed.entry /\ Load(ed).base = ed.base
BY DEF Load, TargetForm, ProfileForm, EmptyForm, Editors, Forms

LEMMA SyncTyped ==
  ASSUME NEW f \in Forms, NEW fresh \in Forms, NEW old, NEW new, NEW n, f.rev <= n, fresh.rev <= n
  PROVE  Sync(f, old, new, fresh) \in Forms /\ Sync(f, old, new, fresh).rev <= n
BY DEF Sync, Forms

LEMMA ReloadedTyped ==
  ASSUME NEW f \in Forms, NEW mode, NEW e \in Named, NEW v \in Nat, NEW rev \in Nat, NEW n,
         f.rev <= n, rev <= n
  PROVE  Reloaded(f, mode, e, v, rev) \in Forms /\ Reloaded(f, mode, e, v, rev).rev <= n
BY DEF Reloaded, Forms, Named, EmptyForm

LEMMA NamesTyped ==
  ASSUME DInv, NEW e \in Names(editor, form)
  PROVE  e \in Named
BY DInvFacts DEF Names, Named, Forms

LEMMA EditorKeepsDInv ==
  ASSUME DInv, CloseEditor \/ (\E e \in Named : Type(e)) \/ Save \/ Reload
  PROVE  DInv'
<1>1. /\ UNCHANGED <<file, screen, reader, faultsLeft, dialog, opened>>
  BY DEF CloseEditor, Type, Save, Reload, entryUI
<1>2. /\ editor' \in Editors /\ editor'.rev = editor.rev /\ (editor'.open => editor.open)
      /\ editor'.entry = editor.entry /\ editor'.mode = editor.mode
  BY DInvFacts DEF CloseEditor, Type, Save, Reload, Editors
<1>3. /\ editor.rev <= Len(file) /\ form.rev <= Len(file) /\ form \in Forms /\ editor \in Editors
  BY DInvFacts DEF DInv, RevisionsOK
<1>4. form' \in Forms /\ form'.rev <= Len(file)
  <2>1. CASE CloseEditor
    <3>1. form' = Sync(form, editor, editor', Load(editor'))
      BY <2>1 DEF CloseEditor
    <3> QED
      BY <3>1, <1>2, <1>3, LoadTyped, SyncTyped
  <2>2. ASSUME NEW e \in Named, Type(e) PROVE form' \in Forms /\ form'.rev <= Len(file)
    BY <1>3, <2>2 DEF Type, EditField, Forms, Named
  <2>3. CASE Save \/ Reload
    BY <1>3, <2>3 DEF Save, Reload, Forms
  <2> QED
    BY <2>1, <2>2, <2>3
<1>5. \A q \in net' : q \in net \/ (RequestOK(q) /\ q.for \notin Opening)
  <2>1. CASE Save
    <3>1. PICK op, mode, e, rev, base :
            /\ op = (IF editor.mode = "create" THEN "create" ELSE "update")
            /\ mode = editor.mode /\ e = form.entry /\ rev = form.rev
            /\ base = (IF editor.mode = "create" THEN 0 ELSE form.base)
            /\ net' = net \union {Request("save", op, mode, e, rev, base)}
      BY <2>1 DEF Save, Submission, Send
    <3>2. /\ op \in {"create", "update"} /\ e \in Entries /\ rev \in Nat /\ mode \in Modes
          /\ base \in Nat
      BY <1>3, <2>1, <3>1 DEF Save, CanSubmit, Forms, Editors, Modes
    <3>3. PICK q : q = Request("save", op, mode, e, rev, base)
      OBVIOUS
    <3>4. /\ opened \in Nat /\ "save" \in Purposes /\ op \in Mutations \union {"read"}
          /\ e \in Named
      BY <3>2, DInvFacts DEF Purposes, Mutations, Named
    <3>5. /\ q \in Requests /\ q.for = "save" /\ q.op = op /\ q.entry = e
          /\ q.rev = rev /\ q.at = 0
      BY <3>2, <3>3, <3>4, NewRequest
    <3>6. Len(file) \in Nat
      BY DInvFacts
    <3>7. RequestOK(q) /\ q.for \notin Opening
      BY <3>1, <3>2, <3>5, <3>6, <1>3 DEF RequestOK, Opening
    <3> QED
      BY <3>1, <3>3, <3>7
  <2>2. CASE Reload
    <3>1. PICK mode, e, t : mode = editor.mode /\ e = editor.entry /\ t = form.entry
      OBVIOUS
    <3>1a. PICK r : r = Request("reload", "read", mode, e, 0, 0)
      OBVIOUS
    <3>1b. PICK q : q = [r EXCEPT !.typed = t] /\ net' = net \union {q}
      BY <2>2, <3>1, <3>1a DEF Reload, Send
    <3>2. mode \in {"create", "edit"} /\ mode \in Modes /\ e \in Named /\ t \in Named
      BY <1>3, <3>1 DEF Editors, Forms, Named, Modes
    <3>3. opened \in Nat /\ "reload" \in Purposes /\ "read" \in Mutations \union {"read"} /\ 0 \in Nat
      BY DInvFacts DEF Purposes
    <3>4. /\ q \in Requests /\ q.for = "reload" /\ q.op = "read" /\ q.mode = mode
          /\ q.rev = 0 /\ q.at = 0
      BY <3>2, <3>3, <3>1a, <3>1b, NewRequest, Captured
    <3>5. Len(file) \in Nat
      BY DInvFacts
    <3>6. RequestOK(q) /\ q.for \notin Opening
      BY <3>2, <3>4, <3>5 DEF RequestOK, Opening, Mutations
    <3> QED
      BY <3>1b, <3>6
  <2>3. CASE CloseEditor \/ \E e \in Named : Type(e)
    BY <2>3 DEF CloseEditor, Type
  <2> QED
    BY <2>1, <2>2, <2>3
<1>6. OneOpening'
  BY <1>1, <1>2, <1>5, OpeningKeeps
<1>7. RevisionsOK' /\ DialogOK' /\ ReaderOK'
  BY <1>1, <1>2, <1>4 DEF DInv, RevisionsOK, DialogOK, ReaderOK
<1> QED
  BY <1>1, <1>2, <1>4, <1>5, <1>6, <1>7, ClientKeepsDInv, DInvFacts DEF DInv

LEMMA EditorAnsweredKeepsDInv ==
  ASSUME DInv, NEW m \in net, SaveArrives(m) \/ ReloadArrives(m)
  PROVE  DInv'
<1>1. UNCHANGED <<file, screen, reader, faultsLeft, dialog, opened>> /\ net' = net \ {m}
  BY DEF SaveArrives, ReloadArrives, Arrives, entryUI
<1>2. /\ editor \in Editors /\ form \in Forms /\ m \in Requests /\ RequestOK(m)
      /\ m.entry \in Named /\ m.typed \in Named /\ m.at \in Nat /\ m.at <= Len(file)
      /\ editor.rev <= Len(file) /\ form.rev <= Len(file)
  BY DInvFacts, RequestTyped DEF DInv, RevisionsOK, RequestOK
<1>3. /\ editor' \in Editors /\ editor'.rev <= Len(file) /\ (editor'.open => editor.open)
      /\ form' \in Forms /\ form'.rev <= Len(file)
  <2>1. CASE SaveArrives(m) /\ m.answer = "ok"
    <3>1. /\ editor' = [editor EXCEPT !.open = FALSE]
          /\ form' = Sync([form EXCEPT !.dirty = FALSE], editor, editor', Load(editor'))
      BY <2>1 DEF SaveArrives
    <3>2. editor' \in Editors /\ editor'.rev <= Len(file) /\ ~editor'.open
      BY <1>2, <3>1 DEF Editors
    <3>3. [form EXCEPT !.dirty = FALSE] \in Forms /\ [form EXCEPT !.dirty = FALSE].rev <= Len(file)
      BY <1>2 DEF Forms
    <3> QED
      BY <3>1, <3>2, <3>3, LoadTyped, SyncTyped
  <2>2. CASE SaveArrives(m) /\ m.answer # "ok"
    BY <1>2, <2>2 DEF SaveArrives, Rejected, Forms
  <2>3. CASE ReloadArrives(m)
    <3>1. PICK rev \in Nat, e \in Named : /\ rev = IF m.answer = "ok" THEN m.at ELSE 0
                                          /\ e = IF m.mode = "edit" THEN m.entry ELSE m.typed
      BY <1>2
    <3>2. PICK v \in Nat : v = VersionAt(file, e, rev)
      BY VersionTyped
    <3>3. PICK f \in Forms : f = Reloaded(form, m.mode, e, v, rev) /\ f.rev <= Len(file)
      <4>1. rev <= Len(file)
        BY <1>2, <3>1, DInvFacts
      <4> QED
        BY <1>2, <3>1, <3>2, <4>1, ReloadedTyped
    <3>4. /\ editor' = ReloadedEditor(m, rev)
          /\ form' = IF editor' # editor \/ (m.mode = "edit" /\ v # 0)
                     THEN Sync(f, editor, editor', Load(editor')) ELSE f
      BY <2>3, <3>1, <3>2, <3>3 DEF ReloadArrives
    <3>5. editor' \in Editors /\ editor'.rev <= Len(file) /\ editor'.open = editor.open
      <4>1. VersionAt(file, m.entry, rev) \in Nat
        BY VersionTyped
      <4> QED
        BY <1>2, <3>1, <3>4, <4>1 DEF ReloadedEditor, Editors, Named
    <3> QED
      BY <3>3, <3>4, <3>5, LoadTyped, SyncTyped
  <2> QED
    BY <2>1, <2>2, <2>3
<1>4. OneOpening'
  BY <1>1, <1>3, OpeningKeeps
<1>5. RevisionsOK' /\ DialogOK' /\ ReaderOK'
  BY <1>1, <1>3 DEF DInv, RevisionsOK, DialogOK, ReaderOK
<1> QED
  BY <1>1, <1>3, <1>4, <1>5, ClientKeepsDInv, DInvFacts DEF DInv

(* Opening: the answer opens what was asked for, nothing else is asked.    *)
LEMMA OpenedTyped ==
  ASSUME NEW m \in Requests, m.mode \in {"create", "edit"}, NEW rev \in Nat
  PROVE  /\ OpenedAt(m, rev) \in Editors /\ OpenedAt(m, rev).rev = rev /\ OpenedAt(m, rev).open
         /\ OpenedAt(m, rev).mode = m.mode /\ OpenedAt(m, rev).entry = m.entry
         /\ m.mode = "edit" => OpenedAt(m, rev).base = VersionAt(file, m.entry, rev)
<1>1. VersionAt(file, m.entry, rev) \in Nat
  BY VersionTyped
<1>2. m.entry \in Named
  BY RequestTyped
<1> QED
  BY <1>1, <1>2 DEF OpenedAt, Editors, Named

LEMMA EditorOpened ==
  ASSUME DInv, NEW m \in net, m.for = "open", NEW ed \in EditorsFor(m)
  PROVE  \E rev \in 0..Len(file) :
           ed = OpenedAt(m, rev) /\ (m.mode # "create" => rev = m.at)
<1>1. m.at \in 0..Len(file) /\ m.mode \in {"create", "edit"} /\ 0 \in 0..Len(file)
  BY DInvFacts, RequestTyped DEF RequestOK
<1>2. screen = "targets" \/ screen = "profiles" \/ screen = "overrides"
  BY DEF DInv, OneOpening, Opening, EntryScreens
<1>3. ed \in TargetsOpen(m) \/ ed \in ProfilesOpen(m) \/ ed \in OverridesOpen(m)
  BY <1>2 DEF EditorsFor
<1> QED
  BY <1>1, <1>3 DEF TargetsOpen, ProfilesOpen, OverridesOpen, Revision

LEMMA AskKeepsDInv ==
  ASSUME DInv, "reopen" \notin Interrupts,
         \/ \E mode \in {"create", "edit"}, e \in Named : AskOpen(mode, e)
         \/ \E e \in Entries : AskDelete(e)
  PROVE  DInv'
<1>1. CanAsk /\ UNCHANGED <<file, screen, reader, faultsLeft, editor, form, dialog, opened>>
  BY DEF AskOpen, AskDelete, entryUI
<1>2. \A n \in net : n.for \notin Opening
  BY <1>1 DEF CanAsk, Opening
<1>3. PICK for \in Opening, mode \in Modes, e \in Named :
        /\ net' = net \union {Request(for, "read", mode, e, 0, 0)}
        /\ for = "open" => mode \in {"create", "edit"}
        /\ for = "openDelete" => e \in Entries
  <2>1. ASSUME NEW mode \in {"create", "edit"}, NEW e \in Named, AskOpen(mode, e)
        PROVE  net' = net \union {Request("open", "read", mode, e, 0, 0)}
    BY <2>1 DEF AskOpen, Send
  <2>2. ASSUME NEW e \in Entries, AskDelete(e)
        PROVE  net' = net \union {Request("openDelete", "read", "list", e, 0, 0)}
    BY <2>2 DEF AskDelete, Send
  <2> QED
    BY <2>1, <2>2 DEF Opening, Modes, Named
<1>4. PICK q : q = Request(for, "read", mode, e, 0, 0)
  OBVIOUS
<1>5. /\ q \in Requests /\ q.for = for /\ q.op = "read" /\ q.mode = mode /\ q.entry = e
      /\ q.rev = 0 /\ q.at = 0
  <2>1. opened \in Nat /\ for \in Purposes /\ "read" \in Mutations \union {"read"} /\ 0 \in Nat
    BY DInvFacts DEF Purposes, Opening
  <2> QED
    BY <1>3, <1>4, <2>1, NewRequest
<1>6. RequestOK(q)
  <2>1. Len(file) \in Nat
    BY DInvFacts
  <2> QED
    BY <1>3, <1>5, <2>1 DEF RequestOK, Mutations, Opening
<1>7. OneOpening'
  BY <1>1, <1>2, <1>3, <1>4 DEF OneOpening, CanAsk
<1>8. RevisionsOK' /\ DialogOK' /\ ReaderOK'
  BY <1>1 DEF DInv, RevisionsOK, DialogOK, ReaderOK
<1> QED
  BY <1>1, <1>3, <1>4, <1>6, <1>7, <1>8, ClientKeepsDInv, DInvFacts DEF DInv

LEMMA OpenArrivesKeepsDInv ==
  ASSUME DInv, NEW m \in net, OpenArrives(m)
  PROVE  DInv'
<1>1. UNCHANGED <<file, screen, reader, faultsLeft, dialog>> /\ net' = net \ {m} /\ m.for = "open"
  BY DEF OpenArrives, Arrives, entryUI
<1>2. OneOpening' /\ opened + 1 <= MaxOpens
  <2>1. opened < MaxOpens /\ \A n \in net : n.for \in Opening => n = m
    BY <1>1 DEF DInv, OneOpening, Opening
  <2>2. \A n \in net' : n.for \notin Opening
    BY <1>1, <2>1
  <2>3. opened \in Nat /\ MaxOpens \in Nat
    BY DInvFacts
  <2> QED
    BY <2>1, <2>2, <2>3 DEF OneOpening
<1>3. RevisionsOK /\ Len(file) \in Nat
  BY DInvFacts DEF DInv
<1>4. /\ editor' \in Editors /\ editor'.rev <= Len(file)
      /\ form' \in Forms /\ form'.rev <= Len(file)
      /\ opened' = opened \/ opened' = opened + 1
  <2>1. CASE UNCHANGED <<editor, form, opened>>
    BY <1>3, <2>1, DInvFacts DEF RevisionsOK
  <2>2. CASE /\ editor' \in EditorsFor(m) /\ form' = Sync(form, editor, editor', Load(editor'))
             /\ opened' = opened + 1
    <3>1. PICK ed : ed = editor' /\ ed \in EditorsFor(m)
      BY <2>2
    <3>2. PICK rev \in 0..Len(file) : ed = OpenedAt(m, rev)
      BY <1>1, <3>1, EditorOpened
    <3>3. m \in Requests /\ m.mode \in {"create", "edit"} /\ rev \in Nat
      BY <1>1, <1>3, <3>2, DInvFacts DEF RequestOK
    <3>4. ed \in Editors /\ ed.rev = rev /\ rev <= Len(file)
      BY <1>3, <3>2, <3>3, OpenedTyped
    <3>5. Load(ed) \in Forms /\ Load(ed).rev <= Len(file)
      BY <3>4, LoadTyped
    <3>6. form \in Forms /\ form.rev <= Len(file)
      BY <1>3, DInvFacts DEF RevisionsOK
    <3> QED
      BY <2>2, <3>1, <3>4, <3>5, <3>6, SyncTyped
  <2> QED
    BY <2>1, <2>2 DEF OpenArrives
<1>5. RevisionsOK' /\ DialogOK' /\ ReaderOK'
  BY <1>1, <1>3, <1>4 DEF DInv, RevisionsOK, DialogOK, ReaderOK
<1>6. opened' \in Nat /\ opened' <= MaxOpens
  BY <1>2, <1>4, DInvFacts DEF DInv
<1> QED
  BY <1>1, <1>2, <1>4, <1>5, <1>6, ClientKeepsDInv, DInvFacts DEF DInv

LEMMA DialogOpened ==
  ASSUME DInv, NEW m \in net, m.for = "openDelete", NEW d \in DialogsFor(m)
  PROVE  /\ d \in Dialogs /\ d.rev <= Len(file) /\ d.open /\ d.entry \in Entries /\ ~d.confirmed
<1>1. /\ m.at \in 0..Len(file) /\ m.entry \in Entries /\ dialog \in Dialogs /\ Len(file) \in Nat
  BY DInvFacts, RequestTyped DEF RequestOK
<1>2. screen = "targets" \/ screen = "profiles" \/ screen = "overrides"
  BY DEF DInv, OneOpening, Opening, EntryScreens
<1>3. screen = "targets" => ~dialog.confirmed
  BY DEF DInv, OneOpening, Opening, DialogOK
<1>4. \A rev \in 0..Len(file) :
        /\ DialogAt(m, rev) \in Dialogs /\ DialogAt(m, rev).rev = rev /\ DialogAt(m, rev).open
        /\ DialogAt(m, rev).entry = m.entry /\ ~DialogAt(m, rev).confirmed
  <2> TAKE rev \in 0..Len(file)
  <2>1. PICK d0 : d0 = NoDialog
    OBVIOUS
  <2>2. d0 \in Dialogs /\ d0.confirmed = FALSE
    BY <2>1 DEF NoDialog, Dialogs
  <2>3. PICK x : x = DialogAt(m, rev)
    OBVIOUS
  <2>4. x = [d0 EXCEPT !.open = TRUE, !.entry = m.entry, !.rev = rev] /\ rev \in Nat
    BY <1>1, <2>1, <2>3 DEF DialogAt
  <2>5. /\ x \in Dialogs /\ x.open = TRUE /\ x.entry = m.entry /\ x.rev = rev
        /\ x.confirmed = FALSE
    BY <1>1, <2>2, <2>4 DEF Dialogs
  <2> QED
    BY <2>3, <2>5
<1>5. CASE screen = "targets"
  <2>1. d = [DialogAt(m, m.at) EXCEPT !.confirmed = dialog.confirmed, !.ticked = dialog.ticked]
    BY <1>5 DEF DialogsFor, TargetsDialog
  <2>2. PICK x : x = DialogAt(m, m.at)
    OBVIOUS
  <2>3. x \in Dialogs /\ x.rev = m.at /\ x.open /\ x.entry = m.entry
    BY <1>1, <1>4, <2>2
  <2>4. dialog.confirmed \in BOOLEAN /\ dialog.ticked \in Entries \union {NoEntry}
    BY <1>1 DEF Dialogs
  <2>5. d = [x EXCEPT !.confirmed = dialog.confirmed, !.ticked = dialog.ticked]
    BY <2>1, <2>2
  <2>6. /\ d \in Dialogs /\ d.open = x.open /\ d.entry = x.entry /\ d.rev = x.rev
        /\ d.confirmed = dialog.confirmed
    BY <2>3, <2>4, <2>5 DEF Dialogs
  <2> QED
    BY <1>1, <1>3, <1>5, <2>3, <2>6
<1>6. CASE screen # "targets"
  <2>1. d \in ProfilesDialog(m) \/ d \in OverridesDialog(m)
    BY <1>2, <1>6 DEF DialogsFor
  <2>2. \E rev \in 0..Len(file) : d = DialogAt(m, rev)
    BY <1>1, <2>1 DEF ProfilesDialog, OverridesDialog, Revision
  <2> QED
    BY <1>1, <1>4, <2>2
<1> QED
  BY <1>5, <1>6

LEMMA DeleteOpensKeepsDInv ==
  ASSUME DInv, NEW m \in net, DeleteOpens(m)
  PROVE  DInv'
<1>1. /\ UNCHANGED <<file, screen, reader, faultsLeft, editor, form>> /\ net' = net \ {m}
      /\ m.for = "openDelete"
  BY DEF DeleteOpens, Arrives, entryUI
<1>2. OneOpening' /\ opened + 1 <= MaxOpens
  <2>1. opened < MaxOpens /\ \A n \in net : n.for \in Opening => n = m
    BY <1>1 DEF DInv, OneOpening, Opening
  <2>2. \A n \in net' : n.for \notin Opening
    BY <1>1, <2>1
  <2>3. opened \in Nat /\ MaxOpens \in Nat
    BY DInvFacts
  <2> QED
    BY <2>1, <2>2, <2>3 DEF OneOpening
<1>3. /\ dialog' \in Dialogs /\ dialog'.rev <= Len(file)
      /\ opened' = opened \/ opened' = opened + 1
      /\ DialogOK'
  <2>1. CASE UNCHANGED <<dialog, opened>>
    BY <1>1, <2>1, DInvFacts DEF DInv, RevisionsOK, DialogOK
  <2>2. CASE dialog' \in DialogsFor(m) /\ opened' = opened + 1
    BY <1>1, <2>2, DialogOpened DEF DialogOK
  <2> QED
    BY <2>1, <2>2 DEF DeleteOpens
<1>4. RevisionsOK' /\ ReaderOK'
  BY <1>1, <1>3 DEF DInv, RevisionsOK, ReaderOK
<1>5. opened' \in Nat /\ opened' <= MaxOpens
  BY <1>2, <1>3, DInvFacts DEF DInv
<1> QED
  BY <1>1, <1>2, <1>3, <1>4, <1>5, ClientKeepsDInv, DInvFacts DEF DInv

(* The deletion dialogs.                                                   *)
LEMMA DialogStepKeepsDInv ==
  ASSUME DInv, NEW d \in Dialogs, dialog' = d, d.rev <= Len(file),
         UNCHANGED <<file, screen, reader, faultsLeft, editor, form, opened>>,
         d.open => dialog.open, DialogOK',
         \A q \in net' : q \in net \/ (RequestOK(q) /\ q.for \notin Opening)
  PROVE  DInv'
<1>1. OneOpening'
  BY OpeningKeeps
<1>2. RevisionsOK' /\ ReaderOK'
  BY DEF DInv, RevisionsOK, ReaderOK
<1> QED
  BY <1>1, <1>2, ClientKeepsDInv, DInvFacts DEF DInv

LEMMA DialogTyped ==
  ASSUME DInv
  PROVE  /\ dialog.open \in BOOLEAN /\ dialog.entry \in Named /\ dialog.rev \in Nat
         /\ dialog.rev <= Len(file) /\ dialog.confirmed \in BOOLEAN /\ dialog.ticked \in Named
BY DInvFacts DEF Dialogs, Named, DInv, RevisionsOK

LEMMA DialogKeepsDInv ==
  ASSUME DInv, Tick \/ CloseDialog \/ \E m \in net : DeleteArrives(m)
  PROVE  DInv'
<1>1. /\ UNCHANGED <<file, screen, reader, faultsLeft, editor, form, opened>>
      /\ net' \subseteq net
  BY DEF Tick, CloseDialog, DeleteArrives, Arrives, entryUI
<1>2. dialog \in Dialogs /\ dialog.rev <= Len(file) /\ DialogOK
  BY DInvFacts DEF DInv, RevisionsOK
<1>3. /\ dialog' \in Dialogs /\ dialog'.rev <= Len(file) /\ (dialog'.open => dialog.open)
      /\ DialogOK'
  <2>1. CASE Tick
    <3>1. dialog' = [dialog EXCEPT !.confirmed = ~@,
                       !.ticked = IF dialog.confirmed THEN NoEntry ELSE dialog.entry]
      BY <2>1 DEF Tick
    <3>2. /\ dialog' \in Dialogs /\ dialog'.open = dialog.open /\ dialog'.entry = dialog.entry
          /\ dialog'.rev = dialog.rev /\ dialog'.confirmed = ~dialog.confirmed
          /\ dialog'.ticked = IF dialog.confirmed THEN NoEntry ELSE dialog.entry
      BY <1>2, <3>1 DEF Dialogs
    <3>3. dialog.open
      BY <2>1 DEF Tick
    <3> QED
      BY <1>1, <1>2, <3>2, <3>3 DEF DialogOK
  <2>2. CASE CloseDialog
    <3>1. dialog' = IF screen = "targets"
                    THEN [dialog EXCEPT !.open = FALSE, !.confirmed = FALSE, !.ticked = NoEntry]
                    ELSE [dialog EXCEPT !.open = FALSE]
      BY <2>2 DEF CloseDialog
    <3>2. /\ dialog' \in Dialogs /\ dialog'.open = FALSE /\ dialog'.rev = dialog.rev
          /\ screen = "targets" => dialog'.confirmed = FALSE
      BY <1>2, <3>1 DEF Dialogs
    <3> QED
      BY <1>1, <1>2, <3>2 DEF DialogOK
  <2>3. ASSUME NEW m \in net, DeleteArrives(m)
        PROVE  /\ dialog' \in Dialogs /\ dialog'.rev <= Len(file) /\ (dialog'.open => dialog.open)
               /\ DialogOK'
    <3>1. CASE dialog' = NoDialog
      <4>1. /\ dialog' \in Dialogs /\ dialog'.open = FALSE /\ dialog'.rev = 0
            /\ dialog'.confirmed = FALSE
        BY <3>1 DEF NoDialog, Dialogs
      <4> QED
        BY <1>1, <4>1, DInvFacts DEF DialogOK
    <3>2. CASE dialog' = [dialog EXCEPT !.busy = FALSE, !.refs = (m.answer = "referenced") \/ @]
      <4>1. /\ dialog' \in Dialogs /\ dialog'.open = dialog.open /\ dialog'.entry = dialog.entry
            /\ dialog'.rev = dialog.rev /\ dialog'.confirmed = dialog.confirmed
            /\ dialog'.ticked = dialog.ticked
        BY <1>2, <3>2 DEF Dialogs
      <4> QED
        BY <1>1, <1>2, <4>1 DEF DialogOK
    <3> QED
      BY <2>3, <3>1, <3>2 DEF DeleteArrives
  <2> QED
    BY <2>1, <2>2, <2>3
<1> QED
  BY <1>1, <1>3, DialogStepKeepsDInv

LEMMA ConfirmDeleteKeepsDInv ==
  ASSUME DInv, ConfirmDelete
  PROVE  DInv'
<1>1. UNCHANGED <<file, screen, reader, faultsLeft, editor, form, opened>>
  BY DEF ConfirmDelete, entryUI
<1>2. dialog \in Dialogs /\ dialog.rev <= Len(file) /\ DialogOK /\ dialog.open /\ dialog.confirmed
  BY DInvFacts DEF DInv, RevisionsOK, ConfirmDelete
<1>3. /\ dialog' \in Dialogs /\ dialog'.open = dialog.open /\ dialog'.entry = dialog.entry
      /\ dialog'.rev = dialog.rev /\ dialog'.confirmed = dialog.confirmed
      /\ dialog'.ticked = dialog.ticked
  <2>1. dialog' = [dialog EXCEPT !.busy = TRUE]
    BY DEF ConfirmDelete
  <2> QED
    BY <1>2, <2>1 DEF Dialogs
<1>4. DialogOK'
  BY <1>1, <1>2, <1>3 DEF DialogOK
<1>5. \A q \in net' : q \in net \/ (RequestOK(q) /\ q.for \notin Opening)
  <2>1. PICK e, rev, t, base : /\ e = dialog.entry /\ rev = dialog.rev /\ t = dialog.ticked
                               /\ base = VersionAt(file, e, rev)
    OBVIOUS
  <2>2. /\ e \in Entries /\ e \in Named /\ rev \in Nat /\ rev <= Len(file) /\ t \in Named /\ t = e
        /\ base \in Nat
    BY <1>2, <2>1, DialogTyped, VersionTyped DEF DialogOK, Named
  <2>3. PICK r : r = Request("delete", "delete", "list", e, rev, base)
    OBVIOUS
  <2>4. PICK q : q = [r EXCEPT !.ticked = t] /\ net' = net \union {q}
    BY <2>1, <2>3 DEF ConfirmDelete, Send
  <2>5. /\ opened \in Nat /\ "delete" \in Purposes /\ "delete" \in Mutations \union {"read"}
        /\ "list" \in Modes
    BY DInvFacts DEF Purposes, Mutations, Modes
  <2>6. r \in Requests /\ r.for = "delete" /\ r.op = "delete" /\ r.entry = e /\ r.rev = rev /\ r.at = 0
    BY <2>2, <2>3, <2>5, NewRequest
  <2>7. /\ q \in Requests /\ q.for = "delete" /\ q.op = "delete" /\ q.entry = e /\ q.rev = rev
        /\ q.at = 0 /\ q.ticked = t
    BY <2>2, <2>4, <2>6, Captured
  <2>8. RequestOK(q) /\ q.for \notin Opening
    BY <2>2, <2>7, DInvFacts DEF RequestOK, Opening
  <2> QED
    BY <2>4, <2>8
<1> QED
  BY <1>1, <1>2, <1>3, <1>4, <1>5, DialogStepKeepsDInv

-----------------------------------------------------------------------------
(* RuntimeSettings.                                                        *)

LEMMA AtTyped ==
  ASSUME DInv, NEW rev \in Nat
  PROVE  /\ At(rev) \in Readers /\ At(rev).rev = rev /\ At(rev).dirty = FALSE
         /\ At(rev).base = VersionAt(file, Setting, rev)
<1>1. reader \in Readers /\ VersionAt(file, Setting, rev) \in Nat
  BY DInvFacts, VersionTyped
<1> QED
  BY <1>1 DEF At, Readers

(* The settings on screen are those of one revision, before and after.     *)
ReaderAt(r) == r \in Readers /\ r.rev <= Len(file) /\ VersionAt(file, Setting, r.rev) = r.base

(* The flags of the form may change.                                       *)
LEMMA FlagsKeep ==
  ASSUME NEW r, ReaderAt(r), NEW q \in Readers, q.rev = r.rev, q.base = r.base
  PROVE  ReaderAt(q)
BY DEF ReaderAt

LEMMA ReaderStepKeepsDInv ==
  ASSUME DInv, UNCHANGED settingsUI, ReaderAt(reader'),
         \A q \in net' : q \in net \/ (RequestOK(q) /\ q.for \notin Opening)
  PROVE  DInv'
<1>1. UNCHANGED <<file, screen, editor, form, dialog, opened, faultsLeft>>
  BY DEF settingsUI
<1>2. OneOpening'
  BY <1>1, OpeningKeeps
<1>3. RevisionsOK' /\ DialogOK' /\ ReaderOK'
  BY <1>1 DEF DInv, RevisionsOK, DialogOK, ReaderOK, ReaderAt
<1> QED
  BY <1>1, <1>2, <1>3, ClientKeepsDInv, DInvFacts DEF DInv, ReaderAt

LEMMA SettingsRequest ==
  ASSUME DInv, NEW for \in {"query", "savedQuery", "readerReload"},
         NEW q, q = Request(for, "read", "list", Setting, 0, 0)
  PROVE  RequestOK(q) /\ q.for \notin Opening
<1>1. /\ opened \in Nat /\ for \in Purposes /\ "read" \in Mutations \union {"read"}
      /\ "list" \in Modes /\ Setting \in Named /\ 0 \in Nat /\ Len(file) \in Nat
  BY DInvFacts, EditingConstants DEF Purposes, Modes, Named
<1>2. q \in Requests /\ q.for = for /\ q.op = "read" /\ q.rev = 0 /\ q.at = 0
  BY <1>1, NewRequest
<1> QED
  BY <1>1, <1>2 DEF RequestOK, Opening, Mutations

LEMMA SupersedingKeeps ==
  ASSUME DInv, NEW S, S \subseteq net, NEW for \in {"query", "savedQuery"},
         net' = Superseding(S, Request(for, "read", "list", Setting, 0, 0))
  PROVE  \A q \in net' : q \in net \/ (RequestOK(q) /\ q.for \notin Opening /\ q.for \in Queries)
<1> TAKE q \in net'
<1>1. CASE q = Request(for, "read", "list", Setting, 0, 0)
  BY <1>1, SettingsRequest DEF Queries, Request
<1>2. ASSUME NEW p \in S, q = IF p.for \in Queries THEN [p EXCEPT !.newest = FALSE] ELSE p
      PROVE  q \in net \/ (RequestOK(q) /\ q.for \notin Opening /\ q.for \in Queries)
  <2>1. CASE p.for \in Queries
    <3>1. p \in Requests /\ RequestOK(p) /\ q = [p EXCEPT !.newest = FALSE]
      BY <1>2, <2>1, DInvFacts
    <3>2. q \in Requests /\ Same(q, p) /\ q.at = p.at
      BY <3>1, Refused
    <3> QED
      BY <2>1, <3>1, <3>2 DEF RequestOK, Same, Queries, Opening
  <2>2. CASE p.for \notin Queries
    BY <1>2, <2>2
  <2> QED
    BY <2>1, <2>2
<1> QED
  BY <1>1, <1>2 DEF Superseding

LEMMA SettingsKeepDInv ==
  ASSUME DInv, \/ TypeReader \/ SaveReader \/ RefreshSettings \/ ReloadReader
               \/ \E m \in net : ReaderSaveArrives(m) \/ SettingsArrive(m) \/ ReaderReloadArrives(m)
  PROVE  DInv'
<1>1. reader \in Readers /\ ReaderAt(reader) /\ UNCHANGED settingsUI
  BY DInvFacts DEF DInv, RevisionsOK, ReaderOK, ReaderAt, TypeReader, SaveReader, RefreshSettings,
     ReloadReader, ReaderSaveArrives, SettingsArrive, ReaderReloadArrives
<1>2. CASE TypeReader
  <2>1. reader' \in Readers /\ reader'.rev = reader.rev /\ reader'.base = reader.base /\ net' = net
    BY <1>1, <1>2 DEF TypeReader, Readers
  <2> QED
    BY <1>1, <2>1, FlagsKeep, ReaderStepKeepsDInv
<1>3. CASE SaveReader
  <2>1. reader' \in Readers /\ reader'.rev = reader.rev /\ reader'.base = reader.base
    BY <1>1, <1>3 DEF SaveReader, Readers
  <2>2. PICK q, rev, base : /\ q = Request("reader", "update", "edit", Setting, rev, base)
                            /\ rev = reader.rev /\ base = reader.base /\ net' = net \union {q}
    BY <1>3 DEF SaveReader, Send
  <2>3. rev \in Nat /\ base \in Nat /\ rev <= Len(file) /\ Setting \in Entries
    BY <1>1, <2>2, EditingConstants DEF Readers, ReaderAt
  <2>4. /\ opened \in Nat /\ "reader" \in Purposes /\ "update" \in Mutations \union {"read"}
        /\ "edit" \in Modes /\ Setting \in Named
    BY <2>3, DInvFacts DEF Purposes, Mutations, Modes, Named
  <2>5. /\ q \in Requests /\ q.for = "reader" /\ q.op = "update" /\ q.entry = Setting
        /\ q.rev = rev /\ q.at = 0
    BY <2>2, <2>3, <2>4, NewRequest
  <2>6. RequestOK(q) /\ q.for \notin Opening
    BY <2>3, <2>5, DInvFacts DEF RequestOK, Opening
  <2> QED
    BY <1>1, <2>1, <2>2, <2>6, FlagsKeep, ReaderStepKeepsDInv
<1>4. CASE RefreshSettings
  BY <1>1, <1>4, SupersedingKeeps, ReaderStepKeepsDInv DEF RefreshSettings
<1>5. CASE ReloadReader
  <2>1. reader' \in Readers /\ reader'.rev = reader.rev /\ reader'.base = reader.base
    BY <1>1, <1>5 DEF ReloadReader, Readers
  <2>2. PICK q : q = Request("readerReload", "read", "list", Setting, 0, 0) /\ net' = net \union {q}
    BY <1>5 DEF ReloadReader, Send
  <2> QED
    BY <1>1, <2>1, <2>2, FlagsKeep, SettingsRequest, ReaderStepKeepsDInv
<1>6. ASSUME NEW m \in net, ReaderSaveArrives(m) \/ SettingsArrive(m) \/ ReaderReloadArrives(m)
      PROVE  DInv'
  <2>1. PICK at : /\ at = At(m.at) /\ at \in Readers /\ ReaderAt(at)
    <3>1. m.at \in Nat /\ m.at <= Len(file)
      BY DInvFacts, RequestTyped DEF RequestOK
    <3>2. /\ At(m.at) \in Readers /\ At(m.at).rev = m.at
          /\ At(m.at).base = VersionAt(file, Setting, m.at)
      BY <3>1, AtTyped
    <3>3. ReaderAt(At(m.at))
      BY <3>1, <3>2 DEF ReaderAt
    <3> QED
      BY <3>2, <3>3
  <2>2. ReaderAt(reader')
    <3>1. PICK r : /\ (r = at \/ r = reader) /\ reader' \in Readers
                   /\ reader'.rev = r.rev /\ reader'.base = r.base
      <4>1. CASE ReaderSaveArrives(m)
        <5>1. \/ reader' = [at EXCEPT !.saving = "refresh", !.conflict = FALSE]
              \/ \E c \in BOOLEAN : reader' = [reader EXCEPT !.saving = "", !.conflict = c]
          <6>1. reader.conflict \in BOOLEAN
            BY <1>1 DEF Readers
          <6> QED
            BY <2>1, <4>1, <6>1 DEF ReaderSaveArrives
        <5>2. CASE reader' = [at EXCEPT !.saving = "refresh", !.conflict = FALSE]
          <6>1. reader' \in Readers /\ reader'.rev = at.rev /\ reader'.base = at.base
            BY <2>1, <5>2 DEF Readers
          <6> QED
            BY <6>1
        <5>3. ASSUME NEW c \in BOOLEAN, reader' = [reader EXCEPT !.saving = "", !.conflict = c]
              PROVE  reader' \in Readers /\ reader'.rev = reader.rev /\ reader'.base = reader.base
          BY <1>1, <5>3 DEF Readers
        <5> QED
          BY <5>1, <5>2, <5>3
      <4>2. CASE SettingsArrive(m)
        <5>1. PICK after : /\ after = at \/ \E l \in BOOLEAN : after = [reader EXCEPT !.loaded = l]
                           /\ reader' = after \/ reader' = [after EXCEPT !.saving = ""]
          <6>1. reader.loaded \in BOOLEAN
            BY <1>1 DEF Readers
          <6> QED
            BY <2>1, <4>2, <6>1 DEF SettingsArrive
        <5>2. after \in Readers /\ (after = at \/ (after.rev = reader.rev /\ after.base = reader.base))
          <6>1. ASSUME NEW l \in BOOLEAN, after = [reader EXCEPT !.loaded = l]
                PROVE  after \in Readers /\ after.rev = reader.rev /\ after.base = reader.base
            BY <1>1, <6>1 DEF Readers
          <6> QED
            BY <2>1, <5>1, <6>1
        <5>3. reader' \in Readers /\ reader'.rev = after.rev /\ reader'.base = after.base
          BY <5>1, <5>2 DEF Readers
        <5> QED
          BY <5>2, <5>3
      <4>3. CASE ReaderReloadArrives(m)
        BY <1>1, <2>1, <4>3 DEF ReaderReloadArrives, Readers
      <4> QED
        BY <1>6, <4>1, <4>2, <4>3
    <3> QED
      BY <1>1, <2>1, <3>1, FlagsKeep
  <2>3. \A q \in net' : q \in net \/ (RequestOK(q) /\ q.for \notin Opening)
    <3>1. CASE ReaderSaveArrives(m) /\ m.answer = "ok"
      <4>1. net' = Superseding(net \ {m}, Request("savedQuery", "read", "list", Setting, 0, 0))
        BY <3>1 DEF ReaderSaveArrives
      <4>2. net \ {m} \subseteq net
        OBVIOUS
      <4> QED
        BY <4>1, <4>2, SupersedingKeeps
    <3>2. CASE net' = net \ {m}
      BY <3>2
    <3> QED
      BY <1>6, <3>1, <3>2 DEF ReaderSaveArrives, SettingsArrive, ReaderReloadArrives, Arrives
  <2> QED
    BY <1>1, <2>2, <2>3, ReaderStepKeepsDInv
<1> QED
  BY <1>2, <1>3, <1>4, <1>5, <1>6

-----------------------------------------------------------------------------
LEMMA InitDInv == Init => DInv
<1> SUFFICES ASSUME Init PROVE DInv
  OBVIOUS
<1>1. PICK c : c = [entry |-> Setting, op |-> "set", base |-> 0] /\ file = <<c>>
  BY DEF Init
<1>2. c \in Changes
  BY <1>1, EditingConstants DEF Changes
<1>3. file \in Seq(Changes) /\ Len(file) = 1
  BY <1>1, <1>2
<1>4. /\ editor \in Editors /\ editor.rev = 0 /\ editor.open = FALSE /\ editor.mode = "create"
      /\ form \in Forms /\ form.rev = 0 /\ form.dirty = FALSE /\ form.busy = ""
      /\ dialog \in Dialogs /\ dialog.rev = 0 /\ dialog.open = FALSE /\ dialog.confirmed = FALSE
      /\ reader \in Readers /\ reader.rev = 0 /\ reader.base = 0
  BY DEF Init, NoEditor, EmptyForm, NoDialog, NoReader, Editors, Forms, Dialogs, Readers
<1>5. /\ opened = 0 /\ opened \in 0..(MaxOpens + MaxNet) /\ opened <= MaxOpens
      /\ faultsLeft \in 0..MaxFaults /\ screen \in Screens
  BY EditingConstants DEF Init
<1>6. \A q \in net : RequestOK(q) /\ q.for = "query" /\ q.answer \in Answers /\ q.op = "read"
  <2> TAKE q \in net
  <2>1. q = Request("query", "read", "edit", Setting, 0, 0)
    BY DEF Init
  <2>2. /\ opened \in Nat /\ "query" \in Purposes /\ "read" \in Mutations \union {"read"}
        /\ "edit" \in Modes /\ Setting \in Named /\ 0 \in Nat
    BY <1>5, EditingConstants DEF Purposes, Modes, Named
  <2>3. /\ q \in Requests /\ q.for = "query" /\ q.op = "read" /\ q.rev = 0 /\ q.at = 0
    BY <2>1, <2>2, NewRequest
  <2> QED
    BY <1>3, <2>3, RequestTyped DEF RequestOK, Mutations
<1>7. OneOpening /\ DialogOK /\ RevisionsOK
  <2>1. OneOpening
    BY <1>6 DEF OneOpening, Opening
  <2>2. DialogOK
    BY <1>4 DEF DialogOK
  <2>3. RevisionsOK
    <3>1. editor.rev = 0 /\ form.rev = 0 /\ dialog.rev = 0 /\ reader.rev = 0
      BY <1>4
    <3>2. 0 <= Len(file)
      BY <1>3
    <3> QED
      BY <3>1, <3>2 DEF RevisionsOK
  <2> QED
    BY <2>1, <2>2, <2>3
<1>8. ReaderOK
  BY <1>4, VersionTyped DEF ReaderOK
<1> QED
  BY <1>3, <1>4, <1>5, <1>6, <1>7, <1>8 DEF DInv, TypeOK, Answers

LEMMA StepKeepsDInv ==
  ASSUME "reopen" \notin Interrupts, DInv, [Next]_vars
  PROVE  DInv'
<1>1. ASSUME NEW e \in Entries, NEW op \in {"set", "remove"}, OtherWriter(e, op) PROVE DInv'
  BY <1>1, OtherWriterStep, ServerKeepsDInv
<1>2. ASSUME NEW m \in net, Serves(m) \/ LoseAnswer(m) \/ RefuseToken(m) PROVE DInv'
  BY <1>2, ServerStep, ServerKeepsDInv
<1>3. ASSUME NEW m \in net, Arrival(m) PROVE DInv'
  <2>1. CASE SaveArrives(m) \/ ReloadArrives(m)
    BY <2>1, EditorAnsweredKeepsDInv
  <2>2. CASE OpenArrives(m)
    BY <2>2, OpenArrivesKeepsDInv
  <2>3. CASE DeleteOpens(m)
    BY <2>3, DeleteOpensKeepsDInv
  <2>4. CASE DeleteArrives(m)
    BY <2>4, DialogKeepsDInv
  <2>5. CASE ReaderSaveArrives(m) \/ SettingsArrive(m) \/ ReaderReloadArrives(m)
    BY <2>5, SettingsKeepDInv
  <2> QED
    BY <1>3, <2>1, <2>2, <2>3, <2>4, <2>5 DEF Arrival
<1>4. CASE \/ \E mode \in {"create", "edit"}, e \in Entries \union {NoEntry} : AskOpen(mode, e)
           \/ \E e \in Entries : AskDelete(e)
  BY <1>4, AskKeepsDInv DEF Named
<1>5. CASE CloseEditor \/ (\E e \in Entries \union {NoEntry} : Type(e)) \/ Save \/ Reload
  BY <1>5, EditorKeepsDInv DEF Named
<1>6. CASE Tick \/ ConfirmDelete \/ CloseDialog
  BY <1>6, DialogKeepsDInv, ConfirmDeleteKeepsDInv
<1>7. CASE TypeReader \/ SaveReader \/ RefreshSettings \/ ReloadReader
  BY <1>7, SettingsKeepDInv
<1>8. CASE UNCHANGED vars
  BY <1>8 DEF vars, DInv, TypeOK, RequestOK, RevisionsOK, OneOpening, DialogOK, ReaderOK
<1> QED
  BY <1>1, <1>2, <1>3, <1>4, <1>5, <1>6, <1>7, <1>8 DEF Next

(* The dialogs, if the user waits for one before asking for the next.      *)
THEOREM DialogsInvariant ==
  ASSUME "reopen" \notin Interrupts
  PROVE  Spec => []DInv
<1>1. DInv /\ [Next]_vars => DInv'
  BY StepKeepsDInv
<1> QED
  BY <1>1, InitDInv, PTL DEF Spec

(* A deletion is requested only for the entry whose box was ticked         *)
(* (ConfigurationMutationDialog and the three screens' handlers).          *)
THEOREM OnlyConfirmedDeletes ==
  ASSUME "reopen" \notin Interrupts
  PROVE  Spec => []DeletesWhatWasConfirmed
<1>1. DInv => DeletesWhatWasConfirmed
  BY DEF DInv, RequestOK, DeletesWhatWasConfirmed
<1> QED
  BY <1>1, DialogsInvariant, PTL

-----------------------------------------------------------------------------
(* The editors, if the user lets a busy dialog be.                         *)

LEMMA EInvFacts ==
  ASSUME EInv
  PROVE  /\ NoLostUpdate /\ EditorOK /\ FormOK /\ OneWriting /\ FormFlags
         /\ \A m \in net : MutationOK(m)
BY DEF EInv

(* A change whose author knew what it replaces.                            *)
LEMMA ChangeKeeps ==
  ASSUME file \in Seq(Changes), NoLostUpdate, NEW c \in Changes, file' = Append(file, c),
         c.base = VersionAt(file, c.entry, Len(file))
  PROVE  NoLostUpdate'
<1>1. Len(file) \in Nat /\ Len(file') = Len(file) + 1 /\ file'[Len(file) + 1] = c
  OBVIOUS
<1>2. \A e : \A rev \in Nat : rev <= Len(file) => VersionAt(file', e, rev) = VersionAt(file, e, rev)
  BY GrowsKeeps DEF Grows
<1>3. ASSUME NEW k \in 1..Len(file)
      PROVE  file'[k].base = VersionAt(file', file'[k].entry, k - 1)
  <2>1. file'[k] = file[k] /\ k - 1 \in Nat /\ k - 1 <= Len(file)
    BY <1>1
  <2> QED
    BY <1>2, <2>1 DEF NoLostUpdate
<1>4. file'[Len(file) + 1].base = VersionAt(file', file'[Len(file) + 1].entry, (Len(file) + 1) - 1)
  <2>1. (Len(file) + 1) - 1 = Len(file)
    BY <1>1
  <2>2. VersionAt(file', c.entry, Len(file)) = VersionAt(file, c.entry, Len(file))
    BY <1>1, <1>2
  <2> QED
    BY <1>1, <2>1, <2>2
<1> QED
  BY <1>1, <1>3, <1>4 DEF NoLostUpdate

LEMMA OtherWriterSees ==
  ASSUME DInv, EInv, NEW e \in Entries, NEW op \in {"set", "remove"}, OtherWriter(e, op)
  PROVE  NoLostUpdate'
<1>1. PICK c : /\ c = [entry |-> e, op |-> op, base |-> Version(file, e)]
               /\ file' = Append(file, c)
  BY DEF OtherWriter
<1>2. c \in Changes /\ c.base = VersionAt(file, c.entry, Len(file))
  <2>1. Version(file, e) = VersionAt(file, e, Len(file)) /\ Version(file, e) \in Nat
    BY DInvFacts, VersionTyped DEF Version, Revision
  <2> QED
    BY <1>1, <2>1 DEF Changes
<1> QED
  BY <1>1, <1>2, ChangeKeeps, DInvFacts, EInvFacts

(* The server accepts a mutation only at the revision it names.            *)
LEMMA ServeMutationSees ==
  ASSUME DInv, EInv, NEW m \in net, ServeMutation(m)
  PROVE  NoLostUpdate'
<1>1. PICK a \in Answers :
        /\ a \in CASE m.op = "create" -> CreateAnswers(file, m)
                   [] m.op = "update" -> UpdateAnswers(file, m)
                   [] m.op = "delete" -> DeleteAnswers(file, m)
        /\ file' = IF a = "ok" THEN Changed(file, m) ELSE file
  BY ServeMutationStep
<1>2. m.op = "create" \/ m.op = "update" \/ m.op = "delete"
  BY DEF ServeMutation, Mutations
<1>3. CASE a = "ok"
  <2>1. m.base = VersionAt(file, m.entry, Len(file))
    <3>1. MutationOK(m)
      BY EInvFacts
    <3>2. CASE m.op = "create"
      <4>1. a \in CreateAnswers(file, m)
        BY <1>1, <3>2
      <4> QED
        BY <1>3, <3>1, <3>2, <4>1 DEF CreateAnswers, Version, Revision, MutationOK
    <3>3. CASE m.op = "update"
      <4>1. a \in UpdateAnswers(file, m)
        BY <1>1, <3>3
      <4> QED
        BY <1>3, <3>1, <3>3, <4>1 DEF UpdateAnswers, Version, Revision, MutationOK
    <3>4. CASE m.op = "delete"
      <4>1. a \in DeleteAnswers(file, m)
        BY <1>1, <3>4
      <4> QED
        BY <1>3, <3>1, <3>4, <4>1 DEF DeleteAnswers, Version, Revision, MutationOK
    <3> QED
      BY <1>2, <3>2, <3>3, <3>4
  <2>2. PICK c : /\ c = [entry |-> m.entry, base |-> m.base,
                         op |-> IF m.op = "delete" THEN "remove" ELSE "set"]
                 /\ file' = Append(file, c)
    BY <1>1, <1>3 DEF Changed
  <2>3. m.entry \in Entries /\ m.base \in Nat
    BY <1>2, DInvFacts, RequestTyped DEF RequestOK, Mutations
  <2>4. c \in Changes /\ c.base = VersionAt(file, c.entry, Len(file))
    BY <2>1, <2>2, <2>3 DEF Changes
  <2> QED
    BY <2>2, <2>4, ChangeKeeps, DInvFacts, EInvFacts
<1>4. CASE a # "ok"
  BY <1>1, <1>4, EInvFacts DEF NoLostUpdate
<1> QED
  BY <1>3, <1>4

LEMMA ServerKeepsEInv ==
  ASSUME DInv, EInv, UNCHANGED UI, Grows, NetServed, NoLostUpdate'
  PROVE  EInv'
<1>1. \A e : \A rev \in Nat : rev <= Len(file) => VersionAt(file', e, rev) = VersionAt(file, e, rev)
  BY DInvFacts, GrowsKeeps
<1>2. ASSUME NEW q \in net' PROVE MutationOK(q)'
  <2>1. PICK m \in net : Same(q, m)
    BY DEF NetServed, Same
  <2>2. MutationOK(m) /\ m.rev \in Nat /\ m.rev <= Len(file)
    BY EInvFacts, DInvFacts, RequestTyped DEF RequestOK
  <2>3. VersionAt(file', m.entry, m.rev) = VersionAt(file, m.entry, m.rev)
    BY <1>1, <2>2
  <2> QED
    BY <2>1, <2>2, <2>3 DEF MutationOK, Same
<1>3. EditorOK' /\ FormOK'
  <2>1. /\ editor.rev \in Nat /\ form.rev \in Nat
        /\ editor.rev <= Len(file) /\ form.rev <= Len(file)
    BY DInvFacts DEF Editors, Forms, DInv, RevisionsOK
  <2>2. /\ VersionAt(file', editor.entry, editor.rev) = VersionAt(file, editor.entry, editor.rev)
        /\ VersionAt(file', form.entry, form.rev) = VersionAt(file, form.entry, form.rev)
    BY <1>1, <2>1
  <2> QED
    BY <2>2, EInvFacts DEF EditorOK, FormOK, UI
<1>4. OneWriting'
  <2>1. OneWriting /\ UNCHANGED <<editor, form, opened>>
    BY EInvFacts DEF UI
  <2>2. CASE net' = net
    BY <2>1, <2>2 DEF OneWriting
  <2>3. ASSUME NEW m \in net, NEW p \in Requests, Same(p, m), net' = (net \ {m}) \union {p}
        PROVE  OneWriting'
    <3>1. ASSUME NEW q \in net', q.for \in Writing
          PROVE  /\ editor.open /\ form.busy # "" /\ q.mode = editor.mode /\ q.asked = opened
                 /\ q.for = "reload" => q.entry = editor.entry
      BY <2>1, <2>3, <3>1 DEF OneWriting, Same
    <3>2. ASSUME NEW q \in net', NEW n \in net', q.for \in Writing, n.for \in Writing
          PROVE  n = q
      BY <2>1, <2>3, <3>2 DEF OneWriting, Same
    <3> QED
      BY <2>1, <3>1, <3>2 DEF OneWriting
  <2> QED
    BY <2>2, <2>3 DEF NetServed
<1>5. FormFlags'
  BY EInvFacts DEF FormFlags, UI
<1> QED
  BY <1>2, <1>3, <1>4, <1>5 DEF EInv

LEMMA ServerStepKeepsEInv ==
  ASSUME DInv, EInv, NEW m \in net, Serves(m) \/ LoseAnswer(m) \/ RefuseToken(m)
  PROVE  EInv'
<1>1. UNCHANGED UI /\ Grows /\ NetServed
  BY ServerStep
<1>2. NoLostUpdate'
  <2>1. CASE ServeMutation(m)
    BY <2>1, ServeMutationSees
  <2>2. CASE ServeRead(m) \/ LoseAnswer(m) \/ RefuseToken(m)
    BY <2>2, EInvFacts DEF ServeRead, LoseAnswer, RefuseToken, NoLostUpdate
  <2> QED
    BY <2>1, <2>2 DEF Serves
<1> QED
  BY <1>1, <1>2, ServerKeepsEInv

-----------------------------------------------------------------------------
LEMMA ClientKeepsEInv ==
  ASSUME EInv, UNCHANGED file, \A q \in net' : q \in net \/ MutationOK(q),
         EditorOK', FormOK', OneWriting', FormFlags'
  PROVE  EInv'
<1>1. \A q \in net' : MutationOK(q)'
  BY EInvFacts DEF MutationOK
<1>2. NoLostUpdate'
  BY EInvFacts DEF NoLostUpdate
<1> QED
  BY <1>1, <1>2 DEF EInv

(* Steps that leave the editor and its form alone.                         *)
LEMMA AsideKeepsEInv ==
  ASSUME DInv, EInv, UNCHANGED <<file, editor, form>>,
         opened' = opened \/ ~editor.open,
         \A q \in net' : q \in net \/ (MutationOK(q) /\ q.for \notin Writing)
  PROVE  EInv'
<1>1. EditorOK' /\ FormOK' /\ FormFlags'
  BY EInvFacts DEF EditorOK, FormOK, FormFlags
<1>2. OneWriting'
  BY EInvFacts DEF OneWriting
<1> QED
  BY <1>1, <1>2, ClientKeepsEInv

LEMMA DialogsKeepEInv ==
  ASSUME DInv, EInv,
         \/ \E mode \in {"create", "edit"}, e \in Named : AskOpen(mode, e)
         \/ \E e \in Entries : AskDelete(e)
         \/ \E m \in net : DeleteOpens(m) \/ DeleteArrives(m)
         \/ Tick \/ CloseDialog
  PROVE  EInv'
<1>1. UNCHANGED <<file, editor, form>>
  BY DEF AskOpen, AskDelete, DeleteOpens, DeleteArrives, Tick, CloseDialog, entryUI
<1>2. opened' = opened \/ ~editor.open
  BY DEF AskOpen, AskDelete, DeleteOpens, DeleteArrives, Tick, CloseDialog, Arrives,
     DInv, OneOpening, Opening
<1>3. \A q \in net' : q \in net \/ (MutationOK(q) /\ q.for \notin Writing)
  <2>1. ASSUME NEW for \in Opening, NEW mode, NEW e,
               NEW q, q = Request(for, "read", mode, e, 0, 0)
        PROVE  MutationOK(q) /\ q.for \notin Writing
    BY <2>1 DEF MutationOK, Writing, Opening, Request
  <2>2. CASE \/ \E mode \in {"create", "edit"}, e \in Named : AskOpen(mode, e)
             \/ \E e \in Entries : AskDelete(e)
    BY <2>1, <2>2 DEF AskOpen, AskDelete, Send, Opening
  <2>3. CASE net' \subseteq net
    BY <2>3
  <2> QED
    BY <2>2, <2>3 DEF DeleteOpens, DeleteArrives, Tick, CloseDialog, Arrives
<1> QED
  BY <1>1, <1>2, <1>3, AsideKeepsEInv

LEMMA ConfirmDeleteKeepsEInv ==
  ASSUME DInv, EInv, ConfirmDelete
  PROVE  EInv'
<1>1. UNCHANGED <<file, editor, form, opened>>
  BY DEF ConfirmDelete, entryUI
<1>2. \A q \in net' : q \in net \/ (MutationOK(q) /\ q.for \notin Writing)
  <2>1. PICK e, rev, t, base : /\ e = dialog.entry /\ rev = dialog.rev /\ t = dialog.ticked
                               /\ base = VersionAt(file, e, rev)
    OBVIOUS
  <2>2. e \in Named /\ rev \in Nat /\ t \in Named /\ base \in Nat
    BY <2>1, DialogTyped, VersionTyped
  <2>3. PICK r : r = Request("delete", "delete", "list", e, rev, base)
    OBVIOUS
  <2>4. PICK q : q = [r EXCEPT !.ticked = t] /\ net' = net \union {q}
    BY <2>1, <2>3 DEF ConfirmDelete, Send
  <2>5. /\ opened \in Nat /\ "delete" \in Purposes /\ "delete" \in Mutations \union {"read"}
        /\ "list" \in Modes
    BY DInvFacts DEF Purposes, Mutations, Modes
  <2>6. /\ r \in Requests /\ r.for = "delete" /\ r.op = "delete" /\ r.entry = e /\ r.rev = rev
        /\ r.base = base
    BY <2>2, <2>3, <2>5, NewRequest
  <2>7. q.for = "delete" /\ q.op = "delete" /\ q.entry = e /\ q.rev = rev /\ q.base = base
    BY <2>2, <2>4, <2>6, Captured
  <2>8. MutationOK(q) /\ q.for \notin Writing
    BY <2>1, <2>7 DEF MutationOK, Writing
  <2> QED
    BY <2>4, <2>8
<1> QED
  BY <1>1, <1>2, AsideKeepsEInv

LEMMA SettingsKeepEInv ==
  ASSUME DInv, EInv,
         \/ TypeReader \/ SaveReader \/ RefreshSettings \/ ReloadReader
         \/ \E m \in net : ReaderSaveArrives(m) \/ SettingsArrive(m) \/ ReaderReloadArrives(m)
  PROVE  EInv'
<1>1. UNCHANGED <<file, editor, form, opened>>
  BY DEF TypeReader, SaveReader, RefreshSettings, ReloadReader, ReaderSaveArrives, SettingsArrive,
     ReaderReloadArrives, settingsUI
<1>2. ASSUME NEW for \in {"query", "savedQuery", "readerReload"}, NEW S, S \subseteq net,
             \/ net' = Superseding(S, Request(for, "read", "list", Setting, 0, 0))
             \/ net' = S \union {Request(for, "read", "list", Setting, 0, 0)}
      PROVE  \A q \in net' : q \in net \/ (MutationOK(q) /\ q.for \notin Writing)
  <2> TAKE q \in net'
  <2>1. CASE q = Request(for, "read", "list", Setting, 0, 0)
    BY <2>1 DEF Request, MutationOK, Writing
  <2>2. ASSUME NEW p \in S, q = IF p.for \in Queries THEN [p EXCEPT !.newest = FALSE] ELSE p
        PROVE  q \in net \/ (MutationOK(q) /\ q.for \notin Writing)
    <3>1. p \in net /\ p \in Requests /\ MutationOK(p)
      BY <1>2, DInvFacts, EInvFacts
    <3>2. CASE p.for \in Queries
      <4>1. Same(q, p)
        BY <2>2, <3>1, <3>2, Refused
      <4> QED
        BY <3>1, <3>2, <4>1 DEF MutationOK, Same, Queries, Writing
    <3> QED
      BY <2>2, <3>1, <3>2
  <2> QED
    BY <1>2, <2>1, <2>2 DEF Superseding
<1>3. \A q \in net' : q \in net \/ (MutationOK(q) /\ q.for \notin Writing)
  <2>1. CASE TypeReader
    BY <2>1 DEF TypeReader
  <2>2. CASE SaveReader
    <3>1. PICK q, rev, base : /\ q = Request("reader", "update", "edit", Setting, rev, base)
                              /\ rev = reader.rev /\ base = reader.base /\ net' = net \union {q}
      BY <2>2 DEF SaveReader, Send
    <3>2. VersionAt(file, Setting, rev) = base
      BY <3>1 DEF DInv, ReaderOK
    <3>3. MutationOK(q) /\ q.for \notin Writing
      BY <3>1, <3>2 DEF Request, MutationOK, Writing
    <3> QED
      BY <3>1, <3>3
  <2>3. CASE RefreshSettings
    BY <1>2, <2>3 DEF RefreshSettings
  <2>4. CASE ReloadReader
    BY <1>2, <2>4 DEF ReloadReader, Send
  <2>5. ASSUME NEW m \in net, ReaderSaveArrives(m) \/ SettingsArrive(m) \/ ReaderReloadArrives(m)
        PROVE  \A q \in net' : q \in net \/ (MutationOK(q) /\ q.for \notin Writing)
    <3>1. CASE net' = Superseding(net \ {m}, Request("savedQuery", "read", "list", Setting, 0, 0))
      <4>1. net \ {m} \subseteq net
        OBVIOUS
      <4> QED
        BY <1>2, <3>1, <4>1
    <3>2. CASE net' = net \ {m}
      BY <3>2
    <3> QED
      BY <2>5, <3>1, <3>2 DEF ReaderSaveArrives, SettingsArrive, ReaderReloadArrives, Arrives
  <2> QED
    BY <2>1, <2>2, <2>3, <2>4, <2>5
<1> QED
  BY <1>1, <1>3, AsideKeepsEInv

-----------------------------------------------------------------------------
(* The editor itself.                                                      *)

LEMMA CloseTypeKeepEInv ==
  ASSUME DInv, EInv, "close" \notin Interrupts, CloseEditor \/ \E e \in Named : Type(e)
  PROVE  EInv'
<1>1. /\ UNCHANGED <<file, net, opened>> /\ form.busy = "" /\ editor \in Editors /\ form \in Forms
      /\ editor.open
  BY DInvFacts DEF CloseEditor, Type, CanType, entryUI
<1>2. \A q \in net' : q \in net /\ q.for \notin Writing
  BY <1>1, EInvFacts DEF OneWriting
<1>3. OneWriting'
  BY <1>2 DEF OneWriting
<1>4. CASE CloseEditor
  <2>1. editor' = [editor EXCEPT !.open = FALSE]
    BY <1>4 DEF CloseEditor
  <2>2. /\ ~editor'.open /\ editor'.mode = editor.mode /\ editor'.entry = editor.entry
        /\ editor'.base = editor.base /\ editor'.rev = editor.rev
    BY <1>1, <2>1 DEF Editors
  <2>3. form' = [form EXCEPT !.dirty = FALSE, !.busy = "", !.conflict = FALSE]
    BY <1>4, <2>2 DEF CloseEditor, Sync
  <2>4. ~form'.dirty /\ form'.busy = ""
    BY <1>1, <2>3 DEF Forms
  <2>5. EditorOK' /\ FormOK' /\ FormFlags'
    BY <1>1, <2>2, <2>4, EInvFacts DEF EditorOK, FormOK, FormFlags
  <2> QED
    BY <1>1, <1>2, <1>3, <2>5, ClientKeepsEInv
<1>5. ASSUME NEW e \in Named, Type(e) PROVE EInv'
  <2>1. /\ editor' = editor /\ form' = [form EXCEPT !.dirty = TRUE, !.entry = e]
        /\ editor.mode # "create" => e = form.entry
    BY <1>5 DEF Type, EditField, Names
  <2>2. form'.base = form.base /\ form'.rev = form.rev /\ form'.busy = "" /\ form'.entry = e
    BY <1>1, <2>1 DEF Forms
  <2>3. EditorOK' /\ FormOK' /\ FormFlags'
    BY <1>1, <2>1, <2>2, EInvFacts DEF EditorOK, FormOK, FormFlags
  <2> QED
    BY <1>1, <1>2, <1>3, <2>3, ClientKeepsEInv
<1> QED
  BY <1>4, <1>5

LEMMA SaveKeepsEInv ==
  ASSUME DInv, EInv, Save
  PROVE  EInv'
<1>1. /\ UNCHANGED <<file, editor, opened>> /\ form.busy = "" /\ ~form.conflict /\ editor.open
      /\ editor \in Editors /\ form \in Forms
  BY DInvFacts DEF Save, CanSubmit, entryUI
<1>2. \A q \in net : q.for \notin Writing
  BY <1>1, EInvFacts DEF OneWriting
<1>3. form' = [form EXCEPT !.busy = "saving"]
  BY DEF Save
<1>4. /\ form'.entry = form.entry /\ form'.base = form.base /\ form'.rev = form.rev
      /\ form'.busy = "saving" /\ ~form'.conflict
  BY <1>1, <1>3 DEF Forms
<1>5. PICK op, mode, e, rev, base :
        /\ op = (IF editor.mode = "create" THEN "create" ELSE "update")
        /\ mode = editor.mode /\ e = form.entry /\ rev = form.rev
        /\ base = (IF editor.mode = "create" THEN 0 ELSE form.base)
        /\ net' = net \union {Request("save", op, mode, e, rev, base)}
  BY DEF Save, Submission, Send
<1>6. PICK q : q = Request("save", op, mode, e, rev, base)
  OBVIOUS
<1>7. /\ q.for = "save" /\ q.op = op /\ q.mode = mode /\ q.entry = e /\ q.rev = rev
      /\ q.base = base /\ q.asked = opened
  BY <1>6 DEF Request
<1>8. MutationOK(q)
  <2>1. editor.mode \in {"create", "edit"} /\ FormOK
    BY <1>1, EInvFacts DEF Editors
  <2> QED
    BY <1>1, <1>5, <1>7, <2>1 DEF MutationOK, FormOK
<1>9. EditorOK' /\ FormOK' /\ FormFlags'
  BY <1>1, <1>4, EInvFacts DEF EditorOK, FormOK, FormFlags
<1>10. OneWriting'
  <2>1. net' = net \union {q} /\ mode = editor.mode
    BY <1>5, <1>6
  <2>2. ASSUME NEW n \in net', n.for \in Writing PROVE n = q
    BY <1>2, <2>1, <2>2
  <2>3. form'.busy # "" /\ q.for # "reload"
    BY <1>4, <1>7
  <2> QED
    BY <1>1, <1>7, <2>1, <2>2, <2>3 DEF OneWriting
<1> QED
  BY <1>1, <1>5, <1>6, <1>8, <1>9, <1>10, ClientKeepsEInv

LEMMA ReloadKeepsEInv ==
  ASSUME DInv, EInv, "again" \notin Interrupts, Reload
  PROVE  EInv'
<1>1. /\ UNCHANGED <<file, editor, opened>> /\ form.conflict /\ editor.open
      /\ editor \in Editors /\ form \in Forms /\ form.busy # "reloading"
  BY DInvFacts DEF Reload, entryUI
<1>2. form.busy = ""
  BY <1>1, EInvFacts DEF FormFlags, Forms
<1>3. \A q \in net : q.for \notin Writing
  BY <1>2, EInvFacts DEF OneWriting
<1>4. form' = [form EXCEPT !.busy = "reloading"]
  BY DEF Reload
<1>5. /\ form'.entry = form.entry /\ form'.base = form.base /\ form'.rev = form.rev
      /\ form'.busy = "reloading"
  BY <1>1, <1>4 DEF Forms
<1>6. PICK mode, e, t : mode = editor.mode /\ e = editor.entry /\ t = form.entry
  OBVIOUS
<1>7. PICK r : r = Request("reload", "read", mode, e, 0, 0)
  OBVIOUS
<1>8. PICK q : q = [r EXCEPT !.typed = t] /\ net' = net \union {q}
  BY <1>6, <1>7 DEF Reload, Send
<1>9. /\ q.for = "reload" /\ q.op = "read" /\ q.mode = mode /\ q.entry = e /\ q.asked = opened
  <2>1. /\ opened \in Nat /\ "reload" \in Purposes /\ "read" \in Mutations \union {"read"} /\ 0 \in Nat
        /\ mode \in Modes /\ e \in Named /\ t \in Named
    BY <1>1, <1>6, DInvFacts DEF Purposes, Modes, Named, Editors, Forms
  <2>2. /\ r \in Requests /\ r.for = "reload" /\ r.op = "read" /\ r.mode = mode /\ r.entry = e
        /\ r.asked = opened
    BY <1>7, <2>1, NewRequest
  <2> QED
    BY <1>8, <2>1, <2>2, Captured
<1>10. MutationOK(q)
  BY <1>9 DEF MutationOK
<1>11. EditorOK' /\ FormOK' /\ FormFlags'
  BY <1>1, <1>5, EInvFacts DEF EditorOK, FormOK, FormFlags
<1>12. OneWriting'
  BY <1>1, <1>3, <1>5, <1>6, <1>8, <1>9 DEF OneWriting
<1> QED
  BY <1>1, <1>8, <1>10, <1>11, <1>12, ClientKeepsEInv

(* An answer to the one save or reload in flight.                          *)
LEMMA SaveArrivesKeepsEInv ==
  ASSUME DInv, EInv, NEW m \in net, SaveArrives(m)
  PROVE  EInv'
<1>1. UNCHANGED <<file, opened>> /\ net' = net \ {m} /\ editor \in Editors /\ form \in Forms
  BY DInvFacts DEF SaveArrives, Arrives, entryUI
<1>2. editor.open /\ \A q \in net : q.for \in Writing => q = m
  BY EInvFacts DEF SaveArrives, Arrives, OneWriting, Writing
<1>3. OneWriting'
  BY <1>1, <1>2 DEF OneWriting
<1>4. CASE m.answer = "ok"
  <2>1. /\ editor' = [editor EXCEPT !.open = FALSE]
        /\ form' = Sync([form EXCEPT !.dirty = FALSE], editor, editor', Load(editor'))
    BY <1>4 DEF SaveArrives
  <2>2. /\ ~editor'.open /\ editor'.mode = editor.mode /\ editor'.entry = editor.entry
        /\ editor'.base = editor.base /\ editor'.rev = editor.rev
    BY <1>1, <2>1 DEF Editors
  <2>3. ~form'.dirty /\ form'.busy = ""
    BY <1>1, <2>1, <2>2 DEF Sync, Forms
  <2>4. EditorOK' /\ FormOK' /\ FormFlags'
    BY <1>1, <2>2, <2>3, EInvFacts DEF EditorOK, FormOK, FormFlags
  <2> QED
    BY <1>1, <1>3, <2>4, ClientKeepsEInv
<1>5. CASE m.answer # "ok"
  <2>1. editor' = editor /\ form' = Rejected(form, m.answer)
    BY <1>5 DEF SaveArrives
  <2>2. /\ form'.entry = form.entry /\ form'.base = form.base /\ form'.rev = form.rev
        /\ form'.busy = ""
    BY <1>1, <2>1 DEF Rejected, Forms
  <2>3. EditorOK' /\ FormOK' /\ FormFlags'
    BY <1>1, <1>2, <2>1, <2>2, EInvFacts DEF EditorOK, FormOK, FormFlags
  <2> QED
    BY <1>1, <1>3, <2>3, ClientKeepsEInv
<1> QED
  BY <1>4, <1>5

(* What a reload does to the editor and its form, in one line each.        *)
LEMMA ReloadEffect ==
  ASSUME DInv, EInv, NEW m \in net, ReloadArrives(m)
  PROVE  /\ editor.open /\ editor'.open /\ editor'.mode = editor.mode /\ form'.busy = ""
         /\ \/ /\ form'.dirty = form.dirty /\ form'.entry = form.entry
               /\ form'.base = form.base /\ form'.rev = form.rev
            \/ ~form'.dirty
         /\ EditorOK' /\ FormOK'
<1>1. /\ UNCHANGED <<file, opened>> /\ editor \in Editors /\ form \in Forms /\ m.for = "reload"
      /\ m \in Requests
  BY DInvFacts DEF ReloadArrives, Arrives, entryUI
<1>2. editor.open /\ m.mode = editor.mode /\ m.entry = editor.entry
  BY <1>1, EInvFacts DEF OneWriting, Writing
<1>3. PICK rev \in Nat, e \in Named : /\ rev = IF m.answer = "ok" THEN m.at ELSE 0
                                      /\ e = IF m.mode = "edit" THEN m.entry ELSE m.typed
  BY <1>1, RequestTyped
<1>4. PICK v \in Nat : v = VersionAt(file, e, rev)
  BY VersionTyped
<1>5. PICK f : f = Reloaded(form, m.mode, e, v, rev)
  OBVIOUS
<1>6. /\ editor' = ReloadedEditor(m, rev)
      /\ form' = IF editor' # editor \/ (m.mode = "edit" /\ v # 0)
                 THEN Sync(f, editor, editor', Load(editor')) ELSE f
  BY <1>3, <1>4, <1>5 DEF ReloadArrives
<1>7. /\ editor' \in Editors /\ editor'.open /\ editor'.mode = editor.mode
      /\ editor'.entry = editor.entry
      /\ rev = 0 => editor' = editor
      /\ rev # 0 => editor'.rev = rev
      /\ rev # 0 /\ m.mode = "edit" /\ v # 0 => editor'.base = v
      /\ v = 0 => editor'.base = editor.base
  <2>1. VersionAt(file, m.entry, rev) \in Nat
    BY VersionTyped
  <2>2. m.mode = "edit" => v = VersionAt(file, m.entry, rev)
    BY <1>3, <1>4
  <2> QED
    BY <1>1, <1>2, <1>3, <1>6, <2>1, <2>2 DEF ReloadedEditor, Editors
<1>8. rev = 0 => v = 0
  BY <1>3, <1>4, VersionTyped
<1>9. CASE rev = 0 \/ (m.mode = "edit" /\ v = 0)
  <2>1. f = [form EXCEPT !.busy = ""]
    BY <1>5, <1>9 DEF Reloaded
  <2>2. /\ f.dirty = form.dirty /\ f.entry = form.entry /\ f.base = form.base /\ f.rev = form.rev
        /\ f.busy = ""
    BY <1>1, <2>1 DEF Forms
  <2>3. EditorOK'
    <3>1. CASE rev = 0
      BY <1>1, <1>7, <3>1, EInvFacts DEF EditorOK
    <3>2. CASE rev # 0 /\ m.mode = "edit" /\ v = 0
      <4>1. VersionAt(file, editor.entry, rev) = 0
        BY <1>2, <1>3, <1>4, <3>2
      <4> QED
        BY <1>1, <1>7, <3>2, <4>1 DEF EditorOK
    <3> QED
      BY <1>9, <3>1, <3>2
  <2>4. CASE form' = f
    <3>1. FormOK'
      BY <1>1, <1>2, <1>7, <2>2, <2>4, EInvFacts DEF FormOK
    <3> QED
      BY <1>2, <1>7, <2>2, <2>3, <2>4, <3>1
  <2>5. CASE form' = Load(editor')
    <3>1. ~form'.dirty /\ form'.busy = "" /\ FormOK'
      BY <1>7, <2>3, <2>5, LoadTyped DEF FormOK, EditorOK
    <3> QED
      BY <1>2, <1>7, <2>3, <3>1
  <2> QED
    BY <1>6, <1>7, <2>4, <2>5 DEF Sync
<1>10. CASE ~(rev = 0 \/ (m.mode = "edit" /\ v = 0))
  <2>1. ~f.dirty /\ f.busy = ""
    BY <1>5, <1>10 DEF Reloaded, EmptyForm
  <2>2. form' = f \/ form' = Load(editor')
    BY <1>6, <1>7 DEF Sync
  <2>3. ~form'.dirty /\ form'.busy = ""
    BY <1>7, <2>1, <2>2, LoadTyped
  <2>4. EditorOK' /\ FormOK'
    <3>1. CASE m.mode = "edit"
      <4>1. form' = Load(editor')
        BY <1>2, <1>6, <1>7, <1>10, <2>1, <3>1 DEF Sync
      <4>2. v = VersionAt(file, editor'.entry, editor'.rev) /\ editor'.base = v
        BY <1>2, <1>3, <1>4, <1>7, <1>10, <3>1
      <4> QED
        BY <1>1, <1>7, <4>1, <4>2, LoadTyped DEF EditorOK, FormOK
    <3>2. CASE m.mode # "edit"
      BY <1>2, <1>7, <3>2 DEF EditorOK, FormOK
    <3> QED
      BY <3>1, <3>2
  <2> QED
    BY <1>2, <1>7, <2>3, <2>4
<1> QED
  BY <1>9, <1>10

LEMMA ReloadArrivesKeepsEInv ==
  ASSUME DInv, EInv, NEW m \in net, ReloadArrives(m)
  PROVE  EInv'
<1>1. UNCHANGED <<file, opened>> /\ net' = net \ {m} /\ m.for = "reload"
  BY DEF ReloadArrives, Arrives, entryUI
<1>2. OneWriting'
  BY <1>1, EInvFacts DEF OneWriting, Writing
<1>3. editor'.open /\ form'.busy = "" /\ EditorOK' /\ FormOK'
  BY ReloadEffect
<1>4. FormFlags'
  BY <1>3 DEF FormFlags
<1> QED
  BY <1>1, <1>2, <1>3, <1>4, ClientKeepsEInv

LEMMA OpenArrivesKeepsEInv ==
  ASSUME DInv, EInv, NEW m \in net, OpenArrives(m)
  PROVE  EInv'
<1>1. UNCHANGED file /\ net' = net \ {m} /\ m.for = "open" /\ m.for \in Opening
  BY DEF OpenArrives, Arrives, entryUI, Opening
<1>2. ~editor.open
  BY <1>1 DEF DInv, OneOpening
<1>3. \A q \in net' : q \in net /\ q.for \notin Writing
  BY <1>1, <1>2, EInvFacts DEF OneWriting
<1>4. OneWriting'
  BY <1>3 DEF OneWriting
<1>5. EditorOK' /\ FormOK' /\ FormFlags'
  <2>1. CASE UNCHANGED <<editor, form>>
    BY <1>1, <2>1, EInvFacts DEF EditorOK, FormOK, FormFlags
  <2>2. CASE editor' \in EditorsFor(m) /\ form' = Sync(form, editor, editor', Load(editor'))
    <3>1. PICK ed : ed = editor' /\ ed \in EditorsFor(m)
      BY <2>2
    <3>2. PICK rev \in 0..Len(file) : ed = OpenedAt(m, rev)
      BY <1>1, <3>1, EditorOpened
    <3>3. m \in Requests /\ m.mode \in {"create", "edit"} /\ rev \in Nat
      BY <1>1, <3>2, DInvFacts DEF RequestOK
    <3>4. /\ ed \in Editors /\ ed.open
          /\ ed.mode = "edit" => ed.base = VersionAt(file, ed.entry, ed.rev)
      BY <3>2, <3>3, OpenedTyped
    <3>5. form' = Load(ed)
      BY <1>2, <2>2, <3>1, <3>4 DEF Sync
    <3> QED
      BY <1>1, <3>1, <3>4, <3>5, LoadTyped DEF EditorOK, FormOK, FormFlags
  <2> QED
    BY <2>1, <2>2 DEF OpenArrives
<1> QED
  BY <1>1, <1>3, <1>4, <1>5, ClientKeepsEInv

-----------------------------------------------------------------------------
LEMMA InitEInv == Init => EInv
<1> SUFFICES ASSUME Init PROVE EInv
  OBVIOUS
<1>1. editor.mode = "create" /\ editor.open = FALSE /\ form.dirty = FALSE /\ form.busy = ""
  BY DEF Init, NoEditor, EmptyForm
<1>2. \A q \in net : q.op = "read" /\ q.for = "query"
  BY DEF Init, Request
<1>3. (\A q \in net : MutationOK(q)) /\ OneWriting
  BY <1>2 DEF MutationOK, OneWriting, Writing
<1>4. EditorOK /\ FormOK /\ FormFlags
  BY <1>1 DEF EditorOK, FormOK, FormFlags
<1>5. NoLostUpdate
  <2>1. PICK c : c = [entry |-> Setting, op |-> "set", base |-> 0] /\ file = <<c>>
    BY DEF Init
  <2>2. Len(file) = 1 /\ file[1].base = 0
    BY <2>1
  <2>3. VersionAt(file, file[1].entry, 0) = 0
    BY VersionTyped
  <2>4. ASSUME NEW k \in 1..Len(file) PROVE k = 1 /\ k - 1 = 0
    BY <2>2
  <2> QED
    BY <2>2, <2>3, <2>4 DEF NoLostUpdate
<1> QED
  BY <1>3, <1>4, <1>5 DEF EInv

LEMMA StepKeepsEInv ==
  ASSUME Interrupts \subseteq {"type"}, DInv, EInv, [Next]_vars
  PROVE  EInv'
<1>0. "close" \notin Interrupts /\ "again" \notin Interrupts
  OBVIOUS
<1>1. ASSUME NEW e \in Entries, NEW op \in {"set", "remove"}, OtherWriter(e, op) PROVE EInv'
  BY <1>1, OtherWriterStep, OtherWriterSees, ServerKeepsEInv
<1>2. ASSUME NEW m \in net, Serves(m) \/ LoseAnswer(m) \/ RefuseToken(m) PROVE EInv'
  BY <1>2, ServerStepKeepsEInv
<1>3. ASSUME NEW m \in net, Arrival(m) PROVE EInv'
  <2>1. CASE SaveArrives(m)
    BY <2>1, SaveArrivesKeepsEInv
  <2>2. CASE ReloadArrives(m)
    BY <2>2, ReloadArrivesKeepsEInv
  <2>3. CASE OpenArrives(m)
    BY <2>3, OpenArrivesKeepsEInv
  <2>4. CASE DeleteOpens(m) \/ DeleteArrives(m)
    BY <2>4, DialogsKeepEInv
  <2>5. CASE ReaderSaveArrives(m) \/ SettingsArrive(m) \/ ReaderReloadArrives(m)
    BY <2>5, SettingsKeepEInv
  <2> QED
    BY <1>3, <2>1, <2>2, <2>3, <2>4, <2>5 DEF Arrival
<1>4. CASE \/ \E mode \in {"create", "edit"}, e \in Entries \union {NoEntry} : AskOpen(mode, e)
           \/ \E e \in Entries : AskDelete(e)
           \/ Tick \/ CloseDialog
  BY <1>4, DialogsKeepEInv DEF Named
<1>5. CASE CloseEditor \/ \E e \in Entries \union {NoEntry} : Type(e)
  BY <1>0, <1>5, CloseTypeKeepEInv DEF Named
<1>6. CASE Save
  BY <1>6, SaveKeepsEInv
<1>7. CASE Reload
  BY <1>0, <1>7, ReloadKeepsEInv
<1>8. CASE ConfirmDelete
  BY <1>8, ConfirmDeleteKeepsEInv
<1>9. CASE TypeReader \/ SaveReader \/ RefreshSettings \/ ReloadReader
  BY <1>9, SettingsKeepEInv
<1>10. CASE UNCHANGED vars
  BY <1>10, AsideKeepsEInv DEF vars
<1> QED
  BY <1>1, <1>2, <1>3, <1>4, <1>5, <1>6, <1>7, <1>8, <1>9, <1>10 DEF Next

(* The editors, if the user interrupts no request except by typing into    *)
(* RuntimeSettings.                                                        *)
THEOREM EditorsInvariant ==
  ASSUME Interrupts \subseteq {"type"}
  PROVE  Spec => [](DInv /\ EInv)
<1>1. "reopen" \notin Interrupts
  OBVIOUS
<1>2. DInv /\ EInv /\ [Next]_vars => (DInv /\ EInv)'
  BY <1>1, StepKeepsDInv, StepKeepsEInv
<1>3. Init => DInv /\ EInv
  BY InitDInv, InitEInv
<1> QED
  BY <1>2, <1>3, PTL DEF Spec

(* Nothing in the file is overwritten by somebody who had not loaded it.   *)
THEOREM NoUpdateIsLost ==
  ASSUME Interrupts \subseteq {"type"}
  PROVE  Spec => []NoLostUpdate
<1>1. EInv => NoLostUpdate
  BY DEF EInv
<1> QED
  BY <1>1, EditorsInvariant, PTL

(* A form never claims to know a newer version than it shows.              *)
THEOREM FormsMatchRevisions ==
  ASSUME Interrupts \subseteq {"type"}
  PROVE  Spec => []EditingInv
<1>1. DInv /\ EInv => EditingInv
  BY DEF DInv, EInv, ReaderOK, FormOK, FormMatchesRevision, EditingInv
<1> QED
  BY <1>1, EditorsInvariant, PTL

-----------------------------------------------------------------------------
(* The step DraftKept is about.                                            *)
KeepsDraft ==
  /\ form.dirty /\ ~form'.dirty =>
       \/ editor.open /\ ~editor'.open /\ net' = net
       \/ \E m \in net \ net' : m.for \in {"save", "reload"} /\ m.asked = opened
  /\ form.dirty /\ form'.dirty => <<form'.base, form'.rev>> = <<form.base, form.rev>>
  /\ reader.dirty /\ ~reader'.dirty =>
       \E m \in net \ net' : m.for \in {"reader", "readerReload"}

LEMMA EditorKeepsDraft ==
  ASSUME DInv, EInv, CloseEditor \/ (\E e \in Named : Type(e)) \/ Save \/ Reload
  PROVE  KeepsDraft
<1>1. reader' = reader /\ editor \in Editors /\ form \in Forms
  BY DInvFacts DEF CloseEditor, Type, Save, Reload, entryUI
<1>2. CASE CloseEditor
  <2>1. /\ editor.open /\ ~editor'.open /\ net' = net
        /\ form' = Sync(form, editor, editor', Load(editor'))
    BY <1>1, <1>2 DEF CloseEditor, Editors
  <2>2. form' = [form EXCEPT !.dirty = FALSE, !.busy = "", !.conflict = FALSE]
    BY <2>1 DEF Sync
  <2>3. ~form'.dirty
    BY <1>1, <2>2 DEF Forms
  <2> QED
    BY <1>1, <2>1, <2>3 DEF KeepsDraft
<1>3. ASSUME NEW e \in Named, Type(e) PROVE KeepsDraft
  <2>1. form' = [form EXCEPT !.dirty = TRUE, !.entry = e]
    BY <1>3 DEF Type, EditField
  <2>2. form'.dirty /\ form'.base = form.base /\ form'.rev = form.rev
    BY <1>1, <2>1 DEF Forms
  <2> QED
    BY <1>1, <2>2 DEF KeepsDraft
<1>4. CASE Save \/ Reload
  <2>1. form' = [form EXCEPT !.busy = "saving"] \/ form' = [form EXCEPT !.busy = "reloading"]
    BY <1>4 DEF Save, Reload
  <2>2. form'.dirty = form.dirty /\ form'.base = form.base /\ form'.rev = form.rev
    BY <1>1, <2>1 DEF Forms
  <2> QED
    BY <1>1, <2>2 DEF KeepsDraft
<1> QED
  BY <1>2, <1>3, <1>4

LEMMA AnswersKeepDraft ==
  ASSUME DInv, EInv, NEW m \in net, SaveArrives(m) \/ ReloadArrives(m) \/ OpenArrives(m)
  PROVE  KeepsDraft
<1>1. reader' = reader /\ net' = net \ {m} /\ editor \in Editors /\ form \in Forms
  BY DInvFacts DEF SaveArrives, ReloadArrives, OpenArrives, Arrives, entryUI
<1>2. CASE SaveArrives(m) \/ ReloadArrives(m)
  <2>1. m \in net \ net' /\ m.for \in {"save", "reload"} /\ m.asked = opened
    BY <1>1, <1>2, EInvFacts DEF SaveArrives, ReloadArrives, Arrives, OneWriting, Writing
  <2>2. form.dirty /\ form'.dirty => form'.base = form.base /\ form'.rev = form.rev
    <3>1. CASE ReloadArrives(m)
      BY <3>1, ReloadEffect
    <3>2. CASE SaveArrives(m) /\ m.answer = "ok"
      <4>1. /\ editor' = [editor EXCEPT !.open = FALSE]
            /\ form' = Sync([form EXCEPT !.dirty = FALSE], editor, editor', Load(editor'))
        BY <3>2 DEF SaveArrives
      <4>2. ~editor'.open
        BY <1>1, <4>1 DEF Editors
      <4>3. ~form'.dirty
        BY <1>1, <4>1, <4>2 DEF Sync, Forms
      <4> QED
        BY <4>3
    <3>3. CASE SaveArrives(m) /\ m.answer # "ok"
      BY <1>1, <3>3 DEF SaveArrives, Rejected, Forms
    <3> QED
      BY <1>2, <3>1, <3>2, <3>3
  <2> QED
    BY <1>1, <2>1, <2>2 DEF KeepsDraft
<1>3. CASE OpenArrives(m)
  <2>1. ~editor.open
    BY <1>3 DEF OpenArrives, Arrives, DInv, OneOpening, Opening
  <2>2. ~form.dirty
    BY <2>1, EInvFacts DEF FormFlags
  <2> QED
    BY <1>1, <2>2 DEF KeepsDraft
<1> QED
  BY <1>2, <1>3

LEMMA SettingsKeepDraft ==
  ASSUME DInv,
         \/ TypeReader \/ SaveReader \/ RefreshSettings \/ ReloadReader
         \/ \E m \in net : ReaderSaveArrives(m) \/ SettingsArrive(m) \/ ReaderReloadArrives(m)
  PROVE  KeepsDraft
<1>1. UNCHANGED form /\ reader \in Readers
  BY DInvFacts DEF TypeReader, SaveReader, RefreshSettings, ReloadReader, ReaderSaveArrives,
     SettingsArrive, ReaderReloadArrives, settingsUI
<1>2. CASE TypeReader \/ SaveReader \/ RefreshSettings \/ ReloadReader
  <2>1. reader.dirty => reader'.dirty
    BY <1>1, <1>2 DEF TypeReader, SaveReader, RefreshSettings, ReloadReader, Readers
  <2> QED
    BY <1>1, <2>1 DEF KeepsDraft
<1>3. ASSUME NEW m \in net, SettingsArrive(m) PROVE KeepsDraft
  <2>1. reader.dirty => reader'.dirty
    BY <1>1, <1>3 DEF SettingsArrive, Readers
  <2> QED
    BY <1>1, <2>1 DEF KeepsDraft
<1>4. ASSUME NEW m \in net, ReaderReloadArrives(m) PROVE KeepsDraft
  <2>1. m \in net \ net' /\ m.for = "readerReload"
    BY <1>4 DEF ReaderReloadArrives, Arrives
  <2> QED
    BY <1>1, <2>1 DEF KeepsDraft
<1>5. ASSUME NEW m \in net, ReaderSaveArrives(m) PROVE KeepsDraft
  <2>1. m.for = "reader"
    BY <1>5 DEF ReaderSaveArrives
  <2>2. m \notin net'
    <3>1. CASE net' = net \ {m}
      BY <3>1
    <3>2. CASE net' = Superseding(net \ {m}, Request("savedQuery", "read", "list", Setting, 0, 0))
      <4> DEFINE r == Request("savedQuery", "read", "list", Setting, 0, 0)
      <4>1. r.for = "savedQuery"
        BY DEF Request
      <4> HIDE DEF r
      <4>2. ASSUME NEW q \in net \ {m},
                   m = IF q.for \in Queries THEN [q EXCEPT !.newest = FALSE] ELSE q
            PROVE  FALSE
        <5>1. q.for \in Queries /\ q \in Requests /\ m = [q EXCEPT !.newest = FALSE]
          BY <4>2, DInvFacts
        <5>2. m.for = q.for
          BY <5>1, Refused DEF Same
        <5> QED
          BY <2>1, <5>1, <5>2 DEF Queries
      <4>3. net' = Superseding(net \ {m}, r)
        BY <3>2 DEF r
      <4> QED
        BY <2>1, <4>1, <4>2, <4>3 DEF Superseding
    <3> QED
      BY <1>5, <3>1, <3>2 DEF ReaderSaveArrives
  <2> QED
    BY <1>1, <2>1, <2>2 DEF KeepsDraft
<1> QED
  BY <1>2, <1>3, <1>4, <1>5

LEMMA StepKeepsDraft ==
  ASSUME DInv, EInv, Next
  PROVE  KeepsDraft
<1>1. CASE UNCHANGED <<form, reader>>
  BY <1>1 DEF KeepsDraft
<1>2. CASE CloseEditor \/ (\E e \in Entries \union {NoEntry} : Type(e)) \/ Save \/ Reload
  BY <1>2, EditorKeepsDraft DEF Named
<1>3. ASSUME NEW m \in net, Arrival(m) PROVE KeepsDraft
  <2>1. CASE SaveArrives(m) \/ ReloadArrives(m) \/ OpenArrives(m)
    BY <2>1, AnswersKeepDraft
  <2>2. CASE DeleteOpens(m) \/ DeleteArrives(m)
    BY <1>1, <2>2 DEF DeleteOpens, DeleteArrives, entryUI
  <2>3. CASE ReaderSaveArrives(m) \/ SettingsArrive(m) \/ ReaderReloadArrives(m)
    BY <2>3, SettingsKeepDraft
  <2> QED
    BY <1>3, <2>1, <2>2, <2>3 DEF Arrival
<1>4. CASE TypeReader \/ SaveReader \/ RefreshSettings \/ ReloadReader
  BY <1>4, SettingsKeepDraft
<1>5. ASSUME NEW m \in net, Serves(m) \/ LoseAnswer(m) \/ RefuseToken(m) PROVE KeepsDraft
  BY <1>1, <1>5, ServerStep DEF UI
<1>6. ASSUME NEW e \in Entries, NEW op \in {"set", "remove"}, OtherWriter(e, op) PROVE KeepsDraft
  BY <1>1, <1>6 DEF OtherWriter
<1>7. CASE \/ \E mode \in {"create", "edit"}, e \in Entries \union {NoEntry} : AskOpen(mode, e)
           \/ \E e \in Entries : AskDelete(e)
           \/ Tick \/ ConfirmDelete \/ CloseDialog
  BY <1>1, <1>7 DEF AskOpen, AskDelete, Tick, ConfirmDelete, CloseDialog, entryUI
<1> QED
  BY <1>2, <1>3, <1>4, <1>5, <1>6, <1>7 DEF Next

(* A draft goes only with its dialog or its own answer, and what it was    *)
(* loaded from is not replaced under it.                                   *)
THEOREM DraftsAreKept ==
  ASSUME Interrupts \subseteq {"type"}
  PROVE  Spec => DraftKept
<1>1. DInv /\ EInv /\ [Next]_vars => [KeepsDraft]_vars
  BY StepKeepsDraft
<1>2. [][KeepsDraft]_vars => DraftKept
  BY DEF DraftKept, KeepsDraft
<1> QED
  BY <1>1, <1>2, EditorsInvariant, PTL DEF Spec

=============================================================================
