-------------------------- MODULE ProfileDraftProofs --------------------------
(***************************************************************************)
(* A profile means, after a save, what the form showed, and keeps what was *)
(* not touched, for any workflows, targets, numbers and parent, and any    *)
(* sequence of edits by hand and in the form.                              *)
(*                                                                         *)
(* The invariant is about what a file can hold: a declared workflow tries  *)
(* at least one target, at least once.  It is what makes the payload of an *)
(* untouched workflow the policy that the file already has, and what keeps *)
(* the defaults of the form from being taken for values of the file.       *)
(***************************************************************************)
EXTENDS ProfileDraft, TLAPS

Notations == {"none", "string", "array", "inline", "table"}
Entries == [notation : Notations, targets : Seq(Targets), max_attempts : Nat, timeout_s : Nat]

(* What the file may declare for a workflow.                               *)
EntryOK(e) ==
  /\ e \in Entries
  /\ e.notation # "none" => Distinct(e.targets) /\ e.max_attempts > 0

Typed   == Nat \union {Blank}
Fields  == [declared : BOOLEAN, targets : Seq(Targets), max_attempts : Typed, timeout_s : Typed]
Drafts  == [extends : BOOLEAN, workflows : [Workflows -> Fields]]
Files   == [extends : BOOLEAN, entries : [Workflows -> Entries]]

FileOK(f) == f \in Files /\ \A w \in Workflows : EntryOK(f.entries[w])

ProfileInv == FileOK(file) /\ form \in Drafts

-----------------------------------------------------------------------------
(* Policies and entries.                                                   *)

LEMMA FallbackTyped ==
  Fallback \in Policies /\ NoPolicy \in Policies
<1>1. AvailableTargets # <<>> => AvailableTargets[1] \in Targets
  BY DEF Targets, ToSet
<1> QED
  BY <1>1, ProfileConstants DEF Fallback, NoPolicy, Policies

LEMMA MeaningTyped ==
  ASSUME NEW e \in Entries
  PROVE  Meaning(e) \in Policies
BY DEF Meaning, Entries, Policies

LEMMA EffectiveTyped ==
  ASSUME NEW f, FileOK(f), NEW w \in Workflows
  PROVE  Effective(f, w) \in Policies
<1>1. f.entries[w] \in Entries
  BY DEF FileOK, EntryOK
<1>2. Inherited(f.extends, w) \in Policies
  BY FallbackTyped, ProfileConstants DEF Inherited
<1> QED
  BY <1>1, <1>2, MeaningTyped DEF Effective

LEMMA FormOfTyped ==
  ASSUME NEW f, FileOK(f)
  PROVE  FormOf(f) \in Drafts
<1>1. ASSUME NEW w \in Workflows, NEW d \in BOOLEAN, NEW p \in Policies
      PROVE  Field(d, p) \in Fields
  BY <1>1 DEF Field, Fields, Policies, Typed
<1>2. ASSUME NEW w \in Workflows
      PROVE  FormOf(f).workflows[w] \in Fields
  <2>1. (IF Effective(f, w).targets # <<>> THEN Effective(f, w) ELSE Fallback) \in Policies
    BY EffectiveTyped, FallbackTyped
  <2> QED
    BY <1>1, <2>1 DEF FormOf
<1>3. f.extends \in BOOLEAN
  BY DEF FileOK, Files
<1> QED
  BY <1>2, <1>3 DEF FormOf, Drafts

(* What a save submits for a workflow.                                     *)
LEMMA PayloadTyped ==
  ASSUME NEW d \in Fields
  PROVE  /\ Payload(d) \in Policies /\ Payload(d).targets = d.targets
         /\ d.max_attempts # 0 => Payload(d).max_attempts > 0
BY DEF Fields, Payload, Policies, OrElse, Typed, Blank

(* _apply_workflow_policy writes an entry that means the policy, in the    *)
(* notation of the entry it finds when that is a table.                    *)
LEMMA AppliedMeans ==
  ASSUME NEW e \in Entries, NEW p \in Policies, Distinct(p.targets), p.max_attempts > 0
  PROVE  /\ EntryOK(Applied(e, p)) /\ Applied(e, p).notation # "none"
         /\ Meaning(Applied(e, p)) = p
         /\ e.notation \in {"inline", "table"} => Applied(e, p).notation = e.notation
         /\ e.notation \notin {"inline", "table"} =>
              (Applied(e, p).notation \in Shorthands <=> p.timeout_s = 0 /\ p.max_attempts = Len(p.targets))
<1> DEFINE expanded == p.timeout_s > 0 \/ p.max_attempts # Len(p.targets)
           table    == e.notation \in {"inline", "table"}
<1>1. /\ p.targets \in Seq(Targets) /\ p.max_attempts \in Nat /\ p.timeout_s \in Nat
      /\ Len(p.targets) \in Nat /\ e.notation \in Notations
      /\ p = [targets |-> p.targets, max_attempts |-> p.max_attempts, timeout_s |-> p.timeout_s]
  BY DEF Policies, Entries
<1>2. CASE expanded \/ table
  <2>1. Applied(e, p) = Entry(IF table THEN e.notation ELSE "inline", p)
    BY <1>2 DEF Applied
  <2>2. Applied(e, p) = [notation |-> IF table THEN e.notation ELSE "inline", targets |-> p.targets,
                         max_attempts |-> p.max_attempts, timeout_s |-> p.timeout_s]
    BY <2>1 DEF Entry
  <2> QED
    BY <1>1, <1>2, <2>2 DEF EntryOK, Entries, Notations, Meaning, Shorthands
<1>3. CASE ~expanded /\ ~table
  <2>1. Applied(e, p) = Entry(IF Len(p.targets) = 1 THEN "string" ELSE "array",
                              [targets |-> p.targets, max_attempts |-> 1, timeout_s |-> 0])
    BY <1>3 DEF Applied
  <2>2. Applied(e, p) = [notation |-> IF Len(p.targets) = 1 THEN "string" ELSE "array",
                         targets |-> p.targets, max_attempts |-> 1, timeout_s |-> 0]
    BY <2>1 DEF Entry
  <2>3. p.timeout_s = 0 /\ p.max_attempts = Len(p.targets)
    BY <1>1, <1>3
  <2> QED
    BY <1>1, <1>3, <2>2, <2>3 DEF EntryOK, Entries, Notations, Meaning, Shorthands
<1> QED
  BY <1>2, <1>3

-----------------------------------------------------------------------------
(* A save.                                                                 *)

LEMMA SavedEntry ==
  ASSUME ProfileInv, Accepted(form), NEW w \in Workflows, file' = Updated(file, form)
  PROVE  /\ file'.extends = form.extends
         /\ form.workflows[w] \in Fields
         /\ form.workflows[w].declared =>
              /\ file'.entries[w] = Applied(file.entries[w], Payload(form.workflows[w]))
              /\ Payload(form.workflows[w]) \in Policies
              /\ Distinct(Payload(form.workflows[w]).targets)
              /\ Payload(form.workflows[w]).max_attempts > 0
         /\ ~form.workflows[w].declared => file'.entries[w] = Undeclared
<1>1. form.workflows[w] \in Fields
  BY DEF ProfileInv, Drafts
<1> QED
  BY <1>1, PayloadTyped DEF Updated, Accepted

LEMMA UndeclaredOK ==
  EntryOK(Undeclared) /\ Undeclared.notation = "none"
BY FallbackTyped DEF Undeclared, Entry, EntryOK, Entries, Notations, Policies

LEMMA SavedFileOK ==
  ASSUME ProfileInv, Accepted(form), file' = Updated(file, form)
  PROVE  FileOK(file')
<1>1. ASSUME NEW w \in Workflows PROVE EntryOK(file'.entries[w])
  <2>1. file.entries[w] \in Entries
    BY DEF ProfileInv, FileOK, EntryOK
  <2> QED
    BY <2>1, SavedEntry, AppliedMeans, UndeclaredOK
<1>2. form.extends \in BOOLEAN
  BY DEF ProfileInv, Drafts
<1> QED
  BY <1>1, <1>2 DEF FileOK, Files, Updated, EntryOK

-----------------------------------------------------------------------------
(* The edits of the form.                                                  *)

LEMMA DraftWith ==
  ASSUME form \in Drafts, NEW w \in Workflows, NEW d \in Fields
  PROVE  [form EXCEPT !.workflows[w] = d] \in Drafts
BY DEF Drafts

LEMMA FieldFacts ==
  ASSUME form \in Drafts, NEW w \in Workflows
  PROVE  /\ form.workflows[w] \in Fields
         /\ form.workflows[w].targets \in Seq(Targets)
         /\ form.workflows[w].declared \in BOOLEAN
BY DEF Drafts, Fields

LEMMA WithTargets ==
  ASSUME form \in Drafts, NEW w \in Workflows, NEW targets \in Seq(Targets)
  PROVE  [form EXCEPT !.workflows[w].targets = targets] \in Drafts
<1>1. [form.workflows[w] EXCEPT !.targets = targets] \in Fields
  BY FieldFacts DEF Fields
<1> QED
  BY <1>1, DraftWith

LEMMA EditsKeepTypes ==
  ASSUME form \in Drafts,
         \/ ChooseParent \/ ToggleWorkflow \/ AddTarget \/ ChangeTarget \/ MoveTarget
         \/ RemoveTarget \/ ChangePolicyField
  PROVE  form' \in Drafts /\ UNCHANGED <<file, open>>
<1>1. AvailableTargets # <<>> /\ AvailableTargets[1] \in Targets /\ Fallback \in Policies
  <2>1. <<AvailableTargets[1]>>[1] = AvailableTargets[1] /\ Fallback.targets \in Seq(Targets)
    BY FallbackTyped DEF Fallback, Policies
  <2> QED
    BY <2>1, FallbackTyped, ProfileConstants DEF Fallback
<1>2. CASE ChooseParent
  BY <1>2 DEF ChooseParent, Edit, Drafts
<1>3. CASE ToggleWorkflow
  <2>1. PICK w \in Workflows :
          Edit([form EXCEPT !.workflows[w] = Toggled(@, ~form.workflows[w].declared)])
    BY <1>3 DEF ToggleWorkflow
  <2>2. Toggled(form.workflows[w], ~form.workflows[w].declared) \in Fields
    BY <1>1, FieldFacts DEF Toggled, Fields, Typed
  <2> QED
    BY <2>1, <2>2, DraftWith DEF Edit
<1>4. CASE AddTarget
  <2>1. PICK w \in Workflows :
          Edit([form EXCEPT !.workflows[w].targets = Append(@, AvailableTargets[1])])
    BY <1>4 DEF AddTarget, Declared
  <2>2. Append(form.workflows[w].targets, AvailableTargets[1]) \in Seq(Targets)
    BY <1>1, FieldFacts
  <2> QED
    BY <2>1, <2>2, WithTargets DEF Edit
<1>5. CASE ChangeTarget
  <2>1. PICK w \in Workflows : \E i \in DOMAIN form.workflows[w].targets, t \in Targets :
          Edit([form EXCEPT !.workflows[w].targets[i] = t])
    BY <1>5 DEF ChangeTarget, Declared
  <2>2. PICK i \in DOMAIN form.workflows[w].targets, t \in Targets :
          Edit([form EXCEPT !.workflows[w].targets[i] = t])
    BY <2>1
  <2>3. [form.workflows[w].targets EXCEPT ![i] = t] \in Seq(Targets)
    BY FieldFacts
  <2>4. form' = [form EXCEPT !.workflows[w].targets = [@ EXCEPT ![i] = t]]
    BY <2>2 DEF Edit
  <2> QED
    BY <2>2, <2>3, <2>4, WithTargets DEF Edit
<1>6. CASE MoveTarget
  <2>1. PICK w \in Workflows : \E i \in 1 .. Len(form.workflows[w].targets) - 1 :
          LET targets == form.workflows[w].targets
          IN  Edit([form EXCEPT !.workflows[w].targets =
                      [targets EXCEPT ![i] = targets[i + 1], ![i + 1] = targets[i]]])
    BY <1>6 DEF MoveTarget, Declared
  <2> DEFINE targets == form.workflows[w].targets
  <2>2. PICK i \in 1 .. Len(targets) - 1 :
          Edit([form EXCEPT !.workflows[w].targets =
                  [targets EXCEPT ![i] = targets[i + 1], ![i + 1] = targets[i]]])
    BY <2>1
  <2>3. targets \in Seq(Targets)
    BY FieldFacts
  <2> HIDE DEF targets
  <2>4. i \in DOMAIN targets /\ i + 1 \in DOMAIN targets
    BY <2>3
  <2>5. [targets EXCEPT ![i] = targets[i + 1], ![i + 1] = targets[i]] \in Seq(Targets)
    BY <2>3, <2>4
  <2> QED
    BY <2>2, <2>5, WithTargets DEF Edit
<1>7. CASE RemoveTarget
  <2>1. PICK w \in Workflows : \E i \in DOMAIN form.workflows[w].targets :
          Edit([form EXCEPT !.workflows[w].targets = RemoveAt(@, i)])
    BY <1>7 DEF RemoveTarget, Declared
  <2>2. PICK i \in DOMAIN form.workflows[w].targets :
          Edit([form EXCEPT !.workflows[w].targets = RemoveAt(@, i)])
    BY <2>1
  <2>3. RemoveAt(form.workflows[w].targets, i) \in Seq(Targets)
    BY FieldFacts DEF RemoveAt
  <2> QED
    BY <2>2, <2>3, WithTargets DEF Edit
<1>8. CASE ChangePolicyField
  <2>1. PICK w \in Workflows, n \in Numbers \union {Blank} :
          \/ Edit([form EXCEPT !.workflows[w].max_attempts = n])
          \/ Edit([form EXCEPT !.workflows[w].timeout_s = n])
    BY <1>8 DEF ChangePolicyField, Declared
  <2>2. /\ [form.workflows[w] EXCEPT !.max_attempts = n] \in Fields
        /\ [form.workflows[w] EXCEPT !.timeout_s = n] \in Fields
    BY FieldFacts, ProfileConstants DEF Fields, Typed
  <2> QED
    BY <2>1, <2>2, DraftWith DEF Edit
<1> QED
  BY <1>2, <1>3, <1>4, <1>5, <1>6, <1>7, <1>8

LEMMA WrittenOK ==
  ASSUME NEW e \in Written
  PROVE  EntryOK(e)
<1>1. Selections \subseteq Seq(Targets)
  <2>1. ASSUME NEW s \in Selections PROVE s \in Seq(Targets)
    <3>1. PICK m \in 0 .. MaxTargets : s \in [1 .. m -> Targets]
      BY DEF Selections, SeqOf
    <3> QED
      BY <3>1, ProfileConstants
  <2> QED
    BY <2>1
<1>2. ASSUME e # Undeclared
      PROVE  /\ e \in [notation : {"string", "array", "inline", "table"}, targets : Selections,
                       max_attempts : Numbers \ {0}, timeout_s : Numbers]
             /\ Distinct(e.targets)
  BY <1>2 DEF Written
<1>3. \A n \in Numbers : n \in Nat /\ (n # 0 => n > 0)
  BY ProfileConstants
<1> HIDE DEF Selections
<1> QED
  BY <1>1, <1>2, <1>3, UndeclaredOK DEF EntryOK, Entries, Notations

(* The inductive invariant: a declared workflow of the file can always be  *)
(* tried, and the fields of the form are numbers or empty.                                *)
THEOREM ProfilesInvariant == Spec => []ProfileInv
<1>1. Init => ProfileInv
  <2> SUFFICES ASSUME Init PROVE ProfileInv
    OBVIOUS
  <2>1. FileOK(file)
    BY UndeclaredOK DEF Init, FileOK, Files, EntryOK
  <2> QED
    BY <2>1, FormOfTyped DEF Init, ProfileInv
<1>2. ProfileInv /\ [Next]_vars => ProfileInv'
  <2> SUFFICES ASSUME ProfileInv, [Next]_vars PROVE ProfileInv'
    OBVIOUS
  <2> USE DEF ProfileInv
  <2>1. CASE WriteByHand
    <3>1. FileOK(file')
      <4>1. ASSUME NEW w \in Workflows, NEW e \in Written, file' = [file EXCEPT !.entries[w] = e]
            PROVE  FileOK(file')
        BY <4>1, WrittenOK DEF FileOK, Files, EntryOK
      <4>2. ASSUME file' = [file EXCEPT !.extends = ~@]
            PROVE  FileOK(file')
        BY <4>2 DEF FileOK, Files
      <4> QED
        BY <2>1, <4>1, <4>2 DEF WriteByHand
    <3> QED
      BY <2>1, <3>1, FormOfTyped DEF WriteByHand, Close
  <2>2. CASE Open
    BY <2>2, FormOfTyped DEF Open
  <2>3. CASE \/ ChooseParent \/ ToggleWorkflow \/ AddTarget \/ ChangeTarget \/ MoveTarget
             \/ RemoveTarget \/ ChangePolicyField
    BY <2>3, EditsKeepTypes
  <2>4. CASE Save
    BY <2>4, SavedFileOK, FormOfTyped DEF Save, Close
  <2>5. CASE Cancel
    BY <2>5, FormOfTyped DEF Cancel, Close
  <2>6. CASE UNCHANGED vars
    BY <2>6 DEF vars
  <2> QED
    BY <2>1, <2>2, <2>3, <2>4, <2>5, <2>6 DEF Next
<1> QED
  BY <1>1, <1>2, PTL DEF Spec

(* Only a save changes the file while the form is on screen.               *)
LEMMA ChangeIsSave ==
  ASSUME ProfileInv, [Next]_vars, file # file', open
  PROVE  Accepted(form) /\ file' = Updated(file, form)
<1>1. ~(\/ ChooseParent \/ ToggleWorkflow \/ AddTarget \/ ChangeTarget \/ MoveTarget
        \/ RemoveTarget \/ ChangePolicyField)
  BY EditsKeepTypes DEF ProfileInv
<1> QED
  BY <1>1 DEF Next, vars, WriteByHand, Open, Save, Cancel

-----------------------------------------------------------------------------
(* A save makes the profile mean what the form showed, in whatever         *)
(* notation the file declared its workflows (handleSubmit, update_profile  *)
(* and _apply_workflow_policy together).                                   *)
THEOREM SavesWhatIsShown == Spec => SavedAsShown
<1> DEFINE Shown(w) == Effective(file', w) = IF form.workflows[w].declared THEN Payload(form.workflows[w])
                                             ELSE Inherited(form.extends, w)
<1>1. ProfileInv /\ [Next]_vars =>
        [file # file' /\ open => \A w \in Workflows : Shown(w)]_vars
  <2> SUFFICES ASSUME ProfileInv, [Next]_vars, file # file', open, NEW w \in Workflows
               PROVE  Shown(w)
    OBVIOUS
  <2>1. Accepted(form) /\ file' = Updated(file, form)
    BY ChangeIsSave
  <2>2. file.entries[w] \in Entries
    BY DEF ProfileInv, FileOK, EntryOK
  <2>3. CASE form.workflows[w].declared
    BY <2>1, <2>2, <2>3, SavedEntry, AppliedMeans DEF Effective
  <2>4. CASE ~form.workflows[w].declared
    BY <2>1, <2>4, SavedEntry, UndeclaredOK DEF Effective
  <2> QED
    BY <2>3, <2>4
<1> QED
  BY <1>1, ProfilesInvariant, PTL DEF Spec, SavedAsShown

(* A workflow the user did not touch, though the form submits it.          *)
LEMMA UntouchedEntry ==
  ASSUME ProfileInv, NEW w \in Workflows, Accepted(form), file' = Updated(file, form),
         form.workflows[w] = FormOf(file).workflows[w]
  PROVE  /\ form.extends = file.extends => Effective(file', w) = Effective(file, w)
         /\ (file'.entries[w].notation \in Shorthands) <=> (file.entries[w].notation \in Shorthands)
         /\ (file'.entries[w].notation = "none") <=> (file.entries[w].notation = "none")
<1> DEFINE e == file.entries[w]
           wf == form.workflows[w]
<1>1. e \in Entries /\ EntryOK(e) /\ e.notation \in Notations
  BY DEF ProfileInv, FileOK, EntryOK, Entries
<1>2. /\ wf.declared <=> e.notation # "none"
      /\ wf = Field(e.notation # "none", IF Effective(file, w).targets # <<>> THEN Effective(file, w) ELSE Fallback)
  <2>1. wf = Field(e.notation # "none", IF Effective(file, w).targets # <<>> THEN Effective(file, w) ELSE Fallback)
    BY DEF FormOf
  <2>2. \A d \in BOOLEAN : \A p : Field(d, p).declared = d
    BY DEF Field
  <2>3. (e.notation # "none") \in BOOLEAN
    OBVIOUS
  <2> HIDE DEF e, wf
  <2>4. wf.declared = (e.notation # "none")
    BY <2>1, <2>2, <2>3
  <2> QED
    BY <2>1, <2>4
<1>3. CASE e.notation = "none"
  <2>1. file'.entries[w] = Undeclared
    BY <1>2, <1>3, SavedEntry
  <2> QED
    BY <1>3, <2>1, UndeclaredOK DEF Effective, Updated, Shorthands
<1>4. CASE e.notation # "none"
  <2>1. e.targets # <<>> /\ Distinct(e.targets) /\ e.max_attempts > 0
    BY <1>1, <1>4 DEF EntryOK, Distinct
  <2>2. Meaning(e) \in Policies /\ Meaning(e).targets = e.targets /\ Len(e.targets) \in Nat \ {0}
    BY <1>1, <2>1, MeaningTyped DEF Meaning, Entries
  <2>3. wf = Field(TRUE, Meaning(e))
    BY <1>2, <1>4, <2>1, <2>2 DEF Effective
  <2>4. Meaning(e).max_attempts \in Nat \ {0} /\ Meaning(e).timeout_s \in Nat
    BY <1>1, <2>1, <2>2 DEF Meaning, Entries
  <2>5. Payload(wf) = Meaning(e)
    BY <2>2, <2>3, <2>4 DEF Payload, Field, OrElse, Blank, Policies
  <2>6. file'.entries[w] = Applied(e, Meaning(e))
    BY <1>2, <1>4, <2>5, SavedEntry
  <2>7. /\ Applied(e, Meaning(e)).notation # "none"
        /\ Meaning(Applied(e, Meaning(e))) = Meaning(e)
        /\ e.notation \in {"inline", "table"} => Applied(e, Meaning(e)).notation = e.notation
        /\ e.notation \notin {"inline", "table"} =>
             (Applied(e, Meaning(e)).notation \in Shorthands
                <=> Meaning(e).timeout_s = 0 /\ Meaning(e).max_attempts = Len(Meaning(e).targets))
    BY <1>1, <2>1, <2>2, <2>4, AppliedMeans
  <2>8. e.notation \in Shorthands =>
          Meaning(e).timeout_s = 0 /\ Meaning(e).max_attempts = Len(Meaning(e).targets)
    BY DEF Meaning
  <2> HIDE DEF e
  <2> QED
    BY <1>1, <1>4, <2>6, <2>7, <2>8 DEF Effective, Notations, Shorthands, e
<1> QED
  BY <1>3, <1>4

(* UntouchedKept: opening and saving is harmless to what the user left as   *)
(* it was, in meaning and in notation (handleSubmit, update_profile).      *)
THEOREM UntouchedStays == Spec => UntouchedKept
<1> DEFINE Kept(w) ==
      form.workflows[w] = FormOf(file).workflows[w] =>
        /\ form.extends = file.extends => Effective(file', w) = Effective(file, w)
        /\ (file'.entries[w].notation \in Shorthands) = (file.entries[w].notation \in Shorthands)
        /\ (file'.entries[w].notation = "none") = (file.entries[w].notation = "none")
<1>1. ProfileInv /\ [Next]_vars =>
        [file # file' /\ open => \A w \in Workflows : Kept(w)]_vars
  <2> SUFFICES ASSUME ProfileInv, [Next]_vars, file # file', open, NEW w \in Workflows
               PROVE  Kept(w)
    OBVIOUS
  <2>1. Accepted(form) /\ file' = Updated(file, form)
    BY ChangeIsSave
  <2> QED
    BY <2>1, UntouchedEntry
<1> QED
  BY <1>1, ProfilesInvariant, PTL DEF Spec, UntouchedKept
=============================================================================
