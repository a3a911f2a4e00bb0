---------------------------- MODULE ProfileDraft ----------------------------
(***************************************************************************)
(* What a profile means, from the file through the form and back: the      *)
(* workflow part of ProfileEditor (src/web/src/components/ProfileEditor)   *)
(* and the half of update_profile that writes a policy into the TOML       *)
(* document (config_mutation.py), which keeps the notation it finds: a     *)
(* string, an array, an inline table or a table.                           *)
(*                                                                         *)
(* The notations say different things: shorthand has no attempts and no    *)
(* timeout of its own.  The form shows all of them as one policy, keeps    *)
(* what a user types as text, and submits every workflow of the profile.   *)
(* Concurrent writers and conflicts are in ConfigEditing.                  *)
(***************************************************************************)
EXTENDS Integers, Sequences, SequencesExt

CONSTANTS Workflows,
          AvailableTargets, \* the targets the form offers, in order
          ParentPolicy,     \* what the one other profile gives for a workflow
          Numbers,          \* the numbers an operator or a user writes
          MaxTargets,       \* bound: rows of a workflow
          MaxEdits,         \* bound: edits of the form between two saves
          MaxWrites         \* bound: edits of the file by hand, and saves

VARIABLES file,   \* the profile's table: its parent and an entry per workflow
          open,   \* the form is on screen
          form,   \* formData
          edits,  \* what is left of MaxEdits
          writes  \* what is left of MaxWrites

vars == <<file, open, form, edits, writes>>

Targets == ToSet(AvailableTargets)
Policies == [targets : Seq(Targets), max_attempts : Nat, timeout_s : Nat]
NoPolicy == [targets |-> <<>>, max_attempts |-> 0, timeout_s |-> 0]

ASSUME ProfileConstants ==
  /\ AvailableTargets # <<>> /\ Numbers \subseteq Nat /\ {0, 1} \subseteq Numbers
  /\ MaxTargets \in Nat /\ MaxEdits \in Nat /\ MaxWrites \in Nat
  /\ ParentPolicy \in [Workflows -> Policies]

\* A field of the form holds what was typed; an empty one is Blank.
Blank == -1

Distinct(targets) == targets # <<>> /\ \A i, j \in DOMAIN targets : targets[i] = targets[j] => i = j
Selections == SeqOf(Targets, MaxTargets)

-----------------------------------------------------------------------------
(* The file. *)
Entry(notation, policy) ==
  [notation |-> notation, targets |-> policy.targets,
   max_attempts |-> policy.max_attempts, timeout_s |-> policy.timeout_s]

Undeclared == Entry("none", NoPolicy)
Shorthands == {"string", "array"}

\* _target_selection: what an entry means; shorthand tries each target once.
Meaning(entry) ==
  [targets      |-> entry.targets,
   max_attempts |-> IF entry.notation \in Shorthands THEN Len(entry.targets) ELSE entry.max_attempts,
   timeout_s    |-> IF entry.notation \in Shorthands THEN 0 ELSE entry.timeout_s]

Inherited(parent, w) == IF parent THEN ParentPolicy[w] ELSE NoPolicy

\* The effective policy of a workflow.
Effective(f, w) ==
  IF f.entries[w].notation # "none" THEN Meaning(f.entries[w]) ELSE Inherited(f.extends, w)

\* Entries an operator writes by hand.
Written ==
  {Undeclared} \union
  {e \in [notation : {"string", "array", "inline", "table"}, targets : Selections,
          max_attempts : Numbers \ {0}, timeout_s : Numbers] :
     /\ Distinct(e.targets)
     /\ e.notation = "string" => Len(e.targets) = 1
     /\ e.notation \in Shorthands => e.max_attempts = 1 /\ e.timeout_s = 0}

\* Broken variant: attempts alone do not make a table of a shorthand.
AppliedTersely(entry, policy) ==
  LET table == entry.notation \in {"inline", "table"}
  IN  IF policy.timeout_s > 0 \/ table
        THEN Entry(IF table THEN entry.notation ELSE "inline", policy)
        ELSE Entry(IF Len(policy.targets) = 1 THEN "string" ELSE "array",
                   [targets |-> policy.targets, max_attempts |-> 1, timeout_s |-> 0])

\* _apply_workflow_policy: shorthand becomes a table only when it must, and a
\* single target is written as a string.
Applied(entry, policy) ==
  LET expanded == policy.timeout_s > 0 \/ policy.max_attempts # Len(policy.targets)
      table    == entry.notation \in {"inline", "table"}
  IN  IF expanded \/ table
        THEN Entry(IF table THEN entry.notation ELSE "inline", policy)
        ELSE Entry(IF Len(policy.targets) = 1 THEN "string" ELSE "array",
                   [targets |-> policy.targets, max_attempts |-> 1, timeout_s |-> 0])

-----------------------------------------------------------------------------
(* The form. *)
Fallback == [targets |-> <<AvailableTargets[1]>>, max_attempts |-> 1, timeout_s |-> 0]

Field(declared, policy) ==
  [declared |-> declared, targets |-> policy.targets,
   max_attempts |-> policy.max_attempts, timeout_s |-> policy.timeout_s]

\* Broken variant: what a workflow inherits is shown as its own.
FormOfEffective(f) ==
  [extends   |-> f.extends,
   workflows |-> [w \in Workflows |->
     LET policy == Effective(f, w)
     IN  Field(policy.targets # <<>>, IF policy.targets # <<>> THEN policy ELSE Fallback)]]

\* getInitialFormData, from what _build_profile_editor_response says.
FormOf(f) ==
  [extends   |-> f.extends,
   workflows |-> [w \in Workflows |->
     LET declared == f.entries[w].notation # "none"
         policy   == Effective(f, w)
     IN  Field(declared, IF policy.targets # <<>> THEN policy ELSE Fallback)]]

OrElse(number, fallback) == IF number \in {Blank, 0} THEN fallback ELSE number

\* What handleSubmit makes of a declared workflow.
Payload(wf) ==
  [targets |-> wf.targets, max_attempts |-> OrElse(wf.max_attempts, 1), timeout_s |-> OrElse(wf.timeout_s, 0)]

\* handleWorkflowToggle keeps what the workflow had, and offers a target again.
Toggled(wf, declared) ==
  LET targets == IF wf.targets # <<>> THEN wf.targets ELSE <<AvailableTargets[1]>>
  IN  [declared |-> declared, targets |-> targets,
       max_attempts |-> IF wf.max_attempts = Blank THEN Len(targets) ELSE wf.max_attempts,
       timeout_s |-> wf.timeout_s]

\* update_profile writes every workflow of the form.
Updated(f, draft) ==
  [extends |-> draft.extends,
   entries |-> [w \in Workflows |->
     IF draft.workflows[w].declared THEN Applied(f.entries[w], Payload(draft.workflows[w])) ELSE Undeclared]]

\* The browser refuses 0 attempts, the form an empty list, the server duplicates.
Accepted(draft) ==
  \A w \in Workflows :
    draft.workflows[w].declared =>
      draft.workflows[w].max_attempts # 0 /\ Distinct(draft.workflows[w].targets)

-----------------------------------------------------------------------------
Init ==
  /\ file = [extends |-> FALSE, entries |-> [w \in Workflows |-> Undeclared]]
  /\ open = FALSE /\ form = FormOf(file)
  /\ edits = 0 /\ writes = MaxWrites

\* What a closed form holds is not seen again: the next Open replaces it.
Close == open' = FALSE /\ form' = FormOf(file') /\ edits' = 0

WriteByHand ==
  /\ ~open /\ writes > 0
  /\ writes' = writes - 1
  /\ \/ \E w \in Workflows, e \in Written : file' = [file EXCEPT !.entries[w] = e]
     \/ file' = [file EXCEPT !.extends = ~@]
  /\ Close

Open ==
  /\ ~open /\ writes > 0
  /\ open' = TRUE /\ form' = FormOf(file) /\ edits' = MaxEdits
  /\ UNCHANGED <<file, writes>>

Edit(draft) == open /\ edits > 0 /\ edits' = edits - 1 /\ form' = draft /\ UNCHANGED <<file, open, writes>>

ChooseParent == Edit([form EXCEPT !.extends = ~@])

ToggleWorkflow ==
  \E w \in Workflows :
    Edit([form EXCEPT !.workflows[w] = Toggled(@, ~form.workflows[w].declared)])

Declared == {w \in Workflows : form.workflows[w].declared}

AddTarget ==
  \E w \in Declared :
    /\ Len(form.workflows[w].targets) < MaxTargets
    /\ Edit([form EXCEPT !.workflows[w].targets = Append(@, AvailableTargets[1])])

ChangeTarget ==
  \E w \in Declared : \E i \in DOMAIN form.workflows[w].targets, t \in Targets :
    Edit([form EXCEPT !.workflows[w].targets[i] = t])

MoveTarget ==
  \E w \in Declared : \E i \in 1 .. Len(form.workflows[w].targets) - 1 :
    LET targets == form.workflows[w].targets
    IN  Edit([form EXCEPT !.workflows[w].targets = [targets EXCEPT ![i] = targets[i + 1], ![i + 1] = targets[i]]])

RemoveTarget ==
  \E w \in Declared : \E i \in DOMAIN form.workflows[w].targets :
    Edit([form EXCEPT !.workflows[w].targets = RemoveAt(@, i)])

ChangePolicyField ==
  \E w \in Declared, n \in Numbers \union {Blank} :
    \/ Edit([form EXCEPT !.workflows[w].max_attempts = n])
    \/ Edit([form EXCEPT !.workflows[w].timeout_s = n])

\* A refused save leaves the form as it is.
Save ==
  /\ open /\ Accepted(form) /\ writes > 0
  /\ file' = Updated(file, form) /\ writes' = writes - 1
  /\ Close

Cancel == open /\ UNCHANGED <<file, writes>> /\ Close

Next ==
  \/ WriteByHand \/ Open \/ ChooseParent \/ ToggleWorkflow \/ AddTarget \/ ChangeTarget
  \/ MoveTarget \/ RemoveTarget \/ ChangePolicyField \/ Save \/ Cancel

Spec == Init /\ [][Next]_vars

-----------------------------------------------------------------------------
\* A save makes the profile mean what the form showed, whatever notation the file
\* used: the policy of every declared workflow, with an emptied field read as one
\* attempt or no timeout, and for the others what the chosen parent gives.
SavedAsShown ==
  [][file # file' /\ open =>
       \A w \in Workflows :
         Effective(file', w) = IF form.workflows[w].declared THEN Payload(form.workflows[w])
                               ELSE Inherited(form.extends, w)]_vars

\* Opening and saving is harmless: a workflow the user left as it was keeps its
\* meaning and does not turn from shorthand into a table or back, although the
\* form submits all of them.
UntouchedKept ==
  [][file # file' /\ open =>
       \A w \in Workflows :
         form.workflows[w] = FormOf(file).workflows[w] =>
           /\ form.extends = file.extends => Effective(file', w) = Effective(file, w)
           /\ (file'.entries[w].notation \in Shorthands) = (file.entries[w].notation \in Shorthands)
           /\ (file'.entries[w].notation = "none") = (file.entries[w].notation = "none")]_vars
=============================================================================
