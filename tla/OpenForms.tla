------------------------------ MODULE OpenForms ------------------------------
(***************************************************************************)
(* Several people with one item open: what each form holds of it, the      *)
(* checks that bring in changes made elsewhere, and the saves the server   *)
(* merges field by field, refuses, and logs (ItemEditForm.jsx,             *)
(* fieldMerge.js, field_changes.py, routers/inventory.py).  The errors of  *)
(* the item are saved beside its fields, as one set.                       *)
(***************************************************************************)
EXTENDS Naturals

CONSTANTS
  Editor,      \* the forms open on the item
  Values,      \* the values of each field, and of the set of errors
  TypesOn,     \* a person goes on typing while a save is out
  MaxSaves   \* how often the item is saved

VARIABLES
  fields,      \* each field's value, as stored
  faults,      \* the set of errors recorded
  version,
  newest,        \* what the change log says each holds: its newest row
  form         \* each form

formVars == <<fields, faults, version, newest, form>>

Field == DOMAIN Values \ {"errors"}

Stored == [fields |-> fields, version |-> version]
NoDraft == [f \in {} |-> 0]
Unread == [fields |-> NoDraft, version |-> 0]

-----------------------------------------------------------------------------
(* A FORM.  `seen` is what its person saw stored since the edit of a field *)
(* began: beside the field, or in the list of conflicts.                   *)

ConflictsOf(item, base, draft) ==
  {f \in DOMAIN draft : item[f] # base[f] /\ item[f] # draft[f]}

Conflicts(w) == ConflictsOf(w.item.fields, w.base, w.draft)

Shown(w) ==
  [w EXCEPT !.seen = [f \in Field |->
     (IF f \in DOMAIN w.draft THEN w.seen[f] ELSE {})
       \cup (IF f \in DOMAIN w.draft \ Conflicts(w) THEN {} ELSE {w.item.fields[f]})]]

\* Mutant: an edited field takes the fresh base too.
RebaseAll(fresh, base, draft) == fresh

\* A fresh item as the new base, but for the fields being edited.
Rebase(fresh, base, draft) ==
  [f \in Field |-> IF f \in DOMAIN draft THEN base[f] ELSE fresh[f]]

TakeIn(w, fresh) ==
  Shown([w EXCEPT !.item = fresh,
                  !.base = Rebase(fresh.fields, w.base, w.draft)])

Adopt(w, body, typed) ==
  Shown([w EXCEPT !.item = body, !.base = body.fields, !.draft = typed])

\* What was typed while a save was out.
TypedSince(now, sent) ==
  [f \in {g \in DOMAIN now : g \notin DOMAIN sent \/ sent[g] # now[g]} |-> now[f]]

ErrorsChanged(w) == w.errors # w.savedErrors

HoldsAnything(w) == w.draft # NoDraft \/ ErrorsChanged(w)

Opened ==
  [item |-> Stored, base |-> fields, draft |-> NoDraft,
   seen |-> [f \in Field |-> {fields[f]}],
   errors |-> faults, savedErrors |-> faults, at |-> "open",
   sent |-> NoDraft, read |-> Unread, probe |-> {}]

FormsInit ==
  /\ fields = [f \in Field |-> CHOOSE u \in Values[f] : TRUE]
  /\ faults = CHOOSE u \in Values["errors"] : TRUE
  /\ version = 1
  /\ newest = [fields |-> fields, errors |-> faults]
  /\ form = [e \in Editor |-> Opened]

Back(w) == [w EXCEPT !.at = "open", !.sent = NoDraft, !.read = Unread]

Set(e, w) == form' = [form EXCEPT ![e] = w]

-----------------------------------------------------------------------------
(* AT THE FORM.                                                            *)

MayType(w) == w.at = "open" \/ TypesOn

WithTyped(draft, f, v) ==
  [g \in DOMAIN draft \cup {f} |-> IF g = f THEN v ELSE draft[g]]

\* Typing what is stored already is left out.
Type(e, f, v) ==
  /\ MayType(form[e]) /\ v # form[e].item.fields[f]
  /\ Set(e, Shown([form[e] EXCEPT !.draft = WithTyped(form[e].draft, f, v)]))
  /\ UNCHANGED <<fields, faults, version, newest>>

EditErrors(e, v) ==
  /\ form[e].at = "open"
  /\ Set(e, [form[e] EXCEPT !.errors = v])
  /\ UNCHANGED <<fields, faults, version, newest>>

KeepMine(e, f) ==
  /\ form[e].at = "open" /\ f \in Conflicts(form[e])
  /\ Set(e, Shown([form[e] EXCEPT !.base[f] = form[e].item.fields[f]]))
  /\ UNCHANGED <<fields, faults, version, newest>>

UseTheirs(e, f) ==
  LET w == form[e] IN
  /\ w.at = "open" /\ f \in Conflicts(w)
  /\ Set(e, Shown([w EXCEPT !.base[f] = w.item.fields[f],
                            !.draft = [g \in DOMAIN w.draft \ {f} |-> w.draft[g]]]))
  /\ UNCHANGED <<fields, faults, version, newest>>

\* The check, on a timer and at focus, reads the item; its answer may come
\* back after a save's.
Look(e) ==
  /\ form[e].probe = {} /\ form[e].item.version # version
  /\ Set(e, [form[e] EXCEPT !.probe = {Stored}])
  /\ UNCHANGED <<fields, faults, version, newest>>

\* Mutant: whatever the check answers is taken.
AnyAnswer(w, fresh) == TRUE

Newer(w, fresh) == fresh.version > w.item.version

Arrives(e) ==
  LET w == form[e] IN
  /\ \E fresh \in w.probe :
       Set(e, [(IF Newer(w, fresh) THEN TakeIn(w, fresh) ELSE w)
                 EXCEPT !.probe = {}])
  /\ UNCHANGED <<fields, faults, version, newest>>

-----------------------------------------------------------------------------
(* A SAVE: the fields, then the errors, then the item read back.           *)

\* Save, pressed with a conflict waiting for a choice, sends nothing.
Press(e) ==
  LET w == form[e] IN
  /\ w.at = "open" /\ HoldsAnything(w) /\ Conflicts(w) = {}
  /\ Set(e, [w EXCEPT !.at = IF w.draft = NoDraft THEN "rest" ELSE "sent",
                      !.sent = w.draft])
  /\ UNCHANGED <<fields, faults, version, newest>>

\* Mutant: the version alone is compared, as it was before there was a base.
ClashingNever(now, w) == {}

Clashing(now, w) == ConflictsOf(now, w.base, w.sent)

\* The request reads the item and compares; a refusal for a conflict has the
\* form read the item again.
Merge(e) ==
  LET w == form[e] IN
  /\ w.at = "sent"
  /\ IF Clashing(fields, w) = {}
     THEN Set(e, [w EXCEPT !.at = "writing", !.read = Stored])
     ELSE Set(e, [Back(w) EXCEPT !.probe = {Stored}])
  /\ UNCHANGED <<fields, faults, version, newest>>

Merged(w) == [f \in Field |-> IF f \in DOMAIN w.sent THEN w.sent[f] ELSE fields[f]]

Moves(w) == \E f \in DOMAIN w.sent : w.sent[f] # w.read.fields[f]

\* Mutant: the UPDATE does not ask for the version it read.
UnmovedOrNot(w) == TRUE

Unmoved(w) == version = w.read.version

\* The change log: a row for each field sent whose value moved.
Logged(w) ==
  [f \in Field |-> IF f \in DOMAIN w.sent /\ w.read.fields[f] # Merged(w)[f]
                   THEN Merged(w)[f] ELSE newest.fields[f]]

Write(e) ==
  LET w == form[e] IN
  /\ w.at = "writing" /\ Moves(w) /\ Unmoved(w) /\ version <= MaxSaves
  /\ fields' = Merged(w) /\ version' = version + 1
  /\ newest' = [newest EXCEPT !.fields = Logged(w)]
  /\ Set(e, [w EXCEPT !.at = "rest", !.read = Unread])
  /\ UNCHANGED faults

\* Nothing sent differs from what is stored: nothing is written.
WriteNothing(e) ==
  /\ form[e].at = "writing" /\ ~Moves(form[e])
  /\ Set(e, [form[e] EXCEPT !.at = "rest", !.read = Unread])
  /\ UNCHANGED <<fields, faults, version, newest>>

\* A save landed between the read and the write.
SaveRefused(e) ==
  /\ form[e].at = "writing" /\ Moves(form[e]) /\ ~Unmoved(form[e])
  /\ Set(e, Back(form[e]))
  /\ UNCHANGED <<fields, faults, version, newest>>

ReadForErrors(e) ==
  LET w == form[e] IN
  /\ w.at = "rest"
  /\ Set(e, IF ErrorsChanged(w) THEN [w EXCEPT !.at = "errors", !.read = Stored]
            ELSE [w EXCEPT !.at = "reading"])
  /\ UNCHANGED <<fields, faults, version, newest>>

\* The set now recorded is the one this edit began from, or what it sends.
ErrorsUnmoved(w) == faults \in {w.savedErrors, w.errors}

PutErrors(e) ==
  LET w == form[e]
      moves == faults # w.errors
  IN
  /\ w.at = "errors" /\ ErrorsUnmoved(w) /\ (moves => Unmoved(w))
  /\ (moves => version <= MaxSaves)
  /\ faults' = w.errors /\ newest' = [newest EXCEPT !.errors = w.errors]
  /\ version' = IF moves THEN version + 1 ELSE version
  /\ Set(e, [w EXCEPT !.at = "reading", !.read = Unread, !.savedErrors = w.errors])
  /\ UNCHANGED fields

ErrorsRefused(e) ==
  LET w == form[e] IN
  /\ w.at = "errors"
  /\ ~ErrorsUnmoved(w) \/ (faults # w.errors /\ ~Unmoved(w))
  /\ Set(e, [w EXCEPT !.at = "reading", !.read = Unread,
                      !.savedErrors = faults, !.errors = faults])
  /\ UNCHANGED <<fields, faults, version, newest>>

ReadBack(e) ==
  LET w == form[e] IN
  /\ w.at = "reading"
  /\ Set(e, Back(Adopt(w, Stored, TypedSince(w.draft, w.sent))))
  /\ UNCHANGED <<fields, faults, version, newest>>

\* Saved, but not read back: the draft stays as it was.
ReadBackFails(e) ==
  /\ form[e].at = "reading"
  /\ Set(e, Back(form[e]))
  /\ UNCHANGED <<fields, faults, version, newest>>

SaveStep(e) ==
  \/ Press(e) \/ Merge(e) \/ Write(e) \/ WriteNothing(e) \/ SaveRefused(e)
  \/ ReadForErrors(e) \/ PutErrors(e) \/ ErrorsRefused(e)
  \/ ReadBack(e) \/ ReadBackFails(e)

FormsNext ==
  \E e \in Editor :
    \/ \E f \in Field :
         KeepMine(e, f) \/ UseTheirs(e, f) \/ \E v \in Values[f] : Type(e, f, v)
    \/ \E v \in Values["errors"] : EditErrors(e, v)
    \/ Look(e) \/ Arrives(e) \/ SaveStep(e)

FormsSpec == FormsInit /\ [][FormsNext]_formVars

-----------------------------------------------------------------------------
(* PROPERTIES.                                                             *)

Writes(e, f) ==
  /\ form[e].at = "writing" /\ form'[e].at = "rest" /\ f \in DOMAIN form[e].sent
  /\ fields'[f] # fields[f]

WritesErrors(e) ==
  form[e].at = "errors" /\ form'[e].at = "reading" /\ faults' # faults

(* A save replaces a field's value only where its person has seen that     *)
(* value, beside the field or as a conflict, and the errors only where the *)
(* set it began from is the one recorded: "would show as a conflict ...    *)
(* rather than being overwritten or adopted unseen" (ItemEditForm.jsx:551).*)
NothingOverwrittenUnseen ==
  [][\A e \in Editor :
       /\ \A f \in Field : Writes(e, f) => fields[f] \in form[e].seen[f]
       /\ WritesErrors(e) => form[e].savedErrors = faults]_formVars

(* A form never goes back to an older item than it holds.                  *)
FormsOnlyAdvance ==
  [][\A e \in Editor : form'[e].item.version >= form[e].item.version]_formVars

(* The newest row of each field's change log says what the item holds, as  *)
(* the list of conflicts and the history rely on.                          *)
LogTells == newest.fields = fields /\ newest.errors = faults

(* Several people's edits of one item merge: nothing is replaced unseen,   *)
(* nothing old comes back, and the log tells what is held.                 *)
EditsMerge == []LogTells /\ NothingOverwrittenUnseen /\ FormsOnlyAdvance
=============================================================================
