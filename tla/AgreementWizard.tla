--------------------------- MODULE AgreementWizard --------------------------
(***************************************************************************)
(* Creating agreements in the web app: the drafts store, which every tab   *)
(* keeps in memory and writes whole to localStorage on each change         *)
(* (features/agreements/store.ts), the list page, the organization page    *)
(* and the eight-step wizard with its page state (AgreementWizardPage).    *)
(*                                                                         *)
(* The values of a step are one Value, a draft is the values of its steps; *)
(* a form that validates or not is the user's choice to press Next or not. *)
(* The browser's own back and forward buttons, and addresses typed with a  *)
(* step, are left out.                                                     *)
(***************************************************************************)
EXTENDS Naturals

CONSTANTS
    Tab,
    Draft,          \* draft ids that crypto.randomUUID may return
    New,            \* the wizard of an agreement without id
    LastStep,       \* the last step with values; the review step follows it
    Value,          \* the values of a step
    Default,        \* the values a form begins with
    NoValue,        \* a step without saved, or without kept, values
    Organization,
    NoOrganization,
    NoDraft

Step == 1 .. LastStep
Review == LastStep + 1

ASSUME ValuesAssumption ==
    Default \in Value /\ NoValue \notin Value
ASSUME StepsAssumption ==
    LastStep \in Nat /\ LastStep > 1
ASSUME NamesAssumption ==
    /\ New \notin Draft
    /\ NoOrganization \notin Organization
    /\ NoDraft \notin [Step -> Value \cup {NoValue}]

VARIABLES
    stored,     \* localStorage "sow.agreements.v1"
    memory,     \* the store of each tab
    page,       \* where each tab is
    form,       \* what the open form of each tab holds
    pending     \* the wizard's page state: values kept by Back

vars == <<stored, memory, page, form, pending>>

StepValues == [Step -> Value \cup {NoValue}]

Agreements ==
    [organization : Organization \cup {NoOrganization},
     drafts : [Draft -> StepValues \cup {NoDraft}]]

Page ==
    [at : {"list", "organization", "notFound", "wizard"},
     id : Draft \cup {New},
     step : 1 .. Review]

PageAt(at) == [at |-> at, id |-> New, step |-> 1]
Wizard(d, s) == [at |-> "wizard", id |-> d, step |-> s]

NothingKept == [s \in Step |-> NoValue]

Exists(drafts, d) == drafts[d] # NoDraft

TypeOK ==
    /\ stored \in Agreements
    /\ memory \in [Tab -> Agreements]
    /\ page \in [Tab -> Page]
    /\ form \in [Tab -> Value]
    /\ pending \in [Tab -> StepValues]
    \* An open draft is one the tab knows.
    /\ \A t \in Tab :
          page[t].at = "wizard" /\ page[t].id # New =>
              Exists(memory[t].drafts, page[t].id)

NoAgreements ==
    [organization |-> NoOrganization, drafts |-> [d \in Draft |-> NoDraft]]

Init ==
    /\ stored = NoAgreements
    /\ memory = [t \in Tab |-> NoAgreements]
    /\ page = [t \in Tab |-> PageAt("list")]
    /\ form = [t \in Tab |-> Default]
    /\ pending = [t \in Tab |-> NothingKept]

-----------------------------------------------------------------------------
(* The store.  Every set writes the tab's whole state through persist. *)

SetState(t, agreements) ==
    /\ memory' = [memory EXCEPT ![t] = agreements]
    /\ stored' = agreements

CreateDraft(t, d, v) ==
    SetState(t, [memory[t] EXCEPT !.drafts[d] =
        [s \in Step |-> IF s = 1 THEN v ELSE NoValue]])

SaveStep(t, d, s, v) ==
    IF Exists(memory[t].drafts, d)
    THEN SetState(t, [memory[t] EXCEPT !.drafts[d][s] = v])
    ELSE UNCHANGED <<memory, stored>>

DeleteDraft(t, d) ==
    SetState(t, [memory[t] EXCEPT !.drafts[d] = NoDraft])

-----------------------------------------------------------------------------
(* What the wizard shows: kept values over saved ones over the defaults. *)

Saved(drafts, d, s) == IF d = New THEN NoValue ELSE drafts[d][s]

Shown(drafts, kept, d, s) ==
    CASE s = Review -> Default
      [] s # Review /\ kept[s] # NoValue -> kept[s]
      [] s # Review /\ kept[s] = NoValue /\ Saved(drafts, d, s) # NoValue -> Saved(drafts, d, s)
      [] OTHER -> Default

\* goTo: the page stays mounted, the step's form is a new one.
GoTo(t, d, s) ==
    /\ page' = [page EXCEPT ![t] = Wizard(d, s)]
    /\ form' = [form EXCEPT ![t] = Shown(memory'[t].drafts, pending'[t], d, s)]

\* Another page opens: nothing of the wizard's page state is left.
Leave(t, to) ==
    /\ page' = [page EXCEPT ![t] = PageAt(to)]
    /\ form' = [form EXCEPT ![t] = Default]
    /\ pending' = [pending EXCEPT ![t] = NothingKept]

AtStep(t) == page[t].at = "wizard" /\ page[t].step # Review
AtReview(t) == page[t].at = "wizard" /\ page[t].step = Review

Edit(t, v) ==
    /\ AtStep(t)
    /\ v # form[t]
    /\ form' = [form EXCEPT ![t] = v]
    /\ UNCHANGED <<stored, memory, page, pending>>

NextNew(t) ==
    /\ AtStep(t) /\ page[t].id = New
    /\ \E d \in Draft :
          \* A fresh id: no tab and not the storage knows it.
          /\ ~ Exists(stored.drafts, d)
          /\ \A u \in Tab : ~ Exists(memory[u].drafts, d)
          /\ CreateDraft(t, d, form[t])
          /\ UNCHANGED pending
          /\ GoTo(t, d, 2)

NextSaved(t) ==
    LET d == page[t].id
        s == page[t].step
    IN  /\ AtStep(t) /\ d # New
        /\ SaveStep(t, d, s, form[t])
        /\ UNCHANGED pending
        /\ GoTo(t, d, s + 1)

NextStep(t) == NextNew(t) \/ NextSaved(t)

Back(t) ==
    LET d == page[t].id
        s == page[t].step
    IN  /\ page[t].at = "wizard" /\ s > 1
        /\ pending' = IF s = Review THEN pending ELSE [pending EXCEPT ![t][s] = form[t]]
        /\ UNCHANGED <<stored, memory>>
        /\ GoTo(t, d, s - 1)

\* The review's edit links.
EditFromReview(t, s) ==
    /\ AtReview(t)
    /\ UNCHANGED <<stored, memory, pending>>
    /\ GoTo(t, page[t].id, s)

-----------------------------------------------------------------------------
(* The other pages *)

OpenNew(t) ==
    /\ page[t].at = "list"
    /\ UNCHANGED <<stored, memory, pending>>
    /\ GoTo(t, New, 1)

\* documentReadiness and resumeStep: the steps of a draft without values.
Missing(draft) == {s \in Step : draft[s] = NoValue}

\* Mutant: the step after the first one without values.
ResumeStepAfter(draft) ==
    IF Missing(draft) = {} THEN Review
    ELSE 1 + CHOOSE s \in Missing(draft) : \A r \in Missing(draft) : s <= r

ResumeStep(draft) ==
    IF Missing(draft) = {} THEN Review
    ELSE CHOOSE s \in Missing(draft) : \A r \in Missing(draft) : s <= r

OpenDraft(t, d) ==
    /\ page[t].at = "list"
    /\ Exists(memory[t].drafts, d)
    /\ UNCHANGED <<stored, memory, pending>>
    /\ GoTo(t, d, ResumeStep(memory[t].drafts[d]))

\* Mutant: a draft is deleted from any page.
ConfirmDeleteAnywhere(t, d) ==
    /\ Exists(memory[t].drafts, d)
    /\ DeleteDraft(t, d)
    /\ UNCHANGED <<page, form, pending>>

ConfirmDelete(t, d) ==
    /\ page[t].at = "list"
    /\ Exists(memory[t].drafts, d)
    /\ DeleteDraft(t, d)
    /\ UNCHANGED <<page, form, pending>>

\* "My agreements" in the header and on step 1, Cancel on the organization page.
ToList(t) ==
    /\ page[t].at # "list"
    /\ UNCHANGED <<stored, memory>>
    /\ Leave(t, "list")

ToOrganization(t) ==
    /\ page[t].at = "list" \/ AtReview(t)
    /\ UNCHANGED <<stored, memory>>
    /\ Leave(t, "organization")

\* Mutant: the set replaces the state in place of merging into it.
SaveOrganizationAlone(t, o) ==
    /\ page[t].at = "organization"
    /\ SetState(t, [NoAgreements EXCEPT !.organization = o])
    /\ Leave(t, "list")

SaveOrganization(t, o) ==
    /\ page[t].at = "organization"
    /\ SetState(t, [memory[t] EXCEPT !.organization = o])
    /\ Leave(t, "list")

\* A page load: the store hydrates from localStorage, and the address says
\* which page opens.
Hydrate(t) == memory' = [memory EXCEPT ![t] = stored] /\ UNCHANGED stored

LoadWizard(t, d, s) ==
    LET gone == d # New /\ ~ Exists(stored.drafts, d) IN
    /\ Hydrate(t)
    /\ \/ gone /\ Leave(t, "notFound")
       \/ /\ ~ gone
          /\ pending' = [pending EXCEPT ![t] = NothingKept]
          /\ GoTo(t, d, s)

Reload(t) ==
    \/ page[t].at # "wizard" /\ Hydrate(t) /\ Leave(t, page[t].at)
    \/ page[t].at = "wizard" /\ LoadWizard(t, page[t].id, page[t].step)

\* The address of a draft without a step, of a draft that may be gone.
OpenAddress(t, d) == LoadWizard(t, d, 1)

-----------------------------------------------------------------------------

InWizard(t) ==
    \/ \E v \in Value : Edit(t, v)
    \/ NextStep(t)
    \/ Back(t)
    \/ \E s \in Step : EditFromReview(t, s)

Elsewhere(t) ==
    \/ OpenNew(t)
    \/ \E d \in Draft : OpenDraft(t, d) \/ ConfirmDelete(t, d)
    \/ ToList(t)
    \/ ToOrganization(t)
    \/ \E o \in Organization : SaveOrganization(t, o)
    \/ Reload(t)
    \/ \E d \in Draft : OpenAddress(t, d)

Next == \E t \in Tab : InWizard(t) \/ Elsewhere(t)

Spec == Init /\ [][Next]_vars

-----------------------------------------------------------------------------
(* Properties *)

(* The wizard walks in order: at any step it shows, the review among them,      *)
(* every earlier step of the draft is in the storage, so a draft that reaches   *)
(* the review by the app's own buttons and links has all of its values          *)
(* (resumeStep, goTo, saveStep, and a reload at any moment).                    *)
StepsAreSavedInOrder ==
    \A t \in Tab :
        LET d == page[t].id IN
        page[t].at = "wizard" /\ d # New =>
            /\ Exists(stored.drafts, d)
            /\ \A s \in Step : s < page[t].step => stored.drafts[d][s] # NoValue

(* "Two browser tabs edit the same draft: the last Next wins per step": the     *)
(* stored values of a step change by a Next on that step of that draft, and go  *)
(* only with the draft.  A Next in one tab writes back the whole store that tab *)
(* was loaded with, over the steps the other saved since, so it does not hold.  *)
LastNextWins ==
    [][\A d \in Draft, s \in Step :
          /\ Exists(stored.drafts, d)
          /\ Exists(stored.drafts, d)'
          /\ stored'.drafts[d][s] # stored.drafts[d][s]
          => \E t \in Tab : page[t] = Wizard(d, s) /\ NextStep(t)]_vars

(* "Every draft MUST be retained until the sender deletes" it, and deletion is  *)
(* permanent: a draft appears in the storage by the Next of a new agreement,    *)
(* and goes by its own confirmed deletion (the store writes all drafts on each  *)
(* set, hydrates them on a reload).                                             *)
DraftsComeAndGoAsAsked ==
    [][\A d \in Draft :
          /\ ~ Exists(stored.drafts, d) /\ Exists(stored.drafts, d)' =>
                \E t \in Tab : page'[t] = Wizard(d, 2) /\ NextNew(t)
          /\ Exists(stored.drafts, d) /\ ~ Exists(stored.drafts, d)' =>
                \E t \in Tab : ConfirmDelete(t, d)]_vars

(* What the storage holds for the sender: the values of the steps filled in so  *)
(* far, and nothing for a draft that is not there.                              *)
FilledIn(draft) ==
    [s \in {r \in Step : draft # NoDraft /\ draft[r] # NoValue} |-> draft[s]]

OnShelf == [d \in Draft |-> FilledIn(stored.drafts[d])]

Shelf == INSTANCE DraftShelf WITH
    shelf <- OnShelf,
    organization <- stored.organization

(* "Every draft MUST be retained until the sender deletes" it: whatever pages   *)
(* the tab goes through, localStorage is a shelf on which a draft is filled in  *)
(* step by step without gaps, loses nothing but by its own deletion, and no     *)
(* save touches another draft or the organization.  True of one tab.            *)
KeepsTheShelf == Shelf!Spec

(* "the previous step opens with its saved values": right after a Next, the     *)
(* step it saved would open, by Back, with what was saved.  What an earlier     *)
(* Back kept of that step stays in the page state and is shown in its place, so *)
(* it does not hold.                                                            *)
SavedStepReopensAsSaved ==
    [][\A t \in Tab :
          LET d == page[t].id
              s == page[t].step
          IN  NextSaved(t) => Shown(memory'[t].drafts, pending'[t], d, s) = form[t]]_vars

=============================================================================
