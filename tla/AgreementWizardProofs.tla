------------------------ MODULE AgreementWizardProofs -----------------------
(* Theorems about AgreementWizard, for any drafts, values and steps.  What  *)
(* the storage holds is proved of one tab; types of any number of them.     *)
EXTENDS AgreementWizard, WellFoundedInduction, TLAPS

\* One tab: what it has in memory is what is stored.
OneTab == \A t, u \in Tab : t = u

MemoryIsStored == \A t \in Tab : memory[t] = stored

IInv == TypeOK /\ MemoryIsStored /\ StepsAreSavedInOrder

-----------------------------------------------------------------------------

(* A form shows a value: what was kept, what was saved or the default. *)
LEMMA ShownType ==
    ASSUME NEW drafts \in [Draft -> StepValues \cup {NoDraft}], NEW kept \in StepValues,
           NEW d \in Draft \cup {New}, d # New => Exists(drafts, d), NEW s \in 1 .. Review
    PROVE  Shown(drafts, kept, d, s) \in Value
<1>1. s # Review => s \in Step
    BY StepsAssumption DEF Review, Step
<1>2. s # Review => Saved(drafts, d, s) \in Value \cup {NoValue}
    BY <1>1 DEF Saved, Exists, StepValues
<1> QED
    BY <1>1, <1>2, ValuesAssumption DEF Shown, StepValues

(* The first step without values is a step of the wizard, and all before it *)
(* have values.                                                             *)
LEMMA ResumeStepIsFirstMissing ==
    ASSUME NEW draft \in StepValues
    PROVE  /\ ResumeStep(draft) \in 1 .. Review
           /\ \A s \in Step : s < ResumeStep(draft) => draft[s] # NoValue
<1>1. CASE Missing(draft) = {}
    BY <1>1, StepsAssumption DEF ResumeStep, Review, Step, Missing
<1>2. CASE Missing(draft) # {}
    <2>1. Missing(draft) \subseteq Nat
        BY DEF Missing, Step
    <2>2. PICK s \in Missing(draft) : \A r \in Missing(draft) : s <= r
        <3> DEFINE Below == {ss \in Nat \X Nat : ss[1] < ss[2]}
        <3>1. IsWellFoundedOn(Below, Nat)
            BY NatLessThanWellFounded DEF OpToRel
        <3>2. PICK s \in Missing(draft) : \A r \in Missing(draft) : <<r, s>> \notin Below
            <4> HIDE DEF Below
            <4> QED
                BY <1>2, <2>1, <3>1, WFMin
        <3>3. \A r \in Nat : r < s => <<r, s>> \in Below
            <4>1. s \in Nat
                BY <2>1, <3>2
            <4>2. \A r \in Nat : <<r, s>>[1] = r /\ <<r, s>>[2] = s
                OBVIOUS
            <4> QED
                BY <4>1, <4>2
        <3>4. ASSUME NEW r \in Missing(draft)
              PROVE  s <= r
            <4> HIDE DEF Below
            <4>1. r \in Nat /\ s \in Nat
                BY <2>1
            <4>2. ~ (r < s)
                BY <3>2, <3>3, <4>1
            <4> QED
                BY <4>1, <4>2
        <3> QED
            BY <3>4
    <2> QED
        BY <1>2, <2>2, StepsAssumption DEF ResumeStep, Review, Step, Missing
<1> QED
    BY <1>1, <1>2

-----------------------------------------------------------------------------

(* What the actions are made of keeps the types. *)
LEMMA GoToType ==
    ASSUME TypeOK, NEW t \in Tab, NEW d \in Draft \cup {New}, NEW s \in 1 .. Review,
           memory' \in [Tab -> Agreements], pending' \in [Tab -> StepValues],
           d # New => Exists(memory'[t].drafts, d), GoTo(t, d, s)
    PROVE  page' \in [Tab -> Page] /\ form' \in [Tab -> Value]
<1>1. memory'[t].drafts \in [Draft -> StepValues \cup {NoDraft}]
    BY DEF Agreements
<1>2. Shown(memory'[t].drafts, pending'[t], d, s) \in Value
    BY <1>1, ShownType
<1> QED
    BY <1>2 DEF TypeOK, GoTo, Wizard, Page

LEMMA LeaveType ==
    ASSUME TypeOK, NEW t \in Tab, NEW to \in {"list", "organization", "notFound"},
           Leave(t, to)
    PROVE  /\ page' \in [Tab -> Page]
           /\ form' \in [Tab -> Value]
           /\ pending' \in [Tab -> StepValues]
BY ValuesAssumption, StepsAssumption
DEF TypeOK, Leave, Page, PageAt, NothingKept, StepValues, Review

LEMMA SetStateType ==
    ASSUME TypeOK, NEW t \in Tab, NEW agreements \in Agreements, SetState(t, agreements)
    PROVE  stored' \in Agreements /\ memory' \in [Tab -> Agreements]
BY DEF TypeOK, SetState

LEMMA ChangedDraftsType ==
    ASSUME NEW a \in Agreements, NEW d \in Draft, NEW values \in StepValues \cup {NoDraft}
    PROVE  [a EXCEPT !.drafts[d] = values] \in Agreements
BY DEF Agreements

LEMMA PageStep ==
    ASSUME TypeOK, NEW t \in Tab
    PROVE  /\ page[t].id \in Draft \cup {New}
           /\ page[t].step \in 1 .. Review
           /\ AtStep(t) => page[t].step \in Step /\ page[t].step + 1 \in 1 .. Review
<1>1. page[t].id \in Draft \cup {New} /\ page[t].step \in 1 .. Review
    BY DEF TypeOK, Page
<1>2. page[t].step \in 1 .. LastStep + 1
    BY <1>1 DEF Review
<1>3. ASSUME page[t].step # LastStep + 1
      PROVE  page[t].step \in 1 .. LastStep /\ page[t].step + 1 \in 1 .. LastStep + 1
    BY <1>2, <1>3, StepsAssumption
<1> QED
    BY <1>1, <1>3 DEF AtStep, Step, Review

(* The wizard's actions keep the types. *)
LEMMA TypeInWizard ==
    ASSUME TypeOK, NEW t \in Tab, InWizard(t)
    PROVE  TypeOK'
<1>1. CASE \E v \in Value : Edit(t, v)
    BY <1>1 DEF TypeOK, Edit
<1>2. CASE NextNew(t)
    <2>1. PICK d \in Draft : /\ CreateDraft(t, d, form[t])
                             /\ GoTo(t, d, 2)
        BY <1>2 DEF NextNew
    <2> DEFINE values == [s \in Step |-> IF s = 1 THEN form[t] ELSE NoValue]
    <2>2. values \in StepValues /\ values # NoDraft
        BY NamesAssumption DEF TypeOK, StepValues
    <2>3. SetState(t, [memory[t] EXCEPT !.drafts[d] = values])
        BY <2>1 DEF CreateDraft
    <2>4. [memory[t] EXCEPT !.drafts[d] = values] \in Agreements
        BY <2>2, ChangedDraftsType DEF TypeOK
    <2> HIDE DEF values
    <2>5. stored' \in Agreements /\ memory' \in [Tab -> Agreements]
        BY <2>3, <2>4, SetStateType
    <2>6. Exists(memory'[t].drafts, d)
        BY <2>2, <2>3 DEF SetState, TypeOK, Agreements, Exists
    <2>7. pending' \in [Tab -> StepValues]
        BY <1>2 DEF NextNew, TypeOK
    <2>8. page' \in [Tab -> Page] /\ form' \in [Tab -> Value]
        BY <2>1, <2>5, <2>6, <2>7, GoToType, StepsAssumption DEF Review
    <2> QED
        BY <2>1, <2>3, <2>5, <2>6, <2>7, <2>8 DEF TypeOK, SetState, GoTo, Wizard
<1>3. CASE NextSaved(t)
    <2> DEFINE d == page[t].id
               s == page[t].step
    <2>1. d \in Draft /\ s \in Step /\ s + 1 \in 1 .. Review
        BY <1>3, PageStep DEF NextSaved
    <2>2. Exists(memory[t].drafts, d)
        BY <1>3 DEF NextSaved, TypeOK, AtStep
    <2>3. SetState(t, [memory[t] EXCEPT !.drafts[d][s] = form[t]])
        BY <1>3, <2>2 DEF NextSaved, SaveStep
    <2> DEFINE values == [memory[t].drafts[d] EXCEPT ![s] = form[t]]
    <2>4. values \in StepValues /\ values # NoDraft
        <3>1. memory[t].drafts[d] \in StepValues /\ form[t] \in Value
            BY <2>1, <2>2 DEF TypeOK, Agreements, Exists
        <3> HIDE DEF d, s
        <3>2. values \in StepValues
            BY <3>1 DEF StepValues
        <3> QED
            BY <3>2, NamesAssumption DEF StepValues
    <2>5. [memory[t] EXCEPT !.drafts[d] = values] \in Agreements
        BY <2>1, <2>4, ChangedDraftsType DEF TypeOK
    <2>6. [memory[t] EXCEPT !.drafts[d][s] = form[t]] = [memory[t] EXCEPT !.drafts[d] = values]
        BY <2>1 DEF TypeOK, Agreements
    <2>7. stored' \in Agreements /\ memory' \in [Tab -> Agreements]
        BY <2>3, <2>5, <2>6, SetStateType
    <2>8. Exists(memory'[t].drafts, d)
        BY <2>1, <2>3, <2>4, <2>6 DEF SetState, TypeOK, Agreements, Exists
    <2>9. pending' \in [Tab -> StepValues]
        BY <1>3 DEF NextSaved, TypeOK
    <2>10. GoTo(t, d, s + 1)
        BY <1>3 DEF NextSaved
    <2> HIDE DEF values, d, s
    <2>11. page' \in [Tab -> Page] /\ form' \in [Tab -> Value]
        BY <2>1, <2>7, <2>8, <2>9, <2>10, GoToType
    <2> QED
        BY <2>3, <2>7, <2>8, <2>9, <2>10, <2>11 DEF TypeOK, SetState, GoTo, Wizard
<1>4. CASE Back(t)
    <2> DEFINE d == page[t].id
               s == page[t].step
    <2>1. d \in Draft \cup {New} /\ s \in 1 .. Review /\ s - 1 \in 1 .. Review
        BY <1>4, PageStep, StepsAssumption DEF Back, Review
    <2>2. pending' \in [Tab -> StepValues]
        BY <1>4, <2>1, StepsAssumption DEF Back, TypeOK, StepValues, Step, Review
    <2>3. GoTo(t, d, s - 1) /\ UNCHANGED <<stored, memory>>
        BY <1>4 DEF Back
    <2>4. d # New => Exists(memory'[t].drafts, d)
        BY <1>4, <2>3 DEF Back, TypeOK
    <2> HIDE DEF d, s
    <2>5. page' \in [Tab -> Page] /\ form' \in [Tab -> Value]
        BY <2>1, <2>2, <2>3, <2>4, GoToType DEF TypeOK
    <2> QED
        BY <2>2, <2>3, <2>4, <2>5 DEF TypeOK, GoTo, Wizard
<1>5. CASE \E s \in Step : EditFromReview(t, s)
    <2>1. PICK s \in Step : EditFromReview(t, s)
        BY <1>5
    <2> DEFINE d == page[t].id
    <2>2. d \in Draft \cup {New} /\ s \in 1 .. Review
        BY PageStep, StepsAssumption DEF Step, Review
    <2>3. GoTo(t, d, s) /\ UNCHANGED <<stored, memory, pending>>
        BY <2>1 DEF EditFromReview
    <2>4. d # New => Exists(memory'[t].drafts, d)
        BY <2>1, <2>3 DEF EditFromReview, AtReview, TypeOK
    <2> HIDE DEF d
    <2>5. page' \in [Tab -> Page] /\ form' \in [Tab -> Value]
        BY <2>2, <2>3, <2>4, GoToType DEF TypeOK
    <2> QED
        BY <2>3, <2>4, <2>5 DEF TypeOK, GoTo, Wizard
<1> QED
    BY <1>1, <1>2, <1>3, <1>4, <1>5 DEF InWizard, NextStep

(* The actions of the other pages keep the types. *)
LEMMA TypeElsewhere ==
    ASSUME TypeOK, NEW t \in Tab, Elsewhere(t)
    PROVE  TypeOK'
<1>1. CASE OpenNew(t)
    <2>1. GoTo(t, New, 1) /\ UNCHANGED <<stored, memory, pending>>
        BY <1>1 DEF OpenNew
    <2>2. New \in Draft \cup {New} /\ 1 \in 1 .. Review
        BY StepsAssumption DEF Review
    <2>3. memory' \in [Tab -> Agreements] /\ pending' \in [Tab -> StepValues]
        BY <2>1 DEF TypeOK
    <2>4. page' \in [Tab -> Page] /\ form' \in [Tab -> Value]
        BY <2>1, <2>2, <2>3, GoToType
    <2> QED
        BY <2>1, <2>3, <2>4 DEF TypeOK, GoTo, Wizard
<1>2. CASE \E d \in Draft : OpenDraft(t, d)
    <2>1. PICK d \in Draft : OpenDraft(t, d)
        BY <1>2
    <2>2. memory[t].drafts[d] \in StepValues /\ Exists(memory[t].drafts, d)
        BY <2>1 DEF OpenDraft, TypeOK, Agreements, Exists
    <2> DEFINE s == ResumeStep(memory[t].drafts[d])
    <2>3. s \in 1 .. Review
        BY <2>2, ResumeStepIsFirstMissing
    <2>4. GoTo(t, d, s) /\ UNCHANGED <<stored, memory, pending>>
        BY <2>1 DEF OpenDraft
    <2> HIDE DEF s
    <2>5. page' \in [Tab -> Page] /\ form' \in [Tab -> Value]
        BY <2>2, <2>3, <2>4, GoToType DEF TypeOK
    <2> QED
        BY <2>2, <2>4, <2>5 DEF TypeOK, GoTo, Wizard
<1>3. CASE \E d \in Draft : ConfirmDelete(t, d)
    <2>1. PICK d \in Draft : ConfirmDelete(t, d)
        BY <1>3
    <2>2. SetState(t, [memory[t] EXCEPT !.drafts[d] = NoDraft])
        BY <2>1 DEF ConfirmDelete, DeleteDraft
    <2>3. [memory[t] EXCEPT !.drafts[d] = NoDraft] \in Agreements
        BY ChangedDraftsType DEF TypeOK
    <2>4. stored' \in Agreements /\ memory' \in [Tab -> Agreements]
        BY <2>2, <2>3, SetStateType
    <2> QED
        BY <2>1, <2>2, <2>4 DEF TypeOK, ConfirmDelete, SetState
<1>4. CASE ToList(t)
    BY <1>4, LeaveType DEF ToList, TypeOK, Leave, PageAt
<1>5. CASE ToOrganization(t)
    BY <1>5, LeaveType DEF ToOrganization, TypeOK, Leave, PageAt
<1>6. CASE \E o \in Organization : SaveOrganization(t, o)
    <2>1. PICK o \in Organization : SaveOrganization(t, o)
        BY <1>6
    <2>2. [memory[t] EXCEPT !.organization = o] \in Agreements
        BY DEF TypeOK, Agreements
    <2>3. SetState(t, [memory[t] EXCEPT !.organization = o]) /\ Leave(t, "list")
        BY <2>1 DEF SaveOrganization
    <2>4. stored' \in Agreements /\ memory' \in [Tab -> Agreements]
        BY <2>2, <2>3, SetStateType
    <2> QED
        BY <2>3, <2>4, LeaveType DEF TypeOK, SetState, Leave, PageAt
<1>7. CASE Reload(t) \/ \E d \in Draft : OpenAddress(t, d)
    <2>1. Hydrate(t)
        BY <1>7 DEF Reload, OpenAddress, LoadWizard
    <2>2. memory' \in [Tab -> Agreements] /\ stored' = stored
        BY <2>1 DEF TypeOK, Hydrate
    <2>3. CASE page[t].at # "wizard" /\ Leave(t, page[t].at)
        <3>1. page[t].at \in {"list", "organization", "notFound"}
            BY <2>3 DEF TypeOK, Page
        <3> QED
            BY <2>1, <2>2, <2>3, <3>1, LeaveType DEF TypeOK, Leave, PageAt, Hydrate
    <2>4. CASE Leave(t, "notFound")
        BY <2>1, <2>2, <2>4, LeaveType DEF TypeOK, Leave, PageAt, Hydrate
    <2>5. ASSUME NEW d \in Draft \cup {New}, NEW s \in 1 .. Review,
                 d = New \/ Exists(stored.drafts, d),
                 pending' = [pending EXCEPT ![t] = NothingKept], GoTo(t, d, s)
          PROVE  TypeOK'
        <3>1. pending' \in [Tab -> StepValues]
            BY <2>5 DEF TypeOK, NothingKept, StepValues
        <3>2. d # New => Exists(memory'[t].drafts, d)
            BY <2>1, <2>5 DEF TypeOK, Hydrate
        <3>3. page' \in [Tab -> Page] /\ form' \in [Tab -> Value]
            BY <2>2, <2>5, <3>1, <3>2, GoToType
        <3> QED
            BY <2>1, <2>2, <2>5, <3>1, <3>2, <3>3 DEF TypeOK, GoTo, Wizard, Hydrate
    <2>6. 1 \in 1 .. Review
        BY StepsAssumption DEF Review
    <2> QED
        BY <1>7, <2>3, <2>4, <2>5, <2>6, PageStep DEF Reload, OpenAddress, LoadWizard
<1> QED
    BY <1>1, <1>2, <1>3, <1>4, <1>5, <1>6, <1>7 DEF Elsewhere

(* Every state of the tabs is of its type, and the draft a wizard has open *)
(* is one its tab knows: with any number of tabs, for a tab's memory is    *)
(* changed by itself alone.                                                *)
THEOREM TypeCorrect == Spec => []TypeOK
<1>1. Init => TypeOK
    BY ValuesAssumption, StepsAssumption
    DEF Init, TypeOK, NoAgreements, Agreements, Page, PageAt, NothingKept, StepValues, Review
<1>2. TypeOK /\ [Next]_vars => TypeOK'
    <2> SUFFICES ASSUME TypeOK, [Next]_vars PROVE TypeOK'
        OBVIOUS
    <2>1. CASE UNCHANGED vars
        BY <2>1 DEF vars, TypeOK
    <2>2. CASE Next
        BY <2>2, TypeInWizard, TypeElsewhere DEF Next
    <2> QED
        BY <2>1, <2>2
<1> QED
    BY <1>1, <1>2, PTL DEF Spec

-----------------------------------------------------------------------------

(* One tab: every action leaves memory and storage equal. *)
LEMMA MemoryStep ==
    ASSUME OneTab, TypeOK, MemoryIsStored, [Next]_vars
    PROVE  MemoryIsStored'
<1>1. ASSUME NEW t \in Tab, memory' = [memory EXCEPT ![t] = stored'], NEW u \in Tab
      PROVE  memory'[u] = stored'
    BY <1>1 DEF OneTab, TypeOK
<1>2. CASE UNCHANGED <<memory, stored>>
    BY <1>2 DEF MemoryIsStored
<1>3. CASE Next
    <2>1. PICK t \in Tab : InWizard(t) \/ Elsewhere(t)
        BY <1>3 DEF Next
    <2>2. UNCHANGED <<memory, stored>> \/ memory' = [memory EXCEPT ![t] = stored']
        <3>1. CASE InWizard(t)
            BY <3>1 DEF InWizard, Edit, NextStep, NextNew, NextSaved, CreateDraft, SaveStep,
                SetState, Back, EditFromReview
        <3>2. CASE Elsewhere(t)
            BY <3>2 DEF Elsewhere, OpenNew, OpenDraft, ConfirmDelete, DeleteDraft, SetState,
                ToList, ToOrganization, SaveOrganization, Reload, OpenAddress, LoadWizard,
                Hydrate
        <3> QED
            BY <2>1, <3>1, <3>2
    <2> QED
        BY <1>1, <1>2, <2>2 DEF MemoryIsStored
<1> QED
    BY <1>2, <1>3 DEF vars

\* What StepsAreSavedInOrder asks of a wizard with draft d open at step s.
SavedBefore(drafts, d, s) ==
    /\ Exists(drafts, d)
    /\ \A r \in Step : r < s => drafts[d][r] # NoValue

(* A step of the one tab is a wizard whose earlier steps are saved, or none. *)
LEMMA OrderFromGoTo ==
    ASSUME OneTab, TypeOK, NEW t \in Tab, NEW d, NEW s, GoTo(t, d, s),
           d # New => SavedBefore(stored'.drafts, d, s)
    PROVE  StepsAreSavedInOrder'
BY DEF OneTab, TypeOK, GoTo, Wizard, SavedBefore, StepsAreSavedInOrder

LEMMA OrderFromLeave ==
    ASSUME OneTab, TypeOK, NEW t \in Tab, NEW to \in {"list", "organization", "notFound"},
           Leave(t, to)
    PROVE  StepsAreSavedInOrder'
BY DEF OneTab, TypeOK, Leave, PageAt, StepsAreSavedInOrder

LEMMA OrderInWizard ==
    ASSUME OneTab, IInv, NEW t \in Tab, InWizard(t)
    PROVE  StepsAreSavedInOrder'
<1> DEFINE d == page[t].id
           s == page[t].step
<1>1. TypeOK /\ memory[t] = stored /\ d \in Draft \cup {New} /\ s \in 1 .. Review
    BY PageStep DEF IInv, MemoryIsStored
<1>2. page[t].at = "wizard" /\ d # New => SavedBefore(stored.drafts, d, s)
    BY DEF IInv, StepsAreSavedInOrder, SavedBefore
<1>3. CASE \E v \in Value : Edit(t, v)
    BY <1>3 DEF Edit, IInv, StepsAreSavedInOrder
<1>4. CASE NextNew(t)
    <2>1. PICK e \in Draft : CreateDraft(t, e, form[t]) /\ GoTo(t, e, 2)
        BY <1>4 DEF NextNew
    <2> DEFINE values == [r \in Step |-> IF r = 1 THEN form[t] ELSE NoValue]
    <2>2. stored' = [stored EXCEPT !.drafts[e] = values]
        BY <1>1, <2>1 DEF CreateDraft, SetState
    <2>3. stored'.drafts[e] = values
        BY <1>1, <2>2 DEF TypeOK, Agreements
    <2>4. values \in StepValues /\ values # NoDraft
        BY <1>1, NamesAssumption DEF TypeOK, StepValues
    <2>5. \A r \in Step : r < 2 => values[r] # NoValue
        BY <1>1, ValuesAssumption DEF TypeOK, Step
    <2> HIDE DEF values
    <2>6. SavedBefore(stored'.drafts, e, 2)
        BY <2>3, <2>4, <2>5 DEF SavedBefore, Exists
    <2> QED
        BY <1>1, <2>1, <2>6, OrderFromGoTo
<1>5. CASE NextSaved(t)
    <2>1. page[t].at = "wizard" /\ d \in Draft /\ s \in Step /\ GoTo(t, d, s + 1)
        BY <1>1, <1>5, PageStep DEF NextSaved, AtStep
    <2>2. SavedBefore(stored.drafts, d, s)
        BY <1>2, <1>5, <2>1 DEF NextSaved
    <2> DEFINE values == [stored.drafts[d] EXCEPT ![s] = form[t]]
    <2>3. stored' = [stored EXCEPT !.drafts[d][s] = form[t]]
        BY <1>1, <1>5, <2>2 DEF NextSaved, SaveStep, SetState, SavedBefore
    <2>4. stored'.drafts[d] = values
        BY <1>1, <2>1, <2>3 DEF TypeOK, Agreements
    <2>5. stored.drafts[d] \in StepValues /\ form[t] \in Value
        BY <1>1, <2>1, <2>2 DEF TypeOK, Agreements, SavedBefore, Exists
    <2> HIDE DEF d, s
    <2>6. values \in StepValues /\ values # NoDraft
        BY <2>5, NamesAssumption DEF StepValues
    <2>7. \A r \in Step : r < s + 1 => values[r] # NoValue
        <3> SUFFICES ASSUME NEW r \in Step, r < s + 1 PROVE values[r] # NoValue
            OBVIOUS
        <3>1. r = s \/ r < s
            BY <2>1, StepsAssumption DEF Step
        <3> QED
            BY <2>1, <2>2, <2>5, <3>1, ValuesAssumption DEF StepValues, SavedBefore
    <2> HIDE DEF values
    <2>8. SavedBefore(stored'.drafts, d, s + 1)
        BY <2>4, <2>6, <2>7 DEF SavedBefore, Exists
    <2> QED
        BY <1>1, <2>1, <2>8, OrderFromGoTo
<1>6. CASE Back(t)
    <2>1. GoTo(t, d, s - 1) /\ stored' = stored /\ page[t].at = "wizard"
        BY <1>6 DEF Back
    <2> HIDE DEF d, s
    <2>2. d # New => SavedBefore(stored'.drafts, d, s - 1)
        BY <1>1, <1>2, <2>1, StepsAssumption DEF SavedBefore, Step, Review
    <2> QED
        BY <1>1, <2>1, <2>2, OrderFromGoTo
<1>7. CASE \E r \in Step : EditFromReview(t, r)
    <2>1. PICK r \in Step : EditFromReview(t, r)
        BY <1>7
    <2>2. GoTo(t, d, r) /\ stored' = stored /\ page[t].at = "wizard" /\ s = Review
        BY <2>1 DEF EditFromReview, AtReview
    <2> HIDE DEF d, s
    <2>3. \A q \in Step : q < r => q < Review
        BY StepsAssumption DEF Step, Review
    <2>4. d # New => SavedBefore(stored'.drafts, d, r)
        BY <1>2, <2>2, <2>3 DEF SavedBefore
    <2> QED
        BY <1>1, <2>2, <2>4, OrderFromGoTo
<1> QED
    BY <1>3, <1>4, <1>5, <1>6, <1>7 DEF InWizard, NextStep

LEMMA OrderElsewhere ==
    ASSUME OneTab, IInv, NEW t \in Tab, Elsewhere(t)
    PROVE  StepsAreSavedInOrder'
<1>1. TypeOK /\ memory[t] = stored
    BY DEF IInv, MemoryIsStored
<1>2. CASE OpenNew(t)
    BY <1>1, <1>2, OrderFromGoTo DEF OpenNew
<1>3. CASE \E d \in Draft : OpenDraft(t, d)
    <2>1. PICK d \in Draft : OpenDraft(t, d)
        BY <1>3
    <2>2. stored.drafts[d] \in StepValues /\ Exists(stored.drafts, d)
        BY <1>1, <2>1 DEF OpenDraft, TypeOK, Agreements, Exists
    <2> DEFINE s == ResumeStep(stored.drafts[d])
    <2>3. GoTo(t, d, s) /\ stored' = stored
        BY <1>1, <2>1 DEF OpenDraft
    <2>4. SavedBefore(stored'.drafts, d, s)
        BY <2>2, <2>3, ResumeStepIsFirstMissing DEF SavedBefore
    <2> HIDE DEF s
    <2> QED
        BY <1>1, <2>3, <2>4, OrderFromGoTo
<1>4. CASE \E d \in Draft : ConfirmDelete(t, d)
    BY <1>1, <1>4 DEF ConfirmDelete, OneTab, StepsAreSavedInOrder
<1>5. CASE Reload(t) \/ \E d \in Draft : OpenAddress(t, d)
    <2>1. stored' = stored
        BY <1>5 DEF Reload, OpenAddress, LoadWizard, Hydrate
    <2>2. CASE page[t].at # "wizard" /\ Leave(t, page[t].at)
        <3>1. page[t].at \in {"list", "organization", "notFound"}
            BY <1>1, <2>2 DEF TypeOK, Page
        <3> QED
            BY <1>1, <2>2, <3>1, OrderFromLeave
    <2>3. CASE Leave(t, "notFound")
        BY <1>1, <2>3, OrderFromLeave
    <2>4. CASE page[t].at = "wizard" /\ GoTo(t, page[t].id, page[t].step)
        <3>1. page[t].id # New => SavedBefore(stored'.drafts, page[t].id, page[t].step)
            BY <2>1, <2>4 DEF IInv, StepsAreSavedInOrder, SavedBefore
        <3> QED
            BY <1>1, <2>4, <3>1, OrderFromGoTo
    <2>5. ASSUME NEW d \in Draft, Exists(stored.drafts, d), GoTo(t, d, 1)
          PROVE  StepsAreSavedInOrder'
        <3>1. SavedBefore(stored'.drafts, d, 1)
            BY <2>1, <2>5 DEF SavedBefore, Step
        <3> QED
            BY <1>1, <2>5, <3>1, OrderFromGoTo
    <2> QED
        BY <1>5, <2>2, <2>3, <2>4, <2>5, NamesAssumption DEF Reload, OpenAddress, LoadWizard
<1>6. CASE ToList(t) \/ ToOrganization(t) \/ \E o \in Organization : SaveOrganization(t, o)
    BY <1>1, <1>6, OrderFromLeave DEF ToList, ToOrganization, SaveOrganization
<1> QED
    BY <1>2, <1>3, <1>4, <1>5, <1>6 DEF Elsewhere

(* The strengthening that carries the properties of one tab. *)
LEMMA Inductive ==
    ASSUME OneTab
    PROVE  Spec => []IInv
<1>1. Init => MemoryIsStored /\ StepsAreSavedInOrder
    BY DEF Init, MemoryIsStored, StepsAreSavedInOrder, PageAt
<1>2. IInv /\ TypeOK' /\ [Next]_vars => IInv'
    <2> SUFFICES ASSUME IInv, TypeOK', [Next]_vars PROVE IInv'
        OBVIOUS
    <2>1. MemoryIsStored'
        BY MemoryStep DEF IInv
    <2>2. StepsAreSavedInOrder'
        <3>1. CASE UNCHANGED vars
            BY <3>1 DEF vars, IInv, StepsAreSavedInOrder
        <3>2. CASE Next
            BY <3>2, OrderInWizard, OrderElsewhere DEF Next
        <3> QED
            BY <3>1, <3>2
    <2> QED
        BY <2>1, <2>2 DEF IInv
<1>3. Init /\ TypeOK => IInv
    BY <1>1 DEF IInv
<1> QED
    BY <1>2, <1>3, TypeCorrect, PTL DEF Spec

(* In one tab the wizard shows no step before every earlier step of its     *)
(* draft is stored: nextStep, back, the edit links of the review, a draft's *)
(* resumption from the list and a reload all keep the order.                *)
THEOREM OrderKept ==
    ASSUME OneTab
    PROVE  Spec => []StepsAreSavedInOrder
<1>1. IInv => StepsAreSavedInOrder
    BY DEF IInv
<1> QED
    BY <1>1, Inductive, PTL

-----------------------------------------------------------------------------

\* The four ways in which the storage changes, in one tab.
Creates(t, d) ==
    /\ NextNew(t)
    /\ ~ Exists(stored.drafts, d)
    /\ page'[t] = Wizard(d, 2)
    /\ form[t] \in Value
    /\ stored' = [stored EXCEPT !.drafts[d] =
           [r \in Step |-> IF r = 1 THEN form[t] ELSE NoValue]]

Saves(t, d, s) ==
    /\ NextSaved(t)
    /\ page[t] = Wizard(d, s)
    /\ SavedBefore(stored.drafts, d, s)
    /\ form[t] \in Value
    /\ stored' = [stored EXCEPT !.drafts[d] = [stored.drafts[d] EXCEPT ![s] = form[t]]]

Deletes(t, d) ==
    /\ ConfirmDelete(t, d)
    /\ stored' = [stored EXCEPT !.drafts[d] = NoDraft]

StoresOrganization(o) == stored' = [stored EXCEPT !.organization = o]

LEMMA StoredStep ==
    ASSUME OneTab, IInv, [Next]_vars
    PROVE  \/ stored' = stored
           \/ \E t \in Tab, d \in Draft :
                 \/ Creates(t, d)
                 \/ \E s \in Step : Saves(t, d, s)
                 \/ Deletes(t, d)
           \/ \E o \in Organization : StoresOrganization(o)
<1>1. TypeOK /\ \A t \in Tab : memory[t] = stored
    BY DEF IInv, MemoryIsStored
<1>2. ASSUME NEW t \in Tab, NextNew(t)
      PROVE  \E d \in Draft : Creates(t, d)
    <2>1. PICK d \in Draft : /\ ~ Exists(stored.drafts, d)
                             /\ CreateDraft(t, d, form[t])
                             /\ GoTo(t, d, 2)
        BY <1>2 DEF NextNew
    <2>2. page'[t] = Wizard(d, 2) /\ form[t] \in Value
        BY <1>1, <2>1 DEF GoTo, TypeOK
    <2> QED
        BY <1>1, <1>2, <2>1, <2>2 DEF CreateDraft, SetState, Creates
<1>3. ASSUME NEW t \in Tab, NextSaved(t)
      PROVE  \E d \in Draft, s \in Step : Saves(t, d, s)
    <2> DEFINE d == page[t].id
               s == page[t].step
    <2>1. d \in Draft /\ s \in Step /\ form[t] \in Value
        BY <1>1, <1>3, PageStep DEF NextSaved, TypeOK
    <2>2. page[t] = Wizard(d, s)
        BY <1>1, <1>3 DEF NextSaved, AtStep, TypeOK, Page, Wizard
    <2>3. SavedBefore(stored.drafts, d, s)
        BY <1>3 DEF NextSaved, AtStep, IInv, StepsAreSavedInOrder, SavedBefore
    <2>4. stored' = [stored EXCEPT !.drafts[d][s] = form[t]]
        BY <1>1, <1>3, <2>3 DEF NextSaved, SaveStep, SetState, SavedBefore
    <2>5. @ = [stored EXCEPT !.drafts[d] = [stored.drafts[d] EXCEPT ![s] = form[t]]]
        BY <1>1, <2>1 DEF TypeOK, Agreements
    <2> QED
        BY <1>3, <2>1, <2>2, <2>3, <2>4, <2>5 DEF Saves
<1>4. ASSUME NEW t \in Tab, NEW d \in Draft, ConfirmDelete(t, d)
      PROVE  Deletes(t, d)
    BY <1>1, <1>4 DEF ConfirmDelete, DeleteDraft, SetState, Deletes
<1>5. ASSUME NEW t \in Tab, NEW o \in Organization, SaveOrganization(t, o)
      PROVE  StoresOrganization(o)
    BY <1>1, <1>5 DEF SaveOrganization, SetState, StoresOrganization
<1>6. ASSUME NEW t \in Tab, InWizard(t), stored' # stored
      PROVE  NextNew(t) \/ NextSaved(t)
    BY <1>6 DEF InWizard, NextStep, Edit, Back, EditFromReview
<1>7. ASSUME NEW t \in Tab, Elsewhere(t), stored' # stored
      PROVE  \/ \E d \in Draft : ConfirmDelete(t, d)
             \/ \E o \in Organization : SaveOrganization(t, o)
    BY <1>7 DEF Elsewhere, OpenNew, OpenDraft, ToList, ToOrganization, Reload, OpenAddress,
        LoadWizard, Hydrate
<1> QED
    BY <1>2, <1>3, <1>4, <1>5, <1>6, <1>7 DEF Next, vars

\* The three ways in which a stored draft changes.
Created(t, d) == NextNew(t) /\ ~ Exists(stored.drafts, d) /\ page'[t] = Wizard(d, 2)

SavedAtStep(t, d, s) ==
    /\ NextSaved(t)
    /\ page[t] = Wizard(d, s)
    /\ Exists(stored.drafts, d)
    /\ stored'.drafts[d] = [stored.drafts[d] EXCEPT ![s] = form[t]]
    /\ Exists(stored.drafts, d)'

Deleted(t, d) == ConfirmDelete(t, d) /\ ~ Exists(stored.drafts, d)'

LEMMA StoredDraftStep ==
    ASSUME OneTab, IInv, [Next]_vars, NEW d \in Draft
    PROVE  \/ stored'.drafts[d] = stored.drafts[d]
           \/ \E t \in Tab : \/ Created(t, d)
                             \/ \E s \in Step : SavedAtStep(t, d, s)
                             \/ Deleted(t, d)
<1>1. stored \in Agreements
    BY DEF IInv, TypeOK
<1>2. ASSUME NEW t \in Tab, NEW e \in Draft, Creates(t, e),
             stored'.drafts[d] # stored.drafts[d]
      PROVE  Created(t, d)
    <2>1. e = d
        BY <1>1, <1>2 DEF Creates, Agreements
    <2> QED
        BY <1>2, <2>1 DEF Creates, Created
<1>3. ASSUME NEW t \in Tab, NEW e \in Draft, NEW s \in Step, Saves(t, e, s),
             stored'.drafts[d] # stored.drafts[d]
      PROVE  SavedAtStep(t, d, s)
    <2> DEFINE values == [stored.drafts[e] EXCEPT ![s] = form[t]]
    <2>1. e = d /\ stored'.drafts[d] = values
        BY <1>1, <1>3 DEF Saves, Agreements
    <2>2. values \in StepValues
        BY <1>1, <1>3 DEF Saves, SavedBefore, Exists, Agreements, StepValues
    <2>3. values # NoDraft
        BY <2>2, NamesAssumption DEF StepValues
    <2> QED
        BY <1>3, <2>1, <2>3 DEF Saves, SavedBefore, SavedAtStep, Exists
<1>4. ASSUME NEW t \in Tab, NEW e \in Draft, Deletes(t, e),
             stored'.drafts[d] # stored.drafts[d]
      PROVE  Deleted(t, d)
    BY <1>1, <1>4 DEF Deletes, Deleted, Exists, Agreements
<1>5. ASSUME NEW o \in Organization, StoresOrganization(o)
      PROVE  stored'.drafts[d] = stored.drafts[d]
    BY <1>1, <1>5 DEF StoresOrganization, Agreements
<1> QED
    BY <1>2, <1>3, <1>4, <1>5, StoredStep

(* In one tab a draft appears by the Next of a new agreement and goes by    *)
(* its own deletion.                                                        *)
THEOREM DraftsAreRetained ==
    ASSUME OneTab
    PROVE  Spec => DraftsComeAndGoAsAsked
<1>1. IInv /\ [Next]_vars =>
        [\A d \in Draft :
            /\ ~ Exists(stored.drafts, d) /\ Exists(stored.drafts, d)' =>
                  \E t \in Tab : page'[t] = Wizard(d, 2) /\ NextNew(t)
            /\ Exists(stored.drafts, d) /\ ~ Exists(stored.drafts, d)' =>
                  \E t \in Tab : ConfirmDelete(t, d)]_vars
    <2> SUFFICES ASSUME IInv, [Next]_vars, NEW d \in Draft
                 PROVE  /\ ~ Exists(stored.drafts, d) /\ Exists(stored.drafts, d)' =>
                              \E t \in Tab : page'[t] = Wizard(d, 2) /\ NextNew(t)
                        /\ Exists(stored.drafts, d) /\ ~ Exists(stored.drafts, d)' =>
                              \E t \in Tab : ConfirmDelete(t, d)
        OBVIOUS
    <2> QED
        BY StoredDraftStep DEF Created, SavedAtStep, Deleted, Exists
<1> QED
    BY <1>1, Inductive, PTL DEF Spec, DraftsComeAndGoAsAsked
-----------------------------------------------------------------------------
(* The storage is a shelf *)

(* What is on the shelf of a draft that one step was saved to, or begun with. *)
LEMMA FilledInAtStep ==
    ASSUME NEW draft \in StepValues, NEW s \in Step, NEW v \in Value
    PROVE  FilledIn([draft EXCEPT ![s] = v]) =
               [r \in DOMAIN FilledIn(draft) \cup {s} |->
                   IF r = s THEN v ELSE FilledIn(draft)[r]]
<1> DEFINE after == [draft EXCEPT ![s] = v]
           filled == {r \in Step : draft[r] # NoValue}
<1>1. after \in StepValues
    BY DEF StepValues
<1>2. draft # NoDraft /\ after # NoDraft
    BY <1>1, NamesAssumption DEF StepValues
<1>3. FilledIn(draft) = [r \in filled |-> draft[r]]
    BY <1>2 DEF FilledIn
<1>4. FilledIn(after) = [r \in {q \in Step : after[q] # NoValue} |-> after[r]]
    BY <1>2 DEF FilledIn
<1>5. {q \in Step : after[q] # NoValue} = filled \cup {s}
    BY ValuesAssumption DEF StepValues
<1>6. \A r \in filled \cup {s} : after[r] = IF r = s THEN v ELSE draft[r]
    BY DEF StepValues
<1> HIDE DEF after, filled
<1>7. FilledIn(after) = [r \in filled \cup {s} |-> IF r = s THEN v ELSE draft[r]]
    BY <1>4, <1>5, <1>6
<1>8. @ = [r \in DOMAIN FilledIn(draft) \cup {s} |-> IF r = s THEN v ELSE FilledIn(draft)[r]]
    BY <1>3
<1> QED
    BY <1>7, <1>8 DEF after

LEMMA NothingIsOnTheShelf ==
    FilledIn(NoDraft) = Shelf!Empty
BY DEF FilledIn, Shelf!Empty

LEMMA FilledInAtFirst ==
    ASSUME NEW v \in Value
    PROVE  FilledIn([r \in Step |-> IF r = 1 THEN v ELSE NoValue]) =
               [r \in DOMAIN FilledIn(NoDraft) \cup {1} |->
                   IF r = 1 THEN v ELSE FilledIn(NoDraft)[r]]
<1> DEFINE first == [r \in Step |-> IF r = 1 THEN v ELSE NoValue]
<1>1. first \in StepValues /\ 1 \in Step
    BY StepsAssumption DEF StepValues, Step
<1>2. first # NoDraft
    BY <1>1, NamesAssumption DEF StepValues
<1>3. {r \in Step : first # NoDraft /\ first[r] # NoValue} = {1}
    BY <1>1, <1>2, ValuesAssumption
<1>4. FilledIn(first) = [r \in {1} |-> first[r]]
    BY <1>3 DEF FilledIn
<1>5. DOMAIN FilledIn(NoDraft) = {}
    BY DEF FilledIn
<1> QED
    BY <1>1, <1>4, <1>5

\* What a change of one draft in the storage does to the shelf.
LEMMA ShelfChange ==
    ASSUME TypeOK, NEW d \in Draft, NEW draft,
           stored' = [stored EXCEPT !.drafts[d] = draft]
    PROVE  /\ OnShelf' = [OnShelf EXCEPT ![d] = FilledIn(draft)]
           /\ stored'.organization = stored.organization
<1>1. stored'.drafts = [stored.drafts EXCEPT ![d] = draft]
    BY DEF TypeOK, Agreements
<1>2. \A e \in Draft : stored'.drafts[e] = IF e = d THEN draft ELSE stored.drafts[e]
    BY <1>1 DEF TypeOK, Agreements
<1>3. OnShelf' = [e \in Draft |-> FilledIn(IF e = d THEN draft ELSE stored.drafts[e])]
    BY <1>2 DEF OnShelf
<1> QED
    BY <1>3 DEF OnShelf, TypeOK, Agreements

(* Every change of the storage is the shelf's. *)
LEMMA ShelfStep ==
    ASSUME OneTab, IInv, [Next]_vars
    PROVE  [Shelf!Next]_(Shelf!vars)
<1>1. TypeOK /\ stored \in Agreements
    BY DEF IInv, TypeOK
<1>2. CASE stored' = stored
    BY <1>2 DEF Shelf!vars, OnShelf
<1>3. ASSUME NEW t \in Tab, NEW d \in Draft, Creates(t, d)
      PROVE  Shelf!Next
    <2> DEFINE first == [r \in Step |-> IF r = 1 THEN form[t] ELSE NoValue]
    <2>1. form[t] \in Value /\ 1 \in Step /\ stored.drafts[d] = NoDraft
        BY <1>3, StepsAssumption DEF Creates, Exists, Step
    <2>2. OnShelf[d] = FilledIn(NoDraft)
        BY <2>1 DEF OnShelf
    <2>3. /\ OnShelf' = [OnShelf EXCEPT ![d] = FilledIn(first)]
          /\ stored'.organization = stored.organization
        BY <1>1, <1>3, ShelfChange DEF Creates
    <2>4. FilledIn(first) = [r \in DOMAIN OnShelf[d] \cup {1} |->
                                IF r = 1 THEN form[t] ELSE OnShelf[d][r]]
        BY <2>1, <2>2, FilledInAtFirst
    <2>5. \A r \in Step : ~ (r < 1)
        BY DEF Step
    <2>6. Shelf!Fill(d, 1, form[t])
        BY <2>3, <2>4, <2>5 DEF Shelf!Fill, Shelf!Step, Step
    <2> QED
        BY <2>1, <2>6 DEF Shelf!Next, Shelf!Step, Step
<1>4. ASSUME NEW t \in Tab, NEW d \in Draft, NEW s \in Step, Saves(t, d, s)
      PROVE  Shelf!Next
    <2> DEFINE draft == stored.drafts[d]
    <2>1. form[t] \in Value /\ draft \in StepValues /\ draft # NoDraft
        BY <1>1, <1>4 DEF Saves, SavedBefore, Exists, Agreements
    <2>2. /\ OnShelf' = [OnShelf EXCEPT ![d] = FilledIn([draft EXCEPT ![s] = form[t]])]
          /\ stored'.organization = stored.organization
        BY <1>1, <1>4, ShelfChange DEF Saves
    <2>3. OnShelf[d] = FilledIn(draft)
        BY DEF OnShelf
    <2>4. FilledIn([draft EXCEPT ![s] = form[t]]) =
              [r \in DOMAIN OnShelf[d] \cup {s} |-> IF r = s THEN form[t] ELSE OnShelf[d][r]]
        BY <2>1, <2>3, FilledInAtStep
    <2>5. \A r \in Step : r < s => r \in DOMAIN OnShelf[d]
        BY <1>4, <2>1, <2>3 DEF Saves, SavedBefore, FilledIn
    <2> HIDE DEF draft
    <2>6. Shelf!Fill(d, s, form[t])
        BY <2>2, <2>4, <2>5 DEF Shelf!Fill, Shelf!Step, Step
    <2> QED
        BY <2>1, <2>6 DEF Shelf!Next, Shelf!Step, Step
<1>5. ASSUME NEW t \in Tab, NEW d \in Draft, Deletes(t, d)
      PROVE  Shelf!Next
    <2>1. /\ OnShelf' = [OnShelf EXCEPT ![d] = Shelf!Empty]
          /\ stored'.organization = stored.organization
        BY <1>1, <1>5, ShelfChange, NothingIsOnTheShelf DEF Deletes
    <2>2. Shelf!ThrowAway(d)
        BY <2>1 DEF Shelf!ThrowAway
    <2> QED
        BY <2>2 DEF Shelf!Next
<1>6. ASSUME NEW o \in Organization, StoresOrganization(o)
      PROVE  Shelf!Next
    <2>1. stored'.organization = o /\ stored'.drafts = stored.drafts
        BY <1>1, <1>6 DEF StoresOrganization, Agreements
    <2>2. Shelf!SetOrganization(o)
        BY <2>1 DEF Shelf!SetOrganization, OnShelf
    <2> QED
        BY <2>2 DEF Shelf!Next
<1> QED
    BY <1>2, <1>3, <1>4, <1>5, <1>6, StoredStep

(* In one tab localStorage is a shelf of drafts: a save fills in one step of  *)
(* one draft whose earlier steps are there, a draft keeps every step until it *)
(* is deleted, and the organization is changed by its own form alone.         *)
THEOREM ShelfKept ==
    ASSUME OneTab
    PROVE  Spec => KeepsTheShelf
<1>1. Init => Shelf!Init
    <2> SUFFICES ASSUME Init PROVE Shelf!Init
        OBVIOUS
    <2>1. stored.organization = NoOrganization
        BY DEF Init, NoAgreements
    <2>2. \A d \in Draft : stored.drafts[d] = NoDraft
        BY DEF Init, NoAgreements
    <2>3. OnShelf = [d \in Draft |-> Shelf!Empty]
        BY <2>2, NothingIsOnTheShelf DEF OnShelf
    <2> QED
        BY <2>1, <2>3 DEF Shelf!Init
<1>2. IInv /\ [Next]_vars => [Shelf!Next]_(Shelf!vars)
    BY ShelfStep
<1> QED
    BY <1>1, <1>2, Inductive, PTL DEF Spec, KeepsTheShelf, Shelf!Spec

(* A shelf's draft has no step missing before one that is there: by induction *)
(* on the shelf's own steps, for Fill asks for the earlier steps.             *)
LEMMA ShelfHasNoGaps ==
    KeepsTheShelf => []Shelf!NoStepIsLeftOut
<1>1. Shelf!Init => Shelf!NoStepIsLeftOut
    BY DEF Shelf!Init, Shelf!Empty, Shelf!NoStepIsLeftOut
<1>2. Shelf!NoStepIsLeftOut /\ [Shelf!Next]_(Shelf!vars) => Shelf!NoStepIsLeftOut'
    <2> SUFFICES ASSUME Shelf!NoStepIsLeftOut, [Shelf!Next]_(Shelf!vars)
                 PROVE  Shelf!NoStepIsLeftOut'
        OBVIOUS
    <2>1. DOMAIN OnShelf = Draft /\ DOMAIN OnShelf' = Draft
        BY DEF OnShelf
    <2>2. CASE OnShelf' = OnShelf
        BY <2>2 DEF Shelf!NoStepIsLeftOut
    <2>3. ASSUME NEW d \in Draft, NEW s \in Shelf!Step, NEW v \in Value, Shelf!Fill(d, s, v)
          PROVE  Shelf!NoStepIsLeftOut'
        <3>1. DOMAIN OnShelf'[d] = DOMAIN OnShelf[d] \cup {s}
            BY <2>1, <2>3 DEF Shelf!Fill
        <3>2. \A e \in Draft : e # d => OnShelf'[e] = OnShelf[e]
            BY <2>1, <2>3 DEF Shelf!Fill
        <3>3. \A r \in Shelf!Step : r < s => r \in DOMAIN OnShelf[d]
            BY <2>3 DEF Shelf!Fill
        <3> QED
            BY <3>1, <3>2, <3>3 DEF Shelf!NoStepIsLeftOut
    <2>4. ASSUME NEW d \in Draft, Shelf!ThrowAway(d)
          PROVE  Shelf!NoStepIsLeftOut'
        <3>1. DOMAIN OnShelf'[d] = {}
            BY <2>1, <2>4 DEF Shelf!ThrowAway, Shelf!Empty
        <3>2. \A e \in Draft : e # d => OnShelf'[e] = OnShelf[e]
            BY <2>1, <2>4 DEF Shelf!ThrowAway
        <3> QED
            BY <3>1, <3>2 DEF Shelf!NoStepIsLeftOut
    <2> QED
        BY <2>2, <2>3, <2>4 DEF Shelf!Next, Shelf!vars, Shelf!SetOrganization
<1> QED
    BY <1>1, <1>2, PTL DEF KeepsTheShelf, Shelf!Spec

(* In one tab no stored draft has values of a step and none of an earlier one, *)
(* so resumeStep returns to the step after the last saved, whichever pages the *)
(* sender went through.  The shelf's own property, inherited.                  *)
THEOREM DraftsHaveNoGaps ==
    ASSUME OneTab
    PROVE  Spec => []Shelf!NoStepIsLeftOut
BY ShelfKept, ShelfHasNoGaps, PTL

=============================================================================
