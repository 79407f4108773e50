------------------------------ MODULE StepForms ------------------------------
(***************************************************************************)
(* Filling in an agreement: the forms of the seven steps with their fields *)
(* (components/steps, field.tsx, rows-field.tsx, difficulty-mix-field.tsx, *)
(* money-field.tsx, volume-field.tsx, country-field.tsx), the organization *)
(* page, the wizard that opens them and saves what their schemas accept,   *)
(* and the request for the Word document, which the web app and then the   *)
(* API check once more.                                                    *)
(*                                                                         *)
(* One tab and one draft; AgreementWizard has several of both.  What       *)
(* react-hook-form revalidates while the sender corrects a refused form is *)
(* external and left out: an edit takes the messages of the last Next off. *)
(***************************************************************************)
EXTENDS StepSchemas, SequencesExt

CONSTANTS
    NoForm,         \* a page without a form
    Edits,          \* bound: the fields one sender may ever change, and the
                    \* steps this sender may leave by Back
    Amount,         \* bound: the numbers typed into number fields
    HalfShare,      \* bound: the shares typed into the mix, in halves
    Day,            \* bound: the dates picked
    MaxRows,        \* bound: rows added to each table
    Start           \* bound: how many steps a draft has when it is opened

ASSUME FormsAssumption ==
    /\ Amount \subseteq Nat /\ HalfShare \subseteq Nat /\ Day \subseteq Nat \ {0}
    /\ MaxRows \in [DOMAIN MinRows -> Nat] /\ Start \subseteq 0 .. 7

VARIABLES
    saved,      \* the values of the draft's saved steps and of the organization
    kept,       \* the wizard's page state: values of steps left by Back
    page,       \* the page shown
    form,       \* what its form holds
    inputs,     \* the number inputs of the difficulty mix
    termsOpen,  \* the standard terms of step 1 are unfolded
    refusal,    \* the fields the last Next refused
    answer,     \* what became of the last request for the document
    edited      \* the fields this sender changes, the steps left by Back

vars == <<saved, kept, page, form, inputs, termsOpen, refusal, answer, edited>>

Saves == Step \cup {"organization"}
Page == Saves \cup {"list", "review"}

\* What a number input shows and the value it was last given, in halves.
Input == [text : Number, last : Number]
Showing(n) == [text |-> n, last |-> n]
NoInputs == [l \in Level |-> Showing(NaN)]

TypeOK ==
    /\ DOMAIN saved \subseteq Saves
    /\ \A s \in DOMAIN saved : saved[s] \in StepValues(s)
    /\ DOMAIN kept \subseteq Step \ {"agreement"}
    /\ \A s \in DOMAIN kept : kept[s] \in StepValues(s)
    /\ page \in Page
    /\ page \in Saves => form \in StepValues(page)
    /\ page \notin Saves => form = NoForm
    /\ inputs \in [Level -> Input]
    /\ termsOpen \in BOOLEAN
    /\ answer \in {"none", "incomplete", "refused", "accepted"}

-----------------------------------------------------------------------------
(* The wizard's pages *)

StepOrder == <<"agreement", "scope", "pricing", "environment", "technical",
               "delivery", "counterparty">>

After ==
    [agreement |-> "scope", scope |-> "pricing", pricing |-> "environment",
     environment |-> "technical", technical |-> "delivery",
     delivery |-> "counterparty", counterparty |-> "review", organization |-> "list"]

Before ==
    [scope |-> "agreement", pricing |-> "scope", environment |-> "pricing",
     technical |-> "environment", delivery |-> "technical",
     counterparty |-> "delivery", review |-> "counterparty"]

Put(values, s, v) == [r \in DOMAIN values \cup {s} |-> IF r = s THEN v ELSE values[r]]

Nothing == [s \in {} |-> NoForm]

\* Kept values over saved ones over the defaults.
Shown(p, savedValues, keptValues) ==
    IF p \in DOMAIN keptValues THEN keptValues[p]
    ELSE IF p \in DOMAIN savedValues THEN savedValues[p]
    ELSE Default(p)

\* The page p is mounted, with a form of its own.
Open(p) ==
    /\ page' = p
    /\ form' = IF p \in Saves THEN Shown(p, saved', kept') ELSE NoForm
    /\ inputs' = IF p = "environment"
                 THEN [l \in Level |-> Showing(2 * form'.difficulty[l])]
                 ELSE NoInputs
    /\ termsOpen' = FALSE
    /\ refusal' = {}
    /\ answer' = "none"
    /\ UNCHANGED edited

\* The values a sender has typed who filled in every field.
Filled(s) ==
    CASE s = "agreement" ->
            [DefaultAgreementTerms EXCEPT !.texts = Typed, !.effectiveDate = 1]
      [] s = "scope" ->
            [DefaultScope EXCEPT !.texts = Typed, !.targetVolume = 1,
                                 !.regions = [c \in Country |-> 1]]
      [] s = "pricing" ->
            [DefaultPricing EXCEPT !.texts = Typed, !.unitFee = 0,
                !.milestones = << [text |-> Typed, deadline |-> 1, isFinal |-> FALSE],
                                  [text |-> Typed, deadline |-> 2, isFinal |-> TRUE] >>]
      [] s = "counterparty" ->
            [DefaultCounterparty EXCEPT !.texts = Typed, !.details = Typed]
      [] s = "organization" ->
            [texts |-> Typed, legalName |-> Typed, shortName |-> Typed]
      [] OTHER -> Default(s)

\* A page load of a draft whose first steps are saved.
Init ==
    /\ \E n \in Start, organization \in SUBSET {"organization"} :
          saved = [s \in {StepOrder[i] : i \in 1 .. n} \cup organization |-> Filled(s)]
    /\ kept = Nothing
    /\ page = "list"
    /\ form = NoForm
    /\ inputs = NoInputs
    /\ termsOpen = FALSE
    /\ refusal = {}
    /\ answer = "none"
    /\ edited \in Edits

-----------------------------------------------------------------------------
(* The fields *)

Changed(values) ==
    /\ form' = values
    /\ refusal' = {}
    /\ UNCHANGED <<saved, kept, page, termsOpen, answer, edited>>

Becomes(f, v) ==
    /\ f \in edited
    /\ v # form[f]
    /\ Changed([form EXCEPT ![f] = v])
    /\ UNCHANGED inputs

EditText(f) == \E t \in Text : Becomes(f, t)

EditDate(f) == \E d \in Day \cup {NoDate} : Becomes(f, d)

\* An emptied number field stores NaN.
EditNumber(f) == \E n \in Amount \cup {NaN} : Becomes(f, n)

\* MoneyField and VolumeField; the currency and the unit are texts.
EditMoney(f) == EditNumber(f)
EditVolume(f) == EditNumber(f)

EditToggle(f) == Becomes(f, ~ form[f])

EditChoice(f, options) == \E option \in options : Becomes(f, option)

\* Mutant: a country picked again is listed twice.
AddCountry(f, c) == Becomes(f, [form[f] EXCEPT ![c] = @ + 1])

\* Out of the list wherever it is in it, or at its end.
ToggleCountry(f, c) ==
    Becomes(f, [form[f] EXCEPT ![c] = IF form[f][c] > 0 THEN 0 ELSE 1])

EditCountries(f) == \E c \in Country : ToggleCountry(f, c)

\* The table's own buttons, its drag handle and its text cells.
AppendRow(t, emptyRow) ==
    /\ Len(form[t]) < MaxRows[t]
    /\ Becomes(t, Append(form[t], emptyRow))

RemoveRow(t, i) ==
    /\ Len(form[t]) > MinRows[t]
    /\ Becomes(t, RemoveAt(form[t], i))

MoveRow(t, from, to) ==
    Becomes(t, InsertAt(RemoveAt(form[t], from), to, form[t][from]))

EditRows(t, emptyRow) ==
    \/ AppendRow(t, emptyRow)
    \/ \E i \in DOMAIN form[t] : RemoveRow(t, i)
    \/ \E i, j \in DOMAIN form[t] : MoveRow(t, i, j)
    \/ \E i \in DOMAIN form[t], x \in Text :
          Becomes(t, [form[t] EXCEPT ![i].text = x])

EditDeadline(i) ==
    \E d \in Day \cup {NoDate} :
        Becomes("milestones", [form.milestones EXCEPT ![i].deadline = d])

\* Mutant: a row is marked, the others are left as they are.
MarkRowAlone(t, i) == Becomes(t, [form[t] EXCEPT ![i].isFinal = TRUE])

MarkRow(t, i) ==
    Becomes(t, [k \in DOMAIN form[t] |-> [form[t][k] EXCEPT !.isFinal = (k = i)]])

-----------------------------------------------------------------------------
(* The difficulty mix *)

\* Mutant: a share is not held below the total.
ClampBelow(h) == IF h = NaN THEN 0 ELSE (h + 1) \div 2

\* Math.round of h halves, within bounds; no number is 0.
Clamp(h) ==
    IF h = NaN THEN 0
    ELSE IF (h + 1) \div 2 <= Total THEN (h + 1) \div 2 ELSE Total

Neighbour == [easy |-> "medium", medium |-> "hard", hard |-> "medium"]
Far == [easy |-> "hard", medium |-> "easy", hard |-> "easy"]

Lesser(m, n) == IF m <= n THEN m ELSE n

Rebalance(mix, level, share) ==
    LET rest == Total - share
        far == Lesser(mix[Far[level]], rest)
    IN  [mix EXCEPT ![level] = share,
                    ![Far[level]] = far,
                    ![Neighbour[level]] = rest - far]

\* A number input is rendered with a value: it shows a value it was not given last.
Rendered(input, value) == IF value = input.last THEN input ELSE Showing(value)

MixBecomes(mix, typed) ==
    /\ "difficulty" \in edited
    /\ Changed([form EXCEPT !.difficulty = mix])
    /\ inputs' = [l \in Level |-> Rendered(typed[l], 2 * mix[l])]

\* Mutant: typing does not note the value the input holds.
TypeShareUnnoted(level, h) ==
    MixBecomes(Rebalance(form.difficulty, level, Clamp(h)),
               [inputs EXCEPT ![level].text = h])

TypeShare(level, h) ==
    MixBecomes(Rebalance(form.difficulty, level, Clamp(h)),
               [inputs EXCEPT ![level] = Showing(h)])

DragThumbs(first, second) ==
    /\ first <= second
    /\ MixBecomes([l \in Level |-> CASE l = "easy" -> first
                                     [] l = "medium" -> second - first
                                     [] OTHER -> Total - second],
                  inputs)

EditMix ==
    \/ \E l \in Level, h \in HalfShare \cup {NaN} : TypeShare(l, h)
    \/ \E first, second \in 0 .. Total : DragThumbs(first, second)

-----------------------------------------------------------------------------
(* The forms, with the fields they show *)

\* The fields in the section that is folded when step 1 is opened.
StandardTerms == {"cureDays", "multiplier"}

\* Unfolds the section, or folds it and takes its fields off the page.
ToggleTerms ==
    /\ page = "agreement"
    /\ termsOpen' = ~ termsOpen
    /\ UNCHANGED <<saved, kept, page, form, inputs, refusal, answer, edited>>

EditAgreement ==
    /\ page = "agreement"
    /\ \/ EditText("texts")
       \/ EditDate("effectiveDate")
       \/ termsOpen /\ \E f \in StandardTerms : EditNumber(f)

EditScope ==
    /\ page = "scope"
    /\ \/ EditText("texts")
       \/ EditVolume("targetVolume")
       \/ EditCountries("regions")
       \/ EditRows("deliverables", EmptyRow)

EditPricing ==
    /\ page = "pricing"
    /\ \/ EditText("texts")
       \/ EditMoney("unitFee")
       \/ EditToggle("depositRequired")
       \/ form.depositRequired /\ EditNumber("depositAmount")
       \/ EditRows("milestones", EmptyMilestone)
       \/ \E i \in DOMAIN form.milestones :
             EditDeadline(i) \/ MarkRow("milestones", i)

EditEnvironment ==
    /\ page = "environment"
    /\ \/ EditRows("verticals", EmptyRow)
       \/ EditRows("extraProhibited", EmptyRow)
       \/ EditMix

EditTechnical ==
    /\ page = "technical"
    /\ EditRows("requirements", EmptyRow) \/ EditRows("preCollectionMaterials", EmptyRow)

EditDelivery ==
    /\ page = "delivery"
    /\ \/ EditText("texts")
       \/ EditRows("manifestFields", EmptyRow)
       \/ EditRows("siteDataFields", EmptyRow)
       \/ EditToggle("rejectedStaysDeveloperOwned")
       \/ form.rejectedStaysDeveloperOwned /\ EditNumber("deletionWindowDays")

EditCounterparty ==
    /\ page = "counterparty"
    /\ \/ EditChoice("mode", {"details", "invite"})
       \/ EditText("texts")
       \/ form.mode = "details" /\ EditText("details")

\* fillDerived, when the focus leaves a field; the governing law likewise.
FillDerived ==
    /\ form.shortName = Blank
    /\ form.legalName # Blank
    /\ Changed([form EXCEPT !.shortName = form.legalName])
    /\ UNCHANGED inputs

EditOrganization ==
    /\ page = "organization"
    /\ EditText("texts") \/ EditText("legalName") \/ EditText("shortName") \/ FillDerived

\* The fields of a form that are on the page.
Visible(p, values, f) ==
    /\ p = "agreement" /\ f \in StandardTerms => termsOpen
    /\ p = "pricing" /\ f = "depositAmount" => values.depositRequired
    /\ p = "delivery" /\ f = "deletionWindowDays" => values.rejectedStaysDeveloperOwned
    /\ p = "counterparty" /\ f = "details" => values.mode = "details"

-----------------------------------------------------------------------------
(* The wizard *)

\* Mutant: the form is saved without its schema.
SubmitUnchecked ==
    /\ page \in Saves
    /\ saved' = Put(saved, page, form)
    /\ UNCHANGED kept
    /\ Open(After[page])

\* Next, and Save changes of the organization: handleSubmit of a form that
\* its schema accepts, or refuses.
Submit ==
    /\ page \in Saves
    /\ Issues(page, form, EffectiveDate(saved)) = {}
    /\ saved' = Put(saved, page, form)
    /\ UNCHANGED kept
    /\ Open(After[page])

Refuse ==
    /\ page \in Saves
    /\ Issues(page, form, EffectiveDate(saved)) # {}
    /\ refusal' = Issues(page, form, EffectiveDate(saved))
    /\ UNCHANGED <<saved, kept, page, form, inputs, termsOpen, answer, edited>>

Back ==
    /\ page \in DOMAIN Before
    /\ page \in edited \cup {"review"}
    /\ kept' = IF page = "review" THEN kept ELSE Put(kept, page, form)
    /\ UNCHANGED saved
    /\ Open(Before[page])

EditFromReview(s) ==
    /\ page = "review"
    /\ UNCHANGED <<saved, kept>>
    /\ Open(s)

\* New agreement, or the draft in the list at its first step without values.
Resume ==
    LET missing == {i \in 1 .. 7 : StepOrder[i] \notin DOMAIN saved} IN
    /\ page = "list"
    /\ UNCHANGED <<saved, kept>>
    /\ IF missing = {} THEN Open("review")
       ELSE \E i \in missing : (\A j \in missing : i <= j) /\ Open(StepOrder[i])

\* The wizard is left: its page state goes.
Leave(p) ==
    /\ kept' = Nothing
    /\ UNCHANGED saved
    /\ Open(p)

ToList == page # "list" /\ Leave("list")

ToOrganization == page \in {"list", "review"} /\ Leave("organization")

\* The document is asked for on the list or the review, of a ready draft.
Deliver ==
    /\ page \in {"list", "review"}
    /\ Ready(saved)
    /\ answer' = IF ~ ConfigurationAccepted(saved) THEN "incomplete"
                 ELSE IF ApiIssues(saved) # {} THEN "refused"
                 ELSE "accepted"
    /\ UNCHANGED <<saved, kept, page, form, inputs, termsOpen, refusal, edited>>

-----------------------------------------------------------------------------

Edit ==
    \/ EditAgreement
    \/ EditScope
    \/ EditPricing
    \/ EditEnvironment
    \/ EditTechnical
    \/ EditDelivery
    \/ EditCounterparty
    \/ EditOrganization

Next ==
    \/ Edit
    \/ ToggleTerms
    \/ Submit
    \/ Refuse
    \/ Back
    \/ \E s \in Step : EditFromReview(s)
    \/ Resume
    \/ ToList
    \/ ToOrganization
    \/ Deliver

Spec == Init /\ [][Next]_vars

-----------------------------------------------------------------------------
(* Properties *)

\* A milestone of the draft is due before the draft's effective date.
DueBeforeStart(draft) ==
    \E i \in DOMAIN draft["pricing"].milestones :
        draft["pricing"].milestones[i].deadline < EffectiveDate(draft)

(* documentReadiness only counts saved steps, and contractConfiguration checks  *)
(* their values again.  Whatever the sender saves, goes back to and saves over, *)
(* a draft that is ready is refused as incomplete for one reason alone: step 1  *)
(* was saved with a later effective date after the milestones were.             *)
ReadyFailsOnlyByDate ==
    Ready(saved) /\ ~ ConfigurationAccepted(saved) => DueBeforeStart(saved)

(* The web app's schemas and the API's validation are written twice.  A draft   *)
(* that the web app accepts is refused by the API exactly for what only the API *)
(* checks: a deposit kept when none is required, a multiplier of 0, and the     *)
(* upper bounds of numbers and tables.                                          *)
ApiRefusesOnlyTheGap ==
    ConfigurationAccepted(saved) => ApiIssues(saved) = ApiOnlyIssues(saved)

(* "A radio column marks exactly one row": rows added, removed, dragged and     *)
(* marked in any order never leave two final deliveries, in the form or saved,  *)
(* so the first final row (schemas.ts) is the last one (the API).               *)
AtMostOneFinal(rows) ==
    \A i, j \in DOMAIN rows : rows[i].isFinal /\ rows[j].isFinal => i = j

OneFinalRow ==
    /\ page = "pricing" => AtMostOneFinal(form.milestones)
    /\ "pricing" \in DOMAIN saved => AtMostOneFinal(saved["pricing"].milestones)
    /\ "pricing" \in DOMAIN kept => AtMostOneFinal(kept["pricing"].milestones)

(* "The number fields below stay in sync with the track": whatever is typed     *)
(* into the three inputs (nothing, fractions, too much) and wherever the thumbs *)
(* are dragged, the shares add up, and each input shows the share it stands for *)
(* although it keeps a text of its own.                                         *)
MixIsShown ==
    page = "environment" =>
        /\ SharesAddUp(form.difficulty)
        /\ \A l \in Level : inputs[l].text = 2 * form.difficulty[l]

(* "each failing field MUST show its message beneath it": the code keeps this   *)
(* but for one case.  A refused field that is not on the page is a number that  *)
(* was emptied and then hidden: by folding the standard terms, by asking for no *)
(* deposit, or by giving up the rejected recordings.  Next is then refused and  *)
(* nothing may say why.                                                         *)
RefusalsAreShown ==
    \A f \in refusal : Visible(page, form, f) \/ form[f] = NaN

=============================================================================
