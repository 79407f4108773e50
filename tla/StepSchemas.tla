----------------------------- MODULE StepSchemas -----------------------------
(***************************************************************************)
(* The values of an agreement's seven steps and of the organization: what  *)
(* a form begins with (defaults.ts), what the web app accepts (schemas.ts, *)
(* configuration.ts, readiness.ts) and what the API accepts of what the    *)
(* web app sends (template-delivery-validation.go).                        *)
(*                                                                         *)
(* "texts" stands for the required texts, emails and choices of a step     *)
(* that no rule but their own is about.  cureDays stands for the five      *)
(* whole numbers of the standard terms.  Left out are:                     *)
(*   - the whole numbers with the rule of cureDays on both sides:          *)
(*     paymentTermsDays, changeWindowHours, reviewWindowDays,              *)
(*     correctionDays;                                                     *)
(*   - dataClaimsCapFloor, which has the rule of unitFee;                  *)
(*   - sowNumber, which no form shows: createDraft counts it from 1, and   *)
(*     the API takes it up to 999999;                                      *)
(*   - the tables limits and difficultyCaps, whose cells have rules of     *)
(*     their own only, and extraExcludedSettings, a second                 *)
(*     extraProhibited;                                                    *)
(*   - fractions, the length of texts, and switches no rule is about.      *)
(* A day is a number, an empty date 0, which is where the empty string     *)
(* sorts among the ISO dates.  The list of countries is how often each one *)
(* is in it; the API's limit on its length is above the number of codes    *)
(* there are.                                                              *)
(***************************************************************************)
EXTENDS Naturals, Sequences, FiniteSets

CONSTANTS
    Country,        \* the codes of countries.ts
    NaN,            \* an emptied number field
    Null,           \* a deposit amount never typed
    MoneyLimit,     \* 10_000_000_000_000
    RowLimit,       \* rows the API takes in a table: 100 or 250
    Total           \* what the shares of the difficulty mix add up to: 100

ASSUME CountriesAssumption == Country # {}

ASSUME NumbersAssumption ==
    /\ NaN \notin Nat /\ Null \notin Nat /\ NaN # Null
    /\ MoneyLimit \in Nat /\ MoneyLimit > 0
    /\ RowLimit \in Nat
    /\ Total \in Nat

Blank == ""
Typed == "typed"
Text == {Blank, Typed}
Number == Nat \cup {NaN}
NoDate == 0

Step == {"agreement", "scope", "pricing", "environment", "technical",
         "delivery", "counterparty"}
Level == {"easy", "medium", "hard"}

-----------------------------------------------------------------------------
(* The values *)

Row == [text : Text]
Milestone == [text : Text, deadline : Nat, isFinal : BOOLEAN]
Mix == [Level -> Nat]

StepValues(s) ==
    CASE s = "agreement" ->
            [texts : Text, effectiveDate : Nat, cureDays : Number, multiplier : Number]
      [] s = "scope" ->
            [texts : Text, targetVolume : Number, regions : [Country -> Nat],
             deliverables : Seq(Row)]
      [] s = "pricing" ->
            [texts : Text, unitFee : Number, depositRequired : BOOLEAN,
             depositAmount : Number \cup {Null}, milestones : Seq(Milestone)]
      [] s = "environment" ->
            [verticals : Seq(Row), difficulty : Mix, extraProhibited : Seq(Row)]
      [] s = "technical" ->
            [requirements : Seq(Row), preCollectionMaterials : Seq(Row)]
      [] s = "delivery" ->
            [texts : Text, manifestFields : Seq(Row), siteDataFields : Seq(Row),
             rejectedStaysDeveloperOwned : BOOLEAN, deletionWindowDays : Number]
      [] s = "counterparty" ->
            [mode : {"details", "invite"}, texts : Text, details : Text]
      [] s = "organization" ->
            [texts : Text, legalName : Text, shortName : Text]

\* The rows a table may not go below.
MinRows ==
    [deliverables |-> 1, milestones |-> 1, verticals |-> 1, extraProhibited |-> 0,
     requirements |-> 1, preCollectionMaterials |-> 0, manifestFields |-> 1,
     siteDataFields |-> 0]

-----------------------------------------------------------------------------
(* defaults.ts: a table's prefilled rows are one row here *)

EmptyRow == [text |-> Blank]
EmptyMilestone == [text |-> Blank, deadline |-> NoDate, isFinal |-> FALSE]
PrefilledRows == << [text |-> Typed] >>

DefaultMix ==
    LET easy == (2 * Total) \div 10
        medium == (3 * Total) \div 10
    IN  [l \in Level |-> CASE l = "easy" -> easy
                           [] l = "medium" -> medium
                           [] OTHER -> Total - easy - medium]

DefaultAgreementTerms ==
    [texts |-> Blank, effectiveDate |-> NoDate, cureDays |-> 30, multiplier |-> 2]
DefaultScope ==
    [texts |-> Blank, targetVolume |-> NaN, regions |-> [c \in Country |-> 0],
     deliverables |-> PrefilledRows]
DefaultPricing ==
    [texts |-> Blank, unitFee |-> NaN, depositRequired |-> FALSE,
     depositAmount |-> Null,
     milestones |-> << [text |-> Typed, deadline |-> NoDate, isFinal |-> FALSE],
                       [text |-> Typed, deadline |-> NoDate, isFinal |-> TRUE] >>]
DefaultEnvironment ==
    [verticals |-> PrefilledRows, difficulty |-> DefaultMix, extraProhibited |-> <<>>]
DefaultTechnical ==
    [requirements |-> PrefilledRows, preCollectionMaterials |-> PrefilledRows]
DefaultDelivery ==
    [texts |-> Typed, manifestFields |-> PrefilledRows,
     siteDataFields |-> PrefilledRows, rejectedStaysDeveloperOwned |-> TRUE,
     deletionWindowDays |-> 30]
DefaultCounterparty ==
    [mode |-> "details", texts |-> Blank, details |-> Blank]
EmptyOrganization ==
    [texts |-> Blank, legalName |-> Blank, shortName |-> Blank]

Default(s) ==
    CASE s = "agreement" -> DefaultAgreementTerms
      [] s = "scope" -> DefaultScope
      [] s = "pricing" -> DefaultPricing
      [] s = "environment" -> DefaultEnvironment
      [] s = "technical" -> DefaultTechnical
      [] s = "delivery" -> DefaultDelivery
      [] s = "counterparty" -> DefaultCounterparty
      [] s = "organization" -> EmptyOrganization

-----------------------------------------------------------------------------
(* schemas.ts: the fields of a step that its schema refuses *)

Failing(checks) == {f \in DOMAIN checks : ~ checks[f]}

\* The array schemas: enough rows, and every required text of a row.
RowsAccepted(t, rows) ==
    /\ Len(rows) >= MinRows[t]
    /\ \A i \in DOMAIN rows : rows[i].text # Blank

IsMoney(n) == n \in Nat /\ n < MoneyLimit

AgreementIssues(v) ==
    Failing([texts |-> v.texts # Blank,
             effectiveDate |-> v.effectiveDate # NoDate,
             cureDays |-> v.cureDays # NaN,
             multiplier |-> v.multiplier # NaN])

ScopeIssues(v) ==
    Failing([texts |-> v.texts # Blank,
             targetVolume |-> v.targetVolume # NaN /\ v.targetVolume > 0,
             regions |-> \E c \in Country : v.regions[c] > 0,
             deliverables |-> RowsAccepted("deliverables", v.deliverables)])

FinalRows(rows) == {i \in DOMAIN rows : rows[i].isFinal}

OneFinal(rows) == \E i \in DOMAIN rows : FinalRows(rows) = {i}

\* finalRows[0]; the deadline of no row at all is the empty string.
FirstFinalDeadline(rows) ==
    IF FinalRows(rows) = {} THEN NoDate
    ELSE rows[CHOOSE i \in FinalRows(rows) : \A j \in FinalRows(rows) : i <= j].deadline

DeadlinesInOrder(rows, effectiveDate, finalDeadline) ==
    \A i \in DOMAIN rows :
        /\ effectiveDate # NoDate => rows[i].deadline >= effectiveDate
        /\ ~ rows[i].isFinal /\ finalDeadline # NoDate => rows[i].deadline <= finalDeadline

PricingOwnIssues(v) ==
    Failing([texts |-> v.texts # Blank,
             unitFee |-> IsMoney(v.unitFee),
             depositAmount |-> v.depositAmount # NaN,
             milestones |->
                 /\ RowsAccepted("milestones", v.milestones)
                 /\ \A i \in DOMAIN v.milestones : v.milestones[i].deadline # NoDate])

PricingCrossIssues(v, effectiveDate) ==
    Failing([depositAmount |->
                 v.depositRequired => v.depositAmount \in Nat /\ v.depositAmount > 0,
             milestones |->
                 /\ OneFinal(v.milestones)
                 /\ DeadlinesInOrder(v.milestones, effectiveDate,
                                     FirstFinalDeadline(v.milestones))])

\* zod runs superRefine only on values whose numbers are numbers.
PricingIssues(v, effectiveDate) ==
    PricingOwnIssues(v) \cup
        IF v.unitFee = NaN \/ v.depositAmount = NaN THEN {}
        ELSE PricingCrossIssues(v, effectiveDate)

SharesAddUp(mix) ==
    /\ \A l \in Level : mix[l] \in 0 .. Total
    /\ mix["easy"] + mix["medium"] + mix["hard"] = Total

EnvironmentIssues(v) ==
    Failing([verticals |-> RowsAccepted("verticals", v.verticals),
             difficulty |-> SharesAddUp(v.difficulty),
             extraProhibited |-> RowsAccepted("extraProhibited", v.extraProhibited)])

TechnicalIssues(v) ==
    Failing([requirements |-> RowsAccepted("requirements", v.requirements),
             preCollectionMaterials |->
                 RowsAccepted("preCollectionMaterials", v.preCollectionMaterials)])

DeliveryIssues(v) ==
    Failing([texts |-> v.texts # Blank,
             manifestFields |-> RowsAccepted("manifestFields", v.manifestFields),
             siteDataFields |-> RowsAccepted("siteDataFields", v.siteDataFields),
             deletionWindowDays |-> v.deletionWindowDays # NaN])

\* Mutant: the details are required of an invitation too.
CounterpartyIssuesInBothModes(v) ==
    Failing([texts |-> v.texts # Blank, details |-> v.details # Blank])

CounterpartyIssues(v) ==
    Failing([texts |-> v.texts # Blank,
             details |-> v.mode = "details" => v.details # Blank])

OrganizationIssues(v) ==
    Failing([texts |-> v.texts # Blank,
             legalName |-> v.legalName # Blank,
             shortName |-> v.shortName # Blank])

Issues(s, v, effectiveDate) ==
    CASE s = "agreement" -> AgreementIssues(v)
      [] s = "scope" -> ScopeIssues(v)
      [] s = "pricing" -> PricingIssues(v, effectiveDate)
      [] s = "environment" -> EnvironmentIssues(v)
      [] s = "technical" -> TechnicalIssues(v)
      [] s = "delivery" -> DeliveryIssues(v)
      [] s = "counterparty" -> CounterpartyIssues(v)
      [] s = "organization" -> OrganizationIssues(v)

-----------------------------------------------------------------------------
(* A whole draft, a function from its saved steps to their values *)

\* documentReadiness
Ready(saved) == DOMAIN saved = Step \cup {"organization"}

\* What pricingSchema is given: the effective date saved on step 1.
EffectiveDate(saved) ==
    IF "agreement" \in DOMAIN saved THEN saved["agreement"].effectiveDate ELSE NoDate

\* contractConfiguration, of a draft of the current template version
ConfigurationAccepted(saved) ==
    /\ Ready(saved)
    /\ \A s \in DOMAIN saved : Issues(s, saved[s], EffectiveDate(saved)) = {}

-----------------------------------------------------------------------------
(* template-delivery-validation.go: the fields the API refuses *)

InRange(n) == n \in Nat /\ n < MoneyLimit

\* A whole number may be the limit itself.
WholeInRange(n) == n \in Nat /\ n <= MoneyLimit

ApiRows(t, rows) == RowsAccepted(t, rows) /\ Len(rows) <= RowLimit

ApiAgreement(v) ==
    Failing([texts |-> v.texts # Blank,
             effectiveDate |-> v.effectiveDate # NoDate,
             cureDays |-> WholeInRange(v.cureDays),
             multiplier |-> InRange(v.multiplier) /\ v.multiplier > 0])

ApiScope(v) ==
    Failing([texts |-> v.texts # Blank,
             targetVolume |-> InRange(v.targetVolume) /\ v.targetVolume > 0,
             regions |->
                 /\ \E c \in Country : v.regions[c] > 0
                 /\ \A c \in Country : v.regions[c] <= 1,
             deliverables |-> ApiRows("deliverables", v.deliverables)])

\* The deadline of the last final row.
LastFinalDeadline(rows) ==
    IF FinalRows(rows) = {} THEN NoDate
    ELSE rows[CHOOSE i \in FinalRows(rows) : \A j \in FinalRows(rows) : i >= j].deadline

ApiPricing(v, effectiveDate) ==
    Failing([texts |-> v.texts # Blank,
             unitFee |-> InRange(v.unitFee),
             depositAmount |->
                 IF v.depositRequired THEN InRange(v.depositAmount) /\ v.depositAmount > 0
                 ELSE v.depositAmount = Null,
             milestones |->
                 /\ ApiRows("milestones", v.milestones)
                 /\ \A i \in DOMAIN v.milestones : v.milestones[i].deadline # NoDate
                 /\ OneFinal(v.milestones)
                 /\ DeadlinesInOrder(v.milestones, effectiveDate,
                                     LastFinalDeadline(v.milestones))])

ApiEnvironment(v) ==
    Failing([verticals |-> ApiRows("verticals", v.verticals),
             difficulty |-> SharesAddUp(v.difficulty),
             extraProhibited |-> ApiRows("extraProhibited", v.extraProhibited)])

ApiTechnical(v) ==
    Failing([requirements |-> ApiRows("requirements", v.requirements),
             preCollectionMaterials |->
                 ApiRows("preCollectionMaterials", v.preCollectionMaterials)])

ApiDelivery(v) ==
    Failing([texts |-> v.texts # Blank,
             manifestFields |-> ApiRows("manifestFields", v.manifestFields),
             siteDataFields |-> ApiRows("siteDataFields", v.siteDataFields),
             deletionWindowDays |-> WholeInRange(v.deletionWindowDays)])

ApiCounterparty(v) ==
    Failing([texts |-> v.texts # Blank,
             details |-> v.mode = "details" => v.details # Blank])

ApiOrganization(v) ==
    Failing([texts |-> v.texts # Blank, legalName |-> v.legalName # Blank,
             shortName |-> v.shortName # Blank])

\* validateConfiguration
ApiIssues(saved) ==
    ApiAgreement(saved["agreement"])
    \cup ApiScope(saved["scope"])
    \cup ApiPricing(saved["pricing"], saved["agreement"].effectiveDate)
    \cup ApiEnvironment(saved["environment"])
    \cup ApiTechnical(saved["technical"])
    \cup ApiDelivery(saved["delivery"])
    \cup ApiCounterparty(saved["counterparty"])
    \cup ApiOrganization(saved["organization"])

\* What only the API checks of a step: a deposit kept when none is required, a
\* multiplier of zero, the upper bounds of numbers and of tables.
Unless(ok, f) == IF ok THEN {} ELSE {f}

RowsFit(v, t) == Unless(Len(v[t]) <= RowLimit, t)

ApiOnly(s, v) ==
    CASE s = "agreement" ->
            Unless(v.cureDays <= MoneyLimit, "cureDays")
            \cup Unless(v.multiplier > 0 /\ v.multiplier < MoneyLimit, "multiplier")
      [] s = "scope" ->
            Unless(v.targetVolume < MoneyLimit, "targetVolume")
            \cup RowsFit(v, "deliverables")
      [] s = "pricing" ->
            Unless(IF v.depositRequired THEN v.depositAmount < MoneyLimit
                   ELSE v.depositAmount = Null, "depositAmount")
            \cup RowsFit(v, "milestones")
      [] s = "environment" -> RowsFit(v, "verticals") \cup RowsFit(v, "extraProhibited")
      [] s = "technical" ->
            RowsFit(v, "requirements") \cup RowsFit(v, "preCollectionMaterials")
      [] s = "delivery" ->
            Unless(v.deletionWindowDays <= MoneyLimit, "deletionWindowDays")
            \cup RowsFit(v, "manifestFields") \cup RowsFit(v, "siteDataFields")
      [] OTHER -> {}

ApiOnlyIssues(saved) == UNION {ApiOnly(s, saved[s]) : s \in DOMAIN saved}

=============================================================================
