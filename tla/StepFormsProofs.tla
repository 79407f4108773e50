--------------------------- MODULE StepFormsProofs --------------------------
(***************************************************************************)
(* Proofs about StepForms, for every limit, table and set of inputs.       *)
(* What is saved and what is edited keeps the forms' structure (Good).     *)
(* What is saved raised no issue when it was, but the effective date it    *)
(* was compared with may have been changed since: what stays true of it is *)
(* that it raises none without an effective date (SavedGood).  The issues  *)
(* shown are those of the form as it stands, as every edit takes them away *)
(* (RefusalGood), and on step 5 the inputs show the numbers of the form    *)
(* (InputsGood).                                                           *)
(***************************************************************************)
EXTENDS StepForms, SequenceTheorems, TLAPS

-----------------------------------------------------------------------------
(* Tables *)

LEMMA RemoveAtRows ==
    ASSUME NEW T, NEW rows \in Seq(T), NEW i \in DOMAIN rows
    PROVE  /\ RemoveAt(rows, i) \in Seq(T)
           /\ Len(RemoveAt(rows, i)) = Len(rows) - 1
           /\ \A k \in 1 .. Len(rows) - 1 :
                 RemoveAt(rows, i)[k] = IF k < i THEN rows[k] ELSE rows[k + 1]
<1> DEFINE front == SubSeq(rows, 1, i - 1)
           back == SubSeq(rows, i + 1, Len(rows))
<1>1. /\ i \in Nat /\ 1 <= i /\ i <= Len(rows) /\ Len(rows) \in Nat
  BY LenProperties
<1>2. /\ front \in Seq(T) /\ Len(front) = i - 1
      /\ \A k \in 1 .. i - 1 : front[k] = rows[k]
  BY <1>1, SubSeqProperties
<1>3. /\ back \in Seq(T) /\ Len(back) = Len(rows) - i
      /\ \A k \in 1 .. Len(rows) - i : back[k] = rows[i + k]
  BY <1>1, SubSeqProperties
<1>4. RemoveAt(rows, i) = front \o back
  BY DEF RemoveAt
<1> HIDE DEF front, back
<1>5. /\ front \o back \in Seq(T)
      /\ Len(front \o back) = Len(front) + Len(back)
      /\ \A k \in 1 .. Len(front) + Len(back) :
            (front \o back)[k] = IF k <= Len(front) THEN front[k] ELSE back[k - Len(front)]
  BY <1>2, <1>3, ConcatProperties
<1>6. RemoveAt(rows, i) \in Seq(T) /\ Len(RemoveAt(rows, i)) = Len(rows) - 1
  BY <1>1, <1>2, <1>3, <1>4, <1>5
<1>7. ASSUME NEW k \in 1 .. Len(rows) - 1
      PROVE  RemoveAt(rows, i)[k] = IF k < i THEN rows[k] ELSE rows[k + 1]
  <2>1. k \in 1 .. Len(front) + Len(back)
    BY <1>1, <1>2, <1>3
  <2>2. RemoveAt(rows, i)[k] = IF k <= Len(front) THEN front[k] ELSE back[k - Len(front)]
    BY <2>1, <1>4, <1>5
  <2>3. CASE k < i
    <3>1. front[k] = rows[k] /\ k <= Len(front)
      BY <2>3, <1>1, <1>2
    <3> QED
      BY <2>2, <2>3, <3>1
  <2>4. CASE ~ (k < i)
    <3>1. k - (i - 1) \in 1 .. Len(rows) - i /\ ~ (k <= Len(front))
      BY <2>4, <1>1, <1>2
    <3>2. back[k - (i - 1)] = rows[i + (k - (i - 1))]
      BY <3>1, <1>3
    <3>3. i + (k - (i - 1)) = k + 1
      BY <1>1
    <3> QED
      BY <2>2, <2>4, <3>1, <3>2, <3>3, <1>2
  <2> QED
    BY <2>3, <2>4
<1>8. QED
  BY <1>6, <1>7

\* Row k after e was inserted at i.
InsertedRow(rows, i, e, k) ==
    IF k < i THEN rows[k] ELSE IF k = i THEN e ELSE rows[k - 1]

LEMMA InsertAtRows ==
    ASSUME NEW T, NEW rows \in Seq(T), NEW e \in T, NEW i \in 1 .. Len(rows) + 1,
           NEW k \in 1 .. Len(rows) + 1
    PROVE  /\ InsertAt(rows, i, e) \in Seq(T)
           /\ Len(InsertAt(rows, i, e)) = Len(rows) + 1
           /\ InsertAt(rows, i, e)[k] = InsertedRow(rows, i, e, k)
<1> DEFINE front == SubSeq(rows, 1, i - 1)
           back == SubSeq(rows, i, Len(rows))
           head == front \o <<e>>
<1>1. /\ i \in Nat /\ 1 <= i /\ i <= Len(rows) + 1 /\ Len(rows) \in Nat
  BY LenProperties
<1>2. /\ front \in Seq(T) /\ Len(front) = i - 1
      /\ \A j \in 1 .. i - 1 : front[j] = rows[j]
  BY <1>1, SubSeqProperties
<1>3. /\ back \in Seq(T) /\ Len(back) = Len(rows) - i + 1
      /\ \A j \in 1 .. Len(rows) - i + 1 : back[j] = rows[i + j - 1]
  BY <1>1, SubSeqProperties
<1>4. InsertAt(rows, i, e) = head \o back
  BY DEF InsertAt
<1>5. <<e>> \in Seq(T) /\ Len(<<e>>) = 1 /\ <<e>>[1] = e
  OBVIOUS
<1> HIDE DEF front, back
<1>6. /\ head \in Seq(T) /\ Len(head) = i
      /\ \A j \in 1 .. i : head[j] = IF j <= i - 1 THEN rows[j] ELSE e
  BY <1>1, <1>2, <1>5, ConcatProperties
<1> HIDE DEF head
<1>7. /\ head \o back \in Seq(T)
      /\ Len(head \o back) = Len(head) + Len(back)
      /\ \A j \in 1 .. Len(head) + Len(back) :
            (head \o back)[j] = IF j <= Len(head) THEN head[j] ELSE back[j - Len(head)]
  BY <1>3, <1>6, ConcatProperties
<1>8. (head \o back)[k] = InsertedRow(rows, i, e, k)
  <2>1. CASE k <= i
    <3>1. k \in 1 .. i /\ k \in 1 .. Len(head) + Len(back)
      BY <2>1, <1>1, <1>3, <1>6
    <3>2. (head \o back)[k] = head[k]
      BY <2>1, <3>1, <1>6, <1>7
    <3> QED
      BY <2>1, <3>1, <3>2, <1>1, <1>6 DEF InsertedRow
  <2>2. CASE ~ (k <= i)
    <3>1. k - i \in 1 .. Len(rows) - i + 1 /\ k \in 1 .. Len(head) + Len(back)
      BY <2>2, <1>1, <1>3, <1>6
    <3>2. (head \o back)[k] = back[k - i]
      BY <2>2, <3>1, <1>1, <1>6, <1>7
    <3>3. back[k - i] = rows[i + (k - i) - 1]
      BY <3>1, <1>3
    <3>4. i + (k - i) - 1 = k - 1
      BY <1>1
    <3> QED
      BY <2>2, <3>2, <3>3, <3>4, <1>1 DEF InsertedRow
  <2> QED
    BY <2>1, <2>2
<1>9. QED
  BY <1>1, <1>3, <1>4, <1>6, <1>7, <1>8

\* Where row k comes from, after the row from was dragged to the place of the row to.
MovedFrom(from, to, k) ==
    IF k = to THEN from
    ELSE IF (k < to /\ k < from) \/ (k > to /\ k > from) THEN k
    ELSE IF k < to THEN k + 1 ELSE k - 1

LEMMA MovedRows ==
    ASSUME NEW T, NEW rows \in Seq(T), NEW from \in DOMAIN rows, NEW to \in DOMAIN rows,
           NEW moved, moved = InsertAt(RemoveAt(rows, from), to, rows[from]),
           NEW k \in DOMAIN rows
    PROVE  /\ moved \in Seq(T)
           /\ DOMAIN moved = DOMAIN rows
           /\ moved[k] = rows[MovedFrom(from, to, k)]
<1> DEFINE rest == RemoveAt(rows, from)
<1>1. /\ rest \in Seq(T) /\ Len(rest) = Len(rows) - 1
      /\ \A l \in 1 .. Len(rows) - 1 :
            rest[l] = IF l < from THEN rows[l] ELSE rows[l + 1]
  BY RemoveAtRows
<1>2. /\ Len(rows) \in Nat /\ DOMAIN rows = 1 .. Len(rows)
      /\ from \in 1 .. Len(rows) /\ to \in 1 .. Len(rows) /\ rows[from] \in T
  BY LenProperties
<1> HIDE DEF rest
<1>3. ASSUME NEW l \in 1 .. Len(rest) + 1
      PROVE  /\ InsertAt(rest, to, rows[from]) \in Seq(T)
             /\ Len(InsertAt(rest, to, rows[from])) = Len(rest) + 1
             /\ InsertAt(rest, to, rows[from])[l] = InsertedRow(rest, to, rows[from], l)
  <2>1. to \in 1 .. Len(rest) + 1
    BY <1>1, <1>2
  <2>2. rest \in Seq(T) /\ rows[from] \in T
    BY <1>1, <1>2
  <2> QED
    BY <2>1, <2>2, InsertAtRows
<1>4. moved = InsertAt(rest, to, rows[from])
  BY DEF rest
<1>5. moved \in Seq(T) /\ Len(moved) = Len(rows) /\ DOMAIN moved = 1 .. Len(rows)
  <2>1. moved \in Seq(T) /\ Len(moved) = Len(rows)
    BY <1>1, <1>2, <1>3, <1>4
  <2> QED
    BY <2>1, LenProperties
<1>6. moved[k] = rows[MovedFrom(from, to, k)]
  <2> USE DEF MovedFrom, InsertedRow
  <2>1. moved[k] = IF k < to THEN rest[k] ELSE IF k = to THEN rows[from] ELSE rest[k - 1]
    BY <1>1, <1>2, <1>3, <1>4
  <2>2. CASE k = to
    BY <2>1, <2>2, <1>2
  <2>3. CASE k < to
    <3>1. rest[k] = IF k < from THEN rows[k] ELSE rows[k + 1]
      BY <2>3, <1>1, <1>2
    <3> QED
      BY <2>1, <2>3, <3>1, <1>2
  <2>4. CASE k > to
    <3>1. k - 1 \in 1 .. Len(rows) - 1
      BY <2>4, <1>2
    <3>2. rest[k - 1] = IF k - 1 < from THEN rows[k - 1] ELSE rows[k - 1 + 1]
      BY <3>1, <1>1
    <3> QED
      BY <2>1, <2>4, <3>2, <1>2
  <2> QED
    BY <2>2, <2>3, <2>4, <1>2
<1>7. QED
  BY <1>2, <1>5, <1>6

-----------------------------------------------------------------------------
(* What a schema accepts, field by field *)

LEMMA NoneFailing ==
    ASSUME NEW checks
    PROVE  Failing(checks) = {} <=> \A f \in DOMAIN checks : checks[f]
BY DEF Failing

LEMMA AgreementAccepted ==
    ASSUME NEW v
    PROVE  AgreementIssues(v) = {} <=>
              /\ v.texts # Blank
              /\ v.effectiveDate # NoDate
              /\ v.cureDays # NaN
              /\ v.multiplier # NaN
<1> DEFINE textsOk == v.texts # Blank
           effectiveDateOk == v.effectiveDate # NoDate
           cureDaysOk == v.cureDays # NaN
           multiplierOk == v.multiplier # NaN
           checks == [texts |-> textsOk,
                      effectiveDate |-> effectiveDateOk,
                      cureDays |-> cureDaysOk,
                      multiplier |-> multiplierOk]
<1>1. AgreementIssues(v) = Failing(checks)
  BY DEF AgreementIssues
<1> HIDE DEF textsOk, effectiveDateOk, cureDaysOk, multiplierOk
<1>2. DOMAIN checks = {"texts", "effectiveDate", "cureDays", "multiplier"}
  OBVIOUS
<1>3. /\ checks["texts"] = textsOk
      /\ checks["effectiveDate"] = effectiveDateOk
      /\ checks["cureDays"] = cureDaysOk
      /\ checks["multiplier"] = multiplierOk
  OBVIOUS
<1> HIDE DEF checks
<1>4. Failing(checks) = {} <=> textsOk /\ effectiveDateOk /\ cureDaysOk /\ multiplierOk
  BY <1>2, <1>3, NoneFailing
<1> QED
  BY <1>1, <1>4 DEF textsOk, effectiveDateOk, cureDaysOk, multiplierOk

LEMMA ScopeAccepted ==
    ASSUME NEW v
    PROVE  ScopeIssues(v) = {} <=>
              /\ v.texts # Blank
              /\ (v.targetVolume # NaN /\ v.targetVolume > 0)
              /\ (\E c \in Country : v.regions[c] > 0)
              /\ RowsAccepted("deliverables", v.deliverables)
<1> DEFINE textsOk == v.texts # Blank
           targetVolumeOk == (v.targetVolume # NaN /\ v.targetVolume > 0)
           regionsOk == (\E c \in Country : v.regions[c] > 0)
           deliverablesOk == RowsAccepted("deliverables", v.deliverables)
           checks == [texts |-> textsOk,
                      targetVolume |-> targetVolumeOk,
                      regions |-> regionsOk,
                      deliverables |-> deliverablesOk]
<1>1. ScopeIssues(v) = Failing(checks)
  BY DEF ScopeIssues
<1> HIDE DEF textsOk, targetVolumeOk, regionsOk, deliverablesOk
<1>2. DOMAIN checks = {"texts", "targetVolume", "regions", "deliverables"}
  OBVIOUS
<1>3. /\ checks["texts"] = textsOk
      /\ checks["targetVolume"] = targetVolumeOk
      /\ checks["regions"] = regionsOk
      /\ checks["deliverables"] = deliverablesOk
  OBVIOUS
<1> HIDE DEF checks
<1>4. Failing(checks) = {} <=> textsOk /\ targetVolumeOk /\ regionsOk /\ deliverablesOk
  BY <1>2, <1>3, NoneFailing
<1> QED
  BY <1>1, <1>4 DEF textsOk, targetVolumeOk, regionsOk, deliverablesOk

LEMMA PricingOwnAccepted ==
    ASSUME NEW v
    PROVE  PricingOwnIssues(v) = {} <=>
              /\ v.texts # Blank
              /\ IsMoney(v.unitFee)
              /\ v.depositAmount # NaN
              /\ (RowsAccepted("milestones", v.milestones)
                      /\ \A i \in DOMAIN v.milestones : v.milestones[i].deadline # NoDate)
<1> DEFINE textsOk == v.texts # Blank
           unitFeeOk == IsMoney(v.unitFee)
           depositAmountOk == v.depositAmount # NaN
           milestonesOk == (RowsAccepted("milestones", v.milestones)
                      /\ \A i \in DOMAIN v.milestones : v.milestones[i].deadline # NoDate)
           checks == [texts |-> textsOk,
                      unitFee |-> unitFeeOk,
                      depositAmount |-> depositAmountOk,
                      milestones |-> milestonesOk]
<1>1. PricingOwnIssues(v) = Failing(checks)
  BY DEF PricingOwnIssues
<1> HIDE DEF textsOk, unitFeeOk, depositAmountOk, milestonesOk
<1>2. DOMAIN checks = {"texts", "unitFee", "depositAmount", "milestones"}
  OBVIOUS
<1>3. /\ checks["texts"] = textsOk
      /\ checks["unitFee"] = unitFeeOk
      /\ checks["depositAmount"] = depositAmountOk
      /\ checks["milestones"] = milestonesOk
  OBVIOUS
<1> HIDE DEF checks
<1>4. Failing(checks) = {} <=> textsOk /\ unitFeeOk /\ depositAmountOk /\ milestonesOk
  BY <1>2, <1>3, NoneFailing
<1> QED
  BY <1>1, <1>4 DEF textsOk, unitFeeOk, depositAmountOk, milestonesOk

LEMMA PricingCrossAccepted ==
    ASSUME NEW v, NEW effectiveDate
    PROVE  PricingCrossIssues(v, effectiveDate) = {} <=>
              /\ (v.depositRequired => v.depositAmount \in Nat /\ v.depositAmount > 0)
              /\ (OneFinal(v.milestones)
                      /\ DeadlinesInOrder(v.milestones, effectiveDate,
                                          FirstFinalDeadline(v.milestones)))
<1> DEFINE depositAmountOk == (v.depositRequired => v.depositAmount \in Nat /\ v.depositAmount > 0)
           milestonesOk == (OneFinal(v.milestones)
                      /\ DeadlinesInOrder(v.milestones, effectiveDate,
                                          FirstFinalDeadline(v.milestones)))
           checks == [depositAmount |-> depositAmountOk,
                      milestones |-> milestonesOk]
<1>1. PricingCrossIssues(v, effectiveDate) = Failing(checks)
  BY DEF PricingCrossIssues
<1> HIDE DEF depositAmountOk, milestonesOk
<1>2. DOMAIN checks = {"depositAmount", "milestones"}
  OBVIOUS
<1>3. /\ checks["depositAmount"] = depositAmountOk
      /\ checks["milestones"] = milestonesOk
  OBVIOUS
<1> HIDE DEF checks
<1>4. Failing(checks) = {} <=> depositAmountOk /\ milestonesOk
  BY <1>2, <1>3, NoneFailing
<1> QED
  BY <1>1, <1>4 DEF depositAmountOk, milestonesOk

LEMMA PricingAccepted ==
    ASSUME NEW v, NEW effectiveDate
    PROVE  PricingIssues(v, effectiveDate) = {} <=>
              PricingOwnIssues(v) = {} /\ PricingCrossIssues(v, effectiveDate) = {}
<1>1. CASE v.unitFee = NaN \/ v.depositAmount = NaN
  <2>1. PricingOwnIssues(v) # {}
    BY <1>1, PricingOwnAccepted, NumbersAssumption DEF IsMoney
  <2> QED
    BY <1>1, <2>1 DEF PricingIssues
<1>2. CASE ~ (v.unitFee = NaN \/ v.depositAmount = NaN)
  BY <1>2 DEF PricingIssues
<1> QED
  BY <1>1, <1>2

LEMMA EnvironmentAccepted ==
    ASSUME NEW v
    PROVE  EnvironmentIssues(v) = {} <=>
              /\ RowsAccepted("verticals", v.verticals)
              /\ SharesAddUp(v.difficulty)
              /\ RowsAccepted("extraProhibited", v.extraProhibited)
<1> DEFINE verticalsOk == RowsAccepted("verticals", v.verticals)
           difficultyOk == SharesAddUp(v.difficulty)
           extraProhibitedOk == RowsAccepted("extraProhibited", v.extraProhibited)
           checks == [verticals |-> verticalsOk,
                      difficulty |-> difficultyOk,
                      extraProhibited |-> extraProhibitedOk]
<1>1. EnvironmentIssues(v) = Failing(checks)
  BY DEF EnvironmentIssues
<1> HIDE DEF verticalsOk, difficultyOk, extraProhibitedOk
<1>2. DOMAIN checks = {"verticals", "difficulty", "extraProhibited"}
  OBVIOUS
<1>3. /\ checks["verticals"] = verticalsOk
      /\ checks["difficulty"] = difficultyOk
      /\ checks["extraProhibited"] = extraProhibitedOk
  OBVIOUS
<1> HIDE DEF checks
<1>4. Failing(checks) = {} <=> verticalsOk /\ difficultyOk /\ extraProhibitedOk
  BY <1>2, <1>3, NoneFailing
<1> QED
  BY <1>1, <1>4 DEF verticalsOk, difficultyOk, extraProhibitedOk

LEMMA TechnicalAccepted ==
    ASSUME NEW v
    PROVE  TechnicalIssues(v) = {} <=>
              /\ RowsAccepted("requirements", v.requirements)
              /\ RowsAccepted("preCollectionMaterials", v.preCollectionMaterials)
<1> DEFINE requirementsOk == RowsAccepted("requirements", v.requirements)
           preCollectionMaterialsOk == RowsAccepted("preCollectionMaterials", v.preCollectionMaterials)
           checks == [requirements |-> requirementsOk,
                      preCollectionMaterials |-> preCollectionMaterialsOk]
<1>1. TechnicalIssues(v) = Failing(checks)
  BY DEF TechnicalIssues
<1> HIDE DEF requirementsOk, preCollectionMaterialsOk
<1>2. DOMAIN checks = {"requirements", "preCollectionMaterials"}
  OBVIOUS
<1>3. /\ checks["requirements"] = requirementsOk
      /\ checks["preCollectionMaterials"] = preCollectionMaterialsOk
  OBVIOUS
<1> HIDE DEF checks
<1>4. Failing(checks) = {} <=> requirementsOk /\ preCollectionMaterialsOk
  BY <1>2, <1>3, NoneFailing
<1> QED
  BY <1>1, <1>4 DEF requirementsOk, preCollectionMaterialsOk

LEMMA DeliveryAccepted ==
    ASSUME NEW v
    PROVE  DeliveryIssues(v) = {} <=>
              /\ v.texts # Blank
              /\ RowsAccepted("manifestFields", v.manifestFields)
              /\ RowsAccepted("siteDataFields", v.siteDataFields)
              /\ v.deletionWindowDays # NaN
<1> DEFINE textsOk == v.texts # Blank
           manifestFieldsOk == RowsAccepted("manifestFields", v.manifestFields)
           siteDataFieldsOk == RowsAccepted("siteDataFields", v.siteDataFields)
           deletionWindowDaysOk == v.deletionWindowDays # NaN
           checks == [texts |-> textsOk,
                      manifestFields |-> manifestFieldsOk,
                      siteDataFields |-> siteDataFieldsOk,
                      deletionWindowDays |-> deletionWindowDaysOk]
<1>1. DeliveryIssues(v) = Failing(checks)
  BY DEF DeliveryIssues
<1> HIDE DEF textsOk, manifestFieldsOk, siteDataFieldsOk, deletionWindowDaysOk
<1>2. DOMAIN checks = {"texts", "manifestFields", "siteDataFields", "deletionWindowDays"}
  OBVIOUS
<1>3. /\ checks["texts"] = textsOk
      /\ checks["manifestFields"] = manifestFieldsOk
      /\ checks["siteDataFields"] = siteDataFieldsOk
      /\ checks["deletionWindowDays"] = deletionWindowDaysOk
  OBVIOUS
<1> HIDE DEF checks
<1>4. Failing(checks) = {} <=> textsOk /\ manifestFieldsOk /\ siteDataFieldsOk /\ deletionWindowDaysOk
  BY <1>2, <1>3, NoneFailing
<1> QED
  BY <1>1, <1>4 DEF textsOk, manifestFieldsOk, siteDataFieldsOk, deletionWindowDaysOk

LEMMA CounterpartyAccepted ==
    ASSUME NEW v
    PROVE  CounterpartyIssues(v) = {} <=>
              /\ v.texts # Blank
              /\ (v.mode = "details" => v.details # Blank)
<1> DEFINE textsOk == v.texts # Blank
           detailsOk == (v.mode = "details" => v.details # Blank)
           checks == [texts |-> textsOk,
                      details |-> detailsOk]
<1>1. CounterpartyIssues(v) = Failing(checks)
  BY DEF CounterpartyIssues
<1> HIDE DEF textsOk, detailsOk
<1>2. DOMAIN checks = {"texts", "details"}
  OBVIOUS
<1>3. /\ checks["texts"] = textsOk
      /\ checks["details"] = detailsOk
  OBVIOUS
<1> HIDE DEF checks
<1>4. Failing(checks) = {} <=> textsOk /\ detailsOk
  BY <1>2, <1>3, NoneFailing
<1> QED
  BY <1>1, <1>4 DEF textsOk, detailsOk

LEMMA OrganizationAccepted ==
    ASSUME NEW v
    PROVE  OrganizationIssues(v) = {} <=>
              /\ v.texts # Blank
              /\ v.legalName # Blank
              /\ v.shortName # Blank
<1> DEFINE textsOk == v.texts # Blank
           legalNameOk == v.legalName # Blank
           shortNameOk == v.shortName # Blank
           checks == [texts |-> textsOk,
                      legalName |-> legalNameOk,
                      shortName |-> shortNameOk]
<1>1. OrganizationIssues(v) = Failing(checks)
  BY DEF OrganizationIssues
<1> HIDE DEF textsOk, legalNameOk, shortNameOk
<1>2. DOMAIN checks = {"texts", "legalName", "shortName"}
  OBVIOUS
<1>3. /\ checks["texts"] = textsOk
      /\ checks["legalName"] = legalNameOk
      /\ checks["shortName"] = shortNameOk
  OBVIOUS
<1> HIDE DEF checks
<1>4. Failing(checks) = {} <=> textsOk /\ legalNameOk /\ shortNameOk
  BY <1>2, <1>3, NoneFailing
<1> QED
  BY <1>1, <1>4 DEF textsOk, legalNameOk, shortNameOk

-----------------------------------------------------------------------------
(* The values of a step, and what every edit of them keeps *)

\* What is true of the values of a step in the form, kept by Back, or saved.
Good(s, v) ==
    /\ v \in StepValues(s)
    /\ s = "scope" => \A c \in Country : v.regions[c] <= 1
    /\ s = "pricing" => AtMostOneFinal(v.milestones)
    /\ s = "environment" => SharesAddUp(v.difficulty)

LEMMA MixDefault == DefaultMix \in Mix /\ SharesAddUp(DefaultMix)
<1> DEFINE easy == (2 * Total) \div 10
           medium == (3 * Total) \div 10
<1>1. /\ easy \in Nat /\ medium \in Nat /\ easy + medium <= Total
      /\ easy <= Total /\ medium <= Total /\ Total \in Nat
  BY NumbersAssumption
<1>2. DefaultMix = [l \in Level |-> IF l = "easy" THEN easy
                                   ELSE IF l = "medium" THEN medium
                                   ELSE Total - easy - medium]
  BY DEF DefaultMix, Level
<1> HIDE DEF easy, medium
<1>3. QED
  BY <1>1, <1>2 DEF SharesAddUp, Mix, Level

LEMMA TypedText ==
    Typed \in Text /\ Blank \in Text /\ Typed # Blank
BY Zenon DEF Typed, Blank, Text

LEMMA SomeRows ==
    PrefilledRows \in Seq(Row) /\ <<>> \in Seq(Row)
<1>1. [text |-> Typed] \in Row
  BY DEF Row, Text
<1> QED
  BY <1>1 DEF PrefilledRows

LEMMA TwoMilestones ==
    ASSUME NEW x \in Text, NEW y \in Text, NEW d \in Nat, NEW e \in Nat,
           NEW rows, rows = << [text |-> x, deadline |-> d, isFinal |-> FALSE],
                               [text |-> y, deadline |-> e, isFinal |-> TRUE] >>
    PROVE  /\ rows \in Seq(Milestone)
           /\ AtMostOneFinal(rows)
<1> DEFINE first == [text |-> x, deadline |-> d, isFinal |-> FALSE]
           second == [text |-> y, deadline |-> e, isFinal |-> TRUE]
<1>1. first \in Milestone /\ second \in Milestone
  BY DEF Milestone
<1>2. first.isFinal = FALSE /\ second.isFinal = TRUE
  OBVIOUS
<1> HIDE DEF first, second
<1>3. rows = <<first, second>>
  BY DEF first, second
<1>4. rows \in Seq(Milestone)
  <2>1. <<first, second>> \in Seq(Milestone)
    BY <1>1
  <2> QED
    BY <2>1, <1>3
<1>5. DOMAIN rows = 1 .. 2 /\ rows[1] = first /\ rows[2] = second
  BY <1>3
<1>6. QED
  BY <1>2, <1>4, <1>5 DEF AtMostOneFinal

LEMMA DefaultGood ==
    ASSUME NEW s \in Saves
    PROVE  Good(s, Default(s))
<1> USE NumbersAssumption
    DEF Good, StepValues, Default, Text, Typed, Blank, Number, NoDate
<1>1. CASE s = "agreement"
  BY <1>1 DEF DefaultAgreementTerms
<1>2. PrefilledRows \in Seq(Row) /\ <<>> \in Seq(Row)
  BY SomeRows
<1>3. CASE s = "scope"
  <2>1. /\ DefaultScope.regions \in [Country -> Nat]
        /\ \A c \in Country : DefaultScope.regions[c] <= 1
    BY DEF DefaultScope
  <2>2. DefaultScope \in StepValues("scope")
    BY <1>2, <2>1 DEF DefaultScope
  <2> QED
    BY <2>1, <2>2, <1>3
<1>4. CASE s = "pricing"
  <2>1. /\ DefaultPricing.milestones \in Seq(Milestone)
        /\ AtMostOneFinal(DefaultPricing.milestones)
    BY TwoMilestones DEF DefaultPricing, Text, NoDate
  <2> QED
    BY <2>1, <1>4 DEF DefaultPricing
<1>5. CASE s = "environment"
  BY <1>2, <1>5, MixDefault DEF DefaultEnvironment
<1>6. CASE s = "technical"
  BY <1>2, <1>6 DEF DefaultTechnical
<1>7. CASE s = "delivery"
  BY <1>2, <1>7 DEF DefaultDelivery
<1>8. CASE s = "counterparty"
  BY <1>8 DEF DefaultCounterparty
<1>9. CASE s = "organization"
  BY <1>9 DEF EmptyOrganization
<1> QED
  BY <1>1, <1>3, <1>4, <1>5, <1>6, <1>7, <1>8, <1>9 DEF Saves, Step

\* Filled in tables are accepted.
LEMMA PrefilledAccepted ==
    ASSUME NEW t \in DOMAIN MinRows
    PROVE  /\ RowsAccepted(t, PrefilledRows)
           /\ MinRows[t] = 0 => RowsAccepted(t, <<>>)
<1>1. MinRows[t] \in {0, 1}
  BY DEF MinRows
<1>2. /\ Len(PrefilledRows) = 1 /\ DOMAIN PrefilledRows = {1}
      /\ PrefilledRows[1].text = Typed
  BY DEF PrefilledRows
<1>3. Len(<<>>) = 0 /\ DOMAIN <<>> = {}
  OBVIOUS
<1>4. RowsAccepted(t, PrefilledRows)
  BY <1>1, <1>2, TypedText DEF RowsAccepted
<1>5. MinRows[t] = 0 => RowsAccepted(t, <<>>)
  BY <1>3 DEF RowsAccepted
<1> QED
  BY <1>4, <1>5

LEMMA FilledGood ==
    ASSUME NEW s \in Saves
    PROVE  Good(s, Filled(s)) /\ Issues(s, Filled(s), NoDate) = {}
<1> USE NumbersAssumption, TypedText DEF Number, NoDate
<1>1. CASE s = "agreement"
  <2>1. Filled(s) = [texts |-> Typed, effectiveDate |-> 1, cureDays |-> 30, multiplier |-> 2]
    BY <1>1 DEF Filled, DefaultAgreementTerms
  <2>2. Good(s, Filled(s))
    <3>1. Filled(s) \in StepValues("agreement")
      BY <2>1 DEF StepValues
    <3> QED
      BY <1>1, <3>1 DEF Good
  <2>3. AgreementIssues(Filled(s)) = {}
    BY <2>1, AgreementAccepted
  <2> QED
    BY <1>1, <2>2, <2>3 DEF Issues
<1>2. CASE s = "scope"
  <2>1. Filled(s) = [texts |-> Typed, targetVolume |-> 1, regions |-> [c \in Country |-> 1],
                     deliverables |-> PrefilledRows]
    BY <1>2 DEF Filled, DefaultScope
  <2>2. /\ Filled(s).regions \in [Country -> Nat]
        /\ \A c \in Country : Filled(s).regions[c] = 1
    BY <2>1
  <2>3. Filled(s) \in StepValues("scope")
    BY <2>1, <2>2, SomeRows DEF StepValues
  <2>4. Good(s, Filled(s))
    BY <1>2, <2>2, <2>3 DEF Good
  <2>5. /\ \E c \in Country : Filled(s).regions[c] > 0
        /\ RowsAccepted("deliverables", PrefilledRows)
    BY <2>2, CountriesAssumption, PrefilledAccepted DEF MinRows
  <2>6. ScopeIssues(Filled(s)) = {}
    BY <2>1, <2>5, ScopeAccepted
  <2> QED
    BY <1>2, <2>4, <2>6 DEF Issues
<1>3. CASE s = "pricing"
  <2> DEFINE v == Filled("pricing")
             rows == << [text |-> Typed, deadline |-> 1, isFinal |-> FALSE],
                        [text |-> Typed, deadline |-> 2, isFinal |-> TRUE] >>
  <2>1. v = [texts |-> Typed, unitFee |-> 0, depositRequired |-> FALSE,
             depositAmount |-> Null, milestones |-> rows]
    BY DEF Filled, DefaultPricing
  <2>2. rows \in Seq(Milestone) /\ AtMostOneFinal(rows)
    BY TwoMilestones
  <2>3. /\ DOMAIN rows = {1, 2} /\ Len(rows) = 2
        /\ rows[1].text = Typed /\ rows[1].deadline = 1 /\ rows[1].isFinal = FALSE
        /\ rows[2].text = Typed /\ rows[2].deadline = 2 /\ rows[2].isFinal = TRUE
    OBVIOUS
  <2> HIDE DEF rows, v
  <2>4. Good("pricing", v)
    BY <2>1, <2>2 DEF Good, StepValues
  <2>5. RowsAccepted("milestones", rows)
    <3>1. MinRows["milestones"] = 1
      BY DEF MinRows
    <3> QED
      BY <2>3, <3>1 DEF RowsAccepted
  <2>6. FinalRows(rows) = {2}
    BY <2>3 DEF FinalRows
  <2>7. FirstFinalDeadline(rows) = 2
    BY <2>3, <2>6 DEF FirstFinalDeadline
  <2>8. OneFinal(rows) /\ DeadlinesInOrder(rows, NoDate, FirstFinalDeadline(rows))
    BY <2>3, <2>6, <2>7 DEF OneFinal, DeadlinesInOrder
  <2>9. IsMoney(v.unitFee)
    BY <2>1 DEF IsMoney
  <2>10. PricingOwnIssues(v) = {}
    BY <2>1, <2>3, <2>5, <2>9, PricingOwnAccepted
  <2>11. PricingCrossIssues(v, NoDate) = {}
    BY <2>1, <2>8, PricingCrossAccepted
  <2>12. Issues("pricing", v, NoDate) = {}
    BY <2>10, <2>11, PricingAccepted DEF Issues
  <2> QED
    BY <1>3, <2>4, <2>12 DEF v
<1>4. CASE s = "environment"
  <2>1. Filled(s) = [verticals |-> PrefilledRows, difficulty |-> DefaultMix,
                     extraProhibited |-> <<>>]
    BY <1>4 DEF Filled, Default, DefaultEnvironment
  <2>2. /\ RowsAccepted("verticals", PrefilledRows)
        /\ RowsAccepted("extraProhibited", <<>>)
    BY PrefilledAccepted DEF MinRows
  <2>3. EnvironmentIssues(Filled(s)) = {}
    BY <2>1, <2>2, MixDefault, EnvironmentAccepted
  <2> QED
    BY <1>4, <2>3, DefaultGood DEF Issues, Filled
<1>5. CASE s = "technical"
  <2>1. Filled(s) = [requirements |-> PrefilledRows, preCollectionMaterials |-> PrefilledRows]
    BY <1>5 DEF Filled, Default, DefaultTechnical
  <2>2. /\ RowsAccepted("requirements", PrefilledRows)
        /\ RowsAccepted("preCollectionMaterials", PrefilledRows)
    BY PrefilledAccepted DEF MinRows
  <2>3. TechnicalIssues(Filled(s)) = {}
    BY <2>1, <2>2, TechnicalAccepted
  <2> QED
    BY <1>5, <2>3, DefaultGood DEF Issues, Filled
<1>6. CASE s = "delivery"
  <2>1. Filled(s) = DefaultDelivery
    BY <1>6 DEF Filled, Default
  <2>2. /\ RowsAccepted("manifestFields", PrefilledRows)
        /\ RowsAccepted("siteDataFields", PrefilledRows)
    BY PrefilledAccepted DEF MinRows
  <2>3. DeliveryIssues(Filled(s)) = {}
    BY <2>1, <2>2, DeliveryAccepted DEF DefaultDelivery
  <2> QED
    BY <1>6, <2>3, DefaultGood DEF Issues, Filled
<1>7. CASE s = "counterparty"
  <2>1. Filled(s) = [mode |-> "details", texts |-> Typed, details |-> Typed]
    BY <1>7 DEF Filled, DefaultCounterparty
  <2>2. CounterpartyIssues(Filled(s)) = {}
    BY <2>1, CounterpartyAccepted
  <2>3. Good(s, Filled(s))
    <3>1. Filled(s) \in StepValues("counterparty")
      BY <2>1 DEF StepValues
    <3> QED
      BY <1>7, <3>1 DEF Good
  <2> QED
    BY <1>7, <2>2, <2>3 DEF Issues
<1>8. CASE s = "organization"
  <2>1. Filled(s) = [texts |-> Typed, legalName |-> Typed, shortName |-> Typed]
    BY <1>8 DEF Filled
  <2>2. OrganizationIssues(Filled(s)) = {}
    BY <2>1, OrganizationAccepted
  <2>3. Good(s, Filled(s))
    <3>1. Filled(s) \in StepValues("organization")
      BY <2>1 DEF StepValues
    <3> QED
      BY <1>8, <3>1 DEF Good
  <2> QED
    BY <1>8, <2>2, <2>3 DEF Issues
<1> QED
  BY <1>1, <1>2, <1>3, <1>4, <1>5, <1>6, <1>7, <1>8 DEF Saves, Step

-----------------------------------------------------------------------------
(* The fields of a form *)

LEMMA RowsEdited ==
    ASSUME NEW t \in DOMAIN MinRows, form[t] \in Seq(Row), EditRows(t, EmptyRow)
    PROVE  \E rows \in Seq(Row) : Becomes(t, rows)
<1>1. EmptyRow \in Row
  BY TypedText DEF EmptyRow, Row
<1>2. CASE AppendRow(t, EmptyRow)
  <2>1. Append(form[t], EmptyRow) \in Seq(Row)
    BY <1>1, AppendProperties
  <2> QED
    BY <1>2, <2>1 DEF AppendRow
<1>3. ASSUME NEW i \in DOMAIN form[t], RemoveRow(t, i)
      PROVE  \E rows \in Seq(Row) : Becomes(t, rows)
  <2>1. RemoveAt(form[t], i) \in Seq(Row)
    BY RemoveAtRows
  <2> QED
    BY <1>3, <2>1 DEF RemoveRow
<1>4. ASSUME NEW i \in DOMAIN form[t], NEW j \in DOMAIN form[t], MoveRow(t, i, j)
      PROVE  \E rows \in Seq(Row) : Becomes(t, rows)
  <2>1. InsertAt(RemoveAt(form[t], i), j, form[t][i]) \in Seq(Row)
    BY MovedRows
  <2> QED
    BY <1>4, <2>1 DEF MoveRow
<1>5. ASSUME NEW i \in DOMAIN form[t], NEW x \in Text,
             Becomes(t, [form[t] EXCEPT ![i].text = x])
      PROVE  \E rows \in Seq(Row) : Becomes(t, rows)
  <2>1. form[t][i] \in Row
    BY ElementOfSeq
  <2>2. [form[t][i] EXCEPT !.text = x] \in Row
    BY <2>1 DEF Row
  <2>3. [form[t] EXCEPT ![i].text = x] \in Seq(Row)
    BY <2>2, ExceptSeq
  <2> QED
    BY <1>5, <2>3
<1> QED
  BY <1>2, <1>3, <1>4, <1>5 DEF EditRows

\* The table of milestones, whose rows may be marked.
LEMMA MilestonesEdited ==
    ASSUME form.milestones \in Seq(Milestone), AtMostOneFinal(form.milestones),
           FormsAssumption,
           \/ EditRows("milestones", EmptyMilestone)
           \/ \E i \in DOMAIN form.milestones : EditDeadline(i) \/ MarkRow("milestones", i)
    PROVE  \E rows \in Seq(Milestone) :
              AtMostOneFinal(rows) /\ Becomes("milestones", rows)
<1> DEFINE rows == form.milestones
           Goal == \E after \in Seq(Milestone) :
                      AtMostOneFinal(after) /\ Becomes("milestones", after)
<1>1. /\ EmptyMilestone \in Milestone /\ EmptyMilestone.isFinal = FALSE
  BY TypedText DEF EmptyMilestone, Milestone, NoDate
<1>2. /\ Len(rows) \in Nat /\ DOMAIN rows = 1 .. Len(rows)
      /\ \A i \in DOMAIN rows : rows[i] \in Milestone
  BY LenProperties, ElementOfSeq
<1>3. CASE AppendRow("milestones", EmptyMilestone)
  <2> DEFINE after == Append(rows, EmptyMilestone)
  <2>1. /\ after \in Seq(Milestone) /\ Len(after) = Len(rows) + 1
        /\ \A i \in 1 .. Len(rows) : after[i] = rows[i]
        /\ after[Len(rows) + 1] = EmptyMilestone
    BY <1>1, AppendProperties
  <2>2. DOMAIN after = 1 .. Len(rows) + 1
    BY <2>1, LenProperties
  <2>3. Becomes("milestones", after)
    BY <1>3 DEF AppendRow
  <2> HIDE DEF after
  <2>4. AtMostOneFinal(after)
    BY <1>1, <1>2, <2>1, <2>2 DEF AtMostOneFinal
  <2> QED
    BY <2>1, <2>3, <2>4
<1>4. ASSUME NEW i \in DOMAIN rows, RemoveRow("milestones", i)
      PROVE  Goal
  <2> DEFINE after == RemoveAt(rows, i)
  <2>1. /\ after \in Seq(Milestone) /\ Len(after) = Len(rows) - 1
        /\ \A k \in 1 .. Len(rows) - 1 : after[k] = IF k < i THEN rows[k] ELSE rows[k + 1]
    BY RemoveAtRows
  <2>2. DOMAIN after = 1 .. Len(rows) - 1
    BY <2>1, LenProperties
  <2>3. Becomes("milestones", after)
    BY <1>4 DEF RemoveRow
  <2> DEFINE from(k) == IF k < i THEN k ELSE k + 1
  <2> HIDE DEF after
  <2>4. /\ \A k \in DOMAIN after : from(k) \in DOMAIN rows
        /\ \A k, l \in DOMAIN after : from(k) = from(l) => k = l
    BY <1>2, <2>2
  <2>6. \A k \in DOMAIN after : after[k] = rows[from(k)]
    BY <2>1, <2>2
  <2> HIDE DEF from
  <2>5. AtMostOneFinal(after)
    BY <2>4, <2>6 DEF AtMostOneFinal
  <2> QED
    BY <2>1, <2>3, <2>5
<1>5. ASSUME NEW i \in DOMAIN rows, NEW j \in DOMAIN rows, MoveRow("milestones", i, j)
      PROVE  Goal
  <2> DEFINE after == InsertAt(RemoveAt(rows, i), j, rows[i])
  <2>1. /\ after \in Seq(Milestone) /\ DOMAIN after = DOMAIN rows
        /\ \A k \in DOMAIN rows : after[k] = rows[MovedFrom(i, j, k)]
    <3>1. rows \in Seq(Milestone) /\ after = InsertAt(RemoveAt(rows, i), j, rows[i])
      OBVIOUS
    <3> HIDE DEF rows, after
    <3>2. ASSUME NEW k \in DOMAIN rows
          PROVE  /\ after \in Seq(Milestone) /\ DOMAIN after = DOMAIN rows
                 /\ after[k] = rows[MovedFrom(i, j, k)]
      BY <3>1, MovedRows
    <3> QED
      BY <3>2
  <2>2. Becomes("milestones", after)
    BY <1>5 DEF MoveRow
  <2>3. /\ \A k, l \in DOMAIN rows : MovedFrom(i, j, k) = MovedFrom(i, j, l) => k = l
        /\ \A k \in DOMAIN rows : MovedFrom(i, j, k) \in DOMAIN rows
    BY <1>2 DEF MovedFrom
  <2> HIDE DEF after
  <2>4. AtMostOneFinal(after)
    BY <2>1, <2>3 DEF AtMostOneFinal
  <2> QED
    BY <2>1, <2>2, <2>4
<1>6. ASSUME NEW i \in DOMAIN rows, NEW row \in Milestone, row.isFinal = rows[i].isFinal,
             Becomes("milestones", [rows EXCEPT ![i] = row])
      PROVE  Goal
  <2> DEFINE after == [rows EXCEPT ![i] = row]
  <2>1. after \in Seq(Milestone) /\ DOMAIN after = DOMAIN rows
    BY ExceptSeq
  <2>2. \A k \in DOMAIN rows : after[k].isFinal = rows[k].isFinal
    BY <1>6
  <2>3. AtMostOneFinal(after)
    BY <2>1, <2>2 DEF AtMostOneFinal
  <2> QED
    BY <1>6, <2>1, <2>3
<1>7. ASSUME NEW i \in DOMAIN rows, NEW x \in Text,
             Becomes("milestones", [form["milestones"] EXCEPT ![i].text = x])
      PROVE  Goal
  <2> DEFINE row == [rows[i] EXCEPT !.text = x]
  <2>1. row \in Milestone /\ row.isFinal = rows[i].isFinal
    BY <1>2 DEF Milestone
  <2>2. [form["milestones"] EXCEPT ![i].text = x] = [rows EXCEPT ![i] = row]
    OBVIOUS
  <2> QED
    BY <1>6, <1>7, <2>1, <2>2
<1>8. ASSUME NEW i \in DOMAIN rows, EditDeadline(i)
      PROVE  Goal
  <2>1. PICK d \in Day \cup {NoDate} :
            Becomes("milestones", [rows EXCEPT ![i].deadline = d])
    BY <1>8 DEF EditDeadline
  <2> DEFINE row == [rows[i] EXCEPT !.deadline = d]
  <2>2. d \in Nat
    BY <2>1 DEF FormsAssumption, NoDate
  <2>3. row \in Milestone /\ row.isFinal = rows[i].isFinal
    BY <1>2, <2>2 DEF Milestone
  <2>4. [rows EXCEPT ![i].deadline = d] = [rows EXCEPT ![i] = row]
    OBVIOUS
  <2> QED
    BY <1>6, <2>1, <2>3, <2>4
<1>9. ASSUME NEW i \in DOMAIN rows, MarkRow("milestones", i)
      PROVE  Goal
  <2> DEFINE after == [k \in DOMAIN rows |-> [rows[k] EXCEPT !.isFinal = (k = i)]]
  <2>1. \A k \in DOMAIN rows : after[k] \in Milestone /\ after[k].isFinal = (k = i)
    BY <1>2 DEF Milestone
  <2>2. after \in Seq(Milestone) /\ DOMAIN after = DOMAIN rows
    <3>1. after \in [1 .. Len(rows) -> Milestone]
      BY <1>2, <2>1
    <3> QED
      BY <1>2, <3>1, SeqDef
  <2>3. Becomes("milestones", after)
    BY <1>9 DEF MarkRow
  <2> HIDE DEF after
  <2>4. AtMostOneFinal(after)
    BY <2>1, <2>2 DEF AtMostOneFinal
  <2> QED
    BY <2>2, <2>3, <2>4
<1> QED
  BY <1>3, <1>4, <1>5, <1>7, <1>8, <1>9 DEF EditRows

-----------------------------------------------------------------------------
(* The difficulty mix *)

LEMMA ClampBounds ==
    ASSUME NEW h \in Nat \cup {NaN}
    PROVE  Clamp(h) \in 0 .. Total
BY NumbersAssumption DEF Clamp

(* Typing a share takes what is missing from, or gives what is left to, the     *)
(* neighbouring band; the far band only moves when the neighbour has run out    *)
(* (rebalance). Whatever the mix and the share, the three still add up.         *)
THEOREM RebalanceMovesTheNeighbourFirst ==
    ASSUME NEW mix \in Mix, SharesAddUp(mix), NEW level \in Level, NEW share \in 0 .. Total
    PROVE  LET new == Rebalance(mix, level, share) IN
              /\ new \in Mix /\ SharesAddUp(new) /\ new[level] = share
              /\ new[Far[level]] # mix[Far[level]] => new[Neighbour[level]] = 0
<1> DEFINE new == Rebalance(mix, level, share)
<1>1. /\ Total \in Nat /\ share \in Nat /\ share <= Total
      /\ mix["easy"] \in Nat /\ mix["medium"] \in Nat /\ mix["hard"] \in Nat
      /\ mix["easy"] + mix["medium"] + mix["hard"] = Total
  BY NumbersAssumption DEF Mix, Level, SharesAddUp
<1>2. ASSUME NEW far \in Level, NEW neighbour \in Level,
             far = Far[level], neighbour = Neighbour[level],
             far # level, neighbour # level, far # neighbour,
             Level = {level, far, neighbour}
      PROVE  /\ new \in Mix /\ new[level] = share
             /\ new[far] + new[neighbour] = Total - share
             /\ new[far] # mix[far] => new[neighbour] = 0
  <2> DEFINE rest == Total - share
             remains == Lesser(mix[far], rest)
  <2>1. /\ remains \in Nat /\ remains <= rest /\ rest \in Nat
        /\ remains # mix[far] => remains = rest
    BY <1>1 DEF Lesser, Mix
  <2>2. new = [mix EXCEPT ![level] = share, ![far] = remains, ![neighbour] = rest - remains]
    BY <1>2 DEF Rebalance
  <2> HIDE DEF remains, new
  <2>3. /\ new \in [Level -> Nat]
        /\ new[level] = share /\ new[far] = remains /\ new[neighbour] = rest - remains
    BY <1>1, <1>2, <2>1, <2>2 DEF Mix
  <2> QED
    BY <1>1, <2>1, <2>3 DEF Mix
<1>3. /\ Far = [easy |-> "hard", medium |-> "easy", hard |-> "easy"]
      /\ Neighbour = [easy |-> "medium", medium |-> "hard", hard |-> "medium"]
  BY DEF Far, Neighbour
<1> HIDE DEF new
<1>4. CASE level = "easy"
  <2>1. /\ new \in Mix /\ new["easy"] = share
        /\ new["hard"] + new["medium"] = Total - share
        /\ new["hard"] # mix["hard"] => new["medium"] = 0
    BY <1>2, <1>3, <1>4 DEF Level
  <2>2. SharesAddUp(new)
    BY <1>1, <2>1 DEF SharesAddUp, Mix, Level
  <2> QED
    BY <1>3, <1>4, <2>1, <2>2 DEF new
<1>5. CASE level = "medium"
  <2>1. /\ new \in Mix /\ new["medium"] = share
        /\ new["easy"] + new["hard"] = Total - share
        /\ new["easy"] # mix["easy"] => new["hard"] = 0
    BY <1>2, <1>3, <1>5 DEF Level
  <2>2. SharesAddUp(new)
    BY <1>1, <2>1 DEF SharesAddUp, Mix, Level
  <2> QED
    BY <1>3, <1>5, <2>1, <2>2 DEF new
<1>6. CASE level = "hard"
  <2>1. /\ new \in Mix /\ new["hard"] = share
        /\ new["easy"] + new["medium"] = Total - share
        /\ new["easy"] # mix["easy"] => new["medium"] = 0
    BY <1>2, <1>3, <1>6 DEF Level
  <2>2. SharesAddUp(new)
    BY <1>1, <2>1 DEF SharesAddUp, Mix, Level
  <2> QED
    BY <1>3, <1>6, <2>1, <2>2 DEF new
<1> QED
  BY <1>4, <1>5, <1>6 DEF Level

\* What the inputs of the mix show, and were last given.
InputsShow(mix) == \A l \in Level : inputs[l] = Showing(2 * mix[l])

LEMMA MixEdited ==
    ASSUME NEW mix \in Mix, SharesAddUp(mix), form.difficulty = mix,
           inputs \in [Level -> Input], InputsShow(mix), FormsAssumption, EditMix
    PROVE  \E new \in Mix :
              /\ SharesAddUp(new)
              /\ Changed([form EXCEPT !.difficulty = new])
              /\ inputs' = [l \in Level |-> Showing(2 * new[l])]
<1> DEFINE Goal == \E new \in Mix :
                      /\ SharesAddUp(new)
                      /\ Changed([form EXCEPT !.difficulty = new])
                      /\ inputs' = [l \in Level |-> Showing(2 * new[l])]
\* An input that shows what it was last given, shows what it is given now.
<1>1. ASSUME NEW new \in Mix, SharesAddUp(new), NEW typed,
             \A l \in Level : \E n \in Number : typed[l] = Showing(n),
             MixBecomes(new, typed)
      PROVE  Goal
  <2>1. ASSUME NEW l \in Level
        PROVE  Rendered(typed[l], 2 * new[l]) = Showing(2 * new[l])
    <3>1. PICK n \in Number : typed[l] = Showing(n)
      BY <1>1
    <3> QED
      BY <3>1 DEF Rendered, Showing
  <2>2. inputs' = [l \in Level |-> Showing(2 * new[l])]
    BY <1>1, <2>1 DEF MixBecomes
  <2>3. Changed([form EXCEPT !.difficulty = new])
    BY <1>1 DEF MixBecomes
  <2> QED
    BY <1>1, <2>2, <2>3
<1>2. \A l \in Level : \E n \in Number : inputs[l] = Showing(n)
  BY DEF InputsShow, Mix, Number
<1>3. ASSUME NEW l \in Level, NEW h \in HalfShare \cup {NaN}, TypeShare(l, h)
      PROVE  Goal
  <2> DEFINE new == Rebalance(mix, l, Clamp(h))
             typed == [inputs EXCEPT ![l] = Showing(h)]
  <2>1. h \in Number
    BY DEF FormsAssumption, Number
  <2>2. new \in Mix /\ SharesAddUp(new)
    BY <2>1, ClampBounds, RebalanceMovesTheNeighbourFirst DEF Number
  <2>3. MixBecomes(new, typed)
    BY <1>3 DEF TypeShare
  <2>4. \A k \in Level : \E n \in Number : typed[k] = Showing(n)
    BY <1>2, <2>1
  <2> HIDE DEF new, typed
  <2> QED
    BY <1>1, <2>2, <2>3, <2>4
<1>4. ASSUME NEW first \in 0 .. Total, NEW second \in 0 .. Total, DragThumbs(first, second)
      PROVE  Goal
  <2> DEFINE new == [l \in Level |-> CASE l = "easy" -> first
                                       [] l = "medium" -> second - first
                                       [] OTHER -> Total - second]
  <2>1. first <= second /\ MixBecomes(new, inputs)
    BY <1>4 DEF DragThumbs
  <2>2. new = [l \in Level |-> IF l = "easy" THEN first
                               ELSE IF l = "medium" THEN second - first
                               ELSE Total - second]
    BY DEF Level
  <2> HIDE DEF new
  <2>3. new \in Mix /\ SharesAddUp(new)
    BY <2>1, <2>2, NumbersAssumption DEF Mix, Level, SharesAddUp
  <2> QED
    BY <1>1, <1>2, <2>1, <2>3
<1> QED
  BY <1>3, <1>4 DEF EditMix

-----------------------------------------------------------------------------
(* The inductive invariant *)

SavedGood ==
    /\ DOMAIN saved \subseteq Saves
    /\ \A s \in DOMAIN saved : Good(s, saved[s]) /\ Issues(s, saved[s], NoDate) = {}

KeptGood ==
    /\ DOMAIN kept \subseteq Step \ {"agreement"}
    /\ \A s \in DOMAIN kept : Good(s, kept[s])

FormGood ==
    /\ page \in Page
    /\ page \in Saves => Good(page, form)
    /\ page \notin Saves => form = NoForm

InputsGood ==
    /\ inputs \in [Level -> Input]
    /\ page = "environment" => InputsShow(form.difficulty)

RefusalGood ==
    refusal # {} => page \in Saves /\ refusal = Issues(page, form, EffectiveDate(saved))

\* The answer, and whether the standard terms are unfolded.
AnswerGood ==
    /\ answer \in {"none", "incomplete", "refused", "accepted"}
    /\ termsOpen \in BOOLEAN

IInv == SavedGood /\ KeptGood /\ FormGood /\ InputsGood /\ RefusalGood /\ AnswerGood

\* What an edit leaves alone, and what it does with the form.
Edited(s) ==
    /\ UNCHANGED <<saved, kept, page, termsOpen, answer>>
    /\ refusal' = {}
    /\ page = s /\ Good(s, form')

LEMMA EditAgreementGood ==
    ASSUME page = "agreement", Good("agreement", form), FormsAssumption, EditAgreement
    PROVE  Edited("agreement") /\ UNCHANGED inputs
<1> DEFINE Values == [texts : Text, effectiveDate : Nat, cureDays : Number,
                      multiplier : Number]
<1>1. PICK f \in {"texts", "effectiveDate", "cureDays", "multiplier"},
           v \in Text \cup Nat \cup {NaN} :
        /\ Becomes(f, v)
        /\ f = "texts" => v \in Text
        /\ f = "effectiveDate" => v \in Nat
        /\ f \in {"cureDays", "multiplier"} => v \in Number
  BY DEF EditAgreement, StandardTerms, EditText, EditDate, EditNumber, FormsAssumption, NoDate, Number
<1>2. form \in Values
  BY DEF Good, StepValues
<1>3. form' = [form EXCEPT ![f] = v]
  BY <1>1 DEF Becomes, Changed
<1>4. form' \in Values
  BY <1>1, <1>2, <1>3
<1> QED
  BY <1>1, <1>4 DEF Becomes, Changed, Edited, Good, StepValues

LEMMA EditScopeGood ==
    ASSUME page = "scope", Good("scope", form), FormsAssumption, EditScope
    PROVE  Edited("scope") /\ UNCHANGED inputs
<1> DEFINE Values == [texts : Text, targetVolume : Number, regions : [Country -> Nat],
                      deliverables : Seq(Row)]
<1>1. form \in Values /\ \A c \in Country : form.regions[c] <= 1
  BY DEF Good, StepValues
<1>2. ASSUME NEW f, NEW v, Becomes(f, v), [form EXCEPT ![f] = v] \in Values,
             \A c \in Country : [form EXCEPT ![f] = v].regions[c] <= 1
      PROVE  Edited("scope") /\ UNCHANGED inputs
  BY <1>2 DEF Becomes, Changed, Edited, Good, StepValues
<1>3. CASE EditText("texts")
  <2>1. PICK t \in Text : Becomes("texts", t)
    BY <1>3 DEF EditText
  <2>2. [form EXCEPT !["texts"] = t] \in Values
    BY <1>1
  <2>3. \A c \in Country : [form EXCEPT !["texts"] = t].regions[c] <= 1
    BY <1>1
  <2> QED
    BY <1>2, <2>1, <2>2, <2>3
<1>4. CASE EditVolume("targetVolume")
  <2>1. PICK n \in Amount \cup {NaN} : Becomes("targetVolume", n)
    BY <1>4 DEF EditVolume, EditNumber
  <2>2. [form EXCEPT !["targetVolume"] = n] \in Values
    BY <1>1 DEF FormsAssumption, Number
  <2>3. \A c \in Country : [form EXCEPT !["targetVolume"] = n].regions[c] <= 1
    BY <1>1
  <2> QED
    BY <1>2, <2>1, <2>2, <2>3
<1>5. CASE EditCountries("regions")
  <2>1. PICK c \in Country :
          Becomes("regions", [form["regions"] EXCEPT ![c] =
                                IF form["regions"][c] > 0 THEN 0 ELSE 1])
    BY <1>5 DEF EditCountries, ToggleCountry
  <2> DEFINE regions == [form["regions"] EXCEPT ![c] =
                            IF form["regions"][c] > 0 THEN 0 ELSE 1]
  <2>2. regions \in [Country -> Nat] /\ \A d \in Country : regions[d] <= 1
    BY <1>1
  <2>3. Becomes("regions", regions)
    BY <2>1
  <2> HIDE DEF regions
  <2>4. [form EXCEPT !["regions"] = regions] \in Values
    BY <1>1, <2>2
  <2>5. [form EXCEPT !["regions"] = regions].regions = regions
    BY <1>1
  <2> QED
    BY <1>2, <2>2, <2>3, <2>4, <2>5
<1>6. CASE EditRows("deliverables", EmptyRow)
  <2>1. PICK rows \in Seq(Row) : Becomes("deliverables", rows)
    BY <1>1, <1>6, RowsEdited DEF MinRows
  <2>2. [form EXCEPT !["deliverables"] = rows] \in Values
    BY <1>1
  <2>3. \A c \in Country : [form EXCEPT !["deliverables"] = rows].regions[c] <= 1
    BY <1>1
  <2> QED
    BY <1>2, <2>1, <2>2, <2>3
<1> QED
  BY <1>3, <1>4, <1>5, <1>6 DEF EditScope

LEMMA EditPricingGood ==
    ASSUME page = "pricing", Good("pricing", form), FormsAssumption, EditPricing
    PROVE  Edited("pricing") /\ UNCHANGED inputs
<1> DEFINE Values == [texts : Text, unitFee : Number, depositRequired : BOOLEAN,
                      depositAmount : Number \cup {Null}, milestones : Seq(Milestone)]
<1>1. form \in Values /\ AtMostOneFinal(form.milestones)
  BY DEF Good, StepValues
<1>2. ASSUME NEW f, NEW v, Becomes(f, v), [form EXCEPT ![f] = v] \in Values,
             AtMostOneFinal([form EXCEPT ![f] = v].milestones)
      PROVE  Edited("pricing") /\ UNCHANGED inputs
  BY <1>2 DEF Becomes, Changed, Edited, Good, StepValues
<1>3. CASE EditText("texts")
  <2>1. PICK t \in Text : Becomes("texts", t)
    BY <1>3 DEF EditText
  <2>2. [form EXCEPT !["texts"] = t] \in Values
    BY <1>1
  <2>3. [form EXCEPT !["texts"] = t].milestones = form.milestones
    BY <1>1
  <2> QED
    BY <1>1, <1>2, <2>1, <2>2, <2>3
<1>4. ASSUME NEW f \in {"unitFee", "depositAmount"}, EditNumber(f)
      PROVE  Edited("pricing") /\ UNCHANGED inputs
  <2>1. PICK n \in Amount \cup {NaN} : Becomes(f, n)
    BY <1>4 DEF EditNumber
  <2>2. [form EXCEPT ![f] = n] \in Values
    BY <1>1 DEF FormsAssumption, Number
  <2>3. [form EXCEPT ![f] = n].milestones = form.milestones
    BY <1>1
  <2> QED
    BY <1>1, <1>2, <2>1, <2>2, <2>3
<1>5. CASE EditToggle("depositRequired")
  <2>1. Becomes("depositRequired", ~ form["depositRequired"])
    BY <1>5 DEF EditToggle
  <2> DEFINE b == ~ form["depositRequired"]
  <2>2. b \in BOOLEAN /\ Becomes("depositRequired", b)
    BY <2>1
  <2> HIDE DEF b
  <2>3. [form EXCEPT !["depositRequired"] = b] \in Values
    BY <1>1, <2>2
  <2>4. [form EXCEPT !["depositRequired"] = b].milestones = form.milestones
    BY <1>1
  <2> QED
    BY <1>1, <1>2, <2>2, <2>3, <2>4
<1>6. CASE \/ EditRows("milestones", EmptyMilestone)
           \/ \E i \in DOMAIN form.milestones : EditDeadline(i) \/ MarkRow("milestones", i)
  <2>1. PICK rows \in Seq(Milestone) : AtMostOneFinal(rows) /\ Becomes("milestones", rows)
    BY <1>1, <1>6, MilestonesEdited
  <2>2. [form EXCEPT !["milestones"] = rows] \in Values
    BY <1>1
  <2>3. [form EXCEPT !["milestones"] = rows].milestones = rows
    BY <1>1
  <2> QED
    BY <1>2, <2>1, <2>2, <2>3
<1> QED
  BY <1>3, <1>4, <1>5, <1>6 DEF EditPricing, EditMoney

LEMMA EditEnvironmentGood ==
    ASSUME page = "environment", Good("environment", form), FormsAssumption,
           inputs \in [Level -> Input], InputsShow(form.difficulty), EditEnvironment
    PROVE  /\ Edited("environment")
           /\ inputs' = [l \in Level |-> Showing(2 * form'.difficulty[l])]
<1> DEFINE Values == [verticals : Seq(Row), difficulty : Mix, extraProhibited : Seq(Row)]
           Goal == /\ Edited("environment")
                   /\ inputs' = [l \in Level |-> Showing(2 * form'.difficulty[l])]
<1>1. form \in Values /\ SharesAddUp(form.difficulty)
  BY DEF Good, StepValues
<1>2. ASSUME NEW t \in {"verticals", "extraProhibited"}, EditRows(t, EmptyRow)
      PROVE  Goal
  <2>1. form[t] \in Seq(Row) /\ t \in DOMAIN MinRows
    BY <1>1 DEF MinRows
  <2>2. PICK rows \in Seq(Row) : Becomes(t, rows)
    BY <1>2, <2>1, RowsEdited
  <2>3. form' = [form EXCEPT ![t] = rows]
    BY <2>2 DEF Becomes, Changed
  <2>4. form' \in Values /\ form'.difficulty = form.difficulty
    BY <1>1, <2>3
  <2>5. Edited("environment")
    BY <1>1, <2>2, <2>4 DEF Becomes, Changed, Edited, Good, StepValues
  <2>6. inputs' = inputs
    BY <2>2 DEF Becomes
  <2> HIDE DEF Values
  <2> QED
    BY <2>4, <2>5, <2>6 DEF InputsShow
<1>3. CASE EditMix
  <2>1. form.difficulty \in Mix
    BY <1>1
  <2>2. PICK new \in Mix :
          /\ SharesAddUp(new)
          /\ Changed([form EXCEPT !.difficulty = new])
          /\ inputs' = [l \in Level |-> Showing(2 * new[l])]
    BY <1>1, <1>3, <2>1, MixEdited
  <2>3. form' = [form EXCEPT !.difficulty = new]
    BY <2>2 DEF Changed
  <2>4. form' \in Values /\ form'.difficulty = new
    BY <1>1, <2>3
  <2>5. Edited("environment")
    BY <2>2, <2>4 DEF Changed, Edited, Good, StepValues
  <2> QED
    BY <2>2, <2>4, <2>5
<1> QED
  BY <1>2, <1>3 DEF EditEnvironment

LEMMA EditTechnicalGood ==
    ASSUME page = "technical", Good("technical", form), EditTechnical
    PROVE  Edited("technical") /\ UNCHANGED inputs
<1> DEFINE Values == [requirements : Seq(Row), preCollectionMaterials : Seq(Row)]
<1>1. form \in Values
  BY DEF Good, StepValues
<1>2. ASSUME NEW t \in {"requirements", "preCollectionMaterials"}, EditRows(t, EmptyRow)
      PROVE  Edited("technical") /\ UNCHANGED inputs
  <2>1. form[t] \in Seq(Row) /\ t \in DOMAIN MinRows
    BY <1>1 DEF MinRows
  <2>2. PICK rows \in Seq(Row) : Becomes(t, rows)
    BY <1>2, <2>1, RowsEdited
  <2>3. form' = [form EXCEPT ![t] = rows]
    BY <2>2 DEF Becomes, Changed
  <2>4. form' \in Values
    BY <1>1, <2>3
  <2> QED
    BY <2>2, <2>4 DEF Becomes, Changed, Edited, Good, StepValues
<1> QED
  BY <1>2 DEF EditTechnical

LEMMA EditDeliveryGood ==
    ASSUME page = "delivery", Good("delivery", form), FormsAssumption, EditDelivery
    PROVE  Edited("delivery") /\ UNCHANGED inputs
<1> DEFINE Values == [texts : Text, manifestFields : Seq(Row), siteDataFields : Seq(Row),
                      rejectedStaysDeveloperOwned : BOOLEAN, deletionWindowDays : Number]
<1>1. form \in Values
  BY DEF Good, StepValues
<1>2. ASSUME NEW f, NEW v, Becomes(f, v), [form EXCEPT ![f] = v] \in Values
      PROVE  Edited("delivery") /\ UNCHANGED inputs
  BY <1>2 DEF Becomes, Changed, Edited, Good, StepValues
<1>3. CASE EditText("texts")
  <2>1. PICK t \in Text : Becomes("texts", t)
    BY <1>3 DEF EditText
  <2>2. [form EXCEPT !["texts"] = t] \in Values
    BY <1>1
  <2> QED
    BY <1>2, <2>1, <2>2
<1>4. ASSUME NEW t \in {"manifestFields", "siteDataFields"}, EditRows(t, EmptyRow)
      PROVE  Edited("delivery") /\ UNCHANGED inputs
  <2>1. form[t] \in Seq(Row) /\ t \in DOMAIN MinRows
    BY <1>1 DEF MinRows
  <2>2. PICK rows \in Seq(Row) : Becomes(t, rows)
    BY <1>4, <2>1, RowsEdited
  <2>3. [form EXCEPT ![t] = rows] \in Values
    BY <1>1
  <2> QED
    BY <1>2, <2>2, <2>3
<1>5. CASE EditToggle("rejectedStaysDeveloperOwned")
  <2> DEFINE b == ~ form["rejectedStaysDeveloperOwned"]
  <2>1. b \in BOOLEAN /\ Becomes("rejectedStaysDeveloperOwned", b)
    BY <1>5 DEF EditToggle
  <2> HIDE DEF b
  <2>2. [form EXCEPT !["rejectedStaysDeveloperOwned"] = b] \in Values
    BY <1>1, <2>1
  <2> QED
    BY <1>2, <2>1, <2>2
<1>6. CASE EditNumber("deletionWindowDays")
  <2>1. PICK n \in Amount \cup {NaN} : Becomes("deletionWindowDays", n)
    BY <1>6 DEF EditNumber
  <2>2. [form EXCEPT !["deletionWindowDays"] = n] \in Values
    BY <1>1 DEF FormsAssumption, Number
  <2> QED
    BY <1>2, <2>1, <2>2
<1> QED
  BY <1>3, <1>4, <1>5, <1>6 DEF EditDelivery

LEMMA EditCounterpartyGood ==
    ASSUME page = "counterparty", Good("counterparty", form), EditCounterparty
    PROVE  Edited("counterparty") /\ UNCHANGED inputs
<1> DEFINE Values == [mode : {"details", "invite"}, texts : Text, details : Text]
<1>1. form \in Values
  BY DEF Good, StepValues
<1>2. ASSUME NEW f, NEW v, Becomes(f, v), [form EXCEPT ![f] = v] \in Values
      PROVE  Edited("counterparty") /\ UNCHANGED inputs
  BY <1>2 DEF Becomes, Changed, Edited, Good, StepValues
<1>3. ASSUME NEW f \in {"texts", "details"}, EditText(f)
      PROVE  Edited("counterparty") /\ UNCHANGED inputs
  <2>1. PICK t \in Text : Becomes(f, t)
    BY <1>3 DEF EditText
  <2>2. [form EXCEPT ![f] = t] \in Values
    BY <1>1
  <2> QED
    BY <1>2, <2>1, <2>2
<1>4. ASSUME NEW mode \in {"details", "invite"}, Becomes("mode", mode)
      PROVE  Edited("counterparty") /\ UNCHANGED inputs
  <2>1. [form EXCEPT !["mode"] = mode] \in Values
    BY <1>1
  <2> QED
    BY <1>2, <1>4, <2>1
<1> QED
  BY <1>3, <1>4 DEF EditCounterparty, EditChoice

LEMMA EditOrganizationGood ==
    ASSUME page = "organization", Good("organization", form), EditOrganization
    PROVE  Edited("organization") /\ UNCHANGED inputs
<1> DEFINE Values == [texts : Text, legalName : Text, shortName : Text]
<1>1. form \in Values
  BY DEF Good, StepValues
<1>2. ASSUME NEW f \in {"texts", "legalName", "shortName"}, EditText(f)
      PROVE  Edited("organization") /\ UNCHANGED inputs
  <2>1. PICK t \in Text : Becomes(f, t)
    BY <1>2 DEF EditText
  <2>2. [form EXCEPT ![f] = t] \in Values
    BY <1>1
  <2> QED
    BY <2>1, <2>2 DEF Becomes, Changed, Edited, Good, StepValues
<1>3. CASE FillDerived
  <2>1. [form EXCEPT !.shortName = form.legalName] \in Values
    BY <1>1
  <2> QED
    BY <1>3, <2>1 DEF FillDerived, Changed, Edited, Good, StepValues
<1> QED
  BY <1>2, <1>3 DEF EditOrganization

LEMMA EditGood ==
    ASSUME FormsAssumption, IInv, Edit
    PROVE  IInv'
<1>1. page \in Saves /\ Edited(page)
  BY EditAgreementGood, EditScopeGood, EditPricingGood, EditEnvironmentGood,
     EditTechnicalGood, EditDeliveryGood, EditCounterpartyGood, EditOrganizationGood
     DEF Edit, IInv, FormGood, InputsGood, Saves, Step, EditAgreement, EditScope,
         EditPricing, EditEnvironment, EditTechnical, EditDelivery, EditCounterparty,
         EditOrganization
<1>2. SavedGood' /\ KeptGood' /\ AnswerGood'
  BY <1>1 DEF IInv, Edited, SavedGood, KeptGood, AnswerGood
<1>3. FormGood' /\ RefusalGood'
  BY <1>1 DEF IInv, Edited, FormGood, RefusalGood
<1>4. CASE page # "environment"
  <2>1. UNCHANGED inputs
    BY <1>4, EditAgreementGood, EditScopeGood, EditPricingGood,
       EditTechnicalGood, EditDeliveryGood, EditCounterpartyGood, EditOrganizationGood
       DEF Edit, IInv, FormGood, Saves, Step, EditAgreement, EditScope,
           EditPricing, EditEnvironment, EditTechnical, EditDelivery, EditCounterparty,
           EditOrganization
  <2> QED
    BY <1>1, <1>2, <1>3, <1>4, <2>1 DEF IInv, Edited, InputsGood
<1>5. CASE page = "environment"
  <2>1. EditEnvironment
    BY <1>5 DEF Edit, EditAgreement, EditScope, EditPricing, EditTechnical,
                EditDelivery, EditCounterparty, EditOrganization
  <2>2. inputs' = [l \in Level |-> Showing(2 * form'.difficulty[l])]
    BY <1>5, <2>1, EditEnvironmentGood DEF IInv, FormGood, InputsGood, Saves, Step
  <2>3. form'.difficulty \in Mix
    BY <1>1, <1>5 DEF Edited, Good, StepValues
  <2>4. \A l \in Level : Showing(2 * form'.difficulty[l]) \in Input
    BY <2>3 DEF Showing, Input, Mix, Number
  <2>5. InputsGood'
    BY <2>2, <2>4 DEF InputsGood, InputsShow
  <2> QED
    BY <1>2, <1>3, <2>5 DEF IInv
<1> QED
  BY <1>4, <1>5

-----------------------------------------------------------------------------
(* The steps of the wizard *)

LEMMA InputsEmpty == NoInputs \in [Level -> Input]
BY DEF NoInputs, Showing, Input, Number

LEMMA OpenGood ==
    ASSUME NEW p \in Page, SavedGood', KeptGood', Open(p)
    PROVE  IInv'
<1>1. CASE p \in Saves
  <2>1. form' = Shown(p, saved', kept') /\ page' = p
    BY <1>1 DEF Open
  <2>5. Good(p, form')
    <3>1. p \in DOMAIN kept' => form' = kept'[p]
      BY <2>1 DEF Shown
    <3>2. p \notin DOMAIN kept' /\ p \in DOMAIN saved' => form' = saved'[p]
      BY <2>1 DEF Shown
    <3>3. p \notin DOMAIN kept' /\ p \notin DOMAIN saved' => form' = Default(p)
      BY <2>1 DEF Shown
    <3> QED
      BY <1>1, <3>1, <3>2, <3>3, DefaultGood DEF KeptGood, SavedGood
  <2>6. FormGood' /\ RefusalGood' /\ AnswerGood'
    BY <1>1, <2>1, <2>5 DEF FormGood, RefusalGood, AnswerGood, Open
  <2>7. CASE p = "environment"
    <3>1. inputs' = [l \in Level |-> Showing(2 * form'.difficulty[l])]
      BY <2>7 DEF Open
    <3>2. form'.difficulty \in Mix
      BY <2>5, <2>7 DEF Good, StepValues
    <3>3. \A l \in Level : Showing(2 * form'.difficulty[l]) \in Input
      BY <3>2 DEF Showing, Input, Mix, Number
    <3>4. InputsGood'
      BY <3>1, <3>3 DEF InputsGood, InputsShow
    <3> QED
      BY <2>6, <3>4 DEF IInv
  <2>8. CASE p # "environment"
    <3>1. InputsGood'
      BY <2>1, <2>8, InputsEmpty DEF Open, InputsGood
    <3> QED
      BY <2>6, <3>1 DEF IInv
  <2> QED
    BY <2>7, <2>8
<1>2. CASE p \notin Saves
  <2>1. FormGood' /\ RefusalGood' /\ AnswerGood'
    BY <1>2 DEF FormGood, RefusalGood, AnswerGood, Open
  <2>2. InputsGood'
    BY <1>2, InputsEmpty DEF Open, InputsGood, Saves, Step
  <2> QED
    BY <2>1, <2>2 DEF IInv
<1> QED
  BY <1>1, <1>2

\* A step whose schema accepts its values with step 1's date, accepts them without.
LEMMA AcceptedWithoutDate ==
    ASSUME NEW s \in Saves, NEW v, NEW date, Issues(s, v, date) = {}
    PROVE  Issues(s, v, NoDate) = {}
<1>1. CASE s = "pricing"
  <2>1. PricingIssues(v, date) = {}
    BY <1>1 DEF Issues
  <2>2. PricingOwnIssues(v) = {} /\ PricingCrossIssues(v, date) = {}
    BY <2>1, PricingAccepted
  <2>3. /\ v.depositRequired => v.depositAmount \in Nat /\ v.depositAmount > 0
        /\ OneFinal(v.milestones)
        /\ DeadlinesInOrder(v.milestones, date, FirstFinalDeadline(v.milestones))
    BY <2>2, PricingCrossAccepted
  <2>4. DeadlinesInOrder(v.milestones, NoDate, FirstFinalDeadline(v.milestones))
    BY <2>3 DEF DeadlinesInOrder
  <2>5. PricingCrossIssues(v, NoDate) = {}
    BY <2>3, <2>4, PricingCrossAccepted
  <2> QED
    BY <1>1, <2>2, <2>5, PricingAccepted DEF Issues
<1>2. CASE s # "pricing"
  BY <1>2 DEF Issues, Saves, Step
<1> QED
  BY <1>1, <1>2

LEMMA SubmitGood ==
    ASSUME IInv, Submit
    PROVE  IInv'
<1>1. /\ page \in Saves /\ Good(page, form)
      /\ Issues(page, form, EffectiveDate(saved)) = {}
      /\ saved' = Put(saved, page, form) /\ kept' = kept
      /\ Open(After[page])
  BY DEF Submit, IInv, FormGood
<1>2. Issues(page, form, NoDate) = {}
  BY <1>1, AcceptedWithoutDate
<1>3. /\ DOMAIN saved' = DOMAIN saved \cup {page}
      /\ saved'[page] = form
      /\ \A s \in DOMAIN saved \ {page} : saved'[s] = saved[s]
  BY <1>1 DEF Put
<1>4. SavedGood'
  <2>1. DOMAIN saved' \subseteq Saves
    BY <1>1, <1>3 DEF IInv, SavedGood
  <2>2. ASSUME NEW s \in DOMAIN saved'
        PROVE  Good(s, saved'[s]) /\ Issues(s, saved'[s], NoDate) = {}
    BY <1>1, <1>2, <1>3 DEF IInv, SavedGood
  <2> QED
    BY <2>1, <2>2 DEF SavedGood
<1>5. KeptGood'
  BY <1>1 DEF IInv, KeptGood
<1>6. After[page] \in Page
  BY <1>1 DEF After, Page, Saves, Step
<1> QED
  BY <1>1, <1>4, <1>5, <1>6, OpenGood

LEMMA BackGood ==
    ASSUME IInv, Back
    PROVE  IInv'
<1>1. /\ page \in DOMAIN Before /\ saved' = saved /\ Open(Before[page])
      /\ kept' = IF page = "review" THEN kept ELSE Put(kept, page, form)
  BY DEF Back
<1>2. DOMAIN Before = {"scope", "pricing", "environment", "technical", "delivery",
                       "counterparty", "review"}
  BY DEF Before
<1>3. Before[page] \in Page
  BY <1>1 DEF Before, Page, Saves, Step
<1>4. SavedGood'
  BY <1>1 DEF IInv, SavedGood
<1>5. CASE page = "review"
  <2>1. KeptGood'
    BY <1>1, <1>5 DEF IInv, KeptGood
  <2> QED
    BY <1>1, <1>3, <1>4, <2>1, OpenGood
<1>6. CASE page # "review"
  <2>1. page \in Step \ {"agreement"} /\ page \in Saves
    BY <1>1, <1>2, <1>6 DEF Step, Saves
  <2>2. /\ DOMAIN kept' = DOMAIN kept \cup {page}
        /\ kept'[page] = form
        /\ \A s \in DOMAIN kept \ {page} : kept'[s] = kept[s]
    BY <1>1, <1>6 DEF Put
  <2>3. Good(page, form)
    BY <2>1 DEF IInv, FormGood
  <2>4. DOMAIN kept' \subseteq Step \ {"agreement"}
    BY <2>1, <2>2 DEF IInv, KeptGood
  <2>5. ASSUME NEW s \in DOMAIN kept'
        PROVE  Good(s, kept'[s])
    BY <2>2, <2>3 DEF IInv, KeptGood
  <2>6. KeptGood'
    BY <2>4, <2>5 DEF KeptGood
  <2> QED
    BY <1>1, <1>3, <1>4, <2>6, OpenGood
<1> QED
  BY <1>5, <1>6

LEMMA NothingKept ==
    ASSUME kept' = Nothing
    PROVE  KeptGood'
BY DEF KeptGood, Nothing

LEMMA InitGood == Init => IInv
<1> SUFFICES ASSUME Init PROVE IInv
  OBVIOUS
<1>1. PICK n \in Start, organization \in SUBSET {"organization"} :
        saved = [s \in {StepOrder[i] : i \in 1 .. n} \cup organization |-> Filled(s)]
  BY DEF Init
<1>2. n \in 0 .. 7
  BY FormsAssumption DEF FormsAssumption
<1>3. \A i \in 1 .. n : StepOrder[i] \in Saves
  BY <1>2 DEF StepOrder, Saves, Step
<1>4. DOMAIN saved \subseteq Saves /\ \A s \in DOMAIN saved : saved[s] = Filled(s)
  BY <1>1, <1>3 DEF Saves
<1>5. SavedGood
  BY <1>4, FilledGood DEF SavedGood
<1>6. KeptGood
  BY DEF Init, KeptGood, Nothing
<1>7. FormGood /\ RefusalGood /\ AnswerGood
  BY DEF Init, FormGood, RefusalGood, AnswerGood, Page, Saves, Step
<1>8. InputsGood
  BY InputsEmpty DEF Init, InputsGood
<1> QED
  BY <1>5, <1>6, <1>7, <1>8 DEF IInv

LEMMA NextGood == IInv /\ [Next]_vars => IInv'
<1> SUFFICES ASSUME IInv, [Next]_vars PROVE IInv'
  OBVIOUS
<1> USE FormsAssumption
<1>1. CASE Edit
  BY <1>1, EditGood
<1>2. CASE Submit
  BY <1>2, SubmitGood
<1>3. CASE Refuse
  <2>1. /\ UNCHANGED <<saved, kept, page, form, inputs, termsOpen, answer>> /\ page \in Saves
        /\ refusal' = Issues(page, form, EffectiveDate(saved))
    BY <1>3 DEF Refuse
  <2>2. SavedGood' /\ KeptGood' /\ FormGood' /\ InputsGood' /\ AnswerGood'
    BY <2>1 DEF IInv, SavedGood, KeptGood, FormGood, InputsGood, InputsShow, AnswerGood
  <2>3. RefusalGood'
    BY <2>1 DEF RefusalGood
  <2> QED
    BY <2>2, <2>3 DEF IInv
<1>4. CASE Back
  BY <1>4, BackGood
<1>5. ASSUME NEW s \in Step, EditFromReview(s)
      PROVE  IInv'
  <2>1. SavedGood' /\ KeptGood' /\ Open(s) /\ s \in Page
    BY <1>5 DEF EditFromReview, IInv, SavedGood, KeptGood, Page, Saves
  <2> QED
    BY <2>1, OpenGood
<1>6. CASE Resume
  <2>1. SavedGood' /\ KeptGood'
    BY <1>6 DEF Resume, IInv, SavedGood, KeptGood
  <2>2. \/ Open("review")
        \/ \E i \in 1 .. 7 : Open(StepOrder[i])
    BY <1>6 DEF Resume
  <2>3. \A i \in 1 .. 7 : StepOrder[i] \in Page
    BY DEF StepOrder, Page, Saves, Step
  <2>4. "review" \in Page
    BY DEF Page
  <2> QED
    BY <2>1, <2>2, <2>3, <2>4, OpenGood
<1>7. CASE ToList
  <2>1. SavedGood' /\ kept' = Nothing /\ Open("list") /\ "list" \in Page
    BY <1>7 DEF ToList, Leave, IInv, SavedGood, Page
  <2> QED
    BY <2>1, NothingKept, OpenGood
<1>8. CASE ToOrganization
  <2>1. SavedGood' /\ kept' = Nothing /\ Open("organization") /\ "organization" \in Page
    BY <1>8 DEF ToOrganization, Leave, IInv, SavedGood, Page, Saves
  <2> QED
    BY <2>1, NothingKept, OpenGood
<1>9. CASE Deliver
  <2>1. /\ UNCHANGED <<saved, kept, page, form, inputs, termsOpen, refusal>>
        /\ answer' \in {"none", "incomplete", "refused", "accepted"}
    BY <1>9 DEF Deliver
  <2> QED
    BY <2>1 DEF IInv, SavedGood, KeptGood, FormGood, InputsGood, InputsShow, RefusalGood,
                AnswerGood
<1>10. CASE ToggleTerms
  <2>1. /\ UNCHANGED <<saved, kept, page, form, inputs, refusal, answer>>
        /\ termsOpen' = ~ termsOpen
    BY <1>10 DEF ToggleTerms
  <2> QED
    BY <2>1 DEF IInv, SavedGood, KeptGood, FormGood, InputsGood, InputsShow, RefusalGood,
                AnswerGood
<1>11. CASE UNCHANGED vars
  BY <1>11 DEF vars, IInv, SavedGood, KeptGood, FormGood, InputsGood, InputsShow,
               RefusalGood, AnswerGood
<1> QED
  BY <1>1, <1>2, <1>3, <1>4, <1>5, <1>6, <1>7, <1>8, <1>9, <1>10, <1>11 DEF Next

LEMMA Invariant == Spec => []IInv
BY InitGood, NextGood, PTL DEF Spec

-----------------------------------------------------------------------------
(* What the API refuses of values that their schema accepts *)

LEMMA TwoMayFail ==
    ASSUME NEW checks, NEW f \in DOMAIN checks, NEW g \in DOMAIN checks,
           \A e \in DOMAIN checks \ {f, g} : checks[e]
    PROVE  Failing(checks) = Unless(checks[f], f) \cup Unless(checks[g], g)
BY DEF Failing, Unless

LEMMA ThreeMayFail ==
    ASSUME NEW checks, NEW f \in DOMAIN checks, NEW g \in DOMAIN checks,
           NEW h \in DOMAIN checks, \A e \in DOMAIN checks \ {f, g, h} : checks[e]
    PROVE  Failing(checks) =
              Unless(checks[f], f) \cup Unless(checks[g], g) \cup Unless(checks[h], h)
BY DEF Failing, Unless

LEMMA AgreementGap ==
    ASSUME NEW v, Good("agreement", v), AgreementIssues(v) = {}
    PROVE  ApiAgreement(v) = ApiOnly("agreement", v)
<1> DEFINE days == WholeInRange(v.cureDays)
           ok == InRange(v.multiplier) /\ v.multiplier > 0
           checks == [texts |-> v.texts # Blank, effectiveDate |-> v.effectiveDate # NoDate,
                      cureDays |-> days, multiplier |-> ok]
<1>1. /\ v.texts # Blank /\ v.effectiveDate # NoDate
      /\ v.cureDays # NaN /\ v.multiplier # NaN
  BY AgreementAccepted
<1>2. /\ v.multiplier \in Nat
      /\ days = (v.cureDays <= MoneyLimit)
  BY <1>1 DEF Good, StepValues, Number, WholeInRange
<1>3. ok = (v.multiplier > 0 /\ v.multiplier < MoneyLimit)
  BY <1>2 DEF InRange
<1>4. ApiAgreement(v) = Failing(checks)
  BY DEF ApiAgreement
<1> HIDE DEF ok, days
<1>5. /\ DOMAIN checks = {"texts", "effectiveDate", "cureDays", "multiplier"}
      /\ checks["texts"] /\ checks["effectiveDate"]
      /\ checks["cureDays"] = days /\ checks["multiplier"] = ok
  BY <1>1
<1> HIDE DEF checks
<1>6. Failing(checks) = Unless(days, "cureDays") \cup Unless(ok, "multiplier")
  <2>1. Failing(checks) = Unless(checks["cureDays"], "cureDays")
                          \cup Unless(checks["multiplier"], "multiplier")
    BY <1>5, TwoMayFail
  <2> QED
    BY <1>5, <2>1
<1> QED
  BY <1>2, <1>3, <1>4, <1>6 DEF ApiOnly

LEMMA ScopeGap ==
    ASSUME NEW v, Good("scope", v), ScopeIssues(v) = {}
    PROVE  ApiScope(v) = ApiOnly("scope", v)
<1> DEFINE volume == InRange(v.targetVolume) /\ v.targetVolume > 0
           regions == /\ \E c \in Country : v.regions[c] > 0
                      /\ \A c \in Country : v.regions[c] <= 1
           rows == ApiRows("deliverables", v.deliverables)
           checks == [texts |-> v.texts # Blank, targetVolume |-> volume,
                      regions |-> regions, deliverables |-> rows]
<1>1. /\ v.texts # Blank /\ v.targetVolume # NaN /\ v.targetVolume > 0
      /\ \E c \in Country : v.regions[c] > 0
      /\ RowsAccepted("deliverables", v.deliverables)
  BY ScopeAccepted
<1>2. v.targetVolume \in Nat /\ regions
  BY <1>1 DEF Good, StepValues, Number
<1>3. volume = (v.targetVolume < MoneyLimit)
  BY <1>1, <1>2 DEF InRange
<1>4. rows = (Len(v.deliverables) <= RowLimit)
  BY <1>1 DEF ApiRows
<1>5. ApiScope(v) = Failing(checks)
  BY DEF ApiScope
<1> HIDE DEF volume, regions, rows
<1>6. /\ DOMAIN checks = {"texts", "targetVolume", "regions", "deliverables"}
      /\ checks["texts"] /\ checks["targetVolume"] = volume
      /\ checks["regions"] /\ checks["deliverables"] = rows
  BY <1>1, <1>2
<1> HIDE DEF checks
<1>7. Failing(checks) = Unless(volume, "targetVolume") \cup Unless(rows, "deliverables")
  <2>1. Failing(checks) = Unless(checks["targetVolume"], "targetVolume")
                          \cup Unless(checks["deliverables"], "deliverables")
    BY <1>6, TwoMayFail
  <2> QED
    BY <1>6, <2>1
<1> QED
  BY <1>3, <1>4, <1>5, <1>7 DEF ApiOnly, RowsFit

LEMMA PricingGap ==
    ASSUME NEW v, Good("pricing", v), NEW date, PricingIssues(v, date) = {}
    PROVE  ApiPricing(v, date) = ApiOnly("pricing", v)
<1> DEFINE deposit == IF v.depositRequired
                      THEN InRange(v.depositAmount) /\ v.depositAmount > 0
                      ELSE v.depositAmount = Null
           rows == /\ ApiRows("milestones", v.milestones)
                   /\ \A i \in DOMAIN v.milestones : v.milestones[i].deadline # NoDate
                   /\ OneFinal(v.milestones)
                   /\ DeadlinesInOrder(v.milestones, date, LastFinalDeadline(v.milestones))
           fee == InRange(v.unitFee)
           checks == [texts |-> v.texts # Blank, unitFee |-> fee,
                      depositAmount |-> deposit, milestones |-> rows]
<1>1. PricingOwnIssues(v) = {} /\ PricingCrossIssues(v, date) = {}
  BY PricingAccepted
<1>2. /\ v.texts # Blank /\ IsMoney(v.unitFee) /\ v.depositAmount # NaN
      /\ RowsAccepted("milestones", v.milestones)
      /\ \A i \in DOMAIN v.milestones : v.milestones[i].deadline # NoDate
  BY <1>1, PricingOwnAccepted
<1>3. /\ v.depositRequired => v.depositAmount \in Nat /\ v.depositAmount > 0
      /\ OneFinal(v.milestones)
      /\ DeadlinesInOrder(v.milestones, date, FirstFinalDeadline(v.milestones))
  BY <1>1, PricingCrossAccepted
\* One final row is the first and the last.
<1>4. FirstFinalDeadline(v.milestones) = LastFinalDeadline(v.milestones)
  <2>1. PICK i \in DOMAIN v.milestones : FinalRows(v.milestones) = {i}
    BY <1>3 DEF OneFinal
  <2>2. i \in Nat
    BY DEF Good, StepValues
  <2> QED
    BY <2>1, <2>2 DEF FirstFinalDeadline, LastFinalDeadline
<1>5. rows <=> Len(v.milestones) <= RowLimit
  <2>1. DeadlinesInOrder(v.milestones, date, LastFinalDeadline(v.milestones))
    BY <1>3, <1>4
  <2>2. ApiRows("milestones", v.milestones) <=> Len(v.milestones) <= RowLimit
    BY <1>2 DEF ApiRows
  <2> QED
    BY <1>2, <1>3, <2>1, <2>2
<1>6. deposit = IF v.depositRequired THEN v.depositAmount < MoneyLimit
                ELSE v.depositAmount = Null
  BY <1>3 DEF InRange
<1>7. fee
  BY <1>2 DEF IsMoney, InRange
<1>8. ApiPricing(v, date) = Failing(checks)
  BY DEF ApiPricing
<1> HIDE DEF deposit, rows, fee
<1>9. /\ DOMAIN checks = {"texts", "unitFee", "depositAmount", "milestones"}
      /\ checks["texts"] /\ checks["unitFee"]
      /\ checks["depositAmount"] = deposit /\ checks["milestones"] = rows
  BY <1>2, <1>7
<1> HIDE DEF checks
<1>10. Failing(checks) = Unless(deposit, "depositAmount") \cup Unless(rows, "milestones")
  <2>1. Failing(checks) = Unless(checks["depositAmount"], "depositAmount")
                          \cup Unless(checks["milestones"], "milestones")
    BY <1>9, TwoMayFail
  <2> QED
    BY <1>9, <2>1
<1>11. Unless(rows, "milestones") = RowsFit(v, "milestones")
  BY <1>5 DEF Unless, RowsFit
<1> QED
  BY <1>6, <1>8, <1>10, <1>11 DEF ApiOnly

LEMMA EnvironmentGap ==
    ASSUME NEW v, EnvironmentIssues(v) = {}
    PROVE  ApiEnvironment(v) = ApiOnly("environment", v)
<1> DEFINE some == ApiRows("verticals", v.verticals)
           more == ApiRows("extraProhibited", v.extraProhibited)
           mix == SharesAddUp(v.difficulty)
           checks == [verticals |-> some, difficulty |-> mix, extraProhibited |-> more]
<1>1. /\ RowsAccepted("verticals", v.verticals) /\ mix
      /\ RowsAccepted("extraProhibited", v.extraProhibited)
  BY EnvironmentAccepted
<1>2. /\ some = (Len(v.verticals) <= RowLimit)
      /\ more = (Len(v.extraProhibited) <= RowLimit)
  BY <1>1 DEF ApiRows
<1>3. ApiEnvironment(v) = Failing(checks)
  BY DEF ApiEnvironment
<1> HIDE DEF some, more, mix
<1>4. /\ DOMAIN checks = {"verticals", "difficulty", "extraProhibited"}
      /\ checks["verticals"] = some /\ checks["difficulty"]
      /\ checks["extraProhibited"] = more
  BY <1>1
<1> HIDE DEF checks
<1>5. Failing(checks) = Unless(some, "verticals") \cup Unless(more, "extraProhibited")
  <2>1. Failing(checks) = Unless(checks["verticals"], "verticals")
                          \cup Unless(checks["extraProhibited"], "extraProhibited")
    BY <1>4, TwoMayFail
  <2> QED
    BY <1>4, <2>1
<1> QED
  BY <1>2, <1>3, <1>5 DEF ApiOnly, RowsFit

LEMMA TechnicalGap ==
    ASSUME NEW v, TechnicalIssues(v) = {}
    PROVE  ApiTechnical(v) = ApiOnly("technical", v)
<1> DEFINE some == ApiRows("requirements", v.requirements)
           more == ApiRows("preCollectionMaterials", v.preCollectionMaterials)
           checks == [requirements |-> some, preCollectionMaterials |-> more]
<1>1. /\ RowsAccepted("requirements", v.requirements)
      /\ RowsAccepted("preCollectionMaterials", v.preCollectionMaterials)
  BY TechnicalAccepted
<1>2. /\ some = (Len(v.requirements) <= RowLimit)
      /\ more = (Len(v.preCollectionMaterials) <= RowLimit)
  BY <1>1 DEF ApiRows
<1>3. ApiTechnical(v) = Failing(checks)
  BY DEF ApiTechnical
<1> HIDE DEF some, more
<1>4. /\ DOMAIN checks = {"requirements", "preCollectionMaterials"}
      /\ checks["requirements"] = some /\ checks["preCollectionMaterials"] = more
  OBVIOUS
<1> HIDE DEF checks
<1>5. Failing(checks) = Unless(some, "requirements")
                        \cup Unless(more, "preCollectionMaterials")
  <2>1. Failing(checks) =
            Unless(checks["requirements"], "requirements")
            \cup Unless(checks["preCollectionMaterials"], "preCollectionMaterials")
    BY <1>4, TwoMayFail
  <2> QED
    BY <1>4, <2>1
<1> QED
  BY <1>2, <1>3, <1>5 DEF ApiOnly, RowsFit

LEMMA DeliveryGap ==
    ASSUME NEW v, Good("delivery", v), DeliveryIssues(v) = {}
    PROVE  ApiDelivery(v) = ApiOnly("delivery", v)
<1> DEFINE some == ApiRows("manifestFields", v.manifestFields)
           more == ApiRows("siteDataFields", v.siteDataFields)
           days == WholeInRange(v.deletionWindowDays)
           checks == [texts |-> v.texts # Blank, manifestFields |-> some,
                      siteDataFields |-> more, deletionWindowDays |-> days]
<1>1. /\ v.texts # Blank /\ v.deletionWindowDays # NaN
      /\ RowsAccepted("manifestFields", v.manifestFields)
      /\ RowsAccepted("siteDataFields", v.siteDataFields)
  BY DeliveryAccepted
<1>2. /\ some = (Len(v.manifestFields) <= RowLimit)
      /\ more = (Len(v.siteDataFields) <= RowLimit)
  BY <1>1 DEF ApiRows
<1>3. v.deletionWindowDays \in Nat
  BY <1>1 DEF Good, StepValues, Number
<1>4. days = (v.deletionWindowDays <= MoneyLimit)
  BY <1>3 DEF WholeInRange
<1>5. ApiDelivery(v) = Failing(checks)
  BY DEF ApiDelivery
<1> HIDE DEF some, more, days
<1>6. /\ DOMAIN checks = {"texts", "manifestFields", "siteDataFields", "deletionWindowDays"}
      /\ checks["texts"] /\ checks["manifestFields"] = some
      /\ checks["siteDataFields"] = more /\ checks["deletionWindowDays"] = days
  BY <1>1
<1> HIDE DEF checks
<1>7. Failing(checks) = Unless(days, "deletionWindowDays")
                        \cup Unless(some, "manifestFields") \cup Unless(more, "siteDataFields")
  <2>1. Failing(checks) = Unless(checks["deletionWindowDays"], "deletionWindowDays")
                          \cup Unless(checks["manifestFields"], "manifestFields")
                          \cup Unless(checks["siteDataFields"], "siteDataFields")
    BY <1>6, ThreeMayFail
  <2> QED
    BY <1>6, <2>1
<1> QED
  BY <1>2, <1>4, <1>5, <1>7 DEF ApiOnly, RowsFit

LEMMA StepGap ==
    ASSUME NEW v
    PROVE  /\ CounterpartyIssues(v) = {} => ApiCounterparty(v) = ApiOnly("counterparty", v)
           /\ OrganizationIssues(v) = {} => ApiOrganization(v) = ApiOnly("organization", v)
BY DEF CounterpartyIssues, ApiCounterparty, OrganizationIssues, ApiOrganization, ApiOnly

LEMMA ApiGap ==
    ASSUME SavedGood, ConfigurationAccepted(saved)
    PROVE  ApiIssues(saved) = ApiOnlyIssues(saved)
<1> DEFINE date == EffectiveDate(saved)
<1>1. /\ DOMAIN saved = Step \cup {"organization"}
      /\ \A s \in DOMAIN saved : Good(s, saved[s]) /\ Issues(s, saved[s], date) = {}
  BY DEF ConfigurationAccepted, Ready, SavedGood
<1>2. date = saved["agreement"].effectiveDate
  BY <1>1 DEF EffectiveDate, Step
<1> HIDE DEF date
<1>3. ApiAgreement(saved["agreement"]) = ApiOnly("agreement", saved["agreement"])
  BY <1>1, AgreementGap DEF Issues, Step
<1>4. ApiScope(saved["scope"]) = ApiOnly("scope", saved["scope"])
  BY <1>1, ScopeGap DEF Issues, Step
<1>5. ApiPricing(saved["pricing"], date) = ApiOnly("pricing", saved["pricing"])
  BY <1>1, PricingGap DEF Issues, Step
<1>6. ApiEnvironment(saved["environment"]) = ApiOnly("environment", saved["environment"])
  BY <1>1, EnvironmentGap DEF Issues, Step
<1>7. ApiTechnical(saved["technical"]) = ApiOnly("technical", saved["technical"])
  BY <1>1, TechnicalGap DEF Issues, Step
<1>8. ApiDelivery(saved["delivery"]) = ApiOnly("delivery", saved["delivery"])
  BY <1>1, DeliveryGap DEF Issues, Step
<1>9. /\ ApiCounterparty(saved["counterparty"]) = ApiOnly("counterparty", saved["counterparty"])
      /\ ApiOrganization(saved["organization"]) = ApiOnly("organization", saved["organization"])
  BY <1>1, StepGap DEF Issues, Step
<1>10. ApiOnlyIssues(saved) =
          ApiOnly("agreement", saved["agreement"]) \cup ApiOnly("scope", saved["scope"])
          \cup ApiOnly("pricing", saved["pricing"])
          \cup ApiOnly("environment", saved["environment"])
          \cup ApiOnly("technical", saved["technical"])
          \cup ApiOnly("delivery", saved["delivery"])
          \cup ApiOnly("counterparty", saved["counterparty"])
          \cup ApiOnly("organization", saved["organization"])
  BY <1>1 DEF ApiOnlyIssues, Step
<1> QED
  BY <1>2, <1>3, <1>4, <1>5, <1>6, <1>7, <1>8, <1>9, <1>10 DEF ApiIssues

-----------------------------------------------------------------------------
(* The theorems *)

(* Every form, saved value and kept value is of its step, and every page has    *)
(* the form that belongs to it.                                                 *)
THEOREM TypeCorrect == Spec => []TypeOK
<1>1. IInv => TypeOK
  BY DEF IInv, SavedGood, KeptGood, FormGood, InputsGood, AnswerGood, Good, TypeOK
<1> QED
  BY <1>1, Invariant, PTL

(* However rows are added, removed, dragged and marked, and whatever is saved   *)
(* or kept in between, no draft and no form has two final deliveries.           *)
THEOREM NoTwoFinalRows == Spec => []OneFinalRow
<1>1. IInv => OneFinalRow
  BY DEF IInv, SavedGood, KeptGood, FormGood, Good, OneFinalRow, Saves, Step
<1> QED
  BY <1>1, Invariant, PTL

(* The difficulty mix adds up whatever is typed or dragged, and its inputs show *)
(* it.                                                                          *)
THEOREM MixAlwaysShown == Spec => []MixIsShown
<1>1. ASSUME IInv, page = "environment" PROVE MixIsShown
  <2>1. SharesAddUp(form.difficulty) /\ InputsShow(form.difficulty)
    BY <1>1 DEF IInv, FormGood, InputsGood, Good, Saves, Step
  <2>2. \A l \in Level : inputs[l].text = 2 * form.difficulty[l]
    <3>1. \A n : Showing(n).text = n
      BY DEF Showing
    <3> QED
      BY <2>1, <3>1 DEF InputsShow
  <2> QED
    BY <2>1, <2>2 DEF MixIsShown
<1>2. IInv => MixIsShown
  BY <1>1 DEF MixIsShown
<1> QED
  BY <1>2, Invariant, PTL

(* A ready draft is incomplete only when a milestone is due before the date     *)
(* that step 1 was given after it.                                              *)
THEOREM IncompleteOnlyByDate == Spec => []ReadyFailsOnlyByDate
<1>1. ASSUME IInv, Ready(saved), ~ ConfigurationAccepted(saved)
      PROVE  DueBeforeStart(saved)
  <2> DEFINE date == EffectiveDate(saved)
             v == saved["pricing"]
  <2>1. PICK s \in DOMAIN saved : Issues(s, saved[s], date) # {}
    BY <1>1 DEF ConfigurationAccepted
  <2>2. Good(s, saved[s]) /\ Issues(s, saved[s], NoDate) = {} /\ s \in Saves
    BY <1>1 DEF IInv, SavedGood
  <2> HIDE DEF date
  <2>3. s = "pricing"
    BY <2>1, <2>2 DEF Issues, Saves, Step
  <2> HIDE DEF v
  <2>4. /\ Good("pricing", v) /\ PricingIssues(v, NoDate) = {}
        /\ PricingIssues(v, date) # {}
    BY <2>1, <2>2, <2>3 DEF v, Issues
  <2>5. PricingOwnIssues(v) = {} /\ PricingCrossIssues(v, NoDate) = {}
    BY <2>4, PricingAccepted
  <2>6. PricingCrossIssues(v, date) # {}
    BY <2>4, <2>5, PricingAccepted
  <2>7. /\ v.depositRequired => v.depositAmount \in Nat /\ v.depositAmount > 0
        /\ OneFinal(v.milestones)
        /\ DeadlinesInOrder(v.milestones, NoDate, FirstFinalDeadline(v.milestones))
    BY <2>5, PricingCrossAccepted
  <2>8. ~ DeadlinesInOrder(v.milestones, date, FirstFinalDeadline(v.milestones))
    BY <2>6, <2>7, PricingCrossAccepted
  <2>9. PICK i \in DOMAIN v.milestones : ~ (v.milestones[i].deadline >= date)
    BY <2>7, <2>8 DEF DeadlinesInOrder
  <2>10. v.milestones[i].deadline \in Nat
    <3>1. v.milestones \in Seq(Milestone)
      BY <2>4 DEF Good, StepValues
    <3>2. v.milestones[i] \in Milestone
      BY <2>9, <3>1, ElementOfSeq, LenProperties
    <3> QED
      BY <3>2 DEF Milestone
  <2>11. date \in Nat
    BY <1>1 DEF date, EffectiveDate, IInv, SavedGood, Good, StepValues, NoDate
  <2>12. v.milestones[i].deadline < date
    BY <2>9, <2>10, <2>11
  <2> QED
    BY <2>9, <2>12 DEF DueBeforeStart, v, date
<1>2. IInv => ReadyFailsOnlyByDate
  BY <1>1 DEF ReadyFailsOnlyByDate
<1> QED
  BY <1>2, Invariant, PTL

(* The API accepts what the web app accepts, but for the checks only it makes.  *)
THEOREM ApiRefusesNothingElse == Spec => []ApiRefusesOnlyTheGap
<1>1. IInv => ApiRefusesOnlyTheGap
  BY ApiGap DEF IInv, ApiRefusesOnlyTheGap
<1> QED
  BY <1>1, Invariant, PTL

(* A refused field that is not on the page is a number that was emptied and     *)
(* then hidden.                                                                 *)
THEOREM RefusalsShownOrBlank == Spec => []RefusalsAreShown
<1>1. ASSUME NEW f \in Issues(page, form, EffectiveDate(saved)), page \in Saves,
             ~ Visible(page, form, f)
      PROVE  form[f] = NaN
  <2>1. CASE page = "agreement" /\ f \in StandardTerms
    <3> DEFINE texts == form.texts # Blank
               day == form.effectiveDate # NoDate
               checks == [texts |-> texts, effectiveDate |-> day,
                          cureDays |-> form.cureDays # NaN,
                          multiplier |-> form.multiplier # NaN]
    <3>1. AgreementIssues(form) = Failing(checks)
      BY DEF AgreementIssues
    <3> HIDE DEF texts, day
    <3>2. /\ checks["cureDays"] = (form.cureDays # NaN)
          /\ checks["multiplier"] = (form.multiplier # NaN)
      OBVIOUS
    <3> HIDE DEF checks
    <3>3. f \in AgreementIssues(form)
      BY <1>1, <2>1 DEF Issues
    <3>4. ~ checks[f]
      BY <3>1, <3>3 DEF Failing
    <3> QED
      BY <2>1, <3>2, <3>4 DEF StandardTerms
  <2>2. CASE page = "pricing" /\ f = "depositAmount" /\ ~ form.depositRequired
    <3> DEFINE date == EffectiveDate(saved)
    <3>1. form.depositAmount = NaN \/ f \notin PricingOwnIssues(form)
      <4> DEFINE money == IsMoney(form.unitFee)
                 rows == /\ RowsAccepted("milestones", form.milestones)
                         /\ \A i \in DOMAIN form.milestones :
                               form.milestones[i].deadline # NoDate
                 checks == [texts |-> form.texts # Blank, unitFee |-> money,
                            depositAmount |-> form.depositAmount # NaN, milestones |-> rows]
      <4>1. PricingOwnIssues(form) = Failing(checks)
        BY DEF PricingOwnIssues
      <4> HIDE DEF money, rows
      <4>2. checks["depositAmount"] = (form.depositAmount # NaN)
        OBVIOUS
      <4> HIDE DEF checks
      <4> QED
        BY <2>2, <4>1, <4>2 DEF Failing
    <3>2. f \notin PricingCrossIssues(form, date)
      <4> DEFINE deposit == form.depositRequired =>
                               form.depositAmount \in Nat /\ form.depositAmount > 0
                 rows == /\ OneFinal(form.milestones)
                         /\ DeadlinesInOrder(form.milestones, date,
                                             FirstFinalDeadline(form.milestones))
                 checks == [depositAmount |-> deposit, milestones |-> rows]
      <4>1. PricingCrossIssues(form, date) = Failing(checks)
        BY DEF PricingCrossIssues
      <4>2. deposit
        BY <2>2
      <4> HIDE DEF deposit, rows
      <4>3. checks["depositAmount"] = deposit
        OBVIOUS
      <4> HIDE DEF checks
      <4> QED
        BY <2>2, <4>1, <4>2, <4>3 DEF Failing
    <3>3. f \in PricingIssues(form, date)
      BY <1>1, <2>2 DEF Issues
    <3> QED
      BY <2>2, <3>1, <3>2, <3>3 DEF PricingIssues
  <2>3. CASE /\ page = "delivery" /\ f = "deletionWindowDays"
             /\ ~ form.rejectedStaysDeveloperOwned
    <3> DEFINE some == RowsAccepted("manifestFields", form.manifestFields)
               more == RowsAccepted("siteDataFields", form.siteDataFields)
               checks == [texts |-> form.texts # Blank, manifestFields |-> some,
                          siteDataFields |-> more,
                          deletionWindowDays |-> form.deletionWindowDays # NaN]
    <3>1. DeliveryIssues(form) = Failing(checks)
      BY DEF DeliveryIssues
    <3> HIDE DEF some, more
    <3>2. checks["deletionWindowDays"] = (form.deletionWindowDays # NaN)
      OBVIOUS
    <3>3. f \in DeliveryIssues(form)
      BY <1>1, <2>3 DEF Issues
    <3> HIDE DEF checks
    <3> QED
      BY <2>3, <3>1, <3>2, <3>3 DEF Failing
  <2>4. ~ (page = "counterparty" /\ f = "details" /\ form.mode # "details")
    <3> SUFFICES ASSUME page = "counterparty", f = "details", form.mode # "details"
                 PROVE  FALSE
      OBVIOUS
    <3> DEFINE details == form.mode = "details" => form.details # Blank
               checks == [texts |-> form.texts # Blank, details |-> details]
    <3>1. CounterpartyIssues(form) = Failing(checks)
      BY DEF CounterpartyIssues
    <3>2. details
      OBVIOUS
    <3> HIDE DEF details
    <3>3. checks["details"] = details
      OBVIOUS
    <3>4. f \in CounterpartyIssues(form)
      BY <1>1 DEF Issues
    <3> HIDE DEF checks
    <3> QED
      BY <3>1, <3>2, <3>3, <3>4 DEF Failing
  <2> QED
    BY <1>1, <2>1, <2>2, <2>3, <2>4 DEF Visible
<1>2. IInv => RefusalsAreShown
  BY <1>1 DEF IInv, RefusalGood, RefusalsAreShown
<1> QED
  BY <1>2, Invariant, PTL

=============================================================================
