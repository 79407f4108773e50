----------------------------- MODULE MCStepForms ----------------------------
(* StepForms on small instances: each sender changes a few fields. *)
EXTENDS StepForms

MCEdits ==
    {{"effectiveDate", "milestones"},
     {"milestones", "pricing"},
     {"effectiveDate", "pricing", "scope"},
     {"depositRequired", "depositAmount", "unitFee"},
     {"targetVolume", "regions", "scope"},
     {"multiplier", "regions"},
     {"cureDays", "deletionWindowDays"},
     {"deliverables", "scope"},
     {"difficulty", "environment"},
     {"verticals", "extraProhibited"},
     {"requirements", "preCollectionMaterials"},
     {"manifestFields", "siteDataFields"},
     {"rejectedStaysDeveloperOwned", "deletionWindowDays", "delivery"},
     {"mode", "details", "texts", "counterparty"},
     {"texts", "legalName", "shortName"}}

\* A table of one column may grow past what the API takes.
MCMaxRows == [t \in DOMAIN MinRows |-> IF t = "deliverables" THEN 3 ELSE 2]

=============================================================================
