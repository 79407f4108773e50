SPECIFICATION Spec
CONSTANTS
    Tab = {t1}
    Draft = {d1}
    New = New
    LastStep = 3
    Value = {v1, v2}
    Default = v1
    NoValue = NoValue
    Organization = {o1}
    NoOrganization = NoOrganization
    NoDraft = NoDraft
PROPERTY
    SavedStepReopensAsSaved
