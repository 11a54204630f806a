SPECIFICATION Spec
CONSTANTS
    Intents = {intent}
    Builders <- MCBuilders
    Labels = {la, lb}
    Validity = 2
    Limit = 2
    MaxHeight = 3
    MaxBuilds = 2
    MaxSends = 2
CONSTRAINT LookupsUnsent
SYMMETRY LabelSymmetry
INVARIANTS
    TypeOK
    RefBlockCoherent
    OkMeansAccepted
    OneEffectPerBuild
    ReadsInOrder
CHECK_DEADLOCK FALSE
