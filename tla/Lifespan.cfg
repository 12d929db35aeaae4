\* Every configuration, one probe after another, checks of three ticks.
SPECIFICATION FairSpec
CONSTANTS
    Probes = {1}
    CheckTimeout = 3
INVARIANTS
    TypeOK
    NothingLeaks
    ReadyTruthful
    ProbeBounded
PROPERTY ProbesEnd
