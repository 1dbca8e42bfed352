CONSTANTS
    Names <- MCNames
    Givens <- MCGivens
    Systems <- MCSystems
    Filters = {"A", "C"}
    MaxLen = 20
SPECIFICATION Spec
INVARIANTS
    ResolveIsExact
    PanicsAtEndOnly
    ExportIsFaithful
PROPERTIES
    ResolveReturns
\* a job ends with its result
CHECK_DEADLOCK FALSE
