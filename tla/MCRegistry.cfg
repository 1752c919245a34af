SPECIFICATION RegistrySpec
CONSTANTS
    Specs <- MCSpecs
    NormalizeRouteID <- MCNormalizeRouteID
    Readers = {r1}
    RequestKeys <- MCKeys
    Tables = {t1, t2, t3}
    MaxChanges = 5
INVARIANTS
    FirstRouteWins
    FreshMeansSame
    BuildIffAcyclic
CHECK_DEADLOCK FALSE
