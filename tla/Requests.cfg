SPECIFICATION Spec
CONSTANTS
    MaxRequests = 3
    k1 = k1
    k2 = k2
    m1 = m1
    m2 = m2
    Keys = {k1, k2}
    Contents = {m1, m2}
    NoKey = NoKey
    CacheLimit = 1
    MaxReloads = 1
    SendScenarios <- MCScenarios
INVARIANTS
    RequestsInv
    SentOncePerKey
    AnswersAreTrue
PROPERTIES
    RequestsAreAnswered
