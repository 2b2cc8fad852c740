SPECIFICATION Spec
CONSTANTS
    ada = ada
    bob = bob
    cyd = cyd
    Bindings <- MCBindings
    Healthz = Healthz
    Slots = 1
    CacheTtl = 2
    Timeout = 1
    MaxCached = 2
    Deployments <- MCDeployments
    NotBuilt = NotBuilt
    BurstPolicies = {"exclude"}
    MaxTime = 3
    Plans <- MCPlans
INVARIANTS
    TypeOK
    NothingForgotten
    AnswersAreFresh
    LaterIsNotOlder
PROPERTIES
    CallsEnd
CHECK_DEADLOCK FALSE
