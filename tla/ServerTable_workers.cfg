\* A main environment and two workers on two slots, three servers in all.
CONSTANTS
    Env = {main, worker1, worker2}
    Capacity = 2
    GenerationMod = 8
    NoEnv = NoEnv
    MaxServers = 3
    MaxClaims = 2
SYMMETRY EnvSymmetry
SPECIFICATION Spec
INVARIANTS
    LookupIsOwnAndAlive
    EngineFindsServer
    ClaimedExact
