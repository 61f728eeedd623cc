CONSTANTS
    Words = {w1, w2}
    NoDept = NoDept
    Requests = {r1, r2}
    Seed = Seed
    MaxOdd = 1
    Files = 3
    Runners = {m1, m2}
    Seeders = {s1, s2}
    SeedWord = w1
SPECIFICATION DeploymentSpec
SYMMETRY DeploymentSymmetry
CHECK_DEADLOCK FALSE
INVARIANTS
    DeploymentTypeOK
    OneAccountPerAddress
    AnswerIsTrue
    DoublesRaced
    ScriptsAreTrue
