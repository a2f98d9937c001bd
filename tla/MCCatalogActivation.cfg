CONSTANTS
    g1 = g1
    g2 = g2
    a1 = a1
    a2 = a2
    NoGen = NoGen
    NoFile = NoFile
    Gens <- MCGens
    Admins <- MCTwoAdmins
    MaxJobs = 1
    MaxBoots = 1
    MaxFaults = 2
SPECIFICATION Spec
SYMMETRY MCSymmetry
INVARIANTS
    TypeOK
    OnlyInstalledPublishes
    LeaseFreezesFile
    SettledConsistent
    OutcomeTruthful
    ServesWhatWasRequested
PROPERTIES
    FailureRestoresFile
