CONSTANTS
    g1 = g1
    g2 = g2
    a1 = a1
    a2 = a2
    NoGen = NoGen
    NoFile = NoFile
    Gens <- MCGens
    Admins <- MCOneAdmin
    MaxJobs = 2
    MaxBoots = 0
    MaxFaults = 1
SPECIFICATION FairSpec
PROPERTIES ImplementsAtomicCatalog 
