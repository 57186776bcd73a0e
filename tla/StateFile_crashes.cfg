SPECIFICATION FairSpec
CONSTANTS
    Files = {catalog, plans}
    Lenient = {plans}
    MaxVersion = 2
INVARIANTS TypeOK NeverTorn Durable
PROPERTIES StartsAgain ImplementsAtomicFile
