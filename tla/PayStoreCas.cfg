SPECIFICATION FairStoreSpec

CONSTANTS
    Writer = {w1, w2, w3}
    Blob <- Stores
    Mutation <- Mutators
    Effect <- Effects
    Threw = Threw
    Initial = {}
    MaxAttempts = 2

PROPERTIES
    MutationsAreAtomic
    CallsReturn
