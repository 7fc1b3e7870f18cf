CONSTANTS
    left = left
    right = right
    hand = hand
    twin = twin
    sound = sound
    empty = empty
    broken = broken
    Slots <- MCSlots
    Cards <- MCCards
    Candidates <- MCCandidates
    Theorems <- MCTheorems
    IllTyped = {broken}
    Vacuous = {empty}
    Corpus <- MCCorpus
    CorpusId <- MCCorpusId
    RepairTurns = 1
    MaxAttempts = 2
    Released = Released
    None = None
SPECIFICATION Spec
INVARIANTS SameTheoremSameId CertifiedIsProved DuplicateHasAHolder JudgedBesidePassed
