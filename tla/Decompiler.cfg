SPECIFICATION Spec
CONSTANTS
    Width = 2
    Fuel = 6
    MaxBlocks = 5
    Programs <- MCPrograms
    Entries <- MCEntries
CHECK_DEADLOCK FALSE
INVARIANTS
    
    SsaKeepsMeaning
    AncestorsDominate
    PhisSuffice
    EffectsAreShown
PROPERTIES
    CopiesKeepMeaning
    DominatorsSettle
