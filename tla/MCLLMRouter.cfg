SPECIFICATION FairSpec
CONSTANTS
    groq = groq
    gemini = gemini
    openrouter = openrouter
    Models = {groq, gemini, openrouter}
    Keyed = {groq, gemini}
    Roles <- MCRoles
    Chain <- MCChain
    Calls = {c1, c2}
    Cooldown = 2
    Horizon = 3
INVARIANTS
    TypeOK
    UnavailableIsEarned
PROPERTIES
    AsksOnlyRested
    ChainOrder
    CallEnds
