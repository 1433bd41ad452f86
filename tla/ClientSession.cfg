CONSTANTS
    Tabs = {a}
    MaxToken = 2
    Attempts = 2
    RefreshLost = TRUE
SPECIFICATION FairSpec
INVARIANTS
    TypeOK
    ReloadFindsTheToken
PROPERTIES
    OnlyDeadTokensAreRefreshed
    
    EveryCallSettles
