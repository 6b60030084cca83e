SPECIFICATION FairSpec
CONSTANTS
    Daemons = {d1}
    MaxRoutes = 2
    MaxFaults = 1
    ScopedAtBoot = "on"
    Router = router
    Inferred = router
PROPERTIES OperationEnds Reconnects
