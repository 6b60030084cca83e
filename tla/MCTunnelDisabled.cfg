SPECIFICATION Spec
CONSTANTS
    Daemons = {d1}
    MaxRoutes = 1
    MaxFaults = 0
    ScopedAtBoot = "on"
    Router = router
    Inferred = router
INVARIANT DisabledMeansDown
