SPECIFICATION Spec
CONSTANTS
    Daemons = {d1, d2}
    MaxRoutes = 1
    MaxFaults = 1
    ScopedAtBoot = "on"
    Router = router
    Inferred = router
SYMMETRY ProcessIds
INVARIANTS BesideOnlyMissed DisabledLeavesMissed ScopedRecoverable TunnelCarries
