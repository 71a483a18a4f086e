SPECIFICATION Spec
CONSTANTS
    Incumbent = incumbent
    Candidate = candidate
    None = none
    MaxFailures = 2
    BaseBackoff = 1
    MaxBackoff = 2
    OpenCooldown = 1
    MaxTrips = 2
    Warmup = 2
    TickLength = 1
    MaxCrashes = 1
    MaxClicks = 1
    MaxToggles = 0
INVARIANTS
    UnverifiedNeverServes
