CONSTANTS
    Callers = {c1, c2}
    Credentials = {k1, k2}
    NoCredential = none
    Malformed = malformed
    ChallengeTimeout = 2
    SessionTimeout = 2
    FailureCountMax = 2
    CooldownMax = 2
    MaxTime = 4
    MaxNonces = 3
    MaxLoads = 2
SPECIFICATION Spec
SYMMETRY CallerSymmetry
INVARIANTS TypeOK OneShotChallenge SessionProvesCredential StorageAgrees
PROPERTIES FailureSpacing NeverReopens ImplementsGate
CHECK_DEADLOCK TRUE
