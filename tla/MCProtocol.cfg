CONSTANTS
    Credentials = {k1, k2}
    NoCredential = none
    Malformed = malformed
    Ids = {1, 2}
    MaxText = 3
    PasswordLength = 2
    MaxWindow = 4
SPECIFICATION Spec
SYMMETRY CredentialSymmetry
INVARIANTS TypeOK OneWindow TrueAnswers
PROPERTIES Independent
CHECK_DEADLOCK TRUE
