SPECIFICATION Spec
CONSTANTS
    Requests = {r1, r2}
    Addresses = {home, work}
    Home = home
    NoAddress = noAddress
    MaxEnrollments = 2
    MaxLinks = 2
    CodesPerEnrollment = 1
SYMMETRY Symmetry
INVARIANT TypeOK
INVARIANT RecoveryCodeOnce
INVARIANT FactorIsTheConfirmedOne
INVARIANT LinkConfirmsItsAddress
CHECK_DEADLOCK FALSE
