SPECIFICATION Spec
CONSTANTS
    n1 = n1
    p1 = p1
    p2 = p2
    r1 = r1
    r2 = r2
    Names <- MCNames
    Passwords <- MCPasswords
    Callers <- MCCallers
    MaxAccounts = 2
INVARIANTS
    EncFollowsHash
    KnownPasswordsOnly
    ChangesKnowThePassword
    AdmittedWereEnabled
SYMMETRY MCSymmetry
