CONSTANTS
    r1 = r1  r2 = r2
    s1 = s1  s2 = s2
    t1 = t1  t2 = t2
    f1 = f1  f2 = f2
    k1 = k1
    NULL = NULL
    Requests = {r1, r2}
    Sessions = {s1, s2}
    Tokens = {t1, t2}
    Authenticators = {f1, f2}
    RecoveryCodes = {k1}
    Mixes <- Families
    MaxFailures = 2
    MaxAnswers = 1
    MaxGuesses = 2
    MaxPasswords = 2
    MaxRequests = 3
SPECIFICATION Spec
SYMMETRY Symmetry
CHECK_DEADLOCK FALSE
INVARIANTS
    AdmittedWasAllowed
    FactorWasAsked
    TakenOnce
    GuessesAreLimited
PROPERTIES
    WithdrawnStaysOut
    LastFactorStays
