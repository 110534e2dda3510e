SPECIFICATION Spec
CONSTANTS
    Workers = {w1, w2, w3}
    Terms = {t1, t2}
    Incomplete = Incomplete
    NoVersion = NoVersion
SYMMETRY SigningSymmetry
INVARIANTS SignedTermsWereAccepted SameVersionSigned FinalizationIsSigned
CHECK_DEADLOCK FALSE
