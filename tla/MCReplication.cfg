SPECIFICATION Spec
CONSTANTS
    w1 = w1
    w2 = w2
    f1 = f1
    f2 = f2
    Writers = {w1, w2}
    Followers = {f1, f2}
    MaxLag = 1
    MaxTxn = 2
    Bounds <- Memberships
SYMMETRY Symmetry
INVARIANTS
    TypeOK
    NoGap
    LagCovers
