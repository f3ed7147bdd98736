SPECIFICATION Spec
CONSTANTS
    Users = {u1, u2}
    Rows = {r1, r2}
    Codes = {p1}
    Admins = {a1}
    Totals = {1, 2}
    PerUser = 1
    MaxPaid = 2
    NoUser = NoUser
    NoCode = NoCode
    NotBegun = NotBegun
    Done = Done
SYMMETRY Symmetry
INVARIANTS
    TypeOK
    CountersTrue
    CodesCredited
    LiveAsReviewed
PROPERTY
    NeverOverIssued
