\* Any two requests of the six kinds race, over a table that holds any accounts
\* at first and has room for two.
CONSTANTS
    Account = {a1, a2}
    Email = {e1, e2}
    Username = {u1, u2}
    Name = {n1}
    Password = {p1, p2}
    Nothing = Nothing
    Client = {c1}
    Request = {r1, r2}
    Faults = {"db", "net"}
SPECIFICATION Spec
SYMMETRY Symmetry
INVARIANTS
    ConflictIsReal
    AnsweredProfileIsAsked
    PasswordWasKnown
    SessionIsEarned
PROPERTIES
    OnlyAskedChanges
    NewPasswordHolds
