SPECIFICATION CheckSpec
CONSTANTS
    Passwords = {p1, p2}
    NoPassword = NoPassword
    Weak = {p2}
    MaxChanges = 1
    MaxActs = 3
INVARIANTS
    ActiveIsTheMenus
CHECK_DEADLOCK FALSE
