SPECIFICATION KeysSpec
CONSTANTS
    None = None
    NoUser = NoUser
    NoKey = NoKey
    Users = {u1}
    Roles = {"customer"}
    Passwords = {p1}
    Edits = {e1}
    Keys = {k1, k2, k3}
    Rotations = {a1, a2}
    Calls = {c1}
    KeyTtl = 2
INVARIANT
    OneActiveKey
