CONSTANTS
    Devices = {d1, d2}
    Emails = {e1, e2}
    Slots = {s1, s2}
    Nobody = Nobody
SPECIFICATION Spec
SYMMETRY Symmetry
INVARIANTS
    TypeOK
    OneRole
    CustomerMenuIsEarned
    RolelessOnlyIfAbandoned
    MenuHasSession
