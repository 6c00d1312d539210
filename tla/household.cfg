SPECIFICATION Spec
CONSTANTS
    alice = alice c1 = c1
    Tenants = {alice, bob}
    Connections = {c1, c2}
    Owner <- OneOwner
    Roots = {r1}
    household = household archive = archive reviews = reviews
    Names <- Segments
    Layouts <- TwoLayouts
    Hashes = {h1}
    ProfileIds = {id1, id2}
    Requests = {p1, p2}
    NoPlace = NoPlace
SYMMETRY Symmetry
INVARIANTS
    OneProfilePerConnection ProfileHasConnection OneAccountPerCall
    TenantsApart SavedAnswerHolds ConflictsBounded
CONSTRAINT OneConnectionWrites
CHECK_DEADLOCK FALSE
