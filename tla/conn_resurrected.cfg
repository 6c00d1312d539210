SPECIFICATION Spec
CONSTANTS
    Tenants = {t1}
    Flows = {f1}
    Requests = {p1, p2}
    NoTenant = NoTenant
    NoFlow = NoFlow
    MayFail = FALSE
    MayCrash = FALSE
SYMMETRY Symmetry
INVARIANT DisconnectRemovesMetadata
