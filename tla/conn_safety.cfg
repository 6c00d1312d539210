SPECIFICATION Spec
CONSTANTS
    Tenants = {t1, t2}
    Flows = {f1}
    Requests = {p1, p2}
    NoTenant = NoTenant
    NoFlow = NoFlow
    MayFail = TRUE
    MayCrash = TRUE
SYMMETRY Symmetry
INVARIANTS TenantIsolation ReferencesResolve LivePasswordAccounted DisconnectedCredentialGone IInv
PROPERTY AccountSpec
