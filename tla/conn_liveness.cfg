SPECIFICATION FairSpec
CONSTANTS
    Tenants = {t1}
    Flows = {f1}
    Requests = {p1, p2}
    NoTenant = NoTenant
    NoFlow = NoFlow
    MayFail = FALSE
    MayCrash = TRUE

PROPERTIES OrphansSwept PendingEnds
