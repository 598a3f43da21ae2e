SPECIFICATION Spec
CONSTANTS
    t1 = t1
    t2 = t2
    j1 = j1
    c1 = c1
    o1 = o1
    o2 = o2
    Absent = Absent
    Free = Free
    Indefinite = Indefinite
    Unset = Unset
    Tenants = {t1, t2}
    Jobs = {j1}
    Catalogs = {c1}
    Objects = {o1, o2}
    TenantOf <- MCTenantOf
    Prefix <- MCPrefix
    Contents = {"a"}
    MaxNow = 1
    Scanners = {"rpc", "cron"}
    Budgets <- MCBudgets
    DefaultPolicy <- MCPolicy
    Policies <- MCPolicies
    Scopes <- MCScopes
    Points = {1, 2}
INVARIANTS
    
    ReportedRunCoversBase
PROPERTIES
    HoldsAreHonoured
    RestoredIsThePoint
CHECK_DEADLOCK FALSE
