\* Two tabs of one browser, one Account with two Tenants.
SPECIFICATION Spec
CONSTANTS
    Tabs = {t1, t2}
    Accounts = {a1}
    Tenants = {x, y}
    a1 = a1
    a2 = a2
    x = x
    y = y
    None = None
    DefaultTenant = x
    Standing <- BothOpen
    Leasable = {}
    Transports = {"cookie"}
    MaxLogins = 1
    MaxIncidents = 0
    MaxRequests = 2
INVARIANT ShownDataMatchesContext
