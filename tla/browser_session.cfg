\* One tab, both transports.
SPECIFICATION FairSpec
CONSTANTS
    Tabs = {t1}
    Accounts = {a1, a2}
    Tenants = {x, y}
    a1 = a1
    a2 = a2
    x = x
    y = y
    None = None
    DefaultTenant = x
    Standing <- OneEach
    Leasable <- LeaseOfY
    Transports = {"cookie", "local"}
    MaxLogins = 2
    MaxIncidents = 1
    MaxRequests = 2
INVARIANTS TypeOK ShownDataMatchesContext ActsAsShown
PROPERTIES NewerSessionSurvives WaitingEnds LostTenantIsLeft
