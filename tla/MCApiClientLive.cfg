SPECIFICATION ClientLiveSpec
CONSTANTS
    alice = alice
    bob = bob
    s1 = s1
    s2 = s2
    t1 = t1
    t2 = t2
    Users = {alice}
    PlatformUsers = {alice}
    Sessions = {s1}
    Owner <- MCOwner1
    Tenants = {t1, t2}
    TenantsOf <- MCTenantsOf1
    FirstTenant <- MCFirstTenant1
    Requests = {r1, r2}
    NoUser = NoUser
    NoSession = NoSession
    NoTenant = NoTenant
PROPERTIES RequestsSettle GuardDecides
