SPECIFICATION ClientSpec
CONSTANTS
    alice = alice
    bob = bob
    s1 = s1
    s2 = s2
    t1 = t1
    t2 = t2
    Users = {alice, bob}
    PlatformUsers = {alice}
    Sessions = {s1, s2}
    Owner <- MCOwner
    Tenants = {t1, t2}
    TenantsOf <- MCTenantsOf
    FirstTenant <- MCFirstTenant
    Requests = {r1, r2}
    NoUser = NoUser
    NoSession = NoSession
    NoTenant = NoTenant
SYMMETRY Symmetry
INVARIANTS IdentityPerLoad LogOutStands TokensTogether
