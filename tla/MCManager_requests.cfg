\* Two overlapping requests and the refresher; liveness, no symmetry.
CONSTANTS
  None = None
  a1 = a1
  a2 = a2
  a3 = a3
  a4 = a4
  n1 = n1
  n2 = n2
  u1 = u1
  u2 = u2
  Adapters = {a1, a2, a3, a4}
  Names = {n1, n2}
  SelfIds = {u1, u2}
  NameOf <- MCNameOf
  AccountOf <- MCAccountOf
  Configured <- One
  Requests = {r1, r2}
SPECIFICATION FairSpec
CHECK_DEADLOCK FALSE
INVARIANTS
  TypeOK
  RouterAccounted
  LiveIsRouted
  DefaultRouted
  LiveIsForwarded
PROPERTIES
  ChangesKeepEntries
  RoutingConverges
