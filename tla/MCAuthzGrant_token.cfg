SPECIFICATION GrantSpec
CONSTANTS
  n1 = n1
  n2 = n2
  u1 = u1
  Users = {u1, u2}
  Granter <- MCGranter
  Callers = {c1, w1}
  ApiCallers = {c1}
  SubmitNodes <- MCSubmitNodes
  Grants = {g1}
  MaxRequests = 1
  MaxCalls = 6
INVARIANTS TokenNamesGranter TokenForSucceededGrant
CHECK_DEADLOCK FALSE
