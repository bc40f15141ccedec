SPECIFICATION GrantSpec
CONSTANTS
  n1 = n1
  n2 = n2
  u1 = u1
  Users = {u1}
  Granter <- MCGranter
  Callers = {c1, w1}
  ApiCallers = {c1}
  SubmitNodes <- MCSubmitNodes
  Grants = {g1}
  MaxRequests = 2
  MaxCalls = 11
INVARIANT SecondNodeDiffers
CHECK_DEADLOCK FALSE
