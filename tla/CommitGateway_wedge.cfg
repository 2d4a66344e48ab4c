SPECIFICATION Spec
CONSTANTS
  e1 = e1  e2 = e2  e3 = e3  g1 = g1  g2 = g2
  Effects = {e1, e2}
  Grants = {g1}
  GrantOf <- OneGrant
  Fenced = {g1}
  Retried = {e2}
  Reasons <- GatewayReasons
  MaxAttempts = 2
  MaxTrips = 3
  MaxPolicies = 2
  MaxBorn = 2
  NoEffectId = NoEffectId
INVARIANT ExpiryCanClose
CHECK_DEADLOCK FALSE
