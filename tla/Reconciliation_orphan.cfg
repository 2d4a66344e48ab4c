SPECIFICATION RecoverySpec
CONSTANTS
  e1 = e1  a1 = a1  a2 = a2
  Effects = {e1}
  Required = {e1}
  Reasons = {"plain"}
  Authorities = {a1, a2}
  EffectOf <- OneEffect
  Tokens = {}
  NoOne = NoOne
INVARIANT VerdictHasItsEffect
CHECK_DEADLOCK FALSE
