SPECIFICATION Spec
CONSTANTS
  e1 = e1  e2 = e2  a1 = a1  a2 = a2  a3 = a3  like = like  post = post
  t1 = t1  t2 = t2  w1 = w1  w2 = w2  r1 = r1  r2 = r2
  Effects = {e1, e2}
  Required = {e1, e2}
  Reasons = {"plain"}
  Authorities = {a1, a2, a3}
  EffectOf <- Proposals
  Tokens = {t1, t2}
  Keys = {like, post}
  Ceiling = {like}
  KeyOf <- Intents
  Rules = {r1, r2}
  Selects <- Scopes
  Writers = {w1, w2}
  MaxNow = 2
  Casts <- Stories
  ActionLimit = 1
  GlobalLimit = 2
  NoOne = NoOne
  NoKey = NoKey
  NoToken = NoToken
INVARIANTS VerdictStands VerdictOrOutcome FrozenFactPrevails
PROPERTIES BlocksEndWithFacts NoBlindReplay ConfirmationKnowsVerdicts
  RulesKeepTheirWord GateObeysOwner DoneIsNotRedone
CHECK_DEADLOCK FALSE
