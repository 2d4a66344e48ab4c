SPECIFICATION Spec
CONSTANTS
  Effects = {e1, e2}
  Reasons = {r1}
INVARIANT AckedSurvives
