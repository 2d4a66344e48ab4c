SPECIFICATION Spec
CONSTANTS
  Effects = {e1, e2}
  Reasons = {r1, r2}
SYMMETRY Symmetry
PROPERTIES LostOnlyWithTheFile ImplementsPromise
