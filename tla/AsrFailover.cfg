\* The boundaries of the three thresholds and the values below them.
SPECIFICATION Spec
CONSTANT
  Scores = {54, 55, 62, 70, 75, 82, 88}
INVARIANT
  FailsOver
