SPECIFICATION Spec
CONSTANTS
  Replicas = {rep1, rep2}
  Required = {var1, var2}
  Requests = {q1}
INVARIANTS TypeOK ServesOnSchema LogAgreesWithMetrics NeverMiscounted
PROPERTY ServesInTheEnd
