SPECIFICATION Spec
CONSTANTS
  Replicas = {rep1}
  Required = {var1}
  Requests = {q1}
INVARIANT CodeIsSent
