CONSTANTS
  r1 = r1
  r2 = r2
  Requests <- MCRequests
  Outcomes <- MCOutcomesBackend5xx
  Accepted <- MCAccepted
  Audited = {"target", "requestCount", "elb5xx"}
SPECIFICATION Spec
INVARIANTS Elb5xxIsOwn
