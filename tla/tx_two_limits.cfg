\* A caller's own compute-unit limit.
SPECIFICATION Spec
CONSTANTS
  Requests <- SomeRequests
  Responses <- SomeResponses
  Failed = failed
  MaxTries = 2
INVARIANT OneLimit
