\* Two attempts of an LLM job with an initial call and two repairs each, or two of a
\* job that embeds; a budget for two calls of one operation, one permit, and a breaker
\* that opens at the first failure.
SPECIFICATION Spec
CONSTANTS
  Works = {extraction, batch}
  Embeddings = {batch}
  MaxAttempts = 2
  NoCall = NoCall
  Size <- MCSize
  Calls <- MCCalls
  Repairs = 2
  MaxTotal = 2
  Concurrency = 1
  FailureLimit = 1
INVARIANTS
  WithinLimits
  OneRunCalls
PROPERTIES
  OnlyProbeCloses
  CallsSettle
CHECK_DEADLOCK FALSE
