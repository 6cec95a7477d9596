\* The parsed version and two candidates, with and without assets; an event
\* gets two dispatch attempts.
CONSTANTS
  MaxVersion = 3
  MaxDispatch = 2
SPECIFICATION FairSpec
INVARIANTS
  CopiesMatchResult
PROPERTIES
  CorrectionsAccumulate
  ImplementsParseLifecycle
  CandidateSettles
CHECK_DEADLOCK FALSE
