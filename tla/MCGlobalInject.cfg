CONSTANTS
  s1 = s1
  s2 = s2
  n1 = n1
  n2 = n2
  c1 = c1
  c2 = c2
  Nobody = Nobody
  Sessions <- MCSessions
  Nodes <- MCNodes
  Calls <- MCCalls
  MaxKills = 1
  MaxWipes = 1
SPECIFICATION Spec
CHECK_DEADLOCK FALSE
INVARIANTS
  TypeOK
  UnpatchedOnlyByRace
  AnsweredOnce
PROPERTIES
  EventuallyAnswered
