SPECIFICATION ListSpec
CONSTANTS
  Nodes = {n1, n2, n3, n4}
  Null = Null
INVARIANTS LinksSpellItems NoFault IteratorsVisitAll
CHECK_DEADLOCK FALSE
