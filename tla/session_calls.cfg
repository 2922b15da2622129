CONSTANTS
  t1 = t1
  t2 = t2
  t3 = t3
  t4 = t4
  Callers = {t1, t2, t3, t4}
  NoCaller = NoCaller
  Plans <- MCPlans
  Objects = {"a", "b", "c", "d", "e", "f", "g", "x", "y"}
  Newcomers = {"x", "y"}
  Collections <- MCCollections
  Totals = {0, 1, 2, 3, 4, 5, 6, 7, 8}
  PageSize = 2
  MaxPages = 2
  MaxEdits = 2
SPECIFICATION Spec
INVARIANTS
  TypeOK
  CloseReleases
  OnlyRacesHurt
  PagesComplete
CHECK_DEADLOCK FALSE
