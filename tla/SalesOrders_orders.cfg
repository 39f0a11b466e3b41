SPECIFICATION Spec
CONSTANTS
  c1 = c1
  c2 = c2
  c3 = c3
  e1 = e1
  e2 = e2
  beer = beer
  main = main
  k1 = k1
  k2 = k2
  Calls = {c1, c2, c3}
  Earlier = {e1, e2}
  Keys = {k1, k2}
  Variants = {beer}
  Warehouses = {main}
  Lapsing = {e1}
  Beginnings <- SalesBeginnings
  LineLists <- SalesLines
  MaxUnits = 2
  Commands <- SalesCommands
INVARIANTS
  TypeInv
  BooksAgree
  AnswersAreTrue
PROPERTIES
  ReservationsWithinStock
  LifecycleForward
