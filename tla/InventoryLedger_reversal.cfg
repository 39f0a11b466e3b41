SPECIFICATION Spec
CONSTANTS
  a1 = a1
  a2 = a2
  a3 = a3
  a4 = a4
  b1 = b1
  b2 = b2
  l1 = l1
  k1 = k1
  k2 = k2
  attrsA = attrsA
  attrsB = attrsB
  Bins = {b1, b2}
  Lots = {l1}
  LotAttributes = {attrsA, attrsB}
  Keys = {k1, k2}
  Attempts = {a1, a2, a3, a4}
  Requests <- ReversalRequests
SYMMETRY Symmetry
INVARIANTS
  ReversalsExact
PROPERTIES
  ImplementsLedger
