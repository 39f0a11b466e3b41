SPECIFICATION Spec
CONSTANTS
  c1 = c1
  c2 = c2
  c3 = c3
  a1 = a1
  a2 = a2
  d1 = d1
  o1 = o1
  t1 = t1
  s1 = s1
  e1 = e1
  buyer = buyer
  seller = seller
  k1 = k1
  k2 = k2
  Calls = {c1, c2, c3}
  Earlier = {a1, a2, d1, o1, t1, s1, e1, buyer, seller}
  Keys = {k1, k2}
  DefaultBuckets = "30-60"
  Beginnings <- RecordsBeginnings
  Commands <- RecordsCommands
INVARIANTS
  TypeInv
  PrimaryIsLastChosen
  OutboxTellsRecords
  AnswersAreTrue
  KeysTakeEffectOnce
