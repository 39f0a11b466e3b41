SPECIFICATION Spec
CONSTANTS
  c1 = c1
  c2 = c2
  c3 = c3
  i1 = i1
  alex = alex
  blair = blair
  casey = casey
  casper = casper
  k1 = k1
  k2 = k2
  s1 = s1
  s2 = s2
  Calls = {c1, c2, c3}
  Earlier = {i1}
  People = {alex, blair, casey, casper}
  Emails = {alex, blair, casey}
  EmailOf <- AdminEmailOf
  Slugs = {s1, s2}
  Keys = {k1, k2}
  Lapsing = {i1}
  Beginnings <- AdminBeginnings
  Commands <- RaceCommands
INVARIANTS
  AlwaysAnAdministrator
