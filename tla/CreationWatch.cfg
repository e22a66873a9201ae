SPECIFICATION FairSpec
CONSTANTS
  r1 = r1
  r2 = r2
  c1 = c1
  c2 = c2
  c3 = c3
  s1 = s1
  i1 = i1
  i2 = i2
  w1 = w1
  a1 = a1
  Request = {r1}
  Call = {c1, c2}
  Sub = {s1}
  Intent = {i1, i2}
  Id = {w1, a1}
  Wants <- MCWants
  IdOf <- MCIdOf
  Runner = Runner
  Nobody = Nobody
  Torn = Torn
  MaxCrashes = 1
  MaxFaults = 1
INVARIANTS SeenIsDurable SeenIsCurrent
PROPERTIES SeenOnlyAdvances EffectsHappenOnce EveryoneIsAnswered
