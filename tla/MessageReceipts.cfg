SPECIFICATION FairSpec
CONSTANTS
  m1 = m1
  m2 = m2
  s1 = s1
  s2 = s2
  s3 = s3
  x = x
  y = y
  Message = {m1, m2}
  Send = {s1, s2, s3}
  Content = {x, y}
  Nothing = Nothing
  MaxCrashes = 2
  MaxFaults = 1
INVARIANTS TypeOK AcceptedIsDelivered
PROPERTIES DeliveredOnce EverySendIsAnswered
