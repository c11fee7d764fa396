SPECIFICATION SumSpec
CONSTANTS
  Chapter = {c1, c2}
  Brotherhood = {b1}
  Window = {w1, w2}
  Zone = {z1, z2}
  Typed = {"matching"}
  NoZone = NoZone
  NoActor = NoActor
  Parade = {p1}
  CacheTimes = {1, 2}
  ResultLimits = {0, 1}
  MaxTime = 2
  NoMoment = NoMoment
  Text = {x1, x2}
  MaxId = 3
  NoRecord = NoRecord
  Box = {m1, m2, m3, m4}
  BoxWindow = {w1}
  Top = Top
  NoBox = NoBox
INVARIANTS RecordsTypeOK OwnersHaveAZone OneInception EachListedOnce EveryBoxReached
PROPERTIES DeciderStays YoungResultsStand ExpiredGo
CHECK_DEADLOCK FALSE
