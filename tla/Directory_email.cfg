SPECIFICATION Spec
CONSTANTS
  Chapter = {c1, c2}
  Brotherhood = {b1}
  Window = {w1, w2}
  Zone = {z1, z2}
  Typed = {"matching","other"}
  NoZone = NoZone
  NoActor = NoActor
INVARIANT EmailsMatch
CHECK_DEADLOCK FALSE
