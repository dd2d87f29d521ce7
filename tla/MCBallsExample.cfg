\* Two balls with two states; the three messages of frames 0 to 2 arrive in any
\* order and any number of times, two waiting at most.
SPECIFICATION Spec
CONSTANTS
  Ball = {b1, b2}
  State = {s1, s2}
  NoBall = NoBall
  MaxFrame = 3
  QueueSize = 2
SYMMETRY Symmetry
INVARIANTS
  TypeOK
  OneEntityPerBall
  ShowsNewest
