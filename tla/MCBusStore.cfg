SPECIFICATION Spec
CONSTANTS
  w1 = w1
  w2 = w2
  Writer = {w1, w2}
  Consumer = {c1}
  MaxUlid = 2
SYMMETRY Symmetry
INVARIANTS
  AnswersHold
  AtMostOnce
  NoLeakedFile
  RepairConverges
