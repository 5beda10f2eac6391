\* Two children, two sweepers, row locks and snapshots.
SPECIFICATION Spec
CONSTANTS
  c1 = c1
  c2 = c2
  s1 = s1
  s2 = s2
  Children = {c1, c2}
  Sweepers = {s1, s2}
  Enter = Enter
  Group = Group
  None = None
SYMMETRY ChildSymmetry
INVARIANT TypeOK
INVARIANT NoLostWakeup
INVARIANT RemainingCounts
