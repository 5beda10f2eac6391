\* The report of an only child against a replay of its parent.
SPECIFICATION Spec
CONSTANTS
  c1 = c1
  c2 = c2
  s1 = s1
  s2 = s2
  Children = {c1}
  Sweepers = {}
  Enter = Enter
  Group = Group
  None = None
INVARIANT ReportMeetsSuspend
