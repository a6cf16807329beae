SPECIFICATION Spec
CONSTANTS
  Names = {b1, b2}
  Settings = {s1, s2}
  Absent = Absent
  Malformed = Malformed
  MaxTasks = 4
  MaxWrites = 2
SYMMETRY NameSymmetry
INVARIANTS OneTaskEach NoTwins FollowsFile Forgotten
