CONSTANTS
  ann = ann
  bob = bob
  red = red
  blue = blue
  d1 = d1
  d2 = d2
  r1 = r1
  r2 = r2
  Students = {ann, bob}
  Groups = {red, blue}
  Drafts = {d1, d2}
  Requests = {r1, r2}
  NoStudent = NoStudent
  NoDraft = NoDraft
  NoGroup = NoGroup
  Settings <- Stages
  MaxVersion = 2
  MaxChanges = 2
SPECIFICATION Spec
SYMMETRY Symmetry
INVARIANTS
  VersionsContiguous
  OneWithoutResubmission
  CompletionFollowsWork
