CONSTANTS
  r1 = r1
  r2 = r2
  r3 = r3
  r4 = r4
  r5 = r5
  NoRule = NoRule
  Rules <- MCRules
  DstHash <- MCDst
  SrcHash <- MCSrc
  T = 4
  E = 3
  Faults = {}
SPECIFICATION Spec
INVARIANTS IndexNeverDangles BackLinksAgree NothingLeaks
PROPERTY IsRuleSet
SYMMETRY MCSymmetry
