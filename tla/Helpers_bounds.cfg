SPECIFICATION Spec
CONSTANTS
  Secrets = {s1, s2}
  Payloads = {p1, p2}
  Steps = {15000, 30001}
  Skew = 1000
  Skews <- MCSkews
  Tolerances = {0, 60}
  Horizon = 215000
  None = None
  KeyLengths = {1, 127, 128, 300}
  DataLengths = {0, 2}
  Contexts = {"context"}
  Fills = {1, 255}
  Changes = {0, 1, 127, 128, 255}
  Absent = Absent
SYMMETRY Symmetry
INVARIANTS
  ReplayBounded
  RejectionsJustified
  EnvelopeOpens
CHECK_DEADLOCK FALSE
