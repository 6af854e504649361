SPECIFICATION Spec
CONSTANTS
  s1 = s1
  s2 = s2
  p = p
  q = q
  None = None
  Apis = {"api"}
  Notifier = "notifier"
  Slots = {s1, s2}
  Proposals = {p, q}
  Voting = {p}
  MaxFails = 1
SYMMETRY SlotSymmetry
INVARIANT NoInvention
PROPERTY HealedStaysHealed
