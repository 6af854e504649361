SPECIFICATION FairSpec
CONSTANTS
  s1 = s1
  s2 = s2
  p = p
  q = q
  None = None
  Apis = {"api"}
  Notifier = "notifier"
  Slots = {s1, s2}
  Proposals = {p, q}
  Voting = {p}
  MaxFails = 0
PROPERTY Heals
