SPECIFICATION ViewsSpec
CONSTANTS
  o = o  e = e  s = s  t = t  c = c  p = p  q = q  r = r
  Unknown = u
  Absent = Absent
  Config <- MCConfig
  Explicit = {t}
  Votings <- MCVotings
  Epoch = 4
  Lengths = {1, 4, 7}
  MaxEpoch = 4
  MaxItems = 3
  MaxVotes = 6
  MaxPower = 1
INVARIANTS
  FieldsAnswered
  AnswersAddUp
  ReadsAgree
