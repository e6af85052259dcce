\* Two addresses, two attempts (which may use the same address).
CONSTANTS
  Users = {ua, ub}
  NoUser = NoUser
  WriteIds = {a1, a2}
  Fields = {info, url}
  Values = {a1, a2}
  Absent = Absent
  MaxCredentials = 2
SPECIFICATION FairSpec
INVARIANTS DocumentAfterImage SuccessIsComplete
PROPERTY AttemptEnds
