\* Two addresses, one attempt.
CONSTANTS
  Users = {ua, ub}
  NoUser = NoUser
  WriteIds = {a1}
  Fields = {info, url}
  Values = {a1}
  Absent = Absent
  MaxCredentials = 2
SPECIFICATION Spec
INVARIANT AccountsComplete
