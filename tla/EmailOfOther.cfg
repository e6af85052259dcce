\* Two users, one email update.
CONSTANTS
  Users = {ua, ub}
  NoUser = NoUser
  WriteIds = {e1}
  EmailOps = {e1}
  InfoOps = {}
  ImageOps = {}
  Fields = {"email", "name", "url"}
  Values = {ua, ub, e1}
  Absent = Absent
  MaxCredentials = 1
SPECIFICATION Spec
INVARIANT OnlyOwnEmail
