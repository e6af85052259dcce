\* One user (and nobody); an address, names and a picture are updated, all overlapping.
CONSTANTS
  Users = {ua}
  NoUser = NoUser
  WriteIds = {e1, n1, i1}
  EmailOps = {e1}
  InfoOps = {n1}
  ImageOps = {i1}
  Fields = {"email", "name", "url"}
  Values = {ua, e1, n1, i1}
  Absent = Absent
  MaxCredentials = 1
SPECIFICATION FairSpec
INVARIANTS AuthFollowsDocument UrlWasStored SuccessIsLanded
PROPERTY UpdateEnds
