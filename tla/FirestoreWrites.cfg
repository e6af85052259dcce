\* Two users (and nobody), two writes, one credential change on their way.
CONSTANTS
  Users = {ua, ub}
  NoUser = NoUser
  WriteIds = {w1, w2}
  Fields = {f}
  Values = {w1, w2}
  Absent = Absent
  MaxCredentials = 1
SPECIFICATION FairSpec
INVARIANTS AwaitedIsQueued OkMeansLanded CalledBackOnce NoStaleOverwrite
PROPERTIES KeepsPromise QueueDrains
