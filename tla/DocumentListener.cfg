\* Two users or two view models, two writes of one field each, three versions.
CONSTANTS
  v1 = v1
  v2 = v2
  w1 = w1
  w2 = w2
  ua = ua
  Users = {ua, ub}
  ViewModels = {v1, v2}
  WriteIds = {w1, w2}
  Fields = {f, g}
  Absent = Absent
  Missing = Missing
  Unknown = Unknown
  MaxVersions = 3
SPECIFICATION FairSpec
INVARIANTS TypeOK UserFollowsView CacheIsVersion
PROPERTIES NoGoingBack ViewCatchesUp FirstEventComes
