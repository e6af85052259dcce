\* Two users (and nobody), up to three pending writes, two credential changes.
CONSTANTS
  u1 = u1
  u2 = u2
  Users = {u1, u2}
  Nobody = Nobody
  MaxPipeline = 2
  MaxPending = 3
  MaxChanges = 2
  MaxCloses = 2
SPECIFICATION FairSpec
INVARIANTS TokenIsUsers AnswersMatchPipeline AssertsHold NeverWedged WritesKeepTheirUser
PROPERTY PendingIsSent
CHECK_DEADLOCK FALSE
