\* Two accounts, two calls in flight, two listeners; any token may be revoked.
CONSTANTS
  Users = {ua, ub}
  NoUser = NoUser
  Never = Never
  Requests = {r1, r2}
  Revocable = {ua, ub}
  MaxListeners = 2
  MaxQueue = 2
SPECIFICATION MCFairSpec
INVARIANTS TypeOK SessionConverges SpinnerHasCauseUnrevoked
PROPERTIES ImplementsObservedUser ScreenFollows
