\* Two users, two calls; one address; a form left with its reset under way.
CONSTANTS
  Users = {ua, ub}
  Nil = Nil
  Calls = {c1, c2}
  Addresses = {a1}
  Known = {a1}
  Empty = Empty
  Resets = {r1, r2}
SPECIFICATION FairForms
INVARIANTS SpinnerIsCall CallSavesShown FilledFormHasUser SpinnerIsReset SuccessIsMailed
PROPERTY SpinnerEnds
