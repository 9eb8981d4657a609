\* Two processes, two drafts, three clarifications, two reviews, one crash.
SPECIFICATION Spec
CONSTANTS
  Procs = {p1, p2}
  NoProc = NoProc
  Drafts = {d1, d2}
  NoDraft = NoDraft
  Modes = {"request", "direct"}
  Audits = {a1, a2}
  Unplannable = {d2}
  MaxRounds = 3
  MaxReviews = 2
  MaxCrashes = 1
INVARIANTS FrozenIsApproved CancelledStaysUnfrozen OneReviewLine
PROPERTIES DecisionMeetsItsQuestion
CHECK_DEADLOCK FALSE
SYMMETRY Interchangeable
