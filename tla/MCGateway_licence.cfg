\* A supported and an unsupported request, two processes, an approval and a
\* cancellation, two answers of the search, two crashes, upgrades.
CONSTANTS
  Procs = {p1, p2}
  Requests = {flat, odd}
  NoRequest = NoRequest
  Supported = {flat}
  Builds = {b1, b2}
  Actions <- ApproveOrCancel
  References = {c1, c2}
  NoReference = NoReference
  Pages = {d1, d2}
  NoPage = NoPage
  Unfit = {d2}
  MaxCrashes = 2
SPECIFICATION FairSpec
INVARIANTS ExecutionsAreLicensed ResultIsServable
PROPERTIES KeepsLicence AskedIsSettled
CHECK_DEADLOCK FALSE
