\* A user who does not wait: answers out of order, folders opened twice, an upload that
\* moves to another folder, a login that goes on after the logout.
\* TLC stops at the first of these; with the others alone, it finds each violated.
SPECIFICATION Spec
CONSTANTS
  ann = ann
  bob = bob
  Users <- OneUser
  Items = {"x"}
  Folders <- OneFolder
  Parent <- TopParent
  Owner <- AnnsOwn
  Chunking = TRUE
  Patient = FALSE
  MaxClicks = 4
  MaxFaults = 0
INVARIANTS ShownIsCurrent BreadcrumbIsPath FiledWhereChosen AppNeedsToken
