\* A user who waits for every answer, a fault.
SPECIFICATION FairSpec
CONSTANTS
  ann = ann
  bob = bob
  Users <- TwoUsers
  Items = {"x", "y"}
  Folders <- OneFolder
  Parent <- TopParent
  Owner <- AnnsOwn
  Chunking = TRUE
  Patient = TRUE
  MaxClicks = 6
  MaxFaults = 1
INVARIANTS FiledWhereChosen PatientInv ShownAsItIs
PROPERTIES DroppedForCause Settles
