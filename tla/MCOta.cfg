SPECIFICATION Spec
CONSTANTS
  Offers <- MCOffers
  ImageSize = 1
  MaxPower = 1
  MaxFault = 1
  MaxWait = 1
  Faults = {"save", "read", "call", "stream", "operator"}
INVARIANTS
  OnlyVettedImagesValid
  ReportsComplete
PROPERTIES
  ReportsTrue
  EvidenceAdvances
  InstallationConcludes
CHECK_DEADLOCK FALSE
