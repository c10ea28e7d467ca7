SPECIFICATION FairSpec
CONSTANTS
  MaxSeq = 4
  Fees = {"auto"}
  Events = {"external"}
  None = None
PROPERTY DriftHeals
