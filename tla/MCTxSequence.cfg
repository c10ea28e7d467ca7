SPECIFICATION FairSpec
CONSTANTS
  MaxSeq = 5
  Fees = {"auto", "explicit"}
  Events = {"external", "evicted", "lost", "released"}
  None = None
INVARIANTS EntryExact NoSelfCollision EstimateIsSigned
PROPERTY ExplicitFeesHeal
