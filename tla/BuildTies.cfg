SPECIFICATION Spec
CONSTANTS
  Editions = {e1, e2, e3}
  Lists <- MCLists
  JustFlags <- MCJustFlags
  Msvc = FALSE
  FirstEdition = e1
  OtherFlags = e3
  Builders = {"b1", "b2"}
  Cases <- MCRebuild
  MaxChanges = 1
  MaxUses = 2
CHECK_DEADLOCK FALSE
INVARIANTS
  TimingsTieToOneBinary
