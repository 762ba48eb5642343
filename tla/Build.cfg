SPECIFICATION Spec
CONSTANTS
  Editions = {e1, e2, e3}
  Lists <- MCLists
  JustFlags <- MCJustFlags
  Msvc = FALSE
  FirstEdition = e1
  OtherFlags = e3
  Builders = {"b1", "b2"}
  Cases <- MCCases
  MaxChanges = 2
  MaxUses = 1
CHECK_DEADLOCK FALSE
INVARIANTS
  VerifiedIsBuilt
  ReportedFlags
  NoFalseRefusal
