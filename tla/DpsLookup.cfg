SPECIFICATION FairSpec
CONSTANTS
  s1 = s1
  Session = {s1}
  Gen = Gen
  Keeper = Keeper
  None = None
INVARIANTS IInv
PROPERTIES PriorityUnlessPassed LookupsEnd
CHECK_DEADLOCK FALSE
