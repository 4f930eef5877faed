SPECIFICATION FairSpec
CONSTANTS
  MaxSize = 3
  Asked = {2}
INVARIANTS TypeOK NothingLeaks EdgesAlternate
PROPERTIES StateIsNoticed StatusIsKept
CHECK_DEADLOCK FALSE
