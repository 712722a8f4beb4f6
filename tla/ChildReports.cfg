\* A lead that writes twice to a child that reports twice, with up to two upsets; both
\* providers take in steers, and the child's takes tools.
SPECIFICATION FairSpec
CONSTANTS
  ChildSteers = {TRUE}
  Tools = {TRUE}
  LeadSteers = {TRUE}
  MaxMessages = 2
  MaxReports = 2
  MaxUpsets = 2
INVARIANTS TypeOK ToldOnce AnswersTheMessage OwedIsComing
PROPERTIES EveryMessageIsAnswered
CHECK_DEADLOCK FALSE
