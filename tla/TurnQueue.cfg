\* Two messages and three upsets: all that people, children and the provider can do to
\* a thread, three at a time.
CONSTANTS
  MaxTexts = 2
  MaxUpsets = 3
  Upsets = {"schedule", "settings", "relay", "place", "steer", "compact", "task",
            "death", "withdraw", "callback", "move", "archive"}
SPECIFICATION FairSpec
INVARIANTS TypeOK  SaidOnce OneSubmission WorkingIsReal TimersAreSet
PROPERTIES EveryMessageSettles
CHECK_DEADLOCK FALSE
