CONSTANTS
  Actions <- MCActions
  Shown <- MCShown
  TicksPerSecond = 2
  MaxAge = 1
  MaxLifetime = 2
  MaxSecond = 2
SPECIFICATION Spec
INVARIANT ConsentIsToThisAction
INVARIANT OneActionPerConsent
INVARIANT ConsentIsRecent
INVARIANT JudgementsAgree
CHECK_DEADLOCK FALSE
