\* A menu, and HelloWorld or any other module.
SPECIFICATION FairSpec
CONSTANTS
  Reentrant <- Interruptible
  MaxNested = 2
  MaxSets = 2
  Tool = {mine, elsewhere}
  Mine = mine
  Bad = Bad
  Exit = Exit
  Offset = {1}
  Screen = {s1, s2}
  MaxActive = 2
  MaxScopes = 2
INVARIANT
  TypeOK SettingLasts PickedIsInvoked
  NothingLeaks ScopesOwnScreens ScreensBalance
PROPERTIES CallEnds BodiesGoForward
