CONSTANTS
  loop = loop
  checker = checker
  tally = tally
  gracefulexit = gracefulexit
  NoErr = NoErr
  Slots = {loop, checker, tally, gracefulexit}
  Optional = {gracefulexit}
  LaunchOrder <- MCLaunchOrder
SPECIFICATION Spec
INVARIANT FailuresNotLost
