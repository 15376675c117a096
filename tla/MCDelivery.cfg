SPECIFICATION DeliveryFairSpec
CONSTANTS
  Prefix = prefix
  Router = {0, 1, 2, 3}
  Name = {prefix}
  SetUps <- MCSetUps
  MaxNumber = 2
  MaxChanges = 5
  App = App
  Air = Air
INVARIANT DeliveryTypeOK
PROPERTIES EveryoneHears SettledAnswers
