CONSTANTS
  Tabs = {"tab"}
  Catalogue <- Offer
  FirstRules <- CreatedWith
  Count = 2
  Numbers = {1}
  Scales = {}
  EndsAt = 1
  Times <- PublishTimes
  MaxEdits = 1
  MaxSaves = 1
  MaxEvents = 0
CHECK_DEADLOCK FALSE
SPECIFICATION Spec
PROPERTY
  RulesChangeWhileEditable
