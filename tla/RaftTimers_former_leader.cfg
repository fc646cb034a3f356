SPECIFICATION Spec
CONSTANT MaxEvents = 3
PROPERTY Campaigns
CHECK_DEADLOCK FALSE
