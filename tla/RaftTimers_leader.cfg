SPECIFICATION Spec
CONSTANT MaxEvents = 6
PROPERTIES LeaderBeats LoopCampaigns
CHECK_DEADLOCK FALSE
