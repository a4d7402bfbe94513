CONSTANTS
    MaxObjects = 2
    MaxServices = 2
SPECIFICATION WithoutExit
CHECK_DEADLOCK FALSE
PROPERTIES
    SessionsSurviveSwitching
