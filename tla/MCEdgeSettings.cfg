CONSTANTS
  Missing = Missing
  Levels <- MCLevels
  One = 3
  Onset = 2
  Offset = 1
  Requested <- MCRequested
SPECIFICATION SettingsSpec
PROPERTIES
  NeverRunsTorn
  
CHECK_DEADLOCK FALSE
