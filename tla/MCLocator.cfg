SPECIFICATION DbFairSpec
CONSTANTS
  MaxAge = 7
  MaxCrashes = 3
PROPERTIES  UpAgain
