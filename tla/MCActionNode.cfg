CONSTANTS
  Clock = 6
  Day = 2
  Wiring = "3relay"
  Uploads <- MCUploads
  Orders <- MCOrders
  Durations <- MCDurations
  Readings <- MCReadings
SPECIFICATION FairSpec
INVARIANTS OverrideTimed
PROPERTIES SettingsSurvive LatchFollows
