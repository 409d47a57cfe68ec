SPECIFICATION Spec
CONSTANTS
  Jobs = {nightly, rerun}
  AlertDays = {0}
  DEFAULT_RETENTION_DAYS = 3
  HIST_ALERT_MARGIN_DAYS = 2
  DETECTION_DAYS = 1
  MAX_DAYS = 4
INVARIANTS OneBatchPerNight
PROPERTIES PurgedDaysKeepTheirCount NightNeverLost
CHECK_DEADLOCK FALSE
SYMMETRY Symmetry
VIEW View
