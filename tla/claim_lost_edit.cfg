\* A form with two edits.
SPECIFICATION AutoSaveFairSpec
CONSTANTS
  MaxEdit = 2
  NoSave = NoSave
PROPERTY InactivityPersists
\* A user may stop for good.
CHECK_DEADLOCK FALSE
