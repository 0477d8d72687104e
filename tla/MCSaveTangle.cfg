\* A file is given the old name of a renamed one.
SPECIFICATION Spec
CONSTANTS
  a = a
  b = b
  c = c
  ba = ba
  bb = bb
  bc = bc
  t1 = t1
  none = none
  None = none
  Editable <- MC3Editable
  Spare <- MC3Spare
  Tmp <- MCTmp
  Bak <- MC3Bak
  InitDisk <- MC3InitDisk
  MaxFn = 2
  NInode = 9
  MaxText = 9
  MaxExits = 1
  RENAME = TRUE
  Tangle = TRUE
  RetryInPlace = FALSE
  DELETE = TRUE
  Reopen = FALSE
INVARIANT
  SavedAll
CHECK_DEADLOCK FALSE
