\* Every failing call and a crash at any step, one rename per name.
SPECIFICATION Spec
CONSTANTS
  a = a
  b = b
  c = c
  ba = ba
  bb = bb
  bc = bc
  t1 = t1
  none = none
  None = none
  Editable <- MCEditable
  Spare <- MCSpare
  Tmp <- MCTmp
  Bak <- MCBak
  InitDisk <- MCInitDisk
  MaxFn = 2
  NInode = 7
  MaxText = 9
  MaxExits = 2
  RENAME = TRUE
  Tangle = FALSE
  RetryInPlace = FALSE
  DELETE = TRUE
  Reopen = FALSE
INVARIANTS
  TypeOK
  NameTable
  TextSurvives
  EditorKeeps
  SavedAll
  BackupKept
PROPERTIES
  PermanentLast
  SavingEnds
CHECK_DEADLOCK FALSE
