\* Every caller, build and setting; tables of two rows; the policy may change once.
CONSTANTS
  Command = "ls"
  AllCommands = ""
  Uids = {0, 2000, 10001, 10050, 1010001, 1010050}
  Shell = 2000
  Superuser = 10001
  Devices <- AllDevices
  Tables <- AllTables
  MaxRows = 2
  Now = 5
  MaxChanges = 1
SPECIFICATION Spec
INVARIANTS TypeOK FreePass DisabledHolds OwnerInControl VerdictOfRows ToldOnce
CHECK_DEADLOCK FALSE
