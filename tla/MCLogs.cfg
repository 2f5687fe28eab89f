\* Every older version, two processes, a death, a failing write.
CONSTANTS
  ls = ls  e1 = e1  d1 = d1
  Commands = {ls}
  AllCommands = AllCommands
  Decisions = {d1}
  CommandOf <- OneDecision
  LegacyLogs = {e1}
  LegacyRows <- Tables
  LegacySettings <- Choices
  Versions = {0, 2, 3, 4, 5}
  MaxKills = 1
  MaxFaults = 1
  MaxChanges = 1
  Unset = Unset
  None = None
SPECIFICATION FairSpec
INVARIANTS TypeOK EntriesKept SettingKept NewestKept ReportedAsAsked
PROPERTIES UpgradeEnds
CHECK_DEADLOCK FALSE
