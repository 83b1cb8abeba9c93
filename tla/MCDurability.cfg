CONSTANTS
  i1 = i1
  r1 = r1
  b2 = b2
  b1 = b1
  Instances <- OneInstance
  Requests <- WriteAndBackups
  Backups <- TwoBackups
  NoSaver = NoSaver
  Boot = Boot
  Importer = Importer
SPECIFICATION FairSpec
INVARIANTS AckedDurable
PROPERTIES BootHeals RestoreKeepsRecord LogSpec RequestsAnswered
