SPECIFICATION Spec
CONSTANTS
  Users = {u1}
  Requests = {p1, p2}
  MaxSecond = 1
  MaxRecordings = 2
  MaxBatches = 2
  MaxFaults = 1
  None = None
INVARIANTS
  TypeOK
  RecordingsHaveFiles
  MinutesWereSaved
  OneMail
PROPERTIES
  MinutesAreFinal
