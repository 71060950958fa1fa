SPECIFICATION SpecToEnd
CONSTANTS
  j1 = j1
  j2 = j2
  j3 = j3
  Null = Null
  Jobs <- ThreeJobs
  Requests <- SyncResumeUpload
  Export <- SmallExport
  ChunkSize = 2
  Initial <- BothStarts
  WorkFaults <- AllWorkFaults
  MaxFaults = 1
INVARIANTS
  NoSyncLacksAParent
  CompleteUploadsAreAccepted
  CheckpointedStagesAreStored
  LaterRowsWin
  ResumedSyncsAreComplete
