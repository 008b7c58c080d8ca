SPECIFICATION FairSpec
CONSTANTS
  Component <- Names
  Path <- SmallDisk
  CONFIGS <- ConfigFiles
  IMAGES <- ImagesDir
  STAGING <- StagingDir
  Faults = {"opendir", "readdir", "unlink", "mkdir", "open", "write", "full", "close", "cut"}
INVARIANTS
  RemovalVerdictIsTrue
  WrittenIsWhole
  HandlesAreReturned
PROPERTIES
  OnlyTheTargetSuffers
  CallReturns
