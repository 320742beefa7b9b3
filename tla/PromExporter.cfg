SPECIFICATION ExporterSpec
CONSTANTS
  Samples <- MCSamples
  TagNames = {"a", "b", "method", "path"}
  MaxSerial = 4
INVARIANTS
  LabelsAgree
  RegistryFollowsCache
CHECK_DEADLOCK FALSE
