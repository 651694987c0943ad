CONSTANTS
  Builds <- AllBuilds
  Tables <- ParsedTables
  Hash <- SmallHash
  Unsupported <- Refused
  Releases <- Shipments
  Legacy <- OldPayloads
  MaxCrashes = 1
  Bound <- BoundTables
SPECIFICATION Spec
INVARIANTS OutputsExact ManifestNeverDangles  
  NewerPayloadsExtend
