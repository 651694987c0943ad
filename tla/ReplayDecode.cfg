CONSTANTS
  Decodes = {d1}
  Files = {replay, pipe}
  Seekable = {replay}
  NoFile = NoFile
  Order <- ThreeSections
  MaxCalls = 2
SPECIFICATION FairSpec
INVARIANTS ReplayComplete StreamsSettled CancellationHonoured
 
\* Files come and go for ever, so nothing stops.
