SPECIFICATION MCSpec
CONSTANTS
  ALIGN = 4
  GROUP = 4
  CHUNK = 4
  MinBuckets = 16
  NExperts = 2
  Slack = 64
  c <- MCc
  Dirs <- MCDirs
  Names <- MCNames
  Sample <- MCSample
  Hashes <- MCHashes
  Bytes <- MCBytes
  Eos = {eos}
  Stops <- MCStops
  Gens = {1, 5}
  NL = 2
  PER = 1
  BASE = 2
INVARIANTS
  
  FindExact
  CountHonest
  TagTellsFormat
  
  StreamedEqualsLoaded
  NothingLeaks
  TextExact
  NoStopLeft
  StreamHonest
CHECK_DEADLOCK FALSE
