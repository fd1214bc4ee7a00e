SPECIFICATION Spec
CONSTANTS
  k1 = k1
  k2 = k2
  kLong = kLong
  yes = yes
  no = no
  big = big
  Absent = Absent
  Bad = Bad
  Keys <- MCKeys
  KeyLength <- MCKeyLength
  Values <- MCValues
  ValueSize <- MCValueSize
  KeyCapacity = 24
  ValueCapacity = 64
  RecordCapacity = 1
  SeqModulus = 3
  LastSeq = 3
  MaxFaults = 2
  ReadFaults = TRUE
  MediaDecay = TRUE
  UncheckedBoot = TRUE
INVARIANT OneFaultKeepsAConfiguration
PROPERTY RamTableSurvivesFailures
