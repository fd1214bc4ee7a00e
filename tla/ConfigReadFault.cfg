SPECIFICATION Spec
CONSTANTS
  k1 = k1
  k2 = k2
  kLong = kLong
  yes = yes
  no = no
  big = big
  Absent = Absent
  Bad = Bad
  Keys <- MCKeys
  KeyLength <- MCKeyLength
  Values <- MCValues
  ValueSize <- MCValueSize
  KeyCapacity = 24
  ValueCapacity = 64
  RecordCapacity = 1
  SeqModulus = 4
  LastSeq = 3
  MaxFaults = 1
  ReadFaults = TRUE
  MediaDecay = FALSE
  UncheckedBoot = FALSE
PROPERTY LoadsNewest
