SPECIFICATION Spec
CONSTANTS
  k1 = k1
  k2 = k2
  kLong = kLong
  yes = yes
  no = no
  big = big
  Absent = Absent
  Bad = Bad
  Keys <- MCKeys
  KeyLength <- MCKeyLength
  Values <- MCValues
  ValueSize <- MCValueSize
  KeyCapacity = 24
  ValueCapacity = 64
  RecordCapacity = 2
  SeqModulus = 4
  LastSeq = 3
  MaxFaults = 2
  ReadFaults = FALSE
  MediaDecay = FALSE
  UncheckedBoot = FALSE
INVARIANT SlotInv
PROPERTY ImplementsStore
PROPERTY LoadsNewest
