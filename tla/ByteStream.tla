------------------------------ MODULE ByteStream -----------------------------
(***************************************************************************)
(* ByteWriter and ByteReader: numbers of one, two and four bytes, least    *)
(* byte first, written into a buffer and read back with the same layout.   *)
(* The client makes every write and looks at overflowed() at the end, and  *)
(* the end of the buffer may be lost on the way to the reader.             *)
(***************************************************************************)
EXTENDS Integers, Sequences

CONSTANTS
  ByteCapacity,    \* capacity_ of the writer
  Numbers,         \* [{1, 2, 4} -> the numbers of that width that are written]
  MaxWrites        \* bound on the writes of a client

\* The weight of each byte.
Weight == <<1, 256, 65536, 16777216>>

ASSUME StreamAssumption ==
  /\ ByteCapacity \in Nat /\ MaxWrites \in Nat
  /\ DOMAIN Numbers = {1, 2, 4}
  /\ \A w \in DOMAIN Numbers : \A v \in Numbers[w] : v \in Nat /\ v \div Weight[w] < 256

VARIABLES
  bytes,        \* data_ of the writer, up to position_
  overflow,     \* overflow_
  layout,       \* history: the writes the client made, as [width, value]
  size,         \* size_ of the reader, or -1 before there is one
  position,     \* position_ of the reader
  numbers       \* history: what the reader gave

streamVars == <<bytes, overflow, layout, size, position, numbers>>

StreamInit ==
  /\ bytes = <<>> /\ overflow = FALSE /\ layout = <<>>
  /\ size = -1 /\ position = 0 /\ numbers = <<>>

LittleEndian(v, w) == [i \in 1 .. w |-> (v \div Weight[i]) % 256]
FromBytes(bs) ==
  LET part(i) == IF i <= Len(bs) THEN bs[i] * Weight[i] ELSE 0
  IN  part(1) + part(2) + part(3) + part(4)

\* Mutant: a write that does not fit is not remembered.
WriteBytesSilent(bs) ==
  /\ bytes' = IF Len(bytes) + Len(bs) > ByteCapacity THEN bytes ELSE bytes \o bs
  /\ UNCHANGED overflow

\* write_bytes(): all or nothing; a smaller write may succeed after it.
WriteBytes(bs) ==
  IF Len(bytes) + Len(bs) > ByteCapacity THEN overflow' = TRUE /\ UNCHANGED bytes
                                         ELSE bytes' = bytes \o bs /\ UNCHANGED overflow

\* write_u8(), write_u16_le() and write_u32_le().
Write(w, v) ==
  /\ size < 0 /\ Len(layout) < MaxWrites
  /\ WriteBytes(LittleEndian(v, w))
  /\ layout' = Append(layout, [width |-> w, value |-> v])
  /\ UNCHANGED <<size, position, numbers>>

\* A reader is made of the first n bytes.
Transfer(n) ==
  /\ size < 0 /\ size' = n
  /\ UNCHANGED <<bytes, overflow, layout, position, numbers>>

\* read_u8(), read_u16_le() and read_u32_le(), as the layout has it; a read
\* that fails leaves the position.
ReadNumber ==
  LET w == layout[Len(numbers) + 1].width
  IN  /\ size >= 0 /\ Len(numbers) < Len(layout)
      /\ position + w <= size
      /\ numbers' = Append(numbers, FromBytes(SubSeq(bytes, position + 1, position + w)))
      /\ position' = position + w
      /\ UNCHANGED <<bytes, overflow, layout, size>>

\* The client is done, and the buffer is used again.
Reuse ==
  /\ size >= 0
  /\ bytes' = <<>> /\ overflow' = FALSE /\ layout' = <<>>
  /\ size' = -1 /\ position' = 0 /\ numbers' = <<>>

StreamNext ==
  \/ \E w \in DOMAIN Numbers : \E v \in Numbers[w] : Write(w, v)
  \/ \E n \in 0 .. Len(bytes) : Transfer(n)
  \/ ReadNumber \/ Reuse

StreamSpec == StreamInit /\ [][StreamNext]_streamVars

-----------------------------------------------------------------------------
\* Properties.

\* Unless overflowed() says so, the reader gives the very numbers the client
\* wrote, as far as they arrived, and from a whole buffer all of them: a write
\* that did not fit, followed by one that did, never goes unnoticed.
NumbersReadBack ==
  ~overflow =>
    /\ \A i \in DOMAIN numbers : numbers[i] = layout[i].value
    /\ size = Len(bytes) =>
         IF Len(numbers) < Len(layout)
         THEN position + layout[Len(numbers) + 1].width <= size
         ELSE position = size
==============================================================================
