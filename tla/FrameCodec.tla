------------------------------ MODULE FrameCodec -----------------------------
(***************************************************************************)
(* FrameCodec with its CRC-16/MODBUS, bit for bit, from one buffer over a  *)
(* line that may disturb one byte or lose the end of a frame, to decode(). *)
(* The buffer still holds what was in it before encode(), which does not   *)
(* write the last of the five header bytes it counts.  A byte or a word is *)
(* the set of its bits that are one, bit 0 the lowest.                     *)
(***************************************************************************)
EXTENDS Integers, Sequences

CONSTANTS
  MaximumPayload,
  Opcodes, PayloadBytes,    \* the bytes of frames that are sent
  StaleBytes,               \* what the buffer may hold before encode()
  Masks                     \* the bits of a byte the line may flip

ASSUME FrameAssumption ==
  /\ MaximumPayload \in Nat
  /\ Opcodes \cup PayloadBytes \cup StaleBytes \cup Masks \subseteq SUBSET (0 .. 7)
  /\ {} \notin Masks

VARIABLES
  sent,      \* the frame that was encoded
  wire,      \* the bytes on the line, none when no frame is on its way
  intact,    \* history: the line left the bytes alone
  decoded    \* what decode() gave: its status, "none" before it, and the frame

frameVars == <<sent, wire, intact, decoded>>

NoFrame == [opcode |-> {}, payload |-> <<>>]
Failure(status) == [status |-> status, frame |-> NoFrame]

FrameInit == sent = NoFrame /\ wire = <<>> /\ intact = TRUE /\ decoded = Failure("none")

-----------------------------------------------------------------------------
\* The bits of a number of one byte.
BitWeight == <<1, 2, 4, 8, 16, 32, 64, 128>>
Bits(n) == {i \in 0 .. 7 : (n \div BitWeight[i + 1]) % 2 = 1}

\* Exclusive or, and a shift to the right by one.
Xor(x, y) == (x \ y) \cup (y \ x)
Half(x) == {i - 1 : i \in x \ {0}}

\* One of the eight shifts of a byte; the polynomial is 0xA001.
Shift(crc) == IF 0 \in crc THEN Xor(Half(crc), {0, 13, 15}) ELSE Half(crc)

\* One byte of crc16_modbus(), and the bytes one after the other.
CrcByte(crc, byte) ==
  Shift(Shift(Shift(Shift(Shift(Shift(Shift(Shift(Xor(crc, byte)))))))))

Crc16(bytes) ==
  LET crc[i \in 0 .. Len(bytes)] == IF i = 0 THEN 0 .. 15 ELSE CrcByte(crc[i - 1], bytes[i])
  IN  crc[Len(bytes)]

HeaderSize == 5
CrcSize == 2
SyncWord == <<{0, 2, 5, 7}, {1, 3, 4, 6}>>    \* 0xA5, 0x5A

\* encode() into a buffer that held the byte stale behind the payload.
Encoded(frame, stale) ==
  LET body == SyncWord \o <<Bits(Len(frame.payload)), frame.opcode>> \o frame.payload
                \o <<stale>>
      crc  == Crc16(body)
  IN  body \o <<crc \cap 0 .. 7, {i - 8 : i \in crc \ 0 .. 7}>>

\* Mutant: the checksum is not compared.
CrcHoldsAlways(bytes) == TRUE

\* The checksum of a frame of the right size.
CrcHolds(bytes) ==
  LET n == Len(bytes)
  IN  Crc16(SubSeq(bytes, 1, n - CrcSize)) = bytes[n - 1] \cup {i + 8 : i \in bytes[n]}

\* decode(): the checks in the order of the code.  The length of the frame must be
\* the one that its third byte says.
Decoded(bytes) ==
  LET n == Len(bytes) - HeaderSize - CrcSize
  IN  IF n < 0 THEN Failure("invalid_argument")
      ELSE IF SubSeq(bytes, 1, 2) # SyncWord THEN Failure("nack")
      ELSE IF n > MaximumPayload \/ n > 255 \/ bytes[3] # Bits(n)
           THEN Failure("invalid_argument")
      ELSE IF ~CrcHolds(bytes) THEN Failure("io_error")
      ELSE [status |-> "ok",
            frame |-> [opcode |-> bytes[4], payload |-> SubSeq(bytes, 5, 4 + n)]]

-----------------------------------------------------------------------------
\* encode(); a frame that is too large for its buffer is refused and writes
\* nothing.
Encode(frame, stale) ==
  /\ wire = <<>> /\ decoded.status = "none" /\ intact
  /\ sent' = frame
  /\ wire' = Encoded(frame, stale)
  /\ UNCHANGED <<intact, decoded>>

\* The line flips bits of one byte, or loses the end.
Disturb ==
  /\ wire # <<>> /\ intact /\ decoded.status = "none"
  /\ \/ \E i \in DOMAIN wire, mask \in Masks : wire' = [wire EXCEPT ![i] = Xor(@, mask)]
     \/ \E n \in 0 .. Len(wire) - 1 : wire' = SubSeq(wire, 1, n)
  /\ intact' = FALSE
  /\ UNCHANGED <<sent, decoded>>

Decode ==
  /\ wire # <<>> \/ ~intact
  /\ decoded.status = "none"
  /\ decoded' = Decoded(wire)
  /\ UNCHANGED <<sent, wire, intact>>

\* The next frame.
Again ==
  /\ decoded.status # "none"
  /\ sent' = NoFrame /\ wire' = <<>> /\ intact' = TRUE /\ decoded' = Failure("none")

FrameNext ==
  \/ \E opcode \in Opcodes, n \in 0 .. MaximumPayload, stale \in StaleBytes :
       \E payload \in [1 .. n -> PayloadBytes] :
         Encode([opcode |-> opcode, payload |-> payload], stale)
  \/ Disturb \/ Decode \/ Again

FrameSpec == FrameInit /\ [][FrameNext]_frameVars

-----------------------------------------------------------------------------
\* Properties.

\* A frame that arrives intact decodes to itself, whatever the unwritten
\* header byte was; one that was disturbed is refused, wherever the line hit
\* it: in the sync word, the length, the opcode, the payload, the unwritten
\* byte or the checksum.  No disturbed frame is taken for another one.
FrameSurvives ==
  decoded.status # "none" =>
    IF intact THEN decoded = [status |-> "ok", frame |-> sent]
              ELSE decoded.status # "ok"
==============================================================================
