----------------------------- MODULE JsonDocument ----------------------------
(***************************************************************************)
(* JsonWriter and JsonScanner on one buffer: a client writes an object and *)
(* looks only at what end_object() returned, then reads fields back.  A    *)
(* peer may have written a field too, with a number of any size.  Text is  *)
(* a sequence of characters, of which those that mean something to the     *)
(* scanner, some letters, the space and the digits are told apart.         *)
(***************************************************************************)
EXTENDS Integers, SequencesExt

CONSTANTS
  Characters,        \* the characters that are told apart
  JsonCapacities,    \* the capacities of buffers
  Keys,              \* the keys, as sequences of letters
  Strings,           \* the strings that are written, as sequences of characters
  U32s,              \* the numbers that are written
  U32Max,            \* 0xFFFFFFFF
  PeerDigits,        \* the numbers a peer writes, as sequences of digits
  MaxFields          \* bound on the fields of an object

Quote == "quote"
Backslash == "backslash"
Colon == "colon"
Comma == "comma"
Space == "space"
Open == "open"
Close == "close"
Digits == <<"0", "1", "2", "3", "4", "5", "6", "7", "8", "9">>
True == <<"t", "r", "u", "e">>
False == <<"f", "a", "l", "s", "e">>

\* A key is a name, and a number of the peer has a digit.
ASSUME JsonAssumption ==
  /\ JsonCapacities \subseteq Nat /\ U32Max \in Nat /\ U32s \subseteq 0 .. U32Max
  /\ MaxFields \in Nat
  /\ {Quote, Backslash, Colon, Comma, Space, Open, Close} \subseteq Characters
  /\ ToSet(Digits) \cup ToSet(True) \cup ToSet(False) \subseteq Characters
  /\ Keys \cup Strings \subseteq Seq(Characters)
  /\ \A k \in Keys : ToSet(k) \cap {Quote, Backslash, Colon, Space} = {}
  /\ PeerDigits \subseteq Seq(ToSet(Digits)) \ {<<>>}

VARIABLES
  capacity,      \* capacity_ of the writer
  text,          \* data_ up to position_
  first,         \* first_
  jsonOverflow,  \* overflow_
  stage,         \* "new", "open", then "closed" or "failed" as end_object() returned
  fields         \* history: the fields the client and the peer meant to write

jsonVars == <<capacity, text, first, jsonOverflow, stage, fields>>

JsonInit ==
  /\ capacity \in JsonCapacities /\ text = <<>> /\ first = TRUE /\ jsonOverflow = FALSE
  /\ stage = "new" /\ fields = <<>>

-----------------------------------------------------------------------------
\* JsonWriter.

\* put() of one character after the other, up to the first that fails.
Put(chars) ==
  LET room == capacity - Len(text)
  IN  IF Len(chars) <= room THEN text' = text \o chars /\ UNCHANGED jsonOverflow
      ELSE text' = text \o SubSeq(chars, 1, room) /\ jsonOverflow' = TRUE

BeginObject ==
  /\ stage = "new" /\ stage' = "open"
  /\ first' = TRUE /\ Put(<<Open>>)
  /\ UNCHANGED <<capacity, fields>>

\* field_prefix()
Prefix(key) == (IF first THEN <<>> ELSE <<Comma>>) \o <<Quote>> \o key \o <<Quote, Colon>>

\* The decimal digits of n.
Decimal(n) ==
  LET decimal[m \in 0 .. n] ==
        (IF m < 10 THEN <<>> ELSE decimal[m \div 10]) \o <<Digits[(m % 10) + 1]>>
  IN  decimal[n]

\* Mutant: a quote in a string is not escaped.
EscapedNot(s) == s

\* A string with its quotes and backslashes escaped.
Escaped(s) ==
  LET Char(c) == IF c \in {Quote, Backslash} THEN <<Backslash, c>> ELSE <<c>>
      escaped[i \in 0 .. Len(s)] == IF i = 0 THEN <<>> ELSE escaped[i - 1] \o Char(s[i])
  IN  escaped[Len(s)]

\* What a field function puts after the prefix.
Written(kind, value) ==
  CASE kind = "bool"   -> IF value = "true" THEN True ELSE False
    [] kind = "u32"    -> Decimal(value)
    [] kind = "string" -> <<Quote>> \o Escaped(value) \o <<Quote>>
    [] kind = "peer"   -> value

\* field_bool(), field_u32(), field_string(), and a field of the peer.
Field(key, kind, value) ==
  /\ stage = "open" /\ Len(fields) < MaxFields
  /\ Put(Prefix(key) \o Written(kind, value))
  /\ first' = FALSE
  /\ fields' = Append(fields, [key |-> key, kind |-> kind, value |-> value])
  /\ UNCHANGED <<capacity, stage>>

\* end_object() needs room for the terminator too.
EndObject ==
  /\ stage = "open"
  /\ text' = IF Len(text) < capacity THEN Append(text, Close) ELSE text
  /\ jsonOverflow' = (jsonOverflow \/ Len(text) + 1 >= capacity)
  /\ stage' = IF Len(text) + 1 < capacity THEN "closed" ELSE "failed"
  /\ UNCHANGED <<capacity, first, fields>>

\* The buffer is used for another object.
NewObject ==
  /\ stage \in {"closed", "failed"} /\ stage' = "new"
  /\ text' = <<>> /\ first' = TRUE /\ jsonOverflow' = FALSE /\ fields' = <<>>
  /\ UNCHANGED capacity

JsonNext ==
  \/ BeginObject \/ EndObject \/ NewObject
  \/ \E key \in Keys :
       \/ \E v \in {"true", "false"} : Field(key, "bool", v)
       \/ \E v \in U32s : Field(key, "u32", v)
       \/ \E v \in Strings : Field(key, "string", v)
       \/ \E v \in PeerDigits : Field(key, "peer", v)

JsonSpec == JsonInit /\ [][JsonNext]_jsonVars

-----------------------------------------------------------------------------
\* JsonScanner.

At(p, chars) == p + Len(chars) - 1 <= Len(text) /\ SubSeq(text, p, p + Len(chars) - 1) = chars
SkipSpace(p) == Min({q \in p .. Len(text) + 1 : q = Len(text) + 1 \/ text[q] # Space})

\* find_value(): behind the first quoted key that a colon follows; one more
\* than the size when there is none.
FindValue(key) ==
  LET AfterKey(p) == SkipSpace(p + Len(key) + 2)
      starts == {p \in DOMAIN text : /\ At(p, <<Quote>> \o key \o <<Quote>>)
                                     /\ At(AfterKey(p), <<Colon>>)}
  IN  IF starts = {} THEN Len(text) + 1 ELSE SkipSpace(AfterKey(Min(starts)) + 1)

\* A getter gives the set of the value it found, empty when it returns false.
Absent == {}

GetBool(key) ==
  LET p == FindValue(key)
  IN  IF At(p, True) THEN {"true"} ELSE IF At(p, False) THEN {"false"} ELSE Absent

\* The value of a digit.
DigitValue(c) == CHOOSE d \in 0 .. 9 : Digits[d + 1] = c

\* The number that is read from digits, one by one: one that grows too large is
\* refused before it would wrap.
Parsed(digits) ==
  LET parsed[i \in 0 .. Len(digits)] ==
        IF i = 0 THEN {0}
        ELSE LET digit == DigitValue(digits[i])
             IN  {10 * n + digit : n \in {m \in parsed[i - 1] : m <= (U32Max - digit) \div 10}}
  IN  parsed[Len(digits)]

GetU32(key) ==
  LET p == FindValue(key)
      IsDigit(q) == q <= Len(text) /\ text[q] \in ToSet(Digits)
      end == Min({q \in p .. Len(text) + 1 : ~IsDigit(q)})
  IN  IF IsDigit(p) THEN Parsed(SubSeq(text, p, end - 1)) ELSE Absent

\* What is read of a string from place p on, up to the quote that ends it.
Unescaped(start) ==
  LET unescaped[p \in 1 .. Len(text) + 1] ==
        IF p > Len(text) THEN Absent
        ELSE IF text[p] = Quote THEN {<<>>}
        ELSE LET c == IF text[p] = Backslash /\ p < Len(text) THEN p + 1 ELSE p
             IN  {<<text[c]>> \o rest : rest \in unescaped[c + 1]}
  IN  unescaped[start]

\* get_string() into a buffer of cap characters.
GetString(key, cap) ==
  LET p == FindValue(key)
  IN  IF At(p, <<Quote>>) THEN {v \in Unescaped(p + 1) : Len(v) < cap} ELSE Absent

-----------------------------------------------------------------------------
\* Properties.

\* The number that digits stand for.
Number(digits) ==
  LET number[i \in 0 .. Len(digits)] ==
        IF i = 0 THEN 0 ELSE 10 * number[i - 1] + DigitValue(digits[i])
  IN  number[Len(digits)]

\* An object whose end_object() returned true reads back field by field, the
\* first of two with the same key, although no other result was looked at: a
\* field that did not fit makes end_object() fail, quotes and backslashes in a
\* string do not make a key of what follows, and a number of the peer that is
\* too large is refused and not wrapped.  What was not written is not found.
FieldsReadBack ==
  stage = "closed" => \A key \in Keys :
    LET mine == {i \in DOMAIN fields : fields[i].key = key}
        f    == fields[Min(mine)]
    IN  IF mine = {}
        THEN GetBool(key) = Absent /\ GetU32(key) = Absent /\ GetString(key, capacity) = Absent
        ELSE CASE f.kind = "bool"   -> GetBool(key) = {f.value}
               [] f.kind = "u32"    -> GetU32(key) = {f.value}
               [] f.kind = "string" -> GetString(key, Len(f.value) + 1) = {f.value}
               [] f.kind = "peer"   -> GetU32(key) = {Number(f.value)} \cap 0 .. U32Max
==============================================================================
