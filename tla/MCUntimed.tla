------------------------------ MODULE MCUntimed ------------------------------
(* The parts that know no time and share nothing: the offline queue, the   *)
(* event bus with a state machine, the frame codec, the JSON and byte      *)
(* serialization, the switch service, the pin interrupt, the security      *)
(* policy and the diagnostics.  They do not call each other, so each       *)
(* behaviour runs one of them, the subject.                                *)
EXTENDS OfflineQueue, EventBus, FrameCodec, JsonDocument, ByteStream, BinarySwitch,
        PinInterrupt, SecurityPolicy, Diagnostics

CONSTANTS m1, m2, mBig, c1, c2

VARIABLE subject

MCMessages == {m1, m2, mBig}
MCOversized == {mBig}
MCContexts == {c1, c2}

\* The machine answers the first "go" with "done", and passes on a second one.
MCTable ==
  <<[from |-> "idle", event |-> "go", to |-> "busy", publishes |-> "done"],
    [from |-> "busy", event |-> "done", to |-> "idle", publishes |-> "none"],
    [from |-> "busy", event |-> "go", to |-> "busy", publishes |-> "go"]>>

\* Frames of the bytes 0x00, 0x5A and 0xA5, and every disturbance of one byte.
MCOpcodes == {{0}}
MCPayloadBytes == {{}, {1, 3, 4, 6}}
MCStaleBytes == {{}, {0, 2, 5, 7}}
MCMasks == SUBSET (0 .. 7) \ {{}}

\* The check value of CRC-16/MODBUS: the digits 1 to 9 have the checksum 0x4B37.
ASSUME CrcCheckValue ==
  Crc16([i \in 1 .. 9 |-> Bits(48 + i)]) = Bits(55) \cup {i + 8 : i \in Bits(75)}

MCCharacters ==
  {"a", "b", Quote, Backslash, Colon, Comma, Space, Open, Close}
    \cup ToSet(Digits) \cup ToSet(True) \cup ToSet(False)

\* One key is the beginning of the other, and strings look like keys.
MCKeys == {<<"a">>, <<"a", "b">>}
MCStrings ==
  UNION {[1 .. n -> {"a", Quote, Backslash, Colon}] : n \in 0 .. 2}
    \cup {<<Quote, "a", Quote, Colon>>}
MCPeerDigits == {<<"2", "5">>, <<"2", "6">>, <<"3", "0">>, <<"1", "0", "0">>}
MCNumbers ==
  [w \in {1, 2, 4} |-> CASE w = 1 -> {7, 255} [] w = 2 -> {255, 256} [] OTHER -> {16909060}]

mcVars == <<subject, vars, busVars, frameVars, jsonVars, streamVars, switchVars, pinVars,
            policyVars, diagnosticsVars>>

Queue ==
  /\ subject = "queue" /\ Next
  /\ UNCHANGED <<subject, busVars, frameVars, jsonVars, streamVars, switchVars,
                 pinVars, policyVars, diagnosticsVars>>

Bus ==
  /\ subject = "bus" /\ BusNext
  /\ UNCHANGED <<subject, vars, frameVars, jsonVars, streamVars, switchVars,
                 pinVars, policyVars, diagnosticsVars>>

Codec ==
  /\ subject = "frame" /\ FrameNext
  /\ UNCHANGED <<subject, vars, busVars, jsonVars, streamVars, switchVars,
                 pinVars, policyVars, diagnosticsVars>>

Json ==
  /\ subject = "json" /\ JsonNext
  /\ UNCHANGED <<subject, vars, busVars, frameVars, streamVars, switchVars,
                 pinVars, policyVars, diagnosticsVars>>

Stream ==
  /\ subject = "bytes" /\ StreamNext
  /\ UNCHANGED <<subject, vars, busVars, frameVars, jsonVars, switchVars,
                 pinVars, policyVars, diagnosticsVars>>

Switch ==
  /\ subject = "switch" /\ SwitchNext
  /\ UNCHANGED <<subject, vars, busVars, frameVars, jsonVars, streamVars,
                 pinVars, policyVars, diagnosticsVars>>

Pin ==
  /\ subject = "pin" /\ PinNext
  /\ UNCHANGED <<subject, vars, busVars, frameVars, jsonVars, streamVars,
                 switchVars, policyVars, diagnosticsVars>>

Policy ==
  /\ subject = "policy" /\ PolicyNext
  /\ UNCHANGED <<subject, vars, busVars, frameVars, jsonVars, streamVars,
                 switchVars, pinVars, diagnosticsVars>>

Counting ==
  /\ subject = "diagnostics" /\ DiagnosticsNext
  /\ UNCHANGED <<subject, vars, busVars, frameVars, jsonVars, streamVars,
                 switchVars, pinVars, policyVars>>

\* The bus is not followed beyond MaxEvents.
Enough == subject = "bus" /\ published = MaxEvents /\ UNCHANGED mcVars

\* The buffers differ in size for the JSON documents only.
MCInit ==
  /\ subject \in {"queue", "bus", "frame", "json", "bytes", "switch", "pin", "policy",
                  "diagnostics"}
  /\ Init /\ BusInit /\ FrameInit /\ JsonInit /\ StreamInit /\ SwitchInit /\ PinInit
  /\ PolicyInit /\ DiagnosticsInit
  /\ subject # "json" => capacity = 8

MCNext ==
  \/ Queue \/ Bus \/ Codec \/ Json \/ Stream \/ Switch \/ Pin \/ Policy \/ Counting
  \/ Enough

MCSpec == MCInit /\ [][MCNext]_mcVars
==============================================================================
