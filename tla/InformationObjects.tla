------------------------- MODULE InformationObjects -------------------------
(***************************************************************************)
(* How information objects become bytes: one definition per object type of *)
(* cs101_information_objects.c (its _encode, _create, getters and          *)
(* _getFromBuffer), built from the few kinds of fields they share.  An     *)
(* object is its address and one value per field; a value is a sequence of *)
(* numbers, Booleans are 0 and 1.                                          *)
(***************************************************************************)
EXTENDS Integers, Sequences, SequencesExt

(* The byte a reader finds behind the end of a message.                    *)
Garbage == 256

ByteAt(p, i) == IF i \in DOMAIN p THEN p[i] ELSE Garbage

(* The n bytes behind the first at ones. *)
BytesAt(p, at, n) == [i \in 1..n |-> ByteAt(p, at + i)]

(* Little endian, n bytes.                                                 *)
LittleEndian(x, n) == [i \in 1..n |-> (x \div 256^(i - 1)) % 256]
FromBytes(b) == FoldLeftDomain(LAMBDA sum, i : sum + b[i] * 256^(i - 1), 0, b)

Clamp(x, low, high) == IF x > high THEN high ELSE IF x < low THEN low ELSE x

---------------------------------------------------------------------------
(* Kinds of fields.                                                        *)

(* Fields that are stored as the bytes that are sent: qualifiers, 32 bit   *)
(* strings and floats, counter readings, time tags, change detection.      *)
RawWidth == [BYTE |-> 1, CP16Time2a |-> 2, CP24Time2a |-> 3, BITS32 |-> 4, R32 |-> 4,
             SCD |-> 4, BCR |-> 5, CP56Time2a |-> 7]

Width == RawWidth @@
  [SIQ |-> 1, DIQ |-> 1, VTI |-> 1, NVA |-> 2, SVA |-> 2, SCO |-> 1, DCO |-> 1, QOS |-> 1,
   QOSShort |-> 1, U16 |-> 2, U24 |-> 3, FRQ |-> 1, SRQ |-> 1]

(* Single or double point: of the quality only the upper four bits. *)
EncodePoint(v) == <<(v[2] \div 16) * 16 + v[1]>>
DecodePoint(byte, n) == <<byte % n, (byte \div 16) * 16>>

(* Step position -64..63 and the transient flag. *)
EncodeStep(v) == LET vti == Clamp(v[1], -64, 63)
                 IN  <<(IF vti < 0 THEN vti + 128 ELSE vti) + 128 * v[2]>>
DecodeStep(byte) == LET vti == byte % 128
                    IN  <<IF vti > 63 THEN vti - 128 ELSE vti, byte \div 128>>

setScaledValue(x) == LittleEndian(IF x < 0 THEN x + 65536 ELSE x, 2)
getScaledValue(b) == LET x == FromBytes(b) IN IF x > 32767 THEN x - 65536 ELSE x

(* Normalized values are counted in steps of 1/32768.                      *)
normalizedToScaled(x) == Clamp(x, -32768, 32767)

(* Qualifier 0..31, state of n bits, select.                               *)
EncodeCommand(v, n) == <<(v[1] % 32) * 4 + (v[2] % n) + 128 * v[3]>>
DecodeCommand(byte, n) == <<(byte % 128) \div 4, byte % n, byte \div 128>>

(* Of the set points only the short one masks the qualifier.               *)
EncodeQOS(v) == <<IF v[2] = 1 /\ v[1] < 128 THEN v[1] + 128 ELSE v[1]>>
EncodeQOSShort(v) == <<(v[1] % 128) + 128 * v[2]>>
DecodeQOS(byte) == <<byte % 128, byte \div 128>>

(* File ready: positive is stored as 0, and read as not 0.                 *)
EncodeFRQ(v) == <<IF v[1] = 1 THEN 0 ELSE 128>>
isPositive(byte) == <<byte \div 128>>

EncodeSRQ(v) == <<128 * v[1]>>
isNotReady(byte) == <<byte \div 128>>

EncodeField(f, v) ==
  CASE f \in DOMAIN RawWidth   -> v
    [] f \in {"SIQ", "DIQ"}    -> EncodePoint(v)
    [] f = "VTI"               -> EncodeStep(v)
    [] f = "NVA"               -> setScaledValue(normalizedToScaled(v[1]))
    [] f = "SVA"               -> setScaledValue(v[1])
    [] f = "SCO"               -> EncodeCommand(v, 2)
    [] f = "DCO"               -> EncodeCommand(v, 4)
    [] f = "QOS"               -> EncodeQOS(v)
    [] f = "QOSShort"          -> EncodeQOSShort(v)
    [] f \in {"U16", "U24"}    -> LittleEndian(v[1], Width[f])
    [] f = "FRQ"               -> EncodeFRQ(v)
    [] f = "SRQ"               -> EncodeSRQ(v)
    [] f = "SEGMENT"           -> <<Len(v)>> \o v

DecodeField(f, b) ==
  CASE f \in DOMAIN RawWidth   -> b
    [] f = "SIQ"               -> DecodePoint(b[1], 2)
    [] f = "DIQ"               -> DecodePoint(b[1], 4)
    [] f = "VTI"               -> DecodeStep(b[1])
    [] f \in {"NVA", "SVA"}    -> <<getScaledValue(b)>>
    [] f = "SCO"               -> DecodeCommand(b[1], 2)
    [] f = "DCO"               -> DecodeCommand(b[1], 4)
    [] f \in {"QOS", "QOSShort"} -> DecodeQOS(b[1])
    [] f \in {"U16", "U24"}    -> <<FromBytes(b)>>
    [] f = "FRQ"               -> isPositive(b[1])
    [] f = "SRQ"               -> isNotReady(b[1])
    [] f = "SEGMENT"           -> Tail(b)

---------------------------------------------------------------------------
(* The object types: the type identification, the fields in the order they *)
(* are sent, the room _encode asks for and the bytes _getFromBuffer wants, *)
(* both besides the object address.                                        *)

Unchecked == -1

ObjectOfSizes(type, fields, room, size) ==
  [type |-> type, fields |-> fields, room |-> room, size |-> size]

Object(type, fields, size) == ObjectOfSizes(type, fields, size, size)

SinglePointInformation == Object("M_SP_NA_1", <<"SIQ">>, 1)
SinglePointWithCP24Time2a == Object("M_SP_TA_1", <<"SIQ", "CP24Time2a">>, 4)
SinglePointWithCP56Time2a == Object("M_SP_TB_1", <<"SIQ", "CP56Time2a">>, 8)
DoublePointInformation == Object("M_DP_NA_1", <<"DIQ">>, 1)
DoublePointWithCP24Time2a == Object("M_DP_TA_1", <<"DIQ", "CP24Time2a">>, 4)
DoublePointWithCP56Time2a == Object("M_DP_TB_1", <<"DIQ", "CP56Time2a">>, 8)
StepPositionInformation == Object("M_ST_NA_1", <<"VTI", "BYTE">>, 2)
StepPositionWithCP24Time2a == Object("M_ST_TA_1", <<"VTI", "BYTE", "CP24Time2a">>, 5)
StepPositionWithCP56Time2a == Object("M_ST_TB_1", <<"VTI", "BYTE", "CP56Time2a">>, 9)
BitString32 == Object("M_BO_NA_1", <<"BITS32", "BYTE">>, 5)
Bitstring32WithCP24Time2a == Object("M_BO_TA_1", <<"BITS32", "BYTE", "CP24Time2a">>, 8)
Bitstring32WithCP56Time2a == Object("M_BO_TB_1", <<"BITS32", "BYTE", "CP56Time2a">>, 12)

MeasuredValueNormalized == Object("M_ME_NA_1", <<"NVA", "BYTE">>, 3)
MeasuredValueNormalizedWithCP24Time2a == Object("M_ME_TA_1", <<"NVA", "BYTE", "CP24Time2a">>, 6)
MeasuredValueNormalizedWithCP56Time2a == Object("M_ME_TD_1", <<"NVA", "BYTE", "CP56Time2a">>, 10)
MeasuredValueNormalizedWithoutQuality == Object("M_ME_ND_1", <<"NVA">>, 2)
MeasuredValueScaled == Object("M_ME_NB_1", <<"SVA", "BYTE">>, 3)
MeasuredValueScaledWithCP24Time2a == Object("M_ME_TB_1", <<"SVA", "BYTE", "CP24Time2a">>, 6)
MeasuredValueScaledWithCP56Time2a == Object("M_ME_TE_1", <<"SVA", "BYTE", "CP56Time2a">>, 10)
MeasuredValueShort == Object("M_ME_NC_1", <<"R32", "BYTE">>, 5)
MeasuredValueShortWithCP24Time2a == Object("M_ME_TC_1", <<"R32", "BYTE", "CP24Time2a">>, 8)
MeasuredValueShortWithCP56Time2a == Object("M_ME_TF_1", <<"R32", "BYTE", "CP56Time2a">>, 12)

IntegratedTotals == Object("M_IT_NA_1", <<"BCR">>, 5)
IntegratedTotalsWithCP24Time2a == Object("M_IT_TA_1", <<"BCR", "CP24Time2a">>, 8)
IntegratedTotalsWithCP56Time2a == Object("M_IT_TB_1", <<"BCR", "CP56Time2a">>, 12)
IntegratedTotalsForSecurityStatistics == Object("S_IT_TC_1", <<"U16", "BCR", "CP56Time2a">>, 14)
EventOfProtectionEquipment == Object("M_EP_TA_1", <<"BYTE", "CP16Time2a", "CP24Time2a">>, 6)
EventOfProtectionEquipmentWithCP56Time2a ==
  Object("M_EP_TD_1", <<"BYTE", "CP16Time2a", "CP56Time2a">>, 10)
PackedStartEventsOfProtectionEquipment ==
  Object("M_EP_TB_1", <<"BYTE", "BYTE", "CP16Time2a", "CP24Time2a">>, 7)
PackedStartEventsOfProtectionEquipmentWithCP56Time2a ==
  Object("M_EP_TE_1", <<"BYTE", "BYTE", "CP16Time2a", "CP56Time2a">>, 11)
PackedOutputCircuitInfo == Object("M_EP_TC_1", <<"BYTE", "BYTE", "CP16Time2a", "CP24Time2a">>, 7)
PackedOutputCircuitInfoWithCP56Time2a ==
  Object("M_EP_TF_1", <<"BYTE", "BYTE", "CP16Time2a", "CP56Time2a">>, 11)
PackedSinglePointWithSCD == Object("M_PS_NA_1", <<"SCD", "BYTE">>, 5)

SingleCommand == Object("C_SC_NA_1", <<"SCO">>, 1)
SingleCommandWithCP56Time2a == Object("C_SC_TA_1", <<"SCO", "CP56Time2a">>, 8)
DoubleCommand == Object("C_DC_NA_1", <<"DCO">>, 1)
DoubleCommandWithCP56Time2a == Object("C_DC_TA_1", <<"DCO", "CP56Time2a">>, 8)
StepCommand == Object("C_RC_NA_1", <<"DCO">>, 1)
StepCommandWithCP56Time2a == Object("C_RC_TA_1", <<"DCO", "CP56Time2a">>, 8)
SetpointCommandNormalized == Object("C_SE_NA_1", <<"NVA", "QOS">>, 3)
SetpointCommandNormalizedWithCP56Time2a == Object("C_SE_TA_1", <<"NVA", "QOS", "CP56Time2a">>, 10)
SetpointCommandScaled == Object("C_SE_NB_1", <<"SVA", "QOS">>, 3)
SetpointCommandScaledWithCP56Time2a == Object("C_SE_TB_1", <<"SVA", "QOS", "CP56Time2a">>, 10)
SetpointCommandShort == Object("C_SE_NC_1", <<"R32", "QOSShort">>, 5)
SetpointCommandShortWithCP56Time2a == Object("C_SE_TC_1", <<"R32", "QOS", "CP56Time2a">>, 12)
Bitstring32Command == ObjectOfSizes("C_BO_NA_1", <<"BITS32">>, 5, 4)
Bitstring32CommandWithCP56Time2a ==
  ObjectOfSizes("C_BO_TA_1", <<"BITS32", "CP56Time2a">>, 12, 11)

ReadCommand == Object("C_RD_NA_1", <<>>, 0)
ClockSynchronizationCommand == Object("C_CS_NA_1", <<"CP56Time2a">>, 7)
InterrogationCommand == Object("C_IC_NA_1", <<"BYTE">>, 1)
CounterInterrogationCommand == Object("C_CI_NA_1", <<"BYTE">>, 1)
TestCommand == Object("C_TS_NA_1", <<"BYTE", "BYTE">>, 2)
TestCommandWithCP56Time2a == Object("C_TS_TA_1", <<"U16", "CP56Time2a">>, 9)
ResetProcessCommand == Object("C_RP_NA_1", <<"BYTE">>, 1)
DelayAcquisitionCommand == Object("C_CD_NA_1", <<"CP16Time2a">>, 2)
EndOfInitialization == Object("M_EI_NA_1", <<"BYTE">>, 1)
ParameterNormalizedValue == Object("P_ME_NA_1", <<"NVA", "BYTE">>, 3)
ParameterScaledValue == Object("P_ME_NB_1", <<"SVA", "BYTE">>, 3)
ParameterFloatValue == Object("P_ME_NC_1", <<"R32", "BYTE">>, 5)
ParameterActivation == Object("P_AC_NA_1", <<"BYTE">>, 1)

FileReady == ObjectOfSizes("F_FR_NA_1", <<"U16", "U24", "FRQ">>, 1, 6)
SectionReady == ObjectOfSizes("F_SR_NA_1", <<"U16", "BYTE", "U24", "SRQ">>, 1, 7)
FileCallOrSelect == ObjectOfSizes("F_SC_NA_1", <<"U16", "BYTE", "BYTE">>, 1, 4)
FileLastSegmentOrSection ==
  ObjectOfSizes("F_LS_NA_1", <<"U16", "BYTE", "BYTE", "BYTE">>, Unchecked, 5)
FileACK == ObjectOfSizes("F_AF_NA_1", <<"U16", "BYTE", "BYTE">>, Unchecked, 4)
FileSegment == ObjectOfSizes("F_SG_NA_1", <<"U16", "BYTE", "SEGMENT">>, Unchecked, 4)
FileDirectory == Object("F_DR_TA_1", <<"U16", "U24", "BYTE", "CP56Time2a">>, 13)
QueryLog == Object("F_SC_NB_1", <<"U16", "CP56Time2a", "CP56Time2a">>, 16)

Objects ==
  {SinglePointInformation, SinglePointWithCP24Time2a, SinglePointWithCP56Time2a,
   DoublePointInformation, DoublePointWithCP24Time2a, DoublePointWithCP56Time2a,
   StepPositionInformation, StepPositionWithCP24Time2a, StepPositionWithCP56Time2a,
   BitString32, Bitstring32WithCP24Time2a, Bitstring32WithCP56Time2a,
   MeasuredValueNormalized, MeasuredValueNormalizedWithCP24Time2a,
   MeasuredValueNormalizedWithCP56Time2a, MeasuredValueNormalizedWithoutQuality,
   MeasuredValueScaled, MeasuredValueScaledWithCP24Time2a, MeasuredValueScaledWithCP56Time2a,
   MeasuredValueShort, MeasuredValueShortWithCP24Time2a, MeasuredValueShortWithCP56Time2a,
   IntegratedTotals, IntegratedTotalsWithCP24Time2a, IntegratedTotalsWithCP56Time2a,
   IntegratedTotalsForSecurityStatistics, EventOfProtectionEquipment,
   EventOfProtectionEquipmentWithCP56Time2a, PackedStartEventsOfProtectionEquipment,
   PackedStartEventsOfProtectionEquipmentWithCP56Time2a, PackedOutputCircuitInfo,
   PackedOutputCircuitInfoWithCP56Time2a, PackedSinglePointWithSCD,
   SingleCommand, SingleCommandWithCP56Time2a, DoubleCommand, DoubleCommandWithCP56Time2a,
   StepCommand, StepCommandWithCP56Time2a, SetpointCommandNormalized,
   SetpointCommandNormalizedWithCP56Time2a, SetpointCommandScaled,
   SetpointCommandScaledWithCP56Time2a, SetpointCommandShort,
   SetpointCommandShortWithCP56Time2a, Bitstring32Command, Bitstring32CommandWithCP56Time2a,
   ReadCommand, ClockSynchronizationCommand, InterrogationCommand, CounterInterrogationCommand,
   TestCommand, TestCommandWithCP56Time2a, ResetProcessCommand, DelayAcquisitionCommand,
   EndOfInitialization, ParameterNormalizedValue, ParameterScaledValue, ParameterFloatValue,
   ParameterActivation, FileReady, SectionReady, FileCallOrSelect, FileLastSegmentOrSection,
   FileACK, FileSegment, FileDirectory, QueryLog}

TypeIDs == {o.type : o \in Objects}
ObjectOf == [t \in TypeIDs |-> CHOOSE o \in Objects : o.type = t]

---------------------------------------------------------------------------
(* Encoding into the room that is left, decoding from a message.           *)

EncodeFields(o, values) ==
  FoldLeftDomain(LAMBDA b, i : b \o EncodeField(o.fields[i], values[i]), <<>>, o.fields)

encodeBase(ioa, sizeOfIOA, isSequence) ==
  IF isSequence THEN <<>> ELSE LittleEndian(ioa, sizeOfIOA)

FileSegment_GetMaxDataSize(room, sizeOfIOA) == room - sizeOfIOA - 4

(* Whether _encode finds enough room: left of the room of an ASDU.         *)
hasRoom(o, values, left, room, sizeOfIOA, isSequence) ==
  IF o.type = "F_SG_NA_1"
  THEN Len(values[3]) <= FileSegment_GetMaxDataSize(room, sizeOfIOA)
  ELSE o.room # Unchecked => left >= o.room + (IF isSequence THEN 0 ELSE sizeOfIOA)

parseObjectAddress(p, sizeOfIOA, start) ==
  IF start + sizeOfIOA > Len(p) THEN 0 ELSE FromBytes(BytesAt(p, start, sizeOfIOA))

(* Where field i starts behind the beginning of the element. *)
Offset(o, i) == FoldLeftDomain(LAMBDA sum, j : IF j < i THEN sum + Width[o.fields[j]] ELSE sum,
                               0, o.fields)

FieldFromBuffer(f, p, at) ==
  DecodeField(f, BytesAt(p, at, IF f = "SEGMENT" THEN ByteAt(p, at + 1) + 1 ELSE Width[f]))

(* No object: the message is too short.                                    *)
NULL == [ioa |-> -1, values |-> <<>>]

tooShort(o, p, at) ==
  \/ at + o.size > Len(p)
  \/ o.type = "F_SG_NA_1" /\ at + 4 + ByteAt(p, at + 4) > Len(p)

getFromBuffer(o, p, sizeOfIOA, start, isSequence) ==
  LET at == IF isSequence THEN start ELSE start + sizeOfIOA
  IN  IF tooShort(o, p, at)
      THEN NULL
      ELSE [ioa    |-> IF isSequence THEN 0 ELSE parseObjectAddress(p, sizeOfIOA, start),
            values |-> [i \in DOMAIN o.fields |->
                          FieldFromBuffer(o.fields[i], p, at + Offset(o, i))]]
=============================================================================
