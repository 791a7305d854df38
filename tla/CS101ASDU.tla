------------------------------ MODULE CS101ASDU ------------------------------
(***************************************************************************)
(* An ASDU: the application adds information objects, the payload grows,   *)
(* and what another station makes of the message, or of its beginning, is  *)
(* given by CS101_ASDU_createFromBufferEx and CS101_ASDU_getElementEx.     *)
(***************************************************************************)
EXTENDS InformationObjects, TLC

CONSTANTS
  Configurations,   \* of the ASDU: type, isSequence, sizeOfIOA, room (maxSizeOfASDU
                    \* less the header); and bounds: objects in one ASDU, values per field
  Values(_),        \* the values of a kind of field the application uses, a sequence
  IOAs              \* the addresses of a first object

ASSUME ASDUAssumption ==
  /\ \A c \in Configurations :
       /\ c.type \in TypeIDs /\ c.isSequence \in BOOLEAN
       /\ c.sizeOfIOA \in 1..3 /\ c.room \in Nat
       /\ c.maxElements \in Nat /\ c.maxValues \in 1..2
  /\ IOAs \subseteq Nat

VARIABLES
  config,      \* how the ASDU was created
  typeId,      \* the first byte, "none" before the first object
  numberOfElements,
  payload,
  added        \* history: the objects that were accepted since it was empty

vars == <<config, typeId, numberOfElements, payload, added>>

Init ==
  /\ config \in Configurations
  /\ typeId = "none"
  /\ numberOfElements = 0
  /\ payload = <<>>
  /\ added = <<>>

---------------------------------------------------------------------------
(* Of these types an ASDU holds one object.                                *)
isSingleIOType ==
  {"C_SC_NA_1", "C_DC_NA_1", "C_RC_NA_1", "C_SE_NA_1", "C_SE_NB_1", "C_SE_NC_1", "C_BO_NA_1",
   "C_SC_TA_1", "C_DC_TA_1", "C_RC_TA_1", "C_SE_TA_1", "C_SE_TB_1", "C_SE_TC_1", "C_BO_TA_1",
   "M_EI_NA_1", "C_IC_NA_1", "C_CI_NA_1", "C_RD_NA_1", "C_CS_NA_1", "C_TS_NA_1", "C_RP_NA_1",
   "C_CD_NA_1", "C_TS_TA_1", "F_FR_NA_1", "F_SR_NA_1", "F_SC_NA_1", "F_LS_NA_1", "F_AF_NA_1",
   "F_SG_NA_1"}

(* The sizes the receiver checks a message with; a segment has none.       *)
getElementDataSize ==
  [M_SP_NA_1 |-> 1, M_SP_TA_1 |-> 4, M_DP_NA_1 |-> 1, M_DP_TA_1 |-> 4, M_ST_NA_1 |-> 2,
   M_ST_TA_1 |-> 5, M_BO_NA_1 |-> 5, M_BO_TA_1 |-> 8, M_ME_NA_1 |-> 3, M_ME_TA_1 |-> 6,
   M_ME_NB_1 |-> 3, M_ME_TB_1 |-> 6, M_ME_NC_1 |-> 5, M_ME_TC_1 |-> 8, M_IT_NA_1 |-> 5,
   M_IT_TA_1 |-> 8, M_EP_TA_1 |-> 6, M_EP_TB_1 |-> 7, M_EP_TC_1 |-> 7, M_PS_NA_1 |-> 5,
   M_ME_ND_1 |-> 2, M_SP_TB_1 |-> 8, M_DP_TB_1 |-> 8, M_ST_TB_1 |-> 9, M_BO_TB_1 |-> 12,
   M_ME_TD_1 |-> 10, M_ME_TE_1 |-> 10, M_ME_TF_1 |-> 12, M_IT_TB_1 |-> 12, M_EP_TD_1 |-> 10,
   M_EP_TE_1 |-> 11, M_EP_TF_1 |-> 11, S_IT_TC_1 |-> 14, C_SC_NA_1 |-> 1, C_DC_NA_1 |-> 1,
   C_RC_NA_1 |-> 1, C_SE_NA_1 |-> 3, C_SE_NB_1 |-> 3, C_SE_NC_1 |-> 5, C_BO_NA_1 |-> 4,
   C_SC_TA_1 |-> 8, C_DC_TA_1 |-> 8, C_RC_TA_1 |-> 8, C_SE_TA_1 |-> 10, C_SE_TB_1 |-> 10,
   C_SE_TC_1 |-> 12, C_BO_TA_1 |-> 11, M_EI_NA_1 |-> 1, C_IC_NA_1 |-> 1, C_CI_NA_1 |-> 1,
   C_RD_NA_1 |-> 0, C_CS_NA_1 |-> 7, C_TS_NA_1 |-> 2, C_RP_NA_1 |-> 1, C_CD_NA_1 |-> 2,
   C_TS_TA_1 |-> 9, P_ME_NA_1 |-> 3, P_ME_NB_1 |-> 3, P_ME_NC_1 |-> 5, P_AC_NA_1 |-> 1,
   F_FR_NA_1 |-> 6, F_SR_NA_1 |-> 7, F_SC_NA_1 |-> 4, F_LS_NA_1 |-> 5, F_AF_NA_1 |-> 4,
   F_DR_TA_1 |-> 13, F_SC_NB_1 |-> 16]

(* getElementEx: the size of an element of the types that may come as a    *)
(* sequence, and of those that may not but are found by their index.       *)
pointSizes == [M_SP_NA_1 |-> 1, M_SP_TA_1 |-> 4, M_DP_NA_1 |-> 1, M_DP_TA_1 |-> 4,
               M_ST_NA_1 |-> 2, M_ST_TA_1 |-> 5]
measurementSizes == [M_BO_NA_1 |-> 5, M_BO_TA_1 |-> 8, M_ME_NA_1 |-> 3, M_ME_TA_1 |-> 6,
                     M_ME_NB_1 |-> 3, M_ME_TB_1 |-> 6]
counterSizes == [M_ME_NC_1 |-> 5, M_ME_TC_1 |-> 8, M_IT_NA_1 |-> 5, M_IT_TA_1 |-> 8]
protectionSizes == [M_EP_TA_1 |-> 6, M_EP_TB_1 |-> 7, M_EP_TC_1 |-> 7, M_PS_NA_1 |-> 5,
                    M_ME_ND_1 |-> 2]
longTimeSizes1 == [M_SP_TB_1 |-> 8, M_DP_TB_1 |-> 8, M_ST_TB_1 |-> 9, M_BO_TB_1 |-> 12,
                   M_ME_TD_1 |-> 10, M_ME_TE_1 |-> 10]
longTimeSizes2 == [M_ME_TF_1 |-> 12, M_IT_TB_1 |-> 12, M_EP_TD_1 |-> 10, M_EP_TE_1 |-> 11,
                   M_EP_TF_1 |-> 11, S_IT_TC_1 |-> 14]
directorySizes == [F_DR_TA_1 |-> 13]

sequenceSizes == pointSizes @@ measurementSizes @@ counterSizes @@ protectionSizes
                 @@ longTimeSizes1 @@ longTimeSizes2 @@ directorySizes

commandSizes ==
  [C_SC_NA_1 |-> 1, C_DC_NA_1 |-> 1, C_RC_NA_1 |-> 1, C_SE_NA_1 |-> 3, C_SE_NB_1 |-> 3,
   C_SE_NC_1 |-> 5, C_BO_NA_1 |-> 4, C_SC_TA_1 |-> 8, C_DC_TA_1 |-> 8, C_RC_TA_1 |-> 8,
   C_SE_TA_1 |-> 10, C_SE_TB_1 |-> 10, C_SE_TC_1 |-> 12, C_BO_TA_1 |-> 11]
parameterSizes == [P_ME_NA_1 |-> 3, P_ME_NB_1 |-> 3, P_ME_NC_1 |-> 5, P_AC_NA_1 |-> 1]

indexedSizes == commandSizes @@ parameterSizes

(* Mutant: the size of the address is forgotten. *)
elementStart_noAddress(t, isSequence, sizeOfIOA, index) ==
  CASE t \in DOMAIN sequenceSizes -> sizeOfIOA + index * sequenceSizes[t]
    [] t \in DOMAIN indexedSizes -> index * indexedSizes[t]
    [] OTHER -> 0

(* Where getElementEx looks for an element; every other type has one only. *)
elementStart(t, isSequence, sizeOfIOA, index) ==
  CASE t \in DOMAIN sequenceSizes ->
         IF isSequence THEN sizeOfIOA + index * sequenceSizes[t]
                       ELSE index * (sizeOfIOA + sequenceSizes[t])
    [] t \in DOMAIN indexedSizes -> index * (sizeOfIOA + indexedSizes[t])
    [] OTHER -> 0

getElementEx(t, isSequence, sizeOfIOA, n, p, index) ==
  LET consecutive == isSequence /\ t \in DOMAIN sequenceSizes
      element == getFromBuffer(ObjectOf[t], p, sizeOfIOA,
                               elementStart(t, isSequence, sizeOfIOA, index), consecutive)
  IN  IF index >= n \/ (t \in isSingleIOType /\ index > 0)
      THEN NULL
      ELSE IF consecutive /\ element # NULL
           THEN [element EXCEPT !.ioa = parseObjectAddress(p, sizeOfIOA, 0) + index]
           ELSE element

(* Mutant: a message shorter than its VSQ says is taken. *)
createFromBufferEx_unchecked(t, isSequence, sizeOfIOA, n, p) == TRUE

(* Whether a message with this payload is taken for an ASDU.               *)
createFromBufferEx(t, isSequence, sizeOfIOA, n, p) ==
  t \in DOMAIN getElementDataSize /\ n > 0 =>
    Len(p) >= IF isSequence
              THEN sizeOfIOA + n * getElementDataSize[t]
              ELSE n * (sizeOfIOA + getElementDataSize[t])

---------------------------------------------------------------------------
(* Behind the first object: the same type, not a single object, and in a   *)
(* sequence the next address.                                              *)
mayFollow(o, ioa) ==
  /\ numberOfElements < 127
  /\ typeId = o.type
  /\ typeId \notin isSingleIOType
  /\ config.isSequence =>
       ioa = parseObjectAddress(payload, config.sizeOfIOA, 0) + numberOfElements

(* Mutant: the room is not compared with the size of the object. *)
encodes_full(o, values, compact) == Len(payload) < config.room

encodes(o, values, compact) ==
  hasRoom(o, values, config.room - Len(payload), config.room, config.sizeOfIOA, compact)

addInformationObject(o, ioa, values) ==
  /\ numberOfElements = 0 \/ mayFollow(o, ioa)
  /\ LET compact == config.isSequence /\ numberOfElements > 0
     IN  /\ encodes(o, values, compact)
         /\ payload' = payload \o encodeBase(ioa, config.sizeOfIOA, compact)
                               \o EncodeFields(o, values)
  /\ typeId' = o.type
  /\ numberOfElements' = numberOfElements + 1
  /\ added' = Append(added, [ioa |-> ioa, values |-> values])
  /\ UNCHANGED config

(* What is refused leaves the ASDU as it was, but for the type of the      *)
(* first object.                                                           *)
Refuse(o, ioa, values) ==
  /\ IF numberOfElements = 0
     THEN ~encodes(o, values, FALSE) /\ typeId' = o.type
     ELSE /\ ~(mayFollow(o, ioa) /\ encodes(o, values, config.isSequence))
          /\ UNCHANGED typeId
  /\ UNCHANGED <<config, numberOfElements, payload, added>>

removeAllElements ==
  /\ numberOfElements > 0
  /\ numberOfElements' = 0
  /\ payload' = <<>>
  /\ added' = <<>>
  /\ UNCHANGED <<config, typeId>>

(* One value of every field: the first, or the second, of its kind.        *)
ValuesOf(o) == {[i \in DOMAIN o.fields |-> Values(o.fields[i])[n]] : n \in 1..config.maxValues}

(* Behind the first object one of another type is tried as well; and in a  *)
(* sequence an address that leaves a gap.                                  *)
Attempts ==
  IF numberOfElements = 0
  THEN {ObjectOf[config.type]} \X IOAs
  ELSE {ObjectOf[config.type], SinglePointInformation}
       \X {added[1].ioa + numberOfElements + gap : gap \in IF config.isSequence THEN 0..1 ELSE {1}}

Next ==
  \/ \E c \in Attempts : \E values \in ValuesOf(c[1]) :
       /\ c[2] < 256^config.sizeOfIOA
       /\ \/ numberOfElements < config.maxElements /\ addInformationObject(c[1], c[2], values)
          \/ Refuse(c[1], c[2], values)
  \/ removeAllElements

Spec == Init /\ [][Next]_vars

---------------------------------------------------------------------------
UncheckedTypes == {"F_FR_NA_1", "F_SR_NA_1", "F_SC_NA_1", "F_LS_NA_1", "F_AF_NA_1"}

(* However objects are added, the ASDU never grows beyond maxSizeOfASDU    *)
(* and its VSQ counts all its objects in seven bits; except that the       *)
(* encoders of five file objects ask for too little room, or for none.     *)
PayloadFits ==
  /\ typeId \in {config.type, "none"}
  /\ numberOfElements \in 0..127 /\ numberOfElements = Len(added)
  /\ payload \in Seq(0..255)
  /\ typeId \notin UncheckedTypes => Len(payload) <= config.room

(* What the getters of a decoded object should say: step positions and     *)
(* normalized values are limited to their range, of the quality of a point *)
(* the upper four bits are kept.                                           *)
Meant(f, v) ==
  CASE f = "VTI" -> <<Clamp(v[1], -64, 63), v[2]>>
    [] f = "NVA" -> <<Clamp(v[1], -32768, 32767)>>
    [] f \in {"SIQ", "DIQ"} -> <<v[1], v[2] - (v[2] % 16)>>
    [] OTHER -> v

(* FileReady_isPositive says that a file is ready when FileReady_create    *)
(* was told that it is not: nothing is said here of that flag.             *)
Contradicted == {"FRQ"}

ReadBack(element, object, o) ==
  /\ element.ioa = object.ioa
  /\ Len(element.values) = Len(object.values)
  /\ \A i \in DOMAIN o.fields :
       o.fields[i] \notin Contradicted => element.values[i] = Meant(o.fields[i], object.values[i])

(* Objects that an ASDU can hold and getElementEx does not find again: a   *)
(* sequence of parameters is read as if it were none, and of several log   *)
(* queries the first is read for all.                                      *)
Unreadable(index) ==
  /\ index > 0
  /\ \/ config.isSequence /\ typeId \in DOMAIN parameterSizes
     \/ typeId = "F_SC_NB_1"

element(p, index) ==
  getElementEx(typeId, config.isSequence, config.sizeOfIOA, numberOfElements, p, index)

(* The receiver finds every object that was accepted, at its index, with   *)
(* its address and its values: except the parameters of a sequence and the *)
(* log queries behind the first, which it does not find, and the flag of a *)
(* file that is ready.                                                     *)
ElementsReadBack ==
  \A i \in DOMAIN added :
    Unreadable(i - 1) \/ ReadBack(element(payload, i - 1), added[i], ObjectOf[typeId])

accepted(p) ==
  createFromBufferEx(typeId, config.isSequence, config.sizeOfIOA, numberOfElements, p)

(* No ASDU that was built is refused by createFromBufferEx; and when its   *)
(* end is cut off, every object either is NULL or is read exactly as from  *)
(* the whole message, never from behind the end.  Only of a segment a      *)
(* shortened message passes createFromBufferEx at all.                     *)
TruncationDetected ==
  /\ accepted(payload)
  /\ numberOfElements > 0 =>
       \A n \in 0..Len(payload) - 1 :
         LET p == SubSeq(payload, 1, n)
         IN  /\ accepted(p) => typeId = "F_SG_NA_1"
             /\ \A i \in 0..numberOfElements - 1 :
                  element(p, i) \in {NULL, element(payload, i)}
=============================================================================
