---------------------------- MODULE MCCS101ASDU ----------------------------
(* Every object type, alone and in sequences of two or three with addresses *)
(* of one, two and three bytes, in an ASDU with little room; and the ASDU   *)
(* of single points that fills the VSQ.                                     *)
EXTENDS CS101ASDU

MCConfigurations ==
  [type : TypeIDs, isSequence : BOOLEAN, sizeOfIOA : 1..3, room : {5, 22, 40},
   maxElements : {3}, maxValues : {2}]
  \cup [type : {"M_SP_NA_1"}, isSequence : {TRUE}, sizeOfIOA : {2}, room : {243},
        maxElements : {128}, maxValues : {1}]

(* Bytes that differ, so that an exchange or a shift shows.                 *)
Bytes(n, first) == [i \in 1..n |-> first + i]

MCValues(f) ==
  CASE f \in DOMAIN RawWidth -> <<Bytes(RawWidth[f], 16), Bytes(RawWidth[f], 240)>>
    [] f = "SIQ" -> <<<<1, 16>>, <<0, 241>>>>
    [] f = "DIQ" -> <<<<2, 240>>, <<3, 129>>>>
    [] f = "VTI" -> <<<<-64, 1>>, <<64, 0>>>>
    [] f = "NVA" -> <<<<-40000>>, <<32767>>>>
    [] f = "SVA" -> <<<<-32768>>, <<-2>>>>
    [] f = "SCO" -> <<<<31, 0, 1>>, <<1, 1, 0>>>>
    [] f = "DCO" -> <<<<31, 2, 0>>, <<2, 3, 1>>>>
    [] f \in {"QOS", "QOSShort"} -> <<<<127, 0>>, <<3, 1>>>>
    [] f = "U16" -> <<<<65535>>, <<513>>>>
    [] f = "U24" -> <<<<16777215>>, <<66051>>>>
    [] f \in {"FRQ", "SRQ"} -> <<<<1>>, <<0>>>>
    [] f = "SEGMENT" -> <<<<>>, <<7, 8, 9>>>>
=============================================================================
