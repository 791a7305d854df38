----------------------------- MODULE FileServer -----------------------------
(***************************************************************************)
(* The file service of a slave (file_server.c): one transfer at a time, in *)
(* monitor direction (a master selects and calls a file of the server) or  *)
(* in control direction (a master announces a file and sends it).          *)
(*                                                                         *)
(* The masters may send any file ASDU at any time: nothing of the protocol *)
(* is assumed of them.  The server neither looks at the result of sendASDU *)
(* nor would act upon it, so what is sent may be lost as well.  A file is  *)
(* identified by its address, which is the common address and the object   *)
(* address (ca and ioa), and its name at that address (nof).  handleAsdu   *)
(* and runTask are one step each.                                          *)
(***************************************************************************)
EXTENDS Integers, Sequences

CONSTANTS
  Clients,         \* the connections
  Files,           \* records [address, nof], those the server offers among them
  Sections,        \* the sections of each file offered, sequences of bytes
  maxSegmentSize,
  ChecksumMod,     \* 256: a checksum is a uint8_t
  MaxReceived,     \* bound on the bytes a master sends in one section
  None

Bytes == 0..(ChecksumMod - 1)

ASSUME FileServerAssumption ==
  /\ maxSegmentSize \in Nat \ {0} /\ ChecksumMod \in Nat \ {0} /\ MaxReceived \in Nat
  /\ None \notin Files \cup Clients
  /\ DOMAIN Sections \subseteq Files
  /\ \A f \in DOMAIN Sections : Sections[f] \in Seq(Seq(Bytes))

VARIABLES
  state,
  name,                \* ca, ioa and nof
  selectedFile, selectedConnection,
  fileReceiver,        \* the file that the application receives, or None
  currentSectionNumber, currentSectionOffset, currentSectionSize,
  sectionChecksum, fileChecksum,
  expired,             \* timeout ms have passed since lastSendTime
  lastSent,            \* history: the ASDU sent last
  heard,               \* history: the bytes of the current section sent
  total,               \* history: the sum of the sections acknowledged
  leftover,            \* history: sectionChecksum did not start from zero
  miscounted,          \* history: fileChecksum counts a section twice or wrongly
  renamed              \* history: a transfer was given the name of another file

section == <<currentSectionNumber, currentSectionOffset, currentSectionSize>>
checksums == <<sectionChecksum, fileChecksum>>
selection == <<name, selectedFile, selectedConnection>>
history == <<heard, total, leftover, miscounted, renamed>>
vars == <<state, selection, fileReceiver, section, checksums, expired, lastSent, history>>

Sum(bytes) ==
  LET sum[n \in 0..Len(bytes)] == IF n = 0 THEN 0 ELSE (sum[n - 1] + bytes[n]) % ChecksumMod
  IN  sum[Len(bytes)]

(* getSectionSize of the file provider; there is no section 0. *)
sectionSize(file, nos) == IF nos \in DOMAIN Sections[file] THEN Len(Sections[file][nos]) ELSE 0

ASDU(type, to, file, nos, chs) == [type |-> type, to |-> to, file |-> file, nos |-> nos, chs |-> chs]

Send(type, c, nos, chs) == lastSent' = ASDU(type, c, name', nos, chs)

(* The ASDU itself goes back, marked negative or with another cause. *)
Refuse(c) == lastSent' = ASDU("refused", c, None, 0, 0)

Init ==
  /\ state = "UNSELECTED_IDLE"
  /\ name = None /\ selectedFile = None /\ selectedConnection = None /\ fileReceiver = None
  /\ currentSectionNumber = 0 /\ currentSectionOffset = 0 /\ currentSectionSize = 0
  /\ sectionChecksum = 0 /\ fileChecksum = 0
  /\ expired = FALSE
  /\ lastSent = ASDU("none", None, None, 0, 0)
  /\ heard = <<>> /\ total = 0 /\ leftover = FALSE /\ miscounted = FALSE /\ renamed = FALSE

-----------------------------------------------------------------------------
(* Time and the checks of it                                               *)

TimePasses ==
  /\ state # "UNSELECTED_IDLE" /\ expired' = TRUE
  /\ UNCHANGED <<state, selection, fileReceiver, section, checksums, lastSent, history>>

(* Every file ASDU ends a transfer that has run out of time, before it is  *)
(* looked at.                                                              *)
checked == IF expired THEN "UNSELECTED_IDLE" ELSE state

StampLastSendTime == expired' = FALSE

(* What remains of a section that is left in the middle. *)
AbandonSection == leftover' = (leftover \/ (state = "TRANSMIT_SECTION" /\ heard # <<>>))

(* Nothing but the check of the timeout, and perhaps a refusal. *)
Ignore ==
  /\ state' = checked
  /\ IF checked # state THEN AbandonSection ELSE UNCHANGED leftover
  /\ UNCHANGED <<selection, fileReceiver, section, checksums, expired, heard, total, miscounted, renamed>>

-----------------------------------------------------------------------------
(* Control direction: a master sends a file                                *)

(* F_FR_NA_1 in any state: the handler of the application accepts ...      *)
AcceptFile(c, f) ==
  /\ fileReceiver' = f
  /\ name' = f
  /\ fileChecksum' = 0
  /\ Send("callFile", c, 0, 0)
  /\ StampLastSendTime
  /\ state' = "WAITING_FOR_SECTION_READY"
  /\ AbandonSection
  /\ UNCHANGED <<selectedFile, selectedConnection, section, sectionChecksum, heard, total, miscounted, renamed>>

(* ... or refuses, for an unknown address ...                              *)
RefuseAddress(c) ==
  /\ fileReceiver' = None
  /\ Refuse(c)
  /\ state' = checked
  /\ IF checked # state THEN AbandonSection ELSE UNCHANGED leftover
  /\ UNCHANGED <<selection, section, checksums, expired, heard, total, miscounted, renamed>>

(* ... or for another reason: the transfer in progress gets the name.      *)
RefuseFile(c, f) ==
  /\ fileReceiver' = None
  /\ name' = f
  /\ renamed' = (f # name \/ renamed)
  /\ Send("fileNotReady", c, 0, 0)
  /\ state' = checked
  /\ IF checked # state THEN AbandonSection ELSE UNCHANGED leftover
  /\ UNCHANGED <<selectedFile, selectedConnection, section, checksums, expired, heard, total, miscounted>>

HandleFileReady(c, f) == AcceptFile(c, f) \/ RefuseAddress(c) \/ RefuseFile(c, f)

(* F_SR_NA_1 *)
HandleSectionReady(c, nos, size) ==
  /\ checked = "WAITING_FOR_SECTION_READY"
  /\ currentSectionNumber' = nos /\ currentSectionOffset' = 0 /\ currentSectionSize' = size
  /\ state' = "RECEIVE_SECTION"
  /\ lastSent' = ASDU("callSection", c, name, nos, 0)
  /\ StampLastSendTime
  /\ UNCHANGED <<selection, fileReceiver, checksums, history>>

(* F_SG_NA_1: the size announced is no limit. *)
HandleSegment(c, los) ==
  /\ checked = "RECEIVE_SECTION"
  /\ currentSectionOffset + los <= MaxReceived
  /\ currentSectionOffset' = currentSectionOffset + los
  /\ StampLastSendTime
  /\ UNCHANGED <<state, selection, fileReceiver, currentSectionNumber, currentSectionSize, checksums,
                 lastSent, history>>

(* F_LS_NA_1 *)
HandleLastSection(c, nos) ==
  /\ checked = "RECEIVE_SECTION"
  /\ state' = "WAITING_FOR_SECTION_READY"
  /\ lastSent' = ASDU("ackSection", c, name, nos, 0)
  /\ StampLastSendTime
  /\ UNCHANGED <<selection, fileReceiver, section, checksums, history>>

HandleLastFile(c, nos) ==
  /\ checked = "WAITING_FOR_SECTION_READY"
  /\ state' = "UNSELECTED_IDLE"
  /\ lastSent' = ASDU("ackFile", c, name, nos, 0)
  /\ StampLastSendTime
  /\ UNCHANGED <<selection, fileReceiver, section, checksums, history>>

HandleAbort ==
  /\ checked \in {"RECEIVE_SECTION", "WAITING_FOR_SECTION_READY"}
  /\ state' = "UNSELECTED_IDLE"
  /\ UNCHANGED <<selection, fileReceiver, section, checksums, expired, lastSent, history>>

-----------------------------------------------------------------------------
(* Monitor direction: F_SC_NA_1                                            *)

SelectFile(c, f) ==
  /\ checked = "UNSELECTED_IDLE"
  /\ IF state # checked THEN AbandonSection ELSE UNCHANGED leftover
  /\ \/ /\ f \in DOMAIN Sections
        /\ selectedFile' = f /\ selectedConnection' = c /\ name' = f
        /\ Send("fileReady", c, 0, 0)
        /\ StampLastSendTime
        /\ state' = "WAITING_FOR_FILE_CALL"
        /\ renamed' = FALSE
     \/ /\ f \notin DOMAIN Sections
        /\ \/ Refuse(c) /\ UNCHANGED name
           \/ name' = f /\ Send("fileNotReady", c, 0, 0)
        /\ state' = "UNSELECTED_IDLE"
        /\ UNCHANGED <<selectedFile, selectedConnection, expired, renamed>>
  /\ UNCHANGED <<fileReceiver, section, checksums, heard, total, miscounted>>

(* DEACTIVATE_FILE has an effect only when no transfer goes on. *)
DeactivateFile ==
  /\ checked = "UNSELECTED_IDLE"
  /\ selectedFile' = None /\ selectedConnection' = None
  /\ state' = "UNSELECTED_IDLE"
  /\ IF state # checked THEN AbandonSection ELSE UNCHANGED leftover
  /\ UNCHANGED <<name, fileReceiver, section, checksums, expired, lastSent, heard, total, miscounted, renamed>>

(* Of the file that is called only ca and ioa are compared, not the name   *)
(* of file.                                                                *)
isCurrent(f) == f.address = name.address

RefuseCall(c, f) ==
  /\ checked \in {"WAITING_FOR_FILE_CALL", "WAITING_FOR_SECTION_CALL"}
  /\ ~isCurrent(f)
  /\ Refuse(c)
  /\ UNCHANGED <<state, selection, fileReceiver, section, checksums, expired, history>>

(* Mutant: the checksum of the last file is kept. *)
CallFile_keepsChecksum(c, f) ==
  /\ checked = "WAITING_FOR_FILE_CALL" /\ isCurrent(f)
  /\ currentSectionNumber' = 1 /\ currentSectionOffset' = 0
  /\ currentSectionSize' = sectionSize(selectedFile, 1)
  /\ lastSent' = ASDU("sectionReady", c, name, 1, 0)
  /\ StampLastSendTime
  /\ state' = "WAITING_FOR_SECTION_CALL"
  /\ heard' = <<>> /\ total' = 0 /\ miscounted' = FALSE
  /\ UNCHANGED <<selection, fileReceiver, checksums, leftover, renamed>>

CallFile(c, f) ==
  /\ checked = "WAITING_FOR_FILE_CALL" /\ isCurrent(f)
  /\ currentSectionNumber' = 1 /\ currentSectionOffset' = 0
  /\ currentSectionSize' = sectionSize(selectedFile, 1)
  /\ fileChecksum' = 0
  /\ lastSent' = ASDU("sectionReady", c, name, 1, 0)
  /\ StampLastSendTime
  /\ state' = "WAITING_FOR_SECTION_CALL"
  /\ heard' = <<>> /\ total' = 0 /\ miscounted' = FALSE
  /\ UNCHANGED <<selection, fileReceiver, sectionChecksum, leftover, renamed>>

(* The next section, or the end of the file. *)
AnnounceSection(c, nos) ==
  /\ currentSectionNumber' = nos /\ currentSectionOffset' = 0
  /\ StampLastSendTime
  /\ IF sectionSize(selectedFile, nos) > 0
       THEN /\ lastSent' = ASDU("sectionReady", c, name, nos, 0)
            /\ state' = "WAITING_FOR_SECTION_CALL"
       ELSE /\ lastSent' = ASDU("lastSection", c, name, nos, fileChecksum)
            /\ state' = "WAITING_FOR_FILE_ACK"

CallSection(c, f, nos) ==
  /\ checked = "WAITING_FOR_SECTION_CALL" /\ isCurrent(f)
  /\ currentSectionSize' = sectionSize(selectedFile, nos)
  /\ IF sectionSize(selectedFile, nos) > 0
       THEN /\ currentSectionNumber' = nos /\ currentSectionOffset' = 0
            /\ state' = "TRANSMIT_SECTION"
            /\ heard' = <<>>
            /\ UNCHANGED <<expired, lastSent>>
       ELSE /\ Refuse(c)
            /\ StampLastSendTime
            /\ UNCHANGED <<state, currentSectionNumber, currentSectionOffset, heard>>
  /\ UNCHANGED <<selection, fileReceiver, checksums, total, leftover, miscounted, renamed>>

(* A call marked negative: the master does not want this section. *)
SkipSection(c, f) ==
  /\ checked = "WAITING_FOR_SECTION_CALL" /\ isCurrent(f)
  /\ AnnounceSection(c, currentSectionNumber + 1)
  /\ currentSectionSize' = sectionSize(selectedFile, currentSectionNumber + 1)
  /\ UNCHANGED <<selection, fileReceiver, checksums, history>>

-----------------------------------------------------------------------------
(* Monitor direction: F_AF_NA_1                                            *)

(* Mutant: the state is not reset. *)
AckFile_keepsState ==
  /\ checked = "WAITING_FOR_FILE_ACK"
  /\ selectedFile' = None /\ selectedConnection' = None
  /\ UNCHANGED <<state, name, fileReceiver, section, checksums, expired, lastSent, history>>

(* transferComplete is called, for a positive and for a negative ACK. *)
AckFile ==
  /\ checked = "WAITING_FOR_FILE_ACK"
  /\ state' = "UNSELECTED_IDLE"
  /\ selectedFile' = None /\ selectedConnection' = None
  /\ UNCHANGED <<name, fileReceiver, section, checksums, expired, lastSent, history>>

AckSection(c) ==
  /\ checked = "WAITING_FOR_SECTION_ACK"
  /\ AnnounceSection(c, currentSectionNumber + 1)
  /\ currentSectionSize' = LET next == sectionSize(selectedFile, currentSectionNumber + 1)
                           IN  IF next > 0 THEN next ELSE currentSectionSize
  /\ sectionChecksum' = 0
  /\ total' = (total + Sum(heard)) % ChecksumMod
  /\ heard' = <<>> /\ leftover' = FALSE
  /\ UNCHANGED <<selection, fileReceiver, fileChecksum, miscounted, renamed>>

NegAckSection(c) ==
  /\ checked = "WAITING_FOR_SECTION_ACK"
  /\ currentSectionOffset' = 0 /\ sectionChecksum' = 0
  /\ lastSent' = ASDU("sectionReady", c, name, currentSectionNumber, 0)
  /\ StampLastSendTime
  /\ state' = "TRANSMIT_SECTION"
  /\ heard' = <<>> /\ leftover' = FALSE /\ miscounted' = TRUE
  /\ UNCHANGED <<selection, fileReceiver, currentSectionNumber, currentSectionSize, fileChecksum, total, renamed>>

(* An ACK that fits to nothing.  No one sends the abort: the state is left *)
(* by the timeout, or by a new F_FR_NA_1.                                  *)
UnexpectedAck(awaited) ==
  /\ checked \notin {"UNSELECTED_IDLE", awaited}
  /\ state' = "SEND_ABORT"
  /\ AbandonSection
  /\ UNCHANGED <<selection, fileReceiver, section, checksums, expired, lastSent, heard, total, miscounted, renamed>>

-----------------------------------------------------------------------------
(* A file ASDU that the state does not ask for, that cannot be decoded, or *)
(* has another cause of transmission is ignored; an ACK without a transfer *)
(* is refused.                                                             *)
HandleOther(c) ==
  Ignore /\ (UNCHANGED lastSent \/ (checked = "UNSELECTED_IDLE" /\ Refuse(c)))

(* Nothing depends on the number and the size of a section received.       *)
handleAsdu(c) ==
  \/ \E f \in Files : HandleFileReady(c, f) \/ SelectFile(c, f) \/ RefuseCall(c, f)
                      \/ CallFile(c, f) \/ SkipSection(c, f)
  \/ \E f \in Files, nos \in 0..3 : CallSection(c, f, nos)
  \/ HandleSectionReady(c, 1, MaxReceived) \/ HandleSegment(c, 1)
  \/ HandleLastSection(c, 1) \/ HandleLastFile(c, 1)
  \/ HandleAbort \/ DeactivateFile
  \/ AckFile \/ AckSection(c) \/ NegAckSection(c)
  \/ \E awaited \in {"WAITING_FOR_FILE_ACK", "WAITING_FOR_SECTION_ACK"} : UnexpectedAck(awaited)
  \/ HandleOther(c)

-----------------------------------------------------------------------------
(* runTask, called by the thread of each connection                        *)

transmitsTo(c) == state = "TRANSMIT_SECTION" /\ selectedConnection = c /\ selectedFile # None

sendSegment(c) ==
  LET last == IF currentSectionOffset + maxSegmentSize < currentSectionSize
                THEN currentSectionOffset + maxSegmentSize ELSE currentSectionSize
      bytes == SubSeq(Sections[selectedFile][currentSectionNumber], currentSectionOffset + 1, last)
  IN  /\ transmitsTo(c) /\ currentSectionOffset < currentSectionSize
      /\ lastSent' = ASDU("segment", c, name, currentSectionNumber, 0)
      /\ currentSectionOffset' = last
      /\ sectionChecksum' = (sectionChecksum + Sum(bytes)) % ChecksumMod
      /\ heard' = heard \o bytes
      /\ StampLastSendTime
      /\ UNCHANGED <<state, selection, fileReceiver, currentSectionNumber, currentSectionSize, fileChecksum,
                     total, leftover, miscounted, renamed>>

sendLastSegment(c) ==
  /\ transmitsTo(c) /\ currentSectionOffset >= currentSectionSize
  /\ lastSent' = ASDU("lastSegment", c, name, currentSectionNumber, sectionChecksum)
  /\ fileChecksum' = (fileChecksum + sectionChecksum) % ChecksumMod
  /\ sectionChecksum' = 0
  /\ StampLastSendTime
  /\ state' = "WAITING_FOR_SECTION_ACK"
  /\ miscounted' = (miscounted \/ leftover)
  /\ UNCHANGED <<selection, fileReceiver, section, heard, total, leftover, renamed>>

(* A segment just sent has renewed lastSendTime. *)
AbortTransfer(c) ==
  /\ state # "UNSELECTED_IDLE" /\ ~transmitsTo(c)
  /\ expired
  /\ state' = "UNSELECTED_IDLE"
  /\ AbandonSection
  /\ UNCHANGED <<selection, fileReceiver, section, checksums, expired, lastSent, heard, total, miscounted, renamed>>

(* Mutant: the timeout is checked when a file ASDU arrives only. *)
runTask_noTimeout(c) == sendSegment(c) \/ sendLastSegment(c)

runTask(c) == sendSegment(c) \/ sendLastSegment(c) \/ AbortTransfer(c)

-----------------------------------------------------------------------------
Next == TimePasses \/ \E c \in Clients : handleAsdu(c) \/ runTask(c)

(* Clocks run, and while a connection is open its thread calls runTask     *)
(* again and again.                                                        *)
Fairness == WF_vars(TimePasses) /\ WF_vars(\E c \in Clients : runTask(c))

Spec == Init /\ [][Next]_vars /\ Fairness

-----------------------------------------------------------------------------
(* Types; and whoever sends what, a state in which the server uses the     *)
(* selected file without a check has one.                                  *)
TypeOK ==
  /\ state \in {"UNSELECTED_IDLE", "WAITING_FOR_FILE_CALL", "WAITING_FOR_SECTION_CALL", "TRANSMIT_SECTION",
                "WAITING_FOR_SECTION_ACK", "WAITING_FOR_FILE_ACK", "SEND_ABORT",
                "WAITING_FOR_SECTION_READY", "RECEIVE_SECTION"}
  /\ name \in Files \cup {None} /\ fileReceiver \in Files \cup {None}
  /\ selectedConnection \in Clients \cup {None}
  /\ sectionChecksum \in 0..(ChecksumMod - 1) /\ fileChecksum \in 0..(ChecksumMod - 1)
  /\ currentSectionNumber \in Nat /\ currentSectionOffset \in Nat /\ currentSectionSize \in Nat
  /\ state \in {"WAITING_FOR_FILE_CALL", "WAITING_FOR_SECTION_CALL", "TRANSMIT_SECTION",
                "WAITING_FOR_SECTION_ACK", "WAITING_FOR_FILE_ACK"}
       => selectedFile \in DOMAIN Sections /\ selectedConnection # None

(* Whatever the masters do in between, the segments of a section go to the *)
(* one that selected the file, are the data of the section called, in      *)
(* order, and all of them before the last segment is announced.  The name  *)
(* of the file on them is the right one unless the announcement of another *)
(* file was refused during the transfer.  The checksum of a section is     *)
(* that of its data, unless a transfer broke off within a section before,  *)
(* for nothing resets sectionChecksum then; that of the file counts each   *)
(* section acknowledged once, unless one was repeated after a negative     *)
(* ACK, for fileChecksum has counted it already.                           *)
TransferAsCalled ==
  /\ [](state \in {"TRANSMIT_SECTION", "WAITING_FOR_SECTION_ACK"} =>
          LET data == Sections[selectedFile][currentSectionNumber]
          IN  /\ heard = SubSeq(data, 1, currentSectionOffset)
              /\ state = "WAITING_FOR_SECTION_ACK" => heard = data)
  /\ [](lastSent.type = "lastSegment" /\ state = "WAITING_FOR_SECTION_ACK"
          => lastSent.chs = Sum(heard) \/ leftover)
  /\ [](lastSent.type = "lastSection" /\ state = "WAITING_FOR_FILE_ACK"
          => lastSent.chs = total \/ miscounted)
  /\ [][lastSent'.type \in {"segment", "lastSegment"} /\ lastSent' # lastSent
          => /\ lastSent'.to = selectedConnection
             /\ lastSent'.file = selectedFile \/ renamed]_vars

(* When the masters fall silent, whatever the state, the timeout ends the  *)
(* transfer: no state waits forever and the service can be used again.     *)
Quiet == TimePasses \/ \E c \in Clients : runTask(c)

TransferEnds == <>[][Quiet]_vars => <>[](state = "UNSELECTED_IDLE")
=============================================================================
