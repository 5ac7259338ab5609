---------------------------- MODULE MmcTransfer ----------------------------
(***************************************************************************)
(* Requests on an initialised eMMC: the command layer of Protocol.c        *)
(* (SdhcSendCommand, SdhcSendDataCommand, SdhcRecoverFromErrors), IoBlocks *)
(* of BlockIo.c and RpmbRequest of RpmbIo.c, against a device whose        *)
(* commands may be lost, or carried out and reported as failed.            *)
(*                                                                         *)
(* A request issues one command at a time.  Only data commands and SWITCH  *)
(* have further commands sent on their behalf (STOP_TRANSMISSION and       *)
(* SEND_STATUS), so one command record with a phase stands for the call    *)
(* chain.  SoftReset, the last resort of error recovery, appears by its    *)
(* outcome; SdMmcSlot has its detail.                                      *)
(***************************************************************************)
EXTENDS Integers, Sequences

CONSTANTS
  Lbas,       \* first block addresses requested, in units of one transfer
  MaxChunks,  \* bound: transfers of MaxTransferSize in a block request
  Retries,    \* DataCommandRetryCount
  MaxFaults   \* bound: failing commands, line resets and SoftResets

ASSUME TransferAssumption ==
  /\ Lbas \subseteq Nat
  /\ MaxChunks \in Nat \ {0}
  /\ Retries \in Nat \ {0}
  /\ MaxFaults \in Nat

VARIABLES
  op,      \* the request being served, or the outcome of the last one
  cmd,     \* the command in progress for it
  mmc,     \* the device
  drv,     \* the fields of SDHC_INSTANCE the request depends on
  moved,   \* block data moved for op: where on the device, and which part
  givenUp, \* parts of op that failed on every try
  faults

vars == <<op, cmd, mmc, drv, moved, givenUp, faults>>

Partitions == {"User", "Rpmb"}
BlockKinds == {"Read", "Write"}
RpmbKinds == {"RpmbRead", "RpmbWrite"}

(* The commands of an RPMB request.  RpmbRead asks and collects; RpmbWrite *)
(* sends the request and then asks for its result with an RpmbRead.        *)
Script(kind) ==
  CASE kind = "RpmbRead" ->
         <<"switchIn", "verifyIn", "setBlockCount", "request",
           "setBlockCount", "answer", "switchOut", "verifyOut">>
    [] kind = "RpmbWrite" ->
         <<"switchIn", "verifyIn", "setBlockCount", "request",
           "setBlockCount", "askResult", "setBlockCount", "answer",
           "switchOut", "verifyOut">>
    [] OTHER -> <<"block">>

SwitchOutPos(kind) == Len(Script(kind)) - 1

Op == [kind   : BlockKinds \cup RpmbKinds,
       pending : BOOLEAN,              \* FALSE once it has returned
       pos    : 1 .. 10,               \* position in the script
       saved  : Partitions,            \* RpmbRequest: CurrentPartition
       failed : BOOLEAN,               \* EFI_ERROR (Status)
       first  : Lbas,                  \* IoBlocks: Lba
       count  : 1 .. MaxChunks,        \* IoBlocks: BufferSize
       multi  : BOOLEAN,               \* IoBlocks: BlockCount # 1
       next   : 0 .. MaxChunks,        \* IoBlocks: CurrentBuffer
       lba    : Nat,                   \* IoBlocks: CurrentLba
       retry  : 0 .. Retries,          \* IoBlocks: Retry
       suspect : BOOLEAN]              \* history: drv.suspect at the start

Phases == {"none", "send", "stop", "wait", "innerReset", "reset", "status",
           "abort", "ok", "error"}

Cmd == [name : {"none", "SWITCH", "EXT_CSD", "SET_BLOCK_COUNT", "SINGLE", "MULTI"},
        phase : Phases,
        then : {"none", "reset", "error"}] \* where an inner command's failure leads

Mmc == [partition : Partitions,
        state  : {"tran", "xfer", "idle"}, \* xfer: data or rcv, until STOP
        armed  : BOOLEAN,                  \* SET_BLOCK_COUNT precedes
        applied : Nat,                     \* times op's RPMB request was executed
        answer : {"none", "request", "result"}] \* what the next RPMB read returns

Drv == [current : Partitions,             \* CurrentMmcPartition
        up      : BOOLEAN,                \* SlotInitialized, BlockSize # 0
        last    : {"SET_BLOCK_COUNT", "other"}, \* LastSuccessfulCmd
        preLast : {"SET_BLOCK_COUNT", "other"}, \* PreLastSuccessfulCmd
        suspect : BOOLEAN] \* history: an RPMB request has reported an error
                           \* since the last SoftReset

TypeOK ==
  /\ op \in Op /\ cmd \in Cmd /\ mmc \in Mmc /\ drv \in Drv
  /\ moved \subseteq [partition : Partitions, lba : Nat, part : 0 .. MaxChunks]
  /\ givenUp \subseteq 0 .. MaxChunks
  /\ faults \in 0 .. MaxFaults

NoCmd == [name |-> "none", phase |-> "none", then |-> "none"]

Init ==
  /\ op \in [kind : {"Read"}, pending : {FALSE}, pos : {1}, saved : {"User"},
             failed : {TRUE}, first : Lbas, count : {1}, multi : {FALSE},
             next : {0}, lba : {0}, retry : {0}, suspect : {FALSE}]
  /\ cmd = NoCmd
  /\ mmc = [partition |-> "User", state |-> "tran", armed |-> FALSE,
            applied |-> 0, answer |-> "none"]
  /\ drv = [current |-> "User", up |-> TRUE, last |-> "other",
            preLast |-> "other", suspect |-> FALSE]
  /\ moved = {}
  /\ givenUp = {}
  /\ faults = 0

-----------------------------------------------------------------------------
(* The command layer.                                                      *)

Faults(n) == faults + n <= MaxFaults /\ faults' = faults + n
At(phase) == cmd.phase = phase
Goto(phase) == cmd' = [cmd EXCEPT !.phase = phase]

IsData == cmd.name \in {"EXT_CSD", "SINGLE", "MULTI"}
StepName == Script(op.kind)[op.pos]

Target == IF StepName = "switchIn" THEN "Rpmb" ELSE op.saved

(* What the device does with the command of the current step, when it is   *)
(* in a state to accept it: the data of a MULTI without SET_BLOCK_COUNT    *)
(* flows until STOP_TRANSMISSION.                                          *)
DeviceTakes ==
  mmc' = [mmc EXCEPT
    !.armed = cmd.name = "SET_BLOCK_COUNT",
    !.partition = IF cmd.name = "SWITCH" THEN Target ELSE @,
    !.state = IF cmd.name = "MULTI" /\ ~mmc.armed THEN "xfer" ELSE @,
    !.applied = IF StepName = "request" THEN @ + 1 ELSE @,
    !.answer = CASE StepName = "request" ->
                      (IF op.kind = "RpmbRead" THEN "request" ELSE "none")
                 [] StepName = "askResult" -> "result"
                 [] StepName = "answer" -> "none"
                 [] OTHER -> @]

DeviceIgnores ==
  mmc' = [mmc EXCEPT !.armed = FALSE]

(* SdhcSendCommandHelper, successful: the command history moves on.        *)
Remember(c) ==
  drv' = [drv EXCEPT !.preLast = drv.last,
                     !.last = IF c = "SET_BLOCK_COUNT" THEN c ELSE "other"]

(* A block transfer counts when it completes; an RPMB frame as soon as the *)
(* device has taken it.                                                    *)
Moved(complete) ==
  moved' = IF cmd.name \in {"SINGLE", "MULTI"} /\ (complete \/ op.kind \in RpmbKinds)
             THEN moved \cup {[partition |-> mmc.partition, lba |-> op.lba,
                               part |-> op.next]}
             ELSE moved

(* Open-ended or not, as SdhcSendDataCommand decides it after the data.    *)
AfterData ==
  IF cmd.name = "MULTI" /\ drv'.preLast # "SET_BLOCK_COUNT" THEN "stop" ELSE "wait"

AfterNoData == IF cmd.name = "SWITCH" THEN "wait" ELSE "ok"

(* A SWITCH answered without error may still have had no effect.           *)
SendGood ==
  /\ At("send")
  /\ mmc.state = "tran"
  /\ \/ DeviceTakes /\ Faults(0)
     \/ cmd.name = "SWITCH" /\ DeviceIgnores /\ Faults(1)
  /\ Remember(cmd.name)
  /\ Moved(TRUE)
  /\ Goto(IF IsData THEN AfterData ELSE AfterNoData)
  /\ UNCHANGED <<op, givenUp>>

(* No valid response: the device refused the command, missed it, or took   *)
(* it and the response was lost.                                           *)
SendFails ==
  /\ At("send")
  /\ \/ /\ IF mmc.state = "tran" THEN Faults(1) ELSE Faults(0)
        /\ UNCHANGED <<mmc, moved>>
     \/ mmc.state = "tran" /\ Faults(1) /\ DeviceTakes /\ Moved(FALSE)
  /\ Goto("reset")
  /\ UNCHANGED <<op, drv, givenUp>>

(* The command is accepted and ReadBlockData or WriteBlockData fails.  A   *)
(* block count armed by someone else may also cut the data short.          *)
DataFails ==
  /\ At("send")
  /\ mmc.state = "tran"
  /\ IsData
  /\ Faults(IF mmc.armed /\ op.kind \in BlockKinds THEN 0 ELSE 1)
  /\ DeviceTakes
  /\ Moved(FALSE)
  /\ Remember(cmd.name)
  /\ Goto("reset")
  /\ UNCHANGED <<op, givenUp>>

(* An inner command (STOP_TRANSMISSION, SEND_STATUS) fails: its own error  *)
(* recovery runs first, then the caller continues at phase "then".         *)
InnerFails(then) == cmd' = [cmd EXCEPT !.phase = "innerReset", !.then = then]

(* The device answers inner commands only while the driver knows its RCA.  *)
Answers == drv.up /\ mmc.state # "idle"

SendStatusFails(then) ==
  /\ IF Answers THEN Faults(1) ELSE Faults(0)
  /\ InnerFails(then)
  /\ \/ UNCHANGED mmc
     \/ Answers /\ DeviceIgnores
  /\ UNCHANGED drv

(* SdhcStopTransmission, after the data of an open-ended transfer and in   *)
(* error recovery.                                                         *)
StopTransmission(here, Succeeds, then) ==
  /\ At(here)
  /\ \/ /\ Answers /\ mmc.state = "xfer"
        /\ mmc' = [mmc EXCEPT !.state = "tran", !.armed = FALSE]
        /\ Remember("STOP_TRANSMISSION")
        /\ Succeeds
        /\ Faults(0)
     \/ /\ Faults(IF Answers /\ mmc.state = "xfer" THEN 1 ELSE 0)
        /\ \/ UNCHANGED mmc
           \/ Answers /\ mmc.state = "xfer" /\ mmc' = [mmc EXCEPT !.state = "tran"]
        /\ InnerFails(then)
        /\ UNCHANGED drv
  /\ UNCHANGED <<op, moved, givenUp>>

(* SdhcWaitForTranStateAndReadyForData.  A time-out needs no failing       *)
(* command; after a data command it leads to error recovery, after SWITCH  *)
(* it is returned as it is.                                                *)
WaitForTran ==
  /\ At("wait")
  /\ \/ /\ Answers /\ mmc.state = "tran"
        /\ Goto("ok")
        /\ Faults(0) /\ Remember("SEND_STATUS") /\ DeviceIgnores
     \/ /\ Answers
        /\ Goto(IF IsData THEN "reset" ELSE "error")
        /\ IF mmc.state = "tran" THEN Faults(1) ELSE Faults(0)
        /\ drv' = [drv EXCEPT !.preLast = "other", !.last = "other"]
        /\ DeviceIgnores
     \/ SendStatusFails(IF IsData THEN "reset" ELSE "error")
  /\ UNCHANGED <<op, moved, givenUp>>

-----------------------------------------------------------------------------
(* SdhcRecoverFromErrors.                                                  *)

SoftResetSucceeds ==
  /\ mmc' = [mmc EXCEPT !.partition = "User", !.state = "tran",
                        !.armed = FALSE, !.answer = "none"]
  /\ drv' = [current |-> "User", up |-> TRUE, last |-> "other",
             preLast |-> "other", suspect |-> FALSE]

(* The device may not even have seen GO_IDLE_STATE.                        *)
SoftResetFails ==
  /\ \/ UNCHANGED mmc
     \/ mmc' = [mmc EXCEPT !.partition = "User", !.state = "idle",
                           !.armed = FALSE, !.answer = "none"]
  /\ \/ drv' = [drv EXCEPT !.up = FALSE]
     \/ drv' = [drv EXCEPT !.up = FALSE, !.last = "other", !.preLast = "other"]

ResetLines(then, onFail) ==
  \/ /\ Faults(0)
     /\ Goto(then)
     /\ UNCHANGED <<mmc, drv>>
  \/ /\ Faults(1)
     /\ Goto(then)
     /\ SoftResetSucceeds
  \/ /\ Faults(2)
     /\ Goto(onFail)
     /\ SoftResetFails

Recover ==
  /\ At("reset")
  /\ ResetLines(IF cmd.name = "MULTI" THEN "status" ELSE "error", "error")
  /\ UNCHANGED <<op, moved, givenUp>>

RecoverInner ==
  /\ At("innerReset")
  /\ ResetLines(cmd.then, cmd.then)
  /\ UNCHANGED <<op, moved, givenUp>>

RecoverStatus ==
  /\ At("status")
  /\ \/ /\ Answers
        /\ Goto(IF mmc.state = "tran" THEN "error" ELSE "abort")
        /\ Faults(0) /\ Remember("SEND_STATUS") /\ DeviceIgnores
     \/ SendStatusFails("error")
  /\ UNCHANGED <<op, moved, givenUp>>

SdhcStopTransmission ==
  \/ StopTransmission("stop", Goto("wait"), "reset")
  \/ StopTransmission("abort", Goto("error"), "error")

-----------------------------------------------------------------------------
(* Requests.                                                               *)

CommandOf(o) ==
  LET step == Script(o.kind)[o.pos]
  IN CASE step \in {"switchIn", "switchOut"} -> "SWITCH"
       [] step \in {"verifyIn", "verifyOut"} -> "EXT_CSD"
       [] step = "setBlockCount" -> "SET_BLOCK_COUNT"
       [] step = "block" -> (IF o.multi THEN "MULTI" ELSE "SINGLE")
       [] OTHER -> "MULTI"

Issue(o) ==
  /\ op' = o
  /\ cmd' = [name |-> CommandOf(o), phase |-> "send", then |-> "none"]

Done(o) ==
  /\ op' = [o EXCEPT !.pending = FALSE]
  /\ cmd' = NoCmd

Start(o) ==
  /\ ~op.pending
  /\ drv.up
  /\ Issue(o)
  /\ moved' = {}
  /\ givenUp' = {}
  /\ mmc' = [mmc EXCEPT !.applied = 0]
  /\ UNCHANGED <<drv, faults>>

(* IoBlocks, its parameter checks passed, for n transfers.                 *)
IoBlocks(kind, lba, n, multi) ==
  /\ n > 1 => multi
  /\ Start([kind |-> kind, pending |-> TRUE, pos |-> 1, saved |-> "User",
            failed |-> FALSE, first |-> lba, count |-> n, multi |-> multi,
            next |-> 0, lba |-> lba, retry |-> 0, suspect |-> drv.suspect])

RpmbRequest(kind) ==
  \E lba \in Lbas :
    Start([kind |-> kind, pending |-> TRUE, pos |-> 1, saved |-> drv.current,
           failed |-> FALSE, first |-> lba, count |-> 1, multi |-> FALSE,
           next |-> 0, lba |-> 0, retry |-> 0, suspect |-> drv.suspect])

NextTransferPastEnd(failed) == \* mutant: <= for < in the loop of IoBlocks
  LET o == [op EXCEPT !.next = @ + 1, !.retry = 0, !.failed = failed, !.lba = @ + 1]
  IN IF o.next <= o.count THEN Issue(o) ELSE Done(o)

(* The loop of IoBlocks goes on to the next transfer whatever the status.  *)
(* CurrentLba advances by size / BlockSize; a failed SoftReset has left    *)
(* BlockSize 0, and the AArch64 quotient of a division by 0 is 0.          *)
NextTransfer(failed) ==
  LET o == [op EXCEPT !.next = @ + 1, !.retry = 0, !.failed = failed,
                      !.lba = IF drv.up THEN @ + 1 ELSE @]
  IN IF o.next < o.count THEN Issue(o) ELSE Done(o)

BlockDone ==
  /\ At("ok") /\ op.kind \in BlockKinds
  /\ NextTransfer(FALSE)
  /\ UNCHANGED <<mmc, drv, moved, givenUp, faults>>

BlockFailsAdvancing == \* mutant: CurrentLba advances with each try
  /\ At("error") /\ op.kind \in BlockKinds
  /\ IF op.retry + 1 < Retries
       THEN /\ Issue([op EXCEPT !.retry = @ + 1, !.lba = @ + 1])
            /\ UNCHANGED givenUp
       ELSE /\ NextTransfer(TRUE)
            /\ givenUp' = givenUp \cup {op.next}
  /\ UNCHANGED <<mmc, drv, moved, faults>>

BlockFailsForever == \* mutant: the tries are not counted
  /\ At("error") /\ op.kind \in BlockKinds
  /\ Issue(op)
  /\ UNCHANGED <<mmc, drv, moved, givenUp, faults>>

BlockFails ==
  /\ At("error") /\ op.kind \in BlockKinds
  /\ IF op.retry + 1 < Retries
       THEN /\ Issue([op EXCEPT !.retry = @ + 1])
            /\ UNCHANGED givenUp
       ELSE /\ NextTransfer(TRUE)
            /\ givenUp' = givenUp \cup {op.next}
  /\ UNCHANGED <<mmc, drv, moved, faults>>

ReturnRpmb(failed) ==
  /\ Done([op EXCEPT !.failed = failed])
  /\ drv' = [drv EXCEPT !.suspect = @ \/ failed,
                        !.current = IF StepName = "verifyOut" /\ At("ok")
                                       /\ mmc.partition = op.saved
                                      THEN op.saved ELSE @]

Unverified(target) == At("ok") \* mutant

(* SdhcSwitchPartitionMmc: the EXT_CSD read after SWITCH must show the     *)
(* partition, and only then is CurrentMmcPartition updated.                *)
Verified(target) == At("ok") /\ mmc.partition = target

RpmbDone ==
  /\ At("ok") /\ op.kind \in RpmbKinds
  /\ CASE StepName = "verifyIn" /\ Verified("Rpmb") ->
            /\ Issue([op EXCEPT !.pos = @ + 1])
            /\ drv' = [drv EXCEPT !.current = "Rpmb"]
       [] StepName = "verifyIn" /\ ~Verified("Rpmb") -> ReturnRpmb(TRUE)
       [] StepName = "verifyOut" ->
            ReturnRpmb(op.failed \/ ~Verified(op.saved))
       [] OTHER ->
            /\ Issue([op EXCEPT !.pos = @ + 1])
            /\ UNCHANGED drv
  /\ UNCHANGED <<mmc, moved, givenUp, faults>>

RpmbRetries == \* mutant: the RPMB sequence is retried like block transfers
  /\ At("error") /\ op.kind \in RpmbKinds
  /\ IF StepName \in {"switchIn", "verifyIn", "switchOut", "verifyOut"}
       THEN ReturnRpmb(TRUE)
       ELSE /\ IF op.retry + 1 < Retries
                 THEN Issue([op EXCEPT !.retry = @ + 1, !.pos = 3])
                 ELSE Issue([op EXCEPT !.failed = TRUE, !.pos = SwitchOutPos(op.kind)])
            /\ UNCHANGED drv
  /\ UNCHANGED <<mmc, moved, givenUp, faults>>

RpmbSwitchBackIgnored == \* mutant: only the status of the sequence is returned
  /\ At("error") /\ op.kind \in RpmbKinds
  /\ CASE StepName \in {"switchIn", "verifyIn"} -> ReturnRpmb(TRUE)
       [] StepName \in {"switchOut", "verifyOut"} -> ReturnRpmb(op.failed)
       [] OTHER ->
            /\ Issue([op EXCEPT !.failed = TRUE, !.pos = SwitchOutPos(op.kind)])
            /\ UNCHANGED drv
  /\ UNCHANGED <<mmc, moved, givenUp, faults>>

(* A failed switch to the RPMB partition returns at once; a failure of the *)
(* sequence switches back first; its error prevails over the switch back.  *)
RpmbFails ==
  /\ At("error") /\ op.kind \in RpmbKinds
  /\ IF StepName \in {"switchIn", "verifyIn", "switchOut", "verifyOut"}
       THEN ReturnRpmb(TRUE)
       ELSE /\ Issue([op EXCEPT !.failed = TRUE, !.pos = SwitchOutPos(op.kind)])
            /\ UNCHANGED drv
  /\ UNCHANGED <<mmc, moved, givenUp, faults>>

(* A slot whose SoftReset failed serves requests again once its card has   *)
(* been taken out and put back, which the card check answers by SoftReset. *)
CardReinserted ==
  /\ ~op.pending
  /\ ~drv.up
  /\ SoftResetSucceeds
  /\ UNCHANGED <<op, cmd, moved, givenUp, faults>>

Callers ==
  \/ \E kind \in BlockKinds, lba \in Lbas, n \in 1 .. MaxChunks, multi \in BOOLEAN :
       IoBlocks(kind, lba, n, multi)
  \/ \E kind \in RpmbKinds : RpmbRequest(kind)

Step ==
  \/ SendGood \/ SendFails \/ DataFails
  \/ SdhcStopTransmission \/ WaitForTran
  \/ Recover \/ RecoverInner \/ RecoverStatus
  \/ BlockDone \/ BlockFails \/ RpmbDone \/ RpmbFails

Next == Callers \/ CardReinserted \/ Step

(* The driver runs a request to its end on the one processor.              *)
Spec == Init /\ [][Next]_vars /\ WF_vars(Step)

-----------------------------------------------------------------------------
(* Properties.                                                             *)

Succeeded == ~op.pending /\ ~op.failed

InPlace(part) == [partition |-> "User", lba |-> op.first + part, part |-> part] \in moved

(* A block request that reports success without having given up a part has *)
(* moved each of its parts at its own address of the user area, through    *)
(* retries, transfers left open and soft resets.                           *)
SuccessMeansMoved ==
  op.kind \in BlockKinds /\ Succeeded /\ givenUp = {} /\ ~op.suspect
    => \A part \in 0 .. op.count - 1 : InPlace(part)

(* "All blocks are written, or an error is returned." (BlockIo.c): success *)
(* leaves no part of the request behind.                                   *)
AllBlocksOrError ==
  op.kind \in BlockKinds /\ Succeeded /\ ~op.suspect
    => \A part \in 0 .. op.count - 1 : InPlace(part)

(* RPMB frames reach the RPMB partition only: no failed or ignored switch, *)
(* soft reset or stale record lets one be written over the user area.      *)
FramesStayInRpmb ==
  op.kind \in RpmbKinds => \A m \in moved : m.partition = "Rpmb"

(* The device executes an RPMB request at most once, and one that reports  *)
(* success exactly once, with its own answer collected.                    *)
RpmbOnce ==
  op.kind \in RpmbKinds =>
    /\ mmc.applied <= 1
    /\ Succeeded => mmc.applied = 1 /\ mmc.answer = "none"

(* Between requests the device is on another partition than the driver's   *)
(* record says, or than the user area, only after an RPMB request that     *)
(* reported an error: no block request meets a drift nobody was told of.   *)
DriftIsReported ==
  ~op.pending /\ drv.up
    /\ (mmc.partition # drv.current \/ drv.current # "User") => drv.suspect

(* "SdhostSwitchPartitionMmc will keep track of that variable" (SdMmc.c):  *)
(* between requests CurrentMmcPartition is the partition of the device.    *)
PartitionTracked ==
  ~op.pending /\ drv.up => drv.current = mmc.partition

(* Every request returns, whatever fails: retries and recovery are bounded *)
(* and end with the device in a state the driver can leave.                *)
Terminates == op.pending ~> ~op.pending
=============================================================================
