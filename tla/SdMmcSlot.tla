----------------------------- MODULE SdMmcSlot -----------------------------
(***************************************************************************)
(* Life cycle of the slots managed by SdMmcDxe (SdMmc.c, with the calls    *)
(* that BlockIo.c and Protocol.c make into it): driver start and stop, the *)
(* periodic card check, SoftReset with the recursion through error         *)
(* recovery, and the protocol interfaces published on each host's handle.  *)
(*                                                                         *)
(* UEFI boot services run on one processor.  Execution is therefore one    *)
(* stack of activations: a call pushes a frame, and the card-check timer   *)
(* (TPL_CALLBACK) may push its own frame on top of any activation that     *)
(* runs at TPL_APPLICATION.  The frame on top is the only one that steps;  *)
(* cards may be inserted or ejected between any two steps.                 *)
(***************************************************************************)
EXTENDS Naturals, Sequences, FiniteSets, Functions

CONSTANTS
  Hosts,             \* SDHC controllers, each with one slot
  SdCards, MmcCards, \* cards that can be put in a slot, by function
  NoCard,            \* an empty slot, and the MediaId of a slot not initialised
  CallerTpls,        \* task priority levels of the callers of the driver
  RecoveryThreshold, \* SDMMC_ERROR_RECOVERY_ATTEMPT_THRESHOLD
  MaxChunks,         \* bound: transfers (chunks) of one block I/O request
  MaxFaults,         \* bound: failing services and commands
  MaxCardEvents      \* bound: card insertions and ejections

Cards == SdCards \cup MmcCards

Tpls == {"APPLICATION", "CALLBACK"}

ASSUME SlotAssumption ==
  /\ SdCards \cap MmcCards = {}
  /\ NoCard \notin Cards
  /\ CallerTpls \subseteq Tpls
  /\ RecoveryThreshold \in Nat
  /\ MaxChunks \in Nat \ {0}
  /\ MaxFaults \in Nat
  /\ MaxCardEvents \in Nat

Protocols == {"BlockIo", "DevicePath", "RpmbIo"}

VARIABLES
  card,     \* card[h]: the card physically in the slot of h
  ready,    \* ready[h]: that card has gone through identification
  bound,    \* controllers whose SDHC protocol the driver holds BY_DRIVER
  pool,     \* gSdhcInstancePool
  slot,     \* slot[h]: the fields of SDHC_INSTANCE that this module uses
  db,       \* db[h]: the interfaces installed on the handle of h
  stack,    \* the activations, the running one last
  faults, cardEvents

vars == <<card, ready, bound, pool, slot, db, stack, faults, cardEvents>>

Slot == [initialized  : BOOLEAN,             \* SlotInitialized
         mediaPresent : BOOLEAN,             \* BlockIo.Media->MediaPresent
         mediaId      : Cards \cup {NoCard}, \* BlockIo.Media->MediaId
         cardFunction : {"Unknown", "Sd", "Mmc"},
         installed    : SUBSET Protocols,    \* the three ...ProtocolInstalled
         recovery     : Nat]                 \* ErrorRecoveryAttemptCount

NewSlot == [initialized |-> FALSE, mediaPresent |-> FALSE, mediaId |-> NoCard,
            cardFunction |-> "Unknown", installed |-> {}, recovery |-> 0]

UninstallPcs == {"unBlockIo", "unRpmbIo", "unDevicePath"}
ResetPcs == UninstallPcs \cup
            {"clear", "sense", "installAbsent", "init", "commands",
             "installBlockIo", "installDevicePath", "askRpmb", "installRpmb",
             "exit", "exitRpmbIo", "exitDevicePath"}
RecoveryPcs == {"recovered", "ioStatus", "ioRecovered", "statusRecovered"}
Pcs == ResetPcs \cup RecoveryPcs \cup {"scan", "chunk", "status", "destroy"}

Frame == [proc  : {"Check", "Reset", "Stop", "Io", "Rpmb", "Status"},
          pc    : Pcs,
          host  : Hosts,
          tpl   : Tpls,
          next  : Nat \ {0},           \* Check: position in the pool
          media : Cards \cup {NoCard}, \* Io: the MediaId argument
          left  : 0 .. MaxChunks]      \* Io: chunks, Rpmb: commands still to send

TypeOK ==
  /\ card \in [Hosts -> Cards \cup {NoCard}]
  /\ ready \in [Hosts -> BOOLEAN]
  /\ bound \subseteq Hosts
  /\ pool \in Seq(Hosts)
  /\ slot \in [Hosts -> Slot]
  /\ db \in [Hosts -> SUBSET Protocols]
  /\ stack \in Seq(Frame)
  /\ faults \in 0 .. MaxFaults
  /\ cardEvents \in 0 .. MaxCardEvents

Init ==
  /\ card \in [Hosts -> Cards \cup {NoCard}]
  /\ \A g, h \in Hosts : g # h /\ card[g] # NoCard => card[g] # card[h]
  /\ ready = [h \in Hosts |-> FALSE]
  /\ bound = {}
  /\ pool = <<>>
  /\ slot = [h \in Hosts |-> NewSlot]
  /\ db = [h \in Hosts |-> {}]
  /\ stack = <<>>
  /\ faults = 0
  /\ cardEvents = 0

-----------------------------------------------------------------------------
(* Activations.                                                            *)

Top == stack[Len(stack)]
Idle == stack = <<>>
At(pc) == ~Idle /\ Top.pc = pc

Call(frame) == stack' = Append(stack, frame)
Return == stack' = SubSeq(stack, 1, Len(stack) - 1)
Goto(pc) == stack' = [stack EXCEPT ![Len(stack)].pc = pc]
SuspendAndCall(frame, caller) ==
  stack' = Append([stack EXCEPT ![Len(stack)] = caller], frame)

NewFrame(proc, pc, h, tpl) ==
  [proc |-> proc, pc |-> pc, host |-> h, tpl |-> tpl,
   next |-> 1, media |-> NoCard, left |-> 0]

SoftResetKeepingBlockIo(h, tpl) == NewFrame("Reset", "unRpmbIo", h, tpl) \* mutant
SoftReset(h, tpl) == NewFrame("Reset", "unBlockIo", h, tpl)

Fault == faults < MaxFaults /\ faults' = faults + 1
NoFault == UNCHANGED faults

hardware == <<card, ready, cardEvents>>
driver == <<bound, pool>>

-----------------------------------------------------------------------------
(* The slots.                                                              *)

EjectCard(h) ==
  /\ cardEvents < MaxCardEvents /\ cardEvents' = cardEvents + 1
  /\ card[h] # NoCard
  /\ card' = [card EXCEPT ![h] = NoCard]
  /\ ready' = [ready EXCEPT ![h] = FALSE]
  /\ UNCHANGED <<driver, slot, db, stack, faults>>

InsertCard(h, c) ==
  /\ cardEvents < MaxCardEvents /\ cardEvents' = cardEvents + 1
  /\ card[h] = NoCard
  /\ c \notin Range(card)
  /\ card' = [card EXCEPT ![h] = c]
  /\ UNCHANGED <<ready, driver, slot, db, stack, faults>>

-----------------------------------------------------------------------------
(* CheckCardsCallback: run by the timer, and called directly by the start  *)
(* entry point.  A pass visits the instances in pool order and resets      *)
(* those whose MediaPresent disagrees with the slot.                       *)

TimerTick ==
  /\ \A i \in 1 .. Len(stack) : stack[i].tpl = "APPLICATION"
  /\ pool # <<>>
  /\ Call(NewFrame("Check", "scan", pool[1], "CALLBACK"))
  /\ UNCHANGED <<hardware, driver, slot, db, faults>>

CardEjectedByTable(h) == slot[h].initialized /\ card[h] = NoCard \* mutant
CardEjected(h) == slot[h].mediaPresent /\ card[h] = NoCard
CardInserted(h) == ~slot[h].mediaPresent /\ card[h] # NoCard

CheckNext ==
  /\ At("scan")
  /\ Top.next <= Len(pool)
  /\ LET h == pool[Top.next]
         visited == [Top EXCEPT !.next = @ + 1]
     IN IF CardEjected(h) \/ CardInserted(h)
          THEN SuspendAndCall(SoftReset(h, Top.tpl), visited)
          ELSE stack' = [stack EXCEPT ![Len(stack)] = visited]
  /\ UNCHANGED <<hardware, driver, slot, db, faults>>

CheckReturn ==
  /\ At("scan")
  /\ Top.next > Len(pool)
  /\ Return
  /\ UNCHANGED <<hardware, driver, slot, db, faults>>

-----------------------------------------------------------------------------
(* Driver binding.                                                         *)

(* SdMmcDriverStart on a controller not yet bound.  When no instance can   *)
(* be created the entry point still returns EFI_SUCCESS and keeps the SDHC *)
(* protocol open.                                                          *)
DriverStart(h, tpl) ==
  /\ Idle
  /\ h \notin bound
  /\ bound' = bound \cup {h}
  /\ \/ /\ NoFault
        /\ pool' = Append(pool, h)
        /\ slot' = [slot EXCEPT ![h] = NewSlot]
        /\ Call(NewFrame("Check", "scan", h, tpl))
     \/ /\ Fault
        /\ UNCHANGED <<pool, slot, stack>>
  /\ UNCHANGED <<hardware, db>>

(* SdMmcDriverStop.  Its CloseProtocol call passes the address of HostExt  *)
(* as the agent handle.  CloseProtocol (external, DXE core) validates the  *)
(* handle and returns EFI_INVALID_PARAMETER, so the loop ends after the    *)
(* first instance of the pool, whichever controller is being stopped, and  *)
(* the SDHC protocol stays open.                                           *)
DriverStop(tpl) ==
  /\ Idle
  /\ pool # <<>>
  /\ pool' = Tail(pool)
  /\ Call(NewFrame("Stop", "unBlockIo", Head(pool), tpl))
  /\ UNCHANGED <<hardware, bound, slot, db, faults>>

(* DestroySdhcInstance once every interface is gone: host clean-up and the *)
(* release of the instance.                                                *)
DestroyInstance ==
  /\ At("destroy")
  /\ slot' = [slot EXCEPT ![Top.host] = NewSlot]
  /\ Return
  /\ UNCHANGED <<hardware, driver, db, faults>>

-----------------------------------------------------------------------------
(* UninstallAllProtocols, shared by SoftReset and DestroySdhcInstance.     *)

Remove(h, p) ==
  /\ db' = [db EXCEPT ![h] = @ \ {p}]
  /\ slot' = [slot EXCEPT ![h].installed = @ \ {p}]

(* A failing uninstall ends SoftReset through its Exit label, and          *)
(* DestroySdhcInstance with the instance neither in the pool nor freed.    *)
UninstallErrorIgnored == IF Top.proc = "Reset" THEN Goto("clear") ELSE Return \* mutant
UninstallFails == IF Top.proc = "Reset" THEN Goto("exitRpmbIo") ELSE Return

Uninstall(p, here, then) ==
  /\ At(here)
  /\ \/ /\ p \notin slot[Top.host].installed
        /\ Goto(then)
        /\ NoFault
        /\ UNCHANGED <<db, slot>>
     \/ /\ p \in slot[Top.host].installed
        /\ Remove(Top.host, p)
        /\ Goto(then)
        /\ NoFault
     \/ /\ p \in slot[Top.host].installed
        /\ Fault
        /\ UninstallFails
        /\ UNCHANGED <<db, slot>>
  /\ UNCHANGED <<hardware, driver>>

UninstallAllProtocols ==
  \/ Uninstall("BlockIo", "unBlockIo", "unRpmbIo")
  \/ Uninstall("RpmbIo", "unRpmbIo", "unDevicePath")
  \/ Uninstall("DevicePath", "unDevicePath",
               IF ~Idle /\ Top.proc = "Stop" THEN "destroy" ELSE "clear")

-----------------------------------------------------------------------------
(* SoftReset after the interfaces are gone.                                *)

ClearMediaOnly == \* mutant: SlotInitialized is kept
  /\ At("clear")
  /\ slot' = [slot EXCEPT ![Top.host].mediaId = NoCard,
                          ![Top.host].mediaPresent = FALSE]
  /\ Goto("sense")
  /\ UNCHANGED <<hardware, driver, db, faults>>

ClearMedia ==
  /\ At("clear")
  /\ slot' = [slot EXCEPT ![Top.host].initialized = FALSE,
                          ![Top.host].mediaId = NoCard,
                          ![Top.host].mediaPresent = FALSE]
  /\ Goto("sense")
  /\ UNCHANGED <<hardware, driver, db, faults>>

SenseMedia ==
  /\ At("sense")
  /\ LET present == card[Top.host] # NoCard
     IN /\ slot' = [slot EXCEPT ![Top.host].mediaPresent = present]
        /\ Goto(IF present THEN "init" ELSE "installAbsent")
  /\ UNCHANGED <<hardware, driver, db, faults>>

(* InstallMultipleProtocolInterfaces: EFI_INVALID_PARAMETER when the       *)
(* handle already carries the interface.                                   *)
Install(p, then) ==
  LET h == Top.host
  IN \/ /\ p \notin db[h]
        /\ NoFault
        /\ db' = [db EXCEPT ![h] = @ \cup {p}]
        /\ slot' = [slot EXCEPT ![h].installed = @ \cup {p}]
        /\ Goto(then)
     \/ /\ IF p \in db[h] THEN NoFault ELSE Fault
        /\ Goto("exitRpmbIo")
        /\ UNCHANGED <<db, slot>>

InstallAbsent ==
  /\ At("installAbsent")
  /\ Install("BlockIo", "exit")
  /\ UNCHANGED <<hardware, driver>>

(* InitializeDevice: its assertions hold or not at this point (InitAsserts *)
(* below), then CardInfo is cleared, and GO_IDLE_STATE takes the card out  *)
(* of service unless it is never sent.                                     *)
InitializeDevice ==
  /\ At("init")
  /\ slot' = [slot EXCEPT ![Top.host].cardFunction = "Unknown"]
  /\ \/ ready' = [ready EXCEPT ![Top.host] = FALSE]
     \/ UNCHANGED ready
  /\ Goto("commands")
  /\ UNCHANGED <<card, cardEvents, driver, db, faults>>

(* The identification commands of InitializeDevice all succeed.            *)
DeviceInitialized ==
  /\ At("commands")
  /\ LET h == Top.host
     IN /\ card[h] # NoCard
        /\ slot' = [slot EXCEPT
             ![h].initialized = TRUE,
             ![h].mediaId = card[h],
             ![h].cardFunction = IF card[h] \in SdCards THEN "Sd" ELSE "Mmc"]
        /\ ready' = [ready EXCEPT ![h] = TRUE]
  /\ Goto("installBlockIo")
  /\ UNCHANGED <<card, cardEvents, driver, db, faults>>

DeviceFailsUncounted == \* mutant: leaves recovery through a shared Exit label
  /\ At("commands")
  /\ IF card[Top.host] = NoCard THEN NoFault ELSE Fault
  /\ slot' = [slot EXCEPT ![Top.host].recovery = @ - 1]
  /\ Goto("exitRpmbIo")
  /\ UNCHANGED <<hardware, driver, db>>

(* One of them fails; the failure of its recovery changes nothing here.    *)
DeviceFails ==
  /\ At("commands")
  /\ IF card[Top.host] = NoCard THEN NoFault ELSE Fault
  /\ Goto("exitRpmbIo")
  /\ UNCHANGED <<hardware, driver, slot, db>>

(* One of them fails and the command-line reset fails too: error recovery  *)
(* calls SoftReset from within SoftReset, at most RecoveryThreshold deep.  *)
DeviceRecovers ==
  /\ At("commands")
  /\ Fault
  /\ slot[Top.host].recovery < RecoveryThreshold
  /\ slot' = [slot EXCEPT ![Top.host].recovery = @ + 1]
  /\ SuspendAndCall(SoftReset(Top.host, Top.tpl), [Top EXCEPT !.pc = "recovered"])
  /\ UNCHANGED <<hardware, driver, db>>

(* Back in the outer InitializeDevice.  SdhcQueryCardType tolerates the    *)
(* failure of CMD8 and CMD5 and goes on; any other command aborts.         *)
DeviceRecovered ==
  /\ At("recovered")
  /\ slot' = [slot EXCEPT ![Top.host].recovery = @ - 1]
  /\ Goto("commands") \/ Goto("exitRpmbIo")
  /\ UNCHANGED <<hardware, driver, db, faults>>

InstallBlockIo ==
  /\ At("installBlockIo")
  /\ Install("BlockIo", "installDevicePath")
  /\ UNCHANGED <<hardware, driver>>

InstallDevicePath ==
  /\ At("installDevicePath")
  /\ Install("DevicePath",
             IF slot[Top.host].cardFunction = "Mmc" THEN "askRpmb" ELSE "exit")
  /\ UNCHANGED <<hardware, driver>>

IsRpmbInstalledHere == "RpmbIo" \in db[Top.host] \* mutant
IsRpmbInstalledOnTheSystem == \E h \in Hosts : "RpmbIo" \in db[h]

AskRpmb ==
  /\ At("askRpmb")
  /\ Goto(IF IsRpmbInstalledOnTheSystem THEN "exit" ELSE "installRpmb")
  /\ UNCHANGED <<hardware, driver, slot, db, faults>>

InstallRpmb ==
  /\ At("installRpmb")
  /\ Install("RpmbIo", "exit")
  /\ UNCHANGED <<hardware, driver>>

(* The Exit label: success returns; an error withdraws RpmbIo and then     *)
(* DevicePath, and leaves an installed BlockIo in place.  The status of    *)
(* the withdrawals replaces the error; the callers only log what they get. *)
ResetReturn ==
  /\ At("exit")
  /\ Return
  /\ UNCHANGED <<hardware, driver, slot, db, faults>>

Withdraw(p, here, Then) ==
  /\ At(here)
  /\ Then
  /\ \/ /\ p \notin slot[Top.host].installed
        /\ NoFault
        /\ UNCHANGED <<db, slot>>
     \/ /\ p \in slot[Top.host].installed
        /\ NoFault
        /\ Remove(Top.host, p)
     \/ /\ p \in slot[Top.host].installed
        /\ Fault
        /\ UNCHANGED <<db, slot>>
  /\ UNCHANGED <<hardware, driver>>

ResetExit ==
  \/ ResetReturn
  \/ Withdraw("RpmbIo", "exitRpmbIo", Goto("exitDevicePath"))
  \/ Withdraw("DevicePath", "exitDevicePath", Return)

-----------------------------------------------------------------------------
(* Clients of the interfaces, which must be published to be called.        *)

BlockIoReset(h, tpl) ==
  /\ Idle
  /\ "BlockIo" \in db[h]
  /\ Call(SoftReset(h, tpl))
  /\ UNCHANGED <<hardware, driver, slot, db, faults>>

(* IoBlocks with the MediaId the interface currently shows: the parameter  *)
(* checks pass and a request of n chunks begins.                           *)
IoBlocks(h, tpl, n) ==
  /\ Idle
  /\ "BlockIo" \in db[h]
  /\ slot[h].mediaPresent
  /\ Call([NewFrame("Io", "chunk", h, tpl) EXCEPT
            !.media = slot[h].mediaId, !.left = n])
  /\ UNCHANGED <<hardware, driver, slot, db, faults>>

(* RpmbRequest: like a block request it sends commands that may recover,   *)
(* but it names no media.                                                  *)
RpmbRequest(h, tpl, n) ==
  /\ Idle
  /\ "RpmbIo" \in db[h]
  /\ Call([NewFrame("Rpmb", "chunk", h, tpl) EXCEPT !.left = n])
  /\ UNCHANGED <<hardware, driver, slot, db, faults>>

NextChunk == stack' = [stack EXCEPT ![Len(stack)].left = @ - 1]

(* A chunk reaches the card that is in the slot now.                       *)
IoTransfer ==
  /\ At("chunk") /\ Top.left > 0
  /\ ready[Top.host]
  /\ NextChunk
  /\ UNCHANGED <<hardware, driver, slot, db, faults>>

(* A chunk fails on each of its tries; the loop goes on with the next one. *)
IoGivesUp ==
  /\ At("chunk") /\ Top.left > 0
  /\ IF ready[Top.host] THEN Fault ELSE NoFault
  /\ NextChunk
  /\ UNCHANGED <<hardware, driver, slot, db>>

(* A try fails and recovery begins.  It resets the command and data lines, *)
(* and calls SoftReset when that fails.                                    *)
IoRecovers ==
  /\ At("chunk") /\ Top.left > 0
  /\ Fault
  /\ slot[Top.host].recovery < RecoveryThreshold
  /\ slot' = [slot EXCEPT ![Top.host].recovery = @ + 1]
  /\ \/ Goto("ioStatus")
     \/ SuspendAndCall(SoftReset(Top.host, Top.tpl), [Top EXCEPT !.pc = "ioStatus"])
  /\ UNCHANGED <<hardware, driver, db>>

(* After a multi-block command recovery sends SEND_STATUS and, if need be, *)
(* STOP_TRANSMISSION.  Should one fail, that starts a recovery of its own, *)
(* within the first.                                                       *)
IoStatus ==
  /\ At("ioStatus")
  /\ SuspendAndCall(NewFrame("Status", "status", Top.host, Top.tpl),
                    [Top EXCEPT !.pc = "ioRecovered"])
  /\ UNCHANGED <<hardware, driver, slot, db, faults>>

StatusReturn ==
  /\ At("status")
  /\ Return
  /\ UNCHANGED <<hardware, driver, slot, db, faults>>

StatusRecovers ==
  /\ At("status")
  /\ Fault
  /\ slot[Top.host].recovery < RecoveryThreshold
  /\ slot' = [slot EXCEPT ![Top.host].recovery = @ + 1]
  /\ SuspendAndCall(SoftReset(Top.host, Top.tpl),
                    [Top EXCEPT !.pc = "statusRecovered"])
  /\ UNCHANGED <<hardware, driver, db>>

StatusRecovered ==
  /\ At("statusRecovered")
  /\ slot' = [slot EXCEPT ![Top.host].recovery = @ - 1]
  /\ Return
  /\ UNCHANGED <<hardware, driver, db, faults>>

IoRecoveredUncounted == \* mutant: the attempt count is not taken back
  /\ At("ioStatus") \/ At("ioRecovered")
  /\ \E skipped \in {0, 1} :
       stack' = [stack EXCEPT ![Len(stack)].pc = "chunk",
                              ![Len(stack)].left = @ - skipped]
  /\ UNCHANGED <<hardware, driver, slot, db, faults>>

(* Back in the loop: the chunk is tried again, or it was its last try.     *)
IoRecovered ==
  /\ At("ioStatus") \/ At("ioRecovered")
  /\ slot' = [slot EXCEPT ![Top.host].recovery = @ - 1]
  /\ \E skipped \in {0, 1} :
       stack' = [stack EXCEPT ![Len(stack)].pc = "chunk",
                              ![Len(stack)].left = @ - skipped]
  /\ UNCHANGED <<hardware, driver, db, faults>>

IoReturn ==
  /\ At("chunk") /\ Top.left = 0
  /\ Return
  /\ UNCHANGED <<hardware, driver, slot, db, faults>>

-----------------------------------------------------------------------------

Environment ==
  \/ \E h \in Hosts : EjectCard(h)
  \/ \E h \in Hosts, c \in Cards : InsertCard(h, c)

Callers ==
  \E h \in Hosts, tpl \in CallerTpls :
    \/ DriverStart(h, tpl)
    \/ DriverStop(tpl)
    \/ BlockIoReset(h, tpl)
    \/ \E n \in 1 .. MaxChunks : IoBlocks(h, tpl, n) \/ RpmbRequest(h, tpl, n)

(* One step of the running activation.                                     *)
Step ==
  \/ CheckNext \/ CheckReturn
  \/ UninstallAllProtocols \/ DestroyInstance
  \/ ClearMedia \/ SenseMedia \/ InstallAbsent
  \/ InitializeDevice
  \/ DeviceInitialized \/ DeviceFails \/ DeviceRecovers \/ DeviceRecovered
  \/ InstallBlockIo \/ InstallDevicePath \/ AskRpmb \/ InstallRpmb
  \/ ResetExit
  \/ IoTransfer \/ IoGivesUp \/ IoRecovers \/ IoRecovered \/ IoReturn
  \/ IoStatus \/ StatusReturn \/ StatusRecovers \/ StatusRecovered

Next == Environment \/ Callers \/ TimerTick \/ Step

(* The processor executes the running activation.  The periodic event      *)
(* stays signalled until the priority level drops, so the check runs       *)
(* before the callers can keep it out for ever.                            *)
Fairness == WF_vars(Step) /\ SF_vars(TimerTick)

Spec == Init /\ [][Next]_vars

FairSpec == Spec /\ Fairness

-----------------------------------------------------------------------------
(* Properties.                                                             *)

(* "The requirement is that only 1 MMC on the system should have RpmbIo    *)
(* protocol installed" (SdMmc.c): two slots never publish it at once.      *)
AtMostOneRpmb ==
  \A g, h \in Hosts : "RpmbIo" \in db[g] /\ "RpmbIo" \in db[h] => g = h

(* The interfaces that describe a card are only ever on the handle of a    *)
(* slot whose device is initialised, through every error path, recursive   *)
(* reset and driver stop; and the instance knows what its handle carries.  *)
PublishedIsInitialized ==
  \A h \in Hosts :
    /\ slot[h].installed = db[h]
    /\ db[h] \cap {"DevicePath", "RpmbIo"} # {} => slot[h].initialized

(* The assertions at the head of InitializeDevice: a device is initialised *)
(* only in a slot marked uninitialised, with its media marked present.     *)
InitAsserts ==
  At("init") => ~slot[Top.host].initialized /\ slot[Top.host].mediaPresent

(* ErrorRecoveryAttemptCount counts the recoveries in progress: each is an *)
(* activation in SdhcRecoverFromErrors.  A missed decrement would          *)
(* end recovery for ever; and the recursion through SoftReset has a bound. *)
Recovering(h) == {i \in 1 .. Len(stack) :
                    stack[i].host = h /\ stack[i].pc \in RecoveryPcs}
RecoveryCounted ==
  /\ \A h \in Hosts : slot[h].recovery = Cardinality(Recovering(h))
  /\ Len(stack) <= RecoveryThreshold + 2

(* SoftReset forgets a device only when nothing is published for it: no    *)
(* client ever holds an interface of a slot that has just been cleared.    *)
WithdrawnBeforeForgotten ==
  [][\A h \in Hosts : slot[h].initialized /\ ~slot'[h].initialized => db[h] = {}]_vars

(* The card check keeps MediaPresent in step with every managed slot: once *)
(* cards stop moving and services stop failing, it agrees again and again. *)
PresenceTracked ==
  \A h \in Hosts :
    []<>(h \in Range(pool) => slot[h].mediaPresent = (card[h] # NoCard))

(* "T F Reset" in the table above the card check (SdMmc.c): a present card *)
(* in a slot that is not initialised gets a reset from the check.          *)
UninitializedIsReset ==
  [][At("scan") /\ Top.next <= Len(pool)
     /\ card[pool[Top.next]] # NoCard /\ ~slot[pool[Top.next]].initialized
     /\ CheckNext
       => Len(stack') = Len(stack) + 1]_vars

(* "EFI_MEDIA_CHANGED The MediaId is not for the current media."           *)
(* (BlockIo.c): a block request transfers only to the card it names, also  *)
(* when error recovery has met another card in the slot in between.        *)
OnlyNamedMedia ==
  [][IoTransfer /\ Top.proc = "Io" => card[Top.host] = Top.media]_vars
=============================================================================
