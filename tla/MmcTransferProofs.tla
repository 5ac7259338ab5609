-------------------------- MODULE MmcTransferProofs --------------------------
(***************************************************************************)
(* For every number of retries, of failures and of transfers: a request    *)
(* keeps its state well formed, RPMB frames reach the RPMB partition only  *)
(* and once, a partition left behind was reported, and block success means *)
(* that the data moved.                                                    *)
(***************************************************************************)
EXTENDS MmcTransfer, TLAPS

Clean == {"send", "stop", "wait", "ok"}
Broken == {"innerReset", "reset", "status", "abort", "error"}

-----------------------------------------------------------------------------
(* The scripts of the RPMB requests, by position.                          *)

AnswerPos(kind) == IF kind = "RpmbRead" THEN 6 ELSE 8

LEMMA ReadScript ==
  /\ Len(Script("RpmbRead")) = 8
  /\ \A p \in 1 .. 8 :
       Script("RpmbRead")[p] =
         CASE p = 1 -> "switchIn" [] p = 2 -> "verifyIn" [] p \in {3, 5} -> "setBlockCount"
           [] p = 4 -> "request" [] p = 6 -> "answer" [] p = 7 -> "switchOut"
           [] p = 8 -> "verifyOut"
BY DEF Script

LEMMA WriteScript ==
  /\ Len(Script("RpmbWrite")) = 10
  /\ \A p \in 1 .. 10 :
       Script("RpmbWrite")[p] =
         CASE p = 1 -> "switchIn" [] p = 2 -> "verifyIn"
           [] p \in {3, 5, 7} -> "setBlockCount"
           [] p = 4 -> "request" [] p = 6 -> "askResult" [] p = 8 -> "answer"
           [] p = 9 -> "switchOut" [] p = 10 -> "verifyOut"
BY DEF Script

LEMMA BlockScript ==
  \A k \in BlockKinds : Len(Script(k)) = 1 /\ Script(k)[1] = "block"
BY DEF Script, BlockKinds

(* Where an RPMB request stands tells its command.                         *)
LEMMA RpmbScript ==
  ASSUME NEW k \in RpmbKinds, NEW p \in 1 .. Len(Script(k))
  PROVE  /\ Len(Script(k)) = AnswerPos(k) + 2
         /\ SwitchOutPos(k) = AnswerPos(k) + 1
         /\ AnswerPos(k) \in 6 .. 8
         /\ Script(k)[p] = "switchIn" <=> p = 1
         /\ Script(k)[p] = "verifyIn" <=> p = 2
         /\ Script(k)[p] = "request" <=> p = 4
         /\ Script(k)[p] = "answer" <=> p = AnswerPos(k)
         /\ Script(k)[p] = "switchOut" <=> p = AnswerPos(k) + 1
         /\ Script(k)[p] = "verifyOut" <=> p = AnswerPos(k) + 2
         /\ Script(k)[p] # "block"
         /\ Script(k)[p] \in {"setBlockCount", "request", "askResult", "answer"}
              <=> p \in 3 .. AnswerPos(k)
         /\ Script(k)[p] \in {"switchIn", "verifyIn", "switchOut", "verifyOut"}
              <=> p \notin 3 .. AnswerPos(k)
<1>1. CASE k = "RpmbRead"
  <2>1. Len(Script(k)) = 8 BY <1>1, ReadScript
  <2>2. CASE p = 1
    <3>1. Script(k)[1] = "switchIn" BY <1>1, ReadScript
    <3> QED BY <1>1, <2>1, <2>2, <3>1 DEF AnswerPos, SwitchOutPos
  <2>3. CASE p = 2
    <3>1. Script(k)[2] = "verifyIn" BY <1>1, ReadScript
    <3> QED BY <1>1, <2>1, <2>3, <3>1 DEF AnswerPos, SwitchOutPos
  <2>4. CASE p = 3
    <3>1. Script(k)[3] = "setBlockCount" BY <1>1, ReadScript
    <3> QED BY <1>1, <2>1, <2>4, <3>1 DEF AnswerPos, SwitchOutPos
  <2>5. CASE p = 4
    <3>1. Script(k)[4] = "request" BY <1>1, ReadScript
    <3> QED BY <1>1, <2>1, <2>5, <3>1 DEF AnswerPos, SwitchOutPos
  <2>6. CASE p = 5
    <3>1. Script(k)[5] = "setBlockCount" BY <1>1, ReadScript
    <3> QED BY <1>1, <2>1, <2>6, <3>1 DEF AnswerPos, SwitchOutPos
  <2>7. CASE p = 6
    <3>1. Script(k)[6] = "answer" BY <1>1, ReadScript
    <3> QED BY <1>1, <2>1, <2>7, <3>1 DEF AnswerPos, SwitchOutPos
  <2>8. CASE p = 7
    <3>1. Script(k)[7] = "switchOut" BY <1>1, ReadScript
    <3> QED BY <1>1, <2>1, <2>8, <3>1 DEF AnswerPos, SwitchOutPos
  <2>9. CASE p = 8
    <3>1. Script(k)[8] = "verifyOut" BY <1>1, ReadScript
    <3> QED BY <1>1, <2>1, <2>9, <3>1 DEF AnswerPos, SwitchOutPos
  <2> QED BY <2>1, <2>2, <2>3, <2>4, <2>5, <2>6, <2>7, <2>8, <2>9
<1>2. CASE k = "RpmbWrite"
  <2>1. Len(Script(k)) = 10 BY <1>2, WriteScript
  <2>2. CASE p = 1
    <3>1. Script(k)[1] = "switchIn" BY <1>2, WriteScript
    <3> QED BY <1>2, <2>1, <2>2, <3>1 DEF AnswerPos, SwitchOutPos
  <2>3. CASE p = 2
    <3>1. Script(k)[2] = "verifyIn" BY <1>2, WriteScript
    <3> QED BY <1>2, <2>1, <2>3, <3>1 DEF AnswerPos, SwitchOutPos
  <2>4. CASE p = 3
    <3>1. Script(k)[3] = "setBlockCount" BY <1>2, WriteScript
    <3> QED BY <1>2, <2>1, <2>4, <3>1 DEF AnswerPos, SwitchOutPos
  <2>5. CASE p = 4
    <3>1. Script(k)[4] = "request" BY <1>2, WriteScript
    <3> QED BY <1>2, <2>1, <2>5, <3>1 DEF AnswerPos, SwitchOutPos
  <2>6. CASE p = 5
    <3>1. Script(k)[5] = "setBlockCount" BY <1>2, WriteScript
    <3> QED BY <1>2, <2>1, <2>6, <3>1 DEF AnswerPos, SwitchOutPos
  <2>7. CASE p = 6
    <3>1. Script(k)[6] = "askResult" BY <1>2, WriteScript
    <3> QED BY <1>2, <2>1, <2>7, <3>1 DEF AnswerPos, SwitchOutPos
  <2>8. CASE p = 7
    <3>1. Script(k)[7] = "setBlockCount" BY <1>2, WriteScript
    <3> QED BY <1>2, <2>1, <2>8, <3>1 DEF AnswerPos, SwitchOutPos
  <2>9. CASE p = 8
    <3>1. Script(k)[8] = "answer" BY <1>2, WriteScript
    <3> QED BY <1>2, <2>1, <2>9, <3>1 DEF AnswerPos, SwitchOutPos
  <2>10. CASE p = 9
    <3>1. Script(k)[9] = "switchOut" BY <1>2, WriteScript
    <3> QED BY <1>2, <2>1, <2>10, <3>1 DEF AnswerPos, SwitchOutPos
  <2>11. CASE p = 10
    <3>1. Script(k)[10] = "verifyOut" BY <1>2, WriteScript
    <3> QED BY <1>2, <2>1, <2>11, <3>1 DEF AnswerPos, SwitchOutPos
  <2> QED BY <2>1, <2>2, <2>3, <2>4, <2>5, <2>6, <2>7, <2>8, <2>9, <2>10, <2>11
<1> QED BY <1>1, <1>2 DEF RpmbKinds

-----------------------------------------------------------------------------
(* The call chain: a command is under way exactly while a request is, and  *)
(* it is the one its position in the script calls for.                     *)

InChain ==
  /\ cmd.phase \in Clean \cup Broken
  /\ cmd.name = CommandOf(op)
  /\ op.pos <= Len(Script(op.kind))
  /\ cmd.phase = "innerReset" => cmd.then \in {"reset", "error"}
  /\ op.kind \in BlockKinds =>
       op.next < op.count /\ (cmd.phase = "ok" => drv.up)

Chain ==
  /\ op.pending => InChain
  /\ ~op.pending => cmd.phase = "none"

(* The command that belongs to each position.                              *)
LEMMA CommandNames ==
  ASSUME NEW o, o.kind \in BlockKinds \cup RpmbKinds, o.pos \in 1 .. 10,
         o.pos <= Len(Script(o.kind))
  PROVE  /\ CommandOf(o) \in {"SWITCH", "EXT_CSD", "SET_BLOCK_COUNT", "SINGLE", "MULTI"}
         /\ o.kind \in BlockKinds =>
              o.pos = 1 /\ Script(o.kind)[o.pos] = "block"
                /\ CommandOf(o) \in {"SINGLE", "MULTI"}
         /\ o.kind \in RpmbKinds =>
              /\ CommandOf(o) # "SINGLE"
              /\ CommandOf(o) = "SWITCH" <=> o.pos \in {1, AnswerPos(o.kind) + 1}
              /\ CommandOf(o) = "MULTI" => o.pos \in 4 .. AnswerPos(o.kind)
              /\ o.pos \in {4, AnswerPos(o.kind)} => CommandOf(o) = "MULTI"
<1>1. CASE o.kind \in BlockKinds
  <2>0. PICK k \in BlockKinds : k = o.kind BY <1>1
  <2>1. o.pos = 1 /\ Script(o.kind)[o.pos] = "block"
    <3>1. Len(Script(k)) = 1 /\ Script(k)[1] = "block" BY BlockScript
    <3>2. Script(o.kind) = Script(k) BY <2>0
    <3>3. Len(Script(o.kind)) = 1 BY <3>1, <3>2
    <3>4. o.pos = 1 BY <3>3
    <3> QED BY <3>1, <3>2, <3>4
  <2>2. CommandOf(o) \in {"SINGLE", "MULTI"} BY <2>1 DEF CommandOf
  <2>3. o.kind \notin RpmbKinds BY <1>1 DEF BlockKinds, RpmbKinds
  <2> QED BY <2>1, <2>2, <2>3
<1>2. CASE o.kind = "RpmbRead"
  <2>0. Script(o.kind) = Script("RpmbRead") BY <1>2
  <2>1. /\ AnswerPos(o.kind) = 6 /\ o.pos \in 1 .. 8
        /\ o.kind \in RpmbKinds /\ o.kind \notin BlockKinds
    <3>1. Len(Script(o.kind)) = 8 BY <2>0, ReadScript
    <3>2. o.pos <= 8 BY <3>1
    <3>3. o.pos \in 1 .. 8 BY <3>2
    <3> QED BY <1>2, <3>3 DEF AnswerPos, RpmbKinds, BlockKinds
  <2> DEFINE s == Script(o.kind)[o.pos]
  <2>2. s = CASE o.pos = 1 -> "switchIn" [] o.pos = 2 -> "verifyIn"
             [] o.pos \in {3, 5} -> "setBlockCount"
             [] o.pos = 4 -> "request" [] o.pos = 6 -> "answer" [] o.pos = 7 -> "switchOut"
             [] o.pos = 8 -> "verifyOut"
    BY <2>0, <2>1, ReadScript
  <2> QED BY <2>1, <2>2 DEF CommandOf
<1>3. CASE o.kind = "RpmbWrite"
  <2>0. Script(o.kind) = Script("RpmbWrite") BY <1>3
  <2>1. /\ AnswerPos(o.kind) = 8 /\ o.pos \in 1 .. 10
        /\ o.kind \in RpmbKinds /\ o.kind \notin BlockKinds
    <3>1. Len(Script(o.kind)) = 10 BY <2>0, WriteScript
    <3> QED BY <1>3, <3>1 DEF AnswerPos, RpmbKinds, BlockKinds
  <2> DEFINE s == Script(o.kind)[o.pos]
  <2>2. s = CASE o.pos = 1 -> "switchIn" [] o.pos = 2 -> "verifyIn"
             [] o.pos \in {3, 5, 7} -> "setBlockCount"
             [] o.pos = 4 -> "request" [] o.pos = 6 -> "askResult" [] o.pos = 8 -> "answer"
             [] o.pos = 9 -> "switchOut" [] o.pos = 10 -> "verifyOut"
    BY <2>0, <2>1, WriteScript
  <2> QED BY <2>1, <2>2 DEF CommandOf
<1> QED BY <1>1, <1>2, <1>3 DEF RpmbKinds

-----------------------------------------------------------------------------
(* What a step of the command layer can do to the device, to the driver    *)
(* and to the data, told apart by the phases it leads from and to.         *)

DeviceKept ==
  mmc'.partition = mmc.partition /\ mmc'.applied = mmc.applied /\ mmc'.answer = mmc.answer
DriverKept ==
  drv'.current = drv.current /\ drv'.up = drv.up /\ drv'.suspect = drv.suspect
WasReset ==
  /\ mmc'.partition = "User" /\ mmc'.applied = mmc.applied
  /\ drv'.current = "User" /\ drv'.suspect = FALSE
WasLost == ~drv'.up /\ mmc'.applied = mmc.applied /\ mmc'.partition \in {mmc.partition, "User"}

Took ==
  /\ mmc'.partition = IF cmd.name = "SWITCH" THEN Target ELSE mmc.partition
  /\ mmc'.applied = IF StepName = "request" THEN mmc.applied + 1 ELSE mmc.applied
  /\ StepName = "answer" => mmc'.answer = "none"
  /\ StepName \notin {"request", "askResult"} => mmc'.answer \in {mmc.answer, "none"}

Goes(from, to) == cmd.phase \in from /\ cmd'.phase \in to
Sent ==
  /\ Goes({"send"}, {"stop", "wait", "ok"})
  /\ Took \/ (cmd.name = "SWITCH" /\ DeviceKept)
  /\ DriverKept /\ Moved(TRUE)
  /\ IsData => cmd'.phase # "ok"
SentBadly ==
  /\ Goes({"send"}, Broken)
  /\ DriverKept
  /\ \/ Took /\ Moved(FALSE)
     \/ DeviceKept /\ UNCHANGED moved
Finished ==
  /\ Goes({"stop", "wait"}, {"wait", "ok"})
  /\ DeviceKept /\ DriverKept /\ UNCHANGED moved
  /\ cmd'.phase = "ok" => drv.up
Failed ==
  /\ Goes((Clean \ {"send", "ok"}) \cup Broken, Broken)
  /\ (DeviceKept /\ DriverKept) \/ WasReset \/ WasLost
  /\ UNCHANGED moved

Effect ==
  /\ cmd'.name = cmd.name
  /\ cmd'.phase = "innerReset" => cmd'.then \in {"reset", "error"}
  /\ Sent \/ SentBadly \/ Finished \/ Failed
  /\ UNCHANGED <<op, givenUp>>

Typed ==
  /\ cmd' \in Cmd /\ mmc' \in Mmc /\ drv' \in Drv
  /\ moved' \subseteq [partition : Partitions, lba : Nat, part : 0 .. MaxChunks]
  /\ faults' \in 0 .. MaxFaults

LEMMA FaultsTyped ==
  ASSUME TypeOK, NEW n \in Nat, Faults(n)
  PROVE  faults' \in 0 .. MaxFaults
BY TransferAssumption DEF TypeOK, Faults

LEMMA MovedTyped ==
  ASSUME TypeOK, NEW c \in BOOLEAN, Moved(c)
  PROVE  moved' \subseteq [partition : Partitions, lba : Nat, part : 0 .. MaxChunks]
<1>1. op.lba \in Nat /\ op.next \in 0 .. MaxChunks BY DEF TypeOK, Op
<1>2. mmc.partition \in Partitions BY DEF TypeOK, Mmc
<1> QED BY <1>1, <1>2 DEF TypeOK, Moved

LEMMA TargetTyped == TypeOK => Target \in Partitions
BY DEF TypeOK, Op, Target, Partitions

LEMMA TookTyped ==
  ASSUME TypeOK, DeviceTakes
  PROVE  mmc' \in Mmc /\ Took
<1>1. mmc \in Mmc BY DEF TypeOK
<1>2. Target \in Partitions BY TargetTyped
<1>3. (cmd.name = "SET_BLOCK_COUNT") \in BOOLEAN OBVIOUS
<1>4. mmc' = [mmc EXCEPT
       !.armed = cmd.name = "SET_BLOCK_COUNT",
       !.partition = IF cmd.name = "SWITCH" THEN Target ELSE @,
       !.state = IF cmd.name = "MULTI" /\ ~mmc.armed THEN "xfer" ELSE @,
       !.applied = IF StepName = "request" THEN @ + 1 ELSE @,
       !.answer = CASE StepName = "request" ->
                         (IF op.kind = "RpmbRead" THEN "request" ELSE "none")
                    [] StepName = "askResult" -> "result"
                    [] StepName = "answer" -> "none"
                    [] OTHER -> @]
  BY DEF DeviceTakes
<1>5. Took BY <1>1, <1>4 DEF Took, Mmc
<1>6. mmc' \in Mmc
  <2> DEFINE a == cmd.name = "SET_BLOCK_COUNT"
             p == IF cmd.name = "SWITCH" THEN Target ELSE mmc.partition
             s == IF cmd.name = "MULTI" /\ ~mmc.armed THEN "xfer" ELSE mmc.state
             n == IF StepName = "request" THEN mmc.applied + 1 ELSE mmc.applied
             w == CASE StepName = "request" ->
                         (IF op.kind = "RpmbRead" THEN "request" ELSE "none")
                    [] StepName = "askResult" -> "result"
                    [] StepName = "answer" -> "none"
                    [] OTHER -> mmc.answer
  <2>1. a \in BOOLEAN OBVIOUS
  <2>2. p \in Partitions BY <1>1, <1>2 DEF Mmc
  <2>3. s \in {"tran", "xfer", "idle"} BY <1>1 DEF Mmc
  <2>4. n \in Nat BY <1>1 DEF Mmc
  <2>5. w \in {"none", "request", "result"} BY <1>1 DEF Mmc
  <2>6. mmc' = [mmc EXCEPT !.armed = a, !.partition = p, !.state = s, !.applied = n,
                           !.answer = w]
    BY <1>4, Zenon
  <2> HIDE DEF a, p, s, n, w
  <2> QED BY <1>1, <2>1, <2>2, <2>3, <2>4, <2>5, <2>6 DEF Mmc
<1> QED BY <1>5, <1>6

LEMMA IgnoredTyped ==
  ASSUME TypeOK, DeviceIgnores \/ UNCHANGED mmc
  PROVE  mmc' \in Mmc /\ DeviceKept
BY DEF TypeOK, DeviceIgnores, DeviceKept, Mmc

LEMMA RememberTyped ==
  ASSUME TypeOK, NEW c, Remember(c)
  PROVE  drv' \in Drv /\ DriverKept
BY DEF TypeOK, Remember, DriverKept, Drv

LEMMA GotoTyped ==
  ASSUME TypeOK, NEW p \in Phases, Goto(p)
  PROVE  cmd' \in Cmd /\ cmd'.name = cmd.name /\ cmd'.phase = p
BY DEF TypeOK, Goto, Cmd

LEMMA InnerTyped ==
  ASSUME TypeOK, NEW t \in {"reset", "error"}, InnerFails(t)
  PROVE  /\ cmd' \in Cmd /\ cmd'.name = cmd.name /\ cmd'.phase = "innerReset"
         /\ cmd'.then \in {"reset", "error"}
BY DEF TypeOK, InnerFails, Cmd, Phases

-----------------------------------------------------------------------------
(* The steps of the command layer, one by one.                             *)

CommandStep ==
  \/ SendGood \/ SendFails \/ DataFails \/ SdhcStopTransmission \/ WaitForTran
  \/ Recover \/ RecoverInner \/ RecoverStatus

LEMMA SendGoodEffect ==
  ASSUME TypeOK, Chain, op.pending, SendGood
  PROVE  Typed /\ Effect
<1>1. faults' \in 0 .. MaxFaults BY FaultsTyped DEF SendGood
<1>2. mmc' \in Mmc /\ (Took \/ (cmd.name = "SWITCH" /\ DeviceKept))
  BY TookTyped, IgnoredTyped DEF SendGood
<1>3. drv' \in Drv /\ DriverKept BY RememberTyped DEF SendGood
<1>4. Moved(TRUE) BY DEF SendGood
<1>5. moved' \subseteq [partition : Partitions, lba : Nat, part : 0 .. MaxChunks]
  BY <1>4, MovedTyped
<1>6. cmd.phase = "send" BY DEF SendGood, At
<1>7. PICK p \in {"stop", "wait", "ok"} : Goto(p) /\ (IsData => p # "ok")
  BY DEF SendGood, AfterData, AfterNoData
<1>8. cmd' \in Cmd /\ cmd'.name = cmd.name /\ cmd'.phase = p
  BY <1>7, GotoTyped DEF Phases
<1>9. Sent BY <1>2, <1>3, <1>4, <1>6, <1>7, <1>8 DEF Sent, Goes
<1>10. UNCHANGED <<op, givenUp>> BY DEF SendGood
<1> QED BY <1>1, <1>2, <1>3, <1>5, <1>7, <1>8, <1>9, <1>10 DEF Typed, Effect

LEMMA SendFailsEffect ==
  ASSUME TypeOK, Chain, op.pending, SendFails
  PROVE  Typed /\ Effect
<1>1. faults' \in 0 .. MaxFaults BY FaultsTyped DEF SendFails
<1>2. UNCHANGED <<op, drv, givenUp>> /\ cmd.phase = "send" BY DEF SendFails, At
<1>3. cmd' \in Cmd /\ cmd'.name = cmd.name /\ cmd'.phase = "reset"
  BY GotoTyped DEF SendFails, Phases
<1>4. \/ (UNCHANGED mmc) /\ UNCHANGED moved
      \/ DeviceTakes /\ Moved(FALSE)
  BY DEF SendFails
<1>5. /\ mmc' \in Mmc
      /\ moved' \subseteq [partition : Partitions, lba : Nat, part : 0 .. MaxChunks]
      /\ \/ Took /\ Moved(FALSE)
         \/ DeviceKept /\ UNCHANGED moved
  <2>1. CASE (UNCHANGED mmc) /\ UNCHANGED moved BY <2>1, IgnoredTyped DEF TypeOK
  <2>2. CASE DeviceTakes /\ Moved(FALSE) BY <2>2, TookTyped, MovedTyped
  <2> QED BY <1>4, <2>1, <2>2
<1>6. drv' \in Drv /\ DriverKept BY <1>2 DEF TypeOK, DriverKept
<1>7. SentBadly BY <1>2, <1>3, <1>5, <1>6 DEF SentBadly, Goes, Broken
<1> QED BY <1>1, <1>2, <1>3, <1>5, <1>6, <1>7 DEF Typed, Effect

LEMMA DataFailsEffect ==
  ASSUME TypeOK, Chain, op.pending, DataFails
  PROVE  Typed /\ Effect
<1>1. faults' \in 0 .. MaxFaults BY FaultsTyped DEF DataFails
<1>2. UNCHANGED <<op, givenUp>> /\ cmd.phase = "send" BY DEF DataFails, At
<1>3. cmd' \in Cmd /\ cmd'.name = cmd.name /\ cmd'.phase = "reset"
  BY GotoTyped DEF DataFails, Phases
<1>4. mmc' \in Mmc /\ Took BY TookTyped DEF DataFails
<1>5. Moved(FALSE) BY DEF DataFails
<1>6. moved' \subseteq [partition : Partitions, lba : Nat, part : 0 .. MaxChunks]
  BY <1>5, MovedTyped
<1>7. drv' \in Drv /\ DriverKept BY RememberTyped DEF DataFails
<1>8. SentBadly BY <1>2, <1>3, <1>4, <1>5, <1>7 DEF SentBadly, Goes, Broken
<1> QED BY <1>1, <1>2, <1>3, <1>4, <1>6, <1>7, <1>8 DEF Typed, Effect

(* A step from behind "send" that leaves device and driver as they are.    *)
LEMMA QuietFailure ==
  ASSUME TypeOK, NEW t \in {"reset", "error"},
         cmd.phase \in (Clean \ {"send", "ok"}) \cup Broken,
         \/ \E p \in {"reset", "status", "abort", "error"} : Goto(p)
         \/ InnerFails(t),
         DeviceKept, DriverKept, UNCHANGED moved, UNCHANGED <<op, givenUp>>
  PROVE  cmd' \in Cmd /\ Effect
<1>1. /\ cmd' \in Cmd /\ cmd'.name = cmd.name /\ cmd'.phase \in Broken
      /\ cmd'.phase = "innerReset" => cmd'.then \in {"reset", "error"}
  <2>1. CASE \E p \in {"reset", "status", "abort", "error"} : Goto(p)
    BY <2>1, GotoTyped DEF Phases, Broken
  <2>2. CASE InnerFails(t) BY <2>2, InnerTyped DEF Broken
  <2> QED BY <2>1, <2>2
<1>2. Failed BY <1>1 DEF Failed, Goes
<1> QED BY <1>1, <1>2 DEF Effect

LEMMA KeptMoved ==
  ASSUME TypeOK, UNCHANGED moved
  PROVE  moved' \subseteq [partition : Partitions, lba : Nat, part : 0 .. MaxChunks]
BY DEF TypeOK

LEMMA ResumedDevice ==
  ASSUME TypeOK, mmc' = [mmc EXCEPT !.state = "tran", !.armed = FALSE]
                   \/ mmc' = [mmc EXCEPT !.state = "tran"]
  PROVE  mmc' \in Mmc /\ DeviceKept
BY DEF TypeOK, DeviceKept, Mmc

LEMMA StopEffect ==
  ASSUME TypeOK, Chain, op.pending, SdhcStopTransmission
  PROVE  Typed /\ Effect
<1>1. PICK ph \in {"stop", "abort"}, q \in {"wait", "error"}, t \in {"reset", "error"} :
        StopTransmission(ph, Goto(q), t) /\ (q = "wait" => ph = "stop")
  BY DEF SdhcStopTransmission
<1>2. cmd.phase = ph /\ UNCHANGED <<op, givenUp>> /\ UNCHANGED moved
  BY <1>1 DEF StopTransmission, At
<1>3. \A n \in Nat : Faults(n) => faults' \in 0 .. MaxFaults BY FaultsTyped
<1>4. faults' \in 0 .. MaxFaults BY <1>1, <1>3 DEF StopTransmission
<1>5. mmc' \in Mmc /\ DeviceKept
  BY <1>1, ResumedDevice, IgnoredTyped DEF StopTransmission
<1>6. CASE Goto(q) /\ Remember("STOP_TRANSMISSION") /\ Answers
  <2>1. drv' \in Drv /\ DriverKept BY <1>6, RememberTyped
  <2>2. cmd' \in Cmd /\ cmd'.name = cmd.name /\ cmd'.phase = q
    BY <1>6, GotoTyped DEF Phases
  <2>3. CASE q = "wait"
    <3>1. Finished BY <1>1, <1>2, <1>5, <2>1, <2>2, <2>3 DEF Finished, Goes
    <3> QED BY <1>2, <1>4, <1>5, <2>1, <2>2, <2>3, <3>1, KeptMoved DEF Typed, Effect
  <2>4. CASE q = "error"
    <3>1. Failed BY <1>2, <1>5, <2>1, <2>2, <2>4 DEF Failed, Goes, Clean, Broken
    <3> QED BY <1>2, <1>4, <1>5, <2>1, <2>2, <2>4, <3>1, KeptMoved DEF Typed, Effect
  <2> QED BY <2>3, <2>4
<1>7. CASE InnerFails(t) /\ UNCHANGED drv
  <2>1. drv' \in Drv /\ DriverKept BY <1>7 DEF TypeOK, DriverKept
  <2>2. cmd' \in Cmd /\ Effect
    BY <1>2, <1>5, <1>7, <2>1, QuietFailure DEF Clean, Broken
  <2> QED BY <1>2, <1>4, <1>5, <2>1, <2>2, KeptMoved DEF Typed
<1> QED BY <1>1, <1>6, <1>7 DEF StopTransmission

LEMMA StatusFailsEffect ==
  ASSUME TypeOK, NEW t \in {"reset", "error"}, SendStatusFails(t),
         cmd.phase \in {"wait", "status"}, UNCHANGED <<op, moved, givenUp>>
  PROVE  Typed /\ Effect
<1>1. \A n \in Nat : Faults(n) => faults' \in 0 .. MaxFaults BY FaultsTyped
<1>2. faults' \in 0 .. MaxFaults BY <1>1 DEF SendStatusFails
<1>3. mmc' \in Mmc /\ DeviceKept BY IgnoredTyped DEF SendStatusFails
<1>4. drv' \in Drv /\ DriverKept BY DEF SendStatusFails, TypeOK, DriverKept
<1>5. cmd' \in Cmd /\ Effect
  BY <1>3, <1>4, QuietFailure DEF SendStatusFails, Clean, Broken
<1> QED BY <1>2, <1>3, <1>4, <1>5, KeptMoved DEF Typed

LEMMA WaitEffect ==
  ASSUME TypeOK, Chain, op.pending, WaitForTran
  PROVE  Typed /\ Effect
<1>1. cmd.phase = "wait" /\ UNCHANGED <<op, givenUp>> /\ UNCHANGED moved
  BY DEF WaitForTran, At
<1>2. \A n \in Nat : Faults(n) => faults' \in 0 .. MaxFaults BY FaultsTyped
<1>3. CASE SendStatusFails(IF IsData THEN "reset" ELSE "error")
  BY <1>1, <1>3, StatusFailsEffect
<1>4. CASE Answers /\ Goto("ok") /\ Faults(0) /\ Remember("SEND_STATUS") /\ DeviceIgnores
  <2>1. faults' \in 0 .. MaxFaults BY <1>2, <1>4
  <2>2. mmc' \in Mmc /\ DeviceKept BY <1>4, IgnoredTyped
  <2>3. drv' \in Drv /\ DriverKept BY <1>4, RememberTyped
  <2>4. cmd' \in Cmd /\ cmd'.name = cmd.name /\ cmd'.phase = "ok"
    BY <1>4, GotoTyped DEF Phases
  <2>5. Finished BY <1>1, <1>4, <2>2, <2>3, <2>4 DEF Finished, Goes, Answers
  <2> QED BY <1>1, <2>1, <2>2, <2>3, <2>4, <2>5, KeptMoved DEF Typed, Effect
<1>5. CASE /\ \E p \in {"reset", "error"} : Goto(p)
           /\ (IF mmc.state = "tran" THEN Faults(1) ELSE Faults(0))
           /\ drv' = [drv EXCEPT !.preLast = "other", !.last = "other"]
           /\ DeviceIgnores
  <2>1. faults' \in 0 .. MaxFaults BY <1>2, <1>5
  <2>2. mmc' \in Mmc /\ DeviceKept BY <1>5, IgnoredTyped
  <2>3. drv' \in Drv /\ DriverKept BY <1>5 DEF TypeOK, Drv, DriverKept
  <2>4. cmd' \in Cmd /\ Effect
    <3>1. \E p \in {"reset", "status", "abort", "error"} : Goto(p) BY <1>5
    <3>2. cmd.phase \in (Clean \ {"send", "ok"}) \cup Broken BY <1>1 DEF Clean
    <3> QED BY <1>1, <2>2, <2>3, <3>1, <3>2, QuietFailure
  <2> QED BY <1>1, <2>1, <2>2, <2>3, <2>4, KeptMoved DEF Typed
<1> QED BY <1>3, <1>4, <1>5 DEF WaitForTran

(* SdhcRecoverFromErrors: the lines alone, or a SoftReset, or its failure. *)
LEMMA LinesEffect ==
  ASSUME TypeOK, NEW t \in {"reset", "status", "error"}, NEW u \in {"reset", "error"},
         ResetLines(t, u), cmd.phase \in Broken, UNCHANGED <<op, moved, givenUp>>
  PROVE  Typed /\ Effect
<1>1. \A n \in Nat : Faults(n) => faults' \in 0 .. MaxFaults BY FaultsTyped
<1>2. faults' \in 0 .. MaxFaults BY <1>1 DEF ResetLines
<1>3. PICK p \in {"reset", "status", "error"} : Goto(p) BY DEF ResetLines
<1>4. cmd' \in Cmd /\ cmd'.name = cmd.name /\ cmd'.phase = p
  BY <1>3, GotoTyped DEF Phases
<1>5. CASE (UNCHANGED mmc) /\ UNCHANGED drv
  <2>1. mmc' \in Mmc /\ DeviceKept BY <1>5, IgnoredTyped
  <2>2. drv' \in Drv /\ DriverKept BY <1>5 DEF TypeOK, DriverKept
  <2>3. Failed BY <1>4, <2>1, <2>2 DEF Failed, Goes, Broken
  <2> QED BY <1>2, <1>4, <2>1, <2>2, <2>3, KeptMoved DEF Typed, Effect
<1>6. CASE SoftResetSucceeds
  <2>1. mmc' \in Mmc /\ mmc'.partition = "User" /\ mmc'.applied = mmc.applied
    BY <1>6 DEF SoftResetSucceeds, TypeOK, Mmc, Partitions
  <2>2. drv' \in Drv /\ drv'.current = "User" /\ drv'.suspect = FALSE
    BY <1>6 DEF SoftResetSucceeds, Drv, Partitions
  <2>3. WasReset BY <2>1, <2>2 DEF WasReset
  <2>4. Failed BY <1>4, <2>3 DEF Failed, Goes, Broken
  <2> QED BY <1>2, <1>4, <2>1, <2>2, <2>4, KeptMoved DEF Typed, Effect
<1>7. CASE SoftResetFails
  <2>1. /\ mmc' \in Mmc /\ mmc'.partition \in {mmc.partition, "User"}
        /\ mmc'.applied = mmc.applied
    BY <1>7 DEF SoftResetFails, TypeOK, Mmc, Partitions
  <2>2. drv' \in Drv /\ drv'.up = FALSE
    BY <1>7 DEF SoftResetFails, TypeOK, Drv
  <2>3. WasLost BY <2>1, <2>2 DEF WasLost
  <2>4. Failed BY <1>4, <2>3 DEF Failed, Goes, Broken
  <2> QED BY <1>2, <1>4, <2>1, <2>2, <2>4, KeptMoved DEF Typed, Effect
<1> QED BY <1>5, <1>6, <1>7 DEF ResetLines

LEMMA RecoverEffect ==
  ASSUME TypeOK, Chain, op.pending, Recover \/ RecoverInner
  PROVE  Typed /\ Effect
<1>1. CASE Recover
  <2>1. cmd.phase \in Broken /\ UNCHANGED <<op, moved, givenUp>>
    BY <1>1 DEF Recover, At, Broken
  <2>2. PICK t \in {"status", "error"} : ResetLines(t, "error") BY <1>1 DEF Recover
  <2> QED BY <2>1, <2>2, LinesEffect
<1>2. CASE RecoverInner
  <2>1. cmd.phase = "innerReset" /\ UNCHANGED <<op, moved, givenUp>>
    BY <1>2 DEF RecoverInner, At
  <2>2. cmd.phase \in Broken BY <2>1 DEF Broken
  <2>3. cmd.then \in {"reset", "error"} BY <2>1 DEF Chain, InChain
  <2>4. ResetLines(cmd.then, cmd.then) BY <1>2 DEF RecoverInner
  <2> QED BY <2>1, <2>2, <2>3, <2>4, LinesEffect
<1> QED BY <1>1, <1>2

LEMMA RecoverStatusEffect ==
  ASSUME TypeOK, Chain, op.pending, RecoverStatus
  PROVE  Typed /\ Effect
<1>1. cmd.phase = "status" /\ UNCHANGED <<op, givenUp>> /\ UNCHANGED moved
  BY DEF RecoverStatus, At
<1>2. CASE SendStatusFails("error") BY <1>1, <1>2, StatusFailsEffect
<1>3. CASE /\ \E p \in {"error", "abort"} : Goto(p)
           /\ Faults(0) /\ Remember("SEND_STATUS") /\ DeviceIgnores
  <2>1. faults' \in 0 .. MaxFaults BY <1>3, FaultsTyped
  <2>2. mmc' \in Mmc /\ DeviceKept BY <1>3, IgnoredTyped
  <2>3. drv' \in Drv /\ DriverKept BY <1>3, RememberTyped
  <2>4. \E p \in {"reset", "status", "abort", "error"} : Goto(p) BY <1>3
  <2>5. cmd.phase \in (Clean \ {"send", "ok"}) \cup Broken BY <1>1 DEF Broken
  <2>6. cmd' \in Cmd /\ Effect BY <1>1, <2>2, <2>3, <2>4, <2>5, QuietFailure
  <2> QED BY <1>1, <2>1, <2>2, <2>3, <2>6, KeptMoved DEF Typed
<1> QED BY <1>2, <1>3 DEF RecoverStatus

LEMMA CommandEffect ==
  ASSUME TypeOK, Chain, op.pending, CommandStep
  PROVE  Typed /\ Effect
BY SendGoodEffect, SendFailsEffect, DataFailsEffect, StopEffect, WaitEffect,
   RecoverEffect, RecoverStatusEffect
DEF CommandStep

(* The command layer keeps the types and the chain.                        *)
LEMMA CommandKeeps ==
  ASSUME TypeOK, Chain, op.pending, CommandStep
  PROVE  TypeOK' /\ Chain'
<1>1. Typed /\ Effect BY CommandEffect
<1>2. op' = op /\ givenUp' = givenUp BY <1>1 DEF Effect
<1>3. TypeOK' BY <1>1, <1>2 DEF Typed, TypeOK
<1>4. cmd'.phase \in Clean \cup Broken
  BY <1>1 DEF Effect, Sent, SentBadly, Finished, Failed, Goes, Clean, Broken
<1>5. cmd'.name = CommandOf(op') BY <1>1, <1>2 DEF Effect, Chain, InChain
<1>6. op'.kind \in BlockKinds /\ cmd'.phase = "ok" => drv'.up
  <2> SUFFICES ASSUME op.kind \in BlockKinds, cmd'.phase = "ok" PROVE drv'.up
    BY <1>2
  <2>1. op \in Op /\ op.pos <= Len(Script(op.kind)) BY DEF TypeOK, Chain, InChain
  <2>2. CommandOf(op) \in {"SINGLE", "MULTI"} BY <2>1, CommandNames DEF Op
  <2>3. IsData BY <2>2 DEF IsData, Chain, InChain
  <2>4. Finished BY <1>1, <2>3 DEF Effect, Sent, SentBadly, Failed, Goes, Broken
  <2> QED BY <2>4 DEF Finished, DriverKept
<1>7. InChain'
  BY <1>1, <1>2, <1>4, <1>5, <1>6 DEF Effect, Chain, InChain
<1> QED BY <1>2, <1>3, <1>7 DEF Chain

-----------------------------------------------------------------------------
(* The steps of the requests themselves.                                   *)

LEMMA IssueKeeps ==
  ASSUME NEW o \in Op, o.pending, o.pos <= Len(Script(o.kind)),
         o.kind \in BlockKinds => o.next < o.count, Issue(o)
  PROVE  op' = o /\ cmd' \in Cmd /\ cmd'.phase = "send" /\ Chain'
<1>1. op' = o /\ cmd' = [name |-> CommandOf(o), phase |-> "send", then |-> "none"]
  BY DEF Issue
<1>2. CommandOf(o) \in {"SWITCH", "EXT_CSD", "SET_BLOCK_COUNT", "SINGLE", "MULTI"}
  BY CommandNames DEF Op
<1>3. cmd' \in Cmd /\ cmd'.phase = "send" /\ cmd'.name = CommandOf(o)
  BY <1>1, <1>2 DEF Cmd, Phases
<1>4. InChain' BY <1>1, <1>3 DEF InChain, Clean
<1> QED BY <1>1, <1>3, <1>4 DEF Chain

LEMMA DoneKeeps ==
  ASSUME NEW o \in Op, Done(o)
  PROVE  /\ op' \in Op /\ ~op'.pending /\ cmd' \in Cmd /\ Chain'
         /\ op'.kind = o.kind /\ op'.failed = o.failed /\ op'.first = o.first
         /\ op'.count = o.count /\ op'.next = o.next /\ op'.suspect = o.suspect
<1>1. op' = [o EXCEPT !.pending = FALSE] /\ cmd' = NoCmd BY DEF Done
<1>2. /\ op' \in Op /\ op'.pending = FALSE
      /\ op'.kind = o.kind /\ op'.failed = o.failed /\ op'.first = o.first
      /\ op'.count = o.count /\ op'.next = o.next /\ op'.suspect = o.suspect
  BY <1>1 DEF Op
<1>3. cmd' \in Cmd /\ cmd'.phase = "none" BY <1>1 DEF NoCmd, Cmd, Phases
<1> QED BY <1>2, <1>3 DEF Chain

(* A request that is issued starts from a clean slate.                     *)
LEMMA StartKeeps ==
  ASSUME TypeOK, NEW o \in Op, o.pending, o.pos = 1, o.next = 0, Start(o)
  PROVE  /\ TypeOK' /\ Chain' /\ op' = o /\ cmd'.phase = "send"
         /\ ~op.pending /\ drv.up /\ drv' = drv
         /\ moved' = {} /\ givenUp' = {}
         /\ mmc'.partition = mmc.partition /\ mmc'.applied = 0
<1>1. o.pos <= Len(Script(o.kind))
  <2>1. CASE o.kind \in BlockKinds BY <2>1, BlockScript
  <2>2. CASE o.kind = "RpmbRead" BY <2>2, ReadScript
  <2>3. CASE o.kind = "RpmbWrite" BY <2>3, WriteScript
  <2> QED BY <2>1, <2>2, <2>3 DEF Op, RpmbKinds
<1>2. o.next < o.count BY DEF Op
<1>3. /\ ~op.pending /\ drv.up /\ Issue(o) /\ moved' = {} /\ givenUp' = {}
      /\ mmc' = [mmc EXCEPT !.applied = 0] /\ drv' = drv /\ faults' = faults
  BY DEF Start
<1>4. op' = o /\ cmd' \in Cmd /\ cmd'.phase = "send" /\ Chain'
  BY <1>1, <1>2, <1>3, IssueKeeps
<1>5. mmc' \in Mmc /\ mmc'.partition = mmc.partition /\ mmc'.applied = 0
  BY <1>3 DEF TypeOK, Mmc
<1>6. TypeOK' BY <1>3, <1>4, <1>5 DEF TypeOK
<1> QED BY <1>3, <1>4, <1>5, <1>6

LEMMA IoBlocksStarts ==
  ASSUME TypeOK, NEW kind \in BlockKinds, NEW lba \in Lbas, NEW n \in 1 .. MaxChunks,
         NEW multi \in BOOLEAN, IoBlocks(kind, lba, n, multi)
  PROVE  \E o \in Op :
           /\ o.kind \in BlockKinds /\ o.pending /\ o.pos = 1 /\ o.next = 0
           /\ o.lba = o.first /\ o.suspect = drv.suspect
           /\ Start(o)
<1> DEFINE o == [kind |-> kind, pending |-> TRUE, pos |-> 1, saved |-> "User",
                 failed |-> FALSE, first |-> lba, count |-> n, multi |-> multi,
                 next |-> 0, lba |-> lba, retry |-> 0, suspect |-> drv.suspect]
<1>1. drv.suspect \in BOOLEAN BY DEF TypeOK, Drv
<1>2. o \in Op BY <1>1, TransferAssumption DEF Op, Partitions
<1>3. Start(o) BY DEF IoBlocks
<1> QED BY <1>2, <1>3

LEMMA RpmbStarts ==
  ASSUME TypeOK, NEW kind \in RpmbKinds, RpmbRequest(kind)
  PROVE  \E o \in Op :
           /\ o.kind \in RpmbKinds /\ o.pending /\ o.pos = 1 /\ o.next = 0
           /\ o.saved = drv.current /\ ~o.failed
           /\ Start(o)
<1>1. PICK lba \in Lbas :
        Start([kind |-> kind, pending |-> TRUE, pos |-> 1, saved |-> drv.current,
               failed |-> FALSE, first |-> lba, count |-> 1, multi |-> FALSE,
               next |-> 0, lba |-> 0, retry |-> 0, suspect |-> drv.suspect])
  BY DEF RpmbRequest
<1> DEFINE o == [kind |-> kind, pending |-> TRUE, pos |-> 1, saved |-> drv.current,
                 failed |-> FALSE, first |-> lba, count |-> 1, multi |-> FALSE,
                 next |-> 0, lba |-> 0, retry |-> 0, suspect |-> drv.suspect]
<1>2. drv.suspect \in BOOLEAN /\ drv.current \in Partitions BY DEF TypeOK, Drv
<1>3. o \in Op BY <1>2, TransferAssumption DEF Op
<1> QED BY <1>1, <1>3

(* The loop of IoBlocks.                                                   *)
LEMMA NextTransferKeeps ==
  ASSUME TypeOK, Chain, op.pending, op.kind \in BlockKinds, NEW f \in BOOLEAN,
         NextTransfer(f)
  PROVE  /\ op' \in Op /\ cmd' \in Cmd /\ Chain'
         /\ op'.kind = op.kind /\ op'.first = op.first /\ op'.count = op.count
         /\ op'.suspect = op.suspect /\ op'.next = op.next + 1
         /\ op'.pending => /\ cmd'.phase = "send"
                           /\ op'.lba = IF drv.up THEN op.lba + 1 ELSE op.lba
         /\ ~op'.pending => op'.next = op'.count
<1> DEFINE o == [op EXCEPT !.next = @ + 1, !.retry = 0, !.failed = f,
                           !.lba = IF drv.up THEN @ + 1 ELSE @]
<1>1. op \in Op /\ op.next < op.count /\ op.pos <= Len(Script(op.kind))
  BY DEF TypeOK, Chain, InChain
<1>2. /\ o \in Op /\ o.kind = op.kind /\ o.first = op.first /\ o.count = op.count
      /\ o.suspect = op.suspect /\ o.next = op.next + 1 /\ o.pos = op.pos
      /\ o.lba = (IF drv.up THEN op.lba + 1 ELSE op.lba) /\ o.pending
  <2> DEFINE l == IF drv.up THEN op.lba + 1 ELSE op.lba
             n == op.next + 1
  <2>1. l \in Nat BY <1>1 DEF Op
  <2>2. n \in 0 .. MaxChunks
    <3>1. op.next \in Nat /\ op.count \in 1 .. MaxChunks BY <1>1 DEF Op
    <3> QED BY <1>1, <3>1, TransferAssumption
  <2>3. 0 \in 0 .. Retries BY TransferAssumption
  <2>4. o = [op EXCEPT !.next = n, !.retry = 0, !.failed = f, !.lba = l] BY <1>1 DEF Op
  <2> HIDE DEF l, n, o
  <2>5. o \in Op BY <1>1, <2>1, <2>2, <2>3, <2>4 DEF Op
  <2>6. /\ o.kind = op.kind /\ o.first = op.first /\ o.count = op.count
        /\ o.suspect = op.suspect /\ o.next = n /\ o.pos = op.pos
        /\ o.lba = l /\ o.pending
    BY <1>1, <2>4 DEF Op
  <2> QED BY <2>5, <2>6 DEF l, n
<1>3. IF o.next < o.count THEN Issue(o) ELSE Done(o) BY DEF NextTransfer
<1> HIDE DEF o
<1>4. CASE o.next < o.count
  <2>1. op' = o /\ cmd' \in Cmd /\ cmd'.phase = "send" /\ Chain'
    BY <1>1, <1>2, <1>3, <1>4, IssueKeeps
  <2> QED BY <1>2, <2>1
<1>5. CASE ~ (o.next < o.count)
  <2>1. /\ op' \in Op /\ ~op'.pending /\ cmd' \in Cmd /\ Chain'
        /\ op'.kind = o.kind /\ op'.failed = o.failed /\ op'.first = o.first
        /\ op'.count = o.count /\ op'.next = o.next /\ op'.suspect = o.suspect
    BY <1>2, <1>3, <1>5, DoneKeeps
  <2>2. o.next = o.count
    <3>1. op.next \in Nat /\ op.count \in Nat BY <1>1 DEF Op
    <3> QED BY <1>1, <1>2, <1>5, <3>1
  <2> QED BY <1>2, <2>1, <2>2
<1> QED BY <1>4, <1>5

LEMMA PendingAt == Chain /\ (At("ok") \/ At("error")) => op.pending
BY DEF Chain, At

LEMMA BlockDoneKeeps ==
  ASSUME TypeOK, Chain, BlockDone
  PROVE  TypeOK' /\ Chain'
<1>1. op.pending /\ op.kind \in BlockKinds /\ NextTransfer(FALSE)
      /\ UNCHANGED <<mmc, drv, moved, givenUp, faults>>
  BY PendingAt DEF BlockDone
<1>2. op' \in Op /\ cmd' \in Cmd /\ Chain' BY <1>1, NextTransferKeeps
<1> QED BY <1>1, <1>2 DEF TypeOK

LEMMA BlockFailsKeeps ==
  ASSUME TypeOK, Chain, BlockFails
  PROVE  /\ TypeOK' /\ Chain'
         /\ \/ /\ op' = [op EXCEPT !.retry = @ + 1] /\ cmd'.phase = "send"
               /\ UNCHANGED givenUp
            \/ /\ NextTransfer(TRUE)
               /\ givenUp' # {}
<1>1. op.pending /\ op.kind \in BlockKinds /\ UNCHANGED <<mmc, drv, moved, faults>>
  BY PendingAt DEF BlockFails
<1>2. op \in Op /\ op.next < op.count /\ op.pos <= Len(Script(op.kind))
  BY <1>1 DEF TypeOK, Chain, InChain
<1>3. CASE op.retry + 1 < Retries /\ Issue([op EXCEPT !.retry = @ + 1]) /\ UNCHANGED givenUp
  <2> DEFINE o == [op EXCEPT !.retry = @ + 1]
  <2>1. /\ o \in Op /\ o.pending /\ o.pos = op.pos /\ o.kind = op.kind
        /\ o.next = op.next /\ o.count = op.count
    BY <1>1, <1>2, <1>3, TransferAssumption DEF Op
  <2>2. op' = o /\ cmd' \in Cmd /\ cmd'.phase = "send" /\ Chain'
    BY <1>2, <1>3, <2>1, IssueKeeps
  <2> QED BY <1>1, <1>3, <2>1, <2>2 DEF TypeOK
<1>4. CASE NextTransfer(TRUE) /\ givenUp' = givenUp \cup {op.next}
  <2>1. op' \in Op /\ cmd' \in Cmd /\ Chain' BY <1>1, <1>4, NextTransferKeeps
  <2>2. op.next \in 0 .. MaxChunks BY <1>2 DEF Op
  <2>3. givenUp' \subseteq 0 .. MaxChunks BY <1>4, <2>2 DEF TypeOK
  <2>4. TypeOK' BY <1>1, <2>1, <2>3 DEF TypeOK
  <2> QED BY <1>4, <2>1, <2>4
<1> QED BY <1>3, <1>4 DEF BlockFails

(* RpmbRequest goes on, or returns.                                        *)
Continued(pos, f) ==
  /\ op' = [op EXCEPT !.pos = pos, !.failed = f]
  /\ cmd'.phase = "send"

Returned(f) ==
  /\ op'.kind = op.kind /\ ~op'.pending /\ op'.failed = f
  /\ drv'.suspect = (drv.suspect \/ f) /\ drv'.up = drv.up
  /\ ~f => drv'.current = op.saved /\ mmc.partition = op.saved

LEMMA ReturnKeeps ==
  ASSUME TypeOK, Chain, op.pending, NEW f \in BOOLEAN, ReturnRpmb(f),
         ~f => StepName = "verifyOut" /\ At("ok") /\ mmc.partition = op.saved
  PROVE  op' \in Op /\ cmd' \in Cmd /\ drv' \in Drv /\ Chain' /\ Returned(f)
<1> DEFINE o == [op EXCEPT !.failed = f]
<1>1. o \in Op /\ o.kind = op.kind /\ o.failed = f BY DEF TypeOK, Op
<1>2. Done(o) BY DEF ReturnRpmb
<1>3. /\ op' \in Op /\ ~op'.pending /\ cmd' \in Cmd /\ Chain'
      /\ op'.kind = op.kind /\ op'.failed = f
  BY <1>1, <1>2, DoneKeeps
<1> DEFINE s == drv.suspect \/ f
           c == IF StepName = "verifyOut" /\ At("ok") /\ mmc.partition = op.saved
                THEN op.saved ELSE drv.current
<1>4. s \in BOOLEAN OBVIOUS
<1>5. c \in Partitions BY DEF TypeOK, Drv, Op
<1>6. drv' = [drv EXCEPT !.suspect = s, !.current = c]
  BY DEF ReturnRpmb
<1>7. ~f => c = op.saved /\ mmc.partition = op.saved OBVIOUS
<1> HIDE DEF c
<1>8. drv' \in Drv /\ drv'.suspect = s /\ drv'.up = drv.up /\ drv'.current = c
  <2> HIDE DEF s
  <2> QED BY <1>4, <1>5, <1>6 DEF TypeOK, Drv
<1>9. Returned(f) BY <1>3, <1>7, <1>8 DEF Returned
<1> QED BY <1>3, <1>8, <1>9

LEMMA ContinueKeeps ==
  ASSUME TypeOK, Chain, op.pending, op.kind \in RpmbKinds, NEW f \in BOOLEAN,
         NEW pos \in 1 .. Len(Script(op.kind)),
         Issue([op EXCEPT !.pos = pos, !.failed = f])
  PROVE  op' \in Op /\ cmd' \in Cmd /\ Chain' /\ Continued(pos, f)
<1> DEFINE o == [op EXCEPT !.pos = pos, !.failed = f]
<1>1. op \in Op BY DEF TypeOK
<1>2. pos \in 1 .. 10
  <2>1. Len(Script(op.kind)) = AnswerPos(op.kind) + 2 /\ AnswerPos(op.kind) \in 6 .. 8
    BY RpmbScript
  <2> QED BY <2>1
<1>3. o \in Op /\ o.kind = op.kind /\ o.pos = pos /\ o.pending BY <1>1, <1>2 DEF Op
<1>4. o.kind \notin BlockKinds BY <1>3 DEF BlockKinds, RpmbKinds
<1>5. Issue(o) OBVIOUS
<1> HIDE DEF o
<1>6. o.pos <= Len(Script(o.kind))
  <2>1. Len(Script(op.kind)) = AnswerPos(op.kind) + 2 /\ AnswerPos(op.kind) \in 6 .. 8
    BY RpmbScript
  <2>2. pos <= Len(Script(op.kind)) BY <2>1
  <2> QED BY <1>3, <2>2
<1>7. op' = o /\ cmd' \in Cmd /\ cmd'.phase = "send" /\ Chain'
  BY <1>3, <1>4, <1>5, <1>6, IssueKeeps
<1> QED BY <1>3, <1>7 DEF Continued, o

(* The command layer is done with a command of an RPMB request.            *)
LEMMA RpmbDoneKeeps ==
  ASSUME TypeOK, Chain, RpmbDone
  PROVE  /\ TypeOK' /\ Chain' /\ op.pending /\ op.kind \in RpmbKinds
         /\ cmd.phase = "ok" /\ mmc' = mmc /\ moved' = moved /\ givenUp' = givenUp
         /\ \/ /\ Continued(op.pos + 1, op.failed)
               /\ op.pos # AnswerPos(op.kind) + 2
               /\ op.pos = 2 => mmc.partition = "Rpmb"
               /\ drv'.suspect = drv.suspect /\ drv'.up = drv.up
            \/ Returned(TRUE)
            \/ op.pos = AnswerPos(op.kind) + 2 /\ Returned(op.failed)
<1>1. /\ op.pending /\ op.kind \in RpmbKinds /\ cmd.phase = "ok" /\ At("ok")
      /\ UNCHANGED <<mmc, moved, givenUp, faults>>
  BY PendingAt DEF RpmbDone, At
<1> DEFINE p == op.pos
<1>2. op \in Op /\ p \in 1 .. 10 /\ p <= Len(Script(op.kind)) /\ op.failed \in BOOLEAN
  BY <1>1 DEF TypeOK, Chain, InChain, Op
<1>3. Len(Script(op.kind)) = AnswerPos(op.kind) + 2 /\ AnswerPos(op.kind) \in 6 .. 8
  <2>1. 1 \in 1 .. Len(Script(op.kind))
    <3>1. CASE op.kind = "RpmbRead" BY <3>1, ReadScript
    <3>2. CASE op.kind = "RpmbWrite" BY <3>2, WriteScript
    <3> QED BY <1>1, <3>1, <3>2 DEF RpmbKinds
  <2> QED BY <1>1, <2>1, RpmbScript
<1>4. p \in 1 .. Len(Script(op.kind)) BY <1>2, <1>3
<1>5. /\ StepName = "verifyIn" <=> p = 2
      /\ StepName = "verifyOut" <=> p = AnswerPos(op.kind) + 2
  BY <1>1, <1>4, RpmbScript DEF StepName
<1>6. \/ /\ StepName = "verifyIn" /\ Verified("Rpmb")
         /\ Issue([op EXCEPT !.pos = @ + 1])
         /\ drv' = [drv EXCEPT !.current = "Rpmb"]
      \/ StepName = "verifyIn" /\ ~Verified("Rpmb") /\ ReturnRpmb(TRUE)
      \/ StepName = "verifyOut" /\ ReturnRpmb(op.failed \/ ~Verified(op.saved))
      \/ /\ StepName \notin {"verifyIn", "verifyOut"}
         /\ Issue([op EXCEPT !.pos = @ + 1])
         /\ drv' = drv
  BY DEF RpmbDone
<1>7. CASE Issue([op EXCEPT !.pos = @ + 1]) /\ StepName # "verifyOut"
  <2>1. p + 1 \in 1 .. Len(Script(op.kind)) BY <1>2, <1>3, <1>5, <1>7
  <2>2. [op EXCEPT !.pos = @ + 1] = [op EXCEPT !.pos = p + 1, !.failed = op.failed]
    BY <1>2 DEF Op
  <2>3. Issue([op EXCEPT !.pos = p + 1, !.failed = op.failed]) BY <1>7, <2>2
  <2>4. op' \in Op /\ cmd' \in Cmd /\ Chain' /\ Continued(p + 1, op.failed)
    BY <1>1, <1>2, <2>1, <2>3, ContinueKeeps
  <2>5. drv' \in Drv /\ drv'.suspect = drv.suspect /\ drv'.up = drv.up
    BY <1>6, <1>7 DEF TypeOK, Drv, Partitions, ReturnRpmb, Issue, Done, NoCmd
  <2>6. TypeOK' BY <1>1, <2>4, <2>5 DEF TypeOK
  <2>7. p = 2 => mmc.partition = "Rpmb"
    BY <1>5, <1>6, <1>7 DEF Verified, ReturnRpmb, Issue, Done, NoCmd
  <2>8. p # AnswerPos(op.kind) + 2 BY <1>5, <1>7
  <2> QED BY <1>1, <2>4, <2>5, <2>6, <2>7, <2>8
<1>8. CASE ReturnRpmb(TRUE)
  <2>1. op' \in Op /\ cmd' \in Cmd /\ drv' \in Drv /\ Chain' /\ Returned(TRUE)
    BY <1>1, <1>8, ReturnKeeps
  <2> QED BY <1>1, <2>1 DEF TypeOK
<1>9. CASE StepName = "verifyOut" /\ ReturnRpmb(op.failed \/ ~Verified(op.saved))
  <2>1. CASE op.failed \/ ~Verified(op.saved)
    <3>1. ReturnRpmb(TRUE) BY <1>9, <2>1
    <3> QED BY <3>1, <1>8
  <2>2. CASE ~op.failed /\ Verified(op.saved)
    <3>1. ReturnRpmb(FALSE) /\ op.failed = FALSE BY <1>2, <1>9, <2>2
    <3>2. mmc.partition = op.saved BY <2>2 DEF Verified
    <3>3. op' \in Op /\ cmd' \in Cmd /\ drv' \in Drv /\ Chain' /\ Returned(FALSE)
      BY <1>1, <1>9, <3>1, <3>2, ReturnKeeps
    <3> QED BY <1>1, <1>5, <1>9, <3>1, <3>3 DEF TypeOK
  <2> QED BY <2>1, <2>2
<1> QED BY <1>6, <1>7, <1>8, <1>9

LEMMA RpmbFailsKeeps ==
  ASSUME TypeOK, Chain, RpmbFails
  PROVE  /\ TypeOK' /\ Chain' /\ op.pending /\ op.kind \in RpmbKinds
         /\ cmd.phase = "error" /\ mmc' = mmc /\ moved' = moved /\ givenUp' = givenUp
         /\ \/ /\ Continued(AnswerPos(op.kind) + 1, TRUE)
               /\ drv' = drv
            \/ Returned(TRUE)
<1>1. /\ op.pending /\ op.kind \in RpmbKinds /\ cmd.phase = "error"
      /\ UNCHANGED <<mmc, moved, givenUp, faults>>
  BY PendingAt DEF RpmbFails, At
<1>2. \/ ReturnRpmb(TRUE)
      \/ /\ Issue([op EXCEPT !.failed = TRUE, !.pos = SwitchOutPos(op.kind)])
         /\ drv' = drv
  BY DEF RpmbFails
<1>3. CASE ReturnRpmb(TRUE)
  <2>1. op' \in Op /\ cmd' \in Cmd /\ drv' \in Drv /\ Chain' /\ Returned(TRUE)
    BY <1>1, <1>3, ReturnKeeps
  <2> QED BY <1>1, <2>1 DEF TypeOK
<1>4. CASE Issue([op EXCEPT !.failed = TRUE, !.pos = SwitchOutPos(op.kind)]) /\ drv' = drv
  <2>1. 1 \in 1 .. Len(Script(op.kind))
    <3>1. CASE op.kind = "RpmbRead" BY <3>1, ReadScript
    <3>2. CASE op.kind = "RpmbWrite" BY <3>2, WriteScript
    <3> QED BY <1>1, <3>1, <3>2 DEF RpmbKinds
  <2>2. /\ Len(Script(op.kind)) = AnswerPos(op.kind) + 2 /\ AnswerPos(op.kind) \in 6 .. 8
        /\ SwitchOutPos(op.kind) = AnswerPos(op.kind) + 1
    BY <1>1, <2>1, RpmbScript
  <2>3. AnswerPos(op.kind) + 1 \in 1 .. Len(Script(op.kind)) BY <2>2
  <2>4. [op EXCEPT !.failed = TRUE, !.pos = SwitchOutPos(op.kind)]
          = [op EXCEPT !.pos = AnswerPos(op.kind) + 1, !.failed = TRUE]
    BY <2>2 DEF TypeOK, Op
  <2>5. op' \in Op /\ cmd' \in Cmd /\ Chain' /\ Continued(AnswerPos(op.kind) + 1, TRUE)
    BY <1>1, <1>4, <2>3, <2>4, ContinueKeeps
  <2> QED BY <1>1, <1>4, <2>5 DEF TypeOK
<1> QED BY <1>2, <1>3, <1>4

(* A card put back.                                                        *)
LEMMA ReinsertedKeeps ==
  ASSUME TypeOK, Chain, CardReinserted
  PROVE  /\ TypeOK' /\ Chain' /\ ~op.pending
         /\ UNCHANGED <<op, cmd, moved, givenUp>>
         /\ mmc'.partition = "User" /\ mmc'.applied = mmc.applied /\ mmc'.answer = "none"
         /\ drv'.current = "User"
<1>1. ~op.pending /\ SoftResetSucceeds /\ UNCHANGED <<op, cmd, moved, givenUp, faults>>
  BY DEF CardReinserted
<1>2. /\ mmc' \in Mmc /\ mmc'.partition = "User" /\ mmc'.applied = mmc.applied
      /\ mmc'.answer = "none"
  BY <1>1 DEF SoftResetSucceeds, TypeOK, Mmc, Partitions
<1>3. drv' \in Drv /\ drv'.current = "User"
  BY <1>1 DEF SoftResetSucceeds, Drv, Partitions
<1> QED BY <1>1, <1>2, <1>3 DEF TypeOK, Chain

-----------------------------------------------------------------------------
(* The invariant.  While the commands of an RPMB request succeed, the      *)
(* device stands on the RPMB partition and has executed the request as     *)
(* often as its position says; anything else leads into a broken phase,    *)
(* and from there to an error.                                             *)

RpmbInv ==
  op.kind \in RpmbKinds =>
    /\ \A m \in moved : m.partition = "Rpmb"
    /\ mmc.applied <= 1
    /\ op.pending /\ (op.pos < 4 \/ (op.pos = 4 /\ cmd.phase = "send")) => mmc.applied = 0
    /\ op.pending /\ cmd.phase \in Clean /\ op.pos \in 3 .. AnswerPos(op.kind)
         => mmc.partition = "Rpmb"
    /\ ~op.failed /\ op.pending /\ cmd.phase \in Clean
         /\ (op.pos > 4 \/ (op.pos = 4 /\ cmd.phase # "send"))
         => mmc.applied = 1
    /\ ~op.failed /\ op.pending /\ cmd.phase \in Clean
         /\ (op.pos > AnswerPos(op.kind)
               \/ (op.pos = AnswerPos(op.kind) /\ cmd.phase # "send"))
         => mmc.answer = "none"
    /\ ~op.failed /\ ~op.pending => mmc.applied = 1 /\ mmc.answer = "none"

(* The partition the device was left on: the user area, unless an error    *)
(* was reported or the slot is down; an RPMB request without error yet     *)
(* will go back there.                                                     *)
DriftInv ==
  /\ ~op.pending /\ drv.up /\ ~drv.suspect => mmc.partition = "User" /\ drv.current = "User"
  /\ op.pending /\ op.kind \in BlockKinds /\ drv.up /\ ~drv.suspect
       => mmc.partition = "User" /\ drv.current = "User"
  /\ op.pending /\ op.kind \in RpmbKinds /\ ~op.failed /\ cmd.phase \in Clean
       => op.saved = "User" \/ drv.suspect

(* How far a block request has come without giving up a part.              *)
BlockInv ==
  op.kind \in BlockKinds =>
    /\ op.pending /\ ~op.suspect => mmc.partition = "User"
    /\ op.pending /\ givenUp = {} => op.lba = op.first + op.next
    /\ ~op.suspect /\ givenUp = {} =>
         /\ \A part \in 0 .. (op.next - 1) : InPlace(part)
         /\ op.pending /\ cmd.phase \in {"stop", "wait", "ok"} => InPlace(op.next)
    /\ ~op.pending /\ ~op.failed => op.next = op.count

IInv == TypeOK /\ Chain /\ RpmbInv /\ DriftInv /\ BlockInv

LEMMA InitInv == Init => IInv
<1> SUFFICES ASSUME Init PROVE IInv
  OBVIOUS
<1>1. op \in Op /\ ~op.pending /\ op.kind = "Read" /\ op.failed /\ op.next = 0
  <2>1. 0 \in 0 .. Retries /\ 1 \in 1 .. MaxChunks /\ 0 \in 0 .. MaxChunks /\ 1 \in 1 .. 10
    BY TransferAssumption
  <2>2. op \in [kind : {"Read"}, pending : {FALSE}, pos : {1}, saved : {"User"},
               failed : {TRUE}, first : Lbas, count : {1}, multi : {FALSE},
               next : {0}, lba : {0}, retry : {0}, suspect : {FALSE}]
    BY DEF Init
  <2>3. PICK l \in Lbas :
          op = [kind |-> "Read", pending |-> FALSE, pos |-> 1, saved |-> "User",
                failed |-> TRUE, first |-> l, count |-> 1, multi |-> FALSE,
                next |-> 0, lba |-> 0, retry |-> 0, suspect |-> FALSE]
    BY <2>2
  <2>4. op \in Op BY <2>1, <2>3 DEF Op, Partitions, BlockKinds, RpmbKinds
  <2> QED BY <2>3, <2>4
<1>2. cmd \in Cmd /\ cmd.phase = "none" BY DEF Init, NoCmd, Cmd, Phases
<1>3. mmc \in Mmc /\ mmc.partition = "User" BY DEF Init, Mmc, Partitions
<1>4. drv \in Drv /\ drv.current = "User" BY DEF Init, Drv, Partitions
<1>5. moved = {} /\ givenUp = {} /\ faults \in 0 .. MaxFaults
  BY TransferAssumption DEF Init
<1>6. TypeOK BY <1>1, <1>2, <1>3, <1>4, <1>5 DEF TypeOK
<1>7. Chain BY <1>1, <1>2 DEF Chain
<1>8. RpmbInv BY <1>1 DEF RpmbInv, RpmbKinds
<1>9. DriftInv BY <1>1, <1>3, <1>4 DEF DriftInv
<1>10. BlockInv BY <1>1 DEF BlockInv
<1> QED BY <1>6, <1>7, <1>8, <1>9, <1>10 DEF IInv

(* Where the RPMB request stands, as the lemmas on scripts put it.         *)
LEMMA RpmbPlace ==
  ASSUME TypeOK, Chain, op.pending, op.kind \in RpmbKinds
  PROVE  /\ op.pos \in 1 .. (AnswerPos(op.kind) + 2) /\ AnswerPos(op.kind) \in 6 .. 8
         /\ StepName = "request" <=> op.pos = 4
         /\ StepName = "answer" <=> op.pos = AnswerPos(op.kind)
         /\ StepName \in {"setBlockCount", "request", "askResult", "answer"}
              <=> op.pos \in 3 .. AnswerPos(op.kind)
         /\ cmd.name # "SINGLE"
         /\ cmd.name = "SWITCH" <=> op.pos \in {1, AnswerPos(op.kind) + 1}
         /\ cmd.name = "MULTI" => op.pos \in 4 .. AnswerPos(op.kind)
<1>1. op \in Op /\ op.pos \in 1 .. 10 /\ op.pos <= Len(Script(op.kind))
  BY DEF TypeOK, Chain, InChain, Op
<1>2. 1 \in 1 .. Len(Script(op.kind))
  <2>1. CASE op.kind = "RpmbRead" BY <2>1, ReadScript
  <2>2. CASE op.kind = "RpmbWrite" BY <2>2, WriteScript
  <2> QED BY <2>1, <2>2 DEF RpmbKinds
<1>3. Len(Script(op.kind)) = AnswerPos(op.kind) + 2 /\ AnswerPos(op.kind) \in 6 .. 8
  BY <1>2, RpmbScript
<1>4. op.pos \in 1 .. Len(Script(op.kind)) BY <1>1, <1>3
<1>5. /\ StepName = "request" <=> op.pos = 4
      /\ StepName = "answer" <=> op.pos = AnswerPos(op.kind)
      /\ StepName \in {"setBlockCount", "request", "askResult", "answer"}
           <=> op.pos \in 3 .. AnswerPos(op.kind)
  BY <1>4, RpmbScript DEF StepName
<1>6. cmd.name = CommandOf(op) BY DEF Chain, InChain
<1>7. /\ cmd.name # "SINGLE"
      /\ cmd.name = "SWITCH" <=> op.pos \in {1, AnswerPos(op.kind) + 1}
      /\ cmd.name = "MULTI" => op.pos \in 4 .. AnswerPos(op.kind)
  BY <1>1, <1>6, CommandNames
<1> QED BY <1>3, <1>4, <1>5, <1>7

-----------------------------------------------------------------------------
(* The command layer keeps it.                                             *)

LEMMA CommandRpmb ==
  ASSUME IInv, op.pending, CommandStep
  PROVE  RpmbInv'
<1> USE DEF IInv
<1> SUFFICES ASSUME op.kind \in RpmbKinds PROVE RpmbInv'
  <2> op' = op BY CommandEffect DEF Effect
  <2> QED BY DEF RpmbInv
<1> DEFINE p == op.pos
           a == AnswerPos(op.kind)
<1>1. Typed /\ Effect BY CommandEffect
<1>2. op' = op /\ cmd'.name = cmd.name BY <1>1 DEF Effect
<1>3. /\ p \in 1 .. (a + 2) /\ a \in 6 .. 8
      /\ StepName = "request" <=> p = 4
      /\ StepName = "answer" <=> p = a
      /\ StepName \in {"setBlockCount", "request", "askResult", "answer"} <=> p \in 3 .. a
      /\ cmd.name # "SINGLE"
      /\ cmd.name = "SWITCH" <=> p \in {1, a + 1}
      /\ cmd.name = "MULTI" => p \in 4 .. a
  BY RpmbPlace
<1>4. mmc.applied \in Nat BY DEF TypeOK, Mmc
<1>5. /\ \A m \in moved : m.partition = "Rpmb"
      /\ mmc.applied <= 1
      /\ p < 4 \/ (p = 4 /\ cmd.phase = "send") => mmc.applied = 0
      /\ cmd.phase \in Clean /\ p \in 3 .. a => mmc.partition = "Rpmb"
      /\ ~op.failed /\ cmd.phase \in Clean /\ (p > 4 \/ (p = 4 /\ cmd.phase # "send"))
           => mmc.applied = 1
      /\ ~op.failed /\ cmd.phase \in Clean /\ (p > a \/ (p = a /\ cmd.phase # "send"))
           => mmc.answer = "none"
  BY DEF RpmbInv
<1>6. ASSUME NEW c \in BOOLEAN, Moved(c), cmd.phase = "send"
      PROVE  \A m \in moved' : m.partition = "Rpmb"
  <2>1. CASE cmd.name \in {"SINGLE", "MULTI"}
    <3>1. mmc.partition = "Rpmb" BY <1>3, <1>5, <1>6, <2>1 DEF Clean
    <3>2. moved' = moved \/ moved' = moved \cup {[partition |-> mmc.partition,
                                                  lba |-> op.lba, part |-> op.next]}
      BY <1>6 DEF Moved
    <3> QED BY <1>5, <3>1, <3>2
  <2>2. CASE cmd.name \notin {"SINGLE", "MULTI"}
    <3>1. moved' = moved BY <1>6, <2>2 DEF Moved
    <3> QED BY <1>5, <3>1
  <2> QED BY <2>1, <2>2
<1>7. ASSUME Took, cmd.phase = "send"
      PROVE  /\ mmc'.applied <= 1
             /\ p < 4 => mmc'.applied = 0
             /\ p = 4 => mmc'.applied = 1
             /\ p # 4 => mmc'.applied = mmc.applied
             /\ p \in 3 .. a => mmc'.partition = mmc.partition
             /\ p = a => mmc'.answer = "none"
  BY <1>3, <1>4, <1>5, <1>7 DEF Took
<1>8. CASE Sent
  <2>1. cmd.phase = "send" /\ cmd'.phase \in {"stop", "wait", "ok"} BY <1>8 DEF Sent, Goes
  <2>2. \A m \in moved' : m.partition = "Rpmb" BY <1>6, <1>8, <2>1 DEF Sent
  <2>3. CASE Took /\ p # a + 1 /\ p # a + 2
    BY <1>2, <1>3, <1>4, <1>5, <1>7, <2>1, <2>2, <2>3 DEF RpmbInv, Clean
  <2>4. CASE Took /\ p \in {a + 1, a + 2}
    <3>1. (mmc'.applied = mmc.applied /\ mmc'.answer = "none") \/ op.failed
      <4>1. CASE op.failed BY <4>1
      <4>2. CASE ~op.failed
        <5>1. mmc.answer = "none" BY <1>3, <1>5, <2>1, <2>4, <4>2 DEF Clean
        <5>2. StepName \notin {"request", "askResult"} /\ p # 4 BY <1>3, <2>4
        <5> QED BY <1>7, <2>1, <2>4, <5>1, <5>2 DEF Took
      <4> QED BY <4>1, <4>2
    <3> QED BY <1>2, <1>3, <1>4, <1>5, <1>7, <2>1, <2>2, <2>4, <3>1 DEF RpmbInv, Clean
  <2>5. CASE cmd.name = "SWITCH" /\ DeviceKept
    BY <1>2, <1>3, <1>4, <1>5, <2>1, <2>2, <2>5 DEF RpmbInv, Clean, DeviceKept
  <2> QED BY <1>3, <1>8, <2>3, <2>4, <2>5 DEF Sent
<1>9. CASE SentBadly
  <2>1. cmd.phase = "send" /\ cmd'.phase \notin Clean /\ cmd'.phase # "send"
    BY <1>9 DEF SentBadly, Goes, Clean, Broken
  <2>2. \A m \in moved' : m.partition = "Rpmb" BY <1>5, <1>6, <1>9, <2>1 DEF SentBadly
  <2>3. mmc'.applied <= 1 /\ (p < 4 => mmc'.applied = 0)
    BY <1>5, <1>7, <1>9, <2>1 DEF SentBadly, DeviceKept
  <2> QED BY <1>2, <2>1, <2>2, <2>3 DEF RpmbInv
<1>10. CASE Finished
  <2>1. /\ cmd.phase \in Clean /\ cmd.phase # "send" /\ cmd'.phase # "send"
        /\ DeviceKept /\ moved' = moved
    BY <1>10 DEF Finished, Goes, Clean
  <2> QED BY <1>2, <1>5, <2>1 DEF RpmbInv, DeviceKept
<1>11. CASE Failed
  <2>1. cmd'.phase \notin Clean /\ cmd'.phase # "send" /\ moved' = moved
    BY <1>11 DEF Failed, Goes, Clean, Broken
  <2>2. mmc'.applied = mmc.applied
    BY <1>11 DEF Failed, DeviceKept, WasReset, WasLost
  <2> QED BY <1>2, <1>5, <2>1, <2>2 DEF RpmbInv
<1> QED BY <1>1, <1>8, <1>9, <1>10, <1>11 DEF Effect

LEMMA CommandDrift ==
  ASSUME IInv, op.pending, CommandStep
  PROVE  DriftInv'
<1> USE DEF IInv
<1>1. Typed /\ Effect BY CommandEffect
<1>2. op' = op /\ cmd'.name = cmd.name BY <1>1 DEF Effect
<1>3. op \in Op /\ op.pos \in 1 .. 10 /\ op.pos <= Len(Script(op.kind))
      /\ op.kind \in BlockKinds \cup RpmbKinds
  BY DEF TypeOK, Chain, InChain, Op
<1>4. op.kind \in BlockKinds => cmd.name # "SWITCH"
  BY <1>3, CommandNames DEF Chain, InChain
<1>5. CASE Failed
  <2>1. cmd'.phase \notin Clean BY <1>5 DEF Failed, Goes, Clean, Broken
  <2>2. op.kind \in BlockKinds /\ drv'.up /\ ~drv'.suspect
          => mmc'.partition = "User" /\ drv'.current = "User"
    BY <1>5 DEF Failed, DeviceKept, DriverKept, WasReset, WasLost, DriftInv
  <2> QED BY <1>2, <2>1, <2>2 DEF DriftInv
<1>6. CASE ~Failed
  <2>1. DriverKept BY <1>1, <1>6 DEF Effect, Sent, SentBadly, Finished
  <2>2. cmd'.phase \in Clean => cmd.phase \in Clean
    BY <1>1, <1>6 DEF Effect, Sent, SentBadly, Finished, Goes, Clean, Broken
  <2>3. op.kind \in BlockKinds => mmc'.partition = mmc.partition
    BY <1>1, <1>4, <1>6 DEF Effect, Sent, SentBadly, Finished, Took, DeviceKept
  <2> QED BY <1>2, <2>1, <2>2, <2>3 DEF DriftInv, DriverKept
<1> QED BY <1>5, <1>6

LEMMA CommandBlock ==
  ASSUME IInv, op.pending, CommandStep
  PROVE  BlockInv'
<1> USE DEF IInv
<1> SUFFICES ASSUME op.kind \in BlockKinds PROVE BlockInv'
  <2> op' = op BY CommandEffect DEF Effect
  <2> QED BY DEF BlockInv
<1>1. Typed /\ Effect BY CommandEffect
<1>2. op' = op /\ givenUp' = givenUp BY <1>1 DEF Effect
<1>3. op \in Op /\ op.pos \in 1 .. 10 /\ op.pos <= Len(Script(op.kind))
  BY DEF TypeOK, Chain, InChain, Op
<1>4. cmd.name \in {"SINGLE", "MULTI"}
  BY <1>3, CommandNames DEF Chain, InChain
<1>5. op.kind \notin RpmbKinds BY DEF BlockKinds, RpmbKinds
<1>6. ~op.suspect => mmc'.partition = "User"
  <2>1. ~op.suspect => mmc.partition = "User" BY DEF BlockInv
  <2> QED BY <1>1, <1>4, <2>1
     DEF Effect, Sent, SentBadly, Finished, Failed, Took, DeviceKept, WasReset, WasLost
<1>7. moved \subseteq moved'
  BY <1>1 DEF Effect, Sent, SentBadly, Finished, Failed, Moved
<1>8. \A part : InPlace(part) => InPlace(part)' BY <1>2, <1>7 DEF InPlace
<1>9. ASSUME ~op.suspect, givenUp = {}, cmd'.phase \in {"stop", "wait", "ok"}
      PROVE  InPlace(op.next)'
  <2>1. CASE Sent
    <3>1. moved' = moved \cup {[partition |-> mmc.partition, lba |-> op.lba,
                                part |-> op.next]}
      BY <1>4, <2>1 DEF Sent, Moved
    <3>2. mmc.partition = "User" /\ op.lba = op.first + op.next BY <1>9 DEF BlockInv
    <3>3. [partition |-> "User", lba |-> op.first + op.next, part |-> op.next] \in moved'
      BY <3>1, <3>2
    <3> QED BY <1>2, <3>3 DEF InPlace
  <2>2. CASE Finished
    <3>1. InPlace(op.next) BY <1>9, <2>2 DEF Finished, Goes, BlockInv
    <3> QED BY <1>2, <1>7, <3>1 DEF InPlace
  <2>3. CASE SentBadly \/ Failed
    BY <1>9, <2>3 DEF SentBadly, Failed, Goes, Broken
  <2> QED BY <1>1, <2>1, <2>2, <2>3 DEF Effect
<1> QED BY <1>2, <1>6, <1>8, <1>9 DEF BlockInv

-----------------------------------------------------------------------------
(* The steps of the requests keep it.                                      *)

LEMMA BlockLoopKeeps ==
  ASSUME IInv, op.pending, op.kind \in BlockKinds, NEW f \in BOOLEAN, NextTransfer(f),
         UNCHANGED <<mmc, drv, moved>>,
         givenUp' = {} => givenUp = {} /\ cmd.phase = "ok"
  PROVE  RpmbInv' /\ DriftInv' /\ BlockInv'
<1> USE DEF IInv
<1>1. /\ op' \in Op
      /\ op'.kind = op.kind /\ op'.first = op.first /\ op'.count = op.count
      /\ op'.suspect = op.suspect /\ op'.next = op.next + 1
      /\ op'.pending => /\ cmd'.phase = "send"
                        /\ op'.lba = IF drv.up THEN op.lba + 1 ELSE op.lba
      /\ ~op'.pending => op'.next = op'.count
  BY NextTransferKeeps
<1>2. op'.kind \notin RpmbKinds BY <1>1 DEF BlockKinds, RpmbKinds
<1>3. mmc' = mmc /\ drv' = drv /\ moved' = moved OBVIOUS
<1>4. RpmbInv' BY <1>2 DEF RpmbInv
<1>5. DriftInv' BY <1>1, <1>2, <1>3 DEF DriftInv
<1>6. op.next \in Nat /\ op.first \in Nat /\ op.lba \in Nat
  <2>1. op.next \in 0 .. MaxChunks /\ op.first \in Lbas /\ op.lba \in Nat
    BY DEF TypeOK, Op
  <2>2. Lbas \subseteq Nat BY TransferAssumption
  <2>3. op.first \in Nat BY <2>1, <2>2, Zenon
  <2>4. op.next \in Nat BY <2>1
  <2> QED BY <2>1, <2>3, <2>4
<1>7. ASSUME givenUp' = {} PROVE givenUp = {} /\ cmd.phase = "ok" /\ drv.up
  BY <1>7 DEF Chain, InChain
<1>8. op'.pending /\ givenUp' = {} => op'.lba = op'.first + op'.next
  BY <1>1, <1>6, <1>7 DEF BlockInv
<1>9. ASSUME ~op'.suspect, givenUp' = {}, NEW part \in 0 .. (op'.next - 1)
      PROVE  InPlace(part)'
  <2>1. ~op.suspect /\ givenUp = {} /\ cmd.phase = "ok" BY <1>1, <1>7, <1>9
  <2>2. part \in 0 .. (op.next - 1) \/ part = op.next BY <1>1, <1>6, <1>9
  <2>3. InPlace(part)
    <3>1. CASE part \in 0 .. (op.next - 1) BY <2>1, <3>1 DEF BlockInv
    <3>2. CASE part = op.next BY <2>1, <3>2 DEF BlockInv
    <3> QED BY <2>2, <3>1, <3>2
  <2> QED BY <1>1, <1>3, <2>3 DEF InPlace
<1>10. op'.pending /\ ~op'.suspect => mmc'.partition = "User"
  BY <1>1, <1>3 DEF BlockInv
<1>11. BlockInv'
  BY <1>1, <1>8, <1>9, <1>10 DEF BlockInv
<1> QED BY <1>4, <1>5, <1>11

LEMMA BlockStepKeeps ==
  ASSUME IInv, BlockDone \/ BlockFails
  PROVE  IInv'
<1> USE DEF IInv
<1>1. op.pending /\ op.kind \in BlockKinds /\ UNCHANGED <<mmc, drv, moved>>
  BY PendingAt DEF BlockDone, BlockFails
<1>2. CASE BlockDone
  <2>1. TypeOK' /\ Chain' BY <1>2, BlockDoneKeeps
  <2>2. NextTransfer(FALSE) /\ cmd.phase = "ok" /\ givenUp' = givenUp
    BY <1>2 DEF BlockDone, At
  <2> QED BY <1>1, <2>1, <2>2, BlockLoopKeeps
<1>3. CASE BlockFails
  <2>1. TypeOK' /\ Chain' BY <1>3, BlockFailsKeeps
  <2>2. CASE NextTransfer(TRUE) /\ givenUp' # {}
    BY <1>1, <2>1, <2>2, BlockLoopKeeps
  <2>3. CASE op' = [op EXCEPT !.retry = @ + 1] /\ cmd'.phase = "send" /\ UNCHANGED givenUp
    <3>1. /\ op'.kind = op.kind /\ op'.first = op.first /\ op'.count = op.count
          /\ op'.suspect = op.suspect /\ op'.next = op.next /\ op'.pending = op.pending
          /\ op'.lba = op.lba /\ op'.failed = op.failed /\ op'.saved = op.saved
      BY <2>3 DEF TypeOK, Op
    <3>2. op'.kind \notin RpmbKinds BY <1>1, <3>1 DEF BlockKinds, RpmbKinds
    <3>3. mmc' = mmc /\ drv' = drv /\ moved' = moved /\ givenUp' = givenUp BY <1>1, <2>3
    <3>4. RpmbInv' BY <3>2 DEF RpmbInv
    <3>5. DriftInv' BY <1>1, <3>1, <3>2, <3>3 DEF DriftInv
    <3>6. \A part : InPlace(part) <=> InPlace(part)' BY <3>1, <3>3 DEF InPlace
    <3>7. BlockInv' BY <1>1, <2>3, <3>1, <3>3, <3>6 DEF BlockInv
    <3> QED BY <2>1, <3>4, <3>5, <3>7
  <2> QED BY <1>3, <2>2, <2>3, BlockFailsKeeps
<1> QED BY <1>2, <1>3

(* An RPMB request that returns.                                           *)
LEMMA ReturnedKeeps ==
  ASSUME IInv, op.pending, op.kind \in RpmbKinds, NEW f \in BOOLEAN, Returned(f),
         mmc' = mmc, moved' = moved,
         ~f => op.pos = AnswerPos(op.kind) + 2 /\ cmd.phase = "ok" /\ ~op.failed
  PROVE  RpmbInv' /\ DriftInv' /\ BlockInv'
<1> USE DEF IInv
<1>1. /\ op'.kind = op.kind /\ ~op'.pending /\ op'.failed = f
      /\ drv'.suspect = (drv.suspect \/ f) /\ drv'.up = drv.up
      /\ ~f => drv'.current = op.saved /\ mmc.partition = op.saved
  BY DEF Returned
<1>2. op'.kind \notin BlockKinds BY <1>1 DEF BlockKinds, RpmbKinds
<1>3. BlockInv' BY <1>2 DEF BlockInv
<1>4. AnswerPos(op.kind) \in 6 .. 8 BY RpmbPlace
<1>5. ~f => mmc.applied = 1 /\ mmc.answer = "none"
  BY <1>4 DEF RpmbInv, Clean
<1>6. RpmbInv' BY <1>1, <1>5 DEF RpmbInv
<1>7. ~f => op.saved = "User" \/ drv.suspect BY DEF DriftInv, Clean
<1>8. DriftInv' BY <1>1, <1>2, <1>7 DEF DriftInv
<1> QED BY <1>3, <1>6, <1>8

LEMMA RpmbStepKeeps ==
  ASSUME IInv, RpmbDone \/ RpmbFails
  PROVE  IInv'
<1> USE DEF IInv
<1>1. /\ TypeOK' /\ Chain' /\ op.pending /\ op.kind \in RpmbKinds
      /\ mmc' = mmc /\ moved' = moved
  BY RpmbDoneKeeps, RpmbFailsKeeps
<1>2. CASE Returned(TRUE) BY <1>1, <1>2, ReturnedKeeps
<1> DEFINE p == op.pos
           a == AnswerPos(op.kind)
<1>3. p \in 1 .. (a + 2) /\ a \in 6 .. 8 BY <1>1, RpmbPlace
<1>4. ASSUME NEW pos \in Nat, NEW f \in BOOLEAN, Continued(pos, f)
      PROVE  /\ op'.kind = op.kind /\ op'.pos = pos /\ op'.failed = f
             /\ op'.pending /\ op'.saved = op.saved /\ cmd'.phase = "send"
             /\ op'.kind \notin BlockKinds /\ BlockInv'
  BY <1>1, <1>4 DEF Continued, TypeOK, Op, BlockKinds, RpmbKinds, BlockInv
<1>5. CASE RpmbDone
  <2>1. /\ cmd.phase = "ok"
        /\ \/ /\ Continued(p + 1, op.failed)
              /\ p # a + 2
              /\ p = 2 => mmc.partition = "Rpmb"
              /\ drv'.suspect = drv.suspect /\ drv'.up = drv.up
           \/ Returned(TRUE)
           \/ p = a + 2 /\ Returned(op.failed)
    BY <1>5, RpmbDoneKeeps
  <2>2. op.failed \in BOOLEAN BY DEF TypeOK, Op
  <2>3. CASE p = a + 2 /\ Returned(op.failed)
    BY <1>1, <2>1, <2>2, <2>3, ReturnedKeeps
  <2>4. CASE /\ Continued(p + 1, op.failed)
             /\ p = 2 => mmc.partition = "Rpmb"
             /\ drv'.suspect = drv.suspect /\ drv'.up = drv.up
    <3>1. /\ op'.kind = op.kind /\ op'.pos = p + 1 /\ op'.failed = op.failed
          /\ op'.pending /\ op'.saved = op.saved /\ cmd'.phase = "send"
          /\ op'.kind \notin BlockKinds /\ BlockInv'
      BY <1>3, <1>4, <2>2, <2>4
    <3>2. /\ \A m \in moved : m.partition = "Rpmb"
          /\ mmc.applied <= 1
          /\ p < 4 => mmc.applied = 0
          /\ p \in 3 .. a => mmc.partition = "Rpmb"
          /\ ~op.failed /\ p >= 4 => mmc.applied = 1
          /\ ~op.failed /\ p >= a => mmc.answer = "none"
      BY <1>1, <1>3, <2>1 DEF RpmbInv, Clean
    <3>3. RpmbInv' BY <1>1, <1>3, <2>4, <3>1, <3>2 DEF RpmbInv
    <3>4. op'.failed \/ op'.saved = "User" \/ drv'.suspect
      BY <1>1, <2>1, <2>4, <3>1 DEF DriftInv, Clean
    <3>5. DriftInv' BY <3>1, <3>4 DEF DriftInv
    <3> QED BY <1>1, <3>1, <3>3, <3>5
  <2> QED BY <1>2, <2>1, <2>3, <2>4
<1>6. CASE RpmbFails
  <2>1. \/ Continued(a + 1, TRUE) /\ drv' = drv
        \/ Returned(TRUE)
    BY <1>6, RpmbFailsKeeps
  <2>2. CASE Continued(a + 1, TRUE)
    <3>1. /\ op'.kind = op.kind /\ op'.pos = a + 1 /\ op'.failed = TRUE
          /\ op'.pending /\ op'.kind \notin BlockKinds /\ BlockInv'
      <4>1. a + 1 \in Nat /\ TRUE \in BOOLEAN BY <1>3
      <4> HIDE DEF a
      <4> QED BY <1>4, <2>2, <4>1
    <3>2. \A m \in moved : m.partition = "Rpmb" BY <1>1 DEF RpmbInv
    <3>3. mmc.applied <= 1 BY <1>1 DEF RpmbInv
    <3>4. RpmbInv' BY <1>1, <1>3, <3>1, <3>2, <3>3 DEF RpmbInv
    <3>5. DriftInv' BY <3>1 DEF DriftInv
    <3> QED BY <1>1, <3>1, <3>4, <3>5
  <2> QED BY <1>2, <2>1, <2>2
<1> QED BY <1>5, <1>6

LEMMA CallersKeep ==
  ASSUME IInv, Callers
  PROVE  IInv'
<1> USE DEF IInv
<1>1. PICK o \in Op :
        /\ o.pending /\ o.pos = 1 /\ o.next = 0 /\ Start(o)
        /\ \/ o.kind \in BlockKinds /\ o.lba = o.first /\ o.suspect = drv.suspect
           \/ o.kind \in RpmbKinds /\ o.saved = drv.current /\ ~o.failed
  BY IoBlocksStarts, RpmbStarts DEF Callers
<1>2. /\ TypeOK' /\ Chain' /\ op' = o /\ cmd'.phase = "send"
      /\ ~op.pending /\ drv.up /\ drv' = drv
      /\ moved' = {} /\ givenUp' = {}
      /\ mmc'.partition = mmc.partition /\ mmc'.applied = 0
  BY <1>1, StartKeeps
<1>3. ~drv.suspect => mmc.partition = "User" /\ drv.current = "User"
  BY <1>2 DEF DriftInv
<1>4. CASE o.kind \in BlockKinds /\ o.lba = o.first /\ o.suspect = drv.suspect
  <2>1. o.kind \notin RpmbKinds BY <1>4 DEF BlockKinds, RpmbKinds
  <2>2. RpmbInv' BY <1>2, <2>1 DEF RpmbInv
  <2>3. DriftInv' BY <1>1, <1>2, <1>3, <2>1 DEF DriftInv
  <2>4. o.lba = o.first + o.next
    BY <1>1, <1>4, TransferAssumption DEF Op
  <2>5. BlockInv' BY <1>1, <1>2, <1>3, <1>4, <2>4 DEF BlockInv
  <2> QED BY <1>2, <2>2, <2>3, <2>5
<1>5. CASE o.kind \in RpmbKinds /\ o.saved = drv.current /\ ~o.failed
  <2>1. o.kind \notin BlockKinds BY <1>5 DEF BlockKinds, RpmbKinds
  <2>2. AnswerPos(o.kind) \in 6 .. 8 BY DEF AnswerPos
  <2>3. RpmbInv' BY <1>1, <1>2, <2>2 DEF RpmbInv
  <2>4. DriftInv' BY <1>1, <1>2, <1>3, <1>5, <2>1 DEF DriftInv
  <2>5. BlockInv' BY <1>2, <2>1 DEF BlockInv
  <2> QED BY <1>2, <2>3, <2>4, <2>5
<1> QED BY <1>1, <1>4, <1>5

LEMMA ReinsertedKeepsInv ==
  ASSUME IInv, CardReinserted
  PROVE  IInv'
<1> USE DEF IInv
<1>1. /\ TypeOK' /\ Chain' /\ ~op.pending
      /\ op' = op /\ cmd' = cmd /\ moved' = moved /\ givenUp' = givenUp
      /\ mmc'.partition = "User" /\ mmc'.applied = mmc.applied /\ mmc'.answer = "none"
      /\ drv'.current = "User"
  BY ReinsertedKeeps
<1>2. RpmbInv' BY <1>1 DEF RpmbInv
<1>3. DriftInv' BY <1>1 DEF DriftInv
<1>4. \A part : InPlace(part) <=> InPlace(part)' BY <1>1 DEF InPlace
<1>5. BlockInv' BY <1>1, <1>4 DEF BlockInv
<1> QED BY <1>1, <1>2, <1>3, <1>5

LEMMA StutterKeeps ==
  ASSUME IInv, UNCHANGED vars
  PROVE  IInv'
<1> USE DEF IInv
<1>1. /\ op' = op /\ cmd' = cmd /\ mmc' = mmc /\ drv' = drv /\ moved' = moved
      /\ givenUp' = givenUp /\ faults' = faults
  BY DEF vars
<1>2. TypeOK' BY <1>1 DEF TypeOK
<1>3. Chain' BY <1>1 DEF Chain, InChain
<1>4. RpmbInv' BY <1>1 DEF RpmbInv
<1>5. DriftInv' BY <1>1 DEF DriftInv
<1>6. \A part : InPlace(part) <=> InPlace(part)' BY <1>1 DEF InPlace
<1>7. BlockInv' BY <1>1, <1>6 DEF BlockInv
<1> QED BY <1>2, <1>3, <1>4, <1>5, <1>7

LEMMA NextInv == IInv /\ [Next]_vars => IInv'
<1> SUFFICES ASSUME IInv, [Next]_vars PROVE IInv'
  OBVIOUS
<1>1. CASE CommandStep
  <2>1. op.pending
    <3>1. cmd.phase # "none"
      BY <1>1 DEF CommandStep, SendGood, SendFails, DataFails, SdhcStopTransmission,
         StopTransmission, WaitForTran, Recover, RecoverInner, RecoverStatus, At
    <3> QED BY <3>1 DEF IInv, Chain
  <2>2. TypeOK' /\ Chain' BY <1>1, <2>1, CommandKeeps DEF IInv
  <2> QED BY <1>1, <2>1, <2>2, CommandRpmb, CommandDrift, CommandBlock DEF IInv
<1>2. CASE BlockDone \/ BlockFails BY <1>2, BlockStepKeeps
<1>3. CASE RpmbDone \/ RpmbFails BY <1>3, RpmbStepKeeps
<1>4. CASE Callers BY <1>4, CallersKeep
<1>5. CASE CardReinserted BY <1>5, ReinsertedKeepsInv
<1>6. CASE UNCHANGED vars BY <1>6, StutterKeeps
<1> QED BY <1>1, <1>2, <1>3, <1>4, <1>5, <1>6 DEF Next, Step, CommandStep

LEMMA Invariance == Spec => []IInv
<1>1. Init => IInv BY InitInv
<1>2. IInv /\ [Next]_vars => IInv' BY NextInv
<1> QED BY <1>1, <1>2, PTL DEF Spec

-----------------------------------------------------------------------------
(* The theorems.                                                           *)

(* Types of the variables, for every number of tries, failures and         *)
(* transfers (Protocol.c, BlockIo.c, RpmbIo.c).                            *)
THEOREM Typing == Spec => []TypeOK
<1>1. IInv => TypeOK BY DEF IInv
<1> QED BY <1>1, Invariance, PTL

(* RpmbRequest writes its frames to the RPMB partition only, whatever      *)
(* switch, reset or record of the partition goes wrong.                    *)
THEOREM FramesInRpmb == Spec => []FramesStayInRpmb
<1>1. IInv => FramesStayInRpmb BY DEF IInv, RpmbInv, FramesStayInRpmb
<1> QED BY <1>1, Invariance, PTL

(* A request is executed at most once, and exactly once, with its own      *)
(* answer collected, when RpmbRequest reports success.                     *)
THEOREM RpmbExactlyOnce == Spec => []RpmbOnce
<1>1. IInv => RpmbOnce BY DEF IInv, RpmbInv, RpmbOnce, Succeeded
<1> QED BY <1>1, Invariance, PTL

(* A partition the device is left on was reported as an error of an RPMB   *)
(* request: CurrentMmcPartition is right otherwise.                        *)
THEOREM DriftReported == Spec => []DriftIsReported
<1>1. IInv => DriftIsReported
  <2> SUFFICES ASSUME IInv, ~op.pending, drv.up, ~drv.suspect
               PROVE  mmc.partition = drv.current /\ drv.current = "User"
    BY DEF DriftIsReported
  <2> QED BY DEF IInv, DriftInv
<1> QED BY <1>1, Invariance, PTL

(* IoBlocks: success without a part given up means that every part was     *)
(* moved at its own address of the user area.                              *)
THEOREM SuccessMoved == Spec => []SuccessMeansMoved
<1>1. IInv => SuccessMeansMoved
  <2> SUFFICES ASSUME IInv, op.kind \in BlockKinds, Succeeded, givenUp = {}, ~op.suspect
               PROVE  \A part \in 0 .. op.count - 1 : InPlace(part)
    BY DEF SuccessMeansMoved
  <2>1. op.next = op.count BY DEF IInv, BlockInv, Succeeded
  <2> QED BY <2>1 DEF IInv, BlockInv
<1> QED BY <1>1, Invariance, PTL

=============================================================================
