-------------------------- MODULE SdMmcSlotProofs --------------------------
(***************************************************************************)
(* Proofs about SdMmcSlot, for every set of controllers and cards and any  *)
(* number of faults and card movements, under the hypothesis that nothing  *)
(* runs the driver at TPL_APPLICATION, where the card-check timer could    *)
(* preempt it.                                                             *)
(***************************************************************************)
EXTENDS SdMmcSlot, TLAPS, FiniteSetTheorems, SequenceTheorems

-----------------------------------------------------------------------------
(* The inductive invariant.                                                *)

WaitingPcs == RecoveryPcs \cup {"scan"}
StopPcs == UninstallPcs \cup {"destroy"}

(* Stacks of the activations the driver can build: all at TPL_CALLBACK, on *)
(* bound controllers, every one but the last waiting for a SoftReset or a  *)
(* status command, SdMmcDriverStop alone, the card check first, and what a *)
(* recovery calls on the host that it recovers.                            *)
Stacks(b) ==
  {s \in Seq(Frame) :
     /\ \A i \in 1 .. Len(s) : /\ s[i].tpl = "CALLBACK"
                               /\ s[i].host \in b
                               /\ s[i].pc \in {"ioStatus", "ioRecovered"} => s[i].left > 0
                               /\ s[i].proc = "Stop" => Len(s) = 1 /\ s[i].pc \in StopPcs
     /\ \A i \in 1 .. Len(s) : i < Len(s) => s[i].pc \in WaitingPcs
     /\ \A i \in 1 .. Len(s) : s[i].pc = "scan" => i = 1
     /\ \A i, j \in 1 .. Len(s) : i < j /\ s[i].pc \in RecoveryPcs => s[j].host = s[i].host}

(* Recovering(h) of a given stack.                                         *)
RecoveringIn(s, h) == {i \in 1 .. Len(s) : s[i].host = h /\ s[i].pc \in RecoveryPcs}

StackInv == stack \in Stacks(bound)

CountInv ==
  \A h \in Hosts : /\ slot[h].recovery = Cardinality(RecoveringIn(stack, h))
                   /\ slot[h].recovery <= RecoveryThreshold

BoundInv ==
  /\ \A i \in 1 .. Len(pool) : pool[i] \in bound
  /\ \A h \in Hosts : db[h] # {} => h \in bound

(* What the running activation has established, by the place it is at.     *)
Established(f) ==
  /\ f.pc = "unRpmbIo" => "BlockIo" \notin db[f.host]
  /\ f.pc = "unDevicePath" => db[f.host] \cap {"BlockIo", "RpmbIo"} = {}
  /\ f.pc \in {"clear", "destroy"} => db[f.host] = {}
  /\ f.pc = "destroy" => f.proc = "Stop"
  /\ f.pc \in {"sense", "init"} => ~slot[f.host].initialized
  /\ f.pc = "init" => slot[f.host].mediaPresent
  /\ f.pc \in {"installBlockIo", "installDevicePath", "askRpmb", "installRpmb"}
       => slot[f.host].initialized
  /\ f.pc = "installRpmb" => \A h \in Hosts : "RpmbIo" \notin db[h]

TopInv == stack # <<>> => Established(Top)

IInv ==
  /\ TypeOK /\ StackInv /\ CountInv /\ BoundInv /\ TopInv
  /\ PublishedIsInitialized /\ AtMostOneRpmb

-----------------------------------------------------------------------------
(* Lemmas about stacks of activations.                                     *)

(* The last frame of a stack, typed.                                       *)
LEMMA LastFrame ==
  ASSUME NEW b \in SUBSET Hosts, NEW s \in Stacks(b), s # <<>>
  PROVE  /\ Len(s) \in Nat \ {0}
         /\ s[Len(s)] \in Frame
         /\ s[Len(s)].tpl = "CALLBACK"
         /\ s[Len(s)].host \in b
         /\ s[Len(s)].pc \in {"ioStatus", "ioRecovered"} => s[Len(s)].left > 0
         /\ s[Len(s)].proc = "Stop" => Len(s) = 1 /\ s[Len(s)].pc \in StopPcs
<1>1. s \in Seq(Frame)
  BY DEF Stacks
<1>2. Len(s) \in Nat \ {0}
  BY <1>1, EmptySeq
<1>3. Len(s) \in 1 .. Len(s)
  BY <1>2
<1>4. s[Len(s)] \in Frame
  BY <1>1, <1>3, ElementOfSeq
<1> QED
  BY <1>2, <1>3, <1>4 DEF Stacks

(* t is stack s with frame f called, and with its last frame moved to g.   *)
Pushed(b, s, f, t) ==
  /\ t \in Stacks(b) /\ t # <<>> /\ t[Len(t)] = f
  /\ \A h \in Hosts : RecoveringIn(t, h) = RecoveringIn(s, h)

Moved(b, s, g, t) ==
  /\ t \in Stacks(b) /\ t # <<>> /\ t[Len(t)] = g
  /\ \A h \in Hosts :
       RecoveringIn(t, h) = IF g.host = h /\ g.pc \in RecoveryPcs
                              THEN RecoveringIn(s, h) \cup {Len(s)}
                              ELSE RecoveringIn(s, h) \ {Len(s)}

(* A call: the new frame is not waiting, so nothing else is recovering.    *)
LEMMA PushFrame ==
  ASSUME NEW b \in SUBSET Hosts, NEW s \in Stacks(b), NEW f \in Frame,
         f.tpl = "CALLBACK", f.host \in b, f.pc \notin RecoveryPcs,
         f.proc = "Stop" => s = <<>> /\ f.pc \in StopPcs,
         s # <<>> => s[Len(s)].pc \in WaitingPcs,
         f.pc = "scan" => s = <<>>,
         s # <<>> /\ s[Len(s)].pc \in RecoveryPcs => f.host = s[Len(s)].host
  PROVE  Pushed(b, s, f, Append(s, f))
<1> DEFINE t == Append(s, f)
<1>1. s \in Seq(Frame) /\ Len(s) \in Nat
  BY LenProperties DEF Stacks
<1>2. /\ t \in Seq(Frame) /\ t # <<>> /\ Len(t) = Len(s) + 1
      /\ \A i \in 1 .. Len(s) : t[i] = s[i]
      /\ t[Len(s) + 1] = f
  BY <1>1, AppendProperties
<1>3. \A i \in 1 .. Len(t) : i \in 1 .. Len(s) \/ i = Len(s) + 1
  BY <1>1, <1>2
<1>4. \A i \in 1 .. Len(s) : i < Len(s) \/ (i = Len(s) /\ s # <<>>)
  BY <1>1
<1>5. t \in Stacks(b)
  <2>1. \A i \in 1 .. Len(t) : /\ t[i].tpl = "CALLBACK"
                               /\ t[i].host \in b
                               /\ t[i].pc \in {"ioStatus", "ioRecovered"} => t[i].left > 0
    BY <1>1, <1>2, <1>3 DEF Stacks, RecoveryPcs
  <2>3. \A i \in 1 .. Len(t) : t[i].proc = "Stop" => Len(t) = 1 /\ t[i].pc \in StopPcs
    <3>1. ASSUME NEW i \in 1 .. Len(s) PROVE s[i].proc # "Stop"
      <4>1. s # <<>>
        BY <1>1, <1>4, EmptySeq
      <4>2. i < Len(s) \/ i = Len(s)
        BY <1>1
      <4>3. s[i].pc \in WaitingPcs
        BY <1>1, <4>1, <4>2 DEF Stacks
      <4> QED
        BY <1>1, <4>3 DEF Stacks, StopPcs, UninstallPcs, WaitingPcs, RecoveryPcs
    <3>2. s = <<>> => Len(t) = 1
      BY <1>1, <1>2
    <3> QED
      BY <1>2, <1>3, <3>1, <3>2
  <2>2. \A i \in 1 .. Len(t) : i < Len(t) => t[i].pc \in WaitingPcs
    BY <1>1, <1>2, <1>3, <1>4 DEF Stacks
  <2>4. ASSUME NEW i \in 1 .. Len(t), t[i].pc = "scan" PROVE i = 1
    <3>1. CASE i \in 1 .. Len(s)
      BY <1>1, <1>2, <2>4, <3>1 DEF Stacks
    <3>2. CASE i = Len(s) + 1
      BY <1>2, <2>4, <3>2, EmptySeq
    <3> QED
      BY <1>3, <3>1, <3>2
  <2>5. ASSUME NEW i \in 1 .. Len(t), NEW j \in 1 .. Len(t), i < j, t[i].pc \in RecoveryPcs
        PROVE  t[j].host = t[i].host
    <3>1. i \in 1 .. Len(s) /\ s[i].pc \in RecoveryPcs
      BY <1>1, <1>2, <2>5
    <3>2. CASE j \in 1 .. Len(s)
      BY <1>1, <1>2, <2>5, <3>1, <3>2 DEF Stacks
    <3>3. CASE j = Len(s) + 1
      <4>1. s # <<>> /\ Len(s) \in 1 .. Len(s)
        BY <1>1, <3>1, EmptySeq
      <4>2. i < Len(s) => s[Len(s)].host = s[i].host
        BY <1>1, <3>1, <4>1 DEF Stacks
      <4>3. CASE i < Len(s)
        <5>1. s[Len(s)].pc \in RecoveryPcs \/ s[Len(s)].pc = "scan"
          BY <4>1 DEF WaitingPcs
        <5>2. s[Len(s)].pc # "scan"
          BY <1>1, <3>1, <4>1, <4>3 DEF Stacks
        <5> QED
          BY <1>2, <3>1, <3>3, <4>1, <4>2, <4>3, <5>1, <5>2
      <4>4. CASE i = Len(s)
        BY <1>2, <3>1, <3>3, <4>1, <4>4
      <4> QED
        BY <1>1, <3>1, <4>3, <4>4
    <3> QED
      BY <1>3, <3>2, <3>3
  <2> QED
    BY <1>2, <2>1, <2>2, <2>3, <2>4, <2>5 DEF Stacks
<1>6. \A h \in Hosts : RecoveringIn(t, h) = RecoveringIn(s, h)
  BY <1>1, <1>2, <1>3 DEF RecoveringIn
<1> QED
  BY <1>2, <1>5, <1>6 DEF Pushed

(* The last activation moves: it becomes frame g.                          *)
LEMMA SetFrame ==
  ASSUME NEW b \in SUBSET Hosts, NEW s \in Stacks(b), s # <<>>, NEW g \in Frame,
         g.tpl = "CALLBACK", g.host \in b, g.pc \in {"ioStatus", "ioRecovered"} => g.left > 0,
         g.proc = s[Len(s)].proc, g.proc = "Stop" => g.pc \in StopPcs,
         g.host = s[Len(s)].host, g.pc = "scan" => s[Len(s)].pc = "scan"
  PROVE  Moved(b, s, g, [s EXCEPT ![Len(s)] = g])
<1> DEFINE t == [s EXCEPT ![Len(s)] = g]
<1>1. s \in Seq(Frame) /\ Len(s) \in Nat \ {0} /\ Len(s) \in 1 .. Len(s)
  BY LastFrame DEF Stacks
<1>2. /\ t \in Seq(Frame) /\ Len(t) = Len(s)
      /\ \A j \in 1 .. Len(s) : t[j] = IF j = Len(s) THEN g ELSE s[j]
  BY <1>1, ExceptSeq
<1>3. t # <<>>
  BY <1>1, <1>2
<1>4. t \in Stacks(b)
  <2>1. ASSUME NEW i \in 1 .. Len(t), NEW j \in 1 .. Len(t), i < j, t[i].pc \in RecoveryPcs
        PROVE  t[j].host = t[i].host
    <3>1. i \in 1 .. Len(s) /\ j \in 1 .. Len(s) /\ i # Len(s)
      <4>1. Len(t) = Len(s) /\ Len(s) \in Nat
        BY <1>1, <1>2
      <4> HIDE DEF t
      <4> QED
        BY <2>1, <4>1
    <3>2. t[i] = s[i] /\ t[j].host = s[j].host
      BY <1>2, <3>1
    <3>3. s[i].pc \in RecoveryPcs => s[j].host = s[i].host
      BY <2>1, <3>1 DEF Stacks
    <3> QED
      BY <2>1, <3>2, <3>3
  <2>2. ASSUME NEW i \in 1 .. Len(t)
        PROVE  /\ t[i].tpl = "CALLBACK" /\ t[i].host \in b
               /\ t[i].pc \in {"ioStatus", "ioRecovered"} => t[i].left > 0
               /\ t[i].proc = "Stop" => Len(t) = 1 /\ t[i].pc \in StopPcs
               /\ i < Len(t) => t[i].pc \in WaitingPcs
               /\ t[i].pc = "scan" => i = 1
    <3>1. CASE i = Len(s)
      <4>1. /\ s[i].proc = "Stop" => Len(s) = 1
            /\ s[i].pc = "scan" => i = 1
        BY <1>1, <3>1 DEF Stacks
      <4>2. t[i] = g /\ Len(t) = Len(s) /\ ~(i < Len(t))
        BY <1>1, <1>2, <3>1
      <4>3. /\ g.tpl = "CALLBACK" /\ g.host \in b
            /\ g.pc \in {"ioStatus", "ioRecovered"} => g.left > 0
            /\ g.proc = "Stop" => Len(s) = 1 /\ g.pc \in StopPcs
            /\ g.pc = "scan" => i = 1
        BY <3>1, <4>1
      <4> HIDE DEF t
      <4> QED
        BY <4>2, <4>3
    <3>2. CASE i # Len(s)
      <4>1. t[i] = s[i] /\ Len(t) = Len(s) /\ i \in 1 .. Len(s)
        BY <1>1, <1>2, <3>2
      <4> HIDE DEF t
      <4> QED
        BY <4>1 DEF Stacks
    <3> QED
      BY <3>1, <3>2
  <2> QED
    BY <1>1, <1>2, <2>1, <2>2 DEF Stacks
<1>5. ASSUME NEW h \in Hosts
      PROVE  RecoveringIn(t, h) = IF g.host = h /\ g.pc \in RecoveryPcs
                                    THEN RecoveringIn(s, h) \cup {Len(s)}
                                    ELSE RecoveringIn(s, h) \ {Len(s)}
  BY <1>1, <1>2 DEF RecoveringIn
<1> QED
  BY <1>1, <1>2, <1>3, <1>4, <1>5 DEF Moved

(* A return: the caller was waiting.                                       *)
LEMMA PopFrame ==
  ASSUME NEW b \in SUBSET Hosts, NEW s \in Stacks(b), s # <<>>
  PROVE  LET t == SubSeq(s, 1, Len(s) - 1)
         IN /\ t \in Stacks(b)
            /\ t # <<>> => t[Len(t)].pc \in WaitingPcs
            /\ \A h \in Hosts : RecoveringIn(t, h) = RecoveringIn(s, h) \ {Len(s)}
<1> DEFINE t == SubSeq(s, 1, Len(s) - 1)
<1>1. s \in Seq(Frame) /\ Len(s) \in Nat \ {0}
  BY LastFrame DEF Stacks
<1>2. \A i \in 1 .. Len(s) - 1 : s[i] \in Frame
  BY <1>1, ElementOfSeq
<1>3. /\ t \in Seq(Frame) /\ Len(t) = Len(s) - 1
      /\ \A i \in 1 .. Len(s) - 1 : t[i] = s[i]
  <2>1. /\ t \in Seq(Frame)
        /\ Len(t) = IF 1 <= Len(s) - 1 THEN Len(s) - 1 - 1 + 1 ELSE 0
        /\ \A i \in 1 .. Len(s) - 1 - 1 + 1 : t[i] = s[1 + i - 1]
    BY <1>1, <1>2, SubSeqProperties
  <2>2. \A n \in Nat \ {0} : /\ (IF 1 <= n - 1 THEN n - 1 - 1 + 1 ELSE 0) = n - 1
                            /\ n - 1 - 1 + 1 = n - 1
                            /\ \A i \in 1 .. n - 1 : 1 + i - 1 = i
    OBVIOUS
  <2> QED
    BY <1>1, <2>1, <2>2, Zenon
<1>4. \A i \in 1 .. Len(t) : i \in 1 .. Len(s) /\ i < Len(s) /\ t[i] = s[i]
  BY <1>1, <1>3
<1>5. t \in Stacks(b)
  <2>1. \A i \in 1 .. Len(t) : t[i].pc \in WaitingPcs
    BY <1>4 DEF Stacks
  <2>2. \A i \in 1 .. Len(t) : t[i].proc # "Stop"
    BY <1>4, <2>1 DEF Stacks, StopPcs, UninstallPcs, WaitingPcs, RecoveryPcs
  <2>3. \A i \in 1 .. Len(t) : t[i].pc = "scan" => i = 1
    BY <1>4 DEF Stacks
  <2>4. ASSUME NEW i \in 1 .. Len(t), NEW j \in 1 .. Len(t), i < j, t[i].pc \in RecoveryPcs
        PROVE  t[j].host = t[i].host
    <3>1. /\ i \in 1 .. Len(s) /\ j \in 1 .. Len(s) /\ t[i] = s[i] /\ t[j] = s[j]
      BY <1>4
    <3> QED
      BY <2>4, <3>1 DEF Stacks
  <2>5. \A i \in 1 .. Len(t) : t[i].tpl = "CALLBACK" /\ t[i].host \in b
                              /\ (t[i].pc \in {"ioStatus", "ioRecovered"} => t[i].left > 0)
    BY <1>4 DEF Stacks
  <2> QED
    BY <1>3, <2>1, <2>2, <2>3, <2>4, <2>5 DEF Stacks
<1>6. t # <<>> => Len(t) \in 1 .. Len(t)
  BY <1>3, EmptySeq
<1>7. t # <<>> => t[Len(t)].pc \in WaitingPcs
  BY <1>4, <1>6 DEF Stacks
<1>8. \A h \in Hosts : RecoveringIn(t, h) = RecoveringIn(s, h) \ {Len(s)}
  BY <1>1, <1>3, <1>4 DEF RecoveringIn
<1> QED
  BY <1>5, <1>7, <1>8

(* The recovering frames form a finite set; the last frame is one of them  *)
(* exactly when it is waiting in error recovery.                           *)
LEMMA RecoveringFrames ==
  ASSUME NEW b \in SUBSET Hosts, NEW s \in Stacks(b), NEW h \in Hosts
  PROVE  /\ IsFiniteSet(RecoveringIn(s, h))
         /\ Cardinality(RecoveringIn(s, h)) \in Nat
         /\ s # <<>> => (Len(s) \in RecoveringIn(s, h)
                          <=> s[Len(s)].host = h /\ s[Len(s)].pc \in RecoveryPcs)
<1>1. s \in Seq(Frame) /\ Len(s) \in Nat
  BY LenProperties DEF Stacks
<1>2. IsFiniteSet(1 .. Len(s))
  BY <1>1, FS_Interval
<1>3. RecoveringIn(s, h) \in SUBSET (1 .. Len(s))
  BY DEF RecoveringIn
<1>4. IsFiniteSet(RecoveringIn(s, h))
  BY <1>2, <1>3, FS_Subset
<1>5. s # <<>> => Len(s) \in 1 .. Len(s)
  BY <1>1, EmptySeq
<1> QED
  BY <1>4, <1>5, FS_CardinalityType DEF RecoveringIn

-----------------------------------------------------------------------------
(* What the steps of an activation do to the stack.                        *)

(* The running activation becomes g and keeps running.                     *)
LEMMA AdvanceStep ==
  ASSUME IInv, stack # <<>>, Top.pc \notin RecoveryPcs, UNCHANGED bound,
         NEW g \in Frame, g.tpl = "CALLBACK", g.host = Top.host, g.proc = Top.proc,
         g.pc \notin RecoveryPcs, g.proc = "Stop" => g.pc \in StopPcs,
         g.pc = "scan" => Top.pc = "scan",
         stack' = [stack EXCEPT ![Len(stack)] = g]
  PROVE  /\ StackInv' /\ stack' # <<>> /\ Top' = g
         /\ \A h \in Hosts : RecoveringIn(stack', h) = RecoveringIn(stack, h)
<1>1. stack \in Stacks(bound) /\ bound \in SUBSET Hosts
  BY DEF IInv, StackInv, TypeOK
<1>2. g.host \in bound
  BY <1>1, LastFrame DEF Top
<1>3. g.pc \in {"ioStatus", "ioRecovered"} => g.left > 0
  BY DEF RecoveryPcs
<1>4. /\ g.proc = stack[Len(stack)].proc /\ g.host = stack[Len(stack)].host
      /\ g.pc = "scan" => stack[Len(stack)].pc = "scan"
  BY DEF Top
<1>5. Moved(bound, stack, g, [stack EXCEPT ![Len(stack)] = g])
  BY <1>1, <1>2, <1>3, <1>4, SetFrame, Zenon
<1>6. \A h \in Hosts : Len(stack) \notin RecoveringIn(stack, h)
  BY <1>1, RecoveringFrames DEF Top
<1>7. \A h \in Hosts : RecoveringIn(stack', h) = RecoveringIn(stack, h)
  BY <1>5, <1>6 DEF Moved
<1> QED
  BY <1>5, <1>7 DEF Moved, StackInv, Top

(* The running activation goes to another place.                           *)
LEMMA GotoStep ==
  ASSUME IInv, stack # <<>>, Top.pc \notin RecoveryPcs, UNCHANGED bound,
         NEW pc \in Pcs \ RecoveryPcs, Goto(pc), Top.proc = "Stop" => pc \in StopPcs,
         pc # "scan"
  PROVE  /\ StackInv' /\ stack' # <<>>
         /\ Top'.pc = pc /\ Top'.host = Top.host /\ Top'.proc = Top.proc
         /\ \A h \in Hosts : RecoveringIn(stack', h) = RecoveringIn(stack, h)
<1> DEFINE g == [Top EXCEPT !.pc = pc]
<1>1. Top \in Frame /\ Top.tpl = "CALLBACK"
  BY LastFrame DEF IInv, StackInv, TypeOK, Top
<1>2. /\ g \in Frame /\ g.tpl = "CALLBACK" /\ g.host = Top.host /\ g.pc = pc
      /\ g.proc = Top.proc
  BY <1>1 DEF Frame
<1>3. stack' = [stack EXCEPT ![Len(stack)] = g]
  BY DEF Goto, Top
<1> HIDE DEF g
<1>4. /\ StackInv' /\ stack' # <<>> /\ Top' = g
      /\ \A h \in Hosts : RecoveringIn(stack', h) = RecoveringIn(stack, h)
  BY <1>2, <1>3, AdvanceStep, Zenon
<1> QED
  BY <1>2, <1>4

(* The running activation returns to one that waits, if any.               *)
LEMMA ReturnStep ==
  ASSUME IInv, stack # <<>>, Top.pc \notin RecoveryPcs, UNCHANGED bound, Return
  PROVE  /\ StackInv'
         /\ stack' # <<>> => Top'.pc \in WaitingPcs
         /\ Top.host \in Hosts
         /\ \A h \in Hosts : RecoveringIn(stack', h) = RecoveringIn(stack, h)
<1>1. stack \in Stacks(bound) /\ bound \in SUBSET Hosts
  BY DEF IInv, StackInv, TypeOK
<1>2. Top.host \in Hosts
  BY <1>1, LastFrame DEF Top
<1>3. /\ stack' \in Stacks(bound)
      /\ stack' # <<>> => stack'[Len(stack')].pc \in WaitingPcs
      /\ \A h \in Hosts : RecoveringIn(stack', h) = RecoveringIn(stack, h) \ {Len(stack)}
  BY <1>1, PopFrame DEF Return
<1>4. \A h \in Hosts : Len(stack) \notin RecoveringIn(stack, h)
  BY <1>1, RecoveringFrames DEF Top
<1> QED
  BY <1>2, <1>3, <1>4 DEF StackInv, Stacks, Top

(* A caller enters the driver with a new activation f.                     *)
LEMMA CallStep ==
  ASSUME IInv, stack = <<>>, bound \subseteq bound', bound' \subseteq Hosts,
         NEW f \in Frame, f.tpl = "CALLBACK", f.host \in bound',
         f.pc \notin RecoveryPcs, f.proc = "Stop" => f.pc \in StopPcs, Call(f)
  PROVE  /\ StackInv' /\ stack' # <<>> /\ Top' = f
         /\ \A h \in Hosts : RecoveringIn(stack', h) = RecoveringIn(stack, h)
<1>1. stack \in Stacks(bound') /\ bound' \in SUBSET Hosts
  BY DEF IInv, StackInv, Stacks
<1>2. /\ stack' \in Stacks(bound') /\ stack' # <<>> /\ stack'[Len(stack')] = f
      /\ \A h \in Hosts : RecoveringIn(stack', h) = RecoveringIn(stack, h)
  <2>1. /\ stack # <<>> => stack[Len(stack)].pc \in WaitingPcs
        /\ f.pc = "scan" => stack = <<>>
        /\ stack # <<>> /\ stack[Len(stack)].pc \in RecoveryPcs
             => f.host = stack[Len(stack)].host
    OBVIOUS
  <2>2. Pushed(bound', stack, f, Append(stack, f))
    BY <1>1, <2>1, PushFrame, Zenon
  <2> QED
    BY <2>2 DEF Call, Pushed
<1> QED
  BY <1>2 DEF StackInv, Stacks, Top

(* The running activation becomes a waiting one and SoftReset is called.   *)
LEMMA SuspendStep ==
  ASSUME IInv, stack # <<>>, Top.pc \notin RecoveryPcs, UNCHANGED bound,
         NEW f \in Frame, f.tpl = "CALLBACK", f.host \in bound, f.pc \notin RecoveryPcs,
         f.proc # "Stop", Top.pc \notin StopPcs,
         NEW c \in Frame, c.tpl = "CALLBACK", c.host = Top.host, c.pc \in WaitingPcs,
         c.proc = Top.proc,
         c.pc \in {"ioStatus", "ioRecovered"} => c.left > 0,
         c.pc = "scan" => Top.pc = "scan", f.pc # "scan",
         c.pc \in RecoveryPcs => f.host = Top.host,
         SuspendAndCall(f, c)
  PROVE  /\ StackInv' /\ stack' # <<>> /\ Top' = f
         /\ \A h \in Hosts :
              Cardinality(RecoveringIn(stack', h)) =
                IF c.pc \in RecoveryPcs /\ h = Top.host
                  THEN Cardinality(RecoveringIn(stack, h)) + 1
                  ELSE Cardinality(RecoveringIn(stack, h))
<1> DEFINE m == [stack EXCEPT ![Len(stack)] = c]
<1>1. stack \in Stacks(bound) /\ bound \in SUBSET Hosts
  BY DEF IInv, StackInv, TypeOK
<1>2. Top.host \in bound /\ Len(stack) \in Nat \ {0}
  BY <1>1, LastFrame DEF Top
<1>3. /\ m \in Stacks(bound) /\ m # <<>> /\ m[Len(m)] = c
      /\ \A h \in Hosts :
           RecoveringIn(m, h) = IF c.host = h /\ c.pc \in RecoveryPcs
                                  THEN RecoveringIn(stack, h) \cup {Len(stack)}
                                  ELSE RecoveringIn(stack, h) \ {Len(stack)}
  <2>1. /\ c.host \in bound /\ c.proc = stack[Len(stack)].proc
        /\ c.host = stack[Len(stack)].host
        /\ c.pc = "scan" => stack[Len(stack)].pc = "scan"
    BY <1>2 DEF Top
  <2>2. c.proc # "Stop"
    BY <1>1, LastFrame DEF Top
  <2>3. Moved(bound, stack, c, [stack EXCEPT ![Len(stack)] = c])
    BY <1>1, <2>1, <2>2, SetFrame, Zenon
  <2> QED
    BY <2>3 DEF Moved, m
<1> HIDE DEF m
<1>4. /\ stack' \in Stacks(bound) /\ stack' # <<>> /\ stack'[Len(stack')] = f
      /\ \A h \in Hosts : RecoveringIn(stack', h) = RecoveringIn(m, h)
  <2>1. stack' = Append(m, f)
    BY DEF SuspendAndCall, m
  <2>2. Pushed(bound, m, f, Append(m, f))
    <3>1. /\ m # <<>> => m[Len(m)].pc \in WaitingPcs
          /\ f.pc = "scan" => m = <<>>
          /\ m # <<>> /\ m[Len(m)].pc \in RecoveryPcs => f.host = m[Len(m)].host
      BY <1>3
    <3> QED
      BY <1>1, <1>3, <3>1, PushFrame, Zenon
  <2> QED
    BY <2>1, <2>2 DEF Pushed
<1>5. ASSUME NEW h \in Hosts
      PROVE  Cardinality(RecoveringIn(stack', h)) =
               IF c.pc \in RecoveryPcs /\ h = Top.host
                 THEN Cardinality(RecoveringIn(stack, h)) + 1
                 ELSE Cardinality(RecoveringIn(stack, h))
  <2>1. /\ IsFiniteSet(RecoveringIn(stack, h))
        /\ Len(stack) \notin RecoveringIn(stack, h)
    BY <1>1, RecoveringFrames DEF Top
  <2>2. RecoveringIn(stack, h) \ {Len(stack)} = RecoveringIn(stack, h)
    BY <2>1
  <2>3. Cardinality(RecoveringIn(stack, h) \cup {Len(stack)})
          = Cardinality(RecoveringIn(stack, h)) + 1
    BY <2>1, FS_AddElement
  <2> QED
    BY <1>3, <1>4, <2>2, <2>3
<1> QED
  BY <1>4, <1>5 DEF StackInv, Stacks, Top

(* The running activation becomes g, one that is recovering.               *)
LEMMA BecomesRecovering ==
  ASSUME IInv, stack # <<>>, Top.pc \notin RecoveryPcs, UNCHANGED bound,
         NEW g \in Frame, g.tpl = "CALLBACK", g.host = Top.host, g.proc = Top.proc,
         g.pc \in RecoveryPcs, g.proc # "Stop",
         g.pc \in {"ioStatus", "ioRecovered"} => g.left > 0,
         stack' = [stack EXCEPT ![Len(stack)] = g]
  PROVE  /\ StackInv' /\ stack' # <<>> /\ Top' = g
         /\ \A h \in Hosts : RecoveringIn(stack', h) =
              IF h = Top.host THEN RecoveringIn(stack, h) \cup {Len(stack)}
                              ELSE RecoveringIn(stack, h)
<1>1. stack \in Stacks(bound) /\ bound \in SUBSET Hosts
  BY DEF IInv, StackInv, TypeOK
<1>2. /\ g.host \in bound /\ g.proc = stack[Len(stack)].proc
      /\ g.host = stack[Len(stack)].host /\ g.pc # "scan"
  BY <1>1, LastFrame DEF Top, RecoveryPcs
<1>3. Moved(bound, stack, g, [stack EXCEPT ![Len(stack)] = g])
  BY <1>1, <1>2, SetFrame, Zenon
<1>4. \A h \in Hosts : Len(stack) \notin RecoveringIn(stack, h)
  BY <1>1, RecoveringFrames DEF Top
<1>5. ASSUME NEW h \in Hosts
      PROVE  RecoveringIn(stack', h) =
               IF h = Top.host THEN RecoveringIn(stack, h) \cup {Len(stack)}
                               ELSE RecoveringIn(stack, h)
  <2>1. RecoveringIn(stack', h) = IF h = Top.host
                                    THEN RecoveringIn(stack, h) \cup {Len(stack)}
                                    ELSE RecoveringIn(stack, h) \ {Len(stack)}
    BY <1>3 DEF Moved
  <2>2. RecoveringIn(stack, h) \ {Len(stack)} = RecoveringIn(stack, h)
    BY <1>4
  <2> QED
    BY <2>1, <2>2
<1> QED
  BY <1>3, <1>5 DEF Moved, StackInv, Top

(* A SoftReset called by error recovery has returned: the activation, no   *)
(* longer recovering, becomes g.                                           *)
LEMMA RecoveredStep ==
  ASSUME IInv, stack # <<>>, Top.pc \in RecoveryPcs, UNCHANGED bound,
         NEW g \in Frame, g.tpl = "CALLBACK", g.host = Top.host, g.pc \notin RecoveryPcs,
         g.proc = Top.proc, g.pc # "scan",
         stack' = [stack EXCEPT ![Len(stack)] = g]
  PROVE  /\ StackInv' /\ stack' # <<>> /\ Top' = g
         /\ \A h \in Hosts :
              Cardinality(RecoveringIn(stack', h)) =
                IF h = Top.host THEN Cardinality(RecoveringIn(stack, h)) - 1
                                ELSE Cardinality(RecoveringIn(stack, h))
         /\ Cardinality(RecoveringIn(stack, Top.host)) \in Nat \ {0}
<1>1. stack \in Stacks(bound) /\ bound \in SUBSET Hosts
  BY DEF IInv, StackInv, TypeOK
<1>2. Top.host \in bound /\ Len(stack) \in Nat \ {0}
  BY <1>1, LastFrame DEF Top
<1>3. /\ stack' \in Stacks(bound) /\ stack' # <<>> /\ stack'[Len(stack')] = g
      /\ \A h \in Hosts : RecoveringIn(stack', h) = RecoveringIn(stack, h) \ {Len(stack)}
  <2>1. g.pc \in {"ioStatus", "ioRecovered"} => g.left > 0
    BY DEF RecoveryPcs
  <2>2. /\ g.proc = stack[Len(stack)].proc /\ g.proc # "Stop"
        /\ g.host = stack[Len(stack)].host
    BY <1>1, LastFrame DEF Top, StopPcs, UninstallPcs, RecoveryPcs
  <2>3. Moved(bound, stack, g, [stack EXCEPT ![Len(stack)] = g])
    BY <1>1, <1>2, <2>1, <2>2, SetFrame, Zenon
  <2> QED
    BY <2>3 DEF Moved
<1>4. ASSUME NEW h \in Hosts
      PROVE  /\ Cardinality(RecoveringIn(stack', h)) =
                  IF h = Top.host THEN Cardinality(RecoveringIn(stack, h)) - 1
                                  ELSE Cardinality(RecoveringIn(stack, h))
             /\ h = Top.host => Cardinality(RecoveringIn(stack, h)) \in Nat \ {0}
  <2>1. /\ IsFiniteSet(RecoveringIn(stack, h))
        /\ Cardinality(RecoveringIn(stack, h)) \in Nat
        /\ Len(stack) \in RecoveringIn(stack, h) <=> h = Top.host
    BY <1>1, RecoveringFrames DEF Top
  <2>2. Cardinality(RecoveringIn(stack, h) \ {Len(stack)}) =
          IF h = Top.host THEN Cardinality(RecoveringIn(stack, h)) - 1
                          ELSE Cardinality(RecoveringIn(stack, h))
    BY <2>1, FS_RemoveElement
  <2>3. h = Top.host => Cardinality(RecoveringIn(stack, h)) # 0
    BY <2>1, FS_EmptySet
  <2> QED
    BY <1>3, <2>1, <2>2, <2>3
<1> QED
  BY <1>1, <1>2, <1>3, <1>4 DEF StackInv, Top

-----------------------------------------------------------------------------
(* Every step preserves the invariant.                                     *)

(* The running activation and what it has established.                     *)
LEMMA Running ==
  ASSUME IInv, stack # <<>>
  PROVE  /\ Top \in Frame /\ Top.host \in Hosts /\ Top.host \in bound
         /\ Top.tpl = "CALLBACK"
         /\ Top.pc \in {"ioStatus", "ioRecovered"} => Top.left > 0
         /\ Top.proc = "Stop" => Top.pc \in StopPcs /\ Len(stack) = 1
         /\ Established(Top)
         /\ slot[Top.host] \in Slot /\ db[Top.host] \in SUBSET Protocols
         /\ slot[Top.host].installed = db[Top.host]
<1>1. stack \in Stacks(bound) /\ bound \in SUBSET Hosts
  BY DEF IInv, StackInv, TypeOK
<1>2. /\ Top \in Frame /\ Top.host \in bound /\ Top.tpl = "CALLBACK"
      /\ Top.pc \in {"ioStatus", "ioRecovered"} => Top.left > 0
      /\ Top.proc = "Stop" => Top.pc \in StopPcs /\ Len(stack) = 1
  BY <1>1, LastFrame DEF Top
<1>3. Top.host \in Hosts
  BY <1>1, <1>2
<1> QED
  BY <1>2, <1>3 DEF IInv, TopInv, TypeOK, PublishedIsInitialized

(* The part of TypeOK about the hardware and the bounds.                   *)
HardwareOK ==
  /\ card \in [Hosts -> Cards \cup {NoCard}]
  /\ ready \in [Hosts -> BOOLEAN]
  /\ faults \in 0 .. MaxFaults
  /\ cardEvents \in 0 .. MaxCardEvents

(* A step leaves the bounds alone or counts one fault.                     *)
LEMMA FaultTyped ==
  ASSUME IInv, UNCHANGED hardware, NoFault \/ Fault
  PROVE  HardwareOK'
BY SlotAssumption DEF IInv, TypeOK, HardwareOK, hardware, NoFault, Fault

(* A step on one host h that changes its slot to r and its handle to d     *)
(* preserves the invariant when r and d agree with each other, with the    *)
(* other handles and with the number of recoveries in progress.            *)
LEMMA HostStep ==
  ASSUME IInv, NEW h \in Hosts, NEW r \in Slot, NEW d \in SUBSET Protocols,
         slot' = [slot EXCEPT ![h] = r], db' = [db EXCEPT ![h] = d],
         UNCHANGED <<bound, pool>>, HardwareOK', StackInv', TopInv',
         r.installed = d,
         d \cap {"DevicePath", "RpmbIo"} # {} => r.initialized,
         d # {} => h \in bound,
         "RpmbIo" \in d => \A g \in Hosts \ {h} : "RpmbIo" \notin db[g],
         r.recovery = Cardinality(RecoveringIn(stack', h)),
         r.recovery <= RecoveryThreshold,
         \A g \in Hosts \ {h} :
           Cardinality(RecoveringIn(stack', g)) = Cardinality(RecoveringIn(stack, g))
  PROVE  IInv'
<1>1. slot \in [Hosts -> Slot] /\ db \in [Hosts -> SUBSET Protocols]
  BY DEF IInv, TypeOK
<1>2. \A g \in Hosts : /\ slot'[g] = IF g = h THEN r ELSE slot[g]
                       /\ db'[g] = IF g = h THEN d ELSE db[g]
  BY <1>1
<1>3. slot' \in [Hosts -> Slot] /\ db' \in [Hosts -> SUBSET Protocols]
  BY <1>1
<1>4. TypeOK'
  BY <1>3 DEF IInv, TypeOK, HardwareOK, StackInv, Stacks
<1>5. CountInv'
  BY <1>2 DEF IInv, CountInv
<1>6. BoundInv'
  BY <1>2 DEF IInv, BoundInv
<1>7. PublishedIsInitialized'
  BY <1>2 DEF IInv, PublishedIsInitialized
<1>8. AtMostOneRpmb'
  BY <1>2 DEF IInv, AtMostOneRpmb
<1> QED
  BY <1>4, <1>5, <1>6, <1>7, <1>8 DEF IInv

(* A step that changes neither slots nor handles.                          *)
LEMMA StackStep ==
  ASSUME IInv, UNCHANGED <<slot, db, bound, pool>>, HardwareOK', StackInv', TopInv',
         \A g \in Hosts :
           Cardinality(RecoveringIn(stack', g)) = Cardinality(RecoveringIn(stack, g))
  PROVE  IInv'
<1>1. TypeOK'
  BY DEF IInv, TypeOK, HardwareOK, StackInv, Stacks
<1>2. CountInv'
  BY DEF IInv, CountInv
<1> QED
  BY <1>1, <1>2 DEF IInv, BoundInv, PublishedIsInitialized, AtMostOneRpmb

(* The facts a running activation needs on arriving at pc, from the new    *)
(* slot r and handle d of its host; only AskRpmb leads to "installRpmb".   *)
Reached(pc, proc, r, d) ==
  /\ pc = "unRpmbIo" => "BlockIo" \notin d
  /\ pc = "unDevicePath" => d \cap {"BlockIo", "RpmbIo"} = {}
  /\ pc \in {"clear", "destroy"} => d = {}
  /\ pc = "destroy" => proc = "Stop"
  /\ pc \in {"sense", "init"} => ~r.initialized
  /\ pc = "init" => r.mediaPresent
  /\ pc \in {"installBlockIo", "installDevicePath", "askRpmb"} => r.initialized
  /\ pc \notin {"installRpmb", "scan"}

(* r and d may become the slot and the handle of h.                        *)
Agree(h, r, d) ==
  /\ r.installed = d
  /\ d \cap {"DevicePath", "RpmbIo"} # {} => r.initialized
  /\ "RpmbIo" \in d => \A g \in Hosts \ {h} : "RpmbIo" \notin db[g]
  /\ r.recovery = Cardinality(RecoveringIn(stack, h))
  /\ r.recovery <= RecoveryThreshold

(* A step that updates the slot and the handle of the running host.        *)
Updates(r, d) ==
  /\ slot' = [slot EXCEPT ![Top.host] = r] /\ db' = [db EXCEPT ![Top.host] = d]
  /\ UNCHANGED <<bound, pool>>

(* Such a step of an activation that goes to pc preserves the invariant.   *)
LEMMA GotoHostStep ==
  ASSUME IInv, stack # <<>>, Top.pc \notin RecoveryPcs, HardwareOK',
         NEW pc \in Pcs \ RecoveryPcs, Goto(pc), Top.proc = "Stop" => pc \in StopPcs,
         NEW r \in Slot, NEW d \in SUBSET Protocols, Updates(r, d),
         Agree(Top.host, r, d), Reached(pc, Top.proc, r, d)
  PROVE  IInv'
<1>1. /\ Top.host \in Hosts /\ Top.host \in bound
      /\ slot \in [Hosts -> Slot] /\ db \in [Hosts -> SUBSET Protocols]
  BY Running DEF IInv, TypeOK
<1>2. /\ StackInv' /\ stack' # <<>>
      /\ Top'.pc = pc /\ Top'.host = Top.host /\ Top'.proc = Top.proc
      /\ \A h \in Hosts : RecoveringIn(stack', h) = RecoveringIn(stack, h)
  <2>1. UNCHANGED bound
    BY DEF Updates
  <2>2. pc # "scan"
    BY DEF Reached
  <2> QED
    BY <2>1, <2>2, GotoStep
<1>3. slot'[Top.host] = r /\ db'[Top.host] = d
  BY <1>1 DEF Updates
<1>4. Established(Top)'
  BY <1>2, <1>3 DEF Established, Reached
<1>5. TopInv'
  BY <1>4 DEF TopInv
<1> QED
  BY <1>1, <1>2, <1>5, HostStep DEF Updates, Agree

(* Such a step of an activation that returns preserves the invariant.      *)
LEMMA ReturnHostStep ==
  ASSUME IInv, stack # <<>>, Top.pc \notin RecoveryPcs, HardwareOK', Return,
         NEW r \in Slot, NEW d \in SUBSET Protocols, Updates(r, d),
         Agree(Top.host, r, d)
  PROVE  IInv'
<1>1. Top.host \in Hosts /\ Top.host \in bound
  BY Running
<1>2. /\ StackInv'
      /\ stack' # <<>> => Top'.pc \in WaitingPcs
      /\ \A h \in Hosts : RecoveringIn(stack', h) = RecoveringIn(stack, h)
  <2>1. UNCHANGED bound
    BY DEF Updates
  <2> QED
    BY <2>1, ReturnStep
<1>3. TopInv'
  BY <1>2 DEF TopInv, Established, WaitingPcs, RecoveryPcs
<1> QED
  BY <1>1, <1>2, <1>3, HostStep DEF Updates, Agree

(* The present slot and handle of the running host agree.                  *)
LEMMA Unchanged ==
  ASSUME IInv, stack # <<>>
  PROVE  /\ slot[Top.host] \in Slot /\ db[Top.host] \in SUBSET Protocols
         /\ Agree(Top.host, slot[Top.host], db[Top.host])
<1>1. /\ Top.host \in Hosts
      /\ slot \in [Hosts -> Slot] /\ db \in [Hosts -> SUBSET Protocols]
  BY Running DEF IInv, TypeOK
<1>2. Agree(Top.host, slot[Top.host], db[Top.host])
  BY <1>1 DEF Agree, IInv, CountInv, PublishedIsInitialized, AtMostOneRpmb
<1> QED
  BY <1>1, <1>2

(* Leaving them alone is an update.                                        *)
LEMMA NoUpdate ==
  ASSUME IInv, stack # <<>>, UNCHANGED <<bound, pool>>, UNCHANGED <<db, slot>>
  PROVE  Updates(slot[Top.host], db[Top.host])
<1>1. /\ Top.host \in Hosts
      /\ slot \in [Hosts -> Slot] /\ db \in [Hosts -> SUBSET Protocols]
  BY Running DEF IInv, TypeOK
<1> QED
  BY <1>1 DEF Updates

(* So is the removal of an interface, which the slot and the handle        *)
(* survive in agreement.                                                   *)
LEMMA RemoveUpdates ==
  ASSUME IInv, stack # <<>>, UNCHANGED <<bound, pool>>, NEW p \in Protocols,
         Remove(Top.host, p)
  PROVE  \E r \in Slot : /\ Updates(r, db[Top.host] \ {p})
                         /\ Agree(Top.host, r, db[Top.host] \ {p})
<1> DEFINE r == [slot[Top.host] EXCEPT !.installed = @ \ {p}]
           d == db[Top.host] \ {p}
<1>1. /\ slot[Top.host] \in Slot /\ db[Top.host] \in SUBSET Protocols
      /\ Agree(Top.host, slot[Top.host], db[Top.host])
  BY Unchanged
<1>2. r \in Slot
  BY <1>1 DEF Slot
<1>3. /\ r.installed = slot[Top.host].installed \ {p}
      /\ r.initialized = slot[Top.host].initialized
      /\ r.recovery = slot[Top.host].recovery
  BY <1>1 DEF Slot
<1>4. slot' = [slot EXCEPT ![Top.host] = r] /\ db' = [db EXCEPT ![Top.host] = d]
  BY DEF Remove
<1> HIDE DEF r
<1>5. Updates(r, d)
  BY <1>4 DEF Updates
<1>6. Agree(Top.host, r, d)
  BY <1>1, <1>3 DEF Agree
<1> QED
  BY <1>2, <1>5, <1>6

(* The environment changes the hardware only.                              *)
LEMMA EnvironmentStep ==
  ASSUME IInv, Environment
  PROVE  IInv'
<1>1. HardwareOK'
  <2>1. HardwareOK /\ MaxCardEvents \in Nat
    BY SlotAssumption DEF IInv, TypeOK, HardwareOK
  <2>2. cardEvents' \in 0 .. MaxCardEvents /\ UNCHANGED faults
    BY <2>1 DEF Environment, EjectCard, InsertCard, HardwareOK
  <2>3. /\ card' \in [Hosts -> Cards \cup {NoCard}]
        /\ ready' \in [Hosts -> BOOLEAN]
    BY <2>1 DEF Environment, EjectCard, InsertCard, HardwareOK
  <2> QED
    BY <2>1, <2>2, <2>3 DEF HardwareOK
<1>2. UNCHANGED <<bound, pool, slot, db, stack>>
  BY DEF Environment, EjectCard, InsertCard, driver
<1> QED
  BY <1>1, <1>2 DEF IInv, TypeOK, HardwareOK, StackInv, CountInv, BoundInv, TopInv,
     Top, Established, PublishedIsInitialized, AtMostOneRpmb

(* A step of UninstallAllProtocols at here, going on at then.              *)
LEMMA UninstallStep ==
  ASSUME IInv, NEW p \in Protocols, NEW here \in UninstallPcs, NEW then \in Pcs \ RecoveryPcs,
         Uninstall(p, here, then),
         Top.proc = "Stop" => then \in StopPcs,
         \A r \in Slot : Reached(then, Top.proc, r, db[Top.host] \ {p})
  PROVE  IInv'
<1> DEFINE h == Top.host
           d == db[h] \ {p}
<1>1. /\ stack # <<>> /\ Top.pc \notin RecoveryPcs /\ UNCHANGED hardware
      /\ UNCHANGED <<bound, pool>> /\ (NoFault \/ Fault)
  BY DEF Uninstall, At, Idle, driver, UninstallPcs, RecoveryPcs
<1>2. HardwareOK'
  BY <1>1, FaultTyped
<1>3. slot[h] \in Slot /\ db[h] \in SUBSET Protocols /\ Agree(h, slot[h], db[h])
  BY <1>1, Unchanged
<1>4. CASE p \notin slot[h].installed /\ Goto(then) /\ UNCHANGED <<db, slot>>
  <2>1. db[h] = d
    BY <1>3, <1>4 DEF Agree
  <2>2. Updates(slot[h], db[h])
    BY <1>1, <1>4, NoUpdate
  <2>3. Reached(then, Top.proc, slot[h], db[h])
    BY <1>3, <2>1
  <2> QED
    BY <1>1, <1>2, <1>3, <1>4, <2>2, <2>3, GotoHostStep
<1>5. CASE Remove(h, p) /\ Goto(then)
  <2>1. PICK r \in Slot : Updates(r, d) /\ Agree(h, r, d)
    BY <1>1, <1>5, RemoveUpdates
  <2>2. Reached(then, Top.proc, r, d)
    OBVIOUS
  <2> QED
    BY <1>1, <1>2, <1>3, <1>5, <2>1, <2>2, GotoHostStep
<1>6. CASE UninstallFails /\ UNCHANGED <<db, slot>>
  <2>1. Updates(slot[h], db[h])
    BY <1>1, <1>6, NoUpdate
  <2>2. CASE Goto("exitRpmbIo") /\ Top.proc = "Reset"
    <3>1. "exitRpmbIo" \in Pcs \ RecoveryPcs
      BY DEF Pcs, ResetPcs, RecoveryPcs
    <3>2. Reached("exitRpmbIo", Top.proc, slot[h], db[h])
      BY DEF Reached
    <3> QED
      BY <1>1, <1>2, <1>3, <2>1, <2>2, <3>1, <3>2, GotoHostStep
  <2>3. CASE Return
    BY <1>1, <1>2, <1>3, <2>1, <2>3, ReturnHostStep
  <2> QED
    BY <1>6, <2>2, <2>3 DEF UninstallFails
<1> QED
  BY <1>4, <1>5, <1>6 DEF Uninstall

LEMMA UninstallAllProtocolsStep ==
  ASSUME IInv, UninstallAllProtocols
  PROVE  IInv'
<1>1. stack # <<>>
  BY DEF UninstallAllProtocols, Uninstall, At, Idle
<1>2. Established(Top) /\ db[Top.host] \in SUBSET Protocols
  BY <1>1, Running
<1>3. CASE Uninstall("BlockIo", "unBlockIo", "unRpmbIo")
  BY <1>2, <1>3, UninstallStep
     DEF Protocols, UninstallPcs, Pcs, ResetPcs, RecoveryPcs, StopPcs, Reached
<1>4. CASE Uninstall("RpmbIo", "unRpmbIo", "unDevicePath")
  <2>1. "BlockIo" \notin db[Top.host]
    BY <1>2, <1>4 DEF Established, Uninstall, At
  <2> QED
    BY <1>4, <2>1, UninstallStep
       DEF Protocols, UninstallPcs, Pcs, ResetPcs, RecoveryPcs, StopPcs, Reached
<1>5. CASE Uninstall("DevicePath", "unDevicePath",
                     IF ~Idle /\ Top.proc = "Stop" THEN "destroy" ELSE "clear")
  <2>1. db[Top.host] \ {"DevicePath"} = {}
    BY <1>2, <1>5 DEF Established, Uninstall, At, Protocols
  <2>2. CASE Top.proc = "Stop"
    <3>1. Uninstall("DevicePath", "unDevicePath", "destroy")
      BY <1>1, <1>5, <2>2 DEF Idle
    <3> QED
      BY <2>1, <2>2, <3>1, UninstallStep
         DEF Protocols, UninstallPcs, Pcs, ResetPcs, RecoveryPcs, StopPcs, Reached
  <2>3. CASE Top.proc # "Stop"
    <3>1. Uninstall("DevicePath", "unDevicePath", "clear")
      BY <1>1, <1>5, <2>3 DEF Idle
    <3> QED
      BY <2>1, <2>3, <3>1, UninstallStep
         DEF Protocols, UninstallPcs, Pcs, ResetPcs, RecoveryPcs, StopPcs, Reached
  <2> QED
    BY <2>2, <2>3
<1> QED
  BY <1>3, <1>4, <1>5 DEF UninstallAllProtocols

(* A step that clears or sets card fields of the running host's slot:      *)
(* record r differs from the slot in none of the fields below.             *)
LEMMA SlotUpdate ==
  ASSUME IInv, stack # <<>>, UNCHANGED <<bound, pool, db>>, NEW r \in Slot,
         slot' = [slot EXCEPT ![Top.host] = r],
         r.installed = slot[Top.host].installed, r.recovery = slot[Top.host].recovery,
         db[Top.host] # {} => r.initialized \/ db[Top.host] \subseteq {"BlockIo"}
  PROVE  /\ Updates(r, db[Top.host]) /\ Agree(Top.host, r, db[Top.host])
         /\ db[Top.host] \in SUBSET Protocols
<1>1. /\ Agree(Top.host, slot[Top.host], db[Top.host])
      /\ db[Top.host] \in SUBSET Protocols
  BY Unchanged
<1>2. Agree(Top.host, r, db[Top.host])
  BY <1>1 DEF Agree
<1>3. Top.host \in Hosts /\ db \in [Hosts -> SUBSET Protocols]
  BY Running DEF IInv, TypeOK
<1>4. Updates(r, db[Top.host])
  BY <1>3 DEF Updates
<1> QED
  BY <1>1, <1>2, <1>4

LEMMA ClearMediaStep ==
  ASSUME IInv, ClearMedia
  PROVE  IInv'
<1> DEFINE h == Top.host
           r == [slot[h] EXCEPT !.initialized = FALSE, !.mediaId = NoCard,
                                !.mediaPresent = FALSE]
<1>1. /\ stack # <<>> /\ Top.pc = "clear" /\ UNCHANGED <<bound, pool, db>> /\ Goto("sense")
      /\ UNCHANGED hardware /\ NoFault
  BY DEF ClearMedia, At, Idle, driver, NoFault
<1>2. slot[h] \in Slot /\ db[h] = {} /\ (Top.proc = "Stop" => Top.pc \in StopPcs)
  BY <1>1, Running DEF Established
<1>3. /\ r \in Slot /\ r.installed = slot[h].installed
      /\ r.recovery = slot[h].recovery /\ r.initialized = FALSE
  BY <1>2 DEF Slot
<1>4. slot' = [slot EXCEPT ![h] = r]
  BY DEF ClearMedia
<1> HIDE DEF r
<1>5. Updates(r, db[h]) /\ Agree(h, r, db[h]) /\ db[h] \in SUBSET Protocols
  BY <1>1, <1>2, <1>3, <1>4, SlotUpdate
<1>6. Reached("sense", Top.proc, r, db[h])
  BY <1>3 DEF Reached
<1>7. "sense" \in Pcs \ RecoveryPcs /\ Top.proc # "Stop" /\ Top.pc \notin RecoveryPcs
  BY <1>1, <1>2 DEF Pcs, ResetPcs, RecoveryPcs, StopPcs, UninstallPcs
<1>8. HardwareOK'
  BY <1>1, FaultTyped
<1> QED
  BY <1>1, <1>3, <1>5, <1>6, <1>7, <1>8, GotoHostStep

LEMMA SenseMediaStep ==
  ASSUME IInv, SenseMedia
  PROVE  IInv'
<1> DEFINE h == Top.host
           present == card[h] # NoCard
           r == [slot[h] EXCEPT !.mediaPresent = present]
           pc == IF present THEN "init" ELSE "installAbsent"
<1>1. /\ stack # <<>> /\ Top.pc = "sense" /\ UNCHANGED <<bound, pool, db>> /\ Goto(pc)
      /\ UNCHANGED hardware /\ NoFault
  BY DEF SenseMedia, At, Idle, driver, NoFault
<1>2. /\ slot[h] \in Slot /\ slot[h].installed = db[h] /\ ~slot[h].initialized
      /\ (Top.proc = "Stop" => Top.pc \in StopPcs)
  BY <1>1, Running DEF Established
<1>3. /\ r \in Slot /\ r.installed = slot[h].installed
      /\ r.recovery = slot[h].recovery /\ r.initialized = slot[h].initialized
      /\ r.mediaPresent = present
  BY <1>2 DEF Slot
<1>4. slot' = [slot EXCEPT ![h] = r]
  BY DEF SenseMedia
<1>5. db[h] \subseteq {"BlockIo"}
  BY <1>1, <1>2, Running DEF IInv, PublishedIsInitialized, Protocols
<1>6. pc \in Pcs \ RecoveryPcs /\ Top.proc # "Stop" /\ Top.pc \notin RecoveryPcs
  BY <1>1, <1>2 DEF Pcs, ResetPcs, RecoveryPcs, StopPcs, UninstallPcs
<1>7. Reached(pc, Top.proc, r, db[h])
  BY <1>2, <1>3 DEF Reached
<1> HIDE DEF r, pc
<1>8. Updates(r, db[h]) /\ Agree(h, r, db[h]) /\ db[h] \in SUBSET Protocols
  BY <1>1, <1>3, <1>4, <1>5, SlotUpdate
<1>9. HardwareOK'
  BY <1>1, FaultTyped
<1> QED
  BY <1>1, <1>3, <1>6, <1>7, <1>8, <1>9, GotoHostStep

LEMMA InitializeDeviceStep ==
  ASSUME IInv, InitializeDevice
  PROVE  IInv'
<1> DEFINE h == Top.host
           r == [slot[h] EXCEPT !.cardFunction = "Unknown"]
<1>1. /\ stack # <<>> /\ Top.pc = "init" /\ UNCHANGED <<bound, pool, db>> /\ Goto("commands")
      /\ UNCHANGED <<card, cardEvents, faults>>
      /\ ready' = [ready EXCEPT ![h] = FALSE] \/ UNCHANGED ready
  BY DEF InitializeDevice, At, Idle, driver
<1>2. /\ slot[h] \in Slot /\ slot[h].installed = db[h] /\ ~slot[h].initialized
      /\ (Top.proc = "Stop" => Top.pc \in StopPcs)
  BY <1>1, Running DEF Established
<1>3. /\ r \in Slot /\ r.installed = slot[h].installed /\ r.recovery = slot[h].recovery
  BY <1>2 DEF Slot
<1>4. slot' = [slot EXCEPT ![h] = r]
  BY DEF InitializeDevice
<1> HIDE DEF r
<1>5. db[h] \subseteq {"BlockIo"}
  BY <1>1, <1>2, Running DEF IInv, PublishedIsInitialized, Protocols
<1>6. "commands" \in Pcs \ RecoveryPcs /\ Top.proc # "Stop" /\ Top.pc \notin RecoveryPcs
  BY <1>1, <1>2 DEF Pcs, ResetPcs, RecoveryPcs, StopPcs, UninstallPcs
<1>7. Reached("commands", Top.proc, r, db[h])
  BY DEF Reached
<1>8. Updates(r, db[h]) /\ Agree(h, r, db[h]) /\ db[h] \in SUBSET Protocols
  BY <1>1, <1>3, <1>4, <1>5, SlotUpdate
<1>9. HardwareOK'
  BY <1>1 DEF IInv, TypeOK, HardwareOK
<1> QED
  BY <1>1, <1>3, <1>6, <1>7, <1>8, <1>9, GotoHostStep

LEMMA DeviceInitializedStep ==
  ASSUME IInv, DeviceInitialized
  PROVE  IInv'
<1> DEFINE h == Top.host
           r == [slot[h] EXCEPT
                   !.initialized = TRUE, !.mediaId = card[h],
                   !.cardFunction = IF card[h] \in SdCards THEN "Sd" ELSE "Mmc"]
<1>1. /\ stack # <<>> /\ Top.pc = "commands" /\ UNCHANGED <<bound, pool, db>>
      /\ Goto("installBlockIo") /\ UNCHANGED <<card, cardEvents, faults>>
      /\ ready' = [ready EXCEPT ![h] = TRUE]
  BY DEF DeviceInitialized, At, Idle, driver
<1>2. /\ slot[h] \in Slot /\ h \in Hosts /\ card[h] \in Cards \cup {NoCard}
      /\ (Top.proc = "Stop" => Top.pc \in StopPcs)
  BY <1>1, Running DEF IInv, TypeOK
<1>3. /\ r \in Slot /\ r.installed = slot[h].installed /\ r.recovery = slot[h].recovery
      /\ r.initialized = TRUE
  BY <1>2 DEF Slot
<1>4. slot' = [slot EXCEPT ![h] = r]
  BY DEF DeviceInitialized
<1> HIDE DEF r
<1>5. "installBlockIo" \in Pcs \ RecoveryPcs /\ Top.proc # "Stop" /\ Top.pc \notin RecoveryPcs
  BY <1>1, <1>2 DEF Pcs, ResetPcs, RecoveryPcs, StopPcs, UninstallPcs
<1>6. Reached("installBlockIo", Top.proc, r, db[h])
  BY <1>3 DEF Reached
<1>7. Updates(r, db[h]) /\ Agree(h, r, db[h]) /\ db[h] \in SUBSET Protocols
  BY <1>1, <1>3, <1>4, SlotUpdate
<1>8. HardwareOK'
  BY <1>1 DEF IInv, TypeOK, HardwareOK
<1> QED
  BY <1>1, <1>3, <1>5, <1>6, <1>7, <1>8, GotoHostStep

LEMMA DeviceFailsStep ==
  ASSUME IInv, DeviceFails
  PROVE  IInv'
<1>1. /\ stack # <<>> /\ Top.pc = "commands" /\ UNCHANGED <<bound, pool>>
      /\ UNCHANGED <<db, slot>> /\ Goto("exitRpmbIo") /\ UNCHANGED hardware
      /\ (NoFault \/ Fault)
  BY DEF DeviceFails, At, Idle, driver
<1>2. /\ "exitRpmbIo" \in Pcs \ RecoveryPcs /\ Top.proc # "Stop" /\ Top.pc \notin RecoveryPcs
  BY <1>1, Running DEF Pcs, ResetPcs, RecoveryPcs, StopPcs, UninstallPcs
<1>3. Reached("exitRpmbIo", Top.proc, slot[Top.host], db[Top.host])
  BY DEF Reached
<1>4. HardwareOK' /\ Updates(slot[Top.host], db[Top.host])
  BY <1>1, FaultTyped, NoUpdate
<1> QED
  BY <1>1, <1>2, <1>3, <1>4, Unchanged, GotoHostStep

(* An attempt to install p, which goes on at then when it succeeds.        *)
LEMMA InstallStep ==
  ASSUME IInv, stack # <<>>, UNCHANGED <<hardware, driver>>, NEW p \in Protocols,
         NEW then \in {"exit", "installDevicePath", "askRpmb"}, Install(p, then),
         Top.pc \notin RecoveryPcs \cup StopPcs,
         p # "BlockIo" \/ then # "exit" => slot[Top.host].initialized,
         p = "RpmbIo" => \A h \in Hosts : "RpmbIo" \notin db[h]
  PROVE  IInv'
<1> DEFINE h == Top.host
           r == [slot[h] EXCEPT !.installed = @ \cup {p}]
           d == db[h] \cup {p}
<1>1. /\ slot[h] \in Slot /\ db[h] \in SUBSET Protocols /\ h \in Hosts
      /\ Agree(h, slot[h], db[h]) /\ Top.proc # "Stop"
  BY Running, Unchanged
<1>2. UNCHANGED <<bound, pool>> /\ (NoFault \/ Fault)
  BY DEF driver, Install
<1>3. HardwareOK'
  BY <1>2, FaultTyped
<1>4. CASE /\ Goto(then)
           /\ slot' = [slot EXCEPT ![h].installed = @ \cup {p}]
           /\ db' = [db EXCEPT ![h] = @ \cup {p}]
  <2>1. r \in Slot /\ d \in SUBSET Protocols
    BY <1>1 DEF Slot
  <2>2. /\ r.installed = slot[h].installed \cup {p}
        /\ r.initialized = slot[h].initialized
        /\ r.recovery = slot[h].recovery
    BY <1>1 DEF Slot
  <2>3. slot' = [slot EXCEPT ![h] = r] /\ db' = [db EXCEPT ![h] = d]
    BY <1>4
  <2> HIDE DEF r
  <2>4. Updates(r, d)
    BY <1>2, <2>3 DEF Updates
  <2>5. Agree(h, r, d)
    BY <1>1, <2>2 DEF Agree
  <2>6. Reached(then, Top.proc, r, d)
    BY <2>2 DEF Reached
  <2>7. then \in Pcs \ RecoveryPcs
    BY DEF Pcs, ResetPcs, RecoveryPcs
  <2> QED
    BY <1>1, <1>3, <1>4, <2>1, <2>4, <2>5, <2>6, <2>7, GotoHostStep
<1>5. CASE Goto("exitRpmbIo") /\ UNCHANGED <<db, slot>>
  <2>1. "exitRpmbIo" \in Pcs \ RecoveryPcs
    BY DEF Pcs, ResetPcs, RecoveryPcs
  <2>2. Reached("exitRpmbIo", Top.proc, slot[h], db[h])
    BY DEF Reached
  <2>3. Updates(slot[h], db[h])
    BY <1>2, <1>5, NoUpdate
  <2> QED
    BY <1>1, <1>3, <1>5, <2>1, <2>2, <2>3, GotoHostStep
<1> QED
  BY <1>4, <1>5 DEF Install

LEMMA InstallSteps ==
  ASSUME IInv, InstallAbsent \/ InstallBlockIo \/ InstallDevicePath \/ InstallRpmb
  PROVE  IInv'
<1>1. stack # <<>> /\ UNCHANGED <<hardware, driver>>
  BY DEF InstallAbsent, InstallBlockIo, InstallDevicePath, InstallRpmb, At, Idle
<1>2. Established(Top)
  BY <1>1, Running
<1>3. CASE InstallAbsent
  BY <1>1, <1>3, InstallStep
     DEF InstallAbsent, At, Protocols, RecoveryPcs, StopPcs, UninstallPcs
<1>4. CASE InstallBlockIo
  <2>1. slot[Top.host].initialized
    BY <1>2, <1>4 DEF InstallBlockIo, At, Established
  <2> QED
    BY <1>1, <1>4, <2>1, InstallStep
       DEF InstallBlockIo, At, Protocols, RecoveryPcs, StopPcs, UninstallPcs
<1>5. CASE InstallDevicePath
  <2>1. slot[Top.host].initialized
    BY <1>2, <1>5 DEF InstallDevicePath, At, Established
  <2> DEFINE then == IF slot[Top.host].cardFunction = "Mmc" THEN "askRpmb" ELSE "exit"
  <2>2. /\ then \in {"exit", "installDevicePath", "askRpmb"}
        /\ Install("DevicePath", then) /\ Top.pc = "installDevicePath"
    BY <1>5 DEF InstallDevicePath, At
  <2> HIDE DEF then
  <2> QED
    BY <1>1, <2>1, <2>2, InstallStep DEF Protocols, RecoveryPcs, StopPcs, UninstallPcs
<1>6. CASE InstallRpmb
  <2>1. /\ slot[Top.host].initialized
        /\ \A h \in Hosts : "RpmbIo" \notin db[h]
    BY <1>2, <1>6 DEF InstallRpmb, At, Established
  <2> QED
    BY <1>1, <1>6, <2>1, InstallStep
       DEF InstallRpmb, At, Protocols, RecoveryPcs, StopPcs, UninstallPcs
<1> QED
  BY <1>3, <1>4, <1>5, <1>6

(* No timer can preempt the driver between the question and the answer.    *)
LEMMA AskRpmbStep ==
  ASSUME IInv, AskRpmb
  PROVE  IInv'
<1> DEFINE pc == IF IsRpmbInstalledOnTheSystem THEN "exit" ELSE "installRpmb"
<1>1. /\ stack # <<>> /\ Top.pc = "askRpmb" /\ UNCHANGED <<bound, pool>>
      /\ UNCHANGED <<slot, db>> /\ Goto(pc) /\ UNCHANGED hardware /\ NoFault
  BY DEF AskRpmb, At, Idle, driver, NoFault
<1>2. pc \in Pcs \ RecoveryPcs /\ pc # "destroy"
  BY DEF Pcs, ResetPcs, RecoveryPcs
<1>3. /\ Top.pc \notin RecoveryPcs /\ Top.proc # "Stop" /\ Top.host \in Hosts
      /\ slot[Top.host].initialized
  BY <1>1, Running DEF RecoveryPcs, StopPcs, UninstallPcs, Established
<1>4. pc = "installRpmb" => \A h \in Hosts : "RpmbIo" \notin db[h]
  BY DEF IsRpmbInstalledOnTheSystem
<1>5. pc \in {"exit", "installRpmb"}
  OBVIOUS
<1> HIDE DEF pc
<1>6. /\ StackInv' /\ stack' # <<>>
      /\ Top'.pc = pc /\ Top'.host = Top.host
      /\ \A h \in Hosts : RecoveringIn(stack', h) = RecoveringIn(stack, h)
  BY <1>1, <1>2, <1>3, <1>5, GotoStep
<1>7. Established(Top)'
  BY <1>1, <1>3, <1>4, <1>5, <1>6 DEF Established
<1>8. HardwareOK' /\ TopInv'
  BY <1>1, <1>7, FaultTyped DEF TopInv
<1> QED
  BY <1>1, <1>6, <1>8, StackStep

(* Returning with nothing else changed.                                    *)
LEMMA PlainReturn ==
  ASSUME IInv, stack # <<>>, Top.pc \notin RecoveryPcs, Return,
         UNCHANGED <<hardware, driver, slot, db, faults>>
  PROVE  IInv'
<1>1. HardwareOK' /\ Updates(slot[Top.host], db[Top.host])
  BY FaultTyped, NoUpdate DEF NoFault, driver
<1> QED
  BY <1>1, Unchanged, ReturnHostStep

LEMMA ReturnSteps ==
  ASSUME IInv, CheckReturn \/ ResetReturn \/ IoReturn \/ StatusReturn
  PROVE  IInv'
<1>1. /\ stack # <<>> /\ Top.pc \notin RecoveryPcs /\ Return
      /\ UNCHANGED <<hardware, driver, slot, db, faults>>
  BY DEF CheckReturn, ResetReturn, IoReturn, StatusReturn, At, Idle, RecoveryPcs
<1> QED
  BY <1>1, PlainReturn

(* The withdrawals at SoftReset's Exit label.                              *)
LEMMA WithdrawStep ==
  ASSUME IInv, NEW p \in Protocols, NEW ACTION Then,
         NEW here \in {"exitRpmbIo", "exitDevicePath"}, Withdraw(p, here, Then),
         Then => Goto("exitDevicePath") \/ Return
  PROVE  IInv'
<1> DEFINE h == Top.host
<1>1. /\ stack # <<>> /\ Top.pc \notin RecoveryPcs \cup StopPcs /\ UNCHANGED hardware
      /\ UNCHANGED <<bound, pool>> /\ (NoFault \/ Fault)
      /\ Goto("exitDevicePath") \/ Return
  BY DEF Withdraw, At, Idle, driver, RecoveryPcs, StopPcs, UninstallPcs
<1>2. HardwareOK' /\ Top.proc # "Stop"
  BY <1>1, FaultTyped, Running
<1>3. \E r \in Slot : \E d \in SUBSET Protocols : Updates(r, d) /\ Agree(h, r, d)
  <2>1. CASE UNCHANGED <<db, slot>>
    BY <1>1, <2>1, NoUpdate, Unchanged
  <2>2. CASE Remove(h, p)
    <3>1. db[h] \ {p} \in SUBSET Protocols
      BY <1>1, Unchanged
    <3> QED
      BY <1>1, <2>2, <3>1, RemoveUpdates
  <2> QED
    BY <2>1, <2>2 DEF Withdraw
<1>4. PICK r \in Slot, d \in SUBSET Protocols : Updates(r, d) /\ Agree(h, r, d)
  BY <1>3
<1>5. CASE Goto("exitDevicePath")
  <2>1. "exitDevicePath" \in Pcs \ RecoveryPcs
    BY DEF Pcs, ResetPcs, RecoveryPcs
  <2>2. Reached("exitDevicePath", Top.proc, r, d)
    BY DEF Reached
  <2> QED
    BY <1>1, <1>2, <1>4, <1>5, <2>1, <2>2, GotoHostStep
<1>6. CASE Return
  BY <1>1, <1>2, <1>4, <1>6, ReturnHostStep
<1> QED
  BY <1>1, <1>5, <1>6

LEMMA ResetExitStep ==
  ASSUME IInv, ResetExit
  PROVE  IInv'
<1>1. CASE ResetReturn
  BY <1>1, ReturnSteps
<1>2. CASE Withdraw("RpmbIo", "exitRpmbIo", Goto("exitDevicePath"))
  BY <1>2, WithdrawStep DEF Protocols
<1>3. CASE Withdraw("DevicePath", "exitDevicePath", Return)
  BY <1>3, WithdrawStep DEF Protocols
<1> QED
  BY <1>1, <1>2, <1>3 DEF ResetExit

(* The activations a caller, the timer or another activation may push.     *)
LEMMA NewFrames ==
  ASSUME NEW h \in Hosts
  PROVE  /\ SoftReset(h, "CALLBACK") \in Frame
         /\ SoftReset(h, "CALLBACK").pc = "unBlockIo"
         /\ SoftReset(h, "CALLBACK").proc = "Reset"
         /\ SoftReset(h, "CALLBACK").tpl = "CALLBACK"
         /\ SoftReset(h, "CALLBACK").host = h
         /\ NewFrame("Check", "scan", h, "CALLBACK") \in Frame
         /\ NewFrame("Stop", "unBlockIo", h, "CALLBACK") \in Frame
BY SlotAssumption DEF SoftReset, NewFrame, Frame, Pcs, ResetPcs, UninstallPcs, Tpls

(* A new activation needs nothing established where SoftReset, the check,  *)
(* SdMmcDriverStop and a block request begin.                              *)
LEMMA Begins ==
  ASSUME NEW f, f.pc \in {"unBlockIo", "scan", "chunk", "commands", "exitRpmbIo"}
  PROVE  Established(f)'
BY DEF Established

(* The recoveries in progress are as many as they were.                    *)
LEMMA SoftResetCalled ==
  ASSUME IInv, stack # <<>>, Top.pc \notin RecoveryPcs, UNCHANGED <<driver, slot, db>>,
         HardwareOK', NEW h \in bound, Top.pc \notin StopPcs,
         NEW c \in Frame, c.tpl = "CALLBACK", c.host = Top.host, c.pc = "scan", Top.pc = "scan",
         c.proc = Top.proc,
         SuspendAndCall(SoftReset(h, "CALLBACK"), c)
  PROVE  IInv'
<1> DEFINE f == SoftReset(h, "CALLBACK")
<1>1. /\ f \in Frame /\ f.pc = "unBlockIo" /\ f.proc = "Reset" /\ f.tpl = "CALLBACK"
      /\ f.host = h /\ UNCHANGED <<bound, pool>>
  BY NewFrames DEF IInv, TypeOK, driver
<1> HIDE DEF f
<1>2. /\ StackInv' /\ stack' # <<>> /\ Top' = f
      /\ \A g \in Hosts :
           Cardinality(RecoveringIn(stack', g)) = Cardinality(RecoveringIn(stack, g))
  <2>1. f.pc \notin RecoveryPcs /\ c.pc \in WaitingPcs /\ c.pc \notin RecoveryPcs
        /\ c.pc \notin {"ioStatus", "ioRecovered"} /\ SuspendAndCall(f, c)
    BY <1>1 DEF RecoveryPcs, WaitingPcs, f
  <2> QED
    BY <1>1, <2>1, SuspendStep
<1>3. TopInv'
  BY <1>1, <1>2 DEF TopInv, Established
<1> QED
  BY <1>1, <1>2, <1>3, StackStep

LEMMA CheckNextStep ==
  ASSUME IInv, CheckNext
  PROVE  IInv'
<1> DEFINE h == pool[Top.next]
           visited == [Top EXCEPT !.next = @ + 1]
<1>1. /\ stack # <<>> /\ Top.pc = "scan" /\ Top.next <= Len(pool)
      /\ UNCHANGED <<hardware, driver, slot, db, faults>>
  BY DEF CheckNext, At, Idle
<1>2. /\ Top \in Frame /\ Top.tpl = "CALLBACK"
      /\ (Top.proc = "Stop" => Top.pc \in StopPcs)
  BY <1>1, Running
<1>3. h \in bound
  <2>1. Top.next \in 1 .. Len(pool)
    BY <1>1, <1>2, LenProperties DEF IInv, TypeOK, Frame
  <2> QED
    BY <2>1 DEF IInv, BoundInv
<1>4. /\ visited \in Frame /\ visited.tpl = "CALLBACK" /\ visited.host = Top.host
      /\ visited.pc = "scan" /\ visited.proc = Top.proc
  BY <1>1, <1>2 DEF Frame
<1>5. Top.pc \notin RecoveryPcs \cup StopPcs /\ Top.proc # "Stop"
  BY <1>1, <1>2 DEF RecoveryPcs, StopPcs, UninstallPcs
<1>6. HardwareOK' /\ UNCHANGED <<bound, pool>>
  BY <1>1, FaultTyped DEF NoFault, driver
<1>7. \/ SuspendAndCall(SoftReset(h, "CALLBACK"), visited)
      \/ stack' = [stack EXCEPT ![Len(stack)] = visited]
  BY <1>2 DEF CheckNext
<1> HIDE DEF visited, h
<1>8. CASE SuspendAndCall(SoftReset(h, "CALLBACK"), visited)
  BY <1>1, <1>3, <1>4, <1>5, <1>6, <1>8, SoftResetCalled
<1>9. CASE stack' = [stack EXCEPT ![Len(stack)] = visited]
  <2>1. visited.pc \notin RecoveryPcs
    BY <1>4 DEF RecoveryPcs
  <2>2. /\ StackInv' /\ stack' # <<>> /\ Top' = visited
        /\ \A g \in Hosts : RecoveringIn(stack', g) = RecoveringIn(stack, g)
    BY <1>1, <1>4, <1>5, <1>6, <1>9, <2>1, AdvanceStep
  <2>3. TopInv'
    BY <1>4, <2>2 DEF TopInv, Established
  <2> QED
    BY <1>1, <1>6, <2>2, <2>3, StackStep
<1> QED
  BY <1>7, <1>8, <1>9

(* IoTransfer and IoGivesUp.                                               *)
LEMMA ChunkStep ==
  ASSUME IInv, IoTransfer \/ IoGivesUp
  PROVE  IInv'
<1> DEFINE g == [Top EXCEPT !.left = @ - 1]
<1>1. /\ stack # <<>> /\ Top.pc = "chunk" /\ Top.left > 0
      /\ UNCHANGED <<hardware, driver, slot, db>> /\ (NoFault \/ Fault) /\ NextChunk
  BY DEF IoTransfer, IoGivesUp, At, Idle, NoFault
<1>2. /\ Top \in Frame /\ Top.tpl = "CALLBACK"
      /\ (Top.proc = "Stop" => Top.pc \in StopPcs)
  BY <1>1, Running
<1>3. /\ g \in Frame /\ g.tpl = "CALLBACK" /\ g.host = Top.host
      /\ g.pc = "chunk" /\ g.proc = Top.proc
  BY <1>1, <1>2, SlotAssumption DEF Frame
<1>4. /\ Top.pc \notin RecoveryPcs /\ Top.proc # "Stop"
      /\ g.pc \notin RecoveryPcs
  BY <1>1, <1>2, <1>3 DEF RecoveryPcs, StopPcs, UninstallPcs
<1>5. HardwareOK' /\ UNCHANGED <<bound, pool>>
  BY <1>1, FaultTyped DEF driver
<1>6. stack' = [stack EXCEPT ![Len(stack)] = g]
  BY <1>1 DEF NextChunk, Top
<1> HIDE DEF g
<1>7. /\ StackInv' /\ stack' # <<>> /\ Top' = g
      /\ \A h \in Hosts : RecoveringIn(stack', h) = RecoveringIn(stack, h)
  BY <1>1, <1>3, <1>4, <1>5, <1>6, AdvanceStep
<1>8. TopInv'
  BY <1>3, <1>7 DEF TopInv, Established
<1> QED
  BY <1>1, <1>5, <1>7, <1>8, StackStep

(* SlotStep: the recovery count of the running host becomes n.             *)
LEMMA CountStep ==
  ASSUME IInv, stack # <<>>, UNCHANGED <<bound, pool, db>>,
         NEW n \in Nat, n <= RecoveryThreshold,
         slot' = [slot EXCEPT ![Top.host].recovery = n],
         HardwareOK', StackInv', TopInv',
         n = Cardinality(RecoveringIn(stack', Top.host)),
         \A g \in Hosts \ {Top.host} :
           Cardinality(RecoveringIn(stack', g)) = Cardinality(RecoveringIn(stack, g))
  PROVE  IInv'
<1> DEFINE r == [slot[Top.host] EXCEPT !.recovery = n]
<1>1. /\ slot[Top.host] \in Slot /\ db[Top.host] \in SUBSET Protocols
      /\ Agree(Top.host, slot[Top.host], db[Top.host])
      /\ Top.host \in Hosts /\ Top.host \in bound
  BY Unchanged, Running
<1>2. /\ r \in Slot /\ r.installed = slot[Top.host].installed
      /\ r.initialized = slot[Top.host].initialized /\ r.recovery = n
  BY <1>1 DEF Slot
<1>3. slot' = [slot EXCEPT ![Top.host] = r]
  OBVIOUS
<1>4. db' = [db EXCEPT ![Top.host] = db[Top.host]]
  BY <1>1 DEF IInv, TypeOK
<1> HIDE DEF r
<1>5. /\ r.installed = db[Top.host]
      /\ db[Top.host] \cap {"DevicePath", "RpmbIo"} # {} => r.initialized
      /\ "RpmbIo" \in db[Top.host] => \A g \in Hosts \ {Top.host} : "RpmbIo" \notin db[g]
      /\ r.recovery <= RecoveryThreshold
      /\ r.recovery = Cardinality(RecoveringIn(stack', Top.host))
  BY <1>1, <1>2 DEF Agree
<1> QED
  BY <1>1, <1>2, <1>3, <1>4, <1>5, HostStep

(* The running activation waits at pc for a SoftReset of its host.         *)
LEMMA RecoveryCall ==
  ASSUME IInv, stack # <<>>, Top.pc \in {"commands", "chunk", "status"},
         NEW pc \in RecoveryPcs,
         pc \in {"ioStatus", "ioRecovered"} => Top.left > 0,
         slot[Top.host].recovery < RecoveryThreshold,
         slot' = [slot EXCEPT ![Top.host].recovery = @ + 1],
         SuspendAndCall(SoftReset(Top.host, Top.tpl), [Top EXCEPT !.pc = pc]),
         UNCHANGED <<hardware, driver, db>>, Fault
  PROVE  IInv'
<1> DEFINE f == SoftReset(Top.host, "CALLBACK")
           c == [Top EXCEPT !.pc = pc]
           n == slot[Top.host].recovery + 1
<1>1. /\ Top \in Frame /\ Top.tpl = "CALLBACK" /\ Top.host \in Hosts /\ Top.host \in bound
      /\ (Top.proc = "Stop" => Top.pc \in StopPcs) /\ slot[Top.host] \in Slot
  BY Running
<1>2. /\ f \in Frame /\ f.pc = "unBlockIo" /\ f.proc = "Reset" /\ f.tpl = "CALLBACK"
      /\ f.host = Top.host
  BY <1>1, NewFrames
<1>3. /\ c \in Frame /\ c.tpl = "CALLBACK" /\ c.host = Top.host
      /\ c.pc = pc /\ c.proc = Top.proc /\ c.left = Top.left
  BY <1>1 DEF Frame, Pcs, ResetPcs, RecoveryPcs
<1>4. /\ n \in Nat /\ n <= RecoveryThreshold
      /\ n = Cardinality(RecoveringIn(stack, Top.host)) + 1
  BY <1>1, SlotAssumption DEF Slot, IInv, CountInv
<1>5. HardwareOK' /\ UNCHANGED <<bound, pool, db>>
  BY FaultTyped DEF driver
<1>6. SuspendAndCall(f, c)
  BY <1>1
<1>7. slot' = [slot EXCEPT ![Top.host].recovery = n]
  OBVIOUS
<1> HIDE DEF f, c, n
<1>8. /\ Top.pc \notin RecoveryPcs \cup StopPcs
      /\ f.pc \notin RecoveryPcs /\ f.proc # "Stop"
      /\ c.pc \in WaitingPcs /\ c.pc \in RecoveryPcs
      /\ c.pc \in {"ioStatus", "ioRecovered"} => c.left > 0
  BY <1>2, <1>3 DEF RecoveryPcs, StopPcs, UninstallPcs, WaitingPcs
<1>9. /\ StackInv' /\ stack' # <<>> /\ Top' = f
      /\ \A h \in Hosts :
           Cardinality(RecoveringIn(stack', h)) =
             IF c.pc \in RecoveryPcs /\ h = Top.host
               THEN Cardinality(RecoveringIn(stack, h)) + 1
               ELSE Cardinality(RecoveringIn(stack, h))
  <2>1. /\ c.pc # "scan" /\ f.pc # "scan" /\ f.host = Top.host
        /\ c.pc \in {"ioStatus", "ioRecovered"} => c.left > 0
    BY <1>2, <1>3, <1>8 DEF RecoveryPcs
  <2> QED
    BY <1>1, <1>2, <1>3, <1>5, <1>6, <1>8, <2>1, SuspendStep
<1>10. TopInv'
  BY <1>2, <1>9 DEF TopInv, Established
<1> QED
  BY <1>1, <1>4, <1>5, <1>7, <1>8, <1>9, <1>10, CountStep

(* The line reset was enough: the block request is in recovery and goes on *)
(* to its status command.                                                  *)
LEMMA LineResetStep ==
  ASSUME IInv, stack # <<>>, Top.pc = "chunk", Top.left > 0,
         slot[Top.host].recovery < RecoveryThreshold,
         slot' = [slot EXCEPT ![Top.host].recovery = @ + 1], Goto("ioStatus"),
         UNCHANGED <<hardware, driver, db>>, Fault
  PROVE  IInv'
<1> DEFINE g == [Top EXCEPT !.pc = "ioStatus"]
           n == slot[Top.host].recovery + 1
<1>1. /\ Top \in Frame /\ Top.tpl = "CALLBACK" /\ Top.host \in Hosts /\ Top.host \in bound
      /\ (Top.proc = "Stop" => Top.pc \in StopPcs) /\ slot[Top.host] \in Slot
  BY Running
<1>2. /\ g \in Frame /\ g.tpl = "CALLBACK" /\ g.host = Top.host
      /\ g.pc = "ioStatus" /\ g.proc = Top.proc /\ g.left = Top.left
  BY <1>1 DEF Frame, Pcs, RecoveryPcs
<1>3. /\ n \in Nat /\ n <= RecoveryThreshold
      /\ n = Cardinality(RecoveringIn(stack, Top.host)) + 1
  BY <1>1, SlotAssumption DEF Slot, IInv, CountInv
<1>4. HardwareOK' /\ UNCHANGED <<bound, pool, db>>
  BY FaultTyped DEF driver
<1>5. stack' = [stack EXCEPT ![Len(stack)] = g]
  BY DEF Goto, Top
<1>6. slot' = [slot EXCEPT ![Top.host].recovery = n]
  OBVIOUS
<1> HIDE DEF g, n
<1>7. /\ Top.pc \notin RecoveryPcs /\ Top.proc # "Stop"
      /\ g.pc \in RecoveryPcs
  BY <1>1, <1>2 DEF RecoveryPcs, StopPcs, UninstallPcs
<1>8. /\ StackInv' /\ stack' # <<>> /\ Top' = g
      /\ \A h \in Hosts : RecoveringIn(stack', h) =
           IF h = Top.host THEN RecoveringIn(stack, h) \cup {Len(stack)}
                           ELSE RecoveringIn(stack, h)
  BY <1>1, <1>2, <1>4, <1>5, <1>7, BecomesRecovering
<1>9. /\ Cardinality(RecoveringIn(stack', Top.host)) = n
      /\ \A h \in Hosts \ {Top.host} :
           Cardinality(RecoveringIn(stack', h)) = Cardinality(RecoveringIn(stack, h))
  <2>1. /\ IsFiniteSet(RecoveringIn(stack, Top.host))
        /\ Len(stack) \notin RecoveringIn(stack, Top.host)
    BY <1>1, <1>7, RecoveringFrames DEF IInv, StackInv, TypeOK, Top
  <2>2. Cardinality(RecoveringIn(stack, Top.host) \cup {Len(stack)})
          = Cardinality(RecoveringIn(stack, Top.host)) + 1
    BY <2>1, FS_AddElement
  <2> QED
    BY <1>1, <1>3, <1>8, <2>2
<1>10. TopInv'
  BY <1>2, <1>8 DEF TopInv, Established
<1> QED
  BY <1>1, <1>3, <1>4, <1>6, <1>8, <1>9, <1>10, CountStep

(* The status command is sent from within the recovery.                    *)
LEMMA IoStatusStep ==
  ASSUME IInv, IoStatus
  PROVE  IInv'
<1> DEFINE f == NewFrame("Status", "status", Top.host, "CALLBACK")
           c == [Top EXCEPT !.pc = "ioRecovered"]
           m == [stack EXCEPT ![Len(stack)] = c]
<1>1. /\ stack # <<>> /\ Top.pc = "ioStatus"
      /\ UNCHANGED <<hardware, driver, slot, db, faults>>
  BY DEF IoStatus, At, Idle
<1>2. /\ Top \in Frame /\ Top.tpl = "CALLBACK" /\ Top.host \in Hosts /\ Top.host \in bound
      /\ (Top.proc = "Stop" => Top.pc \in StopPcs) /\ Top.left > 0
  BY <1>1, Running
<1>3. /\ f \in Frame /\ f.pc = "status" /\ f.proc = "Status" /\ f.tpl = "CALLBACK"
      /\ f.host = Top.host
  BY <1>2, SlotAssumption DEF NewFrame, Frame, Pcs, Tpls
<1>4. /\ c \in Frame /\ c.tpl = "CALLBACK" /\ c.host = Top.host
      /\ c.pc = "ioRecovered" /\ c.proc = Top.proc /\ c.left = Top.left
  BY <1>2 DEF Frame, Pcs, RecoveryPcs
<1>5. stack' = Append(m, f)
  BY <1>2 DEF IoStatus, SuspendAndCall
<1> HIDE DEF f, c
<1>6. HardwareOK' /\ UNCHANGED <<bound, pool, slot, db>>
  BY <1>1, FaultTyped DEF NoFault, driver
<1>7. /\ Top.proc # "Stop" /\ Top.pc \in RecoveryPcs /\ c.pc \in RecoveryPcs
      /\ f.pc \notin RecoveryPcs /\ c.pc \in WaitingPcs
  BY <1>1, <1>2, <1>3, <1>4 DEF RecoveryPcs, StopPcs, UninstallPcs, WaitingPcs
<1>8. stack \in Stacks(bound) /\ bound \in SUBSET Hosts
  BY DEF IInv, StackInv, TypeOK
<1>9. Moved(bound, stack, c, m)
  <2>1. /\ c.proc = stack[Len(stack)].proc /\ c.host \in bound
        /\ c.host = stack[Len(stack)].host /\ c.pc # "scan"
    BY <1>2, <1>4 DEF Top
  <2> QED
    BY <1>1, <1>2, <1>4, <1>7, <1>8, <2>1, SetFrame
<1> HIDE DEF m
<1>10. Pushed(bound, m, f, Append(m, f))
  <2>1. /\ m \in Stacks(bound) /\ m # <<>> /\ m[Len(m)] = c
        /\ f.pc # "scan" /\ f.host = c.host
    BY <1>3, <1>4, <1>9 DEF Moved
  <2> QED
    BY <1>2, <1>3, <1>7, <1>8, <2>1, PushFrame
<1>11. \A h \in Hosts : Len(stack) \in RecoveringIn(stack, h) <=> h = Top.host
  BY <1>1, <1>7, <1>8, RecoveringFrames DEF Top
<1>12. \A h \in Hosts : RecoveringIn(stack', h) = RecoveringIn(stack, h)
  <2>1. \A h \in Hosts : RecoveringIn(stack', h) = RecoveringIn(m, h)
    BY <1>5, <1>10 DEF Pushed
  <2>2. \A h \in Hosts :
          RecoveringIn(m, h) = IF h = Top.host THEN RecoveringIn(stack, h) \cup {Len(stack)}
                                               ELSE RecoveringIn(stack, h) \ {Len(stack)}
    BY <1>4, <1>7, <1>9 DEF Moved
  <2> QED
    BY <1>11, <2>1, <2>2
<1>13. StackInv' /\ stack' # <<>> /\ Top' = f
  BY <1>5, <1>6, <1>10 DEF Pushed, StackInv, Top
<1>14. TopInv'
  BY <1>3, <1>13 DEF TopInv, Established
<1> QED
  BY <1>6, <1>12, <1>13, <1>14, StackStep

LEMMA RecoversSteps ==
  ASSUME IInv, DeviceRecovers \/ IoRecovers \/ StatusRecovers
  PROVE  IInv'
<1>1. CASE DeviceRecovers
  BY <1>1, RecoveryCall DEF DeviceRecovers, At, Idle, RecoveryPcs
<1>2. CASE IoRecovers
  <2>1. /\ stack # <<>> /\ Top.pc = "chunk" /\ Top.left > 0 /\ Fault
        /\ slot' = [slot EXCEPT ![Top.host].recovery = @ + 1]
        /\ UNCHANGED <<hardware, driver, db>>
    BY <1>2 DEF IoRecovers, At, Idle
  <2>4. slot[Top.host].recovery < RecoveryThreshold
    BY <1>2 DEF IoRecovers
  <2>2. CASE Goto("ioStatus")
    BY <2>1, <2>2, <2>4, LineResetStep
  <2>3. CASE SuspendAndCall(SoftReset(Top.host, Top.tpl), [Top EXCEPT !.pc = "ioStatus"])
    BY <2>1, <2>3, <2>4, RecoveryCall DEF RecoveryPcs
  <2> QED
    BY <1>2, <2>2, <2>3 DEF IoRecovers
<1>3. CASE StatusRecovers
  BY <1>3, RecoveryCall DEF StatusRecovers, At, Idle, RecoveryPcs
<1> QED
  BY <1>1, <1>2, <1>3

(* The SoftReset has returned; the waiting activation runs on as g.        *)
LEMMA RecoveryReturn ==
  ASSUME IInv, stack # <<>>, Top.pc \in RecoveryPcs, NEW g \in Frame,
         g.tpl = "CALLBACK", g.host = Top.host, g.proc = Top.proc,
         g.pc \in {"chunk", "commands", "exitRpmbIo"},
         slot' = [slot EXCEPT ![Top.host].recovery = @ - 1],
         stack' = [stack EXCEPT ![Len(stack)] = g],
         UNCHANGED <<hardware, driver, db, faults>>
  PROVE  IInv'
<1> DEFINE n == slot[Top.host].recovery - 1
<1>1. HardwareOK' /\ UNCHANGED <<bound, pool, db>> /\ g.pc \notin RecoveryPcs
  BY FaultTyped DEF driver, NoFault, RecoveryPcs
<1>2. /\ StackInv' /\ stack' # <<>> /\ Top' = g
      /\ \A h \in Hosts :
           Cardinality(RecoveringIn(stack', h)) =
             IF h = Top.host THEN Cardinality(RecoveringIn(stack, h)) - 1
                             ELSE Cardinality(RecoveringIn(stack, h))
      /\ Cardinality(RecoveringIn(stack, Top.host)) \in Nat \ {0}
  BY <1>1, RecoveredStep
<1>3. Top.host \in Hosts
  BY Running
<1>4. /\ n \in Nat /\ n <= RecoveryThreshold
      /\ n = Cardinality(RecoveringIn(stack', Top.host))
  <2>1. /\ slot[Top.host].recovery = Cardinality(RecoveringIn(stack, Top.host))
        /\ slot[Top.host].recovery <= RecoveryThreshold
    BY <1>3 DEF IInv, CountInv
  <2>2. Cardinality(RecoveringIn(stack', Top.host))
          = Cardinality(RecoveringIn(stack, Top.host)) - 1
    BY <1>2, <1>3
  <2>3. \A k \in Nat \ {0} : /\ k - 1 \in Nat
                            /\ k <= RecoveryThreshold => k - 1 <= RecoveryThreshold
    BY SlotAssumption
  <2> QED
    BY <1>2, <2>1, <2>2, <2>3
<1>5. slot' = [slot EXCEPT ![Top.host].recovery = n]
  OBVIOUS
<1> HIDE DEF n
<1>6. TopInv'
  BY <1>2 DEF TopInv, Established
<1> QED
  BY <1>1, <1>2, <1>4, <1>5, <1>6, CountStep

LEMMA DeviceRecoveredStep ==
  ASSUME IInv, DeviceRecovered
  PROVE  IInv'
<1>1. /\ stack # <<>> /\ Top.pc = "recovered"
      /\ slot' = [slot EXCEPT ![Top.host].recovery = @ - 1]
      /\ UNCHANGED <<hardware, driver, db, faults>>
  BY DEF DeviceRecovered, At, Idle
<1>2. PICK pc \in {"commands", "exitRpmbIo"} : Goto(pc)
  BY DEF DeviceRecovered
<1> DEFINE g == [Top EXCEPT !.pc = pc]
<1>3. /\ g \in Frame /\ g.tpl = "CALLBACK" /\ g.host = Top.host /\ g.proc = Top.proc
      /\ g.pc = pc
  BY <1>1, Running DEF Frame, Pcs, ResetPcs
<1>4. stack' = [stack EXCEPT ![Len(stack)] = g]
  BY <1>2 DEF Goto, Top
<1> HIDE DEF g
<1> QED
  BY <1>1, <1>3, <1>4, RecoveryReturn DEF RecoveryPcs

LEMMA IoRecoveredStep ==
  ASSUME IInv, IoRecovered
  PROVE  IInv'
<1>1. /\ stack # <<>> /\ Top.pc \in {"ioStatus", "ioRecovered"}
      /\ slot' = [slot EXCEPT ![Top.host].recovery = @ - 1]
      /\ UNCHANGED <<hardware, driver, db, faults>>
  BY DEF IoRecovered, At, Idle
<1>2. PICK skipped \in {0, 1} :
        stack' = [stack EXCEPT ![Len(stack)].pc = "chunk",
                               ![Len(stack)].left = @ - skipped]
  BY DEF IoRecovered
<1> DEFINE g == [Top EXCEPT !.pc = "chunk", !.left = @ - skipped]
<1>3. /\ Top \in Frame /\ Top.tpl = "CALLBACK" /\ Top.left > 0
  BY <1>1, Running
<1>4. /\ g \in Frame /\ g.tpl = "CALLBACK" /\ g.host = Top.host /\ g.proc = Top.proc
      /\ g.pc = "chunk"
  <2>1. Top.left - skipped \in 0 .. MaxChunks
    BY <1>3, SlotAssumption DEF Frame
  <2>2. "chunk" \in Pcs
    BY DEF Pcs
  <2> QED
    BY <1>3, <2>1, <2>2 DEF Frame
<1>5. stack' = [stack EXCEPT ![Len(stack)] = g]
  <2>1. stack \in Seq(Frame) /\ Len(stack) \in 1 .. Len(stack)
    BY <1>1, LenProperties, EmptySeq DEF IInv, TypeOK
  <2> QED
    BY <1>2, <2>1 DEF Top
<1> HIDE DEF g
<1> QED
  BY <1>1, <1>4, <1>5, RecoveryReturn DEF RecoveryPcs

(* A nested recovery ends and returns to the recovery it was part of.      *)
LEMMA StatusRecoveredStep ==
  ASSUME IInv, StatusRecovered
  PROVE  IInv'
<1> DEFINE n == slot[Top.host].recovery - 1
<1>1. /\ stack # <<>> /\ Top.pc = "statusRecovered" /\ Return
      /\ slot' = [slot EXCEPT ![Top.host].recovery = n]
      /\ UNCHANGED <<hardware, driver, db, faults>>
  BY DEF StatusRecovered, At, Idle
<1>2. HardwareOK' /\ UNCHANGED <<bound, pool, db>> /\ Top.host \in Hosts
  BY <1>1, FaultTyped, Running DEF driver, NoFault
<1>3. stack \in Stacks(bound) /\ bound \in SUBSET Hosts
  BY DEF IInv, StackInv, TypeOK
<1>4. /\ stack' \in Stacks(bound)
      /\ stack' # <<>> => stack'[Len(stack')].pc \in WaitingPcs
      /\ \A h \in Hosts : RecoveringIn(stack', h) = RecoveringIn(stack, h) \ {Len(stack)}
  BY <1>1, <1>3, PopFrame DEF Return
<1>5. ASSUME NEW h \in Hosts
      PROVE  Cardinality(RecoveringIn(stack', h)) =
               IF h = Top.host THEN Cardinality(RecoveringIn(stack, h)) - 1
                               ELSE Cardinality(RecoveringIn(stack, h))
  <2>1. /\ IsFiniteSet(RecoveringIn(stack, h))
        /\ Len(stack) \in RecoveringIn(stack, h) <=> h = Top.host
    BY <1>1, <1>3, RecoveringFrames DEF Top, RecoveryPcs
  <2>2. Cardinality(RecoveringIn(stack, h) \ {Len(stack)}) =
          IF h = Top.host THEN Cardinality(RecoveringIn(stack, h)) - 1
                          ELSE Cardinality(RecoveringIn(stack, h))
    BY <2>1, FS_RemoveElement
  <2> QED
    BY <1>4, <2>2
<1>6. n = Cardinality(RecoveringIn(stack', Top.host))
  BY <1>2, <1>5 DEF IInv, CountInv
<1>7. StackInv' /\ bound' \in SUBSET Hosts
  BY <1>2, <1>3, <1>4 DEF StackInv
<1>8. n \in Nat /\ n <= RecoveryThreshold
  <2>1. n \in Nat
    BY <1>2, <1>6, <1>7, RecoveringFrames DEF StackInv
  <2>2. slot[Top.host].recovery \in Nat /\ slot[Top.host].recovery <= RecoveryThreshold
    BY <1>2 DEF IInv, CountInv, TypeOK, Slot
  <2> QED
    BY <2>1, <2>2, SlotAssumption
<1>9. TopInv'
  BY <1>4 DEF TopInv, Top, Established, WaitingPcs, RecoveryPcs
<1> HIDE DEF n
<1> QED
  BY <1>1, <1>2, <1>5, <1>6, <1>7, <1>8, <1>9, CountStep

(* DestroyInstance runs in SdMmcDriverStop, which is alone on the stack:   *)
(* no recovery is in progress when the count of its instance vanishes.     *)
LEMMA DestroyInstanceStep ==
  ASSUME IInv, DestroyInstance
  PROVE  IInv'
<1> DEFINE h == Top.host
<1>1. /\ stack # <<>> /\ Top.pc = "destroy" /\ UNCHANGED <<bound, pool, db>>
      /\ Return /\ slot' = [slot EXCEPT ![h] = NewSlot]
      /\ HardwareOK'
  BY FaultTyped DEF DestroyInstance, At, Idle, driver, NoFault
<1>2. /\ db[h] = {} /\ Top.proc = "Stop" /\ Len(stack) = 1 /\ h \in Hosts
      /\ db[h] \in SUBSET Protocols
  BY <1>1, Running DEF Established
<1>3. RecoveringIn(stack, h) = {}
  BY <1>1, <1>2 DEF RecoveringIn, RecoveryPcs, Top
<1>4. NewSlot \in Slot /\ Agree(h, NewSlot, db[h])
  <2>1. NewSlot \in Slot /\ NewSlot.installed = {} /\ NewSlot.recovery = 0
    BY DEF NewSlot, Slot
  <2> QED
    BY <1>2, <1>3, <2>1, FS_EmptySet, SlotAssumption DEF Agree
<1>5. Updates(NewSlot, db[h])
  BY <1>1 DEF Updates, IInv, TypeOK
<1> QED
  BY <1>1, <1>2, <1>4, <1>5, ReturnHostStep DEF RecoveryPcs

(* A step of a caller while no activation runs: controllers and instances  *)
(* may be added or removed, and a slot with nothing published made new.    *)
LEMMA EnterStep ==
  ASSUME IInv, stack = <<>>, bound \subseteq bound', bound' \subseteq Hosts,
         pool' \in Seq(Hosts), \A i \in 1 .. Len(pool') : pool'[i] \in bound',
         UNCHANGED db, HardwareOK', slot' \in [Hosts -> Slot],
         \A g \in Hosts : slot'[g] = slot[g] \/ (slot'[g] = NewSlot /\ db[g] = {}),
         StackInv', TopInv',
         \A g \in Hosts : RecoveringIn(stack', g) = RecoveringIn(stack, g)
  PROVE  IInv'
<1>1. \A g \in Hosts : RecoveringIn(stack, g) = {}
  BY DEF RecoveringIn
<1>2. TypeOK'
  BY DEF IInv, TypeOK, HardwareOK, StackInv, Stacks
<1>0. NewSlot.recovery = 0 /\ NewSlot.installed = {}
  BY DEF NewSlot
<1>3. ASSUME NEW g \in Hosts
      PROVE  /\ slot'[g].recovery = Cardinality(RecoveringIn(stack', g))
             /\ slot'[g].recovery <= RecoveryThreshold
  <2>1. slot[g].recovery = 0 /\ Cardinality(RecoveringIn(stack', g)) = 0
    BY <1>1, FS_EmptySet DEF IInv, CountInv
  <2> QED
    BY <1>0, <2>1, SlotAssumption
<1>4. BoundInv'
  BY DEF IInv, BoundInv
<1>5. ASSUME NEW g \in Hosts
      PROVE  /\ slot'[g].installed = db'[g]
             /\ db'[g] \cap {"DevicePath", "RpmbIo"} # {} => slot'[g].initialized
  BY <1>0 DEF IInv, PublishedIsInitialized
<1> QED
  BY <1>2, <1>3, <1>4, <1>5 DEF IInv, CountInv, PublishedIsInitialized, AtMostOneRpmb

(* A caller that enters the driver with activation f.                      *)
LEMMA EnterCall ==
  ASSUME IInv, stack = <<>>, bound \subseteq bound', bound' \subseteq Hosts,
         pool' \in Seq(Hosts), \A i \in 1 .. Len(pool') : pool'[i] \in bound',
         UNCHANGED db, HardwareOK', slot' \in [Hosts -> Slot],
         \A g \in Hosts : slot'[g] = slot[g] \/ (slot'[g] = NewSlot /\ db[g] = {}),
         NEW f \in Frame, f.tpl = "CALLBACK", f.host \in bound',
         f.pc \in {"unBlockIo", "scan", "chunk"}, f.proc = "Stop" => f.pc \in StopPcs,
         Call(f)
  PROVE  IInv'
<1>1. f.pc \notin RecoveryPcs
  BY DEF RecoveryPcs
<1>2. /\ StackInv' /\ stack' # <<>> /\ Top' = f
      /\ \A h \in Hosts : RecoveringIn(stack', h) = RecoveringIn(stack, h)
  BY <1>1, CallStep
<1>3. TopInv'
  BY <1>2 DEF TopInv, Established
<1> QED
  BY <1>2, <1>3, EnterStep

(* The same, with the driver's state unchanged.                            *)
LEMMA PlainCall ==
  ASSUME IInv, stack = <<>>, UNCHANGED <<hardware, driver, slot, db, faults>>,
         NEW f \in Frame, f.tpl = "CALLBACK", f.host \in bound,
         f.pc \in {"unBlockIo", "scan", "chunk"}, f.proc # "Stop", Call(f)
  PROVE  IInv'
<1>1. /\ HardwareOK' /\ UNCHANGED <<bound, pool, slot, db>>
      /\ bound \subseteq Hosts /\ pool \in Seq(Hosts) /\ slot \in [Hosts -> Slot]
      /\ \A i \in 1 .. Len(pool) : pool[i] \in bound
  BY FaultTyped DEF driver, NoFault, IInv, TypeOK, BoundInv
<1> QED
  BY <1>1, EnterCall

(* The timer finds no activation: each runs at TPL_CALLBACK.               *)
LEMMA TimerTickStep ==
  ASSUME IInv, TimerTick
  PROVE  IInv'
<1> DEFINE f == NewFrame("Check", "scan", pool[1], "CALLBACK")
<1>1. stack = <<>>
  <2>1. SUFFICES ASSUME stack # <<>> PROVE FALSE
    OBVIOUS
  <2>2. Top.tpl = "CALLBACK"
    BY <2>1, Running
  <2>3. Len(stack) \in 1 .. Len(stack)
    BY <2>1, LenProperties, EmptySeq DEF IInv, TypeOK
  <2> QED
    BY <2>2, <2>3 DEF TimerTick, Top
<1>2. pool[1] \in bound /\ pool[1] \in Hosts
  <2>1. 1 \in 1 .. Len(pool)
    BY LenProperties, EmptySeq DEF IInv, TypeOK, TimerTick
  <2> QED
    BY <2>1 DEF IInv, BoundInv, TypeOK
<1>3. /\ f \in Frame /\ f.tpl = "CALLBACK" /\ f.host \in bound /\ f.pc = "scan"
      /\ f.proc # "Stop"
  BY <1>2, NewFrames DEF NewFrame
<1>4. Call(f) /\ UNCHANGED <<hardware, driver, slot, db, faults>>
  BY DEF TimerTick
<1> HIDE DEF f
<1> QED
  BY <1>1, <1>3, <1>4, PlainCall

LEMMA DriverStartStep ==
  ASSUME IInv, NEW h \in Hosts, DriverStart(h, "CALLBACK")
  PROVE  IInv'
<1> DEFINE f == NewFrame("Check", "scan", h, "CALLBACK")
<1>1. /\ stack = <<>> /\ h \notin bound /\ bound' = bound \cup {h}
      /\ UNCHANGED <<hardware, db>> /\ (NoFault \/ Fault)
  BY DEF DriverStart, Idle
<1>2. HardwareOK'
  BY <1>1, FaultTyped
<1>3. /\ bound \subseteq Hosts /\ pool \in Seq(Hosts) /\ slot \in [Hosts -> Slot]
      /\ \A i \in 1 .. Len(pool) : pool[i] \in bound
      /\ db[h] = {}
  BY <1>1 DEF IInv, TypeOK, BoundInv
<1>4. bound \subseteq bound' /\ bound' \subseteq Hosts
  BY <1>1, <1>3
<1>5. CASE pool' = Append(pool, h) /\ slot' = [slot EXCEPT ![h] = NewSlot] /\ Call(f)
  <2>1. NewSlot \in Slot
    BY DEF NewSlot, Slot
  <2>2. /\ slot' \in [Hosts -> Slot]
        /\ \A g \in Hosts : slot'[g] = slot[g] \/ (slot'[g] = NewSlot /\ db[g] = {})
    BY <1>3, <1>5, <2>1
  <2>3. /\ pool' \in Seq(Hosts)
        /\ \A i \in 1 .. Len(pool') : pool'[i] \in bound'
    <3>1. /\ pool' \in Seq(Hosts) /\ Len(pool') = Len(pool) + 1 /\ Len(pool) \in Nat
          /\ \A i \in 1 .. Len(pool) : pool'[i] = pool[i]
          /\ pool'[Len(pool) + 1] = h
      BY <1>3, <1>5, AppendProperties, LenProperties
    <3>2. \A i \in 1 .. Len(pool') : i \in 1 .. Len(pool) \/ i = Len(pool) + 1
      BY <3>1
    <3> QED
      BY <1>1, <1>3, <3>1, <3>2
  <2>4. /\ f \in Frame /\ f.tpl = "CALLBACK" /\ f.host \in bound' /\ f.pc = "scan"
        /\ f.proc # "Stop"
    BY <1>1, NewFrames DEF NewFrame
  <2> HIDE DEF f
  <2> QED
    BY <1>1, <1>2, <1>4, <1>5, <2>2, <2>3, <2>4, EnterCall
<1>6. CASE UNCHANGED <<pool, slot, stack>>
  <2>1. StackInv' /\ TopInv'
    BY <1>1, <1>6, EmptySeq DEF StackInv, Stacks, TopInv
  <2>2. \A g \in Hosts : RecoveringIn(stack', g) = RecoveringIn(stack, g)
    BY <1>6
  <2> QED
    BY <1>1, <1>2, <1>3, <1>4, <1>6, <2>1, <2>2, EnterStep
<1> QED
  BY <1>5, <1>6 DEF DriverStart

LEMMA DriverStopStep ==
  ASSUME IInv, DriverStop("CALLBACK")
  PROVE  IInv'
<1> DEFINE f == NewFrame("Stop", "unBlockIo", Head(pool), "CALLBACK")
<1>1. /\ stack = <<>> /\ pool # <<>> /\ pool' = Tail(pool) /\ Call(f)
      /\ UNCHANGED <<hardware, bound, slot, db, faults>>
  BY DEF DriverStop, Idle
<1>2. HardwareOK'
  BY <1>1, FaultTyped DEF NoFault
<1>3. /\ bound \subseteq Hosts /\ pool \in Seq(Hosts) /\ slot \in [Hosts -> Slot]
      /\ \A i \in 1 .. Len(pool) : pool[i] \in bound
  BY DEF IInv, TypeOK, BoundInv
<1>4. /\ Head(pool) \in bound
      /\ pool' \in Seq(Hosts)
      /\ \A i \in 1 .. Len(pool') : pool'[i] \in bound
  <2>1. /\ Tail(pool) \in Seq(Hosts) /\ Len(Tail(pool)) = Len(pool) - 1
        /\ \A i \in 1 .. Len(Tail(pool)) : Tail(pool)[i] = pool[i + 1]
        /\ Head(pool) = pool[1] /\ Len(pool) \in Nat \ {0}
    BY <1>1, <1>3, HeadTailProperties, LenProperties, EmptySeq
  <2>2. \A i \in 1 .. Len(Tail(pool)) : i + 1 \in 1 .. Len(pool)
    BY <2>1
  <2> QED
    BY <1>1, <1>3, <2>1, <2>2
<1>5. /\ f \in Frame /\ f.tpl = "CALLBACK" /\ f.host \in bound /\ f.pc = "unBlockIo"
      /\ "unBlockIo" \in StopPcs
  BY <1>3, <1>4, NewFrames DEF NewFrame, StopPcs, UninstallPcs
<1> HIDE DEF f
<1> QED
  BY <1>1, <1>2, <1>3, <1>4, <1>5, EnterCall

LEMMA BlockIoResetStep ==
  ASSUME IInv, NEW h \in Hosts, BlockIoReset(h, "CALLBACK")
  PROVE  IInv'
<1> DEFINE f == SoftReset(h, "CALLBACK")
<1>1. /\ stack = <<>> /\ h \in bound /\ Call(f)
      /\ UNCHANGED <<hardware, driver, slot, db, faults>>
  BY DEF BlockIoReset, Idle, IInv, BoundInv
<1>2. f \in Frame /\ f.tpl = "CALLBACK" /\ f.host = h /\ f.pc = "unBlockIo" /\ f.proc # "Stop"
  BY NewFrames
<1> HIDE DEF f
<1> QED
  BY <1>1, <1>2, PlainCall

LEMMA IoBlocksStep ==
  ASSUME IInv, NEW h \in Hosts, NEW n \in 1 .. MaxChunks, IoBlocks(h, "CALLBACK", n)
  PROVE  IInv'
<1> DEFINE f == [NewFrame("Io", "chunk", h, "CALLBACK") EXCEPT
                   !.media = slot[h].mediaId, !.left = n]
<1>1. /\ stack = <<>> /\ h \in bound /\ Call(f)
      /\ UNCHANGED <<hardware, driver, slot, db, faults>>
  BY DEF IoBlocks, Idle, IInv, BoundInv
<1>2. /\ f \in Frame /\ f.tpl = "CALLBACK" /\ f.host = h /\ f.pc = "chunk"
      /\ f.proc # "Stop"
  <2>1. slot[h].mediaId \in Cards \cup {NoCard} /\ n \in 0 .. MaxChunks
    BY SlotAssumption DEF IInv, TypeOK, Slot
  <2> DEFINE a == NewFrame("Io", "chunk", h, "CALLBACK")
  <2>2. a \in Frame /\ a.proc = "Io" /\ a.pc = "chunk" /\ a.tpl = "CALLBACK" /\ a.host = h
    BY SlotAssumption DEF NewFrame, Frame, Pcs, Tpls
  <2>3. f = [a EXCEPT !.media = slot[h].mediaId, !.left = n]
    OBVIOUS
  <2> HIDE DEF a, f
  <2> QED
    BY <2>1, <2>2, <2>3 DEF Frame
<1> HIDE DEF f
<1> QED
  BY <1>1, <1>2, PlainCall

LEMMA RpmbRequestStep ==
  ASSUME IInv, NEW h \in Hosts, NEW n \in 1 .. MaxChunks, RpmbRequest(h, "CALLBACK", n)
  PROVE  IInv'
<1> DEFINE f == [NewFrame("Rpmb", "chunk", h, "CALLBACK") EXCEPT !.left = n]
<1>1. /\ stack = <<>> /\ h \in bound /\ Call(f)
      /\ UNCHANGED <<hardware, driver, slot, db, faults>>
  BY DEF RpmbRequest, Idle, IInv, BoundInv
<1>2. /\ f \in Frame /\ f.tpl = "CALLBACK" /\ f.host = h /\ f.pc = "chunk"
      /\ f.proc # "Stop"
  BY SlotAssumption DEF NewFrame, Frame, Pcs, Tpls
<1> HIDE DEF f
<1> QED
  BY <1>1, <1>2, PlainCall

LEMMA CallersStep ==
  ASSUME IInv, "APPLICATION" \notin CallerTpls, Callers
  PROVE  IInv'
<1>1. PICK h \in Hosts, tpl \in CallerTpls :
        \/ DriverStart(h, tpl) \/ DriverStop(tpl) \/ BlockIoReset(h, tpl)
        \/ \E n \in 1 .. MaxChunks : IoBlocks(h, tpl, n) \/ RpmbRequest(h, tpl, n)
  BY DEF Callers
<1>2. tpl = "CALLBACK"
  BY SlotAssumption DEF Tpls
<1> QED
  BY <1>1, <1>2, DriverStartStep, DriverStopStep, BlockIoResetStep, IoBlocksStep,
     RpmbRequestStep

-----------------------------------------------------------------------------
(* The theorems.                                                           *)

LEMMA InitIInv == Init => IInv
<1> SUFFICES ASSUME Init PROVE IInv
  OBVIOUS
<1>1. NewSlot \in Slot
  BY DEF NewSlot, Slot
<1>2. TypeOK
  BY <1>1, SlotAssumption, EmptySeq DEF Init, TypeOK
<1>3. StackInv /\ TopInv
  BY EmptySeq DEF Init, StackInv, TopInv, Stacks
<1>4. CountInv
  <2>1. \A h \in Hosts : RecoveringIn(stack, h) = {}
    BY DEF Init, RecoveringIn
  <2>2. \A h \in Hosts : slot[h].recovery = 0
    BY DEF Init, NewSlot
  <2> QED
    BY <2>1, <2>2, FS_EmptySet, SlotAssumption DEF CountInv
<1> QED
  BY <1>2, <1>3, <1>4
     DEF IInv, Init, BoundInv, PublishedIsInitialized, AtMostOneRpmb, NewSlot

LEMMA NextIInv ==
  ASSUME "APPLICATION" \notin CallerTpls, IInv, [Next]_vars
  PROVE  IInv'
<1>1. CASE UNCHANGED vars
  BY <1>1 DEF vars, IInv, TypeOK, StackInv, CountInv, BoundInv, TopInv, Top,
     Established, PublishedIsInitialized, AtMostOneRpmb
<1>2. CASE Next
  <2>1. CASE Step
    BY <2>1, CheckNextStep, ReturnSteps, UninstallAllProtocolsStep, DestroyInstanceStep,
       ClearMediaStep, SenseMediaStep, InstallSteps, InitializeDeviceStep,
       DeviceInitializedStep, DeviceFailsStep, RecoversSteps, DeviceRecoveredStep,
       AskRpmbStep, ResetExitStep, ChunkStep, IoRecoveredStep, IoStatusStep,
       StatusRecoveredStep
       DEF Step
  <2> QED
    BY <1>2, <2>1, EnvironmentStep, CallersStep, TimerTickStep DEF Next
<1> QED
  BY <1>1, <1>2

(* The invariant holds whenever no caller runs at TPL_APPLICATION.         *)
THEOREM Invariance == "APPLICATION" \notin CallerTpls => (Spec => []IInv)
<1> SUFFICES ASSUME "APPLICATION" \notin CallerTpls PROVE Spec => []IInv
  OBVIOUS
<1>1. IInv /\ [Next]_vars => IInv'
  BY NextIInv
<1> QED
  BY <1>1, InitIInv, PTL DEF Spec

(* The slots, handles and activations keep their types.                    *)
THEOREM TypeCorrect == "APPLICATION" \notin CallerTpls => (Spec => []TypeOK)
<1>1. IInv => TypeOK
  BY DEF IInv
<1> QED
  BY <1>1, Invariance, PTL

(* Two slots never publish RpmbIo at once: between asking whether it is    *)
(* installed and installing it, SoftReset cannot be preempted by a check   *)
(* that installs it on another handle.                                     *)
THEOREM OneRpmb == "APPLICATION" \notin CallerTpls => (Spec => []AtMostOneRpmb)
<1>1. IInv => AtMostOneRpmb
  BY DEF IInv
<1> QED
  BY <1>1, Invariance, PTL

(* Interfaces that describe a card are only on the handle of an            *)
(* initialised slot, through every error path and nested reset.            *)
THEOREM Published == "APPLICATION" \notin CallerTpls => (Spec => []PublishedIsInitialized)
<1>1. IInv => PublishedIsInitialized
  BY DEF IInv
<1> QED
  BY <1>1, Invariance, PTL

(* The two assertions at the head of InitializeDevice never fail.          *)
THEOREM AssertsHold == "APPLICATION" \notin CallerTpls => (Spec => []InitAsserts)
<1>1. IInv => InitAsserts
  BY DEF IInv, TopInv, Established, InitAsserts, At, Idle
<1> QED
  BY <1>1, Invariance, PTL

(* Every activation but the first and the last is a recovery in progress,  *)
(* and all of them are on one host.                                        *)
LEMMA StackBound ==
  ASSUME IInv
  PROVE  Len(stack) <= RecoveryThreshold + 2
<1>1. stack \in Stacks(bound) /\ bound \in SUBSET Hosts /\ Len(stack) \in Nat
  BY LenProperties DEF IInv, StackInv, TypeOK
<1>2. CASE Len(stack) <= 2
  BY <1>1, <1>2, SlotAssumption
<1>3. CASE Len(stack) > 2
  <2> DEFINE middle == 2 .. Len(stack) - 1
  <2>1. stack # <<>> /\ Len(stack) \in 1 .. Len(stack)
    BY <1>1, <1>3, EmptySeq
  <2>2. Top.host \in Hosts
    BY <2>1, Running
  <2>3. ASSUME NEW i \in middle
        PROVE  i \in RecoveringIn(stack, Top.host)
    <3>1. i \in 1 .. Len(stack) /\ i < Len(stack) /\ i # 1
      BY <1>1
    <3>2. stack[i].pc \in RecoveryPcs
      BY <1>1, <3>1 DEF Stacks, WaitingPcs
    <3>3. stack[i].host = Top.host
      BY <1>1, <2>1, <3>1, <3>2 DEF Stacks, Top
    <3> QED
      BY <3>1, <3>2, <3>3 DEF RecoveringIn
  <2>4. /\ IsFiniteSet(RecoveringIn(stack, Top.host))
        /\ Cardinality(RecoveringIn(stack, Top.host)) <= RecoveryThreshold
        /\ Cardinality(RecoveringIn(stack, Top.host)) \in Nat
    BY <1>1, <2>2, RecoveringFrames DEF IInv, CountInv
  <2>5. middle \in SUBSET RecoveringIn(stack, Top.host)
    BY <2>3
  <2>6. Cardinality(middle) <= Cardinality(RecoveringIn(stack, Top.host))
    BY <2>4, <2>5, FS_Subset
  <2>7. Cardinality(middle) = Len(stack) - 2
    <3>1. Cardinality(middle) = IF 2 > Len(stack) - 1 THEN 0 ELSE (Len(stack) - 1) - 2 + 1
      BY <1>1, FS_Interval
    <3> QED
      BY <1>1, <1>3, <3>1
  <2> HIDE DEF middle
  <2> QED
    BY <1>1, <2>4, <2>6, <2>7, SlotAssumption
<1> QED
  BY <1>1, <1>2, <1>3

(* ErrorRecoveryAttemptCount is the number of recoveries in progress, and  *)
(* it bounds the recursion through SoftReset.                              *)
THEOREM RecoveriesCounted == "APPLICATION" \notin CallerTpls => (Spec => []RecoveryCounted)
<1>1. IInv => RecoveryCounted
  BY StackBound DEF IInv, CountInv, RecoveringIn, Recovering, RecoveryCounted
<1> QED
  BY <1>1, Invariance, PTL

(* A step that keeps every slot initialised, or forgets only devices with  *)
(* nothing published.                                                      *)
Forgets == \A h \in Hosts : slot[h].initialized /\ ~slot'[h].initialized => db[h] = {}

LEMMA NextForgets ==
  ASSUME IInv, [Next]_vars
  PROVE  Forgets
<1>1. slot \in [Hosts -> Slot]
  BY DEF IInv, TypeOK
<1>2. CASE UNCHANGED slot
  BY <1>2 DEF Forgets
<1>3. CASE Callers
  <2>1. PICK h \in Hosts, tpl \in CallerTpls :
          DriverStart(h, tpl) \/ UNCHANGED slot
    BY <1>3 DEF Callers, DriverStop, BlockIoReset, IoBlocks, RpmbRequest
  <2>2. DriverStart(h, tpl) => db[h] = {}
    BY DEF DriverStart, IInv, BoundInv
  <2> QED
    BY <1>1, <1>2, <2>1, <2>2 DEF DriverStart, Forgets
<1>4. CASE Step /\ ~UNCHANGED slot
  <2>1. stack # <<>>
    BY <1>4 DEF Step, CheckNext, CheckReturn, UninstallAllProtocols, Uninstall,
       DestroyInstance, ClearMedia, SenseMedia, InstallAbsent, InitializeDevice,
       DeviceInitialized, DeviceFails, DeviceRecovers, DeviceRecovered, InstallBlockIo,
       InstallDevicePath, AskRpmb, InstallRpmb, ResetExit, ResetReturn, Withdraw,
       IoTransfer, IoGivesUp, IoRecovers, IoRecovered, IoReturn, IoStatus, StatusReturn,
       StatusRecovers, StatusRecovered, At, Idle
  <2>2. Top.host \in Hosts /\ Established(Top)
    BY <2>1, Running
  <2>3. CASE ClearMedia \/ DestroyInstance
    <3>1. db[Top.host] = {}
      BY <2>2, <2>3 DEF ClearMedia, DestroyInstance, At, Established
    <3>2. \A h \in Hosts \ {Top.host} : slot'[h] = slot[h]
      BY <1>1, <2>3 DEF ClearMedia, DestroyInstance
    <3> QED
      BY <3>1, <3>2 DEF Forgets
  <2>4. CASE SenseMedia \/ InitializeDevice
    BY <1>1, <2>2, <2>4 DEF SenseMedia, InitializeDevice, Forgets, Slot
  <2>5. CASE DeviceInitialized
    BY <1>1, <2>2, <2>5 DEF DeviceInitialized, Forgets, Slot
  <2>6. CASE \/ DeviceRecovers \/ DeviceRecovered \/ IoRecovers \/ IoRecovered
             \/ StatusRecovers \/ StatusRecovered
    BY <1>1, <2>2, <2>6
       DEF DeviceRecovers, DeviceRecovered, IoRecovers, IoRecovered, StatusRecovers,
           StatusRecovered, Forgets, Slot
  <2>7. CASE \E p \in Protocols : Remove(Top.host, p)
    BY <1>1, <2>2, <2>7 DEF Remove, Forgets, Slot
  <2>8. CASE \E p \in Protocols : slot' = [slot EXCEPT ![Top.host].installed = @ \cup {p}]
    BY <1>1, <2>2, <2>8 DEF Forgets, Slot
  <2>9. (ResetExit \/ UninstallAllProtocols) => \E p \in Protocols : Remove(Top.host, p)
    BY <1>4 DEF ResetExit, ResetReturn, Withdraw, UninstallAllProtocols, Uninstall, Protocols
  <2>10. (InstallAbsent \/ InstallBlockIo \/ InstallDevicePath \/ InstallRpmb)
           => \E p \in Protocols : slot' = [slot EXCEPT ![Top.host].installed = @ \cup {p}]
    BY <1>4 DEF InstallAbsent, InstallBlockIo, InstallDevicePath, InstallRpmb, Install, Protocols
  <2> QED
    BY <1>4, <2>3, <2>4, <2>5, <2>6, <2>7, <2>8, <2>9, <2>10
       DEF Step, CheckNext, CheckReturn, DeviceFails, AskRpmb, IoTransfer, IoGivesUp, IoReturn,
           IoStatus, StatusReturn
<1> QED
  BY <1>2, <1>3, <1>4
     DEF Next, Environment, EjectCard, InsertCard, TimerTick, vars

(* SoftReset, SdMmcDriverStop and SdMmcDriverStart forget a device only    *)
(* when nothing is published for it.                                       *)
THEOREM ForgottenUnpublished ==
  "APPLICATION" \notin CallerTpls => (Spec => WithdrawnBeforeForgotten)
<1> SUFFICES ASSUME "APPLICATION" \notin CallerTpls PROVE Spec => WithdrawnBeforeForgotten
  OBVIOUS
<1>1. IInv /\ [Next]_vars => [Forgets]_vars
  BY NextForgets
<1>2. Spec => []IInv
  BY Invariance
<1>3. Spec => [][Forgets]_vars
  BY <1>1, <1>2, PTL DEF Spec
<1> QED
  BY <1>3 DEF WithdrawnBeforeForgotten, Forgets
=============================================================================
