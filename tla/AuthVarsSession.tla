------------------------- MODULE AuthVarsSession -------------------------
(***************************************************************************)
(* The session with the variable application and the buffers its commands  *)
(* name: they are there for every command, on any interleaving and         *)
(* whatever fails, and after a faultless exit nothing is left behind.      *)
(***************************************************************************)
EXTENDS AuthVarsOwnership

-----------------------------------------------------------------------------
(* The calls that may be under way at each stage of the driver.            *)

ReadyStages ==
  {"probe", "setup", "enable", "create", "secure", "custom", "publish", "ready", "signal"}
Opening == {"param", "result"}
ForSession == VariableCmds \cup {"Signal"}
Commands == ForSession \cup TpmCmds \cup {"Open", "Close"}

StageOfCall ==
  \A k \in 1 .. Depth :
    /\ stack[k].req.cmd \in Commands
    /\ stack[k].req.cmd \in ForSession => main \in ReadyStages
    /\ stack[k].req.cmd = "Open" => main = "open"
    /\ stack[k].req.cmd = "Close" => main = "close"

(* What an answered call has done to the session.                          *)
Unsent == {"filled", "world"}
OpenDone ==
  \A k \in 1 .. Depth :
    stack[k].req.cmd = "Open" /\ stack[k].out = "SUCCESS" => "av" \in taOpen
CloseDone ==
  \A k \in 1 .. Depth :
    stack[k].req.cmd = "Close" /\ stack[k].pc \notin Unsent /\ faults = 0 /\ ~starved
      => "av" \notin taOpen
HookAnswered ==
  \A k \in 1 .. Depth : stack[k].by = "hook" => k > 1 /\ stack[k - 1].pc \notin Unsent

(* Only a command for the variable application has a hook.                 *)
Hooking == {"probing", "found", "reading", "measure", "measuring"}
HookServes ==
  \A k \in 1 .. Depth :
    stack[k].pc \in Hooking \/ stack[k].by = "hook" => main \in ReadyStages

CallsInv == StageOfCall /\ OpenDone /\ CloseDone /\ HookAnswered /\ HookServes

(* What each stage has of the session and the buffers.                     *)
StageInv ==
  /\ main \in ReadyStages \cup Opening => opened /\ "av" \in taOpen
  /\ main \in ReadyStages \cup {"result"} => paramMem # 0
  /\ main \in ReadyStages => resultMem # 0
  /\ main \in Releasing /\ faults = 0 /\ ~starved => "av" \notin taOpen
  /\ main \in {"releaseResult", "gone"} /\ faults = 0 => paramMem = 0
  /\ main = "gone" /\ faults = 0 => resultMem = 0
  /\ faults \in Nat

SessionInv == OwnInv /\ CallsInv /\ StageInv

-----------------------------------------------------------------------------
(* The other fields of the calls on the stack.                             *)

(* The call on top is at p with outcome o, the others are where they were. *)
TopBecomes(p, o) ==
  /\ Depth' = Depth /\ Depth \in Nat
  /\ \A k \in 1 .. Depth :
       /\ stack'[k].req = stack[k].req /\ stack'[k].by = stack[k].by
       /\ stack'[k].pc = (IF k = Depth THEN p ELSE stack[k].pc)
       /\ stack'[k].out = (IF k = Depth THEN o ELSE stack[k].out)

LEMMA FieldsMovedOn ==
  ASSUME StackTyped, Depth > 0, NEW p \in Phases, SetTop([Top EXCEPT !.pc = p])
  PROVE  TopBecomes(p, Top.out)
<1> DEFINE t == Top
           f == [t EXCEPT !.pc = p]
<1>1. PICK R, O : stack \in Seq(FramesOver(R, O)) BY DEF StackTyped
<1>2. t \in FramesOver(R, O) BY <1>1 DEF Depth, Top
<1>3. SetTop(f) OBVIOUS
<1> HIDE DEF t
<1>4. /\ f.pc = p /\ f.out = t.out /\ f.by = t.by /\ f.req = t.req
      /\ f \in FramesOver(R, O)
  BY <1>2 DEF FramesOver
<1> HIDE DEF f
<1>5. /\ Depth \in Nat /\ Depth' = Depth
      /\ \A k \in 1 .. Depth : stack'[k] = IF k = Depth THEN f ELSE stack[k]
  BY <1>3, <1>4, TopSet
<1> QED BY <1>4, <1>5 DEF TopBecomes, t, Top

LEMMA FieldsMessage ==
  ASSUME StackTyped, Depth > 0, NEW p \in Phases, NEW m \in Nat,
         SetTop([Top EXCEPT !.pc = p, !.msg = m])
  PROVE  TopBecomes(p, Top.out)
<1> DEFINE t == Top
           f == [t EXCEPT !.pc = p, !.msg = m]
<1>1. PICK R, O : stack \in Seq(FramesOver(R, O)) BY DEF StackTyped
<1>2. t \in FramesOver(R, O) BY <1>1 DEF Depth, Top
<1>3. SetTop(f) OBVIOUS
<1> HIDE DEF t
<1>4. /\ f.pc = p /\ f.out = t.out /\ f.by = t.by /\ f.req = t.req
      /\ f \in FramesOver(R, O)
  BY <1>2 DEF FramesOver
<1> HIDE DEF f
<1>5. /\ Depth \in Nat /\ Depth' = Depth
      /\ \A k \in 1 .. Depth : stack'[k] = IF k = Depth THEN f ELSE stack[k]
  BY <1>3, <1>4, TopSet
<1> QED BY <1>4, <1>5 DEF TopBecomes, t, Top

LEMMA FieldsAnswered ==
  ASSUME StackTyped, Depth > 0, NEW p \in Phases, NEW o,
         SetTop([Top EXCEPT !.pc = p, !.out = o])
  PROVE  TopBecomes(p, o)
<1> DEFINE t == Top
           f == [t EXCEPT !.pc = p, !.out = o]
<1>1. PICK R, O : stack \in Seq(FramesOver(R, O)) BY DEF StackTyped
<1>2. t \in FramesOver(R, O) BY <1>1 DEF Depth, Top
<1>3. t \in FramesOver(R, O \cup {o}) BY <1>2 DEF FramesOver
<1>4. SetTop(f) OBVIOUS
<1> HIDE DEF t
<1>5. /\ f.pc = p /\ f.out = o /\ f.by = t.by /\ f.req = t.req
      /\ f \in FramesOver(R, O \cup {o})
  BY <1>3 DEF FramesOver
<1> HIDE DEF f
<1>6. /\ Depth \in Nat /\ Depth' = Depth
      /\ \A k \in 1 .. Depth : stack'[k] = IF k = Depth THEN f ELSE stack[k]
  BY <1>4, <1>5, TopSet
<1> QED BY <1>5, <1>6 DEF TopBecomes, t, Top

(* A new call above the others, the last of which is at p.                 *)
CallAdded(req, by, p) ==
  /\ Depth' = Depth + 1 /\ Depth \in Nat
  /\ stack'[Depth + 1] = Call(req, by)
  /\ \A k \in 1 .. Depth :
       /\ stack'[k].req = stack[k].req /\ stack'[k].by = stack[k].by
       /\ stack'[k].pc = (IF k = Depth THEN p ELSE stack[k].pc)
       /\ stack'[k].out = stack[k].out

LEMMA FieldsAdded ==
  ASSUME StackTyped, NEW req, NEW by \in Waiting,
         stack' = Append(stack, Call(req, by))
  PROVE  CallAdded(req, by, Top.pc)
<1>1. PICK R, O : stack \in Seq(FramesOver(R, O)) BY DEF StackTyped
<1>2. /\ Depth' = Depth + 1 /\ Depth \in Nat
      /\ stack'[Depth + 1] = Call(req, by)
      /\ \A k \in 1 .. Depth : stack'[k] = stack[k]
  BY <1>1, TopAdded DEF Depth
<1> QED BY <1>2 DEF CallAdded, Top

LEMMA FieldsHooked ==
  ASSUME StackTyped, Depth > 0, NEW req, NEW p \in Phases,
         stack' = Append([stack EXCEPT ![Depth].pc = p], Call(req, "hook"))
  PROVE  CallAdded(req, "hook", p)
<1> DEFINE f == [stack[Depth] EXCEPT !.pc = p]
           s == [stack EXCEPT ![Depth] = f]
<1>1. PICK R, O : stack \in Seq(FramesOver(R, O)) BY DEF StackTyped
<1>2. Depth \in 1 .. Len(stack) /\ Len(stack) = Depth BY <1>1 DEF Depth
<1>3. stack[Depth] \in FramesOver(R, O) BY <1>1, <1>2
<1>4. /\ f \in FramesOver(R, O) /\ f.pc = p /\ f.by = stack[Depth].by
      /\ f.req = stack[Depth].req /\ f.out = stack[Depth].out
  BY <1>3 DEF FramesOver
<1> HIDE DEF f
<1>5. /\ s \in Seq(FramesOver(R, O)) /\ Len(s) = Depth
      /\ \A k \in 1 .. Depth : s[k] = IF k = Depth THEN f ELSE stack[k]
  BY <1>1, <1>2, <1>4, ExceptSeq
<1>6. stack' = Append(s, Call(req, "hook")) BY DEF f
<1> HIDE DEF s
<1>7. /\ Depth' = Len(s) + 1 /\ Len(s) \in Nat
      /\ stack'[Len(s) + 1] = Call(req, "hook")
      /\ \A k \in 1 .. Len(s) : stack'[k] = s[k]
  <2>1. "hook" \in Waiting BY DEF Waiting
  <2>2. s \in Seq(FramesOver(R, O)) BY <1>5
  <2> QED BY <1>6, <2>1, <2>2, TopAdded
<1> QED BY <1>4, <1>5, <1>7 DEF CallAdded

(* The call on top is gone and the one below is at p.                      *)
CallGone(p) ==
  /\ Depth' = Depth - 1 /\ Depth \in Nat
  /\ \A k \in 1 .. (Depth - 1) :
       /\ stack'[k].req = stack[k].req /\ stack'[k].by = stack[k].by
       /\ stack'[k].pc = (IF k = Depth - 1 THEN p ELSE stack[k].pc)
       /\ stack'[k].out = stack[k].out

LEMMA FieldsGone ==
  ASSUME StackTyped, Depth > 0, stack' = Pop
  PROVE  CallGone(stack[Depth - 1].pc)
BY TopGone DEF CallGone

Resumed(p) == [Pop EXCEPT ![Depth - 1].pc = p]

LEMMA FieldsResumed ==
  ASSUME StackTyped, Depth > 1, NEW p \in Phases,
         stack' = Resumed(p)
  PROVE  CallGone(p)
<1> DEFINE d == Depth - 1
           f == [Pop[d] EXCEPT !.pc = p]
<1>1. PICK R, O : stack \in Seq(FramesOver(R, O)) BY DEF StackTyped
<1> DEFINE S == FramesOver(R, O)
<1>2. Depth \in Nat /\ Depth = Len(stack) /\ d \in 1 .. Len(stack) BY <1>1 DEF Depth
<1>3. Pop \in Seq(S) /\ Len(Pop) = d /\ \A k \in 1 .. d : Pop[k] = stack[k]
  <2>1. \A k \in 1 .. d : stack[k] \in S BY <1>1, <1>2
  <2> HIDE DEF S
  <2> QED BY <1>2, <2>1, SubSeqProperties DEF Pop
<1>4. d \in 1 .. d BY <1>2
<1>5. /\ f \in S /\ f.pc = p /\ f.by = stack[d].by
      /\ f.req = stack[d].req /\ f.out = stack[d].out
  <2>1. Pop[d] = stack[d] /\ stack[d] \in S BY <1>1, <1>2, <1>3, <1>4
  <2> QED BY <2>1 DEF FramesOver
<1> HIDE DEF S, f, d
<1>6. stack' = [Pop EXCEPT ![d] = f] BY DEF f, d, Resumed
<1> DEFINE q == Pop
<1>7. q \in Seq(S) /\ d \in 1 .. Len(q) /\ Len(q) = d /\ \A k \in 1 .. d : q[k] = stack[k]
  BY <1>3, <1>4
<1>8. stack' = [q EXCEPT ![d] = f] BY <1>6
<1> HIDE DEF q
<1>9. /\ [q EXCEPT ![d] = f] \in Seq(S) /\ Len([q EXCEPT ![d] = f]) = Len(q)
      /\ \A k \in 1 .. Len(q) : [q EXCEPT ![d] = f][k] = IF k = d THEN f ELSE q[k]
  BY <1>5, <1>7, ExceptSeq
<1>10. /\ Depth' = d
       /\ \A k \in 1 .. d : stack'[k] = IF k = d THEN f ELSE stack[k]
  BY <1>7, <1>8, <1>9 DEF Depth
<1>11. d = Depth - 1 BY DEF d
<1>12. \A k \in 1 .. d :
         /\ stack'[k].req = stack[k].req /\ stack'[k].by = stack[k].by
         /\ stack'[k].pc = (IF k = d THEN p ELSE stack[k].pc)
         /\ stack'[k].out = stack[k].out
  <2> SUFFICES ASSUME NEW k \in 1 .. d
               PROVE  /\ stack'[k].req = stack[k].req /\ stack'[k].by = stack[k].by
                      /\ stack'[k].pc = (IF k = d THEN p ELSE stack[k].pc)
                      /\ stack'[k].out = stack[k].out
    OBVIOUS
  <2>1. CASE k = d
    <3>1. stack'[k] = f BY <1>10, <2>1
    <3> QED BY <1>5, <2>1, <3>1
  <2>2. CASE k # d
    <3>1. stack'[k] = stack[k] BY <1>10, <2>2
    <3> QED BY <2>2, <3>1
  <2> QED BY <2>1, <2>2
<1> QED BY <1>2, <1>10, <1>11, <1>12 DEF CallGone

-----------------------------------------------------------------------------
(* Steps of the calls that neither move the driver on nor touch its        *)
(* session.                                                                *)

Quiet ==
  /\ UNCHANGED <<main, opened, paramMem, resultMem, taOpen>>
  /\ faults' \in Nat /\ (faults' = 0 => faults = 0) /\ (starved => starved')

LEMMA FaultsGrow ==
  ASSUME StageInv
  PROVE  /\ NoFault => faults' \in Nat /\ faults' = faults
         /\ Fault => faults' \in Nat /\ faults' # 0
         /\ UNCHANGED faults => faults' \in Nat /\ faults' = faults
BY DEF StageInv, NoFault, Fault

LEMMA StageKept == StageInv /\ Quiet => StageInv'
BY DEF StageInv, Quiet

(* What holds of each call still holds of it.                              *)
LEMMA CallsContinue ==
  ASSUME CallsInv, Quiet, Depth \in Nat, Depth' \in Nat,
         \A k \in 1 .. Depth' :
           /\ k \in 1 .. Depth
           /\ stack'[k].req = stack[k].req /\ stack'[k].by = stack[k].by
           /\ stack'[k].out = stack[k].out
           /\ stack'[k].pc \in Unsent => stack[k].pc \in Unsent
           /\ stack[k].pc \in Unsent => stack'[k].pc \in Unsent
           /\ stack'[k].pc \in Hooking => stack[k].pc \in Hooking \/ main \in ReadyStages
  PROVE  CallsInv'
<1> USE DEF CallsInv, Quiet
<1>1. StageOfCall' BY DEF StageOfCall
<1>2. OpenDone' BY DEF OpenDone
<1>3. CloseDone' BY DEF CloseDone
<1>4. HookAnswered'
  <2> SUFFICES ASSUME NEW k \in 1 .. Depth', stack'[k].by = "hook"
               PROVE  k > 1 /\ stack'[k - 1].pc \notin Unsent
    BY DEF HookAnswered
  <2>1. k > 1 /\ stack[k - 1].pc \notin Unsent BY DEF HookAnswered
  <2>2. k - 1 \in 1 .. Depth' BY <2>1
  <2> QED BY <2>1, <2>2
<1>5. HookServes' BY DEF HookServes
<1> QED BY <1>1, <1>2, <1>3, <1>4, <1>5

LEMMA TopContinues ==
  ASSUME CallsInv, Quiet, Depth > 0, NEW p, TopBecomes(p, Top.out),
         p \in Unsent => Top.pc \in Unsent, Top.pc \in Unsent => p \in Unsent,
         p \in Hooking => main \in ReadyStages
  PROVE  CallsInv'
<1>1. /\ Depth' = Depth /\ Depth \in Nat
      /\ \A k \in 1 .. Depth :
           /\ stack'[k].req = stack[k].req /\ stack'[k].by = stack[k].by
           /\ stack'[k].pc = (IF k = Depth THEN p ELSE stack[k].pc)
           /\ stack'[k].out = (IF k = Depth THEN Top.out ELSE stack[k].out)
  BY DEF TopBecomes
<1>2. \A k \in 1 .. Depth : stack'[k].out = stack[k].out BY <1>1 DEF Top
<1>3. \A k \in 1 .. Depth :
        /\ stack'[k].pc \in Unsent => stack[k].pc \in Unsent
        /\ stack[k].pc \in Unsent => stack'[k].pc \in Unsent
        /\ stack'[k].pc \in Hooking => stack[k].pc \in Hooking \/ main \in ReadyStages
  BY <1>1 DEF Top
<1> QED BY <1>1, <1>2, <1>3, CallsContinue

LEMMA CallsReturnTo ==
  ASSUME CallsInv, Quiet, Depth > 0, NEW p, CallGone(p),
         \/ p = stack[Depth - 1].pc
         \/ p \notin Unsent /\ Top.by = "hook"
  PROVE  CallsInv'
<1>1. /\ Depth' = Depth - 1 /\ Depth \in Nat
      /\ \A k \in 1 .. (Depth - 1) :
           /\ stack'[k].req = stack[k].req /\ stack'[k].by = stack[k].by
           /\ stack'[k].pc = (IF k = Depth - 1 THEN p ELSE stack[k].pc)
           /\ stack'[k].out = stack[k].out
  BY DEF CallGone
<1>2. p = stack[Depth - 1].pc \/ (p \notin Unsent /\ stack[Depth - 1].pc \notin Unsent)
  <2>1. Depth \in 1 .. Depth BY <1>1
  <2> QED BY <2>1 DEF CallsInv, HookAnswered, Top
<1>3. \A k \in 1 .. (Depth - 1) :
        /\ stack'[k].pc \in Unsent => stack[k].pc \in Unsent
        /\ stack[k].pc \in Unsent => stack'[k].pc \in Unsent
  BY <1>1, <1>2
<1>4. Depth - 1 \in Nat /\ 1 .. (Depth - 1) \subseteq 1 .. Depth BY <1>1
<1>5. p = stack[Depth - 1].pc \/ main \in ReadyStages
  <2>1. Depth \in 1 .. Depth BY <1>1
  <2> QED BY <2>1 DEF CallsInv, HookServes, Top
<1>6. \A k \in 1 .. (Depth - 1) :
        stack'[k].pc \in Hooking => stack[k].pc \in Hooking \/ main \in ReadyStages
  BY <1>1, <1>5
<1> QED BY <1>1, <1>3, <1>4, <1>6, CallsContinue

(* A call the stage allows begins.                                         *)
Allowed(req) ==
  /\ req.cmd \in Commands
  /\ req.cmd \in ForSession => main \in ReadyStages
  /\ req.cmd = "Open" => main = "open"
  /\ req.cmd = "Close" => main = "close"

LEMMA CallsBegin ==
  ASSUME CallsInv, Quiet, NEW req, NEW by \in Waiting, NEW p, CallAdded(req, by, p),
         Allowed(req),
         p \in Unsent => Top.pc \in Unsent, Top.pc \in Unsent => p \in Unsent,
         by = "hook" => Depth > 0 /\ p \notin Unsent /\ main \in ReadyStages,
         p # Top.pc => main \in ReadyStages
  PROVE  CallsInv'
<1> USE DEF CallsInv, Quiet
<1>1. /\ Depth' = Depth + 1 /\ Depth \in Nat
      /\ stack'[Depth + 1] = Call(req, by)
      /\ \A k \in 1 .. Depth :
           /\ stack'[k].req = stack[k].req /\ stack'[k].by = stack[k].by
           /\ stack'[k].pc = (IF k = Depth THEN p ELSE stack[k].pc)
           /\ stack'[k].out = stack[k].out
  BY DEF CallAdded
<1>2. /\ stack'[Depth + 1].req = req /\ stack'[Depth + 1].by = by
      /\ stack'[Depth + 1].pc = "filled" /\ stack'[Depth + 1].out = "NONE"
  BY <1>1 DEF Call
<1>3. \A k \in 1 .. Depth' : k \in 1 .. Depth \/ k = Depth + 1 BY <1>1
<1>4. \A k \in 1 .. Depth :
        /\ stack'[k].pc \in Unsent => stack[k].pc \in Unsent
        /\ stack[k].pc \in Unsent => stack'[k].pc \in Unsent
  BY <1>1 DEF Top
<1>5. StageOfCall' BY <1>1, <1>2, <1>3 DEF StageOfCall, Allowed
<1>6. OpenDone' BY <1>1, <1>2, <1>3 DEF OpenDone
<1>7. CloseDone' BY <1>1, <1>2, <1>3, <1>4 DEF CloseDone, Unsent
<1>8. HookAnswered'
  <2> SUFFICES ASSUME NEW k \in 1 .. Depth', stack'[k].by = "hook"
               PROVE  k > 1 /\ stack'[k - 1].pc \notin Unsent
    BY DEF HookAnswered
  <2>1. CASE k \in 1 .. Depth
    <3>1. k > 1 /\ stack[k - 1].pc \notin Unsent BY <1>1, <2>1 DEF HookAnswered
    <3>2. k - 1 \in 1 .. Depth BY <1>1, <2>1, <3>1
    <3> QED BY <1>4, <3>1, <3>2
  <2>2. CASE k = Depth + 1
    <3>1. Depth > 0 /\ p \notin Unsent BY <1>2, <2>2
    <3>2. k > 1 /\ k - 1 = Depth /\ Depth \in 1 .. Depth BY <1>1, <2>2, <3>1
    <3> QED BY <1>1, <3>1, <3>2
  <2> QED BY <1>3, <2>1, <2>2
<1>9. HookServes'
  <2>1. \A k \in 1 .. Depth :
          stack'[k].pc \in Hooking => stack[k].pc \in Hooking \/ main \in ReadyStages
    BY <1>1 DEF Top
  <2> QED BY <1>1, <1>2, <1>3, <2>1 DEF HookServes, Hooking
<1> QED BY <1>5, <1>6, <1>7, <1>8, <1>9

(* No call is left.                                                        *)
LEMMA NoCalls == stack' = <<>> => CallsInv'
<1> SUFFICES ASSUME stack' = <<>> PROVE CallsInv'
  OBVIOUS
<1>1. Depth' = 0 BY DEF Depth
<1> QED BY <1>1 DEF CallsInv, StageOfCall, OpenDone, CloseDone, HookAnswered, HookServes

-----------------------------------------------------------------------------
(* The steps.                                                              *)

LEMMA StackIsTyped == ASSUME SessionInv PROVE StackTyped /\ Depth \in Nat
<1>1. StackTyped BY DEF SessionInv, OwnInv, StackInv
<1>2. PICK R, O : stack \in Seq(FramesOver(R, O)) BY <1>1 DEF StackTyped
<1> QED BY <1>1, <1>2 DEF Depth

LEMMA SameCalls ==
  ASSUME SessionInv, Quiet, UNCHANGED stack
  PROVE  CallsInv' /\ StageInv'
<1>1. Depth' = Depth /\ Depth \in Nat BY StackIsTyped DEF Depth
<1>2. CallsInv' BY <1>1, CallsContinue DEF SessionInv
<1> QED BY <1>2, StageKept DEF SessionInv

(* Calls into the secure world: one that finds no memory fails.            *)
LEMMA SendSession == SessionInv /\ SendMessage => CallsInv' /\ StageInv'
<1> SUFFICES ASSUME SessionInv, SendMessage PROVE CallsInv' /\ StageInv'
  OBVIOUS
<1> USE DEF SessionInv
<1>1. Depth > 0 /\ Top.pc = "filled" /\ StackTyped /\ Depth \in Nat
  BY StackIsTyped DEF SendMessage
<1>2. Quiet
  <2>1. starved' = starved \/ starved' = TRUE BY DEF SendMessage
  <2>2. UNCHANGED <<main, opened, paramMem, resultMem, taOpen, faults>>
    BY DEF SendMessage, driverVars, worldVars
  <2> QED BY <2>1, <2>2, FaultsGrow DEF Quiet
<1>3. ASSUME NEW b \in TopDown(MsgPages),
             SetTop([Top EXCEPT !.pc = "world", !.msg = b.base])
      PROVE  CallsInv'
  <2>1. b.base \in Nat BY DEF TopDown, Fits, Page
  <2>2. "world" \in Phases /\ "world" \in Unsent /\ Top.pc \in Unsent
        /\ "world" \notin Hooking
    BY <1>1 DEF Phases, Unsent, Hooking
  <2>3. TopBecomes("world", Top.out) BY <1>1, <1>3, <2>1, <2>2, FieldsMessage
  <2> QED BY <1>1, <1>2, <2>2, <2>3, TopContinues
<1>4. ASSUME SetTop([Top EXCEPT !.pc = "done", !.out = "OUT_OF_MEMORY"]), starved' = TRUE
      PROVE  CallsInv'
  <2>1. TopBecomes("done", "OUT_OF_MEMORY") BY <1>1, <1>4, FieldsAnswered DEF Phases
  <2>2. /\ Depth' = Depth
        /\ \A k \in 1 .. Depth :
             /\ stack'[k].req = stack[k].req /\ stack'[k].by = stack[k].by
             /\ stack'[k].pc = (IF k = Depth THEN "done" ELSE stack[k].pc)
             /\ stack'[k].out = (IF k = Depth THEN "OUT_OF_MEMORY" ELSE stack[k].out)
    BY <2>1 DEF TopBecomes
  <2>3. StageOfCall' BY <1>2, <2>2 DEF CallsInv, StageOfCall, Quiet
  <2>4. OpenDone' BY <1>2, <2>2 DEF CallsInv, OpenDone, Quiet
  <2>5. CloseDone' BY <1>4 DEF CloseDone
  <2>6. HookAnswered'
    <3> SUFFICES ASSUME NEW k \in 1 .. Depth, stack[k].by = "hook"
                 PROVE  k > 1 /\ stack'[k - 1].pc \notin Unsent
      BY <2>2 DEF HookAnswered
    <3>1. k > 1 /\ stack[k - 1].pc \notin Unsent BY DEF CallsInv, HookAnswered
    <3>2. k - 1 \in 1 .. Depth /\ k - 1 # Depth BY <1>1, <3>1
    <3> QED BY <2>2, <3>1, <3>2
  <2>7. HookServes' BY <1>2, <2>2 DEF CallsInv, HookServes, Hooking, Quiet
  <2> QED BY <2>3, <2>4, <2>5, <2>6, <2>7 DEF CallsInv
<1>5. CallsInv' BY <1>3, <1>4 DEF SendMessage
<1> QED BY <1>2, <1>5, StageKept

LEMMA FreeSession == SessionInv /\ FreeMessage => CallsInv' /\ StageInv'
<1> SUFFICES ASSUME SessionInv, FreeMessage PROVE CallsInv' /\ StageInv'
  OBVIOUS
<1> USE DEF SessionInv
<1>1. Depth > 0 /\ Top.pc = "back" /\ StackTyped BY StackIsTyped DEF FreeMessage
<1>2. NoFault \/ Fault BY DEF FreeMessage
<1>3. Quiet
  BY <1>2, FaultsGrow DEF FreeMessage, Quiet, driverVars, worldVars, histVars
<1>4. SetTop([Top EXCEPT !.pc = "done", !.msg = 0]) BY DEF FreeMessage
<1>5. "done" \in Phases /\ "done" \notin Unsent /\ Top.pc \notin Unsent
      /\ "done" \notin Hooking
  BY <1>1 DEF Phases, Unsent, Hooking
<1>6. TopBecomes("done", Top.out) BY <1>1, <1>4, <1>5, FieldsMessage
<1>7. CallsInv' BY <1>1, <1>3, <1>5, <1>6, TopContinues
<1> QED BY <1>3, <1>7, StageKept

(* What runs in the secure world or below the calls.                       *)
LEMMA BelowSession ==
  SessionInv /\ (RpcAlloc \/ RpcFree \/ MemoryOverrun \/ TpmLoad \/ UNCHANGED vars)
    => CallsInv' /\ StageInv'
<1> SUFFICES ASSUME SessionInv,
                    RpcAlloc \/ RpcFree \/ MemoryOverrun \/ TpmLoad \/ UNCHANGED vars
             PROVE  CallsInv' /\ StageInv'
  OBVIOUS
<1>1. UNCHANGED stack
  BY DEF RpcAlloc, RpcFree, MemoryOverrun, TpmLoad, vars
<1>2. faults' = faults \/ NoFault \/ Fault
  BY DEF RpcAlloc, RpcFree, MemoryOverrun, TpmLoad, vars, LibraryInitialized, NoFault
<1>3. faults' \in Nat /\ (faults' = 0 => faults = 0)
  BY <1>2, FaultsGrow DEF SessionInv
<1>4. UNCHANGED <<main, opened, paramMem, resultMem, taOpen>>
  BY DEF RpcAlloc, RpcFree, MemoryOverrun, TpmLoad, vars, driverVars, worldVars
<1>5. starved => starved'
  BY DEF RpcAlloc, RpcFree, MemoryOverrun, TpmLoad, vars, histVars
<1>6. Quiet BY <1>3, <1>4, <1>5 DEF Quiet
<1> QED BY <1>1, <1>6, SameCalls

(* The applications answer: only a close for this driver ends its session, *)
(* and only after the exit handler called for it.                          *)
LEMMA AnswerSession == SessionInv /\ Answer => CallsInv' /\ StageInv'
<1> SUFFICES ASSUME SessionInv, Answer PROVE CallsInv' /\ StageInv'
  OBVIOUS
<1> USE DEF SessionInv
<1>1. Depth > 0 /\ Top.pc = "world" /\ StackTyped /\ Depth \in Nat
  BY StackIsTyped DEF Answer, InWorld
<1>2. /\ UNCHANGED <<main, opened, paramMem, resultMem, starved>>
      /\ NoFault \/ Fault
  BY DEF Answer, AnswerFails, driverVars, histVars
<1>3. faults' \in Nat /\ (faults' = 0 => faults = 0) BY <1>2, FaultsGrow
<1>4. PICK out :
        /\ Answered(out)
        /\ \/ /\ Top.req.cmd \in VariableCmds /\ UNCHANGED taOpen
           \/ /\ AnswerOther /\ out = "SUCCESS"
           \/ /\ out \in Failures /\ Fault /\ UNCHANGED taOpen
  BY DEF Answer, AnswerVariable, AnswerOther, AnswerFails
<1>5. TopBecomes("back", out)
  <2>1. SetTop([Top EXCEPT !.pc = "back", !.out = out]) BY <1>4 DEF Answered
  <2>2. "back" \in Phases BY DEF Phases
  <2> QED BY <1>1, <2>1, <2>2, FieldsAnswered
<1>6. /\ Depth' = Depth /\ Depth \in 1 .. Depth
      /\ \A k \in 1 .. Depth :
           /\ stack'[k].req = stack[k].req /\ stack'[k].by = stack[k].by
           /\ stack'[k].pc = (IF k = Depth THEN "back" ELSE stack[k].pc)
           /\ stack'[k].out = (IF k = Depth THEN out ELSE stack[k].out)
  BY <1>1, <1>5 DEF TopBecomes
<1>7. AnswerOther => taOpen' = CASE Top.req.cmd \in {"Open", "TpmOpen"}   -> taOpen \cup {Client(Top.req)}
                                 [] Top.req.cmd \in {"Close", "TpmClose"} -> taOpen \ {Client(Top.req)}
                                 [] OTHER -> taOpen
  BY DEF AnswerOther
<1>8. (* The session ends only by a close, and begins only by an open. *)
      /\ "av" \in taOpen => "av" \in taOpen' \/ Top.req.cmd = "Close"
      /\ "av" \notin taOpen => "av" \notin taOpen' \/ Top.req.cmd = "Open"
      /\ Top.req.cmd = "Open" /\ out = "SUCCESS" => "av" \in taOpen'
      /\ Top.req.cmd = "Close" /\ faults' = 0 => "av" \notin taOpen'
  BY <1>4, <1>7, FaultsGrow DEF Client, TpmCmds, VariableCmds, Failures
<1>9. /\ Top.req.cmd = "Close" => main = "close"
      /\ Top.req.cmd = "Open" => main = "open"
  BY <1>6 DEF CallsInv, StageOfCall, Top
<1>10. StageOfCall' BY <1>2, <1>6 DEF CallsInv, StageOfCall
<1>11. OpenDone'
  <2> SUFFICES ASSUME NEW k \in 1 .. Depth, stack'[k].req.cmd = "Open",
                      stack'[k].out = "SUCCESS"
               PROVE  "av" \in taOpen'
    BY <1>6 DEF OpenDone
  <2>1. stack[k].req.cmd = "Open" BY <1>6
  <2>2. CASE k = Depth BY <1>6, <1>8, <2>1, <2>2 DEF Top
  <2>3. CASE k # Depth
    <3>1. "av" \in taOpen BY <1>6, <2>1, <2>3 DEF CallsInv, OpenDone
    <3>2. main = "open" BY <2>1 DEF CallsInv, StageOfCall
    <3> QED BY <1>8, <1>9, <3>1, <3>2
  <2> QED BY <2>2, <2>3
<1>12. CloseDone'
  <2> SUFFICES ASSUME NEW k \in 1 .. Depth, stack'[k].req.cmd = "Close",
                      stack'[k].pc \notin Unsent, faults' = 0, ~starved
               PROVE  "av" \notin taOpen'
    BY <1>2, <1>6 DEF CloseDone
  <2>1. stack[k].req.cmd = "Close" BY <1>6
  <2>2. CASE k = Depth BY <1>8, <2>1, <2>2 DEF Top
  <2>3. CASE k # Depth
    <3>1. "av" \notin taOpen BY <1>3, <1>6, <2>1, <2>3 DEF CallsInv, CloseDone
    <3>2. main = "close" BY <2>1 DEF CallsInv, StageOfCall
    <3> QED BY <1>8, <1>9, <3>1, <3>2
  <2> QED BY <2>2, <2>3
<1>13. HookAnswered'
  <2> SUFFICES ASSUME NEW k \in 1 .. Depth, stack[k].by = "hook"
               PROVE  k > 1 /\ stack'[k - 1].pc \notin Unsent
    BY <1>6 DEF HookAnswered
  <2>1. k > 1 /\ stack[k - 1].pc \notin Unsent BY DEF CallsInv, HookAnswered
  <2>2. k - 1 \in 1 .. Depth BY <1>1, <2>1
  <2> QED BY <1>6, <2>1, <2>2 DEF Unsent
<1>14. StageInv'
  BY <1>2, <1>3, <1>8, <1>9 DEF StageInv, ReadyStages, Opening, Releasing
<1>15. HookServes' BY <1>2, <1>6 DEF CallsInv, HookServes, Hooking
<1> QED BY <1>10, <1>11, <1>12, <1>13, <1>14, <1>15 DEF CallsInv

(* TPM commands, the hook and timer callbacks.                             *)
LEMMA CallsQuiet ==
  ASSUME SessionInv,
         \/ TpmReleases \/ TpmCalls \/ TpmReturns
         \/ HookReads \/ HookHasRead \/ HookMeasures
         \/ CallbackSubmits \/ CallbackCalls \/ CallbackReturns
         \/ StageBegins \/ CallerCalls
  PROVE  Quiet
<1>1. UNCHANGED <<main, opened, paramMem, resultMem, taOpen>>
  BY DEF TpmReleases, TpmCalls, TpmReturns, HookReads, HookHasRead, HookMeasures,
         CallbackSubmits, CallbackCalls, CallbackReturns, StageBegins, CallerCalls,
         driverVars, worldVars
<1>2. UNCHANGED faults \/ NoFault \/ Fault
  BY DEF TpmReleases, TpmCalls, TpmReturns, HookReads, HookHasRead, HookMeasures,
         CallbackSubmits, CallbackCalls, CallbackReturns, StageBegins, CallerCalls
<1>3. starved' = starved \/ starved' = TRUE
  <2>1. \A s, by : SubmitStarts(s, by) => starved' = starved BY DEF SubmitStarts
  <2>2. SubmitStarves => starved' = TRUE BY DEF SubmitStarves
  <2>3. TpmCalls \/ HookMeasures \/ CallbackSubmits => starved' = starved \/ starved' = TRUE
    BY <2>1, <2>2 DEF TpmCalls, HookMeasures, CallbackSubmits
  <2>4. \/ TpmReleases \/ TpmReturns \/ HookReads \/ HookHasRead
        \/ CallbackCalls \/ CallbackReturns \/ StageBegins \/ CallerCalls
        => starved' = starved
    BY DEF TpmReleases, TpmReturns, HookReads, HookHasRead,
           CallbackCalls, CallbackReturns, StageBegins, CallerCalls, histVars
  <2> QED BY <2>3, <2>4
<1> QED BY <1>1, <1>2, <1>3, FaultsGrow DEF Quiet, SessionInv

LEMMA TpmAllowed ==
  \A c \in TpmCmds : Allowed(Plain(c))
BY DEF TpmCmds, Allowed, Plain, Commands, ForSession, VariableCmds

(* A call that begins above the others, without a hook.                    *)
LEMMA BeginsSession ==
  ASSUME SessionInv, Quiet, NEW req, NEW by \in {"main", "event"}, Allowed(req),
         stack' = Append(stack, Call(req, by))
  PROVE  CallsInv' /\ StageInv'
<1>1. by \in Waiting /\ by # "hook" BY DEF Waiting
<1>2. CallAdded(req, by, Top.pc) BY <1>1, StackIsTyped, FieldsAdded
<1>3. CallsInv' BY <1>1, <1>2, CallsBegin DEF SessionInv
<1> QED BY <1>3, StageKept DEF SessionInv

HooksAt(p, req) == stack' = Append([stack EXCEPT ![Depth].pc = p], Call(req, "hook"))

LEMMA HookSession ==
  ASSUME SessionInv, Quiet, Depth > 0, Top.pc \notin Unsent, main \in ReadyStages,
         NEW p \in Phases, p \notin Unsent, NEW req, Allowed(req),
         HooksAt(p, req)
  PROVE  CallsInv' /\ StageInv'
<1>1. "hook" \in Waiting BY DEF Waiting
<1>2. CallAdded(req, "hook", p) BY StackIsTyped, FieldsHooked DEF HooksAt
<1>3. CallsInv' BY <1>1, <1>2, CallsBegin DEF SessionInv
<1> QED BY <1>3, StageKept DEF SessionInv

LEMMA TpmSession ==
  SessionInv /\ (TpmReleases \/ TpmCalls \/ TpmReturns) => CallsInv' /\ StageInv'
<1> SUFFICES ASSUME SessionInv, TpmReleases \/ TpmCalls \/ TpmReturns
             PROVE  CallsInv' /\ StageInv'
  OBVIOUS
<1>1. Quiet BY CallsQuiet
<1>2. CASE TpmReleases
  <2>1. Depth > 0 /\ Top.pc = "done" /\ SetTop([Top EXCEPT !.pc = "end"])
    BY <1>2 DEF TpmReleases
  <2>2. "end" \in Phases /\ "end" \notin Unsent /\ Top.pc \notin Unsent
        /\ "end" \notin Hooking
    BY <2>1 DEF Phases, Unsent, Hooking
  <2>3. TopBecomes("end", Top.out) BY <2>1, <2>2, StackIsTyped, FieldsMovedOn
  <2>4. CallsInv' BY <1>1, <2>1, <2>2, <2>3, TopContinues DEF SessionInv
  <2> QED BY <1>1, <2>4, StageKept DEF SessionInv
<1>3. CASE TpmCalls
  <2>1. CASE UNCHANGED stack BY <1>1, <2>1, SameCalls
  <2>2. CASE ~ UNCHANGED stack
    <3>1. PICK c \in TpmCmds : stack' = Append(stack, Call(Plain(c), "main"))
      BY <1>3, <2>2 DEF TpmCalls, SubmitStarts, Push, TpmCmds
    <3> QED BY <1>1, <3>1, TpmAllowed, BeginsSession
  <2> QED BY <2>1, <2>2
<1>4. CASE TpmReturns
  <2>1. Depth > 0 /\ stack' = Pop BY <1>4 DEF TpmReturns
  <2>2. CallGone(stack[Depth - 1].pc) BY <2>1, StackIsTyped, FieldsGone
  <2>3. CallsInv' BY <1>1, <2>1, <2>2, CallsReturnTo DEF SessionInv
  <2> QED BY <1>1, <2>3, StageKept DEF SessionInv
<1> QED BY <1>2, <1>3, <1>4

(* The hook reads on behalf of a command for the variable application.     *)
LEMMA HooksSession ==
  SessionInv /\ (HookReads \/ HookHasRead \/ HookMeasures) => CallsInv' /\ StageInv'
<1> SUFFICES ASSUME SessionInv, HookReads \/ HookHasRead \/ HookMeasures
             PROVE  CallsInv' /\ StageInv'
  OBVIOUS
<1>1. Quiet BY CallsQuiet
<1>2. CASE HookReads
  <2>1. Depth > 0 /\ Top.pc \in {"done", "found"} BY <1>2 DEF HookReads
  <2>2. main \in ReadyStages
    <3>1. Depth \in 1 .. Depth BY <2>1, StackIsTyped
    <3>2. CASE Top.pc = "done" /\ Hooked(Top)
      BY <3>1, <3>2 DEF Hooked, SessionInv, CallsInv, StageOfCall, Top, ForSession, VariableCmds
    <3>3. CASE Top.pc = "found"
      BY <3>1, <3>3 DEF SessionInv, CallsInv, HookServes, Hooking, Top
    <3> QED BY <1>2, <3>2, <3>3 DEF HookReads
  <2>3. \E p \in {"probing", "reading"}, room \in {0, 2} : HooksAt(p, Get(Top.req.name, room))
    BY <1>2 DEF HookReads, Push, HooksAt
  <2>4. PICK p \in {"probing", "reading"}, room \in {0, 2} : HooksAt(p, Get(Top.req.name, room))
    BY <2>3
  <2>5. Allowed(Get(Top.req.name, room))
    BY <2>2 DEF Allowed, Get, Commands, ForSession, VariableCmds
  <2>6. p \in Phases /\ p \notin Unsent /\ Top.pc \notin Unsent
    BY <2>1 DEF Phases, Unsent
  <2> QED BY <1>1, <2>1, <2>2, <2>4, <2>5, <2>6, HookSession
<1>3. CASE HookHasRead
  <2>1. Depth > 1 /\ Depth > 0 /\ Top.by = "hook"
    BY <1>3, StackIsTyped DEF HookHasRead
  <2>2. \E p \in {"found", "end", "measure"} : stack' = Resumed(p)
    BY <1>3 DEF HookHasRead, Resumed
  <2>3. PICK p \in {"found", "end", "measure"} : stack' = Resumed(p) BY <2>2
  <2>4. p \in Phases /\ p \notin Unsent BY DEF Phases, Unsent
  <2>5. CallGone(p) BY <2>1, <2>3, <2>4, StackIsTyped, FieldsResumed
  <2>6. CallsInv' BY <1>1, <2>1, <2>4, <2>5, CallsReturnTo DEF SessionInv
  <2> QED BY <1>1, <2>6, StageKept DEF SessionInv
<1>4. CASE HookMeasures
  <2>1. Depth > 0 /\ Top.pc = "measure" BY <1>4 DEF HookMeasures
  <2>2. main \in ReadyStages
    <3>1. Depth \in 1 .. Depth BY <2>1, StackIsTyped
    <3> QED BY <2>1, <3>1 DEF SessionInv, CallsInv, HookServes, Hooking, Top
  <2>3. CASE HooksAt("measuring", Plain("TpmSubmit"))
    <3>1. "measuring" \in Phases /\ "measuring" \notin Unsent /\ Top.pc \notin Unsent
      BY <2>1 DEF Phases, Unsent
    <3>2. Allowed(Plain("TpmSubmit")) BY TpmAllowed DEF TpmCmds
    <3> QED BY <1>1, <2>1, <2>2, <2>3, <3>1, <3>2, HookSession
  <2>4. CASE SetTop([Top EXCEPT !.pc = "end"])
    <3>1. "end" \in Phases /\ "end" \notin Unsent /\ Top.pc \notin Unsent
          /\ "end" \notin Hooking
      BY <2>1 DEF Phases, Unsent, Hooking
    <3>2. TopBecomes("end", Top.out) BY <2>1, <2>4, <3>1, StackIsTyped, FieldsMovedOn
    <3>3. CallsInv' BY <1>1, <2>1, <3>1, <3>2, TopContinues DEF SessionInv
    <3> QED BY <1>1, <3>3, StageKept DEF SessionInv
  <2> QED BY <1>4, <2>3, <2>4 DEF HookMeasures, SubmitStarts, HooksAt
<1> QED BY <1>2, <1>3, <1>4

(* A timer callback may begin a variable call only once the services are   *)
(* published.                                                              *)
LEMMA RequestAllowed ==
  ASSUME main \in ReadyStages,
         NEW req \in CallerReads \cup CallerSets \cup EventCalls
  PROVE  Allowed(req)
<1>1. req.cmd \in VariableCmds BY RequestsAssumption DEF VariableRequests
<1> QED BY <1>1 DEF Allowed, Commands, ForSession, VariableCmds

LEMMA CallbacksSession ==
  SessionInv /\ (CallbackSubmits \/ CallbackCalls \/ CallbackReturns)
    => CallsInv' /\ StageInv'
<1> SUFFICES ASSUME SessionInv, CallbackSubmits \/ CallbackCalls \/ CallbackReturns
             PROVE  CallsInv' /\ StageInv'
  OBVIOUS
<1>1. Quiet BY CallsQuiet
<1>2. CASE CallbackSubmits
  <2>1. CASE UNCHANGED stack BY <1>1, <2>1, SameCalls
  <2>2. CASE stack' = Append(stack, Call(Plain("TpmSubmit"), "event"))
    <3>1. Allowed(Plain("TpmSubmit")) BY TpmAllowed DEF TpmCmds
    <3> QED BY <1>1, <2>2, <3>1, BeginsSession
  <2> QED BY <1>2, <2>1, <2>2 DEF CallbackSubmits, SubmitStarts
<1>3. CASE CallbackCalls
  <2>1. PICK req \in EventCalls : stack' = Append(stack, Call(req, "event"))
    BY <1>3 DEF CallbackCalls, Push
  <2>2. main \in ReadyStages BY <1>3 DEF CallbackCalls, ReadyStages
  <2>3. Allowed(req) BY <2>2, RequestAllowed
  <2> QED BY <1>1, <2>1, <2>3, BeginsSession
<1>4. CASE CallbackReturns
  <2>1. Depth > 1 /\ Depth > 0 /\ stack' = Pop
    BY <1>4, StackIsTyped DEF CallbackReturns
  <2>2. CallGone(stack[Depth - 1].pc) BY <2>1, StackIsTyped, FieldsGone
  <2>3. CallsInv' BY <1>1, <2>1, <2>2, CallsReturnTo DEF SessionInv
  <2> QED BY <1>1, <2>3, StageKept DEF SessionInv
<1> QED BY <1>2, <1>3, <1>4

(* The driver's own calls begin.                                           *)
LEMMA StageCallAllowed ==
  ASSUME main \in DOMAIN StageCall
  PROVE  Allowed(StageCall[main])
BY DEF StageCall, Allowed, Plain, Get, Set, Commands, ForSession, VariableCmds, TpmCmds,
       ReadyStages

LEMMA StagesSession ==
  SessionInv /\ (StageBegins \/ CallerCalls) => CallsInv' /\ StageInv'
<1> SUFFICES ASSUME SessionInv, StageBegins \/ CallerCalls
             PROVE  CallsInv' /\ StageInv'
  OBVIOUS
<1>1. Quiet BY CallsQuiet
<1>2. CASE StageBegins
  <2>1. main \in DOMAIN StageCall /\ stack' = Append(stack, Call(StageCall[main], "main"))
    BY <1>2 DEF StageBegins, Push
  <2>2. Allowed(StageCall[main]) BY <2>1, StageCallAllowed
  <2> QED BY <1>1, <2>1, <2>2, BeginsSession
<1>3. CASE CallerCalls
  <2>1. PICK req \in CallerReads \cup CallerSets : stack' = Append(stack, Call(req, "main"))
    BY <1>3 DEF CallerCalls, Push
  <2>2. main \in ReadyStages BY <1>3 DEF CallerCalls, ReadyStages
  <2>3. Allowed(req) BY <2>2, RequestAllowed
  <2> QED BY <1>1, <2>1, <2>3, BeginsSession
<1> QED BY <1>2, <1>3

(* Steps with no call under way.                                           *)
LEMMA MovesSession ==
  SessionInv /\ (Load \/ AllocateBuffers \/ Publish \/ ExitBootServices)
    => CallsInv' /\ StageInv'
<1> SUFFICES ASSUME SessionInv, Load \/ AllocateBuffers \/ Publish \/ ExitBootServices
             PROVE  CallsInv' /\ StageInv'
  OBVIOUS
<1> USE DEF SessionInv
<1>1. stack' = <<>>
  BY DEF Load, AllocateBuffers, Publish, ExitBootServices
<1>2. CallsInv' BY <1>1, NoCalls
<1>3. faults' \in Nat
  <2>1. faults' = faults \/ NoFault \/ Fault
    BY DEF Load, AllocateBuffers, Publish, ExitBootServices, LibraryInitialized
  <2> QED BY <2>1, FaultsGrow
<1>4. CASE Load
  <2>1. main' \in {"open", "failed"} BY <1>4 DEF Load
  <2> QED BY <1>2, <1>3, <2>1 DEF StageInv, ReadyStages, Opening, Releasing
<1>5. CASE AllocateBuffers
  <2>1. main \in {"param", "result"} /\ UNCHANGED <<opened, taOpen>>
    BY <1>5 DEF AllocateBuffers, worldVars
  <2>2. \/ main = "param" /\ main' = "result" /\ paramMem' # 0
        \/ main = "result" /\ main' = "probe" /\ resultMem' # 0 /\ paramMem' = paramMem
        \/ main' = "failed"
    BY <1>5 DEF AllocateBuffers, TopDown, Fits, Page
  <2> QED BY <1>2, <1>3, <2>1, <2>2 DEF StageInv, ReadyStages, Opening, Releasing
<1>6. CASE Publish
  <2>1. /\ main = "publish" /\ main' \in {"ready", "failed"}
        /\ UNCHANGED <<opened, taOpen, paramMem, resultMem>>
    BY <1>6 DEF Publish, worldVars
  <2> QED BY <1>2, <1>3, <2>1 DEF StageInv, ReadyStages, Opening, Releasing
<1>7. CASE ExitBootServices
  <2>1. /\ main = "ready" /\ main' = "signal"
        /\ UNCHANGED <<opened, taOpen, paramMem, resultMem>>
    BY <1>7 DEF ExitBootServices, worldVars, driverVars
  <2> QED BY <1>2, <1>3, <2>1 DEF StageInv, ReadyStages, Opening, Releasing
<1> QED BY <1>4, <1>5, <1>6, <1>7

(* A block that was given back without a fault is forgotten.               *)
LEMMA ReleaseSession == SessionInv /\ ReleaseBuffers => CallsInv' /\ StageInv'
<1> SUFFICES ASSUME SessionInv, ReleaseBuffers PROVE CallsInv' /\ StageInv'
  OBVIOUS
<1> USE DEF SessionInv
<1>1. stack' = <<>> BY DEF ReleaseBuffers
<1>2. CallsInv' BY <1>1, NoCalls
<1>3. main \in Releasing /\ UNCHANGED <<taOpen, starved>>
  BY DEF ReleaseBuffers, worldVars, histVars, Releasing
<1>4. ASSUME NEW a, Released(a)
      PROVE  faults' \in Nat /\ (faults' = 0 => faults = 0 /\ gcd' # gcd)
  <2>1. "av" \in Clients BY ClientsAssumption
  <2> QED BY <1>4, <2>1, FaultsGrow, FreeEffect DEF Released, OwnInv
<1>5. CASE main = "release"
  <2>1. Released(paramMem) /\ main' = "releaseResult" BY <1>5 DEF ReleaseBuffers
  <2>2. gcd' # gcd => paramMem' = 0 BY <1>5 DEF ReleaseBuffers
  <2>3. faults' \in Nat /\ (faults' = 0 => faults = 0 /\ gcd' # gcd) BY <1>4, <2>1
  <2>4. "releaseResult" \notin ReadyStages \cup Opening BY DEF ReadyStages, Opening
  <2> QED BY <1>2, <1>3, <2>1, <2>2, <2>3, <2>4 DEF StageInv, Opening
<1>6. CASE main = "releaseResult"
  <2>1. Released(resultMem) /\ main' = "gone" /\ paramMem' = paramMem
    BY <1>6 DEF ReleaseBuffers
  <2>2. gcd' # gcd => resultMem' = 0 BY <1>6 DEF ReleaseBuffers
  <2>3. faults' \in Nat /\ (faults' = 0 => faults = 0 /\ gcd' # gcd) BY <1>4, <2>1
  <2>4. "gone" \notin ReadyStages \cup Opening BY DEF ReadyStages, Opening
  <2> QED BY <1>2, <1>3, <1>6, <2>1, <2>2, <2>3, <2>4 DEF StageInv, Opening
<1> QED BY <1>5, <1>6 DEF ReleaseBuffers

(* The only call of a stage returns: it is the stage's own.                *)
LEMMA ReturningSession ==
  ASSUME SessionInv, NEW stage, Returning(stage)
  PROVE  /\ CallsInv' /\ faults' = faults
         /\ main = stage /\ UNCHANGED <<paramMem, resultMem, taOpen, faults, starved>>
         /\ main = "open" /\ Ok(Top) => "av" \in taOpen
         /\ main = "close" /\ faults = 0 /\ ~starved => "av" \notin taOpen
<1> USE DEF SessionInv
<1>1. /\ main = stage /\ Depth = 1 /\ Client(Top.req) = "av" /\ Ended(Top) /\ stack' = <<>>
      /\ UNCHANGED <<paramMem, resultMem, taOpen, faults, starved>>
  BY DEF Returning, worldVars
<1>2. CallsInv' BY <1>1, NoCalls
<1>3. 1 \in 1 .. Depth /\ Top = stack[1] BY <1>1 DEF Top
<1>4. Top.req.cmd \notin TpmCmds BY <1>1 DEF Client
<1>5. ASSUME main = "open", Ok(Top) PROVE "av" \in taOpen
  <2>1. Top.req.cmd = "Open"
    BY <1>3, <1>4, <1>5 DEF CallsInv, StageOfCall, Commands, ReadyStages
  <2>2. Top.out = "SUCCESS" BY <1>5 DEF Ok, EfiStatus
  <2> QED BY <1>3, <2>1, <2>2 DEF CallsInv, OpenDone
<1>6. ASSUME main = "close", faults = 0, ~starved PROVE "av" \notin taOpen
  <2>1. Top.req.cmd = "Close"
    BY <1>3, <1>4, <1>6 DEF CallsInv, StageOfCall, Commands, ReadyStages
  <2>2. Top.pc \notin Unsent BY <1>1 DEF Ended, Unsent
  <2> QED BY <1>3, <1>6, <2>1, <2>2 DEF CallsInv, CloseDone
<1> QED BY <1>1, <1>2, <1>5, <1>6

LEMMA ReturnsSession ==
  SessionInv /\ (\/ SessionOpened \/ Probed \/ EnableRead \/ VariablesSet
                 \/ CallerReturns \/ Signalled \/ SessionClosed)
    => CallsInv' /\ StageInv'
<1> SUFFICES ASSUME SessionInv,
                    \/ SessionOpened \/ Probed \/ EnableRead \/ VariablesSet
                    \/ CallerReturns \/ Signalled \/ SessionClosed
             PROVE  CallsInv' /\ StageInv'
  OBVIOUS
<1> USE DEF SessionInv
<1>1. CASE SessionOpened
  <2>1. /\ Returning("open") /\ opened' = Ok(Top)
        /\ main' = IF Ok(Top) THEN "param" ELSE "failed"
    BY <1>1 DEF SessionOpened
  <2>2. main' = "failed" \/ (main' = "param" /\ opened' /\ "av" \in taOpen)
    BY <2>1, ReturningSession
  <2> QED BY <2>1, <2>2, ReturningSession DEF StageInv, ReadyStages, Opening, Releasing
<1>2. CASE SessionClosed
  <2>1. Returning("close") /\ main' = "release" BY <1>2 DEF SessionClosed
  <2> QED BY <2>1, ReturningSession DEF StageInv, ReadyStages, Opening, Releasing
<1>3. CASE Signalled
  <2>1. Returning("signal") /\ main' \in {"close", "reset"} BY <1>3 DEF Signalled
  <2> QED BY <2>1, ReturningSession DEF StageInv, ReadyStages, Opening, Releasing
<1>4. CASE Probed \/ EnableRead \/ VariablesSet \/ CallerReturns
  <2>1. \E stage \in ReadyStages :
          /\ Returning(stage) /\ main' \in ReadyStages \cup {"failed"}
          /\ opened' = opened
    BY <1>4 DEF Probed, EnableRead, VariablesSet, StageSet, CallerReturns, Returning,
                ReadyStages
  <2>2. PICK stage \in ReadyStages :
          /\ Returning(stage) /\ main' \in ReadyStages \cup {"failed"}
          /\ opened' = opened
    BY <2>1
  <2>3. /\ CallsInv' /\ main \in ReadyStages
        /\ UNCHANGED <<opened, paramMem, resultMem, taOpen, faults, starved>>
    BY <2>2, ReturningSession
  <2> QED BY <2>2, <2>3 DEF StageInv, ReadyStages, Opening, Releasing
<1> QED BY <1>1, <1>2, <1>3, <1>4

LEMMA SessionStep == SessionInv /\ [Next]_vars => SessionInv'
<1> SUFFICES ASSUME SessionInv, [Next]_vars PROVE SessionInv'
  OBVIOUS
<1>1. OwnInv' BY OwnStep DEF SessionInv
<1>2. CallsInv' /\ StageInv'
  BY SendSession, FreeSession, BelowSession, AnswerSession, TpmSession, HooksSession,
     CallbacksSession, StagesSession, MovesSession, ReleaseSession, ReturnsSession
  DEF Next, Progress
<1> QED BY <1>1, <1>2 DEF SessionInv

LEMMA SessionStart == Init => SessionInv
<1> SUFFICES ASSUME Init PROVE SessionInv
  OBVIOUS
<1>1. OwnInv BY OwnStart
<1>2. Depth = 0 BY DEF Init, Depth
<1>3. CallsInv
  BY <1>2 DEF CallsInv, StageOfCall, OpenDone, CloseDone, HookAnswered, HookServes
<1>4. StageInv BY DEF Init, StageInv, ReadyStages, Opening, Releasing
<1> QED BY <1>1, <1>3, <1>4 DEF SessionInv

-----------------------------------------------------------------------------
(* For every pool, every number of callbacks and failures and all requests *)
(* of the callers: whenever a command for the variable application is      *)
(* under way, its session is open and both transport buffers are held.     *)
THEOREM CommandsHaveSession == Spec => []TransportReady
<1>1. SessionInv => TransportReady
  <2> SUFFICES ASSUME SessionInv, NEW k \in 1 .. Depth,
                      stack[k].req.cmd \in VariableCmds \cup {"Signal"}
               PROVE  opened /\ "av" \in taOpen /\ {paramMem, resultMem} \subseteq LiveBases
    BY DEF TransportReady
  <2> USE DEF SessionInv
  <2>1. main \in ReadyStages BY DEF CallsInv, StageOfCall, ForSession
  <2>2. opened /\ "av" \in taOpen /\ paramMem # 0 /\ resultMem # 0 BY <2>1 DEF StageInv
  <2>3. main \notin Releasing BY <2>1 DEF ReadyStages, Releasing
  <2>4. Transport \subseteq LiveBases BY <2>3 DEF OwnInv, Owned, HeldIsLive
  <2> QED BY <2>2, <2>4 DEF Transport
<1> QED BY <1>1, SessionStart, SessionStep, PTL DEF Spec

(* And once the exit handler is through, if nothing failed: the session is *)
(* closed and every block left is the secure world's or the TPM driver's.  *)
THEOREM ExitLeavesNothing == Spec => []CleanExit
<1>1. SessionInv => CleanExit
  <2> SUFFICES ASSUME SessionInv, main = "gone", faults = 0, ~starved
               PROVE  /\ "av" \notin taOpen /\ Transport = {}
                      /\ LiveBases \subseteq world \cup Messages \cup {tpmMem}
    BY DEF CleanExit
  <2> USE DEF SessionInv
  <2>1. "av" \notin taOpen /\ paramMem = 0 /\ resultMem = 0 BY DEF StageInv, Releasing
  <2>2. Transport = {} BY <2>1 DEF Transport
  <2> QED BY <2>1, <2>2 DEF OwnInv, Owned, HeldIsLive, Retained
<1> QED BY <1>1, SessionStart, SessionStep, PTL DEF Spec

=============================================================================
