------------------------ MODULE AuthVarsOwnership ------------------------
(***************************************************************************)
(* Who holds which block of the shared memory: through every interleaving  *)
(* of calls, callbacks and remote allocations, and every failure, a block  *)
(* is live exactly while one call, driver or the secure world counts on    *)
(* it, and the transport buffers are there while a command needs them.     *)
(***************************************************************************)
EXTENDS AuthVarsProofs, FiniteSetTheorems, SequenceTheorems

-----------------------------------------------------------------------------
(* The stack of calls.                                                     *)

Waiting == {"main", "event", "hook"}
Phases == {"filled", "world", "back", "done", "probing", "found", "reading",
           "measure", "measuring", "end"}
FramesOver(R, O) == [req : R, by : Waiting, pc : Phases, msg : Nat, out : O]
StackTyped == \E R, O : stack \in Seq(FramesOver(R, O))

(* Only the innermost part of a call holds a message, no two calls hold    *)
(* the same one, and a call that waits for its hook holds none.            *)
MessageInUse ==
  \A k \in 1 .. Depth : stack[k].msg # 0 => stack[k].pc \in {"world", "back"}
MessagesDiffer ==
  \A j, k \in 1 .. Depth : j # k /\ stack[j].msg # 0 => stack[j].msg # stack[k].msg
HookWaits ==
  \A k \in 1 .. Depth : stack[k].by = "hook" => k > 1 /\ stack[k - 1].msg = 0

StackInv == StackTyped /\ MessageInUse /\ MessagesDiffer /\ HookWaits

LEMMA TopTyped ==
  ASSUME StackTyped, Depth > 0
  PROVE  Top.msg \in Nat /\ Top.pc \in Phases /\ Top.by \in Waiting
<1>1. PICK R, O : stack \in Seq(FramesOver(R, O)) BY DEF StackTyped
<1>2. Top \in FramesOver(R, O) BY <1>1 DEF Depth, Top
<1> QED BY <1>2 DEF FramesOver

(* A larger set of frames.                                                 *)
LEMMA FramesWiden ==
  ASSUME NEW R, NEW O, NEW R1, NEW O1, R \subseteq R1, O \subseteq O1
  PROVE  FramesOver(R, O) \subseteq FramesOver(R1, O1)
BY DEF FramesOver

LEMMA SeqWiden ==
  ASSUME NEW S, NEW T, S \subseteq T, NEW s \in Seq(S)
  PROVE  s \in Seq(T)
<1>1. /\ Len(s) \in Nat
      /\ s \in [1 .. Len(s) -> S]
  BY LenProperties
<1>2. s \in [1 .. Len(s) -> T] BY <1>1
<1> QED BY <1>1, <1>2, SeqDef

(* The call on top goes on.                                                *)
LEMMA TopSet ==
  ASSUME StackTyped, Depth > 0, NEW f, \E R, O : f \in FramesOver(R, O), SetTop(f)
  PROVE  /\ StackTyped' /\ Depth \in Nat /\ Depth' = Depth /\ Top' = f
         /\ \A k \in 1 .. Depth : stack'[k] = IF k = Depth THEN f ELSE stack[k]
<1>1. PICK R, O : stack \in Seq(FramesOver(R, O)) BY DEF StackTyped
<1>2. PICK R1, O1 : f \in FramesOver(R1, O1) OBVIOUS
<1> DEFINE S == FramesOver(R \cup R1, O \cup O1)
<1>3. FramesOver(R, O) \subseteq S /\ FramesOver(R1, O1) \subseteq S BY FramesWiden
<1>4. stack \in Seq(S) /\ f \in S BY <1>1, <1>2, <1>3, SeqWiden
<1> HIDE DEF S
<1>5. Depth \in Nat /\ Depth \in 1 .. Len(stack) BY <1>4 DEF Depth
<1>6. stack' = [stack EXCEPT ![Depth] = f] BY DEF SetTop
<1>7. stack' \in Seq(S) /\ Len(stack') = Len(stack)
      /\ \A k \in 1 .. Len(stack) : stack'[k] = IF k = Depth THEN f ELSE stack[k]
  BY <1>4, <1>5, <1>6
<1>8. StackTyped' BY <1>7 DEF StackTyped, S
<1> QED BY <1>5, <1>7, <1>8 DEF Depth, Top

(* The call on top has returned.                                           *)
LEMMA TopGone ==
  ASSUME StackTyped, Depth > 0, stack' = Pop
  PROVE  /\ StackTyped' /\ Depth \in Nat /\ Depth' = Depth - 1
         /\ \A k \in 1 .. (Depth - 1) : stack'[k] = stack[k]
<1>1. PICK R, O : stack \in Seq(FramesOver(R, O)) BY DEF StackTyped
<1> DEFINE S == FramesOver(R, O)
<1>2. stack \in Seq(S) BY <1>1
<1> HIDE DEF S
<1>3. Depth \in Nat BY <1>2 DEF Depth
<1>4. /\ stack' \in Seq(S) /\ Len(stack') = Depth - 1
      /\ \A k \in 1 .. (Depth - 1) : stack'[k] = stack[k]
  <2>1. Depth - 1 \in 0 .. Len(stack) /\ Depth = Len(stack) BY <1>3 DEF Depth
  <2>2. \A k \in 1 .. (Depth - 1) : stack[k] \in S BY <1>2, <1>3, <2>1
  <2> QED BY <1>2, <1>3, <2>1, <2>2, SubSeqProperties DEF Pop
<1>5. StackTyped' BY <1>4 DEF StackTyped, S
<1> QED BY <1>3, <1>4, <1>5 DEF Depth

(* Another call begins.                                                    *)
LEMMA TopAdded ==
  ASSUME NEW R, NEW O, NEW s \in Seq(FramesOver(R, O)), NEW req, NEW by \in Waiting,
         stack' = Append(s, Call(req, by))
  PROVE  /\ StackTyped' /\ Depth' = Len(s) + 1 /\ Len(s) \in Nat
         /\ stack'[Len(s) + 1] = Call(req, by)
         /\ \A k \in 1 .. Len(s) : stack'[k] = s[k]
<1> DEFINE S == FramesOver(R \cup {req}, O \cup {"NONE"})
<1>1. FramesOver(R, O) \subseteq S BY FramesWiden
<1>2. Call(req, by) \in S BY DEF Call, FramesOver, Phases
<1>3. s \in Seq(S) BY <1>1, SeqWiden
<1> HIDE DEF S
<1>4. /\ stack' \in Seq(S) /\ Len(stack') = Len(s) + 1 /\ Len(s) \in Nat
      /\ stack'[Len(s) + 1] = Call(req, by)
      /\ \A k \in 1 .. Len(s) : stack'[k] = s[k]
  BY <1>2, <1>3, AppendProperties, LenProperties
<1>5. StackTyped' BY <1>4 DEF StackTyped, S
<1> QED BY <1>4, <1>5 DEF Depth

-----------------------------------------------------------------------------
(* What the steps of a call do to the messages under way.                  *)

LEMMA InMessages ==
  \A a : a \in Messages <=> a # 0 /\ \E k \in 1 .. Depth : stack[k].msg = a
BY DEF Messages

(* The call on top goes on with the message it has, or with none.          *)
LEMMA TopKeepsMessage ==
  ASSUME StackInv, Depth > 0, NEW f, \E R, O : f \in FramesOver(R, O), SetTop(f),
         f.msg = Top.msg, f.by = Top.by, f.msg # 0 => f.pc \in {"world", "back"}
  PROVE  StackInv' /\ Messages' = Messages
<1> USE DEF StackInv
<1>1. /\ StackTyped' /\ Depth \in Nat /\ Depth' = Depth
      /\ \A k \in 1 .. Depth : stack'[k] = IF k = Depth THEN f ELSE stack[k]
  BY TopSet
<1>2. \A k \in 1 .. Depth : stack'[k].msg = stack[k].msg /\ stack'[k].by = stack[k].by
  BY <1>1 DEF Top
<1>3. MessageInUse' BY <1>1 DEF MessageInUse
<1>4. MessagesDiffer' BY <1>1, <1>2 DEF MessagesDiffer
<1>5. HookWaits' BY <1>1, <1>2 DEF HookWaits
<1>6. Messages' = Messages BY <1>1, <1>2 DEF Messages
<1> QED BY <1>1, <1>3, <1>4, <1>5, <1>6

LEMMA TopMovesOn ==
  ASSUME StackInv, Depth > 0, NEW p \in Phases,
         SetTop([Top EXCEPT !.pc = p]),
         Top.msg # 0 => p \in {"world", "back"}
  PROVE  StackInv' /\ Messages' = Messages
<1> DEFINE t == Top
           f == [t EXCEPT !.pc = p]
<1>1. PICK R, O : stack \in Seq(FramesOver(R, O)) BY DEF StackInv, StackTyped
<1>2. t \in FramesOver(R, O) BY <1>1 DEF Depth, Top
<1>3. t \in FramesOver(R, O) BY <1>2 DEF FramesOver
<1>4. SetTop(f) OBVIOUS
<1> HIDE DEF t
<1>5. /\ f.pc = p /\ f.msg = t.msg /\ f.by = t.by
      /\ f \in FramesOver(R, O)
  BY <1>3 DEF FramesOver
<1> HIDE DEF f
<1> QED BY <1>4, <1>5, TopKeepsMessage DEF t

LEMMA TopAnswered ==
  ASSUME StackInv, Depth > 0, NEW p \in Phases, NEW o,
         SetTop([Top EXCEPT !.pc = p, !.out = o]),
         Top.msg # 0 => p \in {"world", "back"}
  PROVE  StackInv' /\ Messages' = Messages
<1> DEFINE t == Top
           f == [t EXCEPT !.pc = p, !.out = o]
<1>1. PICK R, O : stack \in Seq(FramesOver(R, O)) BY DEF StackInv, StackTyped
<1>2. t \in FramesOver(R, O) BY <1>1 DEF Depth, Top
<1>3. t \in FramesOver(R, O \cup {o}) BY <1>2 DEF FramesOver
<1>4. SetTop(f) OBVIOUS
<1> HIDE DEF t
<1>5. /\ f.pc = p /\ f.msg = t.msg /\ f.by = t.by
      /\ f \in FramesOver(R, O \cup {o})
  BY <1>3 DEF FramesOver
<1> HIDE DEF f
<1> QED BY <1>4, <1>5, TopKeepsMessage DEF t

(* It takes a message nobody has.                                          *)
LEMMA TopTakesMessage ==
  ASSUME StackInv, Depth > 0, NEW f, \E R, O : f \in FramesOver(R, O), SetTop(f),
         Top.msg = 0, f.msg # 0, f.msg \notin Messages, f.pc = "world", f.by = Top.by
  PROVE  StackInv' /\ Messages' = Messages \cup {f.msg}
<1> USE DEF StackInv
<1>1. /\ StackTyped' /\ Depth \in Nat /\ Depth' = Depth
      /\ \A k \in 1 .. Depth : stack'[k] = IF k = Depth THEN f ELSE stack[k]
  BY TopSet
<1>2. \A k \in 1 .. Depth : stack[k].msg # f.msg BY InMessages
<1>3. MessageInUse' BY <1>1 DEF MessageInUse
<1>4. MessagesDiffer' BY <1>1, <1>2 DEF MessagesDiffer
<1>5. HookWaits' BY <1>1 DEF HookWaits, Top
<1>6. Depth \in 1 .. Depth BY <1>1
<1>7. \A a : a \in Messages' <=> a # 0 /\ \E k \in 1 .. Depth : stack'[k].msg = a
  BY <1>1 DEF Messages
<1>8. \A a : a \in Messages' <=> a \in Messages \/ a = f.msg
  BY <1>1, <1>6, <1>7, InMessages DEF Top
<1>9. Messages' = Messages \cup {f.msg} BY <1>8
<1> QED BY <1>1, <1>3, <1>4, <1>5, <1>9

LEMMA TopEnters ==
  ASSUME StackInv, Depth > 0, NEW p \in Phases, NEW m \in Nat,
         SetTop([Top EXCEPT !.pc = p, !.msg = m]),
         Top.msg = 0, m # 0, m \notin Messages, p = "world"
  PROVE  StackInv' /\ Messages' = Messages \cup {m}
<1> DEFINE t == Top
           f == [t EXCEPT !.pc = p, !.msg = m]
<1>1. PICK R, O : stack \in Seq(FramesOver(R, O)) BY DEF StackInv, StackTyped
<1>2. t \in FramesOver(R, O) BY <1>1 DEF Depth, Top
<1>3. t \in FramesOver(R, O) BY <1>2 DEF FramesOver
<1>4. SetTop(f) OBVIOUS
<1> HIDE DEF t
<1>5. /\ f.pc = p /\ f.msg = m /\ f.by = t.by
      /\ f \in FramesOver(R, O)
  BY <1>3 DEF FramesOver
<1> HIDE DEF f
<1> QED BY <1>4, <1>5, TopTakesMessage DEF t

(* It gives its message back.                                              *)
LEMMA TopGivesMessage ==
  ASSUME StackInv, Depth > 0, NEW f, \E R, O : f \in FramesOver(R, O), SetTop(f),
         Top.msg # 0, f.msg = 0, f.by = Top.by
  PROVE  StackInv' /\ Messages' = Messages \ {Top.msg} /\ Top.msg \in Messages
<1> USE DEF StackInv
<1>1. /\ StackTyped' /\ Depth \in Nat /\ Depth' = Depth
      /\ \A k \in 1 .. Depth : stack'[k] = IF k = Depth THEN f ELSE stack[k]
  BY TopSet
<1>2. Depth \in 1 .. Depth BY <1>1
<1>3. \A k \in 1 .. Depth : k # Depth => stack[k].msg # Top.msg
  BY <1>2 DEF MessagesDiffer, Top
<1>4. MessageInUse' BY <1>1 DEF MessageInUse
<1>5. MessagesDiffer' BY <1>1 DEF MessagesDiffer
<1>6. HookWaits' BY <1>1 DEF HookWaits, Top
<1>7. \A a : a \in Messages' <=> a # 0 /\ \E k \in 1 .. Depth : stack'[k].msg = a
  BY <1>1 DEF Messages
<1>8. \A a : a \in Messages' <=> a \in Messages /\ a # Top.msg
  BY <1>1, <1>3, <1>7, InMessages DEF Top
<1>9. Messages' = Messages \ {Top.msg} BY <1>8
<1>10. Top.msg \in Messages BY <1>2, InMessages DEF Top
<1> QED BY <1>1, <1>4, <1>5, <1>6, <1>9, <1>10

LEMMA TopLeaves ==
  ASSUME StackInv, Depth > 0, NEW p \in Phases,
         SetTop([Top EXCEPT !.pc = p, !.msg = 0]),
         Top.msg # 0
  PROVE  StackInv' /\ Messages' = Messages \ {Top.msg} /\ Top.msg \in Messages
<1> DEFINE t == Top
           f == [t EXCEPT !.pc = p, !.msg = 0]
<1>1. PICK R, O : stack \in Seq(FramesOver(R, O)) BY DEF StackInv, StackTyped
<1>2. t \in FramesOver(R, O) BY <1>1 DEF Depth, Top
<1>3. t \in FramesOver(R, O) BY <1>2 DEF FramesOver
<1>4. SetTop(f) OBVIOUS
<1> HIDE DEF t
<1>5. /\ f.pc = p /\ f.msg = 0 /\ f.by = t.by
      /\ f \in FramesOver(R, O)
  BY <1>3 DEF FramesOver
<1> HIDE DEF f
<1> QED BY <1>4, <1>5, TopGivesMessage DEF t

(* A call without a message returns.                                       *)
LEMMA TopReturns ==
  ASSUME StackInv, Depth > 0, stack' = Pop, Top.msg = 0
  PROVE  StackInv' /\ Messages' = Messages
<1> USE DEF StackInv
<1>1. /\ StackTyped' /\ Depth \in Nat /\ Depth' = Depth - 1
      /\ \A k \in 1 .. (Depth - 1) : stack'[k] = stack[k]
  BY TopGone
<1>2. MessageInUse' /\ MessagesDiffer' /\ HookWaits'
  BY <1>1 DEF MessageInUse, MessagesDiffer, HookWaits
<1>3. \A a : a \in Messages' <=> a # 0 /\ \E k \in 1 .. (Depth - 1) : stack'[k].msg = a
  BY <1>1 DEF Messages
<1>4. \A k \in 1 .. Depth : k \in 1 .. (Depth - 1) \/ k = Depth BY <1>1
<1>5. 1 .. (Depth - 1) \subseteq 1 .. Depth BY <1>1
<1>6. \A a : a \in Messages' <=> a \in Messages
  BY <1>1, <1>3, <1>4, <1>5, InMessages DEF Top
<1> QED BY <1>1, <1>2, <1>6

(* It was the only one.                                                    *)
LEMMA LastReturns ==
  ASSUME StackInv, Depth = 0 \/ (Depth = 1 /\ Top.msg = 0), stack' = <<>>
  PROVE  StackInv' /\ Messages' = Messages
<1> USE DEF StackInv
<1>1. Depth' = 0 BY DEF Depth
<1>2. StackTyped' BY DEF StackTyped
<1>3. MessageInUse' /\ MessagesDiffer' /\ HookWaits'
  BY <1>1 DEF MessageInUse, MessagesDiffer, HookWaits
<1>4. \A a : a \notin Messages' BY <1>1 DEF Messages
<1>5. \A a : a \notin Messages BY InMessages DEF Top
<1> QED BY <1>2, <1>3, <1>4, <1>5

(* A call begins above the others, of which the last may have moved on.    *)
LEMMA BeginsAbove ==
  ASSUME StackInv, NEW R, NEW O, NEW s \in Seq(FramesOver(R, O)),
         NEW req, NEW by \in Waiting, stack' = Append(s, Call(req, by)),
         Len(s) = Depth,
         \A k \in 1 .. Depth :
           /\ s[k].msg = stack[k].msg /\ s[k].by = stack[k].by
           /\ s[k].msg # 0 => s[k].pc \in {"world", "back"},
         by = "hook" => Depth > 0 /\ Top.msg = 0
  PROVE  StackInv' /\ Messages' = Messages
<1> USE DEF StackInv
<1>2. /\ StackTyped' /\ Depth' = Depth + 1 /\ Depth \in Nat
      /\ stack'[Depth + 1] = Call(req, by)
      /\ \A k \in 1 .. Depth :
           /\ stack'[k].msg = stack[k].msg /\ stack'[k].by = stack[k].by
           /\ stack'[k].msg # 0 => stack'[k].pc \in {"world", "back"}
  BY TopAdded
<1>3. Call(req, by).msg = 0 /\ Call(req, by).by = by BY DEF Call
<1>4. \A k \in 1 .. (Depth + 1) : k \in 1 .. Depth \/ k = Depth + 1 BY <1>2
<1>5. 1 .. Depth \subseteq 1 .. (Depth + 1) BY <1>2
<1>6. MessageInUse' /\ MessagesDiffer'
  <2>1. \A k \in 1 .. Depth' : stack'[k].msg # 0 =>
          /\ k \in 1 .. Depth /\ stack'[k].msg = stack[k].msg
          /\ stack'[k].pc \in {"world", "back"}
    BY <1>2, <1>3, <1>4
  <2>2. MessageInUse' BY <2>1 DEF MessageInUse
  <2>3. MessagesDiffer' BY <1>2, <1>3, <1>4, <2>1 DEF MessagesDiffer
  <2> QED BY <2>2, <2>3
<1>7. HookWaits'
  <2> SUFFICES ASSUME NEW k \in 1 .. (Depth + 1), stack'[k].by = "hook"
               PROVE  k > 1 /\ stack'[k - 1].msg = 0
    BY <1>2 DEF HookWaits
  <2>1. CASE k \in 1 .. Depth
    <3>1. k > 1 /\ stack[k - 1].msg = 0 BY <1>2, <2>1 DEF HookWaits
    <3>2. k - 1 \in 1 .. Depth BY <1>2, <2>1, <3>1
    <3> QED BY <1>2, <3>1, <3>2
  <2>2. CASE k = Depth + 1
    <3>1. Depth > 0 /\ stack[Depth].msg = 0 BY <1>2, <1>3, <2>2 DEF Top
    <3>2. k > 1 /\ k - 1 = Depth /\ Depth \in 1 .. Depth BY <1>2, <2>2, <3>1
    <3> QED BY <1>2, <3>1, <3>2
  <2> QED BY <1>4, <2>1, <2>2
<1>8. \A a : a \in Messages' <=> a # 0 /\ \E k \in 1 .. (Depth + 1) : stack'[k].msg = a
  BY <1>2 DEF Messages
<1>9. \A a : a \in Messages' <=> a \in Messages
  <2>1. ASSUME NEW a \in Messages' PROVE a \in Messages
    <3>1. PICK k \in 1 .. (Depth + 1) : stack'[k].msg = a /\ a # 0 BY <1>8, <2>1
    <3>2. k \in 1 .. Depth BY <1>2, <1>3, <1>4, <3>1
    <3> QED BY <1>2, <3>1, <3>2, InMessages
  <2>2. ASSUME NEW a \in Messages PROVE a \in Messages'
    <3>1. PICK k \in 1 .. Depth : stack[k].msg = a /\ a # 0 BY <2>2, InMessages
    <3>2. k \in 1 .. (Depth + 1) BY <1>5, <3>1
    <3> QED BY <1>2, <1>8, <3>1, <3>2
  <2> QED BY <2>1, <2>2
<1> QED BY <1>2, <1>6, <1>7, <1>9

LEMMA CallBegins ==
  ASSUME StackInv, NEW req, NEW by \in {"main", "event"},
         stack' = Append(stack, Call(req, by))
  PROVE  StackInv' /\ Messages' = Messages
<1>1. PICK R, O : stack \in Seq(FramesOver(R, O)) BY DEF StackInv, StackTyped
<1> QED BY <1>1, BeginsAbove DEF StackInv, MessageInUse, Depth, Waiting

(* The call on top waits for one it starts itself.                         *)
LEMMA HookBegins ==
  ASSUME StackInv, Depth > 0, Top.msg = 0, NEW req, NEW p \in Phases,
         stack' = Append([stack EXCEPT ![Depth].pc = p], Call(req, "hook"))
  PROVE  StackInv' /\ Messages' = Messages
<1> DEFINE f == [stack[Depth] EXCEPT !.pc = p]
           s == [stack EXCEPT ![Depth] = f]
<1>1. PICK R, O : stack \in Seq(FramesOver(R, O)) BY DEF StackInv, StackTyped
<1>2. Depth \in 1 .. Len(stack) /\ Len(stack) = Depth BY <1>1 DEF Depth
<1>3. stack[Depth] \in FramesOver(R, O) BY <1>1, <1>2
<1>4. /\ f \in FramesOver(R, O) /\ f.msg = stack[Depth].msg
      /\ f.by = stack[Depth].by
  BY <1>3 DEF FramesOver
<1> HIDE DEF f
<1>5. /\ s \in Seq(FramesOver(R, O)) /\ Len(s) = Depth
      /\ \A k \in 1 .. Depth : s[k] = IF k = Depth THEN f ELSE stack[k]
  BY <1>1, <1>2, <1>4, ExceptSeq
<1>6. stack' = Append(s, Call(req, "hook")) BY DEF f
<1> HIDE DEF s
<1>7. \A k \in 1 .. Depth :
        /\ s[k].msg = stack[k].msg /\ s[k].by = stack[k].by
        /\ s[k].msg # 0 => s[k].pc \in {"world", "back"}
  BY <1>4, <1>5 DEF Top, StackInv, MessageInUse
<1> QED BY <1>5, <1>6, <1>7, BeginsAbove DEF Waiting

(* And is resumed.                                                         *)
LEMMA HookReturns ==
  ASSUME StackInv, Depth > 1, Top.by = "hook", Top.msg = 0, NEW p \in Phases,
         stack' = [Pop EXCEPT ![Depth - 1].pc = p]
  PROVE  StackInv' /\ Messages' = Messages
<1> USE DEF StackInv
<1> DEFINE d == Depth - 1
           f == [Pop[d] EXCEPT !.pc = p]
<1>1. PICK R, O : stack \in Seq(FramesOver(R, O)) BY DEF StackTyped
<1> DEFINE S == FramesOver(R, O)
<1>2. Depth \in Nat /\ Depth = Len(stack) /\ d \in 1 .. Len(stack) BY <1>1 DEF Depth
<1>3. Pop \in Seq(S) /\ Len(Pop) = d /\ \A k \in 1 .. d : Pop[k] = stack[k]
  <2>1. \A k \in 1 .. d : stack[k] \in S BY <1>1, <1>2
  <2> HIDE DEF S
  <2> QED BY <1>2, <2>1, SubSeqProperties DEF Pop
<1>4. stack[d].msg = 0
  <2>1. Depth \in 1 .. Depth BY <1>2
  <2> QED BY <2>1 DEF HookWaits, Top
<1>5. d \in 1 .. d /\ d \in 1 .. Depth /\ 1 .. d \subseteq 1 .. Depth BY <1>2
<1>6. f \in S /\ f.msg = 0 /\ f.by = stack[d].by
  <2>1. Pop[d] = stack[d] /\ stack[d] \in S BY <1>1, <1>2, <1>3, <1>5
  <2> QED BY <1>4, <2>1 DEF FramesOver
<1> HIDE DEF S, f, d
<1>7. stack' = [Pop EXCEPT ![d] = f] BY DEF f, d
<1>8. /\ stack' \in Seq(S) /\ Len(stack') = d
      /\ \A k \in 1 .. d : stack'[k] = IF k = d THEN f ELSE stack[k]
  <2> DEFINE q == Pop
  <2>1. q \in Seq(S) /\ d \in 1 .. Len(q) /\ Len(q) = d BY <1>3, <1>5
  <2>2. \A k \in 1 .. d : q[k] = stack[k] BY <1>3
  <2>3. stack' = [q EXCEPT ![d] = f] BY <1>7
  <2> HIDE DEF q
  <2>4. /\ [q EXCEPT ![d] = f] \in Seq(S) /\ Len([q EXCEPT ![d] = f]) = Len(q)
        /\ \A k \in 1 .. Len(q) : [q EXCEPT ![d] = f][k] = IF k = d THEN f ELSE q[k]
    BY <1>6, <2>1, ExceptSeq
  <2> QED BY <2>1, <2>2, <2>3, <2>4
<1>9. StackTyped' BY <1>8 DEF StackTyped, S
<1>10. Depth' = d BY <1>8 DEF Depth
<1>11. \A k \in 1 .. d : stack'[k].msg = stack[k].msg /\ stack'[k].by = stack[k].by
  BY <1>4, <1>6, <1>8
<1>12. MessageInUse'
  <2>1. \A k \in 1 .. d : stack'[k].msg # 0 => k \in 1 .. Depth /\ stack'[k] = stack[k]
    BY <1>4, <1>5, <1>8, <1>11
  <2> QED BY <1>10, <2>1 DEF MessageInUse
<1>13. MessagesDiffer' BY <1>5, <1>10, <1>11 DEF MessagesDiffer
<1>14. HookWaits'
  <2> SUFFICES ASSUME NEW k \in 1 .. d, stack[k].by = "hook"
               PROVE  k > 1 /\ stack'[k - 1].msg = 0
    BY <1>10, <1>11 DEF HookWaits
  <2>1. k > 1 /\ stack[k - 1].msg = 0 BY <1>5 DEF HookWaits
  <2>2. k - 1 \in 1 .. d BY <1>2, <2>1
  <2> QED BY <1>11, <2>1, <2>2
<1>15. Messages' = Messages
  <2>1. \A k \in 1 .. Depth : k \in 1 .. d \/ k = Depth BY <1>2 DEF d
  <2>2. \A a : a \in Messages' <=> a # 0 /\ \E k \in 1 .. d : stack[k].msg = a
    BY <1>10, <1>11 DEF Messages
  <2>3. \A a : a \in Messages' <=> a \in Messages
    BY <1>5, <2>1, <2>2, InMessages DEF Top
  <2> QED BY <2>3
<1> QED BY <1>9, <1>12, <1>13, <1>14, <1>15

-----------------------------------------------------------------------------
(* What the calls of the allocator do to the addresses of live blocks and  *)
(* of all that the GCD has allocated.                                      *)

GcdBases == {b.base : b \in gcd}

LiveExact ==
  /\ \A a : a \in LiveBases <=> a \in Page /\ header[a] # NoHeader
  /\ LiveBases \subseteq GcdBases

LEMMA LiveAt == (MemInv => LiveExact) /\ (MemInv' => LiveExact')
<1>1. MemInv => LiveExact
  <2> SUFFICES ASSUME MemInv PROVE LiveExact OBVIOUS
  <2>1. \A p \in Page : header[p] # NoHeader => header[p] \in gcd /\ header[p].base = p
    BY DEF MemInv, HeadersStand
  <2> QED BY <2>1 DEF LiveBases, Live, GcdBases, LiveExact
<1> QED BY <1>1, PTL

LEMMA AllocEffect ==
  ASSUME MemInv, NEW i \in Clients, NEW n \in Nat \ {0, 1}, NEW b \in TopDown(n),
         Allocated(i, n, b)
  PROVE  /\ LiveBases' = LiveBases \cup {b.base} /\ b.base \notin GcdBases
         /\ GcdBases' = GcdBases \cup {b.base} /\ b.base \in Page
<1>1. n \in 2 .. PoolPages
  <2>1. b.base \in Page /\ b.pages = n /\ Heap!InPool(b) BY DEF TopDown, Fits
  <2> QED BY <2>1, PoolAssumption DEF Heap!InPool, Page
<1>2. MemInv' BY <1>1, AllocatedKeeps
<1>3. /\ b \in Block /\ b.base \in Page /\ \A c \in gcd : Heap!Disjoint(b, c)
  BY <1>1, FoundIsFree
<1>4. gcd' = gcd \cup {b} /\ header' = [header EXCEPT ![b.base] = b] BY DEF Allocated
<1>5. header \in [Page -> Block \cup {NoHeader}] BY DEF MemInv, MemTypeOK
<1>6. \A p \in Page : header'[p] = IF p = b.base THEN b ELSE header[p] BY <1>4, <1>5
<1>7. b # NoHeader BY <1>3, NoHeaderAssumption
<1>8. \A a : a \in LiveBases' <=> a \in LiveBases \/ a = b.base
  <2>1. /\ \A a : a \in LiveBases <=> a \in Page /\ header[a] # NoHeader
        /\ \A a : a \in LiveBases' <=> a \in Page /\ header'[a] # NoHeader
    BY <1>2, LiveAt DEF LiveExact, Page
  <2> QED BY <1>3, <1>6, <1>7, <2>1
<1>9. b.base \notin GcdBases
  <2> SUFFICES ASSUME NEW c \in gcd, c.base = b.base PROVE FALSE BY DEF GcdBases
  <2>1. c \in Block BY DEF MemInv, MemTypeOK
  <2>2. b.base \in Pages(b) /\ b.base \in Pages(c) BY <1>3, <2>1, OwnPages
  <2> QED BY <1>3, <2>2 DEF Heap!Disjoint, Pages
<1>10. GcdBases' = GcdBases \cup {b.base} BY <1>4 DEF GcdBases
<1> QED BY <1>3, <1>8, <1>9, <1>10

LEMMA FreeEffect ==
  ASSUME MemInv, NEW a, FreeFails(a) \/ \E i \in Clients : Freed(i, a)
  PROVE  /\ LiveBases' = LiveBases \ {a} /\ a \in LiveBases /\ a # 0
         /\ GcdBases \ {a} \subseteq GcdBases'
         /\ gcd' = gcd => GcdBases' = GcdBases
         /\ (\E i \in Clients : Freed(i, a)) => gcd' # gcd
         /\ FreeFails(a) => gcd' = gcd
<1> DEFINE b == HeaderAt(a)
<1>1. b # NoHeader /\ Fenced(b) BY DEF FreeFails, Freed
<1>2. a \in Page /\ b = header[a] BY <1>1 DEF HeaderAt
<1>3. /\ b \in gcd
      /\ \A p \in Page : header'[p] = IF p = a THEN NoHeader ELSE header[p]
  BY <1>1, <1>2, FencedKeeps
<1>4. b.base = a BY <1>1, <1>2 DEF MemInv, HeadersStand
<1>5. MemInv' BY <1>2, FreedKeeps
<1>6. \A c : c \in LiveBases' <=> c \in LiveBases /\ c # a
  <2>1. /\ \A c : c \in LiveBases <=> c \in Page /\ header[c] # NoHeader
        /\ \A c : c \in LiveBases' <=> c \in Page /\ header'[c] # NoHeader
    BY <1>5, LiveAt DEF LiveExact, Page
  <2> QED BY <1>2, <1>3, <2>1
<1>7. a \in LiveBases BY <1>1, <1>2, LiveAt DEF LiveExact
<1>8. gcd' = gcd \/ gcd' = gcd \ {b} BY DEF FreeFails, Freed
<1>9. GcdBases \ {a} \subseteq GcdBases' BY <1>4, <1>8 DEF GcdBases
<1>10. (\E i \in Clients : Freed(i, a)) => gcd' = gcd \ {b} BY DEF Freed
<1>11. FreeFails(a) => gcd' = gcd BY DEF FreeFails
<1>12. a # 0 BY <1>2 DEF Page
<1> QED BY <1>3, <1>6, <1>7, <1>9, <1>10, <1>11, <1>12 DEF GcdBases

(* Whatever else happens to the allocator.                                 *)
LEMMA OtherEffect ==
  ASSUME MemInv,
         \/ Initialized \/ InitializeFails
         \/ \E n \in Nat : NotAllocated(n)
         \/ \E a : Refused(a)
         \/ \E b \in Live : Overrun(b)
         \/ UNCHANGED memVars
  PROVE  LiveBases' = LiveBases /\ GcdBases \subseteq GcdBases'
<1>1. CASE Initialized \/ InitializeFails
  <2>1. UNCHANGED Live BY <1>1, OthersKeep
  <2>2. gcd \subseteq gcd'
    BY <1>1 DEF Initialized, InitializeFails, memVars, MemInv, NothingBefore
  <2> QED BY <2>1, <2>2 DEF LiveBases, GcdBases
<1>2. CASE \/ \E n \in Nat : NotAllocated(n)
           \/ \E a : Refused(a)
           \/ \E b \in Live : Overrun(b)
           \/ UNCHANGED memVars
  <2>1. header' = header /\ gcd \subseteq gcd'
    BY <1>2 DEF NotAllocated, Refused, Overrun, memVars
  <2> QED BY <2>1 DEF LiveBases, Live, GcdBases
<1> QED BY <1>1, <1>2

-----------------------------------------------------------------------------
(* Who owns the blocks.  What the exit handler releases it counts on no    *)
(* more, but the GCD may have refused to take it back: then nobody else is *)
(* given these pages.                                                      *)

Releasing == {"release", "releaseResult", "gone"}
Early == {"load", "open", "param"}

Retained == Messages \cup (world \ {0}) \cup ({tpmMem} \ {0})

HeldIsLive ==
  /\ Retained \subseteq LiveBases
  /\ main \notin Releasing => Transport \subseteq LiveBases
  /\ LiveBases \subseteq Retained \cup Transport
OneHolder ==
  /\ Messages \cap (world \cup Transport \cup {tpmMem}) = {}
  /\ world \cap (Transport \cup {tpmMem}) \subseteq {0}
  /\ tpmMem \notin Transport
  /\ paramMem = resultMem => paramMem = 0
  /\ Transport \subseteq GcdBases
BuffersByStage ==
  /\ main \in Early => paramMem = 0
  /\ main \in Early \cup {"result"} => resultMem = 0

Owned == HeldIsLive /\ OneHolder /\ BuffersByStage /\ world \subseteq Page \cup {0}

OwnInv == MemInv /\ StackInv /\ Owned

(* A stage after which neither buffer is newly expected or given up.       *)
Onward ==
  /\ main \in Releasing => main' \in Releasing
  /\ main' \in Early => main \in Early
  /\ main' = "result" => main \in Early \cup {"result"}

LEMMA OwnersKept ==
  ASSUME OwnInv, Messages' = Messages, LiveBases' = LiveBases,
         GcdBases \subseteq GcdBases', Onward,
         world' \ {0} = world \ {0}, UNCHANGED <<tpmMem, paramMem, resultMem>>
  PROVE  Owned'
<1>1. Transport' = Transport /\ Retained' = Retained BY DEF Transport, Retained
<1>2. HeldIsLive' BY <1>1 DEF OwnInv, Owned, HeldIsLive, Onward
<1>3. 0 \notin Messages BY InMessages
<1>4. \A a : a \in world' => a \in world \/ a = 0 OBVIOUS
<1>5. OneHolder' BY <1>1, <1>3, <1>4 DEF OwnInv, Owned, OneHolder, Transport
<1>6. BuffersByStage' BY DEF OwnInv, Owned, BuffersByStage, Onward
<1>7. (world \subseteq Page \cup {0})' BY <1>4 DEF OwnInv, Owned, Page
<1> QED BY <1>2, <1>5, <1>6, <1>7 DEF Owned

(* A new block gets one owner: the call on top, the secure world, the TPM  *)
(* command or a transport buffer.                                          *)
LEMMA OwnerFound ==
  ASSUME OwnInv, NEW a \in Page, LiveBases' = LiveBases \cup {a}, a \notin GcdBases,
         GcdBases \subseteq GcdBases', a \in GcdBases',
         \/ /\ Messages' = Messages \cup {a} /\ main' = main
            /\ UNCHANGED <<world, tpmMem, paramMem, resultMem>>
         \/ /\ Messages' = Messages /\ main' = main
            /\ world' = world \cup {a} /\ UNCHANGED <<tpmMem, paramMem, resultMem>>
         \/ /\ Messages' = Messages /\ main' = main
            /\ tpmMem = 0 /\ tpmMem' = a /\ UNCHANGED <<world, paramMem, resultMem>>
         \/ /\ Messages' = Messages /\ main = "param" /\ main' = "result"
            /\ paramMem' = a /\ UNCHANGED <<world, tpmMem, resultMem>>
         \/ /\ Messages' = Messages /\ main = "result" /\ main' = "probe"
            /\ resultMem' = a /\ UNCHANGED <<world, tpmMem, paramMem>>
  PROVE  Owned'
<1> USE DEF OwnInv, Owned
<1>1. a # 0 BY DEF Page
<1>2. a \notin LiveBases BY LiveAt DEF LiveExact
<1>3. a \notin Retained /\ a \notin Transport
  BY <1>2 DEF HeldIsLive, OneHolder
<1>4. Retained' \subseteq Retained \cup {a} /\ Transport' \subseteq Transport \cup {a}
  BY <1>1 DEF Retained, Transport
<1>5. Retained' \cup Transport' = Retained \cup Transport \cup {a}
  BY <1>1 DEF Retained, Transport, BuffersByStage, Early
<1>7. main \in Releasing => main' \in Releasing BY DEF Releasing
<1>8. HeldIsLive' BY <1>4, <1>5, <1>7 DEF HeldIsLive
<1>9. OneHolder'
  BY <1>1, <1>3 DEF OneHolder, Retained, Transport, BuffersByStage, Early
<1>10. BuffersByStage' BY DEF BuffersByStage, Early
<1>11. world' \subseteq Page \cup {0} BY DEF Page
<1> QED BY <1>8, <1>9, <1>10, <1>11 DEF Page

(* A block that is given back had one owner, who forgets it; the exit      *)
(* handler only if the GCD took it back.                                   *)
LEMMA OwnerLost ==
  ASSUME OwnInv, NEW a, LiveBases' = LiveBases \ {a}, a \in LiveBases, a # 0,
         GcdBases \ {a} \subseteq GcdBases',
         \/ /\ a \in Messages /\ Messages' = Messages \ {a} /\ main' = main
            /\ UNCHANGED <<world, tpmMem, paramMem, resultMem>>
         \/ /\ Messages' = Messages /\ main' = main
            /\ a \in world /\ world' = world \ {a}
            /\ UNCHANGED <<tpmMem, paramMem, resultMem>>
         \/ /\ Messages' = Messages /\ main' = main
            /\ tpmMem = a /\ tpmMem' = 0 /\ UNCHANGED <<world, paramMem, resultMem>>
         \/ /\ Messages' = Messages /\ main = "release" /\ main' = "releaseResult"
            /\ a = paramMem
            /\ paramMem' = 0 \/ (paramMem' = paramMem /\ GcdBases' = GcdBases)
            /\ UNCHANGED <<world, tpmMem, resultMem>>
         \/ /\ Messages' = Messages /\ main = "releaseResult" /\ main' = "gone"
            /\ a = resultMem
            /\ resultMem' = 0 \/ (resultMem' = resultMem /\ GcdBases' = GcdBases)
            /\ UNCHANGED <<world, tpmMem, paramMem>>
  PROVE  Owned'
<1> USE DEF OwnInv, Owned
<1>1. Retained' \subseteq LiveBases'
  BY DEF Retained, Transport, HeldIsLive, OneHolder
<1>2. main' \notin Releasing => Transport' \subseteq LiveBases'
  BY DEF Retained, Transport, HeldIsLive, OneHolder, Releasing
<1>3. LiveBases' \subseteq Retained' \cup Transport'
  BY DEF Retained, Transport, HeldIsLive
<1>4. Transport' \subseteq GcdBases'
  BY DEF Transport, OneHolder
<1>5. Transport' \subseteq Transport /\ Messages' \subseteq Messages /\ world' \subseteq world
  BY DEF Transport
<1>6. tpmMem' = tpmMem \/ tpmMem' = 0 OBVIOUS
<1>7. Messages' \cap (world' \cup Transport' \cup {tpmMem'}) = {}
  BY <1>5, <1>6, InMessages DEF OneHolder
<1>8. tpmMem' \notin Transport'
  BY <1>5, <1>6 DEF OneHolder, Transport
<1>9. paramMem' = resultMem' => paramMem' = 0 BY DEF OneHolder, Transport
<1>10. world' \cap (Transport' \cup {tpmMem'}) \subseteq {0}
  BY <1>5, <1>6 DEF OneHolder
<1>11. OneHolder' BY <1>4, <1>7, <1>8, <1>9, <1>10 DEF OneHolder
<1>12. BuffersByStage' BY DEF BuffersByStage, Early
<1> QED BY <1>1, <1>2, <1>3, <1>5, <1>11, <1>12 DEF HeldIsLive, Page

-----------------------------------------------------------------------------
(* The steps.                                                              *)

LEMMA NoMessage ==
  ASSUME StackInv, Depth > 0, Top.pc \notin {"world", "back"}
  PROVE  Top.msg = 0 /\ (Depth = 1 \/ Depth > 1)
<1>1. PICK R, O : stack \in Seq(FramesOver(R, O)) BY DEF StackInv, StackTyped
<1>2. Depth \in Nat /\ Depth \in 1 .. Depth BY <1>1 DEF Depth
<1> QED BY <1>2 DEF StackInv, MessageInUse, Top

LEMMA SameStack ==
  ASSUME StackInv, UNCHANGED stack
  PROVE  StackInv' /\ Messages' = Messages /\ Depth' = Depth
BY DEF StackInv, StackTyped, MessageInUse, MessagesDiffer, HookWaits, Messages, Depth

LEMMA EmptyStack ==
  ASSUME stack = <<>>
  PROVE  Depth = 0 /\ \A c : Append(<<>>, c) = Append(stack, c)
BY DEF Depth

(* Calls into the secure world.                                            *)
LEMMA SendOwned == OwnInv /\ SendMessage => StackInv' /\ Owned'
<1> SUFFICES ASSUME OwnInv, SendMessage PROVE StackInv' /\ Owned'
  OBVIOUS
<1> USE DEF OwnInv
<1>1. Depth > 0 /\ Top.pc = "filled" BY DEF SendMessage
<1>2. Top.msg = 0 BY <1>1, NoMessage
<1>3. /\ UNCHANGED <<world, tpmMem, paramMem, resultMem>> /\ main' = main
      /\ Onward
  BY DEF SendMessage, driverVars, tpmVars, worldVars, Onward
<1>4. StackTyped BY DEF StackInv
<1>5. ASSUME NEW b \in TopDown(MsgPages), Allocated(Client(Top.req), MsgPages, b),
             SetTop([Top EXCEPT !.pc = "world", !.msg = b.base])
      PROVE  StackInv' /\ Owned'
  <2> MsgPages \in Nat \ {0, 1} BY DEF MsgPages
  <2>1. /\ LiveBases' = LiveBases \cup {b.base} /\ b.base \notin GcdBases
        /\ GcdBases' = GcdBases \cup {b.base} /\ b.base \in Page
    BY <1>5, AllocEffect, ClientIsClient
  <2>2. b.base \in Nat /\ b.base # 0 BY <2>1 DEF Page
  <2>4. b.base \notin Messages
    BY <2>1, LiveAt DEF LiveExact, Owned, HeldIsLive, Retained
  <2>5. "world" \in Phases BY DEF Phases
  <2>6. StackInv' /\ Messages' = Messages \cup {b.base}
    BY <1>1, <1>2, <1>5, <2>2, <2>4, <2>5, TopEnters
  <2> QED BY <1>3, <2>1, <2>6, OwnerFound
<1>6. ASSUME NotAllocated(MsgPages),
             SetTop([Top EXCEPT !.pc = "done", !.out = "OUT_OF_MEMORY"])
      PROVE  StackInv' /\ Owned'
  <2>1. "done" \in Phases BY DEF Phases
  <2>3. StackInv' /\ Messages' = Messages BY <1>1, <1>2, <1>6, <2>1, TopAnswered
  <2>4. LiveBases' = LiveBases /\ GcdBases \subseteq GcdBases'
    BY <1>6, OtherEffect DEF MsgPages
  <2> QED BY <1>3, <2>3, <2>4, OwnersKept
<1> QED BY <1>5, <1>6 DEF SendMessage

LEMMA FreeOwned == OwnInv /\ FreeMessage => StackInv' /\ Owned'
<1> SUFFICES ASSUME OwnInv, FreeMessage PROVE StackInv' /\ Owned'
  OBVIOUS
<1> USE DEF OwnInv
<1>1. Depth > 0 /\ Top.pc = "back" BY DEF FreeMessage
<1>2. UNCHANGED <<world, tpmMem, paramMem, resultMem>> /\ main' = main
  BY DEF FreeMessage, driverVars, tpmVars, worldVars
<1>3. FreeFails(Top.msg) \/ \E i \in Clients : Freed(i, Top.msg)
  BY ClientIsClient DEF FreeMessage
<1>4. /\ LiveBases' = LiveBases \ {Top.msg} /\ Top.msg \in LiveBases /\ Top.msg # 0
      /\ GcdBases \ {Top.msg} \subseteq GcdBases'
  BY <1>3, FreeEffect
<1>5. "done" \in Phases BY DEF Phases
<1>6. SetTop([Top EXCEPT !.pc = "done", !.msg = 0]) BY DEF FreeMessage
<1>7. StackInv' /\ Messages' = Messages \ {Top.msg} /\ Top.msg \in Messages
  BY <1>1, <1>4, <1>5, <1>6, TopLeaves
<1> QED BY <1>2, <1>4, <1>7, OwnerLost

(* Remote procedure calls: an address outside the pool is nobody's block,  *)
(* and the secure world is never refused one of its own.                   *)
LEMMA RpcAllocOwned == OwnInv /\ RpcAlloc => StackInv' /\ Owned'
<1> SUFFICES ASSUME OwnInv, RpcAlloc PROVE StackInv' /\ Owned'
  OBVIOUS
<1> USE DEF OwnInv
<1>1. UNCHANGED <<stack, tpmMem, paramMem, resultMem>> /\ main' = main /\ Onward
  BY DEF RpcAlloc, driverVars, tpmVars, Onward
<1>2. StackInv' /\ Messages' = Messages BY <1>1, SameStack
<1>3. ASSUME NEW b \in TopDown(MsgPages), Allocated(Client(Top.req), MsgPages, b),
             world' = world \cup {b.base}
      PROVE  Owned'
  <2> MsgPages \in Nat \ {0, 1} BY DEF MsgPages
  <2>1. /\ LiveBases' = LiveBases \cup {b.base} /\ b.base \notin GcdBases
        /\ GcdBases' = GcdBases \cup {b.base} /\ b.base \in Page
    BY <1>3, AllocEffect, ClientIsClient
  <2> QED BY <1>1, <1>2, <1>3, <2>1, OwnerFound
<1>4. ASSUME NotAllocated(MsgPages), world' = world \cup {0}
      PROVE  Owned'
  <2>1. LiveBases' = LiveBases /\ GcdBases \subseteq GcdBases'
    BY <1>4, OtherEffect DEF MsgPages
  <2>2. world' \ {0} = world \ {0} BY <1>4
  <2> QED BY <1>1, <1>2, <2>1, <2>2, OwnersKept
<1> QED BY <1>2, <1>3, <1>4 DEF RpcAlloc

LEMMA RpcFreeOwned == OwnInv /\ RpcFree => StackInv' /\ Owned'
<1> SUFFICES ASSUME OwnInv, RpcFree PROVE StackInv' /\ Owned'
  OBVIOUS
<1> USE DEF OwnInv
<1>1. UNCHANGED <<stack, tpmMem, paramMem, resultMem>> /\ main' = main /\ Onward
  BY DEF RpcFree, driverVars, tpmVars, Onward
<1>2. StackInv' /\ Messages' = Messages BY <1>1, SameStack
<1>3. PICK a \in world :
        /\ Refused(a) \/ FreeFails(a) \/ \E i \in Clients : Freed(i, a)
        /\ world' = world \ {a}
  BY ClientIsClient DEF RpcFree
<1>4. CASE Refused(a)
  <2>1. a = 0
    <3> SUFFICES ASSUME a # 0 PROVE FALSE OBVIOUS
    <3>1. a \in LiveBases BY DEF Owned, HeldIsLive, Retained
    <3>2. a \in Page /\ header[a] # NoHeader BY <3>1, LiveAt DEF LiveExact
    <3> QED BY <1>4, <3>2 DEF Refused, HeaderAt
  <2>2. LiveBases' = LiveBases /\ GcdBases \subseteq GcdBases'
    BY <1>4, OtherEffect
  <2>3. world' \ {0} = world \ {0} BY <1>3, <2>1
  <2> QED BY <1>1, <1>2, <2>2, <2>3, OwnersKept
<1>5. CASE FreeFails(a) \/ \E i \in Clients : Freed(i, a)
  <2>1. /\ LiveBases' = LiveBases \ {a} /\ a \in LiveBases /\ a # 0
        /\ GcdBases \ {a} \subseteq GcdBases'
    BY <1>5, FreeEffect
  <2> QED BY <1>1, <1>2, <1>3, <2>1, OwnerLost
<1> QED BY <1>3, <1>4, <1>5

(* TPM commands: one buffer, held by the command under way.                *)
LEMMA SubmitOwned ==
  ASSUME OwnInv, UNCHANGED <<main, world, paramMem, resultMem>>,
         NEW s, NEW by, SubmitStarts(s, by), Messages' = Messages
  PROVE  Owned'
<1> USE DEF OwnInv
<1>1. tpmMem = 0 BY DEF SubmitStarts
<1>2. PICK b \in TopDown(MsgPages) :
        Allocated("tpm", MsgPages, b) /\ tpmMem' = b.base
  BY DEF SubmitStarts
<1>3. MsgPages \in Nat \ {0, 1} /\ "tpm" \in Clients
  BY ClientsAssumption DEF MsgPages
<1>4. /\ LiveBases' = LiveBases \cup {b.base} /\ b.base \notin GcdBases
      /\ GcdBases' = GcdBases \cup {b.base} /\ b.base \in Page
  BY <1>2, <1>3, AllocEffect
<1> QED BY <1>1, <1>2, <1>4, OwnerFound

LEMMA StarvesOwned ==
  ASSUME OwnInv, UNCHANGED <<main, world, paramMem, resultMem>>,
         SubmitStarves, Messages' = Messages
  PROVE  Owned'
<1>1. LiveBases' = LiveBases /\ GcdBases \subseteq GcdBases' /\ tpmMem' = tpmMem
  BY OtherEffect DEF SubmitStarves, MsgPages, OwnInv
<1> QED BY <1>1, OwnersKept DEF Onward

LEMMA ReleasesOwned == OwnInv /\ TpmReleases => StackInv' /\ Owned'
<1> SUFFICES ASSUME OwnInv, TpmReleases PROVE StackInv' /\ Owned'
  OBVIOUS
<1> USE DEF OwnInv
<1>1. /\ Depth > 0 /\ Top.pc = "done" /\ tpmMem' = 0
      /\ SetTop([Top EXCEPT !.pc = "end"])
  BY DEF TpmReleases
<1>2. UNCHANGED <<main, world, paramMem, resultMem>>
  BY DEF TpmReleases, driverVars, worldVars
<1>3. FreeFails(tpmMem) \/ \E i \in Clients : Freed(i, tpmMem)
  BY ClientsAssumption DEF TpmReleases
<1>4. /\ LiveBases' = LiveBases \ {tpmMem} /\ tpmMem \in LiveBases /\ tpmMem # 0
      /\ GcdBases \ {tpmMem} \subseteq GcdBases'
  BY <1>3, FreeEffect
<1>5. "end" \in Phases /\ Top.msg = 0 BY <1>1, NoMessage DEF Phases
<1>6. StackInv' /\ Messages' = Messages BY <1>1, <1>5, TopMovesOn
<1> QED BY <1>1, <1>2, <1>4, <1>6, OwnerLost

(* Steps that neither allocate nor free.                                   *)
LEMMA NoCallOwned ==
  ASSUME OwnInv, UNCHANGED memVars, Messages' = Messages, Onward,
         UNCHANGED <<world, tpmMem, paramMem, resultMem>>
  PROVE  Owned'
<1>1. LiveBases' = LiveBases /\ GcdBases \subseteq GcdBases'
  BY OtherEffect DEF OwnInv
<1> QED BY <1>1, OwnersKept

LEMMA TpmCallsOwned == OwnInv /\ TpmCalls => StackInv' /\ Owned'
<1> SUFFICES ASSUME OwnInv, TpmCalls PROVE StackInv' /\ Owned'
  OBVIOUS
<1> USE DEF OwnInv
<1>1. stack = <<>> /\ UNCHANGED <<main, world, paramMem, resultMem>>
  BY DEF TpmCalls, driverVars, worldVars
<1>2. CASE SubmitStarts(stack, "main")
  <2>1. stack' = Append(stack, Call(Plain("TpmSubmit"), "main"))
    BY <1>2 DEF SubmitStarts
  <2>2. StackInv' /\ Messages' = Messages BY <2>1, CallBegins
  <2> QED BY <1>1, <1>2, <2>2, SubmitOwned
<1>3. CASE SubmitStarves /\ UNCHANGED stack
  BY <1>1, <1>3, SameStack, StarvesOwned
<1>4. ASSUME NEW req, Push(<<>>, req, "main"), UNCHANGED <<memVars, tpmMem>>
      PROVE  StackInv' /\ Owned'
  <2>1. stack' = Append(stack, Call(req, "main")) BY <1>1, <1>4 DEF Push
  <2>2. StackInv' /\ Messages' = Messages BY <2>1, CallBegins
  <2> QED BY <1>1, <1>4, <2>2, NoCallOwned DEF Onward
<1> QED BY <1>2, <1>3, <1>4 DEF TpmCalls

LEMMA TpmReturnsOwned == OwnInv /\ TpmReturns => StackInv' /\ Owned'
<1> SUFFICES ASSUME OwnInv, TpmReturns PROVE StackInv' /\ Owned'
  OBVIOUS
<1>1. /\ UNCHANGED <<memVars, main, world, paramMem, resultMem, tpmMem>>
      /\ Depth > 0 /\ Top.pc \in {"end", "done"} /\ stack' = Pop
  BY DEF TpmReturns, driverVars, worldVars
<1>2. StackInv' /\ Messages' = Messages
  BY <1>1, NoMessage, TopReturns DEF OwnInv
<1> QED BY <1>1, <1>2, NoCallOwned DEF Onward

(* The hook.                                                               *)
LEMMA HookReadsOwned == OwnInv /\ HookReads => StackInv' /\ Owned'
<1> SUFFICES ASSUME OwnInv, HookReads PROVE StackInv' /\ Owned'
  OBVIOUS
<1>1. /\ UNCHANGED <<memVars, main, world, paramMem, resultMem, tpmMem>>
      /\ Depth > 0 /\ Top.pc \in {"done", "found"}
  BY DEF HookReads, driverVars, worldVars, tpmVars
<1>2. \E p \in {"probing", "reading"} : \E req :
        stack' = Append([stack EXCEPT ![Depth].pc = p], Call(req, "hook"))
  BY DEF HookReads, Push
<1>3. PICK p \in {"probing", "reading"} : \E req :
        stack' = Append([stack EXCEPT ![Depth].pc = p], Call(req, "hook"))
  BY <1>2
<1>4. p \in Phases /\ Top.msg = 0 BY <1>1, NoMessage DEF Phases, OwnInv
<1>5. StackInv' /\ Messages' = Messages
  BY <1>1, <1>3, <1>4, HookBegins DEF OwnInv
<1> QED BY <1>1, <1>5, NoCallOwned DEF Onward

LEMMA HookHasReadOwned == OwnInv /\ HookHasRead => StackInv' /\ Owned'
<1> SUFFICES ASSUME OwnInv, HookHasRead PROVE StackInv' /\ Owned'
  OBVIOUS
<1>1. /\ UNCHANGED <<memVars, main, world, paramMem, resultMem, tpmMem>>
      /\ Depth > 1 /\ Top.by = "hook" /\ Top.pc \in {"done", "end"}
  BY DEF HookHasRead, driverVars, worldVars, tpmVars, Ended
<1>2. PICK p \in {"found", "end", "measure"} :
        stack' = [Pop EXCEPT ![Depth - 1].pc = p]
  BY DEF HookHasRead
<1>3. Depth \in Nat
  <2>1. PICK R, O : stack \in Seq(FramesOver(R, O)) BY DEF OwnInv, StackInv, StackTyped
  <2> QED BY <2>1 DEF Depth
<1>4. p \in Phases /\ Top.msg = 0 BY <1>1, <1>3, NoMessage DEF Phases, OwnInv
<1>5. StackInv' /\ Messages' = Messages
  BY <1>1, <1>2, <1>4, HookReturns DEF OwnInv
<1> QED BY <1>1, <1>5, NoCallOwned DEF Onward

LEMMA HookMeasuresOwned == OwnInv /\ HookMeasures => StackInv' /\ Owned'
<1> SUFFICES ASSUME OwnInv, HookMeasures PROVE StackInv' /\ Owned'
  OBVIOUS
<1>1. /\ UNCHANGED <<main, world, paramMem, resultMem>>
      /\ Depth > 0 /\ Top.pc = "measure"
  BY DEF HookMeasures, driverVars, worldVars
<1>2. /\ Top.msg = 0 /\ "measuring" \in Phases /\ "end" \in Phases
  BY <1>1, NoMessage DEF Phases, OwnInv
<1>3. CASE SubmitStarts([stack EXCEPT ![Depth].pc = "measuring"], "hook")
  <2>1. stack' = Append([stack EXCEPT ![Depth].pc = "measuring"],
                        Call(Plain("TpmSubmit"), "hook"))
    BY <1>3 DEF SubmitStarts
  <2>2. StackInv' /\ Messages' = Messages BY <1>1, <1>2, <2>1, HookBegins DEF OwnInv
  <2> QED BY <1>1, <1>3, <2>2, SubmitOwned
<1>4. CASE SetTop([Top EXCEPT !.pc = "end"])
  <2>1. StackInv' /\ Messages' = Messages BY <1>1, <1>2, <1>4, TopMovesOn DEF OwnInv
  <2>2. CASE SubmitStarves BY <1>1, <2>1, <2>2, StarvesOwned
  <2>3. CASE UNCHANGED <<memVars, tpmMem>>
    BY <1>1, <2>1, <2>3, NoCallOwned DEF Onward
  <2> QED BY <1>3, <2>2, <2>3, <2>1 DEF HookMeasures
<1> QED BY <1>3, <1>4 DEF HookMeasures

(* Timer callbacks.                                                        *)
LEMMA CallbacksOwned ==
  OwnInv /\ (CallbackSubmits \/ CallbackCalls \/ CallbackReturns) => StackInv' /\ Owned'
<1> SUFFICES ASSUME OwnInv, CallbackSubmits \/ CallbackCalls \/ CallbackReturns
             PROVE  StackInv' /\ Owned'
  OBVIOUS
<1>1. UNCHANGED <<main, world, paramMem, resultMem>>
  BY DEF CallbackSubmits, CallbackCalls, CallbackReturns, driverVars, worldVars
<1>2. CASE CallbackSubmits
  <2>1. CASE SubmitStarts(stack, "event")
    <3>1. stack' = Append(stack, Call(Plain("TpmSubmit"), "event"))
      BY <2>1 DEF SubmitStarts
    <3>2. StackInv' /\ Messages' = Messages BY <3>1, CallBegins DEF OwnInv
    <3> QED BY <1>1, <2>1, <3>2, SubmitOwned
  <2>2. CASE SubmitStarves /\ UNCHANGED stack
    BY <1>1, <2>2, SameStack, StarvesOwned DEF OwnInv
  <2> QED BY <1>2, <2>1, <2>2 DEF CallbackSubmits
<1>3. CASE CallbackCalls
  <2>1. PICK req : stack' = Append(stack, Call(req, "event"))
    BY <1>3 DEF CallbackCalls, Push
  <2>2. StackInv' /\ Messages' = Messages BY <2>1, CallBegins DEF OwnInv
  <2>3. UNCHANGED <<memVars, tpmMem>> BY <1>3 DEF CallbackCalls, tpmVars
  <2> QED BY <1>1, <2>2, <2>3, NoCallOwned DEF Onward
<1>4. CASE CallbackReturns
  <2>1. /\ Depth > 1 /\ Top.pc \in {"done", "end"} /\ stack' = Pop
        /\ UNCHANGED <<memVars, tpmMem>>
    BY <1>4 DEF CallbackReturns, Ended, tpmVars
  <2>2. Depth > 0
    <3>1. PICK R, O : stack \in Seq(FramesOver(R, O)) BY DEF OwnInv, StackInv, StackTyped
    <3> QED BY <2>1, <3>1 DEF Depth
  <2>3. StackInv' /\ Messages' = Messages
    BY <2>1, <2>2, NoMessage, TopReturns DEF OwnInv
  <2> QED BY <1>1, <2>1, <2>3, NoCallOwned DEF Onward
<1> QED BY <1>2, <1>3, <1>4

(* The trusted applications answer, and write where they should not.       *)
LEMMA AnswerOwned == OwnInv /\ Answer => StackInv' /\ Owned'
<1> SUFFICES ASSUME OwnInv, Answer PROVE StackInv' /\ Owned'
  OBVIOUS
<1>1. /\ UNCHANGED <<memVars, main, world, paramMem, resultMem, tpmMem>>
      /\ Depth > 0
  BY DEF Answer, InWorld, driverVars, tpmVars
<1>2. \E out : Answered(out)
  BY DEF Answer, AnswerVariable, AnswerOther, AnswerFails
<1>3. PICK out : SetTop([Top EXCEPT !.pc = "back", !.out = out]) BY <1>2 DEF Answered
<1>4. "back" \in Phases BY DEF Phases
<1>5. StackInv' /\ Messages' = Messages
  BY <1>1, <1>3, <1>4, TopAnswered DEF OwnInv
<1> QED BY <1>1, <1>5, NoCallOwned DEF Onward

LEMMA OverrunOwned == OwnInv /\ MemoryOverrun => StackInv' /\ Owned'
<1> SUFFICES ASSUME OwnInv, MemoryOverrun PROVE StackInv' /\ Owned'
  OBVIOUS
<1>1. UNCHANGED <<stack, main, world, paramMem, resultMem, tpmMem>>
  BY DEF MemoryOverrun, driverVars, worldVars, tpmVars
<1>2. LiveBases' = LiveBases /\ GcdBases \subseteq GcdBases'
  BY OtherEffect DEF MemoryOverrun, OwnInv
<1> QED BY <1>1, <1>2, SameStack, OwnersKept DEF OwnInv, Onward

(* The two drivers are loaded.                                             *)
LEMMA LoadsOwned == OwnInv /\ (TpmLoad \/ Load) => StackInv' /\ Owned'
<1> SUFFICES ASSUME OwnInv, TpmLoad \/ Load PROVE StackInv' /\ Owned'
  OBVIOUS
<1>1. UNCHANGED <<stack, world, paramMem, resultMem, tpmMem>> /\ Onward
  BY DEF TpmLoad, Load, driverVars, worldVars, tpmVars, Onward, Early, Releasing
<1>2. LiveBases' = LiveBases /\ GcdBases \subseteq GcdBases'
  BY OtherEffect DEF TpmLoad, Load, LibraryInitialized, OwnInv
<1> QED BY <1>1, <1>2, SameStack, OwnersKept DEF OwnInv

LEMMA BuffersOwned == OwnInv /\ AllocateBuffers => StackInv' /\ Owned'
<1> SUFFICES ASSUME OwnInv, AllocateBuffers PROVE StackInv' /\ Owned'
  OBVIOUS
<1>1. UNCHANGED <<stack, world, tpmMem>> /\ main \in {"param", "result"}
  BY DEF AllocateBuffers, worldVars, tpmVars
<1>2. StackInv' /\ Messages' = Messages BY <1>1, SameStack DEF OwnInv
<1>3. CASE \E b \in TopDown(BufferPages) :
             /\ Allocated("av", BufferPages, b)
             /\ IF main = "param" THEN paramMem' = b.base /\ UNCHANGED resultMem
                                  ELSE resultMem' = b.base /\ UNCHANGED paramMem
             /\ main' = (IF main = "param" THEN "result" ELSE "probe")
  <2>1. PICK b \in TopDown(BufferPages) :
          /\ Allocated("av", BufferPages, b)
          /\ IF main = "param" THEN paramMem' = b.base /\ UNCHANGED resultMem
                               ELSE resultMem' = b.base /\ UNCHANGED paramMem
          /\ main' = (IF main = "param" THEN "result" ELSE "probe")
    BY <1>3
  <2>2. BufferPages \in Nat \ {0, 1} /\ "av" \in Clients
    BY ClientsAssumption DEF BufferPages
  <2>3. /\ LiveBases' = LiveBases \cup {b.base} /\ b.base \notin GcdBases
        /\ GcdBases' = GcdBases \cup {b.base} /\ b.base \in Page
    BY <2>1, <2>2, AllocEffect DEF OwnInv
  <2> QED BY <1>1, <1>2, <2>1, <2>3, OwnerFound
<1>4. CASE NotAllocated(BufferPages) /\ main' = "failed" /\ UNCHANGED <<paramMem, resultMem>>
  <2>1. LiveBases' = LiveBases /\ GcdBases \subseteq GcdBases'
    BY <1>4, OtherEffect DEF BufferPages, OwnInv
  <2>2. Onward BY <1>1, <1>4 DEF Onward, Early, Releasing
  <2> QED BY <1>1, <1>2, <1>4, <2>1, <2>2, OwnersKept
<1> QED BY <1>3, <1>4 DEF AllocateBuffers

(* Its calls begin and return.                                             *)
LEMMA StagesOwned ==
  OwnInv /\ (StageBegins \/ CallerCalls) => StackInv' /\ Owned'
<1> SUFFICES ASSUME OwnInv, StageBegins \/ CallerCalls PROVE StackInv' /\ Owned'
  OBVIOUS
<1>1. /\ UNCHANGED <<memVars, main, world, paramMem, resultMem, tpmMem>>
      /\ stack = <<>> /\ \E req : Push(<<>>, req, "main")
  BY DEF StageBegins, CallerCalls, driverVars, worldVars, tpmVars
<1>2. PICK req : stack' = Append(stack, Call(req, "main")) BY <1>1 DEF Push
<1>3. StackInv' /\ Messages' = Messages BY <1>2, CallBegins DEF OwnInv
<1> QED BY <1>1, <1>3, NoCallOwned DEF Onward

LEMMA ReturningOwned ==
  ASSUME OwnInv, NEW stage, Returning(stage), Onward
  PROVE  StackInv' /\ Owned'
<1>1. /\ UNCHANGED <<memVars, world, paramMem, resultMem, tpmMem>>
      /\ Depth = 1 /\ Top.pc \in {"done", "end"} /\ stack' = <<>>
  BY DEF Returning, worldVars, tpmVars, Ended
<1>2. StackInv' /\ Messages' = Messages
  BY <1>1, NoMessage, LastReturns DEF OwnInv
<1> QED BY <1>1, <1>2, NoCallOwned

LEMMA ReturnsOwned ==
  OwnInv /\ (\/ SessionOpened \/ Probed \/ EnableRead \/ VariablesSet
             \/ CallerReturns \/ Signalled \/ SessionClosed)
    => StackInv' /\ Owned'
<1>1. SessionOpened => Returning("open") /\ Onward
  BY DEF SessionOpened, Returning, Onward, Early, Releasing
<1>2. Probed => Returning("probe") /\ Onward
  BY DEF Probed, Returning, Onward, Early, Releasing
<1>3. EnableRead => Returning("enable") /\ Onward
  BY DEF EnableRead, Returning, Onward, Early, Releasing
<1>4. VariablesSet => \E stage : Returning(stage) /\ Onward
  BY DEF VariablesSet, StageSet, Returning, Onward, Early, Releasing
<1>5. CallerReturns => Returning("ready") /\ Onward
  BY DEF CallerReturns, Onward
<1>6. Signalled => Returning("signal") /\ Onward
  BY DEF Signalled, Returning, Onward, Early, Releasing
<1>7. SessionClosed => Returning("close") /\ Onward
  BY DEF SessionClosed, Returning, Onward, Early, Releasing
<1> QED BY <1>1, <1>2, <1>3, <1>4, <1>5, <1>6, <1>7, ReturningOwned

LEMMA QuietOwned ==
  OwnInv /\ (Publish \/ ExitBootServices \/ UNCHANGED vars) => StackInv' /\ Owned'
<1> SUFFICES ASSUME OwnInv, Publish \/ ExitBootServices \/ UNCHANGED vars
             PROVE  StackInv' /\ Owned'
  OBVIOUS
<1>1. UNCHANGED <<memVars, stack, world, paramMem, resultMem, tpmMem>> /\ Onward
  BY DEF Publish, ExitBootServices, vars, driverVars, worldVars, tpmVars, Onward,
         Early, Releasing
<1> QED BY <1>1, SameStack, NoCallOwned DEF OwnInv

LEMMA ReleasedOwned == OwnInv /\ ReleaseBuffers => StackInv' /\ Owned'
<1> SUFFICES ASSUME OwnInv, ReleaseBuffers PROVE StackInv' /\ Owned'
  OBVIOUS
<1>1. UNCHANGED <<stack, world, tpmMem>> /\ main \in {"release", "releaseResult"}
  BY DEF ReleaseBuffers, worldVars, tpmVars
<1>2. StackInv' /\ Messages' = Messages BY <1>1, SameStack DEF OwnInv
<1>3. ASSUME NEW a, Released(a)
      PROVE  /\ LiveBases' = LiveBases \ {a} /\ a \in LiveBases /\ a # 0
             /\ GcdBases \ {a} \subseteq GcdBases'
  BY <1>3, FreeEffect, ClientsAssumption DEF Released, OwnInv
<1>4. CASE main = "release"
  <2>1. Released(paramMem) /\ main' = "releaseResult" /\ UNCHANGED resultMem
    BY <1>4 DEF ReleaseBuffers
  <2>2. paramMem' = IF gcd' = gcd THEN paramMem ELSE 0
    BY <1>4 DEF ReleaseBuffers
  <2>3. paramMem' = 0 \/ (paramMem' = paramMem /\ gcd' = gcd)
    <3>1. CASE gcd' = gcd BY <2>2, <3>1
    <3>2. CASE gcd' # gcd BY <2>2, <3>2
    <3> QED BY <3>1, <3>2
  <2>4. /\ LiveBases' = LiveBases \ {paramMem} /\ paramMem \in LiveBases /\ paramMem # 0
        /\ GcdBases \ {paramMem} \subseteq GcdBases'
    BY <1>3, <2>1
  <2>5. paramMem' = 0 \/ (paramMem' = paramMem /\ GcdBases' = GcdBases)
    BY <2>3 DEF GcdBases
  <2> QED BY <1>1, <1>2, <1>4, <2>1, <2>4, <2>5, OwnerLost
<1>5. CASE main = "releaseResult"
  <2>1. Released(resultMem) /\ main' = "gone" /\ UNCHANGED paramMem
    BY <1>5 DEF ReleaseBuffers
  <2>2. resultMem' = IF gcd' = gcd THEN resultMem ELSE 0
    BY <1>5 DEF ReleaseBuffers
  <2>3. resultMem' = 0 \/ (resultMem' = resultMem /\ gcd' = gcd)
    <3>1. CASE gcd' = gcd BY <2>2, <3>1
    <3>2. CASE gcd' # gcd BY <2>2, <3>2
    <3> QED BY <3>1, <3>2
  <2>4. /\ LiveBases' = LiveBases \ {resultMem} /\ resultMem \in LiveBases /\ resultMem # 0
        /\ GcdBases \ {resultMem} \subseteq GcdBases'
    BY <1>3, <2>1
  <2>5. resultMem' = 0 \/ (resultMem' = resultMem /\ GcdBases' = GcdBases)
    BY <2>3 DEF GcdBases
  <2> QED BY <1>1, <1>2, <1>5, <2>1, <2>4, <2>5, OwnerLost
<1> QED BY <1>1, <1>4, <1>5

LEMMA OwnStep == OwnInv /\ [Next]_vars => OwnInv'
<1> SUFFICES ASSUME OwnInv, [Next]_vars PROVE OwnInv'
  OBVIOUS
<1>1. MemInv' BY StepIsMemStep, MemStep DEF OwnInv
<1>2. StackInv' /\ Owned'
  BY SendOwned, FreeOwned, RpcAllocOwned, RpcFreeOwned, ReleasesOwned, TpmCallsOwned,
     TpmReturnsOwned, HookReadsOwned, HookHasReadOwned, HookMeasuresOwned,
     CallbacksOwned, AnswerOwned, OverrunOwned, LoadsOwned, BuffersOwned, StagesOwned,
     ReturnsOwned, QuietOwned, ReleasedOwned
  DEF Next, Progress
<1> QED BY <1>1, <1>2 DEF OwnInv

LEMMA OwnStart == Init => OwnInv
<1> SUFFICES ASSUME Init PROVE OwnInv
  OBVIOUS
<1>1. MemInv BY MemStart DEF Init
<1>2. Depth = 0 /\ stack = <<>> BY DEF Init, Depth
<1>3. StackInv
  BY <1>2 DEF StackInv, StackTyped, MessageInUse, MessagesDiffer, HookWaits
<1>4. Messages = {} BY <1>2 DEF Messages
<1>5. LiveBases = {} BY DEF Init, MemInit, LiveBases, Live
<1>6. Retained = {} /\ Transport = {} BY <1>4 DEF Init, Retained, Transport
<1>7. Owned
  BY <1>4, <1>5, <1>6 DEF Init, Owned, HeldIsLive, OneHolder, BuffersByStage
<1> QED BY <1>1, <1>3, <1>7 DEF OwnInv

-----------------------------------------------------------------------------
(* Counting.                                                               *)

LEMMA CountUnion ==
  ASSUME NEW S, IsFiniteSet(S), NEW T, IsFiniteSet(T)
  PROVE  IsFiniteSet(S \cup T) /\ Cardinality(S \cup T) <= Cardinality(S) + Cardinality(T)
<1>1. IsFiniteSet(S \cap T) /\ Cardinality(S \cap T) \in Nat
  BY FS_Intersection, FS_CardinalityType
<1>2. Cardinality(S) \in Nat /\ Cardinality(T) \in Nat BY FS_CardinalityType
<1>3. /\ IsFiniteSet(S \cup T)
      /\ Cardinality(S \cup T) = Cardinality(S) + Cardinality(T) - Cardinality(S \cap T)
  BY FS_Union, Zenon
<1> QED BY <1>1, <1>2, <1>3

LEMMA CountOne ==
  ASSUME NEW x
  PROVE  /\ IsFiniteSet({x} \ {0}) /\ Cardinality({x} \ {0}) \in Nat
         /\ Cardinality({x} \ {0}) = Cardinality({0} \ {x})
<1>1. CASE x = 0 BY <1>1, FS_EmptySet
<1>2. CASE x # 0
  <2>1. {x} \ {0} = {x} /\ {0} \ {x} = {0} BY <1>2
  <2>2. /\ IsFiniteSet({x}) /\ Cardinality({x}) = 1 /\ Cardinality({0}) = 1
    BY FS_Singleton, Zenon
  <2> QED BY <2>1, <2>2
<1> QED BY <1>1, <1>2

LEMMA CountMessages ==
  ASSUME StackTyped
  PROVE  /\ IsFiniteSet(Messages)
         /\ Cardinality(Messages) <= Cardinality({j \in 1 .. Depth : stack[j].msg # 0})
<1> DEFINE J == {j \in 1 .. Depth : stack[j].msg # 0}
           f == [j \in J |-> stack[j].msg]
<1>1. PICK R, O : stack \in Seq(FramesOver(R, O)) BY DEF StackTyped
<1>2. Depth \in Nat BY <1>1 DEF Depth
<1>3. IsFiniteSet(1 .. Depth) BY <1>2, FS_Interval
<1>4. IsFiniteSet(J) BY <1>3, FS_Subset
<1>5. f \in Surjection(J, Messages) BY DEF Surjection, Messages
<1> QED BY <1>4, <1>5, FS_Surjection

LEMMA Counted ==
  ASSUME OwnInv
  PROVE  Cardinality(LiveBases) <=
           Cardinality({j \in 1 .. Depth : stack[j].msg # 0}) + Cardinality(world \ {0})
           + Cardinality({tpmMem} \ {0})
           + Cardinality({0} \ {paramMem}) + Cardinality({0} \ {resultMem})
<1> DEFINE J == {j \in 1 .. Depth : stack[j].msg # 0}
           W == world \ {0}
           T == {tpmMem} \ {0}
           P == {paramMem} \ {0}
           R == {resultMem} \ {0}
           A == Messages \cup W
           B == A \cup T
           C == B \cup P
           D == C \cup R
<1>1. LiveBases \subseteq D BY DEF OwnInv, Owned, HeldIsLive, Retained, Transport
<1>2. IsFiniteSet(Page) BY PoolAssumption, FS_Interval DEF Page
<1>3. W \subseteq Page BY DEF OwnInv, Owned
<1>4. IsFiniteSet(W) /\ Cardinality(W) \in Nat BY <1>2, <1>3, FS_Subset, FS_CardinalityType
<1>5. /\ IsFiniteSet(Messages) /\ Cardinality(Messages) \in Nat
      /\ Cardinality(Messages) <= Cardinality(J)
  BY CountMessages, FS_CardinalityType DEF OwnInv, StackInv
<1>6. IsFiniteSet(J) /\ Cardinality(J) \in Nat
  <2>1. PICK Q, O : stack \in Seq(FramesOver(Q, O)) BY DEF OwnInv, StackInv, StackTyped
  <2>2. IsFiniteSet(1 .. Depth) BY <2>1, FS_Interval DEF Depth
  <2> QED BY <2>2, FS_Subset, FS_CardinalityType
<1>7. /\ IsFiniteSet(T) /\ Cardinality(T) \in Nat
      /\ IsFiniteSet(P) /\ Cardinality(P) \in Nat /\ Cardinality(P) = Cardinality({0} \ {paramMem})
      /\ IsFiniteSet(R) /\ Cardinality(R) \in Nat /\ Cardinality(R) = Cardinality({0} \ {resultMem})
  BY CountOne
<1> HIDE DEF J, W, T, P, R
<1>8. IsFiniteSet(A) /\ Cardinality(A) <= Cardinality(Messages) + Cardinality(W)
  BY <1>4, <1>5, CountUnion
<1> HIDE DEF A
<1>9. IsFiniteSet(B) /\ Cardinality(B) <= Cardinality(A) + Cardinality(T)
  BY <1>7, <1>8, CountUnion
<1> HIDE DEF B
<1>10. IsFiniteSet(C) /\ Cardinality(C) <= Cardinality(B) + Cardinality(P)
  BY <1>7, <1>9, CountUnion
<1> HIDE DEF C
<1>11. IsFiniteSet(D) /\ Cardinality(D) <= Cardinality(C) + Cardinality(R)
  BY <1>7, <1>10, CountUnion
<1>12. /\ Cardinality(A) \in Nat /\ Cardinality(B) \in Nat
       /\ Cardinality(C) \in Nat /\ Cardinality(D) \in Nat
  BY <1>8, <1>9, <1>10, <1>11, FS_CardinalityType
<1>13. Cardinality(LiveBases) \in Nat /\ Cardinality(LiveBases) <= Cardinality(D)
  BY <1>1, <1>11, FS_Subset, FS_CardinalityType
<1>14. Cardinality(LiveBases) <=
         Cardinality(J) + Cardinality(W) + Cardinality(T) + Cardinality(P) + Cardinality(R)
  BY <1>4, <1>5, <1>6, <1>7, <1>8, <1>9, <1>10, <1>11, <1>12, <1>13
<1> QED BY <1>7, <1>14 DEF J, W, T

(* For every size of the pool, on every interleaving of calls, callbacks   *)
(* and remote allocations and whatever fails: a block is live exactly      *)
(* while somebody holds its address, and no two hold the same one.         *)
THEOREM EveryBlockOwned == Spec => []BlocksAccounted
<1>1. OwnInv => BlocksAccounted
  <2> SUFFICES ASSUME OwnInv PROVE BlocksAccounted
    OBVIOUS
  <2>1. InUse \subseteq LiveBases /\ LiveBases \subseteq InUse \cup Transport
    BY DEF OwnInv, Owned, HeldIsLive, Retained, InUse, Releasing
  <2>2. /\ Messages \cap (world \cup Transport \cup {tpmMem}) = {}
        /\ world \cap (Transport \cup {tpmMem}) \subseteq {0}
    BY DEF OwnInv, Owned, OneHolder
  <2> QED BY <2>1, <2>2, Counted DEF BlocksAccounted
<1> QED BY <1>1, OwnStart, OwnStep, PTL DEF Spec

-----------------------------------------------------------------------------
(* The counters of the library's instances: the secure world may free in   *)
(* the call of one instance what it allocated in that of another, so each  *)
(* counter may wrap around, but their sum is the number of blocks.         *)

\* Arithmetic modulo w, the range of a counter.

LEMMA Division ==
  ASSUME NEW w \in Nat \ {0}, NEW x \in Nat
  PROVE  x = w * (x \div w) + (x % w) /\ x \div w \in Nat /\ x % w \in 0 .. (w - 1)
OBVIOUS

LEMMA Multiples ==
  ASSUME NEW w \in Nat \ {0}, NEW p \in Int, NEW q \in Int, p < q
  PROVE  w * p + w <= w * q
OBVIOUS

LEMMA DivisionUnique ==
  ASSUME NEW w \in Nat \ {0}, NEW q \in Int, NEW p \in Int,
         NEW r \in 0 .. (w - 1), NEW s \in 0 .. (w - 1), w * q + r = w * p + s
  PROVE  r = s
<1>1. ~ (q < p) /\ ~ (p < q) BY Multiples
<1> QED BY <1>1

LEMMA Remainder ==
  ASSUME NEW w \in Nat \ {0}, NEW x \in Nat, NEW p \in Nat, NEW s \in 0 .. (w - 1),
         x = w * p + s
  PROVE  x % w = s
<1> DEFINE q == x \div w
           r == x % w
<1>1. w * q + r = w * p + s /\ q \in Nat /\ r \in 0 .. (w - 1) BY Division
<1> HIDE DEF q, r
<1>2. q \in Int /\ p \in Int BY <1>1
<1>3. r = s BY <1>1, <1>2, DivisionUnique
<1> QED BY <1>3 DEF r

(* One more, and once around.                                              *)
LEMMA RemainderNext ==
  ASSUME NEW w \in Nat \ {0}, NEW x \in Nat
  PROVE  (x + 1) % w = IF x % w = w - 1 THEN 0 ELSE (x % w) + 1
<1> DEFINE q == x \div w
           r == x % w
<1>1. x = w * q + r /\ q \in Nat /\ r \in 0 .. (w - 1) BY Division
<1> HIDE DEF q
<1>2. CASE r = w - 1
  <2>1. x + 1 = w * (q + 1) + 0 /\ q + 1 \in Nat /\ 0 \in 0 .. (w - 1) /\ x + 1 \in Nat
    BY <1>1, <1>2
  <2>2. (x + 1) % w = 0 BY <2>1, Remainder
  <2> QED BY <1>2, <2>2
<1>3. CASE r # w - 1
  <2>1. x + 1 = w * q + (r + 1) /\ (r + 1) \in 0 .. (w - 1) /\ x + 1 \in Nat
    BY <1>1, <1>3
  <2>2. (x + 1) % w = r + 1 BY <1>1, <2>1, Remainder
  <2> QED BY <1>3, <2>2
<1> QED BY <1>2, <1>3

LEMMA RemainderAround ==
  ASSUME NEW w \in Nat \ {0}, NEW x \in Nat
  PROVE  (x + w) % w = x % w
<1> DEFINE q == x \div w
           r == x % w
<1>1. x = w * q + r /\ q \in Nat /\ r \in 0 .. (w - 1) BY Division
<1> HIDE DEF q, r
<1>2. x + w = w * (q + 1) + r /\ q + 1 \in Nat /\ x + w \in Nat BY <1>1
<1>3. (x + w) % w = r BY <1>1, <1>2, Remainder
<1> QED BY <1>3 DEF r

(* Numbers that agree modulo w still do one further, and did one before.   *)
LEMMA AgreeNext ==
  ASSUME NEW w \in Nat \ {0}, NEW x \in Nat, NEW y \in Nat
  PROVE  x % w = y % w <=> (x + 1) % w = (y + 1) % w
<1> DEFINE r == x % w
           s == y % w
<1>1. r \in 0 .. (w - 1) /\ s \in 0 .. (w - 1) BY Division
<1>2. /\ (x + 1) % w = IF r = w - 1 THEN 0 ELSE r + 1
      /\ (y + 1) % w = IF s = w - 1 THEN 0 ELSE s + 1
  BY RemainderNext
<1> HIDE DEF r, s
<1>3. r = s <=> (x + 1) % w = (y + 1) % w BY <1>1, <1>2
<1> QED BY <1>3 DEF r, s

(* A counter with values below w that is moved by one, the other staying.  *)
LEMMA CountedUp ==
  ASSUME NEW w \in Nat \ {0}, NEW c \in 0 .. (w - 1), NEW d \in 0 .. (w - 1)
  PROVE  (((c + 1) % w) + d) % w = (c + d + 1) % w
<1>1. CASE c = w - 1
  <2>1. c + 1 = w * 1 + 0 /\ 0 \in 0 .. (w - 1) /\ c + 1 \in Nat /\ 1 \in Nat BY <1>1
  <2>2. (c + 1) % w = 0 BY <2>1, Remainder
  <2> d \in Nat OBVIOUS
  <2>3. (d + w) % w = d % w BY RemainderAround
  <2>4. c + d + 1 = d + w BY <1>1
  <2>5. ((c + 1) % w) + d = d BY <2>2
  <2> QED BY <2>3, <2>4, <2>5
<1>2. CASE c # w - 1
  <2>1. c + 1 = w * 0 + (c + 1) /\ (c + 1) \in 0 .. (w - 1) /\ c + 1 \in Nat /\ 0 \in Nat
    BY <1>2
  <2>2. (c + 1) % w = c + 1 BY <2>1, Remainder
  <2>3. ((c + 1) % w) + d = c + d + 1 BY <2>2
  <2> QED BY <2>3
<1> QED BY <1>1, <1>2

LEMMA CountedDown ==
  ASSUME NEW w \in Nat \ {0}, NEW c \in 0 .. (w - 1), NEW d \in 0 .. (w - 1)
  PROVE  /\ ((c + w - 1) % w) + d \in Nat
         /\ (((c + w - 1) % w) + d + 1) % w = (c + d) % w
<1>1. CASE c = 0
  <2>1. c + w - 1 = w * 0 + (w - 1) /\ (w - 1) \in 0 .. (w - 1) /\ c + w - 1 \in Nat
        /\ 0 \in Nat
    BY <1>1
  <2>2. (c + w - 1) % w = w - 1 BY <2>1, Remainder
  <2>3. ((c + w - 1) % w) + d + 1 = d + w /\ c + d = d BY <1>1, <2>2
  <2> d \in Nat OBVIOUS
  <2>4. (d + w) % w = d % w BY RemainderAround
  <2>5. ((c + w - 1) % w) + d \in Nat BY <2>2
  <2> QED BY <2>3, <2>4, <2>5
<1>2. CASE c # 0
  <2>1. c + w - 1 = w * 1 + (c - 1) /\ (c - 1) \in 0 .. (w - 1) /\ c + w - 1 \in Nat
        /\ 1 \in Nat
    BY <1>2
  <2>2. (c + w - 1) % w = c - 1 BY <2>1, Remainder
  <2>3. ((c + w - 1) % w) + d + 1 = c + d BY <1>2, <2>2
  <2>4. ((c + w - 1) % w) + d \in Nat BY <1>2, <2>2
  <2> QED BY <2>3, <2>4
<1> QED BY <1>1, <1>2

-----------------------------------------------------------------------------
(* The counters and the blocks.                                            *)

Blocks == Cardinality(Live) + stuck
CountersSum == count["av"] + count["tpm"]

LEMMA LiveFinite ==
  ASSUME MemInv
  PROVE  IsFiniteSet(Live) /\ Cardinality(Live) \in Nat /\ Blocks \in Nat
<1> DEFINE P == {q \in Page : header[q] # NoHeader}
           f == [p \in P |-> header[p]]
<1>1. IsFiniteSet(Page) BY PoolAssumption, FS_Interval DEF Page
<1>2. IsFiniteSet(P) BY <1>1, FS_Subset
<1>3. f \in Surjection(P, Live) BY DEF Surjection, Live
<1>4. IsFiniteSet(Live) BY <1>2, <1>3, FS_Surjection
<1>5. Cardinality(Live) \in Nat BY <1>4, FS_CardinalityType
<1> QED BY <1>4, <1>5 DEF MemInv, MemTypeOK, Blocks

BlocksNat == Blocks \in Nat

LEMMA BlocksAreCounted == (MemInv => BlocksNat) /\ (MemInv' => BlocksNat')
<1>1. MemInv => BlocksNat BY LiveFinite DEF BlocksNat
<1> QED BY <1>1, PTL

(* One of the two counters goes up or down.                                *)
LEMMA CountersMove ==
  ASSUME MemInv, NEW i \in Clients
  PROVE  /\ count' = [count EXCEPT ![i] = (@ + 1) % Wrap]
              => CountersSum' % Wrap = (CountersSum + 1) % Wrap
         /\ count' = [count EXCEPT ![i] = (@ + Wrap - 1) % Wrap]
              => CountersSum' \in Nat /\ (CountersSum' + 1) % Wrap = CountersSum % Wrap
         /\ CountersSum \in Nat
<1> DEFINE a == count["av"]
           t == count["tpm"]
<1>1. count \in [Clients -> 0 .. (Wrap - 1)] BY DEF MemInv, MemTypeOK
<1>2. Wrap \in Nat \ {0} /\ Clients = {"av", "tpm"}
  BY WrapAssumption, ClientsAssumption
<1>3. a \in 0 .. (Wrap - 1) /\ t \in 0 .. (Wrap - 1) BY <1>1, <1>2
<1>4. ASSUME count' = [count EXCEPT ![i] = (@ + 1) % Wrap]
      PROVE  CountersSum' % Wrap = (CountersSum + 1) % Wrap
  <2>1. CASE i = "av"
    <3>1. count'["av"] = (a + 1) % Wrap /\ count'["tpm"] = t BY <1>1, <1>2, <1>4, <2>1
    <3> HIDE DEF a, t
    <3>2. (((a + 1) % Wrap) + t) % Wrap = (a + t + 1) % Wrap BY <1>2, <1>3, CountedUp
    <3> QED BY <3>1, <3>2 DEF CountersSum, a, t
  <2>2. CASE i = "tpm"
    <3>1. count'["tpm"] = (t + 1) % Wrap /\ count'["av"] = a BY <1>1, <1>2, <1>4, <2>2
    <3> HIDE DEF a, t
    <3>2. (((t + 1) % Wrap) + a) % Wrap = (t + a + 1) % Wrap BY <1>2, <1>3, CountedUp
    <3>3. t + a + 1 = a + t + 1 BY <1>3
    <3>4. ((t + 1) % Wrap) \in Nat BY <1>2, <1>3, Division
    <3>5. ((t + 1) % Wrap) + a = a + ((t + 1) % Wrap) BY <1>3, <3>4
    <3> QED BY <3>1, <3>2, <3>3, <3>5 DEF CountersSum, a, t
  <2> QED BY <1>2, <2>1, <2>2
<1>5. ASSUME count' = [count EXCEPT ![i] = (@ + Wrap - 1) % Wrap]
      PROVE  CountersSum' \in Nat /\ (CountersSum' + 1) % Wrap = CountersSum % Wrap
  <2>1. CASE i = "av"
    <3>1. count'["av"] = (a + Wrap - 1) % Wrap /\ count'["tpm"] = t
      BY <1>1, <1>2, <1>5, <2>1
    <3> HIDE DEF a, t
    <3>2. /\ ((a + Wrap - 1) % Wrap) + t \in Nat
          /\ (((a + Wrap - 1) % Wrap) + t + 1) % Wrap = (a + t) % Wrap
      BY <1>2, <1>3, CountedDown
    <3> QED BY <3>1, <3>2 DEF CountersSum, a, t
  <2>2. CASE i = "tpm"
    <3>1. count'["tpm"] = (t + Wrap - 1) % Wrap /\ count'["av"] = a
      BY <1>1, <1>2, <1>5, <2>2
    <3> HIDE DEF a, t
    <3> DEFINE u == (t + Wrap - 1) % Wrap
    <3>2. /\ u + a \in Nat
          /\ (u + a + 1) % Wrap = (t + a) % Wrap
      BY <1>2, <1>3, CountedDown
    <3>3. u \in Nat
      <4>1. t + Wrap - 1 \in Nat BY <1>2, <1>3
      <4> QED BY <1>2, <4>1, Division
    <3> HIDE DEF u
    <3>4. t + a = a + t /\ u + a + 1 = a + u + 1 /\ u + a = a + u BY <1>3, <3>3
    <3>5. count'["tpm"] = u BY <3>1 DEF u
    <3> QED BY <3>1, <3>2, <3>4, <3>5 DEF CountersSum, a, t
  <2> QED BY <1>2, <2>1, <2>2
<1>6. CountersSum \in Nat BY <1>3 DEF CountersSum
<1> QED BY <1>4, <1>5, <1>6

Balanced == CountersSum % Wrap = Blocks % Wrap

LEMMA BalanceStep ==
  ASSUME MemInv, Balanced, [MemNext]_memVars
  PROVE  Balanced'
<1>1. MemInv' BY MemStep
<1>2. IsFiniteSet(Live) /\ Cardinality(Live) \in Nat /\ Blocks \in Nat BY LiveFinite
<1>3. stuck \in Nat /\ Wrap \in Nat \ {0} BY WrapAssumption DEF MemInv, MemTypeOK
<1>4. CASE \E n \in 2 .. PoolPages :
             \E i \in Clients, b \in TopDown(n) : Allocated(i, n, b)
  <2>1. PICK n \in 2 .. PoolPages :
          \E i \in Clients, b \in TopDown(n) : Allocated(i, n, b)
    BY <1>4
  <2>2. PICK i \in Clients, b \in TopDown(n) : Allocated(i, n, b) BY <2>1
  <2>3. Live' = Live \cup {b} /\ b \notin Live
    <3>1. /\ b \in Block /\ b.base \in Page /\ \A c \in gcd : Heap!Disjoint(b, c)
      BY FoundIsFree
    <3>2. b \notin gcd BY <3>1, OwnPages
    <3>3. Live \subseteq gcd BY DEF Live, MemInv, HeadersStand
    <3>4. header[b.base] = NoHeader
      <4> SUFFICES ASSUME header[b.base] # NoHeader PROVE FALSE
        OBVIOUS
      <4> DEFINE c == header[b.base]
      <4>1. c \in gcd /\ c.base = b.base BY <3>1 DEF MemInv, HeadersStand
      <4>2. c \in Block BY <4>1 DEF MemInv, MemTypeOK
      <4>3. b.base \in Pages(c) BY <4>1, <4>2, OwnPages
      <4>4. b.base \in Pages(b) BY <3>1, OwnPages
      <4>5. ~ Heap!Disjoint(b, c) BY <4>3, <4>4 DEF Heap!Disjoint, Pages
      <4> QED BY <3>1, <4>1, <4>5
    <3>5. \A p \in Page : header'[p] = IF p = b.base THEN b ELSE header[p]
      BY <2>2 DEF Allocated, MemInv, MemTypeOK
    <3>6. b # NoHeader BY <3>1, NoHeaderAssumption
    <3> QED BY <3>1, <3>2, <3>3, <3>4, <3>5, <3>6 DEF Live
  <2>4. Cardinality(Live') = Cardinality(Live) + 1 BY <1>2, <2>3, FS_AddElement
  <2>5. stuck' = stuck /\ count' = [count EXCEPT ![i] = (@ + 1) % Wrap]
    BY <2>2 DEF Allocated
  <2>6. Blocks' = Blocks + 1 BY <1>2, <1>3, <2>4, <2>5 DEF Blocks
  <2>7. CountersSum' % Wrap = (CountersSum + 1) % Wrap /\ CountersSum \in Nat
    BY <2>5, CountersMove
  <2>8. (CountersSum + 1) % Wrap = (Blocks + 1) % Wrap
    BY <1>2, <1>3, <2>7, AgreeNext DEF Balanced
  <2> QED BY <2>6, <2>7, <2>8 DEF Balanced
<1>5. CASE \E base \in Page : FreeFails(base) \/ \E i \in Clients : Freed(i, base)
  <2>1. PICK base \in Page : FreeFails(base) \/ \E i \in Clients : Freed(i, base)
    BY <1>5
  <2>2. Live' = Live \ {HeaderAt(base)} /\ HeaderAt(base) \in Live
    BY <2>1, FencedKeeps DEF FreeFails, Freed
  <2>3. Cardinality(Live') = Cardinality(Live) - 1 BY <1>2, <2>2, FS_RemoveElement
  <2>4. CASE FreeFails(base)
    <3>1. stuck' = stuck + 1 /\ count' = count BY <2>4 DEF FreeFails
    <3>2. Blocks' = Blocks BY <1>2, <1>3, <2>3, <3>1 DEF Blocks
    <3> QED BY <3>1, <3>2 DEF Balanced, CountersSum
  <2>5. CASE \E i \in Clients : Freed(i, base)
    <3>1. PICK i \in Clients : Freed(i, base) BY <2>5
    <3>2. stuck' = stuck /\ count' = [count EXCEPT ![i] = (@ + Wrap - 1) % Wrap]
      BY <3>1 DEF Freed, Uncount
    <3>3. Blocks = Blocks' + 1 /\ Blocks' \in Nat
      <4>1. Blocks' \in Nat BY <1>1, BlocksAreCounted DEF BlocksNat
      <4> QED BY <1>2, <1>3, <2>3, <3>2, <4>1 DEF Blocks
    <3>4. CountersSum' \in Nat /\ (CountersSum' + 1) % Wrap = CountersSum % Wrap
      BY <3>2, CountersMove
    <3>5. (CountersSum' + 1) % Wrap = (Blocks' + 1) % Wrap BY <3>3, <3>4 DEF Balanced
    <3>6. CountersSum' % Wrap = Blocks' % Wrap BY <1>3, <3>3, <3>4, <3>5, AgreeNext
    <3> QED BY <3>6 DEF Balanced
  <2> QED BY <2>1, <2>4, <2>5
<1>6. CASE \/ Initialized \/ InitializeFails
           \/ \E n \in 2 .. PoolPages : NotAllocated(n)
           \/ \E base \in Page : Refused(base)
           \/ \E b \in Live : Overrun(b)
           \/ UNCHANGED memVars
  <2>1. UNCHANGED Live BY <1>6, OthersKeep
  <2>2. count' = count /\ stuck' = stuck
    BY <1>6 DEF Initialized, InitializeFails, NotAllocated, Refused, Overrun, memVars
  <2> QED BY <2>1, <2>2 DEF Balanced, CountersSum, Blocks
<1> QED BY <1>4, <1>5, <1>6 DEF MemNext

(* Whatever the secure world frees in the call of which instance, and      *)
(* however often a counter wraps around or the GCD refuses a block: the    *)
(* two counters add up to the blocks there are, for every width.           *)
THEOREM CountersAddUp == Spec => []CountersBalance
<1>1. Init => MemInv /\ Balanced
  <2> SUFFICES ASSUME Init PROVE MemInv /\ Balanced
    OBVIOUS
  <2>1. MemInv BY MemStart DEF Init
  <2>2. Live = {} BY DEF Init, MemInit, Live
  <2>3. Cardinality(Live) = 0 BY <2>2, FS_EmptySet
  <2>4. Blocks = 0 BY <2>3 DEF Init, MemInit, Blocks
  <2>5. CountersSum = 0 BY ClientsAssumption DEF Init, MemInit, CountersSum
  <2> QED BY <2>1, <2>4, <2>5 DEF Balanced
<1>2. MemInv /\ Balanced /\ [Next]_vars => MemInv' /\ Balanced'
  BY StepIsMemStep, MemStep, BalanceStep
<1>3. Balanced => CountersBalance BY DEF Balanced, CountersSum, Blocks, CountersBalance
<1> QED BY <1>1, <1>2, <1>3, PTL DEF Spec
=============================================================================
