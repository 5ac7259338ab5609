--------------------------- MODULE AuthVarsReplies ---------------------------
(***************************************************************************)
(* The one pair of transport buffers: unless a callback calls a variable   *)
(* service inside another, what a read finds in the result buffer is what  *)
(* the application stores, and the Secure Boot variables are set to what   *)
(* the stored key and switch say.  From both: the types of all variables.  *)
(***************************************************************************)
EXTENDS AuthVarsSession

-----------------------------------------------------------------------------
(* Who uses the buffers.                                                   *)

IsVariableCall(k) == stack[k].req.cmd \in VariableCmds
ReadCmds == {"Get", "GetNext", "Query"}
AwaitsRead == {"probing", "reading"}
HasAnswer == {"back", "done"}
Definite == {"SUCCESS", "ITEM_NOT_FOUND", "SHORT_BUFFER"}

(* Of two calls of the variable services the lower one waits for its hook. *)
OneActive ==
  \A j, k \in 1 .. Depth :
    j < k /\ IsVariableCall(j) /\ IsVariableCall(k) => stack[j].pc \in AwaitsRead

(* A call that was not answered finds its request in the buffer, and one   *)
(* that was finds its reply.                                               *)
AsAsked ==
  \A k \in 1 .. Depth :
    IsVariableCall(k) /\ stack[k].pc \in Unsent => paramBuf = stack[k].req
Truthful ==
  \A k \in 1 .. Depth :
    /\ stack[k].req.cmd \in ReadCmds /\ stack[k].pc \in HasAnswer
    /\ stack[k].out \in Definite
    => /\ stack[k].out = Reply(stack[k].req, stack[k].req.arg, store).out
       /\ stack[k].out = "SUCCESS" =>
            resultBuf = Reply(stack[k].req, stack[k].req.arg, store).data

(* Only variable calls have hooks.                                         *)
HookOfVariable ==
  \A k \in 1 .. Depth :
    /\ stack[k].pc \in Hooking => IsVariableCall(k)
    /\ stack[k].by = "hook" => k > 1 /\ IsVariableCall(k - 1)

RepliesInv == HookOfVariable /\ (~reentered => OneActive /\ AsAsked /\ Truthful)

-----------------------------------------------------------------------------

(* The buffers and what is stored stay.                                    *)
SameData == UNCHANGED <<paramBuf, resultBuf, store>> /\ (reentered => reentered')

LEMMA TopReplies ==
  ASSUME RepliesInv, SameData, Depth > 0, NEW p, NEW o, TopBecomes(p, o),
         p \in Unsent => Top.pc \in Unsent,
         p \notin Hooking,
         p \in HasAnswer =>
           \/ o \notin Definite
           \/ Top.req.cmd \notin ReadCmds
           \/ Top.pc \in HasAnswer /\ o = Top.out
  PROVE  RepliesInv'
<1> USE DEF RepliesInv, SameData
<1>1. /\ Depth' = Depth /\ Depth \in Nat
      /\ \A k \in 1 .. Depth :
           /\ stack'[k].req = stack[k].req /\ stack'[k].by = stack[k].by
           /\ stack'[k].pc = (IF k = Depth THEN p ELSE stack[k].pc)
           /\ stack'[k].out = (IF k = Depth THEN o ELSE stack[k].out)
  BY DEF TopBecomes
<1>2. HookOfVariable'
  <2>1. \A k \in 1 .. Depth : stack'[k].pc \in Hooking => IsVariableCall(k)'
    BY <1>1 DEF HookOfVariable, IsVariableCall
  <2>2. \A k \in 1 .. Depth : stack[k].by = "hook" => k > 1 /\ IsVariableCall(k - 1)'
    <3> SUFFICES ASSUME NEW k \in 1 .. Depth, stack[k].by = "hook"
                 PROVE  k > 1 /\ IsVariableCall(k - 1)'
      OBVIOUS
    <3>1. k > 1 /\ IsVariableCall(k - 1) BY DEF HookOfVariable
    <3>2. k - 1 \in 1 .. Depth BY <1>1, <3>1
    <3> QED BY <1>1, <3>1, <3>2 DEF IsVariableCall
  <2> QED BY <1>1, <2>1, <2>2 DEF HookOfVariable
<1>3. ASSUME ~reentered' PROVE (OneActive /\ AsAsked /\ Truthful)'
  <2>1. OneActive /\ AsAsked /\ Truthful BY <1>3
  <2>2. OneActive' BY <1>1, <2>1 DEF OneActive, IsVariableCall
  <2>3. AsAsked' BY <1>1, <2>1 DEF AsAsked, IsVariableCall, Top
  <2>4. Truthful'
    <3> SUFFICES ASSUME NEW k \in 1 .. Depth,
                        stack[k].req.cmd \in ReadCmds, stack'[k].pc \in HasAnswer,
                        stack'[k].out \in Definite
                 PROVE  /\ stack'[k].out = Reply(stack[k].req, stack[k].req.arg, store).out
                        /\ stack'[k].out = "SUCCESS" =>
                             resultBuf = Reply(stack[k].req, stack[k].req.arg, store).data
      BY <1>1 DEF Truthful
    <3>1. stack[k].pc \in HasAnswer /\ stack'[k].out = stack[k].out
      BY <1>1 DEF Top
    <3> QED BY <2>1, <3>1 DEF Truthful
  <2> QED BY <2>2, <2>3, <2>4
<1> QED BY <1>2, <1>3

(* The call on top is gone; the one below may have been resumed.           *)
LEMMA GoneReplies ==
  ASSUME RepliesInv, SameData, Depth > 0, NEW p, CallGone(p),
         \/ p = stack[Depth - 1].pc
         \/ p \notin Unsent \cup HasAnswer /\ Top.by = "hook"
  PROVE  RepliesInv'
<1> USE DEF RepliesInv, SameData
<1>1. /\ Depth' = Depth - 1 /\ Depth \in Nat
      /\ \A k \in 1 .. (Depth - 1) :
           /\ stack'[k].req = stack[k].req /\ stack'[k].by = stack[k].by
           /\ stack'[k].pc = (IF k = Depth - 1 THEN p ELSE stack[k].pc)
           /\ stack'[k].out = stack[k].out
  BY DEF CallGone
<1>2. 1 .. (Depth - 1) \subseteq 1 .. Depth BY <1>1
<1>3. p = stack[Depth - 1].pc \/ IsVariableCall(Depth - 1)
  <2>1. Depth \in 1 .. Depth BY <1>1
  <2> QED BY <2>1 DEF HookOfVariable, Top
<1>4. HookOfVariable'
  <2>1. \A k \in 1 .. (Depth - 1) : stack'[k].pc \in Hooking => IsVariableCall(k)'
    BY <1>1, <1>2, <1>3 DEF HookOfVariable, IsVariableCall
  <2>2. \A k \in 1 .. (Depth - 1) : stack[k].by = "hook" => k > 1 /\ IsVariableCall(k - 1)'
    <3> SUFFICES ASSUME NEW k \in 1 .. (Depth - 1), stack[k].by = "hook"
                 PROVE  k > 1 /\ IsVariableCall(k - 1)'
      OBVIOUS
    <3>1. k > 1 /\ IsVariableCall(k - 1) BY <1>2 DEF HookOfVariable
    <3>2. k - 1 \in 1 .. (Depth - 1) BY <1>1, <3>1
    <3> QED BY <1>1, <3>1, <3>2 DEF IsVariableCall
  <2> QED BY <1>1, <2>1, <2>2 DEF HookOfVariable
<1>5. ASSUME ~reentered' PROVE (OneActive /\ AsAsked /\ Truthful)'
  <2>1. OneActive /\ AsAsked /\ Truthful BY <1>5
  <2>2. OneActive'
    <3> SUFFICES ASSUME NEW j \in 1 .. (Depth - 1), NEW k \in 1 .. (Depth - 1), j < k,
                        IsVariableCall(j), IsVariableCall(k)
                 PROVE  stack'[j].pc \in AwaitsRead
      BY <1>1 DEF OneActive, IsVariableCall
    <3>1. j # Depth - 1 BY <1>1
    <3> QED BY <1>1, <1>2, <2>1, <3>1 DEF OneActive
  <2>3. \A k \in 1 .. (Depth - 1) :
          /\ stack'[k].pc \in Unsent => stack[k].pc \in Unsent
          /\ stack'[k].pc \in HasAnswer => stack[k].pc \in HasAnswer
    BY <1>1
  <2>4. AsAsked' BY <1>1, <1>2, <2>1, <2>3 DEF AsAsked, IsVariableCall
  <2>5. Truthful'
    <3> SUFFICES ASSUME NEW k \in 1 .. (Depth - 1),
                        stack[k].req.cmd \in ReadCmds, stack'[k].pc \in HasAnswer,
                        stack[k].out \in Definite
                 PROVE  /\ stack[k].out = Reply(stack[k].req, stack[k].req.arg, store).out
                        /\ stack[k].out = "SUCCESS" =>
                             resultBuf = Reply(stack[k].req, stack[k].req.arg, store).data
      BY <1>1 DEF Truthful
    <3> QED BY <1>2, <2>1, <2>3 DEF Truthful
  <2> QED BY <2>2, <2>4, <2>5
<1> QED BY <1>4, <1>5

(* A call begins: one of a variable service only where nobody else uses    *)
(* the buffers, or for the hook of the one that does.                      *)
Alone(p) ==
  \/ reentered'
  \/ \A k \in 1 .. Depth : ~ IsVariableCall(k)
  \/ Depth > 0 /\ IsVariableCall(Depth) /\ p \in AwaitsRead

LEMMA BeginReplies ==
  ASSUME RepliesInv, NEW req, NEW by, NEW p, CallAdded(req, by, p),
         UNCHANGED store, reentered => reentered',
         req.cmd \in VariableCmds => paramBuf' = req /\ Alone(p),
         req.cmd \notin VariableCmds => UNCHANGED bufVars,
         p = Top.pc \/ p \in AwaitsRead \cup {"measuring"},
         Depth > 0 /\ p # Top.pc => IsVariableCall(Depth),
         by = "hook" => Depth > 0 /\ IsVariableCall(Depth)
  PROVE  RepliesInv'
<1> USE DEF RepliesInv
<1>1. /\ Depth' = Depth + 1 /\ Depth \in Nat
      /\ stack'[Depth + 1] = Call(req, by)
      /\ \A k \in 1 .. Depth :
           /\ stack'[k].req = stack[k].req /\ stack'[k].by = stack[k].by
           /\ stack'[k].pc = (IF k = Depth THEN p ELSE stack[k].pc)
           /\ stack'[k].out = stack[k].out
  BY DEF CallAdded
<1>2. /\ stack'[Depth + 1].req = req /\ stack'[Depth + 1].by = by
      /\ stack'[Depth + 1].pc = "filled" /\ stack'[Depth + 1].out = "NONE"
  BY <1>1 DEF Call
<1>3. \A k \in 1 .. Depth' : k \in 1 .. Depth \/ k = Depth + 1 BY <1>1
<1>4. \A k \in 1 .. Depth :
        /\ stack'[k].pc \in Unsent => stack[k].pc \in Unsent
        /\ stack'[k].pc \in HasAnswer => stack[k].pc \in HasAnswer
        /\ stack'[k].pc \in Hooking => IsVariableCall(k)
        /\ IsVariableCall(k)' <=> IsVariableCall(k)
  BY <1>1 DEF Top, HookOfVariable, IsVariableCall, AwaitsRead, Unsent, HasAnswer
<1>5. HookOfVariable'
  <2>1. \A k \in 1 .. Depth' : stack'[k].pc \in Hooking => IsVariableCall(k)'
    BY <1>2, <1>3, <1>4 DEF Hooking
  <2>2. \A k \in 1 .. Depth' : stack'[k].by = "hook" => k > 1 /\ IsVariableCall(k - 1)'
    <3> SUFFICES ASSUME NEW k \in 1 .. Depth', stack'[k].by = "hook"
                 PROVE  k > 1 /\ IsVariableCall(k - 1)'
      OBVIOUS
    <3>1. CASE k \in 1 .. Depth
      <4>1. k > 1 /\ IsVariableCall(k - 1) BY <1>1, <3>1 DEF HookOfVariable
      <4>2. k - 1 \in 1 .. Depth BY <1>1, <3>1, <4>1
      <4> QED BY <1>4, <4>1, <4>2
    <3>2. CASE k = Depth + 1
      <4>1. Depth > 0 /\ IsVariableCall(Depth) BY <1>2, <3>2
      <4>2. k > 1 /\ k - 1 = Depth /\ Depth \in 1 .. Depth BY <1>1, <3>2, <4>1
      <4> QED BY <1>4, <4>1, <4>2
    <3> QED BY <1>3, <3>1, <3>2
  <2> QED BY <2>1, <2>2 DEF HookOfVariable
<1>6. ASSUME ~reentered' PROVE (OneActive /\ AsAsked /\ Truthful)'
  <2>1. OneActive /\ AsAsked /\ Truthful BY <1>6
  <2>2. (* Below a new variable call all others wait for their reads. *)
        ASSUME req.cmd \in VariableCmds, NEW k \in 1 .. Depth, IsVariableCall(k)
        PROVE  stack'[k].pc \in AwaitsRead
    <3>1. Depth > 0 /\ IsVariableCall(Depth) /\ p \in AwaitsRead BY <1>6, <2>2 DEF Alone
    <3>2. CASE k = Depth BY <1>1, <3>1, <3>2
    <3>3. CASE k # Depth
      <4>1. Depth \in 1 .. Depth /\ k < Depth BY <1>1, <3>3
      <4>2. stack[k].pc \in AwaitsRead BY <2>1, <2>2, <3>1, <4>1 DEF OneActive
      <4> QED BY <1>1, <3>3, <4>2
    <3> QED BY <3>2, <3>3
  <2>3. OneActive'
    <3> SUFFICES ASSUME NEW j \in 1 .. Depth', NEW k \in 1 .. Depth', j < k,
                        IsVariableCall(j)', IsVariableCall(k)'
                 PROVE  stack'[j].pc \in AwaitsRead
      BY DEF OneActive
    <3>1. j \in 1 .. Depth /\ IsVariableCall(j) BY <1>1, <1>4
    <3>2. CASE k \in 1 .. Depth
      <4>1. IsVariableCall(k) /\ j # Depth BY <1>1, <1>4, <3>2
      <4> QED BY <1>1, <2>1, <3>1, <3>2, <4>1 DEF OneActive
    <3>3. CASE k = Depth + 1
      <4>1. req.cmd \in VariableCmds BY <1>2, <3>3 DEF IsVariableCall
      <4> QED BY <2>2, <3>1, <4>1
    <3> QED BY <1>3, <3>2, <3>3
  <2>4. \A k \in 1 .. Depth :
          IsVariableCall(k) /\ stack'[k].pc \in Unsent \cup HasAnswer
            => UNCHANGED bufVars
    BY <2>2 DEF AwaitsRead, Unsent, HasAnswer
  <2>5. AsAsked'
    <3> SUFFICES ASSUME NEW k \in 1 .. Depth', IsVariableCall(k)', stack'[k].pc \in Unsent
                 PROVE  paramBuf' = stack'[k].req
      BY DEF AsAsked
    <3>1. CASE k \in 1 .. Depth
      <4>1. IsVariableCall(k) /\ paramBuf' = paramBuf BY <1>4, <2>4, <3>1 DEF bufVars
      <4> QED BY <1>1, <1>4, <2>1, <3>1, <4>1 DEF AsAsked
    <3>2. CASE k = Depth + 1 BY <1>2, <3>2 DEF IsVariableCall
    <3> QED BY <1>3, <3>1, <3>2
  <2>6. Truthful'
    <3> SUFFICES ASSUME NEW k \in 1 .. Depth',
                        stack'[k].req.cmd \in ReadCmds, stack'[k].pc \in HasAnswer,
                        stack'[k].out \in Definite
                 PROVE  /\ stack'[k].out = Reply(stack'[k].req, stack'[k].req.arg, store).out
                        /\ stack'[k].out = "SUCCESS" =>
                             resultBuf' = Reply(stack'[k].req, stack'[k].req.arg, store).data
      BY DEF Truthful
    <3>1. k \in 1 .. Depth BY <1>2, <1>3 DEF HasAnswer
    <3>2. IsVariableCall(k) BY <1>1, <3>1 DEF IsVariableCall, ReadCmds, VariableCmds
    <3>3. resultBuf' = resultBuf BY <2>4, <3>1, <3>2 DEF bufVars
    <3> QED BY <1>1, <1>4, <2>1, <3>1, <3>3 DEF Truthful
  <2> QED BY <2>3, <2>5, <2>6
<1> QED BY <1>5, <1>6

LEMMA SameReplies ==
  ASSUME SessionInv, RepliesInv, SameData, UNCHANGED stack
  PROVE  RepliesInv'
<1> USE DEF RepliesInv, SameData
<1>1. Depth' = Depth BY DEF Depth
<1>2. HookOfVariable' BY <1>1 DEF HookOfVariable, IsVariableCall
<1>3. OneActive => OneActive' BY <1>1 DEF OneActive, IsVariableCall
<1>4. AsAsked => AsAsked' BY <1>1 DEF AsAsked, IsVariableCall
<1>5. Truthful => Truthful' BY <1>1 DEF Truthful
<1> QED BY <1>2, <1>3, <1>4, <1>5

LEMMA NoReplies == stack' = <<>> => RepliesInv'
<1> SUFFICES ASSUME stack' = <<>> PROVE RepliesInv'
  OBVIOUS
<1>1. Depth' = 0 BY DEF Depth
<1> QED BY <1>1 DEF RepliesInv, HookOfVariable, OneActive, AsAsked, Truthful

(* A call is sent, or is not for want of memory.                           *)
LEMMA SendReplies == SessionInv /\ RepliesInv /\ SendMessage => RepliesInv'
<1> SUFFICES ASSUME SessionInv, RepliesInv, SendMessage PROVE RepliesInv'
  OBVIOUS
<1>1. Depth > 0 /\ Top.pc = "filled" /\ StackTyped BY StackIsTyped DEF SendMessage
<1>2. SameData BY DEF SendMessage, SameData, bufVars, worldVars
<1>3. ASSUME NEW b \in TopDown(MsgPages),
             SetTop([Top EXCEPT !.pc = "world", !.msg = b.base])
      PROVE  RepliesInv'
  <2>1. b.base \in Nat BY DEF TopDown, Fits, Page
  <2>2. "world" \in Phases /\ Top.pc \in Unsent
        /\ "world" \notin Hooking /\ "world" \notin HasAnswer
    BY <1>1 DEF Phases, Unsent, Hooking, HasAnswer
  <2>3. TopBecomes("world", Top.out) BY <1>1, <1>3, <2>1, <2>2, FieldsMessage
  <2> QED BY <1>1, <1>2, <2>2, <2>3, TopReplies
<1>4. ASSUME SetTop([Top EXCEPT !.pc = "done", !.out = "OUT_OF_MEMORY"])
      PROVE  RepliesInv'
  <2>1. TopBecomes("done", "OUT_OF_MEMORY") BY <1>1, <1>4, FieldsAnswered DEF Phases
  <2>2. "done" \notin Hooking /\ "done" \notin Unsent /\ "OUT_OF_MEMORY" \notin Definite
    BY DEF Hooking, Unsent, Definite
  <2> QED BY <1>1, <1>2, <2>1, <2>2, TopReplies
<1> QED BY <1>3, <1>4 DEF SendMessage

LEMMA FreeReplies == SessionInv /\ RepliesInv /\ FreeMessage => RepliesInv'
<1> SUFFICES ASSUME SessionInv, RepliesInv, FreeMessage PROVE RepliesInv'
  OBVIOUS
<1>1. /\ Depth > 0 /\ Top.pc = "back" /\ StackTyped
      /\ SetTop([Top EXCEPT !.pc = "done", !.msg = 0])
  BY StackIsTyped DEF FreeMessage
<1>2. SameData BY DEF FreeMessage, SameData, bufVars, worldVars, histVars
<1>3. /\ "done" \in Phases /\ "done" \notin Hooking /\ "done" \notin Unsent
      /\ Top.pc \in HasAnswer
  BY <1>1 DEF Phases, Hooking, Unsent, HasAnswer
<1>4. TopBecomes("done", Top.out) BY <1>1, <1>3, FieldsMessage
<1> QED BY <1>1, <1>2, <1>3, <1>4, TopReplies

LEMMA BelowReplies ==
  SessionInv /\ RepliesInv
    /\ (RpcAlloc \/ RpcFree \/ MemoryOverrun \/ TpmLoad \/ UNCHANGED vars)
    => RepliesInv'
<1> SUFFICES ASSUME SessionInv, RepliesInv,
                    RpcAlloc \/ RpcFree \/ MemoryOverrun \/ TpmLoad \/ UNCHANGED vars
             PROVE  RepliesInv'
  OBVIOUS
<1>1. UNCHANGED stack
  BY DEF RpcAlloc, RpcFree, MemoryOverrun, TpmLoad, vars
<1>2. SameData
  BY DEF RpcAlloc, RpcFree, MemoryOverrun, TpmLoad, vars, SameData, bufVars, worldVars,
         histVars
<1> QED BY <1>1, <1>2, SameReplies

(* The application answers what it finds in the parameter buffer: that is  *)
(* the request of the call it answers, as all others wait for their reads. *)
LEMMA AnswerReplies == SessionInv /\ RepliesInv /\ Answer => RepliesInv'
<1> SUFFICES ASSUME SessionInv, RepliesInv, Answer PROVE RepliesInv'
  OBVIOUS
<1>1. /\ Depth > 0 /\ Top.pc = "world" /\ StackTyped /\ Depth \in Nat
      /\ Depth \in 1 .. Depth /\ UNCHANGED <<paramBuf, reentered>>
  BY StackIsTyped DEF Answer, InWorld, histVars
<1>2. ASSUME NEW o, Answered(o) PROVE TopBecomes("back", o)
  <2>1. SetTop([Top EXCEPT !.pc = "back", !.out = o]) BY <1>2 DEF Answered
  <2>2. "back" \in Phases BY DEF Phases
  <2> QED BY <1>1, <2>1, <2>2, FieldsAnswered
<1>3. "back" \notin Hooking /\ "back" \notin Unsent /\ "back" \in HasAnswer
  BY DEF Hooking, Unsent, HasAnswer
<1>4. (* Nothing is stored and the answer promises nothing. *)
      ASSUME NEW o, Answered(o), UNCHANGED <<store, resultBuf>>,
             o \notin Definite \/ Top.req.cmd \notin ReadCmds
      PROVE  RepliesInv'
  <2>1. SameData BY <1>1, <1>4 DEF SameData
  <2>2. TopBecomes("back", o) BY <1>2, <1>4
  <2> QED BY <1>1, <1>3, <1>4, <2>1, <2>2, TopReplies
<1>5. CASE AnswerFails
  <2>1. PICK o \in Failures : Answered(o) BY <1>5 DEF AnswerFails
  <2>2. o \notin Definite /\ UNCHANGED <<store, resultBuf>>
    BY <1>5 DEF AnswerFails, Failures, Definite
  <2> QED BY <1>4, <2>1, <2>2
<1>6. CASE AnswerOther
  <2>1. Answered("SUCCESS") /\ Top.req.cmd \notin ReadCmds /\ UNCHANGED <<store, resultBuf>>
    BY <1>6 DEF AnswerOther, VariableCmds, ReadCmds
  <2> QED BY <1>4, <2>1
<1>7. CASE AnswerVariable /\ (paramBuf = Zero \/ paramBuf.cmd # Top.req.cmd)
  <2>1. Answered("GENERIC") /\ UNCHANGED <<store, resultBuf>>
    BY <1>7 DEF AnswerVariable
  <2> QED BY <1>4, <2>1 DEF Definite
<1>8. CASE AnswerVariable /\ ~(paramBuf = Zero \/ paramBuf.cmd # Top.req.cmd)
  <2> DEFINE r == Reply(paramBuf, Top.req.arg, store)
  <2>1. /\ Top.req.cmd \in VariableCmds /\ paramBuf.cmd = Top.req.cmd
        /\ Answered(r.out)
        /\ r.out = "SUCCESS" => resultBuf' = r.data
        /\ paramBuf.cmd # "Set" => store' = store
    BY <1>8 DEF AnswerVariable
  <2>2. TopBecomes("back", r.out) BY <1>2, <2>1
  <2>3. /\ Depth' = Depth
        /\ \A k \in 1 .. Depth :
             /\ stack'[k].req = stack[k].req /\ stack'[k].by = stack[k].by
             /\ stack'[k].pc = (IF k = Depth THEN "back" ELSE stack[k].pc)
             /\ stack'[k].out = (IF k = Depth THEN r.out ELSE stack[k].out)
    BY <2>2 DEF TopBecomes
  <2>4. HookOfVariable'
    <3>1. \A k \in 1 .. Depth : stack'[k].pc \in Hooking => IsVariableCall(k)'
      BY <1>3, <2>3 DEF RepliesInv, HookOfVariable, IsVariableCall
    <3>2. \A k \in 1 .. Depth : stack[k].by = "hook" => k > 1 /\ IsVariableCall(k - 1)'
      <4> SUFFICES ASSUME NEW k \in 1 .. Depth, stack[k].by = "hook"
                   PROVE  k > 1 /\ IsVariableCall(k - 1)'
        OBVIOUS
      <4>1. k > 1 /\ IsVariableCall(k - 1) BY DEF RepliesInv, HookOfVariable
      <4>2. k - 1 \in 1 .. Depth BY <1>1, <4>1
      <4> QED BY <2>3, <4>1, <4>2 DEF IsVariableCall
    <3> QED BY <2>3, <3>1, <3>2 DEF HookOfVariable
  <2>5. ASSUME ~reentered PROVE (OneActive /\ AsAsked /\ Truthful)'
    <3>1. OneActive /\ AsAsked BY <2>5 DEF RepliesInv
    <3>2. IsVariableCall(Depth) BY <2>1 DEF IsVariableCall, Top
    <3>3. paramBuf = Top.req BY <1>1, <3>1, <3>2 DEF AsAsked, Top, Unsent
    <3>4. \A k \in 1 .. Depth :
            IsVariableCall(k) /\ k # Depth => stack'[k].pc \in AwaitsRead
      <4> SUFFICES ASSUME NEW k \in 1 .. Depth, IsVariableCall(k), k # Depth
                   PROVE  stack'[k].pc \in AwaitsRead
        OBVIOUS
      <4>1. k < Depth BY <1>1
      <4> QED BY <1>1, <2>3, <3>1, <3>2, <4>1 DEF OneActive
    <3>5. OneActive'
      <4> SUFFICES ASSUME NEW j \in 1 .. Depth, NEW k \in 1 .. Depth, j < k,
                          IsVariableCall(j)
                   PROVE  stack'[j].pc \in AwaitsRead
        BY <2>3 DEF OneActive, IsVariableCall
      <4>1. j # Depth BY <1>1
      <4> QED BY <3>4, <4>1
    <3>6. AsAsked'
      <4> SUFFICES ASSUME NEW k \in 1 .. Depth, IsVariableCall(k), stack'[k].pc \in Unsent
                   PROVE  FALSE
        BY <2>3 DEF AsAsked, IsVariableCall
      <4>1. k # Depth BY <1>3, <2>3
      <4> QED BY <3>4, <4>1 DEF AwaitsRead, Unsent
    <3>7. Truthful'
      <4> SUFFICES ASSUME NEW k \in 1 .. Depth,
                          stack[k].req.cmd \in ReadCmds, stack'[k].pc \in HasAnswer,
                          stack'[k].out \in Definite
                   PROVE  /\ stack'[k].out = Reply(stack[k].req, stack[k].req.arg, store').out
                          /\ stack'[k].out = "SUCCESS" =>
                               resultBuf' = Reply(stack[k].req, stack[k].req.arg, store').data
        BY <2>3 DEF Truthful
      <4>1. IsVariableCall(k) BY DEF IsVariableCall, ReadCmds, VariableCmds
      <4>2. k = Depth BY <3>4, <4>1 DEF AwaitsRead, HasAnswer
      <4>3. store' = store BY <2>1, <4>2 DEF ReadCmds, Top
      <4>4. r = Reply(stack[k].req, stack[k].req.arg, store) BY <3>3, <4>2 DEF Top
      <4> QED BY <2>1, <2>3, <4>2, <4>3, <4>4
    <3> QED BY <3>5, <3>6, <3>7
  <2> QED BY <1>1, <2>4, <2>5 DEF RepliesInv
<1> QED BY <1>5, <1>6, <1>7, <1>8 DEF Answer

(* A call that is not one of the variable services leaves the buffers.     *)
LEMMA OthersReplies ==
  ASSUME SessionInv, RepliesInv, NEW c, c \notin VariableCmds, NEW by \in {"main", "event"},
         stack' = Append(stack, Call(Plain(c), by)), SameData
  PROVE  RepliesInv'
<1>1. CallAdded(Plain(c), by, Top.pc) BY StackIsTyped, FieldsAdded DEF Waiting
<1>2. Plain(c).cmd \notin VariableCmds BY DEF Plain
<1> QED BY <1>1, <1>2, BeginReplies DEF SameData, bufVars

LEMMA TpmReplies ==
  SessionInv /\ RepliesInv /\ (TpmReleases \/ TpmCalls \/ TpmReturns) => RepliesInv'
<1> SUFFICES ASSUME SessionInv, RepliesInv, TpmReleases \/ TpmCalls \/ TpmReturns
             PROVE  RepliesInv'
  OBVIOUS
<1>1. CASE TpmReleases
  <2>1. /\ Depth > 0 /\ SetTop([Top EXCEPT !.pc = "end"]) /\ StackTyped
        /\ SameData
    BY <1>1, StackIsTyped DEF TpmReleases, SameData, bufVars, worldVars, histVars
  <2>2. /\ "end" \in Phases /\ "end" \notin Hooking /\ "end" \notin Unsent
        /\ "end" \notin HasAnswer
    BY DEF Phases, Hooking, Unsent, HasAnswer
  <2>3. TopBecomes("end", Top.out) BY <2>1, <2>2, FieldsMovedOn
  <2> QED BY <2>1, <2>2, <2>3, TopReplies
<1>2. CASE TpmCalls
  <2>1. UNCHANGED <<store, reentered>> BY <1>2 DEF TpmCalls, worldVars
  <2>2. \A c \in TpmCmds : c \notin VariableCmds /\ Plain(c).cmd = c
    BY DEF TpmCmds, VariableCmds, Plain
  <2>3. UNCHANGED bufVars BY <1>2 DEF TpmCalls
  <2>4. SameData BY <2>1, <2>3 DEF SameData, bufVars
  <2>5. CASE UNCHANGED stack BY <2>4, <2>5, SameReplies
  <2>6. CASE ~ UNCHANGED stack
    <3>1. PICK c \in TpmCmds : stack' = Append(stack, Call(Plain(c), "main"))
      BY <1>2, <2>6 DEF TpmCalls, SubmitStarts, Push, TpmCmds
    <3> QED BY <2>2, <2>4, <3>1, OthersReplies
  <2> QED BY <2>5, <2>6
<1>3. CASE TpmReturns
  <2>1. /\ Depth > 0 /\ stack' = Pop /\ SameData /\ StackTyped
    BY <1>3, StackIsTyped DEF TpmReturns, SameData, bufVars, worldVars, histVars
  <2>2. CallGone(stack[Depth - 1].pc) BY <2>1, FieldsGone
  <2> QED BY <2>1, <2>2, GoneReplies
<1> QED BY <1>1, <1>2, <1>3

(* The hook of a call reads in the buffers of the call it serves, which    *)
(* has its answer by then.                                                 *)
LEMMA HooksReplies ==
  SessionInv /\ RepliesInv /\ (HookReads \/ HookHasRead \/ HookMeasures) => RepliesInv'
<1> SUFFICES ASSUME SessionInv, RepliesInv, HookReads \/ HookHasRead \/ HookMeasures
             PROVE  RepliesInv'
  OBVIOUS
<1>1. CASE HookReads
  <2>1. /\ Depth > 0 /\ Top.pc \in {"done", "found"} /\ Depth \in 1 .. Depth
        /\ UNCHANGED <<store, reentered>>
    BY <1>1, StackIsTyped DEF HookReads, worldVars, histVars
  <2>2. IsVariableCall(Depth)
    <3>1. CASE Top.pc = "done" /\ Hooked(Top)
      BY <3>1 DEF Hooked, IsVariableCall, Top, VariableCmds
    <3>2. CASE Top.pc = "found"
      BY <2>1, <3>2 DEF RepliesInv, HookOfVariable, Hooking, Top
    <3> QED BY <1>1, <3>1, <3>2 DEF HookReads
  <2>3. \E p \in AwaitsRead, room \in {0, 2} :
          HooksAt(p, Get(Top.req.name, room)) /\ paramBuf' = Get(Top.req.name, room)
    BY <1>1 DEF HookReads, Push, HooksAt, Get, VariableCmds, AwaitsRead
  <2>4. PICK p \in AwaitsRead, room \in {0, 2} :
          HooksAt(p, Get(Top.req.name, room)) /\ paramBuf' = Get(Top.req.name, room)
    BY <2>3
  <2>5. p \in Phases BY DEF AwaitsRead, Phases
  <2>6. CallAdded(Get(Top.req.name, room), "hook", p)
    BY <2>1, <2>4, <2>5, StackIsTyped, FieldsHooked DEF HooksAt
  <2>7. Get(Top.req.name, room).cmd \in VariableCmds BY DEF Get, VariableCmds
  <2>8. Alone(p) BY <2>1, <2>2 DEF Alone
  <2> QED BY <2>1, <2>2, <2>4, <2>6, <2>7, <2>8, BeginReplies
<1>2. CASE HookHasRead
  <2>1. /\ Depth > 1 /\ Depth > 0 /\ Top.by = "hook" /\ StackTyped /\ SameData
    BY <1>2, StackIsTyped DEF HookHasRead, SameData, bufVars, worldVars, histVars
  <2>2. \E p \in {"found", "end", "measure"} : stack' = Resumed(p)
    BY <1>2 DEF HookHasRead, Resumed
  <2>3. PICK p \in {"found", "end", "measure"} : stack' = Resumed(p) BY <2>2
  <2>4. p \in Phases /\ p \notin Unsent \cup HasAnswer BY DEF Phases, Unsent, HasAnswer
  <2>5. CallGone(p) BY <2>1, <2>3, <2>4, FieldsResumed
  <2> QED BY <2>1, <2>4, <2>5, GoneReplies
<1>3. CASE HookMeasures
  <2>1. /\ Depth > 0 /\ Top.pc = "measure" /\ StackTyped /\ Depth \in 1 .. Depth
        /\ SameData /\ UNCHANGED bufVars
    BY <1>3, StackIsTyped DEF HookMeasures, SameData, bufVars, worldVars
  <2>2. IsVariableCall(Depth) BY <2>1 DEF RepliesInv, HookOfVariable, Hooking, Top
  <2>3. CASE HooksAt("measuring", Plain("TpmSubmit"))
    <3>1. CallAdded(Plain("TpmSubmit"), "hook", "measuring")
      BY <2>1, <2>3, FieldsHooked DEF HooksAt, Phases
    <3>2. Plain("TpmSubmit").cmd \notin VariableCmds BY DEF Plain, VariableCmds
    <3> QED BY <2>1, <2>2, <3>1, <3>2, BeginReplies DEF SameData
  <2>4. CASE SetTop([Top EXCEPT !.pc = "end"])
    <3>1. /\ "end" \in Phases /\ "end" \notin Hooking /\ "end" \notin Unsent
          /\ "end" \notin HasAnswer
      BY DEF Phases, Hooking, Unsent, HasAnswer
    <3>2. TopBecomes("end", Top.out) BY <2>1, <2>4, <3>1, FieldsMovedOn
    <3> QED BY <2>1, <3>1, <3>2, TopReplies
  <2> QED BY <1>3, <2>3, <2>4 DEF HookMeasures, SubmitStarts, HooksAt
<1> QED BY <1>1, <1>2, <1>3

(* A callback that calls a variable service over a call of this driver is  *)
(* recorded; else no variable call is under way.                           *)
LEMMA CallbacksReplies ==
  SessionInv /\ RepliesInv /\ (CallbackSubmits \/ CallbackCalls \/ CallbackReturns)
    => RepliesInv'
<1> SUFFICES ASSUME SessionInv, RepliesInv,
                    CallbackSubmits \/ CallbackCalls \/ CallbackReturns
             PROVE  RepliesInv'
  OBVIOUS
<1>1. CASE CallbackSubmits
  <2>1. SameData BY <1>1 DEF CallbackSubmits, SameData, bufVars, worldVars
  <2>2. CASE UNCHANGED stack BY <2>1, <2>2, SameReplies
  <2>3. CASE stack' = Append(stack, Call(Plain("TpmSubmit"), "event"))
    <3>1. "TpmSubmit" \notin VariableCmds BY DEF VariableCmds
    <3> QED BY <2>1, <2>3, <3>1, OthersReplies
  <2> QED BY <1>1, <2>2, <2>3 DEF CallbackSubmits, SubmitStarts
<1>2. CASE CallbackCalls
  <2>1. PICK req \in EventCalls : Push(stack, req, "event") BY <1>2 DEF CallbackCalls
  <2>2. req.cmd \in VariableCmds BY RequestsAssumption DEF VariableRequests
  <2>3. stack' = Append(stack, Call(req, "event")) /\ paramBuf' = req
    BY <2>1, <2>2 DEF Push
  <2>4. /\ UNCHANGED store
        /\ reentered' = (reentered \/ \E k \in 1 .. Depth : Client(stack[k].req) = "av")
    BY <1>2 DEF CallbackCalls, worldVars
  <2>5. CallAdded(req, "event", Top.pc) BY <2>3, StackIsTyped, FieldsAdded DEF Waiting
  <2>6. \A k \in 1 .. Depth : IsVariableCall(k) => Client(stack[k].req) = "av"
    BY DEF IsVariableCall, Client, VariableCmds, TpmCmds
  <2>7. Alone(Top.pc) BY <2>4, <2>6 DEF Alone
  <2> QED BY <2>2, <2>3, <2>4, <2>5, <2>7, BeginReplies
<1>3. CASE CallbackReturns
  <2>1. /\ Depth > 1 /\ Depth > 0 /\ stack' = Pop /\ SameData /\ StackTyped
    BY <1>3, StackIsTyped DEF CallbackReturns, SameData, bufVars, worldVars, histVars
  <2>2. CallGone(stack[Depth - 1].pc) BY <2>1, FieldsGone
  <2> QED BY <2>1, <2>2, GoneReplies
<1> QED BY <1>1, <1>2, <1>3

(* The driver and its callers begin a call when none is under way.         *)
LEMMA StagesReplies ==
  SessionInv /\ RepliesInv /\ (StageBegins \/ CallerCalls) => RepliesInv'
<1> SUFFICES ASSUME SessionInv, RepliesInv, StageBegins \/ CallerCalls
             PROVE  RepliesInv'
  OBVIOUS
<1>1. stack = <<>> /\ UNCHANGED <<store, reentered>>
  BY DEF StageBegins, CallerCalls, worldVars, histVars
<1>2. \E req : Push(<<>>, req, "main") BY DEF StageBegins, CallerCalls
<1>3. PICK req : Push(<<>>, req, "main") BY <1>2
<1>4. stack' = Append(stack, Call(req, "main")) BY <1>1, <1>3 DEF Push
<1>5. /\ req.cmd \in VariableCmds => paramBuf' = req
      /\ req.cmd \notin VariableCmds => UNCHANGED bufVars
  BY <1>3 DEF Push
<1>6. CallAdded(req, "main", Top.pc) BY <1>4, StackIsTyped, FieldsAdded DEF Waiting
<1>7. Depth = 0 BY <1>1 DEF Depth
<1>8. Alone(Top.pc) BY <1>7 DEF Alone
<1> QED BY <1>1, <1>5, <1>6, <1>7, <1>8, BeginReplies

(* All other steps leave no call under way.                                *)
LEMMA OutsideReplies ==
  (\/ Load \/ AllocateBuffers \/ Publish \/ ExitBootServices \/ ReleaseBuffers
   \/ SessionOpened \/ Probed \/ EnableRead \/ VariablesSet
   \/ CallerReturns \/ Signalled \/ SessionClosed) => RepliesInv'
<1> SUFFICES ASSUME \/ Load \/ AllocateBuffers \/ Publish \/ ExitBootServices \/ ReleaseBuffers
                    \/ SessionOpened \/ Probed \/ EnableRead \/ VariablesSet
                    \/ CallerReturns \/ Signalled \/ SessionClosed
             PROVE  stack' = <<>>
  BY NoReplies
<1>1. \A stage : Returning(stage) => stack' = <<>> BY DEF Returning
<1> QED BY <1>1 DEF Load, AllocateBuffers, Publish, ExitBootServices, ReleaseBuffers,
                    SessionOpened, Probed, EnableRead, VariablesSet, StageSet,
                    CallerReturns, Signalled, SessionClosed

LEMMA RepliesStep == SessionInv /\ RepliesInv /\ [Next]_vars => RepliesInv'
BY SendReplies, FreeReplies, BelowReplies, AnswerReplies, TpmReplies, HooksReplies,
   CallbacksReplies, StagesReplies, OutsideReplies
DEF Next, Progress

LEMMA RepliesStart == Init => RepliesInv
<1> SUFFICES ASSUME Init PROVE RepliesInv
  OBVIOUS
<1>1. Depth = 0 BY DEF Init, Depth
<1> QED BY <1>1 DEF RepliesInv, HookOfVariable, OneActive, AsAsked, Truthful

-----------------------------------------------------------------------------
(* For every pool, every number of callbacks and failures and all requests *)
(* of the callers: as long as no callback calls a variable service inside  *)
(* another, a read that succeeded - a caller's, the driver's own or the    *)
(* hook's - finds in the result buffer what the application stores.        *)
THEOREM ReadsAreTrue == Spec => []RepliesMatch
<1>1. RepliesInv => RepliesMatch
  <2> SUFFICES ASSUME RepliesInv, ~reentered, NEW k \in 1 .. Depth,
                      stack[k].req.cmd \in {"Get", "GetNext", "Query"},
                      stack[k].pc \in {"back", "done"}, Ok(stack[k])
               PROVE  resultBuf = Reply(stack[k].req, stack[k].req.arg, store).data
    BY DEF RepliesMatch
  <2>1. stack[k].out = "SUCCESS" BY DEF Ok, EfiStatus
  <2> QED BY <2>1 DEF RepliesInv, Truthful, ReadCmds, HasAnswer, Definite
<1> QED BY <1>1, RepliesStart, RepliesStep, SessionStart, SessionStep, PTL DEF Spec

-----------------------------------------------------------------------------
(* What InitSecureBootVariables knows of the store at each of its stages.  *)

InitStages == {"probe", "setup", "enable", "create", "secure", "custom"}
Before == {"load", "open", "param", "result", "publish"} \cup InitStages

(* Until the services are published the application is asked only what the *)
(* stage asks, and nothing is hooked.                                      *)
AskedByStage(k) ==
  /\ k = 1 /\ main \in InitStages /\ stack[k].req = StageCall[main]
  /\ stack[k].pc \notin Hooking \cup {"end"}
SetIsStored(k) ==
  stack[k].req.cmd = "Set" /\ stack[k].pc \notin Unsent /\ stack[k].out = "SUCCESS"
    => store[stack[k].req.name] = stack[k].req.arg
Unshared ==
  main \in Before =>
    /\ ~arch /\ ~reentered
    /\ \A k \in 1 .. Depth :
         /\ stack[k].by # "hook"
         /\ stack[k].req.cmd \in ForSession => AskedByStage(k) /\ SetIsStored(k)

IsStore == store = [n \in Names |-> store[n]]
Known ==
  /\ main \in {"setup", "enable", "create", "secure", "custom", "publish"} /\ ~misread
       => (pkPresent <=> store[PK] # Absent)
  /\ main \in {"enable", "create", "secure", "custom", "publish"}
       => store[SetupMode] = (IF pkPresent THEN 0 ELSE 1)
  /\ main \in {"secure", "custom", "publish"} /\ pkPresent
       => store[SecureBootEnable] = enable
  /\ main \in {"custom", "publish"}
       => store[SecureBoot] = (IF pkPresent /\ enable = 1 THEN 1 ELSE 0)
  /\ main = "publish" => store[CustomMode] = 0

PolicyInv == Unshared /\ IsStore /\ Known

LEMMA DifferentNames ==
  /\ PK \notin {SetupMode, SecureBootEnable, SecureBoot, CustomMode}
  /\ SetupMode \notin {SecureBootEnable, SecureBoot, CustomMode}
  /\ SecureBootEnable \notin {SecureBoot, CustomMode}
  /\ SecureBoot # CustomMode
<1>1. /\ Order[1] = PK /\ Order[2] = SetupMode /\ Order[3] = SecureBootEnable
      /\ Order[4] = SecureBoot /\ Order[5] = CustomMode
  BY DEF Order
<1>2. \A j, k \in 1 .. 5 : j # k => Order[j] # Order[k] BY NamesAssumption
<1>3. /\ Order[1] # Order[2] /\ Order[1] # Order[3] /\ Order[1] # Order[4]
      /\ Order[1] # Order[5] /\ Order[2] # Order[3] /\ Order[2] # Order[4]
      /\ Order[2] # Order[5] /\ Order[3] # Order[4] /\ Order[3] # Order[5]
      /\ Order[4] # Order[5]
  BY <1>2
<1> QED BY <1>1, <1>3

(* A call goes on while its stage waits.                                   *)
Stays == UNCHANGED <<main, arch, reentered, store, pkPresent, enable, misread>>

LEMMA KnownStays == PolicyInv /\ Stays => IsStore' /\ Known'
BY DEF PolicyInv, Stays, IsStore, Known, Names

LEMMA StageCallStays == UNCHANGED <<pkPresent, enable>> => StageCall' = StageCall
BY DEF StageCall, Plain, Get, Set

(* Once the services are published no stage counts on anything.            *)
LEMMA BeyondInit ==
  ASSUME PolicyInv, main' \notin Before, UNCHANGED store
  PROVE  PolicyInv'
<1>1. IsStore' BY DEF PolicyInv, IsStore, Names
<1>2. Known' BY DEF Known, Before, InitStages
<1> QED BY <1>1, <1>2 DEF PolicyInv, Unshared

(* A call that was under way goes on, as far as its stage is concerned.    *)
GoesOn(k) ==
  /\ k \in 1 .. Depth
  /\ stack'[k].req = stack[k].req /\ stack'[k].by = stack[k].by
  /\ stack[k].req.cmd \in ForSession =>
       /\ stack'[k].pc \notin Hooking \cup {"end"} \/ stack'[k].pc = stack[k].pc
       /\ \/ stack'[k].pc \in Unsent
          \/ stack'[k].out # "SUCCESS"
          \/ stack'[k].out = stack[k].out /\ stack[k].pc \notin Unsent
IsOther(k) == stack[k].by # "hook" /\ stack[k].req.cmd \notin ForSession

LEMMA UnsharedStays ==
  ASSUME PolicyInv, Stays, \A k \in 1 .. Depth' : GoesOn(k) \/ IsOther(k)'
  PROVE  PolicyInv'
<1>1. IsStore' /\ Known' BY KnownStays
<1>2. ASSUME main \in Before, NEW k \in 1 .. Depth'
      PROVE  /\ stack'[k].by # "hook"
             /\ stack'[k].req.cmd \in ForSession => AskedByStage(k)' /\ SetIsStored(k)'
  <2>1. CASE IsOther(k)' BY <2>1 DEF IsOther
  <2>2. CASE GoesOn(k)
    <3>1. /\ stack[k].by # "hook"
          /\ stack[k].req.cmd \in ForSession => AskedByStage(k) /\ SetIsStored(k)
      BY <1>2, <2>2 DEF PolicyInv, Unshared, GoesOn
    <3>2. ASSUME stack[k].req.cmd \in ForSession PROVE AskedByStage(k)'
      <4>1. stack'[k].pc \notin Hooking \cup {"end"}
        BY <2>2, <3>1, <3>2 DEF AskedByStage, GoesOn
      <4> QED BY <2>2, <3>1, <3>2, <4>1, StageCallStays DEF AskedByStage, GoesOn, Stays
    <3>3. stack[k].req.cmd \in ForSession => SetIsStored(k)'
      BY <2>2, <3>1 DEF SetIsStored, GoesOn, Stays
    <3> QED BY <2>2, <3>1, <3>2, <3>3 DEF GoesOn
  <2> QED BY <1>2, <2>1, <2>2
<1>3. Unshared' BY <1>2 DEF PolicyInv, Unshared, Stays
<1> QED BY <1>1, <1>3 DEF PolicyInv

LEMMA TopStays ==
  ASSUME PolicyInv, Stays, Depth > 0, NEW p, NEW o, TopBecomes(p, o),
         Top.req.cmd \in ForSession =>
           /\ p \notin Hooking \cup {"end"}
           /\ p \in Unsent \/ o # "SUCCESS" \/ (o = Top.out /\ Top.pc \notin Unsent)
  PROVE  PolicyInv'
<1>1. /\ Depth' = Depth
      /\ \A k \in 1 .. Depth :
           /\ stack'[k].req = stack[k].req /\ stack'[k].by = stack[k].by
           /\ stack'[k].pc = (IF k = Depth THEN p ELSE stack[k].pc)
           /\ stack'[k].out = (IF k = Depth THEN o ELSE stack[k].out)
  BY DEF TopBecomes
<1>2. ASSUME NEW k \in 1 .. Depth PROVE GoesOn(k)
  <2>1. CASE k = Depth BY <1>1, <2>1 DEF GoesOn, Top
  <2>2. CASE k # Depth BY <1>1, <2>2 DEF GoesOn
  <2> QED BY <2>1, <2>2
<1> QED BY <1>1, <1>2, UnsharedStays

LEMMA GoneStays ==
  ASSUME PolicyInv, Stays, Depth > 0, CallGone(stack[Depth - 1].pc)
  PROVE  PolicyInv'
<1>1. /\ Depth' = Depth - 1 /\ Depth \in Nat
      /\ \A k \in 1 .. (Depth - 1) :
           /\ stack'[k].req = stack[k].req /\ stack'[k].by = stack[k].by
           /\ stack'[k].pc = stack[k].pc
           /\ stack'[k].out = stack[k].out
  BY DEF CallGone
<1>2. ASSUME NEW k \in 1 .. Depth' PROVE GoesOn(k) BY <1>1 DEF GoesOn
<1> QED BY <1>2, UnsharedStays

LEMMA AddedStays ==
  ASSUME PolicyInv, Stays, NEW req, NEW by \in {"main", "event"},
         CallAdded(req, by, Top.pc), req.cmd \notin ForSession
  PROVE  PolicyInv'
<1>1. /\ Depth' = Depth + 1 /\ Depth \in Nat
      /\ stack'[Depth + 1] = Call(req, by)
      /\ \A k \in 1 .. Depth :
           /\ stack'[k].req = stack[k].req /\ stack'[k].by = stack[k].by
           /\ stack'[k].pc = stack[k].pc
           /\ stack'[k].out = stack[k].out
  BY DEF CallAdded, Top
<1>2. ASSUME NEW k \in 1 .. Depth PROVE GoesOn(k) BY <1>1 DEF GoesOn
<1>3. ASSUME NEW k, k = Depth + 1 PROVE IsOther(k)' BY <1>1, <1>3 DEF IsOther, Call
<1>4. \A k \in 1 .. Depth' : k \in 1 .. Depth \/ k = Depth + 1 BY <1>1
<1> QED BY <1>1, <1>2, <1>3, <1>4, UnsharedStays

LEMMA SameStays == PolicyInv /\ Stays /\ UNCHANGED stack => PolicyInv'
<1> SUFFICES ASSUME PolicyInv, Stays, UNCHANGED stack PROVE PolicyInv'
  OBVIOUS
<1>1. Depth' = Depth BY DEF Depth
<1>2. ASSUME NEW k \in 1 .. Depth PROVE GoesOn(k) BY DEF GoesOn
<1> QED BY <1>1, <1>2, UnsharedStays

-----------------------------------------------------------------------------
(* No step of a call disturbs what the stage knows, but the answer to its  *)
(* own request.                                                            *)

LEMMA CallsStay ==
  (\/ SendMessage \/ FreeMessage \/ RpcAlloc \/ RpcFree \/ MemoryOverrun \/ TpmLoad
   \/ TpmReleases \/ TpmCalls \/ TpmReturns \/ HookReads \/ HookHasRead \/ HookMeasures
   \/ CallbackSubmits \/ CallbackReturns \/ StageBegins \/ UNCHANGED vars) => Stays
BY DEF SendMessage, FreeMessage, RpcAlloc, RpcFree, MemoryOverrun, TpmLoad,
       TpmReleases, TpmCalls, TpmReturns, HookReads, HookHasRead, HookMeasures,
       CallbackSubmits, CallbackReturns, StageBegins, vars,
       Stays, driverVars, worldVars, histVars

LEMMA SendPolicy == SessionInv /\ PolicyInv /\ SendMessage => PolicyInv'
<1> SUFFICES ASSUME SessionInv, PolicyInv, SendMessage PROVE PolicyInv'
  OBVIOUS
<1>1. Stays /\ Depth > 0 /\ StackTyped BY CallsStay, StackIsTyped DEF SendMessage
<1>2. ASSUME NEW b \in TopDown(MsgPages),
             SetTop([Top EXCEPT !.pc = "world", !.msg = b.base])
      PROVE  PolicyInv'
  <2>1. b.base \in Nat BY DEF TopDown, Fits, Page
  <2>2. "world" \in Phases /\ "world" \in Unsent /\ "world" \notin Hooking \cup {"end"}
    BY DEF Phases, Unsent, Hooking
  <2>3. TopBecomes("world", Top.out) BY <1>1, <1>2, <2>1, <2>2, FieldsMessage
  <2> QED BY <1>1, <2>2, <2>3, TopStays
<1>3. ASSUME SetTop([Top EXCEPT !.pc = "done", !.out = "OUT_OF_MEMORY"])
      PROVE  PolicyInv'
  <2>1. TopBecomes("done", "OUT_OF_MEMORY") BY <1>1, <1>3, FieldsAnswered DEF Phases
  <2>2. "done" \notin Hooking \cup {"end"} BY DEF Hooking
  <2> QED BY <1>1, <2>1, <2>2, TopStays
<1> QED BY <1>2, <1>3 DEF SendMessage

LEMMA FreePolicy == SessionInv /\ PolicyInv /\ FreeMessage => PolicyInv'
<1> SUFFICES ASSUME SessionInv, PolicyInv, FreeMessage PROVE PolicyInv'
  OBVIOUS
<1>1. /\ Stays /\ Depth > 0 /\ Top.pc = "back" /\ StackTyped
      /\ SetTop([Top EXCEPT !.pc = "done", !.msg = 0])
  BY CallsStay, StackIsTyped DEF FreeMessage
<1>2. /\ "done" \in Phases /\ "done" \notin Hooking \cup {"end"}
      /\ Top.pc \notin Unsent
  BY <1>1 DEF Phases, Hooking, Unsent
<1>3. TopBecomes("done", Top.out) BY <1>1, <1>2, FieldsMessage
<1> QED BY <1>1, <1>2, <1>3, TopStays

LEMMA OthersPolicy ==
  ASSUME SessionInv, PolicyInv, NEW c \in TpmCmds, NEW by \in {"main", "event"}, Stays,
         stack' = Append(stack, Call(Plain(c), by))
  PROVE  PolicyInv'
<1>1. CallAdded(Plain(c), by, Top.pc) BY StackIsTyped, FieldsAdded DEF Waiting
<1>2. Plain(c).cmd \notin ForSession BY DEF Plain, TpmCmds, ForSession, VariableCmds
<1> QED BY <1>1, <1>2, AddedStays

LEMMA TpmPolicy ==
  SessionInv /\ PolicyInv
    /\ (\/ TpmReleases \/ TpmCalls \/ TpmReturns \/ CallbackSubmits \/ CallbackReturns
        \/ RpcAlloc \/ RpcFree \/ MemoryOverrun \/ TpmLoad \/ UNCHANGED vars)
    => PolicyInv'
<1> SUFFICES ASSUME SessionInv, PolicyInv,
                    \/ TpmReleases \/ TpmCalls \/ TpmReturns \/ CallbackSubmits \/ CallbackReturns
                    \/ RpcAlloc \/ RpcFree \/ MemoryOverrun \/ TpmLoad \/ UNCHANGED vars
             PROVE  PolicyInv'
  OBVIOUS
<1>1. Stays /\ StackTyped /\ Depth \in Nat BY CallsStay, StackIsTyped
<1>2. CASE TpmReleases
  <2>1. /\ Depth > 0 /\ Top.req.cmd = "TpmSubmit"
        /\ SetTop([Top EXCEPT !.pc = "end"])
    BY <1>2 DEF TpmReleases
  <2>2. "end" \in Phases /\ Top.req.cmd \notin ForSession
    BY <2>1 DEF Phases, ForSession, VariableCmds
  <2>3. TopBecomes("end", Top.out) BY <1>1, <2>1, <2>2, FieldsMovedOn
  <2> QED BY <1>1, <2>1, <2>2, <2>3, TopStays
<1>3. CASE TpmCalls \/ CallbackSubmits
  <2>1. CASE UNCHANGED stack BY <1>1, <2>1, SameStays
  <2>2. CASE ~ UNCHANGED stack
    <3>1. \E c \in TpmCmds, by \in {"main", "event"} :
            stack' = Append(stack, Call(Plain(c), by))
      BY <1>3, <2>2 DEF TpmCalls, CallbackSubmits, SubmitStarts, Push, TpmCmds
    <3> QED BY <1>1, <3>1, OthersPolicy
  <2> QED BY <2>1, <2>2
<1>4. CASE TpmReturns \/ CallbackReturns
  <2>1. Depth > 0 /\ stack' = Pop BY <1>1, <1>4 DEF TpmReturns, CallbackReturns
  <2>2. CallGone(stack[Depth - 1].pc) BY <1>1, <2>1, FieldsGone
  <2> QED BY <1>1, <2>1, <2>2, GoneStays
<1>5. CASE RpcAlloc \/ RpcFree \/ MemoryOverrun \/ TpmLoad \/ UNCHANGED vars
  <2>1. UNCHANGED stack BY <1>5 DEF RpcAlloc, RpcFree, MemoryOverrun, TpmLoad, vars
  <2> QED BY <1>1, <2>1, SameStays
<1> QED BY <1>2, <1>3, <1>4, <1>5

(* No hook before the services are published.                              *)
LEMMA HooksPolicy ==
  SessionInv /\ RepliesInv /\ PolicyInv /\ (HookReads \/ HookHasRead \/ HookMeasures)
    => PolicyInv'
<1> SUFFICES ASSUME SessionInv, RepliesInv, PolicyInv, HookReads \/ HookHasRead \/ HookMeasures
             PROVE  PolicyInv'
  OBVIOUS
<1>1. Stays /\ Depth \in Nat BY CallsStay, StackIsTyped
<1>2. ASSUME main \in Before PROVE FALSE
  <2>1. /\ ~arch
        /\ \A k \in 1 .. Depth :
             /\ stack[k].by # "hook"
             /\ stack[k].req.cmd \in ForSession => stack[k].pc \notin Hooking
    BY <1>2 DEF PolicyInv, Unshared, AskedByStage
  <2>2. \A k \in 1 .. Depth : stack[k].pc \notin Hooking
    BY <2>1 DEF RepliesInv, HookOfVariable, IsVariableCall, ForSession
  <2>3. Depth > 0 => Depth \in 1 .. Depth BY <1>1
  <2>4. CASE HookReads
    BY <2>1, <2>2, <2>3, <2>4 DEF HookReads, Hooked, Hooking, Top
  <2>5. CASE HookHasRead BY <1>1, <2>1, <2>3, <2>5 DEF HookHasRead, Top
  <2>6. CASE HookMeasures BY <2>2, <2>3, <2>6 DEF HookMeasures, Hooking, Top
  <2> QED BY <2>4, <2>5, <2>6
<1> QED BY <1>1, <1>2, BeyondInit DEF Stays

LEMMA BeginsPolicy ==
  PolicyInv /\ (StageBegins \/ CallerCalls \/ CallbackCalls) => PolicyInv'
<1> SUFFICES ASSUME PolicyInv, StageBegins \/ CallerCalls \/ CallbackCalls
             PROVE  PolicyInv'
  OBVIOUS
<1>1. CASE CallerCalls \/ CallbackCalls
  <2>1. main' = "ready" /\ UNCHANGED store
    BY <1>1 DEF CallerCalls, CallbackCalls, worldVars
  <2> QED BY <2>1, BeyondInit DEF Before, InitStages
<1>2. CASE StageBegins
  <2>1. /\ main \in DOMAIN StageCall /\ stack' = <<Call(StageCall[main], "main")>>
        /\ Stays
    BY <1>2, CallsStay DEF StageBegins, Push
  <2>2. Depth' = 1 /\ stack'[1] = Call(StageCall[main], "main") BY <2>1 DEF Depth
  <2>3. /\ stack'[1].by = "main" /\ stack'[1].req = StageCall[main]
        /\ stack'[1].pc = "filled"
    BY <2>2 DEF Call
  <2>4. IsStore' /\ Known' BY <2>1, KnownStays
  <2>5. ASSUME main \in Before, StageCall[main].cmd \in ForSession
        PROVE  AskedByStage(1)' /\ SetIsStored(1)'
    <3>1. main \in InitStages
      <4>1. main \in InitStages \cup {"open"} BY <2>1, <2>5 DEF StageCall, Before, InitStages
      <4>2. StageCall["open"].cmd \notin ForSession
        BY DEF StageCall, Plain, ForSession, VariableCmds
      <4> QED BY <2>5, <4>1, <4>2
    <3>2. StageCall' = StageCall /\ main' = main BY <2>1, StageCallStays DEF Stays
    <3> QED BY <2>3, <3>1, <3>2 DEF AskedByStage, SetIsStored, Hooking, Unsent
  <2>6. Unshared'
    <3> SUFFICES ASSUME main' \in Before
                 PROVE  /\ ~arch' /\ ~reentered'
                        /\ stack'[1].by # "hook"
                        /\ stack'[1].req.cmd \in ForSession => AskedByStage(1)' /\ SetIsStored(1)'
      BY <2>2 DEF Unshared
    <3> QED BY <2>1, <2>3, <2>5 DEF PolicyInv, Unshared, Stays
  <2> QED BY <2>4, <2>6 DEF PolicyInv
<1> QED BY <1>1, <1>2

(* The answer to the request of a stage: only what it asked to set is set. *)
LEMMA AnswerPolicy == SessionInv /\ RepliesInv /\ PolicyInv /\ Answer => PolicyInv'
<1> SUFFICES ASSUME SessionInv, RepliesInv, PolicyInv, Answer PROVE PolicyInv'
  OBVIOUS
<1>1. /\ Depth > 0 /\ Top.pc = "world" /\ StackTyped /\ Depth \in Nat
      /\ Depth \in 1 .. Depth
      /\ UNCHANGED <<main, arch, reentered, pkPresent, enable, misread>>
  BY StackIsTyped DEF Answer, InWorld, driverVars, histVars
<1>2. ASSUME NEW o, Answered(o) PROVE TopBecomes("back", o)
  <2>1. SetTop([Top EXCEPT !.pc = "back", !.out = o]) BY <1>2 DEF Answered
  <2>2. "back" \in Phases BY DEF Phases
  <2> QED BY <1>1, <2>1, <2>2, FieldsAnswered
<1>3. "back" \notin Hooking \cup {"end"} BY DEF Hooking
<1>4. ASSUME NEW o, Answered(o), UNCHANGED store,
             o # "SUCCESS" \/ Top.req.cmd \notin ForSession
      PROVE  PolicyInv'
  <2>1. Stays BY <1>1, <1>4 DEF Stays
  <2>2. TopBecomes("back", o) BY <1>2, <1>4
  <2> QED BY <1>1, <1>3, <1>4, <2>1, <2>2, TopStays
<1>5. CASE AnswerFails
  <2>1. PICK o \in Failures : Answered(o) BY <1>5 DEF AnswerFails
  <2>2. o # "SUCCESS" /\ UNCHANGED store BY <1>5 DEF AnswerFails, Failures
  <2> QED BY <1>4, <2>1, <2>2
<1>6. IsStore'
  <2>1. CASE UNCHANGED store BY <2>1 DEF PolicyInv, IsStore, Names
  <2>2. CASE store' = [store EXCEPT ![paramBuf.name] = paramBuf.arg]
    <3> DEFINE n == paramBuf.name
               a == paramBuf.arg
    <3>1. store' = [store EXCEPT ![n] = a] BY <2>2
    <3> HIDE DEF n, a
    <3>2. store = [x \in Names |-> store[x]] BY DEF PolicyInv, IsStore
    <3>3. store' = [x \in Names |-> store'[x]] BY <3>1, <3>2
    <3> QED BY <3>3 DEF IsStore, Names
  <2> QED BY <1>5, <2>1, <2>2 DEF Answer, AnswerVariable, AnswerOther, AnswerFails
<1>7. CASE main \notin Before
  <2>1. Known' BY <1>1, <1>7 DEF Known, Before, InitStages
  <2> QED BY <1>1, <1>6, <1>7, <2>1 DEF PolicyInv, Unshared
<1>8. CASE main \in Before /\ Top.req.cmd \notin VariableCmds /\ ~AnswerFails
  <2>1. AnswerOther BY <1>8 DEF Answer, AnswerVariable
  <2>2. Answered("SUCCESS") /\ UNCHANGED store BY <2>1 DEF AnswerOther
  <2>3. Stays BY <1>1, <2>2 DEF Stays
  <2>4. TopBecomes("back", "SUCCESS") BY <1>2, <2>2
  <2>5. CASE Top.req.cmd \notin ForSession BY <1>4, <2>2, <2>5
  <2>6. CASE Top.req.cmd \in ForSession
    <3>1. AskedByStage(Depth) BY <1>1, <1>8, <2>6 DEF PolicyInv, Unshared, Top
    <3>2. Top.req.cmd \in {"Get", "Set"}
      BY <3>1 DEF AskedByStage, InitStages, StageCall, Get, Set, Top
    <3> QED BY <1>8, <3>2 DEF VariableCmds
  <2> QED BY <2>5, <2>6
<1>9. CASE main \in Before /\ Top.req.cmd \in VariableCmds /\ ~AnswerFails
  <2>1. AnswerVariable BY <1>9 DEF Answer, AnswerOther
  <2>2. /\ Depth = 1 /\ main \in InitStages /\ Top.req = StageCall[main] /\ ~reentered /\ ~arch
        /\ stack[1].by # "hook"
    <3>1. AskedByStage(Depth) /\ ~reentered /\ ~arch /\ stack[Depth].by # "hook"
      BY <1>1, <1>9 DEF PolicyInv, Unshared, Top, ForSession
    <3> QED BY <1>1, <3>1 DEF AskedByStage, Top
  <2>3. paramBuf = Top.req
    BY <1>1, <1>9, <2>2 DEF RepliesInv, AsAsked, IsVariableCall, Top, Unsent
  <2>4. CASE Top.req.cmd # "Set"
    <3>1. \E o : Answered(o) BY <2>1 DEF AnswerVariable
    <3>2. PICK o : Answered(o) BY <3>1
    <3>3. Stays BY <1>1, <2>1, <2>3, <2>4 DEF AnswerVariable, Stays
    <3>4. TopBecomes("back", o) BY <1>2, <3>2
    <3>5. /\ Depth' = 1 /\ stack'[1].req = stack[1].req /\ stack'[1].by = stack[1].by
          /\ stack'[1].pc = "back"
      BY <2>2, <3>4 DEF TopBecomes
    <3>6. IsStore' /\ Known' BY <3>3, KnownStays
    <3>7. AskedByStage(1)'
      BY <1>3, <2>2, <3>3, <3>5, StageCallStays DEF AskedByStage, Stays, Top
    <3>8. SetIsStored(1)' BY <2>2, <2>4, <3>5 DEF SetIsStored, Top
    <3>9. Unshared' BY <1>1, <2>2, <3>5, <3>7, <3>8 DEF Unshared
    <3> QED BY <3>6, <3>9 DEF PolicyInv
  <2>5. CASE Top.req.cmd = "Set"
    <3> DEFINE n == Top.req.name
               a == Top.req.arg
    <3>1. CASE paramBuf = Zero
      <4>1. Answered("GENERIC") /\ UNCHANGED store BY <2>1, <3>1 DEF AnswerVariable
      <4> QED BY <1>4, <4>1
    <3>2. CASE paramBuf # Zero
      <4> DEFINE r == Reply(paramBuf, Top.req.arg, store)
      <4>1. /\ Answered(r.out)
            /\ store' = IF r.out = "SUCCESS" THEN [store EXCEPT ![n] = a] ELSE store
        BY <2>1, <2>3, <2>5, <3>2 DEF AnswerVariable
      <4> DEFINE o == r.out
      <4>2. Answered(o) /\ store' = IF o = "SUCCESS" THEN [store EXCEPT ![n] = a] ELSE store
        BY <4>1
      <4> HIDE DEF o, r
      <4>3. CASE o # "SUCCESS" BY <1>4, <4>2, <4>3
      <4>4. CASE o = "SUCCESS"
        <5>1. main \in {"setup", "create", "secure", "custom"}
          BY <2>2, <2>5 DEF InitStages, StageCall, Get
        <5>2. /\ main = "setup" => n = SetupMode
              /\ main = "create" => n = SecureBootEnable
              /\ main = "secure" => n = SecureBoot
              /\ main = "custom" => n = CustomMode
          BY <2>2 DEF StageCall, Set
        <5> HIDE DEF n, a
        <5>3. n \in Names BY <5>1, <5>2 DEF Names
        <5>4. store' = [store EXCEPT ![n] = a] BY <4>2, <4>4
        <5>5. /\ store'[n] = a
              /\ \A x \in Names : x # n => store'[x] = store[x]
          BY <5>3, <5>4 DEF PolicyInv, IsStore
        <5>6. Known'
          <6>1. /\ main # "setup" => SetupMode # n
                /\ main \in {"secure", "custom"} => SecureBootEnable # n
                /\ main = "custom" => SecureBoot # n
                /\ PK # n
            BY <5>1, <5>2, DifferentNames
          <6>2. Known BY DEF PolicyInv
          <6> QED BY <1>1, <5>1, <5>5, <6>1, <6>2 DEF Known, Names
        <5>7. TopBecomes("back", o) BY <1>2, <4>2
        <5>8. /\ Depth' = 1 /\ stack'[1].req = stack[1].req /\ stack'[1].by = stack[1].by
              /\ stack'[1].pc = "back"
          BY <2>2, <5>7 DEF TopBecomes
        <5>9. StageCall' = StageCall BY <1>1, StageCallStays
        <5>10. AskedByStage(1)' BY <1>1, <1>3, <2>2, <5>8, <5>9 DEF AskedByStage, Top
        <5>11. SetIsStored(1)' BY <2>2, <5>5, <5>8 DEF SetIsStored, Top, n, a
        <5>12. Unshared' BY <1>1, <2>2, <5>8, <5>10, <5>11 DEF Unshared
        <5> QED BY <1>6, <5>6, <5>12 DEF PolicyInv
      <4> QED BY <4>3, <4>4
    <3> QED BY <3>1, <3>2
  <2> QED BY <2>4, <2>5
<1> QED BY <1>5, <1>7, <1>8, <1>9

-----------------------------------------------------------------------------
(* What a stage learns from the answer to its request.                     *)

LEMMA StatusMeans ==
  ASSUME NEW out
  PROVE  /\ EfiStatus(out) = "EFI_SUCCESS" <=> out = "SUCCESS"
         /\ EfiStatus(out) = "EFI_NOT_FOUND" <=> out = "ITEM_NOT_FOUND"
         /\ EfiStatus(out) = "EFI_BUFFER_TOO_SMALL" <=> out = "SHORT_BUFFER"
BY DEF EfiStatus

LEMMA StageReturns ==
  ASSUME SessionInv, RepliesInv, PolicyInv, NEW stage \in InitStages, Returning(stage)
  PROVE  /\ main = stage /\ Top.req = StageCall[stage] /\ stack' = <<>>
         /\ UNCHANGED <<arch, reentered, store>>
         /\ Top.req.cmd = "Set" /\ Ok(Top) => store[Top.req.name] = Top.req.arg
         /\ Top.req.cmd = "Get" /\ Top.out \in Definite =>
              /\ Top.out = Reply(Top.req, Top.req.arg, store).out
              /\ Top.out = "SUCCESS" =>
                   resultBuf = Reply(Top.req, Top.req.arg, store).data
<1>1. /\ main = stage /\ Depth = 1 /\ Client(Top.req) = "av" /\ Ended(Top) /\ stack' = <<>>
      /\ UNCHANGED <<arch, reentered, store>>
  BY DEF Returning, worldVars
<1>2. 1 \in 1 .. Depth /\ Top = stack[1] BY <1>1 DEF Top
<1>3. Top.req.cmd \in ForSession
  <2>1. Top.req.cmd \notin TpmCmds BY <1>1 DEF Client
  <2>2. main \notin {"open", "close"} BY <1>1 DEF InitStages
  <2> QED BY <1>2, <2>1, <2>2 DEF SessionInv, CallsInv, StageOfCall, Commands
<1>4. AskedByStage(1) /\ SetIsStored(1) /\ ~reentered
  BY <1>1, <1>2, <1>3 DEF PolicyInv, Unshared, Before
<1>5. Top.req = StageCall[stage] /\ Top.pc = "done"
  BY <1>1, <1>2, <1>4 DEF AskedByStage, Ended
<1>6. Top.req.cmd = "Set" /\ Ok(Top) => store[Top.req.name] = Top.req.arg
  BY <1>2, <1>4, <1>5, StatusMeans DEF SetIsStored, Unsent, Ok
<1>7. ASSUME Top.req.cmd = "Get", Top.out \in Definite
      PROVE  /\ Top.out = Reply(Top.req, Top.req.arg, store).out
             /\ Top.out = "SUCCESS" =>
                  resultBuf = Reply(Top.req, Top.req.arg, store).data
  BY <1>2, <1>4, <1>5, <1>7 DEF RepliesInv, Truthful, ReadCmds, HasAnswer
<1> QED BY <1>1, <1>5, <1>6, <1>7

(* The driver moves on within its initialisation.                          *)
LEMMA StageMoves ==
  ASSUME PolicyInv, main \in Before, stack' = <<>>, UNCHANGED <<arch, reentered, store>>,
         Known'
  PROVE  PolicyInv'
<1>1. IsStore' BY DEF PolicyInv, IsStore, Names
<1>2. Depth' = 0 BY DEF Depth
<1>3. Unshared' BY <1>2 DEF PolicyInv, Unshared
<1> QED BY <1>1, <1>3 DEF PolicyInv

(* A probe with room for one byte tells a stored key from none.            *)
LEMMA ProbedPolicy == SessionInv /\ RepliesInv /\ PolicyInv /\ Probed => PolicyInv'
<1> SUFFICES ASSUME SessionInv, RepliesInv, PolicyInv, Probed PROVE PolicyInv'
  OBVIOUS
<1>1. Returning("probe") /\ "probe" \in InitStages BY DEF Probed, InitStages
<1>2. /\ main = "probe" /\ Top.req = StageCall["probe"] /\ stack' = <<>>
      /\ UNCHANGED <<arch, reentered, store>>
      /\ Top.req.cmd = "Get" /\ Top.out \in Definite =>
           Top.out = Reply(Top.req, Top.req.arg, store).out
  BY <1>1, StageReturns
<1>3. /\ Top.req.cmd = "Get" /\ Top.req.name = PK BY <1>2 DEF StageCall, Get
<1>4. ASSUME ~misread' PROVE pkPresent' <=> store[PK] # Absent
  <2>1. /\ Top.out \in {"SHORT_BUFFER", "ITEM_NOT_FOUND"}
        /\ pkPresent' <=> Top.out = "SHORT_BUFFER"
    BY <1>4, StatusMeans DEF Probed
  <2>2. Top.out = Reply(Top.req, Top.req.arg, store).out BY <1>2, <1>3, <2>1 DEF Definite
  <2>3. Reply(Top.req, Top.req.arg, store) =
          IF store[PK] = Absent THEN [out |-> "ITEM_NOT_FOUND", data |-> Zero]
          ELSE IF Length(store[PK]) > Top.req.arg THEN [out |-> "SHORT_BUFFER", data |-> Zero]
          ELSE [out |-> "SUCCESS", data |-> store[PK]]
    BY <1>3 DEF Reply
  <2> QED BY <2>1, <2>2, <2>3
<1>5. main' = "setup" BY DEF Probed
<1>6. Known' BY <1>2, <1>4, <1>5 DEF Known
<1> QED BY <1>2, <1>6, StageMoves DEF Before, InitStages

(* The stored switch is taken over, or one is to be stored.                *)
LEMMA EnablePolicy == SessionInv /\ RepliesInv /\ PolicyInv /\ EnableRead => PolicyInv'
<1> SUFFICES ASSUME SessionInv, RepliesInv, PolicyInv, EnableRead PROVE PolicyInv'
  OBVIOUS
<1>1. Returning("enable") /\ "enable" \in InitStages BY DEF EnableRead, InitStages
<1>2. /\ main = "enable" /\ Top.req = StageCall["enable"] /\ stack' = <<>>
      /\ UNCHANGED <<arch, reentered, store>>
      /\ Top.req.cmd = "Get" /\ Top.out \in Definite =>
           /\ Top.out = Reply(Top.req, Top.req.arg, store).out
           /\ Top.out = "SUCCESS" =>
                resultBuf = Reply(Top.req, Top.req.arg, store).data
  BY <1>1, StageReturns
<1>3. Top.req.cmd = "Get" /\ Top.req.name = SecureBootEnable BY <1>2 DEF StageCall, Get
<1>4. ASSUME pkPresent, Ok(Top) PROVE store[SecureBootEnable] = enable'
  <2>1. Top.out = "SUCCESS" BY <1>4, StatusMeans DEF Ok
  <2>2. /\ Reply(Top.req, Top.req.arg, store).out = "SUCCESS"
        /\ resultBuf = Reply(Top.req, Top.req.arg, store).data
    BY <1>2, <1>3, <2>1 DEF Definite
  <2>3. Reply(Top.req, Top.req.arg, store) =
          IF store[SecureBootEnable] = Absent THEN [out |-> "ITEM_NOT_FOUND", data |-> Zero]
          ELSE IF Length(store[SecureBootEnable]) > Top.req.arg
               THEN [out |-> "SHORT_BUFFER", data |-> Zero]
          ELSE [out |-> "SUCCESS", data |-> store[SecureBootEnable]]
    BY <1>3 DEF Reply
  <2>4. resultBuf = store[SecureBootEnable] BY <2>2, <2>3
  <2> QED BY <1>4, <2>4 DEF EnableRead
<1>5. /\ main' \in {"create", "secure"} /\ pkPresent' = pkPresent
      /\ main' = "secure" /\ pkPresent => Ok(Top)
      /\ ~misread' => ~misread
  BY DEF EnableRead
<1>6. Known BY DEF PolicyInv
<1>7. Known' BY <1>2, <1>4, <1>5, <1>6 DEF Known
<1> QED BY <1>2, <1>7, StageMoves DEF Before, InitStages

(* What a stage has set is stored.                                         *)
LEMMA SetPolicy == SessionInv /\ RepliesInv /\ PolicyInv /\ VariablesSet => PolicyInv'
<1> SUFFICES ASSUME SessionInv, RepliesInv, PolicyInv, VariablesSet PROVE PolicyInv'
  OBVIOUS
<1>1. PICK stage \in {"setup", "create", "secure", "custom"} :
        /\ Returning(stage)
        /\ UNCHANGED <<pkPresent, enable, misread>>
        /\ Ok(Top) =>
             /\ stage = "setup" => main' = "enable"
             /\ stage = "create" => main' = "secure"
             /\ stage = "secure" => main' = "custom"
             /\ stage = "custom" => main' = "publish"
        /\ ~Ok(Top) => main' = "failed"
  BY DEF VariablesSet, StageSet
<1>2. stage \in InitStages BY DEF InitStages
<1>3. /\ main = stage /\ Top.req = StageCall[stage] /\ stack' = <<>>
      /\ UNCHANGED <<arch, reentered, store>>
      /\ Top.req.cmd = "Set" /\ Ok(Top) => store[Top.req.name] = Top.req.arg
  BY <1>1, <1>2, StageReturns
<1>4. CASE ~Ok(Top)
  BY <1>1, <1>3, <1>4, BeyondInit DEF Before, InitStages
<1>5. CASE Ok(Top)
  <2>1. /\ Top.req.cmd = "Set"
        /\ stage = "setup" =>
             Top.req.name = SetupMode /\ Top.req.arg = (IF pkPresent THEN 0 ELSE 1)
        /\ stage = "create" =>
             Top.req.name = SecureBootEnable /\ Top.req.arg = enable
        /\ stage = "secure" =>
             /\ Top.req.name = SecureBoot
             /\ Top.req.arg = (IF pkPresent /\ enable = 1 THEN 1 ELSE 0)
        /\ stage = "custom" => Top.req.name = CustomMode /\ Top.req.arg = 0
    BY <1>1, <1>3 DEF StageCall, Set
  <2>2. Known BY DEF PolicyInv
  <2>3. Known' BY <1>1, <1>3, <1>5, <2>1, <2>2 DEF Known
  <2> QED BY <1>3, <1>2, <2>3, StageMoves DEF Before
<1> QED BY <1>4, <1>5

LEMMA OutsidePolicy ==
  PolicyInv /\ (\/ Load \/ AllocateBuffers \/ Publish \/ ExitBootServices
                \/ ReleaseBuffers \/ SessionOpened \/ CallerReturns \/ Signalled
                \/ SessionClosed)
    => PolicyInv'
<1> SUFFICES ASSUME PolicyInv,
                    \/ Load \/ AllocateBuffers \/ Publish \/ ExitBootServices
                    \/ ReleaseBuffers \/ SessionOpened \/ CallerReturns \/ Signalled
                    \/ SessionClosed
             PROVE  PolicyInv'
  OBVIOUS
<1>1. CASE Load \/ AllocateBuffers \/ SessionOpened
  <2>1. /\ main \in {"load", "param", "result", "open"} /\ stack' = <<>>
        /\ UNCHANGED <<arch, reentered, store>>
        /\ main' \in {"open", "result", "probe", "param", "failed"}
    BY <1>1 DEF Load, AllocateBuffers, SessionOpened, Returning, driverVars, worldVars
  <2>2. Known' BY <2>1 DEF Known
  <2> QED BY <2>1, <2>2, StageMoves DEF Before
<1>2. CASE Publish \/ ExitBootServices \/ ReleaseBuffers \/ CallerReturns \/ Signalled
           \/ SessionClosed
  <2>1. /\ UNCHANGED store
        /\ main' \in {"ready", "failed", "signal", "releaseResult", "gone", "close",
                      "reset", "release"}
    BY <1>2 DEF Publish, ExitBootServices, ReleaseBuffers, CallerReturns, Signalled,
                SessionClosed, Returning, worldVars
  <2> QED BY <2>1, BeyondInit DEF Before, InitStages
<1> QED BY <1>1, <1>2

LEMMA PolicyStep == SessionInv /\ RepliesInv /\ PolicyInv /\ [Next]_vars => PolicyInv'
BY SendPolicy, FreePolicy, TpmPolicy, HooksPolicy, BeginsPolicy, AnswerPolicy,
   ProbedPolicy, EnablePolicy, SetPolicy, OutsidePolicy
DEF Next, Progress

LEMMA PolicyStart == Init => PolicyInv
<1> SUFFICES ASSUME Init PROVE PolicyInv
  OBVIOUS
<1>1. Depth = 0 /\ main = "load" BY DEF Init, Depth
<1>2. Unshared BY <1>1 DEF Unshared, Init
<1>3. Known BY <1>1 DEF Known
<1>4. store \in [Names -> Values \cup {Absent}] BY StoresAssumption DEF Init
<1>5. IsStore BY <1>4 DEF IsStore
<1> QED BY <1>2, <1>3, <1>5 DEF PolicyInv

(* For every pool, store and failure: when the services are published the  *)
(* Secure Boot variables say what the stored key and switch say, on every  *)
(* path through InitSecureBootVariables on which its reads did not fail.   *)
THEOREM PolicyIsStored == Spec => []PolicyMatchesStore
<1>1. PolicyInv => PolicyMatchesStore
  <2> SUFFICES ASSUME PolicyInv, main = "publish", ~misread
               PROVE  /\ store[SetupMode] = (IF store[PK] = Absent THEN 1 ELSE 0)
                      /\ store[SecureBoot] = (IF store[PK] # Absent /\ store[SecureBootEnable] = 1
                                              THEN 1 ELSE 0)
                      /\ store[CustomMode] = 0
    BY DEF PolicyMatchesStore
  <2> QED BY DEF PolicyInv, Known
<1> QED BY <1>1, RepliesStart, RepliesStep, SessionStart, SessionStep, PolicyStart, PolicyStep,
           PTL DEF Spec

-----------------------------------------------------------------------------
(* Types of the variables.                                                 *)

Outcomes == Results \cup {"NONE"}
Answers == Values \cup (3 .. 5) \cup Names \cup {Zero}
CallsTyped == \A k \in 1 .. Depth : stack[k].req \in Requests /\ stack[k].out \in Outcomes
DataTyped ==
  /\ paramBuf \in Requests \cup {Zero} /\ resultBuf \in Answers
  /\ store \in [Names -> Values \cup {Absent}] /\ enable \in Values

LEMMA PlainRequest ==
  ASSUME NEW c \in TpmCmds \cup {"Open", "Close", "Signal"} PROVE Plain(c) \in Requests
BY DEF Plain, Requests, TpmCmds, Names, Values

LEMMA GetRequest ==
  ASSUME NEW n \in Names, NEW room \in 0 .. 2 PROVE Get(n, room) \in Requests
BY DEF Get, Requests, VariableCmds, Values

LEMMA SetRequest ==
  ASSUME NEW n \in Names, NEW v \in Values PROVE Set(n, v) \in Requests
BY DEF Set, Requests, VariableCmds

LEMMA OthersRequest ==
  ASSUME NEW req \in CallerReads \cup CallerSets \cup EventCalls PROVE req \in Requests
<1>1. req \in VariableRequests BY RequestsAssumption
<1> QED BY <1>1 DEF VariableRequests, Requests

LEMMA StageRequest ==
  ASSUME enable \in Values, NEW stage \in DOMAIN StageCall
  PROVE  StageCall[stage] \in Requests
<1>1. {PK, SetupMode, SecureBootEnable, SecureBoot, CustomMode} \subseteq Names BY DEF Names
<1>2. {0, 1} \subseteq Values /\ {0, 1} \subseteq 0 .. 2 BY DEF Values
<1>3. CASE stage \in {"open", "signal", "close"}
  <2>1. StageCall[stage] \in {Plain("Open"), Plain("Signal"), Plain("Close")}
    BY <1>3 DEF StageCall
  <2> QED BY <2>1, PlainRequest
<1>4. CASE stage \in {"probe", "enable"}
  <2>1. StageCall[stage] \in {Get(PK, 1), Get(SecureBootEnable, 1)}
    BY <1>4 DEF StageCall
  <2> QED BY <1>1, <1>2, <2>1, GetRequest
<1>5. CASE stage \in {"setup", "create", "secure", "custom"}
  <2>1. \E n \in Names, v \in Values : StageCall[stage] = Set(n, v)
    BY <1>1, <1>2, <1>5 DEF StageCall
  <2> QED BY <2>1, SetRequest
<1>6. stage \in {"open", "probe", "setup", "enable", "create", "secure", "custom", "signal",
                 "close"}
  BY DEF StageCall
<1> QED BY <1>3, <1>4, <1>5, <1>6

(* The call on top goes on, another begins or the last returns.            *)
LEMMA TopTypes ==
  ASSUME CallsTyped, NEW p, NEW o \in Outcomes, TopBecomes(p, o) PROVE CallsTyped'
BY DEF CallsTyped, TopBecomes

LEMMA TopIsTyped ==
  ASSUME CallsTyped, Depth \in Nat, Depth > 0
  PROVE  Top.req \in Requests /\ Top.out \in Outcomes
BY DEF CallsTyped, Top

LEMMA AddedTypes ==
  ASSUME CallsTyped, NEW req \in Requests, NEW by, NEW p, CallAdded(req, by, p)
  PROVE  CallsTyped'
<1>1. /\ Depth' = Depth + 1 /\ Depth \in Nat
      /\ stack'[Depth + 1] = Call(req, by)
      /\ \A k \in 1 .. Depth : stack'[k].req = stack[k].req /\ stack'[k].out = stack[k].out
  BY DEF CallAdded
<1>2. stack'[Depth + 1].req = req /\ stack'[Depth + 1].out = "NONE" BY <1>1 DEF Call
<1>3. \A k \in 1 .. Depth' : k \in 1 .. Depth \/ k = Depth + 1 BY <1>1
<1> QED BY <1>1, <1>2, <1>3 DEF CallsTyped, Outcomes

LEMMA GoneTypes ==
  ASSUME CallsTyped, NEW p, CallGone(p) PROVE CallsTyped'
<1>1. /\ Depth' = Depth - 1 /\ Depth \in Nat
      /\ \A k \in 1 .. (Depth - 1) :
           stack'[k].req = stack[k].req /\ stack'[k].out = stack[k].out
  BY DEF CallGone
<1>2. \A k \in 1 .. Depth' : k \in 1 .. (Depth - 1) /\ k \in 1 .. Depth BY <1>1
<1> QED BY <1>1, <1>2 DEF CallsTyped

LEMMA SameTypes == CallsTyped /\ UNCHANGED stack => CallsTyped'
BY DEF CallsTyped, Depth

LEMMA NoneTypes == stack' = <<>> => CallsTyped'
<1> SUFFICES ASSUME stack' = <<>> PROVE CallsTyped'
  OBVIOUS
<1>1. Depth' = 0 BY DEF Depth
<1> QED BY <1>1 DEF CallsTyped

LEMMA OneMore ==
  ASSUME NEW S, NEW x, NEW n \in Nat, IsFiniteSet(S), Cardinality(S) <= n
  PROVE  IsFiniteSet(S \cup {x}) /\ Cardinality(S \cup {x}) <= n + 1
<1>1. /\ IsFiniteSet(S \cup {x})
      /\ Cardinality(S \cup {x}) = IF x \in S THEN Cardinality(S) ELSE Cardinality(S) + 1
  BY FS_AddElement
<1>2. Cardinality(S) \in Nat BY FS_CardinalityType
<1> QED BY <1>1, <1>2

LEMMA NamesCounted == IsFiniteSet(Names) /\ Cardinality(Names) <= 5
<1> DEFINE AtMost(S, n) == IsFiniteSet(S) /\ Cardinality(S) <= n
           Three == ({PK} \cup {SetupMode}) \cup {SecureBootEnable}
<1>1. \A S, x : \A n \in Nat : AtMost(S, n) => AtMost(S \cup {x}, n + 1) BY OneMore
<1>2. AtMost({PK}, 1)
  <2>1. IsFiniteSet({PK}) /\ Cardinality({PK}) = 1 BY FS_Singleton, Zenon
  <2> QED BY <2>1
<1> HIDE DEF AtMost
<1>3. /\ \A S, x : AtMost(S, 1) => AtMost(S \cup {x}, 1 + 1)
      /\ \A S, x : AtMost(S, 2) => AtMost(S \cup {x}, 2 + 1)
      /\ \A S, x : AtMost(S, 3) => AtMost(S \cup {x}, 3 + 1)
      /\ \A S, x : AtMost(S, 4) => AtMost(S \cup {x}, 4 + 1)
  BY <1>1
<1>4. /\ \A S, x : AtMost(S, 1) => AtMost(S \cup {x}, 2)
      /\ \A S, x : AtMost(S, 2) => AtMost(S \cup {x}, 3)
      /\ \A S, x : AtMost(S, 3) => AtMost(S \cup {x}, 4)
      /\ \A S, x : AtMost(S, 4) => AtMost(S \cup {x}, 5)
  <2>1. 1 + 1 = 2 /\ 2 + 1 = 3 /\ 3 + 1 = 4 /\ 4 + 1 = 5 OBVIOUS
  <2> QED BY <1>3, <2>1, Zenon
<1>5. AtMost(Three, 3) BY <1>2, <1>4, Zenon
<1>6. AtMost((Three \cup {SecureBoot}) \cup {CustomMode}, 5) BY <1>4, <1>5, Zenon
<1>7. Names = (Three \cup {SecureBoot}) \cup {CustomMode} BY DEF Names
<1> QED BY <1>6, <1>7 DEF AtMost

(* The outcome of an answer is one of the results.                         *)
LEMMA ReplyTyped ==
  ASSUME NEW req \in Requests, req.cmd \in VariableCmds, NEW room,
         NEW s \in [Names -> Values \cup {Absent}]
  PROVE  Reply(req, room, s).out \in Results
         /\ (Reply(req, room, s).out = "SUCCESS" => Reply(req, room, s).data \in Answers)
<1>1. req.name \in Names BY DEF Requests
<1>2. CASE req.cmd = "Get"
  <2>1. Reply(req, room, s) =
          IF s[req.name] = Absent THEN [out |-> "ITEM_NOT_FOUND", data |-> Zero]
          ELSE IF Length(s[req.name]) > room THEN [out |-> "SHORT_BUFFER", data |-> Zero]
          ELSE [out |-> "SUCCESS", data |-> s[req.name]]
    BY <1>2 DEF Reply
  <2>2. s[req.name] = Absent \/ s[req.name] \in Answers BY <1>1 DEF Answers
  <2> QED BY <2>1, <2>2 DEF Results
<1>3. CASE req.cmd = "GetNext"
  <2>1. Reply(req, room, s) =
          [out  |-> IF After(s, req.name) = Zero THEN "ITEM_NOT_FOUND" ELSE "SUCCESS",
           data |-> After(s, req.name)]
    BY <1>3 DEF Reply
  <2>2. After(s, req.name) \in Names \cup {Zero}
    <3> DEFINE later == {k \in 1 .. 5 : /\ Order[k] \in Present(s)
                                        /\ \A j \in 1 .. 5 : Order[j] = req.name => k > j}
               least == CHOOSE k \in later : \A j \in later : k <= j
    <3>1. CASE later = {} BY <3>1 DEF After
    <3>2. CASE later # {}
      <4>1. later \subseteq 1 .. 5 OBVIOUS
      <4>2. \E k \in later : \A j \in later : k <= j
        <5>1. PICK e \in later : TRUE BY <3>2
        <5> DEFINE low(n) == n \in later /\ \A j \in later : n <= j
        <5>2. \A n \in 1 .. 5 : low(n) => (\E k \in later : \A j \in later : k <= j) OBVIOUS
        <5>3. low(1) \/ 1 \notin later BY <4>1
        <5>4. 1 \in later \/ low(2) \/ 2 \notin later BY <4>1
        <5>5. 1 \in later \/ 2 \in later \/ low(3) \/ 3 \notin later BY <4>1
        <5>6. 1 \in later \/ 2 \in later \/ 3 \in later \/ low(4) \/ 4 \notin later BY <4>1
        <5>7. 1 \in later \/ 2 \in later \/ 3 \in later \/ 4 \in later \/ low(5) \/ 5 \notin later
          BY <4>1
        <5>8. e \in {1, 2, 3, 4, 5} BY <4>1
        <5> HIDE DEF low, later
        <5> QED BY <5>1, <5>2, <5>3, <5>4, <5>5, <5>6, <5>7, <5>8
      <4>3. least \in later BY <4>2
      <4>4. After(s, req.name) = Order[least] BY <3>2 DEF After
      <4>5. least \in 1 .. 5 BY <4>3
      <4> HIDE DEF least, later
      <4>6. Order[least] \in Names BY <4>5 DEF Order, Names
      <4> QED BY <4>4, <4>6
    <3> QED BY <3>1, <3>2
  <2> QED BY <2>1, <2>2 DEF Results, Answers
<1>4. CASE req.cmd = "Query"
  <2>1. Reply(req, room, s) = [out |-> "SUCCESS", data |-> Cardinality(Present(s))]
    BY <1>4 DEF Reply
  <2>2. Cardinality(Present(s)) \in 0 .. 5
    <3>1. IsFiniteSet(Names) /\ Cardinality(Names) <= 5 BY NamesCounted
    <3>2. Present(s) \subseteq Names BY DEF Present
    <3>3. /\ IsFiniteSet(Present(s)) /\ Cardinality(Present(s)) <= Cardinality(Names)
      BY <3>1, <3>2, FS_Subset
    <3>4. Cardinality(Present(s)) \in Nat /\ Cardinality(Names) \in Nat
      BY <3>1, <3>3, FS_CardinalityType
    <3> QED BY <3>1, <3>3, <3>4
  <2> QED BY <2>1, <2>2 DEF Results, Answers, Values
<1>5. CASE req.cmd = "Set"
  <2>1. Reply(req, room, s) =
          [out |-> IF req.arg = Absent /\ s[req.name] = Absent
                   THEN "ITEM_NOT_FOUND" ELSE "SUCCESS",
           data |-> Zero]
    BY <1>5 DEF Reply
  <2> QED BY <2>1 DEF Results, Answers
<1> QED BY <1>2, <1>3, <1>4, <1>5 DEF VariableCmds

(* A call goes to the secure world, is answered or ends.                   *)
LEMMA TopStepTypes ==
  SessionInv /\ CallsTyped /\ DataTyped
    /\ (SendMessage \/ FreeMessage \/ Answer \/ TpmReleases) => CallsTyped'
<1> SUFFICES ASSUME SessionInv, CallsTyped, DataTyped,
                    SendMessage \/ FreeMessage \/ Answer \/ TpmReleases
             PROVE  CallsTyped'
  OBVIOUS
<1>1. Depth > 0 /\ Depth \in Nat /\ StackTyped
  BY StackIsTyped DEF SendMessage, FreeMessage, Answer, InWorld, TpmReleases
<1>2. Top.req \in Requests /\ Top.out \in Outcomes BY <1>1, TopIsTyped
<1>3. {"filled", "world", "back", "done", "end"} \subseteq Phases BY DEF Phases
<1>4. CASE SendMessage
  <2>1. ASSUME NEW b \in TopDown(MsgPages),
               SetTop([Top EXCEPT !.pc = "world", !.msg = b.base])
        PROVE  CallsTyped'
    <3>1. b.base \in Nat BY DEF TopDown, Fits, Page
    <3>2. TopBecomes("world", Top.out) BY <1>1, <1>3, <2>1, <3>1, FieldsMessage
    <3> QED BY <1>2, <3>2, TopTypes
  <2>2. ASSUME SetTop([Top EXCEPT !.pc = "done", !.out = "OUT_OF_MEMORY"])
        PROVE  CallsTyped'
    <3>1. TopBecomes("done", "OUT_OF_MEMORY") BY <1>1, <1>3, <2>2, FieldsAnswered
    <3>2. "OUT_OF_MEMORY" \in Outcomes BY DEF Outcomes, Results
    <3> QED BY <3>1, <3>2, TopTypes
  <2> QED BY <1>4, <2>1, <2>2 DEF SendMessage
<1>5. CASE FreeMessage
  <2>1. SetTop([Top EXCEPT !.pc = "done", !.msg = 0]) BY <1>5 DEF FreeMessage
  <2>2. TopBecomes("done", Top.out) BY <1>1, <1>3, <2>1, FieldsMessage
  <2> QED BY <1>2, <2>2, TopTypes
<1>6. CASE Answer
  <2>1. ASSUME NEW o \in Outcomes, Answered(o) PROVE CallsTyped'
    <3>1. SetTop([Top EXCEPT !.pc = "back", !.out = o]) BY <2>1 DEF Answered
    <3>2. TopBecomes("back", o) BY <1>1, <1>3, <3>1, FieldsAnswered
    <3> QED BY <3>2, TopTypes
  <2>2. {"SUCCESS", "GENERIC"} \cup Failures \subseteq Outcomes
    BY DEF Failures, Outcomes, Results
  <2>3. CASE AnswerVariable
    <3>1. CASE Answered("GENERIC") BY <2>1, <2>2, <3>1
    <3>2. CASE ~ (paramBuf = Zero \/ paramBuf.cmd # Top.req.cmd)
      <4>1. paramBuf \in Requests /\ paramBuf.cmd \in VariableCmds
        BY <2>3, <3>2 DEF DataTyped, AnswerVariable
      <4>2. Reply(paramBuf, Top.req.arg, store).out \in Outcomes
        BY <4>1, ReplyTyped DEF DataTyped, Outcomes
      <4>3. Answered(Reply(paramBuf, Top.req.arg, store).out)
        BY <2>3, <3>2 DEF AnswerVariable
      <4> QED BY <2>1, <4>2, <4>3
    <3> QED BY <2>3, <3>1, <3>2 DEF AnswerVariable
  <2>4. CASE AnswerOther BY <2>1, <2>2, <2>4 DEF AnswerOther
  <2>5. CASE AnswerFails BY <2>1, <2>2, <2>5 DEF AnswerFails
  <2> QED BY <1>6, <2>3, <2>4, <2>5 DEF Answer
<1>7. CASE TpmReleases
  <2>1. SetTop([Top EXCEPT !.pc = "end"]) BY <1>7 DEF TpmReleases
  <2>2. TopBecomes("end", Top.out) BY <1>1, <1>3, <2>1, FieldsMovedOn
  <2> QED BY <1>2, <2>2, TopTypes
<1> QED BY <1>4, <1>5, <1>6, <1>7

(* A call begins above the others.                                         *)
LEMMA AppendTypes ==
  ASSUME SessionInv, CallsTyped, NEW req \in Requests, NEW by \in Waiting,
         stack' = Append(stack, Call(req, by))
  PROVE  CallsTyped'
<1>1. CallAdded(req, by, Top.pc) BY StackIsTyped, FieldsAdded
<1> QED BY <1>1, AddedTypes

LEMMA PopTypes ==
  ASSUME SessionInv, CallsTyped, Depth > 0, stack' = Pop PROVE CallsTyped'
<1>1. CallGone(stack[Depth - 1].pc) BY StackIsTyped, FieldsGone
<1> QED BY <1>1, GoneTypes

LEMMA HookTypes ==
  SessionInv /\ CallsTyped /\ (HookReads \/ HookHasRead \/ HookMeasures) => CallsTyped'
<1> SUFFICES ASSUME SessionInv, CallsTyped, HookReads \/ HookHasRead \/ HookMeasures
             PROVE  CallsTyped'
  OBVIOUS
<1>1. Depth > 0 /\ Depth \in Nat /\ StackTyped
  BY StackIsTyped DEF HookReads, HookHasRead, HookMeasures
<1>2. Top.req \in Requests /\ Top.out \in Outcomes BY <1>1, TopIsTyped
<1>3. ASSUME NEW p \in Phases, NEW req \in Requests, HooksAt(p, req) PROVE CallsTyped'
  <2>1. CallAdded(req, "hook", p) BY <1>1, <1>3, FieldsHooked DEF HooksAt
  <2> QED BY <2>1, AddedTypes
<1>4. CASE HookReads
  <2>1. \E p \in {"probing", "reading"}, room \in {0, 2} :
          HooksAt(p, Get(Top.req.name, room))
    BY <1>4 DEF HookReads, Push, HooksAt
  <2>2. PICK p \in {"probing", "reading"}, room \in {0, 2} :
          HooksAt(p, Get(Top.req.name, room))
    BY <2>1
  <2>3. p \in Phases /\ room \in 0 .. 2 /\ Top.req.name \in Names
    BY <1>2 DEF Phases, Requests
  <2> QED BY <1>3, <2>2, <2>3, GetRequest
<1>5. CASE HookHasRead
  <2>1. \E p \in {"found", "end", "measure"} : stack' = Resumed(p)
    BY <1>5 DEF HookHasRead, Resumed
  <2>2. PICK p \in {"found", "end", "measure"} : stack' = Resumed(p) BY <2>1
  <2>3. p \in Phases /\ Depth > 1 BY <1>5 DEF Phases, HookHasRead
  <2>4. CallGone(p) BY <1>1, <2>2, <2>3, FieldsResumed
  <2> QED BY <2>4, GoneTypes
<1>6. CASE HookMeasures
  <2>1. CASE HooksAt("measuring", Plain("TpmSubmit"))
    <3>1. "measuring" \in Phases /\ Plain("TpmSubmit") \in Requests
      BY PlainRequest DEF Phases, TpmCmds
    <3> QED BY <1>3, <2>1, <3>1
  <2>2. CASE SetTop([Top EXCEPT !.pc = "end"])
    <3>1. TopBecomes("end", Top.out) BY <1>1, <2>2, FieldsMovedOn DEF Phases
    <3> QED BY <1>2, <3>1, TopTypes
  <2> QED BY <1>6, <2>1, <2>2 DEF HookMeasures, SubmitStarts, HooksAt
<1> QED BY <1>4, <1>5, <1>6

LEMMA BeginTypes ==
  SessionInv /\ CallsTyped /\ DataTyped
    /\ (\/ TpmCalls \/ TpmReturns \/ CallbackSubmits \/ CallbackCalls \/ CallbackReturns
        \/ StageBegins \/ CallerCalls) => CallsTyped'
<1> SUFFICES ASSUME SessionInv, CallsTyped, DataTyped,
                    \/ TpmCalls \/ TpmReturns \/ CallbackSubmits \/ CallbackCalls
                    \/ CallbackReturns \/ StageBegins \/ CallerCalls
             PROVE  CallsTyped'
  OBVIOUS
<1>1. \A c \in TpmCmds : Plain(c) \in Requests BY PlainRequest
<1>2. {"main", "event"} \subseteq Waiting BY DEF Waiting
<1>3. CASE TpmCalls
  <2>1. CASE UNCHANGED stack BY <2>1, SameTypes
  <2>2. CASE ~ UNCHANGED stack
    <3>1. PICK c \in TpmCmds : stack' = Append(stack, Call(Plain(c), "main"))
      BY <1>3, <2>2 DEF TpmCalls, SubmitStarts, Push, TpmCmds
    <3> QED BY <1>1, <1>2, <3>1, AppendTypes
  <2> QED BY <2>1, <2>2
<1>4. CASE TpmReturns \/ CallbackReturns
  <2>1. Depth > 0 /\ stack' = Pop
    BY <1>4, StackIsTyped DEF TpmReturns, CallbackReturns
  <2> QED BY <2>1, PopTypes
<1>5. CASE CallbackSubmits
  <2>1. CASE UNCHANGED stack BY <2>1, SameTypes
  <2>2. CASE stack' = Append(stack, Call(Plain("TpmSubmit"), "event"))
    <3>1. Plain("TpmSubmit") \in Requests BY <1>1 DEF TpmCmds
    <3> QED BY <1>2, <2>2, <3>1, AppendTypes
  <2> QED BY <1>5, <2>1, <2>2 DEF CallbackSubmits, SubmitStarts
<1>6. CASE CallbackCalls
  <2>1. PICK req \in EventCalls : stack' = Append(stack, Call(req, "event"))
    BY <1>6 DEF CallbackCalls, Push
  <2>2. req \in Requests BY OthersRequest
  <2> QED BY <1>2, <2>1, <2>2, AppendTypes
<1>7. CASE StageBegins
  <2>1. /\ main \in DOMAIN StageCall
        /\ stack' = Append(stack, Call(StageCall[main], "main"))
    BY <1>7 DEF StageBegins, Push
  <2>2. StageCall[main] \in Requests BY <2>1, StageRequest DEF DataTyped
  <2> QED BY <1>2, <2>1, <2>2, AppendTypes
<1>8. CASE CallerCalls
  <2>1. PICK req \in CallerReads \cup CallerSets : stack' = Append(stack, Call(req, "main"))
    BY <1>8 DEF CallerCalls, Push
  <2>2. req \in Requests BY OthersRequest
  <2> QED BY <1>2, <2>1, <2>2, AppendTypes
<1> QED BY <1>3, <1>4, <1>5, <1>6, <1>7, <1>8

LEMMA CallTypes ==
  SessionInv /\ CallsTyped /\ DataTyped /\ [Next]_vars => CallsTyped'
<1> SUFFICES ASSUME SessionInv, CallsTyped, DataTyped, [Next]_vars PROVE CallsTyped'
  OBVIOUS
<1>1. CASE RpcAlloc \/ RpcFree \/ MemoryOverrun \/ TpmLoad \/ UNCHANGED vars
  <2>1. UNCHANGED stack
    BY <1>1 DEF RpcAlloc, RpcFree, MemoryOverrun, TpmLoad, vars
  <2> QED BY <2>1, SameTypes
<1>2. CASE \/ Load \/ AllocateBuffers \/ Publish \/ ExitBootServices \/ ReleaseBuffers
           \/ SessionOpened \/ Probed \/ EnableRead \/ VariablesSet
           \/ CallerReturns \/ Signalled \/ SessionClosed
  <2>1. \A stage : Returning(stage) => stack' = <<>> BY DEF Returning
  <2>2. stack' = <<>>
    BY <1>2, <2>1 DEF Load, AllocateBuffers, Publish, ExitBootServices, ReleaseBuffers,
                    SessionOpened, Probed, EnableRead, VariablesSet, StageSet,
                    CallerReturns, Signalled, SessionClosed
  <2> QED BY <2>2, NoneTypes
<1> QED BY <1>1, <1>2, TopStepTypes, HookTypes, BeginTypes DEF Next, Progress

(* The transport buffers hold requests and answers, what is stored are     *)
(* values, and the switch is one: the read that finds it is the one the    *)
(* stage asked for.                                                        *)
LEMMA AnswerData ==
  ASSUME CallsTyped, DataTyped, Answer PROVE DataTyped'
<1>1. UNCHANGED <<paramBuf, enable>> BY DEF Answer, driverVars
<1>2. CASE UNCHANGED <<store, resultBuf>> BY <1>1, <1>2 DEF DataTyped
<1>3. CASE ~ UNCHANGED <<store, resultBuf>>
  <2>1. AnswerVariable /\ ~ (paramBuf = Zero \/ paramBuf.cmd # Top.req.cmd)
    BY <1>3 DEF Answer, AnswerVariable, AnswerOther, AnswerFails
  <2>2. paramBuf \in Requests /\ paramBuf.cmd \in VariableCmds
    BY <2>1 DEF DataTyped, AnswerVariable
  <2> DEFINE reply == Reply(paramBuf, Top.req.arg, store)
  <2>3. reply.out = "SUCCESS" => reply.data \in Answers
    BY <2>2, ReplyTyped DEF DataTyped
  <2>4. /\ resultBuf' = (IF reply.out = "SUCCESS" THEN reply.data ELSE resultBuf)
        /\ store' = (IF paramBuf.cmd = "Set" /\ reply.out = "SUCCESS"
                     THEN [store EXCEPT ![paramBuf.name] = paramBuf.arg] ELSE store)
    BY <2>1 DEF AnswerVariable
  <2> HIDE DEF reply
  <2>5. resultBuf' \in Answers BY <2>3, <2>4 DEF DataTyped
  <2>6. paramBuf.name \in Names /\ paramBuf.arg \in Values \cup {Absent}
    BY <2>2 DEF Requests
  <2>7. store' \in [Names -> Values \cup {Absent}] BY <2>4, <2>6 DEF DataTyped
  <2> QED BY <1>1, <2>5, <2>7 DEF DataTyped
<1> QED BY <1>2, <1>3

LEMMA PushData ==
  SessionInv /\ CallsTyped /\ DataTyped
    /\ (TpmCalls \/ HookReads \/ CallbackCalls \/ StageBegins \/ CallerCalls) => DataTyped'
<1> SUFFICES ASSUME SessionInv, CallsTyped, DataTyped,
                    TpmCalls \/ HookReads \/ CallbackCalls \/ StageBegins \/ CallerCalls
             PROVE  DataTyped'
  OBVIOUS
<1>1. UNCHANGED <<store, enable>>
  BY DEF TpmCalls, HookReads, CallbackCalls, StageBegins, CallerCalls, worldVars, driverVars
<1>2. ASSUME NEW s, NEW req \in Requests, NEW by, Push(s, req, by) PROVE DataTyped'
  <2>1. paramBuf' \in Requests \cup {Zero} /\ resultBuf' \in Answers
    BY <1>2 DEF Push, bufVars, Answers, DataTyped
  <2> QED BY <1>1, <2>1 DEF DataTyped
<1>3. CASE TpmCalls BY <1>1, <1>3 DEF TpmCalls, bufVars, DataTyped
<1>4. CASE HookReads
  <2>1. Depth > 0 /\ Depth \in Nat BY <1>4, StackIsTyped DEF HookReads
  <2>2. Top.req.name \in Names BY <2>1, TopIsTyped DEF Requests
  <2>3. \E first \in BOOLEAN :
          Push([stack EXCEPT ![Depth].pc = IF first THEN "probing" ELSE "reading"],
               Get(Top.req.name, IF first THEN 0 ELSE 2), "hook")
    BY <1>4 DEF HookReads
  <2>4. PICK first \in BOOLEAN :
          Push([stack EXCEPT ![Depth].pc = IF first THEN "probing" ELSE "reading"],
               Get(Top.req.name, IF first THEN 0 ELSE 2), "hook")
    BY <2>3
  <2>5. (IF first THEN 0 ELSE 2) \in 0 .. 2 OBVIOUS
  <2>6. Get(Top.req.name, IF first THEN 0 ELSE 2) \in Requests BY <2>2, <2>5, GetRequest
  <2> QED BY <1>2, <2>4, <2>6
<1>5. CASE CallbackCalls \/ CallerCalls
  <2>1. \E req \in CallerReads \cup CallerSets \cup EventCalls :
          \E s, by : Push(s, req, by)
    BY <1>5 DEF CallbackCalls, CallerCalls
  <2>2. PICK req \in CallerReads \cup CallerSets \cup EventCalls : \E s, by : Push(s, req, by)
    BY <2>1
  <2>3. req \in Requests BY OthersRequest
  <2> QED BY <1>2, <2>2, <2>3
<1>6. CASE StageBegins
  <2>1. main \in DOMAIN StageCall /\ Push(<<>>, StageCall[main], "main")
    BY <1>6 DEF StageBegins
  <2>2. StageCall[main] \in Requests BY <2>1, StageRequest DEF DataTyped
  <2> QED BY <1>2, <2>1, <2>2
<1> QED BY <1>3, <1>4, <1>5, <1>6

LEMMA EnableData ==
  ASSUME SessionInv, RepliesInv, PolicyInv, DataTyped, EnableRead PROVE DataTyped'
<1>1. Returning("enable") /\ "enable" \in InitStages BY DEF EnableRead, InitStages
<1>2. UNCHANGED <<paramBuf, resultBuf, store>> BY <1>1 DEF Returning, bufVars, worldVars
<1>3. /\ Top.req = StageCall["enable"]
      /\ Top.req.cmd = "Get" /\ Top.out \in Definite =>
           /\ Top.out = Reply(Top.req, Top.req.arg, store).out
           /\ Top.out = "SUCCESS" =>
                resultBuf = Reply(Top.req, Top.req.arg, store).data
  BY <1>1, StageReturns
<1>4. Top.req.cmd = "Get" /\ Top.req.name = SecureBootEnable BY <1>3 DEF StageCall, Get
<1>5. ASSUME Ok(Top) PROVE resultBuf \in Values
  <2>1. Top.out = "SUCCESS" BY <1>5, StatusMeans DEF Ok
  <2>2. /\ Reply(Top.req, Top.req.arg, store).out = "SUCCESS"
        /\ resultBuf = Reply(Top.req, Top.req.arg, store).data
    BY <1>3, <1>4, <2>1 DEF Definite
  <2>3. Reply(Top.req, Top.req.arg, store) =
          IF store[SecureBootEnable] = Absent THEN [out |-> "ITEM_NOT_FOUND", data |-> Zero]
          ELSE IF Length(store[SecureBootEnable]) > Top.req.arg
               THEN [out |-> "SHORT_BUFFER", data |-> Zero]
          ELSE [out |-> "SUCCESS", data |-> store[SecureBootEnable]]
    BY <1>4 DEF Reply
  <2>4. resultBuf = store[SecureBootEnable] /\ store[SecureBootEnable] # Absent
    BY <2>2, <2>3
  <2>5. SecureBootEnable \in Names BY DEF Names
  <2> QED BY <2>4, <2>5 DEF DataTyped
<1>6. enable' \in Values
  <2>1. enable' = (IF ~pkPresent THEN 0 ELSE IF Ok(Top) THEN resultBuf ELSE PcdSecureBootEnable)
    BY DEF EnableRead
  <2>2. 0 \in Values /\ PcdSecureBootEnable \in Values BY BoundsAssumption DEF Values
  <2> QED BY <1>5, <2>1, <2>2
<1> QED BY <1>2, <1>6 DEF DataTyped

LEMMA DataTypes ==
  SessionInv /\ RepliesInv /\ PolicyInv /\ CallsTyped /\ DataTyped /\ [Next]_vars
    => DataTyped'
<1> SUFFICES ASSUME SessionInv, RepliesInv, PolicyInv, CallsTyped, DataTyped, [Next]_vars
             PROVE  DataTyped'
  OBVIOUS
<1>1. CASE Publish
  <2>1. UNCHANGED <<paramBuf, resultBuf, store>> /\ enable' = 0
    BY <1>1 DEF Publish, bufVars, worldVars
  <2> QED BY <2>1 DEF DataTyped, Values
<1>2. CASE \/ SendMessage \/ FreeMessage \/ TpmReleases \/ TpmReturns
           \/ HookHasRead \/ HookMeasures \/ CallbackReturns
           \/ RpcAlloc \/ RpcFree \/ TpmLoad \/ CallbackSubmits \/ MemoryOverrun
           \/ Load \/ ExitBootServices \/ UNCHANGED vars
  <2>1. UNCHANGED <<paramBuf, resultBuf, store, enable>>
    BY <1>2 DEF SendMessage, FreeMessage, TpmReleases, TpmReturns, HookHasRead,
                HookMeasures, CallbackReturns, RpcAlloc, RpcFree, TpmLoad,
                CallbackSubmits, MemoryOverrun, Load, ExitBootServices, vars,
                bufVars, worldVars, driverVars
  <2> QED BY <2>1 DEF DataTyped
<1>3. CASE \/ AllocateBuffers \/ ReleaseBuffers \/ SessionOpened \/ Probed \/ VariablesSet
           \/ CallerReturns \/ Signalled \/ SessionClosed
  <2>1. UNCHANGED <<paramBuf, resultBuf, store, enable>>
    BY <1>3 DEF AllocateBuffers, ReleaseBuffers, SessionOpened, Probed, VariablesSet,
                StageSet, CallerReturns, Signalled, SessionClosed, Returning,
                bufVars, worldVars, driverVars
  <2> QED BY <2>1 DEF DataTyped
<1> QED BY <1>1, <1>2, <1>3, AnswerData, PushData, EnableData DEF Next, Progress

(* The remaining variables are set to constants or count within bounds.    *)
Stages ==
  {"open", "probe", "setup", "enable", "create", "secure", "custom", "signal", "close",
   "load", "param", "result", "publish", "ready", "release", "releaseResult", "gone",
   "failed", "reset"}
DriverTyped ==
  /\ main \in Stages
  /\ opened \in BOOLEAN /\ pkPresent \in BOOLEAN /\ published \in BOOLEAN /\ arch \in BOOLEAN
WorldTyped ==
  /\ tpm \in {"none", "idle", "open", "gone"} /\ taOpen \subseteq Clients
  /\ faults \in 0 .. MaxFaults /\ callbacks \in 0 .. MaxCallbacks
HistoryTyped ==
  reentered \in BOOLEAN /\ misread \in BOOLEAN /\ starved \in BOOLEAN /\ abused \in BOOLEAN

LEMMA DriverTypes == DriverTyped /\ [Next]_vars => DriverTyped'
<1> SUFFICES ASSUME DriverTyped, [Next]_vars PROVE DriverTyped'
  OBVIOUS
<1>1. CASE UNCHANGED <<main, opened, pkPresent, published, arch>> BY <1>1 DEF DriverTyped
<1>2. CASE \/ SendMessage \/ FreeMessage \/ Answer \/ TpmReleases \/ TpmReturns
           \/ HookReads \/ HookHasRead \/ HookMeasures \/ CallbackReturns
           \/ RpcAlloc \/ RpcFree \/ TpmLoad \/ TpmCalls
           \/ CallbackSubmits \/ CallbackCalls \/ StageBegins \/ CallerCalls
           \/ MemoryOverrun \/ UNCHANGED vars
  <2>1. UNCHANGED <<main, driverVars>>
    BY <1>2 DEF SendMessage, FreeMessage, Answer, TpmReleases, TpmReturns,
                HookReads, HookHasRead, HookMeasures, CallbackReturns,
                RpcAlloc, RpcFree, TpmLoad, TpmCalls, CallbackSubmits, CallbackCalls,
                StageBegins, CallerCalls, MemoryOverrun, vars
  <2> QED BY <1>1, <2>1 DEF driverVars
<1>3. CASE Load \/ AllocateBuffers \/ ExitBootServices \/ ReleaseBuffers
  <2>1. UNCHANGED <<opened, pkPresent, published, arch>>
    BY <1>3 DEF Load, AllocateBuffers, ExitBootServices, ReleaseBuffers, driverVars
  <2>2. main' \in {"open", "failed", "result", "probe", "signal", "releaseResult", "gone"}
    BY <1>3 DEF Load, AllocateBuffers, ExitBootServices, ReleaseBuffers
  <2> QED BY <2>1, <2>2 DEF DriverTyped, Stages
<1>4. CASE Publish
  <2>1. published' = TRUE /\ arch' \in BOOLEAN /\ pkPresent' = FALSE /\ opened' = opened
        /\ main' \in {"ready", "failed"}
    BY <1>4 DEF Publish
  <2> QED BY <2>1 DEF DriverTyped, Stages
<1>5. CASE \/ SessionOpened \/ Probed \/ EnableRead \/ VariablesSet
           \/ CallerReturns \/ Signalled \/ SessionClosed
  <2>1. UNCHANGED <<published, arch>>
    BY <1>5 DEF SessionOpened, Probed, EnableRead, VariablesSet, StageSet,
                CallerReturns, Signalled, SessionClosed, Returning
  <2>2. opened' \in BOOLEAN /\ pkPresent' \in BOOLEAN
    BY <1>5 DEF SessionOpened, Probed, EnableRead, VariablesSet, StageSet,
                CallerReturns, Signalled, SessionClosed, DriverTyped, Ok
  <2>3. main' \in {"param", "failed", "setup", "create", "secure", "enable", "custom",
                   "publish", "close", "reset", "release", main}
    BY <1>5 DEF SessionOpened, Probed, EnableRead, VariablesSet, StageSet,
                CallerReturns, Signalled, SessionClosed
  <2> QED BY <2>1, <2>2, <2>3 DEF DriverTyped, Stages
<1> QED BY <1>2, <1>3, <1>4, <1>5 DEF Next, Progress

LEMMA FaultCounts ==
  ASSUME faults \in 0 .. MaxFaults, Fault \/ NoFault PROVE faults' \in 0 .. MaxFaults
BY BoundsAssumption DEF Fault, NoFault

LEMMA AnswerWorld == ASSUME WorldTyped, Answer PROVE WorldTyped'
<1>1. UNCHANGED <<tpm, callbacks>> /\ (Fault \/ NoFault)
  BY DEF Answer, AnswerFails, tpmVars
<1>2. Client(Top.req) \in Clients BY ClientIsClient
<1>3. CASE AnswerOther
  <2>1. \/ taOpen' = taOpen \cup {Client(Top.req)}
        \/ taOpen' = taOpen \ {Client(Top.req)}
        \/ taOpen' = taOpen
    BY <1>3 DEF AnswerOther
  <2> QED BY <1>1, <1>2, <2>1, FaultCounts DEF WorldTyped
<1>4. CASE taOpen' = taOpen BY <1>1, <1>4, FaultCounts DEF WorldTyped
<1> QED BY <1>3, <1>4 DEF Answer, AnswerVariable, AnswerFails

LEMMA CallbackWorld ==
  ASSUME WorldTyped, CallbackSubmits \/ CallbackCalls PROVE WorldTyped'
<1>1. UNCHANGED <<tpm, taOpen, faults>> /\ callbacks' = callbacks + 1
      /\ callbacks < MaxCallbacks
  BY DEF CallbackSubmits, CallbackCalls, Preemptible, tpmVars, worldVars
<1> QED BY <1>1, BoundsAssumption DEF WorldTyped

LEMMA TpmWorld ==
  ASSUME WorldTyped, TpmLoad \/ TpmReturns PROVE WorldTyped'
<1>1. UNCHANGED <<taOpen, callbacks>> /\ (Fault \/ NoFault)
  BY DEF TpmLoad, TpmReturns, LibraryInitialized, NoFault, worldVars
<1>2. tpm' \in {"idle", "open", "gone", tpm} BY DEF TpmLoad, TpmReturns
<1> QED BY <1>1, <1>2, FaultCounts DEF WorldTyped

LEMMA WorldTypes == WorldTyped /\ [Next]_vars => WorldTyped'
<1> SUFFICES ASSUME WorldTyped, [Next]_vars PROVE WorldTyped'
  OBVIOUS
<1>1. ASSUME UNCHANGED <<tpm, taOpen, callbacks>>, Fault \/ NoFault PROVE WorldTyped'
  BY <1>1, FaultCounts DEF WorldTyped
<1>2. CASE \/ SendMessage \/ FreeMessage \/ TpmReleases
           \/ HookReads \/ HookHasRead \/ HookMeasures \/ CallbackReturns
           \/ RpcAlloc \/ RpcFree \/ TpmCalls \/ StageBegins \/ CallerCalls
           \/ MemoryOverrun \/ UNCHANGED vars
  <2>1. UNCHANGED <<tpm, taOpen, callbacks>>
    BY <1>2 DEF SendMessage, FreeMessage, TpmReleases, HookReads, HookHasRead,
                HookMeasures, CallbackReturns, RpcAlloc, RpcFree, TpmCalls, StageBegins,
                CallerCalls, MemoryOverrun, vars, tpmVars, worldVars
  <2>2. Fault \/ NoFault
    BY <1>2 DEF SendMessage, FreeMessage, TpmReleases, HookReads, HookHasRead,
                HookMeasures, CallbackReturns, RpcAlloc, RpcFree, TpmCalls, StageBegins,
                CallerCalls, MemoryOverrun, vars, NoFault
  <2> QED BY <1>1, <2>1, <2>2
<1>3. CASE \/ Load \/ AllocateBuffers \/ ExitBootServices \/ ReleaseBuffers \/ Publish
           \/ SessionOpened \/ Probed \/ EnableRead \/ VariablesSet
           \/ CallerReturns \/ Signalled \/ SessionClosed
  <2>1. UNCHANGED <<tpm, taOpen, callbacks>>
    BY <1>3 DEF Load, AllocateBuffers, ExitBootServices, ReleaseBuffers, Publish,
                SessionOpened, Probed, EnableRead, VariablesSet, StageSet,
                CallerReturns, Signalled, SessionClosed, Returning, tpmVars, worldVars
  <2>2. Fault \/ NoFault
    BY <1>3 DEF Load, LibraryInitialized, AllocateBuffers, ExitBootServices,
                ReleaseBuffers, Released, Publish,
                SessionOpened, Probed, EnableRead, VariablesSet, StageSet,
                CallerReturns, Signalled, SessionClosed, Returning, NoFault
  <2> QED BY <1>1, <2>1, <2>2
<1> QED BY <1>2, <1>3, AnswerWorld, CallbackWorld, TpmWorld DEF Next, Progress

LEMMA HistoryTypes == HistoryTyped /\ mapped' \in BOOLEAN /\ [Next]_vars => HistoryTyped'
<1> SUFFICES ASSUME HistoryTyped, mapped' \in BOOLEAN, [Next]_vars PROVE HistoryTyped'
  OBVIOUS
<1>1. CASE \/ FreeMessage \/ Answer \/ TpmReleases \/ TpmReturns \/ HookReads
           \/ HookHasRead \/ CallbackReturns \/ RpcFree \/ StageBegins \/ CallerCalls
           \/ ExitBootServices \/ ReleaseBuffers \/ UNCHANGED vars
  <2>1. UNCHANGED histVars
    BY <1>1 DEF FreeMessage, Answer, TpmReleases, TpmReturns, HookReads, HookHasRead,
                CallbackReturns, RpcFree, StageBegins, CallerCalls, ExitBootServices,
                ReleaseBuffers, vars
  <2> QED BY <2>1 DEF histVars, HistoryTyped
<1>2. CASE SendMessage \/ RpcAlloc \/ TpmCalls \/ HookMeasures \/ CallbackSubmits
           \/ AllocateBuffers
  <2>1. UNCHANGED <<reentered, misread, abused>>
    BY <1>2 DEF SendMessage, RpcAlloc, TpmCalls, HookMeasures, CallbackSubmits,
                AllocateBuffers
  <2>2. starved' = starved \/ starved' = TRUE
    BY <1>2 DEF SendMessage, RpcAlloc, TpmCalls, HookMeasures, CallbackSubmits,
                SubmitStarts, SubmitStarves, AllocateBuffers
  <2> QED BY <2>1, <2>2 DEF HistoryTyped
<1>3. CASE CallbackCalls
  <2>1. /\ UNCHANGED <<misread, starved, abused>>
        /\ reentered' = (reentered \/ \E k \in 1 .. Depth : Client(stack[k].req) = "av")
    BY <1>3 DEF CallbackCalls
  <2>2. reentered' \in BOOLEAN BY <2>1 DEF HistoryTyped
  <2> QED BY <2>1, <2>2 DEF HistoryTyped
<1>4. CASE TpmLoad \/ Load \/ MemoryOverrun
  <2>1. UNCHANGED <<reentered, misread, starved>>
    BY <1>4 DEF TpmLoad, Load, MemoryOverrun
  <2>2. abused' = abused \/ abused' = TRUE \/ abused' = (abused \/ mapped')
    BY <1>4 DEF TpmLoad, Load, MemoryOverrun, LibraryInitialized
  <2>3. (abused \/ mapped') \in BOOLEAN BY DEF HistoryTyped
  <2> QED BY <2>1, <2>2, <2>3 DEF HistoryTyped
<1>5. CASE \/ Publish \/ SessionOpened \/ Probed \/ EnableRead \/ VariablesSet
           \/ CallerReturns \/ Signalled \/ SessionClosed
  <2>1. UNCHANGED <<reentered, starved, abused>>
    BY <1>5 DEF Publish, SessionOpened, Probed, EnableRead, VariablesSet, StageSet,
                CallerReturns, Signalled, SessionClosed, Returning
  <2>2. CASE ~ Probed /\ ~ EnableRead
    <3>1. misread' = misread \/ misread' = FALSE
      BY <1>5, <2>2 DEF Publish, SessionOpened, VariablesSet, StageSet,
                        CallerReturns, Signalled, SessionClosed
    <3> QED BY <2>1, <3>1 DEF HistoryTyped
  <2>3. CASE Probed
    <3>1. misread' = (EfiStatus(Top.out) \notin {"EFI_BUFFER_TOO_SMALL", "EFI_NOT_FOUND"})
      BY <2>3 DEF Probed
    <3>2. misread' \in BOOLEAN BY <3>1
    <3> QED BY <2>1, <3>2 DEF HistoryTyped
  <2>4. CASE EnableRead
    <3>1. misread' = (misread \/ EfiStatus(Top.out) \notin {"EFI_SUCCESS", "EFI_NOT_FOUND"})
      BY <2>4 DEF EnableRead
    <3>2. misread' \in BOOLEAN BY <3>1 DEF HistoryTyped
    <3> QED BY <2>1, <3>2 DEF HistoryTyped
  <2> QED BY <2>2, <2>3, <2>4
<1> QED BY <1>1, <1>2, <1>3, <1>4, <1>5 DEF Next, Progress

TypesInv == CallsTyped /\ DataTyped /\ DriverTyped /\ WorldTyped /\ HistoryTyped

LEMMA TypesStep ==
  SessionInv /\ SessionInv' /\ RepliesInv /\ PolicyInv /\ TypesInv /\ [Next]_vars => TypesInv'
<1>1. SessionInv' => mapped' \in BOOLEAN BY DEF SessionInv, OwnInv, MemInv, MemTypeOK
<1> QED BY <1>1, CallTypes, DataTypes, DriverTypes, WorldTypes, HistoryTypes DEF TypesInv

LEMMA TypesStart == Init => TypesInv
<1> SUFFICES ASSUME Init PROVE TypesInv
  OBVIOUS
<1>1. Depth = 0 BY DEF Init, Depth
<1>2. CallsTyped BY <1>1 DEF CallsTyped
<1>3. DataTyped BY StoresAssumption DEF Init, DataTyped, Answers, Values
<1>4. DriverTyped BY DEF Init, DriverTyped, Stages
<1>5. WorldTyped BY BoundsAssumption DEF Init, WorldTyped
<1>6. HistoryTyped BY DEF Init, HistoryTyped
<1> QED BY <1>2, <1>3, <1>4, <1>5, <1>6 DEF TypesInv

(* Every address that is kept is that of a page.                           *)
LEMMA AddressesTyped ==
  ASSUME OwnInv
  PROVE  /\ {paramMem, resultMem, tpmMem} \subseteq Page \cup {0}
         /\ \A k \in 1 .. Depth : stack[k].msg \in Page \cup {0}
<1>1. GcdBases \subseteq Page /\ LiveBases \subseteq Page
  <2>1. \A b \in Block : b.base \in Page BY OwnPages
  <2>2. gcd \subseteq Block /\ Live \subseteq Block
    BY DEF OwnInv, MemInv, MemTypeOK, Live
  <2> QED BY <2>1, <2>2 DEF GcdBases, LiveBases
<1>2. Transport \subseteq GcdBases /\ Retained \subseteq LiveBases
  BY DEF OwnInv, Owned, OneHolder, HeldIsLive
<1>3. Messages \subseteq Page BY <1>1, <1>2 DEF Retained
<1>4. \A k \in 1 .. Depth : stack[k].msg # 0 => stack[k].msg \in Messages BY InMessages
<1> QED BY <1>1, <1>2, <1>3, <1>4 DEF Retained, Transport

LEMMA FrameTyped ==
  ASSUME SessionInv, CallsTyped, NEW k \in 1 .. Depth PROVE stack[k] \in Calls
<1>1. StackTyped BY DEF SessionInv, OwnInv, StackInv
<1>2. PICK R, O : stack \in Seq(FramesOver(R, O)) BY <1>1 DEF StackTyped
<1>3. stack[k] \in FramesOver(R, O) BY <1>2 DEF Depth
<1>4. stack[k].msg \in Page \cup {0} BY AddressesTyped DEF SessionInv
<1>5. stack[k].req \in Requests /\ stack[k].out \in Outcomes BY DEF CallsTyped
<1> DEFINE f == stack[k]
<1>6. f \in FramesOver(R, O) /\ f.msg \in Page \cup {0} /\ f.req \in Requests
      /\ f.out \in Outcomes
  BY <1>3, <1>4, <1>5
<1> HIDE DEF f
<1>7. f \in Calls BY <1>6 DEF Calls, FramesOver, Waiting, Phases, Outcomes
<1> QED BY <1>7 DEF f

(* The types of the variables, whatever fails and whoever calls: of the    *)
(* switch that InitSecureBootVariables reads from the shared buffer this   *)
(* holds because nobody else uses the buffer before the services are       *)
(* published.                                                              *)
THEOREM TypesKept == Spec => []TypeOK
<1>1. SessionInv /\ TypesInv => TypeOK
  <2> SUFFICES ASSUME SessionInv, TypesInv PROVE TypeOK
    OBVIOUS
  <2>1. \A k \in 1 .. Depth : stack[k] \in Calls BY FrameTyped DEF TypesInv
  <2>2. /\ MemTypeOK /\ {paramMem, resultMem, tpmMem} \subseteq Page \cup {0}
        /\ world \subseteq Page \cup {0}
    BY AddressesTyped DEF SessionInv, OwnInv, MemInv, Owned
  <2>3. Stages = DOMAIN StageCall \cup
           {"load", "param", "result", "publish", "ready", "release", "releaseResult",
            "gone", "failed", "reset"}
    BY DEF Stages, StageCall
  <2> HIDE DEF MemTypeOK
  <2>4. main \in DOMAIN StageCall \cup
           {"load", "param", "result", "publish", "ready", "release", "releaseResult",
            "gone", "failed", "reset"}
    BY <2>3 DEF TypesInv, DriverTyped
  <2>5. {reentered, misread, starved, abused} \subseteq BOOLEAN
    BY DEF TypesInv, HistoryTyped
  <2> QED BY <2>1, <2>2, <2>4, <2>5
          DEF TypeOK, TypesInv, DataTyped, DriverTyped, WorldTyped, Answers
<1> QED BY <1>1, TypesStart, TypesStep, RepliesStart, RepliesStep, SessionStart, SessionStep,
           PolicyStart, PolicyStep, PTL DEF Spec

=============================================================================
