------------------------------ MODULE AuthVars ------------------------------
(***************************************************************************)
(* The authenticated-variable driver (AuthVarsDxe.c, Measurement.c) on the *)
(* OP-TEE client library, with the TPM driver (Tpm2DeviceLibOptee.c) as    *)
(* the second instance of that library, the secure world they call and     *)
(* the memory the three share (OpteeMem).                                  *)
(*                                                                         *)
(* The firmware runs on one core: what runs is the top of a stack of calls *)
(* into the secure world.  A timer at TPL_CALLBACK may start another call  *)
(* on top of an unfinished one, also while the secure world has handed an  *)
(* interrupt back (OPTEE_SMC_RPC_FUNC_FOREIGN_INTR), and a call returns    *)
(* only after those above it.  The secure world may allocate and free      *)
(* shared memory through whichever instance called it.                     *)
(***************************************************************************)
EXTENDS OpteeMem, Sequences

CONSTANTS
  PK, SetupMode, SecureBootEnable, SecureBoot, CustomMode,  \* variables
  Absent,           \* the value of a variable that does not exist
  Zero,             \* a transport buffer that was cleared
  InitialStores,    \* what the trusted application may have stored before
  CallerReads,      \* the read requests of other drivers and loaders
  CallerSets,       \* their requests to set or delete a variable
  EventCalls,       \* the variable calls a timer callback may make
  PcdSecureBootEnable,
  MaxFaults,        \* failures of TAs, of the GCD and of memory users
  MaxCallbacks,     \* calls made by timer callbacks
  MaxWorldBlocks    \* blocks the secure world keeps at a time

ASSUME ClientsAssumption == Clients = {"av", "tpm"}

VARIABLES
  main,       \* where the driver's own thread of execution is
  stack,      \* the calls into the secure world, innermost last
  opened,     \* mTeecSessionOpened
  paramMem,   \* mVariableParamMem: base page of its block, 0 for NULL
  resultMem,  \* mVariableResultMem
  paramBuf,   \* the request in the parameter buffer
  resultBuf,  \* the answer in the result buffer
  pkPresent,  \* PkPresent of InitSecureBootVariables
  enable,     \* its SecureBootEnable
  published,  \* gRT points at this driver
  arch,       \* the Variable architectural protocol is installed
  tpm,        \* "none", "idle" (library initialised), "open", "gone"
  tpmMem,     \* the block of the TPM command under way, 0 for none
  taOpen,     \* the clients with a session in the secure world
  store,      \* the variables as the trusted application keeps them
  world,      \* addresses the secure world was given and has not freed
  faults,     \* failures so far
  callbacks,  \* calls of timer callbacks so far
  reentered,  \* history: a variable call began inside another
  misread,    \* history: a read of InitSecureBootVariables failed
  starved,    \* history: an allocation returned NULL
  abused      \* history: memory was overrun or never fenced

driverVars == <<opened, paramMem, resultMem, pkPresent, enable, published, arch>>
bufVars    == <<paramBuf, resultBuf>>
tpmVars    == <<tpm, tpmMem>>
worldVars  == <<taOpen, store, world>>
histVars   == <<reentered, misread, starved, abused>>
vars == <<memVars, main, stack, driverVars, bufVars, tpmVars, worldVars,
          faults, callbacks, histVars>>

Names == {PK, SetupMode, SecureBootEnable, SecureBoot, CustomMode}
Order == <<PK, SetupMode, SecureBootEnable, SecureBoot, CustomMode>>
Key == 2                       \* a platform key: longer than one byte
Values == 0 .. 2
Length(v) == IF v = Key THEN 2 ELSE 1

\* Five different variables, of which the application may know some.
ASSUME NamesAssumption == \A j, k \in 1 .. 5 : Order[j] = Order[k] => j = k
ASSUME StoresAssumption == InitialStores \subseteq [Names -> Values \cup {Absent}]

\* The PCD is a BOOLEAN.
ASSUME BoundsAssumption ==
  PcdSecureBootEnable \in {0, 1} /\ MaxFaults \in Nat /\ MaxCallbacks \in Nat

\* Pages of an optee_msg_arg, a transport buffer, a TPM command and an
\* allocation of the secure world, each with its header page.
MsgPages == 2
BufferPages == 3

---------------------------------------------------------------------------
(* Requests and calls.                                                     *)

Get(n, room) == [cmd |-> "Get", name |-> n, arg |-> room]
Set(n, v)    == [cmd |-> "Set", name |-> n, arg |-> v]
GetNext(n)   == [cmd |-> "GetNext", name |-> n, arg |-> 0]
Plain(c)     == [cmd |-> c, name |-> PK, arg |-> 0]

VariableCmds == {"Get", "Set", "GetNext", "Query"}

\* What others ask of this driver is one of its four services.
VariableRequests == [cmd : VariableCmds, name : Names, arg : Values \cup {Absent}]
ASSUME RequestsAssumption == CallerReads \cup CallerSets \cup EventCalls \subseteq VariableRequests

TpmCmds == {"TpmOpen", "TpmSubmit", "TpmClose"}
Client(req) == IF req.cmd \in TpmCmds THEN "tpm" ELSE "av"

\* by: who waits for the call; pc: how far it is; msg: its MsgArg.
Call(req, by) ==
  [req |-> req, by |-> by, pc |-> "filled", msg |-> 0, out |-> "NONE"]

Depth == Len(stack)
Top == stack[Depth]
SetTop(f) == stack' = [stack EXCEPT ![Depth] = f]
Pop == SubSeq(stack, 1, Depth - 1)

\* Every variable call clears and fills the one pair of transport buffers;
\* the signal passes their first word as it is.
Push(s, req, by) ==
  /\ stack' = Append(s, Call(req, by))
  /\ IF req.cmd \in VariableCmds
     THEN paramBuf' = req /\ resultBuf' = Zero
     ELSE UNCHANGED bufVars

Fault == faults < MaxFaults /\ faults' = faults + 1
NoFault == UNCHANGED faults

\* A case of the switch that assigns no status.
EfiStatusUnassigned(out) ==
  CASE out \in {"SUCCESS", "ACCESS_DENIED"} -> "EFI_SUCCESS"
    [] out = "ITEM_NOT_FOUND" -> "EFI_NOT_FOUND"
    [] out = "SHORT_BUFFER"   -> "EFI_BUFFER_TOO_SMALL"
    [] out = "OUT_OF_MEMORY"  -> "EFI_OUT_OF_RESOURCES"
    [] OTHER                  -> "EFI_PROTOCOL_ERROR"

\* TEEC results as OpteeRuntimeVariableInvokeCommand reports them.
EfiStatus(out) ==
  CASE out = "SUCCESS"        -> "EFI_SUCCESS"
    [] out = "ITEM_NOT_FOUND" -> "EFI_NOT_FOUND"
    [] out = "SHORT_BUFFER"   -> "EFI_BUFFER_TOO_SMALL"
    [] out = "OUT_OF_MEMORY"  -> "EFI_OUT_OF_RESOURCES"
    [] out = "ACCESS_DENIED"  -> "EFI_SECURITY_VIOLATION"
    [] OTHER                  -> "EFI_PROTOCOL_ERROR"

Failures == {"ACCESS_DENIED", "GENERIC"}
Results == {"SUCCESS", "ITEM_NOT_FOUND", "SHORT_BUFFER", "OUT_OF_MEMORY"} \cup Failures
Ok(f) == EfiStatus(f.out) = "EFI_SUCCESS"

---------------------------------------------------------------------------
(* TEEC_SMC_OpenSession, _CloseSession and _InvokeCommand: allocate a       *)
(* MsgArg, enter the secure world, free the MsgArg.                         *)

\* Wait for memory instead of giving up.
SendMessageRetrying ==
  /\ Depth > 0 /\ Top.pc = "filled"
  /\ \/ /\ \E b \in TopDown(MsgPages) :
             /\ Allocated(Client(Top.req), MsgPages, b)
             /\ SetTop([Top EXCEPT !.pc = "world", !.msg = b.base])
        /\ UNCHANGED starved
     \/ /\ NotAllocated(MsgPages)
        /\ UNCHANGED stack
        /\ starved' = TRUE
  /\ UNCHANGED <<main, driverVars, bufVars, tpmVars, worldVars, faults, callbacks,
                 reentered, misread, abused>>

SendMessage ==
  /\ Depth > 0 /\ Top.pc = "filled"
  /\ \/ /\ \E b \in TopDown(MsgPages) :
             /\ Allocated(Client(Top.req), MsgPages, b)
             /\ SetTop([Top EXCEPT !.pc = "world", !.msg = b.base])
        /\ UNCHANGED starved
     \/ /\ NotAllocated(MsgPages)
        /\ SetTop([Top EXCEPT !.pc = "done", !.out = "OUT_OF_MEMORY"])
        /\ starved' = TRUE
  /\ UNCHANGED <<main, driverVars, bufVars, tpmVars, worldVars, faults, callbacks,
                 reentered, misread, abused>>

\* The exit path of a failed call forgets the MsgArg.
FreeMessageOnSuccess ==
  /\ Depth > 0 /\ Top.pc = "back"
  /\ IF Top.out = "SUCCESS"
     THEN \/ Freed(Client(Top.req), Top.msg) /\ NoFault
          \/ FreeFails(Top.msg) /\ Fault
     ELSE UNCHANGED memVars /\ NoFault
  /\ SetTop([Top EXCEPT !.pc = "done", !.msg = 0])
  /\ UNCHANGED <<main, driverVars, bufVars, tpmVars, worldVars, callbacks, histVars>>

FreeMessage ==
  /\ Depth > 0 /\ Top.pc = "back"
  /\ \/ Freed(Client(Top.req), Top.msg) /\ NoFault
     \/ FreeFails(Top.msg) /\ Fault
  /\ SetTop([Top EXCEPT !.pc = "done", !.msg = 0])
  /\ UNCHANGED <<main, driverVars, bufVars, tpmVars, worldVars, callbacks, histVars>>

---------------------------------------------------------------------------
(* Remote procedure calls of the secure world that change state here       *)
(* (OpteeRpcCallback): they run in the instance whose call is on top.      *)

InWorld == Depth > 0 /\ Top.pc = "world"

\* OpteeRpcAlloc leaves its argument in the registers when it fails: the
\* secure world then holds an address outside the pool, written 0.
RpcAlloc ==
  /\ InWorld /\ Cardinality(world) < MaxWorldBlocks
  /\ \/ /\ \E b \in TopDown(MsgPages) : /\ Allocated(Client(Top.req), MsgPages, b)
                            /\ world' = world \cup {b.base}
        /\ UNCHANGED starved
     \/ /\ NotAllocated(MsgPages)
        /\ world' = world \cup {0}
        /\ starved' = TRUE
  /\ UNCHANGED <<main, stack, driverVars, bufVars, tpmVars, taOpen, store, faults,
                 callbacks, reentered, misread, abused>>

\* OpteeRpcFree and OpteeRpcCmdShmFree: the result reaches nobody.
RpcFree ==
  /\ InWorld
  /\ \E a \in world :
       /\ \/ Refused(a) /\ NoFault
          \/ Freed(Client(Top.req), a) /\ NoFault
          \/ FreeFails(a) /\ Fault
       /\ world' = world \ {a}
  /\ UNCHANGED <<main, stack, driverVars, bufVars, tpmVars, taOpen, store, callbacks,
                 histVars>>

---------------------------------------------------------------------------
(* The trusted applications answer.                                        *)

\* A thread of the secure world that needs the session of a call below it
\* asks to sleep (OpteeRpcCmdWaitQueue returns at once) until that call ends.
Sleeping ==
  \E k \in 1 .. (Depth - 1) : /\ stack[k].pc = "world"
                              /\ Client(stack[k].req) = Client(Top.req)

Present(s) == {n \in Names : s[n] # Absent}
After(s, n) ==
  LET later == {k \in 1 .. 5 : /\ Order[k] \in Present(s)
                               /\ \A j \in 1 .. 5 : Order[j] = n => k > j}
  IN  IF later = {} THEN Zero ELSE Order[CHOOSE k \in later : \A j \in later : k <= j]

\* What the variable store s answers to a request with the given room.
Reply(req, room, s) ==
  CASE req.cmd = "Get" ->
         (IF s[req.name] = Absent THEN [out |-> "ITEM_NOT_FOUND", data |-> Zero]
          ELSE IF Length(s[req.name]) > room THEN [out |-> "SHORT_BUFFER", data |-> Zero]
          ELSE [out |-> "SUCCESS", data |-> s[req.name]])
    [] req.cmd = "GetNext" ->
         [out  |-> IF After(s, req.name) = Zero THEN "ITEM_NOT_FOUND" ELSE "SUCCESS",
          data |-> After(s, req.name)]
    [] req.cmd = "Query" ->
         [out |-> "SUCCESS", data |-> Cardinality(Present(s))]
    [] req.cmd = "Set" ->
         [out |-> IF req.arg = Absent /\ s[req.name] = Absent
                  THEN "ITEM_NOT_FOUND" ELSE "SUCCESS",
          data |-> Zero]

Answered(out) == SetTop([Top EXCEPT !.pc = "back", !.out = out])

\* A variable command works on what the parameter buffer holds by now.
AnswerVariable ==
  /\ Top.req.cmd \in VariableCmds
  /\ IF paramBuf = Zero \/ paramBuf.cmd # Top.req.cmd
     THEN Answered("GENERIC") /\ UNCHANGED <<store, resultBuf>>
     ELSE LET r == Reply(paramBuf, Top.req.arg, store)
          IN  /\ Answered(r.out)
              /\ resultBuf' = IF r.out = "SUCCESS" THEN r.data ELSE resultBuf
              /\ store' = IF paramBuf.cmd = "Set" /\ r.out = "SUCCESS"
                          THEN [store EXCEPT ![paramBuf.name] = paramBuf.arg]
                          ELSE store
  /\ UNCHANGED taOpen

AnswerOther ==
  /\ Top.req.cmd \notin VariableCmds
  /\ Answered("SUCCESS")
  /\ taOpen' = CASE Top.req.cmd \in {"Open", "TpmOpen"}   -> taOpen \cup {Client(Top.req)}
                 [] Top.req.cmd \in {"Close", "TpmClose"} -> taOpen \ {Client(Top.req)}
                 [] OTHER -> taOpen
  /\ UNCHANGED <<store, resultBuf>>

\* A refusal by the application, or a call that never reached it.
AnswerFails ==
  /\ \E out \in Failures : Answered(out)
  /\ Fault
  /\ UNCHANGED <<taOpen, store, resultBuf>>

Answer ==
  /\ InWorld /\ ~Sleeping
  /\ \/ (AnswerVariable \/ AnswerOther) /\ NoFault
     \/ AnswerFails
  /\ UNCHANGED <<memVars, main, driverVars, paramBuf, tpmVars, world, callbacks, histVars>>

---------------------------------------------------------------------------
(* TPM commands (Tpm2DeviceLibOptee.c).                                    *)

\* OpteeClientApiInitialize succeeds.
LibraryInitialized ==
  /\ Initialized
  /\ IF gcd' = gcd THEN NoFault ELSE Fault
  /\ UNCHANGED abused

\* Tpm2DeviceLibOpTEEEntry only prints a failure.
TpmLoad ==
  /\ tpm = "none" /\ stack = <<>> /\ main \in {"load", "ready", "failed"}
  /\ \/ LibraryInitialized
     \/ InitializeFails /\ Fault /\ abused' = (abused \/ mapped')
  /\ tpm' = "idle"
  /\ UNCHANGED <<main, stack, driverVars, bufVars, tpmMem, worldVars, callbacks,
                 reentered, misread, starved>>

\* Tpm2SubmitCommand allocates the command's buffer and calls; without one
\* nothing is called.  One command is under way at a time.
SubmitStarts(s, by) ==
  /\ tpm = "open" /\ tpmMem = 0
  /\ \E b \in TopDown(MsgPages) : Allocated("tpm", MsgPages, b) /\ tpmMem' = b.base
  /\ stack' = Append(s, Call(Plain("TpmSubmit"), by))
  /\ UNCHANGED starved

SubmitStarves ==
  /\ tpm = "open" /\ tpmMem = 0
  /\ NotAllocated(MsgPages)
  /\ starved' = TRUE
  /\ UNCHANGED tpmMem

TpmReleases ==
  /\ Depth > 0 /\ Top.req.cmd = "TpmSubmit" /\ Top.pc = "done"
  /\ \/ Freed("tpm", tpmMem) /\ NoFault
     \/ FreeFails(tpmMem) /\ Fault
  /\ tpmMem' = 0
  /\ SetTop([Top EXCEPT !.pc = "end"])
  /\ UNCHANGED <<main, driverVars, bufVars, tpm, worldVars, callbacks, histVars>>

\* A TPM command of another driver, Tpm2RequestUseTpm, and on
\* ExitBootServices, before or after this driver's handler, the relinquishing.
TpmCalls ==
  /\ stack = <<>>
  /\ \/ /\ main \in {"load", "ready", "failed"}
        /\ SubmitStarts(stack, "main") \/ (SubmitStarves /\ UNCHANGED stack)
     \/ /\ \/ tpm = "idle" /\ main \in {"load", "ready", "failed"}
           \/ tpm = "open" /\ main \in {"signal", "failed", "gone"}
        /\ Push(<<>>, Plain(IF tpm = "idle" THEN "TpmOpen" ELSE "TpmClose"), "main")
        /\ UNCHANGED <<memVars, tpmMem, starved>>
  /\ UNCHANGED <<main, driverVars, bufVars, tpm, worldVars, faults, callbacks,
                 reentered, misread, abused>>

TpmReturns ==
  /\ Depth > 0 /\ Top.by = "main" /\ Client(Top.req) = "tpm"
  /\ Top.pc = (IF Top.req.cmd = "TpmSubmit" THEN "end" ELSE "done")
  /\ tpm' = CASE Top.req.cmd = "TpmOpen" /\ Ok(Top) -> "open"
              [] Top.req.cmd = "TpmClose"           -> "gone"
              [] OTHER                              -> tpm
  /\ stack' = Pop
  /\ UNCHANGED <<memVars, main, driverVars, bufVars, tpmMem, worldVars, faults, callbacks,
                 histVars>>

---------------------------------------------------------------------------
(* SecureBootHook: a policy variable that was set is read back through gRT *)
(* and measured, in the same transport buffers and then by the TPM.        *)

Hooked(f) == f.req.cmd = "Set" /\ Ok(f) /\ arch /\ f.req.name \in {SecureBoot, PK}

\* The call f has nothing left to do for the one who waits for it.
Ended(f) == \/ f.pc = "end"
            \/ f.pc = "done" /\ f.req.cmd # "TpmSubmit" /\ ~Hooked(f)

HookReads ==
  /\ Depth > 0
  /\ \/ Top.pc = "done" /\ Hooked(Top)
     \/ Top.pc = "found"
  /\ LET first == Top.pc = "done"
     IN  Push([stack EXCEPT ![Depth].pc = IF first THEN "probing" ELSE "reading"],
              Get(Top.req.name, IF first THEN 0 ELSE 2), "hook")
  /\ UNCHANGED <<memVars, main, driverVars, tpmVars, worldVars, faults, callbacks, histVars>>

HookHasRead ==
  /\ Depth > 1 /\ Top.by = "hook" /\ Ended(Top)
  /\ LET f == stack[Depth - 1]
     IN  stack' = [Pop EXCEPT ![Depth - 1].pc =
           CASE f.pc = "probing" /\ EfiStatus(Top.out) = "EFI_BUFFER_TOO_SMALL" -> "found"
             [] f.pc = "measuring" -> "end"
             [] OTHER -> "measure"]
  /\ UNCHANGED <<memVars, main, driverVars, bufVars, tpmVars, worldVars, faults, callbacks,
                 histVars>>

HookMeasures ==
  /\ Depth > 0 /\ Top.pc = "measure"
  /\ \/ SubmitStarts([stack EXCEPT ![Depth].pc = "measuring"], "hook")
     \/ /\ SubmitStarves \/ (tpm # "open" /\ UNCHANGED <<memVars, tpmMem, starved>>)
        /\ SetTop([Top EXCEPT !.pc = "end"])
  /\ UNCHANGED <<main, driverVars, bufVars, tpm, worldVars, faults, callbacks,
                 reentered, misread, abused>>

---------------------------------------------------------------------------
(* Timer callbacks at TPL_CALLBACK: one at a time, above any unfinished    *)
(* call but those of callbacks and of the ExitBootServices handlers.       *)

Preemptible ==
  /\ Depth > 0 /\ callbacks < MaxCallbacks
  /\ main \notin {"signal", "close", "release", "releaseResult", "gone"}
  /\ \A k \in 1 .. Depth : stack[k].by # "event" /\ stack[k].req.cmd # "TpmClose"

CallbackSubmits ==
  /\ Preemptible
  /\ SubmitStarts(stack, "event") \/ (SubmitStarves /\ UNCHANGED stack)
  /\ callbacks' = callbacks + 1
  /\ UNCHANGED <<main, driverVars, bufVars, tpm, worldVars, faults,
                 reentered, misread, abused>>

\* The services do not raise the priority level: nothing keeps a callback
\* from calling them while a call is under way.
CallbackCalls ==
  /\ Preemptible /\ main = "ready"
  /\ \E req \in EventCalls : Push(stack, req, "event")
  /\ callbacks' = callbacks + 1
  /\ reentered' = (reentered \/ \E k \in 1 .. Depth : Client(stack[k].req) = "av")
  /\ UNCHANGED <<memVars, main, driverVars, tpmVars, worldVars, faults,
                 misread, starved, abused>>

CallbackReturns ==
  /\ Depth > 1 /\ Top.by = "event" /\ Ended(Top)
  /\ stack' = Pop
  /\ UNCHANGED <<memVars, main, driverVars, bufVars, tpmVars, worldVars, faults, callbacks,
                 histVars>>

---------------------------------------------------------------------------
(* VariableAuthOpteeRuntimeInitialize: the library, TaOpenSession with its  *)
(* two buffers, InitSecureBootVariables, and publishing.                    *)

Load ==
  /\ main = "load" /\ stack = <<>>
  /\ \/ LibraryInitialized /\ main' = "open"
     \/ /\ InitializeFails /\ Fault
        /\ main' = "failed"
        /\ abused' = (abused \/ mapped')
  /\ UNCHANGED <<stack, driverVars, bufVars, tpmVars, worldVars, callbacks,
                 reentered, misread, starved>>

AllocateBuffers ==
  /\ main \in {"param", "result"} /\ stack = <<>>
  /\ \/ /\ \E b \in TopDown(BufferPages) :
             /\ Allocated("av", BufferPages, b)
             /\ IF main = "param" THEN paramMem' = b.base /\ UNCHANGED resultMem
                                  ELSE resultMem' = b.base /\ UNCHANGED paramMem
        /\ main' = (IF main = "param" THEN "result" ELSE "probe")
        /\ UNCHANGED starved
     \/ /\ NotAllocated(BufferPages)
        /\ main' = "failed"
        /\ starved' = TRUE
        /\ UNCHANGED <<paramMem, resultMem>>
  /\ UNCHANGED <<stack, opened, pkPresent, enable, published, arch, bufVars, tpmVars,
                 worldVars, faults, callbacks, reentered, misread, abused>>

\* The call each stage of the driver makes.
StageCall ==
  [open   |-> Plain("Open"),
   probe  |-> Get(PK, 1),
   setup  |-> Set(SetupMode, IF pkPresent THEN 0 ELSE 1),
   enable |-> Get(SecureBootEnable, 1),
   create |-> Set(SecureBootEnable, enable),
   secure |-> Set(SecureBoot, IF pkPresent /\ enable = 1 THEN 1 ELSE 0),
   custom |-> Set(CustomMode, 0),
   signal |-> Plain("Signal"),
   close  |-> Plain("Close")]

StageBegins ==
  /\ main \in DOMAIN StageCall /\ stack = <<>>
  /\ Push(<<>>, StageCall[main], "main")
  /\ UNCHANGED <<memVars, main, driverVars, tpmVars, worldVars, faults, callbacks, histVars>>

Returning(stage) ==
  /\ main = stage /\ Depth = 1 /\ Client(Top.req) = "av" /\ Ended(Top)
  /\ stack' = <<>>
  /\ UNCHANGED <<memVars, paramMem, resultMem, published, arch, bufVars, tpmVars,
                 worldVars, faults, callbacks, reentered, starved, abused>>

\* The flag and the buffers before the result.
SessionOpenedAnyway ==
  /\ Returning("open")
  /\ opened' = TRUE
  /\ main' = "param"
  /\ UNCHANGED <<pkPresent, enable, misread>>

SessionOpened ==
  /\ Returning("open")
  /\ opened' = Ok(Top)
  /\ main' = IF Ok(Top) THEN "param" ELSE "failed"
  /\ UNCHANGED <<pkPresent, enable, misread>>

\* Present is taken for readable.
ProbedBySuccess ==
  /\ Returning("probe")
  /\ pkPresent' = Ok(Top)
  /\ misread' = (EfiStatus(Top.out) \notin {"EFI_BUFFER_TOO_SMALL", "EFI_NOT_FOUND"})
  /\ main' = "setup"
  /\ UNCHANGED <<opened, enable>>

\* Only a key that is too long for the one byte offered counts as present.
Probed ==
  /\ Returning("probe")
  /\ pkPresent' = (EfiStatus(Top.out) = "EFI_BUFFER_TOO_SMALL")
  /\ misread' = (EfiStatus(Top.out) \notin {"EFI_BUFFER_TOO_SMALL", "EFI_NOT_FOUND"})
  /\ main' = "setup"
  /\ UNCHANGED <<opened, enable>>

EnableRead ==
  /\ Returning("enable")
  /\ enable' = (IF ~pkPresent THEN 0 ELSE IF Ok(Top) THEN resultBuf ELSE PcdSecureBootEnable)
  /\ misread' = (misread \/ EfiStatus(Top.out) \notin {"EFI_SUCCESS", "EFI_NOT_FOUND"})
  /\ main' = IF pkPresent /\ ~Ok(Top) THEN "create" ELSE "secure"
  /\ UNCHANGED <<opened, pkPresent>>

StageSet(stage, next) ==
  /\ Returning(stage)
  /\ main' = IF Ok(Top) THEN next ELSE "failed"
  /\ UNCHANGED <<opened, pkPresent, enable, misread>>

VariablesSet ==
  \/ StageSet("setup", "enable")
  \/ StageSet("create", "secure")
  \/ StageSet("secure", "custom")
  \/ StageSet("custom", "publish")

\* gRT is set first; then either protocol or the exit event may fail.  What was
\* local to InitSecureBootVariables is gone.
Publish ==
  /\ main = "publish" /\ stack = <<>>
  /\ published' = TRUE
  /\ \/ arch' = TRUE /\ main' = "ready" /\ NoFault
     \/ arch' \in BOOLEAN /\ main' = "failed" /\ Fault
  /\ pkPresent' = FALSE /\ enable' = 0 /\ misread' = FALSE
  /\ UNCHANGED <<memVars, stack, opened, paramMem, resultMem, bufVars, tpmVars, worldVars,
                 callbacks, reentered, starved, abused>>

---------------------------------------------------------------------------
(* The services at boot time, and OpteeRuntimeOnExitBootServices.          *)

CallerCalls ==
  /\ main = "ready" /\ stack = <<>>
  /\ \E req \in CallerReads \cup CallerSets : Push(<<>>, req, "main")
  /\ UNCHANGED <<memVars, main, driverVars, tpmVars, worldVars, faults, callbacks, histVars>>

CallerReturns == Returning("ready") /\ UNCHANGED <<main, opened, pkPresent, enable, misread>>

ExitBootServices ==
  /\ main = "ready" /\ stack = <<>>
  /\ main' = "signal"
  /\ UNCHANGED <<memVars, stack, driverVars, bufVars, tpmVars, worldVars, faults, callbacks,
                 histVars>>

\* The session is left to the secure world.
SignalledUnclosed ==
  /\ Returning("signal")
  /\ main' = IF Ok(Top) THEN "release" ELSE "reset"
  /\ UNCHANGED <<opened, pkPresent, enable, misread>>

\* A signal that fails resets the system.
Signalled ==
  /\ Returning("signal")
  /\ main' = IF Ok(Top) THEN "close" ELSE "reset"
  /\ UNCHANGED <<opened, pkPresent, enable, misread>>

\* TEEC_CloseSession reports nothing.
SessionClosed ==
  /\ Returning("close")
  /\ opened' = FALSE
  /\ main' = "release"
  /\ UNCHANGED <<pkPresent, enable, misread>>

\* TEEC_ReleaseSharedMemory keeps the fields of a block it could not free.
Released(base) ==
  \/ Freed("av", base) /\ NoFault
  \/ FreeFails(base) /\ Fault

ReleaseBuffers ==
  /\ main \in {"release", "releaseResult"} /\ stack = <<>>
  /\ IF main = "release"
     THEN /\ Released(paramMem)
          /\ paramMem' = IF gcd' = gcd THEN paramMem ELSE 0
          /\ UNCHANGED resultMem
     ELSE /\ Released(resultMem)
          /\ resultMem' = IF gcd' = gcd THEN resultMem ELSE 0
          /\ UNCHANGED paramMem
  /\ main' = IF main = "release" THEN "releaseResult" ELSE "gone"
  /\ UNCHANGED <<stack, opened, pkPresent, enable, published, arch, bufVars, tpmVars,
                 worldVars, callbacks, histVars>>

---------------------------------------------------------------------------

\* The secure world writes on behind a block it was given.
MemoryOverrun ==
  /\ InWorld
  /\ \E b \in Live : Overrun(b)
  /\ Fault
  /\ abused' = TRUE
  /\ UNCHANGED <<main, stack, driverVars, bufVars, tpmVars, worldVars, callbacks,
                 reentered, misread, starved>>

Init ==
  /\ MemInit
  /\ main = "load" /\ stack = <<>>
  /\ opened = FALSE /\ paramMem = 0 /\ resultMem = 0
  /\ paramBuf = Zero /\ resultBuf = Zero
  /\ pkPresent = FALSE /\ enable = 0
  /\ published = FALSE /\ arch = FALSE
  /\ tpm = "none" /\ tpmMem = 0
  /\ taOpen = {} /\ world = {}
  /\ store \in InitialStores
  /\ faults = 0 /\ callbacks = 0
  /\ reentered = FALSE /\ misread = FALSE /\ starved = FALSE /\ abused = FALSE

\* What the running code does next once the secure world lets it.
Progress ==
  \/ SendMessage \/ FreeMessage \/ Answer
  \/ TpmReleases \/ TpmReturns
  \/ HookReads \/ HookHasRead \/ HookMeasures
  \/ CallbackReturns
  \/ SessionOpened \/ Probed \/ EnableRead \/ VariablesSet
  \/ CallerReturns \/ Signalled \/ SessionClosed

Next ==
  \/ Progress
  \/ RpcAlloc \/ RpcFree
  \/ TpmLoad \/ TpmCalls
  \/ CallbackSubmits \/ CallbackCalls
  \/ Load \/ AllocateBuffers \/ StageBegins \/ Publish
  \/ CallerCalls \/ ExitBootServices \/ ReleaseBuffers
  \/ MemoryOverrun

Spec == Init /\ [][Next]_vars /\ WF_vars(Progress)

---------------------------------------------------------------------------

Requests ==
  [cmd : VariableCmds \cup TpmCmds \cup {"Open", "Close", "Signal"},
   name : Names, arg : Values \cup {Absent}]

Calls ==
  [req : Requests, by : {"main", "event", "hook"},
   pc : {"filled", "world", "back", "done", "probing", "found", "reading",
         "measure", "measuring", "end"},
   msg : Page \cup {0}, out : Results \cup {"NONE"}]

\* Types of the variables.
TypeOK ==
  /\ MemTypeOK
  /\ main \in DOMAIN StageCall \cup
       {"load", "param", "result", "publish", "ready", "release", "releaseResult",
        "gone", "failed", "reset"}
  /\ \A k \in 1 .. Depth : stack[k] \in Calls
  /\ opened \in BOOLEAN /\ pkPresent \in BOOLEAN
  /\ published \in BOOLEAN /\ arch \in BOOLEAN
  /\ {paramMem, resultMem, tpmMem} \subseteq Page \cup {0}
  /\ enable \in Values
  /\ paramBuf \in Requests \cup {Zero}
  /\ resultBuf \in Values \cup (3 .. 5) \cup Names \cup {Zero}
  /\ tpm \in {"none", "idle", "open", "gone"}
  /\ taOpen \subseteq Clients
  /\ store \in [Names -> Values \cup {Absent}]
  /\ world \subseteq Page \cup {0}
  /\ faults \in 0 .. MaxFaults /\ callbacks \in 0 .. MaxCallbacks
  /\ {reentered, misread, starved, abused} \subseteq BOOLEAN

\* The addresses somebody still counts on: the messages of the calls under
\* way, the secure world's memory, the TPM command's buffer, and the transport
\* buffers until the exit handler releases them.
Messages == {stack[k].msg : k \in {j \in 1 .. Depth : stack[j].msg # 0}}
Transport == {paramMem, resultMem} \ {0}
InUse ==
  Messages \cup (world \ {0}) \cup ({tpmMem} \ {0})
    \cup (IF main \in {"release", "releaseResult", "gone"} THEN {} ELSE Transport)
LiveBases == {b.base : b \in Live}

\* Over every interleaving of calls, callbacks and remote allocations and every
\* failing path, a block is live exactly while somebody holds its address, and
\* no two hold the same one (OpteeClientMem.c, OpteeClientSMC.c, OpteeClientRPC.c).
BlocksAccounted ==
  /\ InUse \subseteq LiveBases
  /\ LiveBases \subseteq InUse \cup Transport
  /\ Cardinality(LiveBases) <=
       Cardinality({j \in 1 .. Depth : stack[j].msg # 0}) + Cardinality(world \ {0})
       + Cardinality({tpmMem} \ {0})
       + Cardinality({0} \ {paramMem}) + Cardinality({0} \ {resultMem})
  /\ Messages \cap (world \cup Transport \cup {tpmMem}) = {}
  /\ world \cap (Transport \cup {tpmMem}) \subseteq {0}

\* The allocation counters of the instances add up to the blocks held, whichever
\* instance's call the secure world freed them in: each counter alone may wrap
\* (mSharedMemAllocationCount, checked by OpteeClientApiFinalize).
CountersBalance ==
  (count["av"] + count["tpm"]) % Wrap = (Cardinality(Live) + stuck) % Wrap

\* The overflow assertion of InternalMemAlloc (OpteeClientMem.c:409) accuses
\* somebody only if memory really was overrun, or was never fenced.
NoFalseOverflow == stray > 0 => abused

\* While a command for the variable application is under way its session is open
\* and the transport buffers it names are held (OpteeRuntimeSetVariable does not
\* look whether they are).
TransportReady ==
  \A k \in 1 .. Depth :
    stack[k].req.cmd \in VariableCmds \cup {"Signal"} =>
      opened /\ "av" \in taOpen /\ {paramMem, resultMem} \subseteq LiveBases

\* A read that succeeded finds in the result buffer what the application stores
\* for this request, also when callbacks call the TPM meanwhile or when the read
\* is the hook's - unless a callback called a variable service in between.
RepliesMatch ==
  ~reentered =>
    \A k \in 1 .. Depth :
      /\ stack[k].req.cmd \in {"Get", "GetNext", "Query"}
      /\ stack[k].pc \in {"back", "done"}
      /\ Ok(stack[k])
      => resultBuf = Reply(stack[k].req, stack[k].req.arg, store).data

\* When the services are published the secure boot variables say what the stored
\* key and switch say, on every path through InitSecureBootVariables on which
\* its two reads did not fail for another reason than a missing variable.
PolicyMatchesStore ==
  main = "publish" /\ ~misread =>
    /\ store[SetupMode] = (IF store[PK] = Absent THEN 1 ELSE 0)
    /\ store[SecureBoot] = (IF store[PK] # Absent /\ store[SecureBootEnable] = 1
                            THEN 1 ELSE 0)
    /\ store[CustomMode] = 0

\* After the exit handler, if nothing failed: no session of the driver is left
\* open and no block but the secure world's and the TPM driver's.
CleanExit ==
  main = "gone" /\ faults = 0 /\ ~starved =>
    /\ "av" \notin taOpen /\ Transport = {}
    /\ LiveBases \subseteq world \cup Messages \cup {tpmMem}

\* Again and again no call is under way: every call returns to its caller,
\* provided no callback waits on the session of the call it interrupted
\* (OpteeSmcCall goes round as long as the secure world asks for something, and
\* OpteeRpcCmdWaitQueue does not wait).
CallsReturn == []<>(stack = <<>> \/ reentered)
=============================================================================
