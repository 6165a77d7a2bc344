------------------------------ MODULE SyncLink ------------------------------
(***************************************************************************)
(* The links whose vendor call blocks until the trusted application has    *)
(* answered: QSEE (QSEECom_send_cmd), ISEE (ioctl on /dev/teei_fp) and GP  *)
(* (TEEC_InvokeCommand), each from tee_cmd of its back end                 *)
(* (sample_hal/platform/qsee.c, isee.c, gp.c) to its entry point of the    *)
(* trusted application (app_main.c).  A request is named by the order of   *)
(* its call, an answer by its request.                                     *)
(***************************************************************************)
EXTENDS Naturals

CONSTANTS
  Threads,     \* callers of dev->tee_cmd on one device
  NoThread,    \* the mutex is free
  MaxCalls,    \* bound: calls made in a behaviour
  Contiguous,  \* does `out` begin where `in` ends, as in struct tee_client_device
  Failures     \* Failures[b]: what may fail on back end b

\* The back ends looked at; the client works with one of them.
Tees == DOMAIN Failures

ASSUME NoThreadAssumption == NoThread \notin Threads
ASSUME MaxCallsAssumption == MaxCalls \in Nat
ASSUME ContiguousAssumption == Contiguous \in BOOLEAN
\* "lost": the vendor call fails on the way to the trusted application, "late":
\* on the way back; "refused": the entry point does not like the lengths, which
\* it does only when the two sides are built from different headers.
ASSUME FailuresAssumption ==
  /\ Tees \subseteq {"qsee", "isee", "gp"}
  /\ \A b \in Tees : Failures[b] \subseteq {"lost", "late", "refused"}

VARIABLES
  tee,      \* the back end main has chosen
  pc,       \* pc[t]: the step of the command thread t is about to take
  mutex,    \* dev->mutex
  req,      \* req[t]: the request of t's current or last call
  ret,      \* ret[t]: what the call returns; "none" until it is decided
  out,      \* out[t]: the answer in t's `out`
  calls,    \* calls made so far
  mine,     \* history: mine[t], the requests t has made
  gCmd,     \* whose `in` g_cmd of the ISEE back end points at
  inMem,    \* g_in_mem of the GP back end
  outMem,   \* g_out_mem of the GP back end
  gin,      \* g_in of the trusted application
  runs      \* history: how often a request reached a command function

clientVars == <<pc, mutex, req, ret, out, calls, mine>>
taVars == <<gin, runs>>
vars == <<tee, clientVars, gCmd, inMem, outMem, taVars>>

Requests == 1 .. MaxCalls
NoRequest == 0
Contents == {NoRequest} \union Requests

Critical == {"point", "copyin", "invoke", "run", "result", "copyout", "unlock"}

\* The last conjunct: a command function runs at most once for a request.
TypeOK ==
  /\ tee \in Tees
  /\ pc \in [Threads -> {"idle", "lock"} \union Critical]
  /\ mutex \in Threads \union {NoThread}
  /\ req \in [Threads -> Contents]
  /\ ret \in [Threads -> {"none", "ok", "err"}]
  /\ out \in [Threads -> Contents]
  /\ calls \in Contents
  /\ mine \in [Threads -> SUBSET Requests]
  /\ gCmd \in Threads \union {NoThread}
  /\ inMem \in Contents
  /\ outMem \in Contents
  /\ gin \in Contents
  /\ runs \in [Contents -> {0, 1}]

Init ==
  /\ tee \in Tees
  /\ pc = [t \in Threads |-> "idle"]
  /\ mutex = NoThread
  /\ req = [t \in Threads |-> NoRequest]
  /\ ret = [t \in Threads |-> "none"]
  /\ out = [t \in Threads |-> NoRequest]
  /\ calls = 0
  /\ mine = [t \in Threads |-> {}]
  /\ gCmd = NoThread
  /\ inMem = NoRequest
  /\ outMem = NoRequest
  /\ gin = NoRequest
  /\ runs = [r \in Contents |-> 0]

Goto(t, step) == pc' = [pc EXCEPT ![t] = step]

\* The first step under the mutex: qsee_cmd has nothing to prepare.
First == [qsee |-> "invoke", isee |-> "point", gp |-> "copyin"][tee]

Call(t) ==
  /\ pc[t] = "idle"
  /\ calls < MaxCalls
  /\ calls' = calls + 1
  /\ req' = [req EXCEPT ![t] = calls + 1]
  /\ mine' = [mine EXCEPT ![t] = @ \union {calls + 1}]
  /\ ret' = [ret EXCEPT ![t] = "none"]
  /\ Goto(t, "lock")
  /\ UNCHANGED <<tee, mutex, out, gCmd, inMem, outMem, taVars>>

\* Mutation: the mutex is not waited for.
LockAnyway(t) ==
  /\ pc[t] = "lock"
  /\ mutex' = t
  /\ Goto(t, First)
  /\ UNCHANGED <<tee, req, ret, out, calls, mine, gCmd, inMem, outMem, taVars>>

Lock(t) ==
  /\ pc[t] = "lock"
  /\ mutex = NoThread
  /\ mutex' = t
  /\ Goto(t, First)
  /\ UNCHANGED <<tee, req, ret, out, calls, mine, gCmd, inMem, outMem, taVars>>

\* isee_cmd: g_cmd.buf = in, one global for all threads.
Point(t) ==
  /\ pc[t] = "point"
  /\ gCmd' = t
  /\ Goto(t, "invoke")
  /\ UNCHANGED <<tee, mutex, req, ret, out, calls, mine, inMem, outMem, taVars>>

\* gp_cmd: memcpy(g_in_mem.buffer, in, IN_BUF_LEN).
CopyIn(t) ==
  /\ pc[t] = "copyin"
  /\ inMem' = req[t]
  /\ Goto(t, "invoke")
  /\ UNCHANGED <<tee, mutex, req, ret, out, calls, mine, gCmd, outMem, taVars>>

\* The vendor call returns; gp_cmd goes on to copy whatever it returned.
Returns(t, status) ==
  /\ ret' = [ret EXCEPT ![t] = status]
  /\ Goto(t, IF tee = "gp" THEN "copyout" ELSE "unlock")
  /\ UNCHANGED <<tee, mutex, req, out, calls, mine, gCmd, inMem, outMem, taVars>>

\* Mutation: a call that failed is made again.
LostRetries(t) ==
  /\ pc[t] = "invoke"
  /\ "lost" \in Failures[tee]
  /\ Goto(t, First)
  /\ UNCHANGED <<tee, mutex, req, ret, out, calls, mine, gCmd, inMem, outMem,
                 taVars>>

Lost(t) ==
  /\ pc[t] = "invoke"
  /\ "lost" \in Failures[tee]
  /\ Returns(t, "err")

\* The entry points check the lengths (GP also the parameter types and the
\* command): ISEE and GP answer TEE_ERROR_GENERIC, tz_app_cmd_handler of QSEE
\* can only return.
Refused(t) ==
  /\ pc[t] = "invoke"
  /\ "refused" \in Failures[tee]
  /\ Returns(t, IF tee = "qsee" THEN "ok" ELSE "err")

\* The thread whose `in` and `out` the vendor call works on: its caller's, or
\* the one g_cmd points at.
Subject(t) == IF tee = "isee" THEN gCmd ELSE t

\* The entry point: memcpy(g_in, cmd, IN_BUF_LEN).
Enter(t) ==
  /\ pc[t] = "invoke"
  /\ gin' = IF tee = "gp" THEN inMem ELSE req[Subject(t)]
  /\ Goto(t, "run")
  /\ UNCHANGED <<tee, mutex, req, ret, out, calls, mine, gCmd, inMem, outMem,
                 runs>>

\* Does the answer reach `out`?  isee_cmd does not pass it on: the answer comes
\* behind `in`.
Delivers == tee # "isee" \/ Contiguous

\* ta_router; g_out points into the vendor's answer buffer.
Run(t) ==
  /\ pc[t] = "run"
  /\ runs' = [runs EXCEPT ![gin] = @ + 1]
  /\ IF tee = "gp" THEN outMem' = gin /\ UNCHANGED out
     ELSE /\ out' = IF Delivers THEN [out EXCEPT ![Subject(t)] = gin]
                    ELSE out
          /\ UNCHANGED outMem
  /\ Goto(t, "result")
  /\ UNCHANGED <<tee, mutex, req, ret, calls, mine, gCmd, inMem, gin>>

\* Mutation: a command whose answer was lost is sent again.
ResultRetries(t) ==
  /\ pc[t] = "result"
  /\ \/ Returns(t, "ok")
     \/ /\ "late" \in Failures[tee]
        /\ runs[req[t]] < 3
        /\ Goto(t, "invoke")
        /\ UNCHANGED <<tee, mutex, req, ret, out, calls, mine, gCmd, inMem,
                       outMem, taVars>>

Result(t) ==
  /\ pc[t] = "result"
  /\ \/ Returns(t, "ok")
     \/ "late" \in Failures[tee] /\ Returns(t, "err")

\* Mutation: the answer is copied after the mutex is released.
CopyOutAfterUnlock(t) ==
  /\ pc[t] = "copyout"
  /\ IF mutex = t THEN mutex' = NoThread /\ UNCHANGED <<pc, out>>
     ELSE /\ out' = [out EXCEPT ![t] = outMem]
          /\ Goto(t, "idle")
          /\ UNCHANGED mutex
  /\ UNCHANGED <<tee, req, ret, calls, mine, gCmd, inMem, outMem, taVars>>

\* gp_cmd: memcpy(out, g_out_mem.buffer, OUT_BUF_LEN), also after an error.
CopyOut(t) ==
  /\ pc[t] = "copyout"
  /\ out' = [out EXCEPT ![t] = outMem]
  /\ Goto(t, "unlock")
  /\ UNCHANGED <<tee, mutex, req, ret, calls, mine, gCmd, inMem, outMem, taVars>>

Unlock(t) ==
  /\ pc[t] = "unlock"
  /\ mutex' = NoThread
  /\ Goto(t, "idle")
  /\ UNCHANGED <<tee, req, ret, out, calls, mine, gCmd, inMem, outMem, taVars>>

Step(t) ==
  \/ Lock(t) \/ Point(t) \/ CopyIn(t) \/ Lost(t) \/ Refused(t) \/ Enter(t)
  \/ Run(t) \/ Result(t) \/ CopyOut(t) \/ Unlock(t)

\* All calls made and answered: the process may end.
Done ==
  /\ calls = MaxCalls
  /\ \A t \in Threads : pc[t] = "idle"
  /\ UNCHANGED vars

Next == (\E t \in Threads : Call(t) \/ Step(t)) \/ Done

Spec == Init /\ [][Next]_vars

\* A thread inside tee_cmd is scheduled, and the vendor call comes back.
FairSpec == Spec /\ \A t \in Threads : WF_vars(Step(t))

---------------------------------------------------------------------------
(* Properties.                                                             *)

Answered(t) == ret[t] = "ok" /\ pc[t] \in {"unlock", "idle"}

\* A call that returns 0 has the answer to its own request in `out`, and keeps
\* it until the thread's next call, whatever the other threads do.
OkCallGetsOwnReply == \A t \in Threads : Answered(t) => out[t] = req[t]

\* `out` never holds the answer to another thread's request, also after a call
\* that failed; except on GP, where such a call copies what the shared memory
\* still holds of another.
NoForeignAnswer ==
  tee # "gp" => \A t \in Threads : out[t] \in mine[t] \union {NoRequest}

\* Every call returns.
EveryCallReturns == \A t \in Threads : pc[t] = "lock" ~> pc[t] = "idle"

\* The link is the abstract command operation.
Call_Abstract == INSTANCE TeeCall WITH
  stage <- [t \in Threads |-> IF pc[t] = "idle" THEN "idle" ELSE "called"],
  answer <- [t \in Threads |->
               IF pc[t] = "idle" /\ ret[t] = "ok" THEN out[t] ELSE NoRequest]

ImplementsTeeCall == Call_Abstract!Spec
=============================================================================
