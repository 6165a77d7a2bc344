---------------------------- MODULE KinibiLink ----------------------------
(***************************************************************************)
(* One Kinibi session: kinibi_cmd and kinibi_exit of the HAL               *)
(* (sample_hal/platform/kinibi.c) against tlMain and ta_router of the      *)
(* trusted application (app_main.c, hw_core.c).  The two worlds share one  *)
(* buffer, g_mem in the HAL and tciBuffer in the TA, and one doorbell in   *)
(* each direction.  A request is named by the order of its call; what      *)
(* matters of a reply is which request it answers and whether the command  *)
(* function had finished when it was read.                                 *)
(***************************************************************************)
EXTENDS Integers

CONSTANTS
  Threads,    \* callers of dev->tee_cmd on one device
  NoThread,   \* the mutex is free
  MaxCalls,   \* bound: calls made in a behaviour
  NotifyCap,  \* how many rings a doorbell remembers (external: the driver)
  Timeouts    \* may mcWaitNotification give up a TA that lives: after 1000 ms,
              \* or for an error of the driver (MobiCoreDriverApi.h)

ASSUME NoThreadAssumption == NoThread \notin Threads
ASSUME MaxCallsAssumption == MaxCalls \in Nat
ASSUME NotifyCapAssumption == NotifyCap \in Nat \ {0}
ASSUME TimeoutsAssumption == Timeouts \in BOOLEAN

VARIABLES
  pc,         \* pc[t]: the step of kinibi_cmd thread t is about to take
  mutex,      \* dev->mutex: the thread that holds it
  req,        \* req[t]: the request of t's current or last call
  ret,        \* ret[t]: what the call returns; "none" until it is decided
  reply,      \* reply[t]: what was last copied to t's `out`
  in,         \* request half of g_mem
  out,        \* reply half of g_mem, g_out of the TA
  gin,        \* g_in of the TA, its private copy of the request
  ta,         \* where tlMain is: "idle" waits, "dead" crashed or closed
  toTa,       \* rings of mcNotify the TA has not consumed
  toClient,   \* rings of tlApiNotify the client has not consumed
  tci,        \* the buffer and the session: "open", "freed", "closed"
  calls,      \* calls made so far
  runs,       \* history: how often a request reached a command function
  quiet,      \* history: was the link quiet when t took the mutex
  abandoned   \* history: has a call been given up

clientVars == <<pc, mutex, req, ret, reply, calls, quiet, abandoned>>
taVars == <<gin, ta, runs>>
linkVars == <<in, out, toTa, toClient, tci>>
vars == <<clientVars, taVars, linkVars>>

Requests == 1 .. MaxCalls
Garbage == 0                   \* unset memory, or a torn mix of two requests
Contents == {Garbage} \union Requests
Replies == [by : Contents, done : BOOLEAN]

Critical == {"copy_in", "notify", "wait", "copy_out", "unlock"}

\* A doorbell counts up to NotifyCap and drops what does not fit.
Bump(n) == IF n < NotifyCap THEN n + 1 ELSE n

TaGone == ta = "dead"

\* No ring is pending and the TA is not working: a reply that arrives now can
\* only be to a request that has not been sent yet.
Quiet == toClient = 0 /\ (TaGone \/ (ta = "idle" /\ toTa = 0))

TypeOK ==
  /\ pc \in [Threads -> {"idle", "lock"} \union Critical]
  /\ mutex \in Threads \union {NoThread}
  /\ req \in [Threads -> Contents]
  /\ ret \in [Threads -> {"none", "ok", "err"}]
  /\ reply \in [Threads -> Replies]
  /\ in \in Contents
  /\ out \in Replies
  /\ gin \in Contents
  /\ ta \in {"idle", "copy", "route", "notify", "dead"}
  /\ toTa \in 0 .. NotifyCap
  /\ toClient \in 0 .. NotifyCap
  /\ tci \in {"open", "freed", "closed"}
  /\ calls \in Contents
  /\ runs \in [Contents -> Nat]
  /\ quiet \in [Threads -> BOOLEAN]
  /\ abandoned \in BOOLEAN

\* After kinibi_init and platform_init both succeeded: the buffer is fresh
\* malloc memory and tlMain stands at its first tlApiWaitNotification.
Init ==
  /\ pc = [t \in Threads |-> "idle"]
  /\ mutex = NoThread
  /\ req = [t \in Threads |-> Garbage]
  /\ ret = [t \in Threads |-> "none"]
  /\ reply = [t \in Threads |-> [by |-> Garbage, done |-> FALSE]]
  /\ in = Garbage
  /\ out = [by |-> Garbage, done |-> FALSE]
  /\ gin = Garbage
  /\ ta = "idle"
  /\ toTa = 0
  /\ toClient = 0
  /\ tci = "open"
  /\ calls = 0
  /\ runs = [r \in Contents |-> 0]
  /\ quiet = [t \in Threads |-> FALSE]
  /\ abandoned = FALSE

---------------------------------------------------------------------------
(* The client: kinibi_cmd.                                                 *)

\* A thread enters tee_cmd with a new request in its own `in`.
Call(t) ==
  /\ pc[t] = "idle"
  /\ tci = "open"
  /\ calls < MaxCalls
  /\ calls' = calls + 1
  /\ pc' = [pc EXCEPT ![t] = "lock"]
  /\ req' = [req EXCEPT ![t] = calls + 1]
  /\ ret' = [ret EXCEPT ![t] = "none"]
  /\ UNCHANGED <<mutex, reply, quiet, abandoned, taVars, linkVars>>

\* Mutation: kinibi_cmd without pthread_mutex_lock.
LockUnguarded(t) ==
  /\ pc[t] = "lock"
  /\ mutex' = t
  /\ pc' = [pc EXCEPT ![t] = "copy_in"]
  /\ in' = Garbage
  /\ quiet' = [quiet EXCEPT ![t] = Quiet]
  /\ UNCHANGED <<req, ret, reply, calls, abandoned, taVars, out, toTa,
                 toClient, tci>>

\* Take the mutex and write the first bytes of the request into g_mem.
Lock(t) ==
  /\ pc[t] = "lock"
  /\ mutex = NoThread
  /\ mutex' = t
  /\ pc' = [pc EXCEPT ![t] = "copy_in"]
  /\ in' = Garbage
  /\ quiet' = [quiet EXCEPT ![t] = Quiet]
  /\ UNCHANGED <<req, ret, reply, calls, abandoned, taVars, out, toTa,
                 toClient, tci>>

CopyIn(t) ==
  /\ pc[t] = "copy_in"
  /\ in' = req[t]
  /\ pc' = [pc EXCEPT ![t] = "notify"]
  /\ UNCHANGED <<mutex, req, ret, reply, calls, quiet, abandoned, taVars, out,
                 toTa, toClient, tci>>

Notify(t) ==
  /\ pc[t] = "notify"
  /\ toTa' = Bump(toTa)
  /\ pc' = [pc EXCEPT ![t] = "wait"]
  /\ UNCHANGED <<mutex, req, ret, reply, calls, quiet, abandoned, taVars, in,
                 out, toClient, tci>>

\* Mutation: the error path returns at once instead of going to `end`.
FailHoldingMutex(t) ==
  /\ ret' = [ret EXCEPT ![t] = "err"]
  /\ pc' = [pc EXCEPT ![t] = "idle"]
  /\ UNCHANGED <<mutex, req, reply, calls, quiet, taVars, linkVars>>

\* The error path of kinibi_cmd: `goto end`, without touching `out`.
Fail(t) ==
  /\ ret' = [ret EXCEPT ![t] = "err"]
  /\ pc' = [pc EXCEPT ![t] = "unlock"]
  /\ UNCHANGED <<mutex, req, reply, calls, quiet, taVars, linkVars>>

NotifyError(t) ==
  /\ pc[t] = "notify"
  /\ TaGone
  /\ Fail(t)
  /\ UNCHANGED abandoned

\* Mutation: the reply is taken for granted, without waiting for its ring.
WaitOkSkipped(t) ==
  /\ pc[t] = "wait"
  /\ toClient' = toClient - 1
  /\ ret' = [ret EXCEPT ![t] = "ok"]
  /\ pc' = [pc EXCEPT ![t] = "copy_out"]
  /\ UNCHANGED <<mutex, req, reply, calls, quiet, abandoned, taVars, in, out,
                 toTa, tci>>

\* Mutation: the wait leaves the ring of the reply behind.
WaitOkKeepsRing(t) ==
  /\ pc[t] = "wait"
  /\ toClient > 0
  /\ ret' = [ret EXCEPT ![t] = "ok"]
  /\ pc' = [pc EXCEPT ![t] = "copy_out"]
  /\ UNCHANGED <<mutex, req, reply, calls, quiet, abandoned, taVars, linkVars>>

\* mcWaitNotification returns MC_DRV_OK and uses up one ring.
WaitOk(t) ==
  /\ pc[t] = "wait"
  /\ toClient > 0
  /\ toClient' = toClient - 1
  /\ ret' = [ret EXCEPT ![t] = "ok"]
  /\ pc' = [pc EXCEPT ![t] = "copy_out"]
  /\ UNCHANGED <<mutex, req, reply, calls, quiet, abandoned, taVars, in, out,
                 toTa, tci>>

\* The call is given up though the TA lives: the 1000 ms have passed, or the
\* driver reports a problem of its own, perhaps with the reply already there.
WaitGivesUp(t) ==
  /\ pc[t] = "wait"
  /\ Timeouts
  /\ ~TaGone
  /\ Fail(t)
  /\ abandoned' = TRUE

\* The driver reports that the TA died, or the wait for it runs out.
WaitError(t) ==
  /\ pc[t] = "wait"
  /\ TaGone
  /\ Fail(t)
  /\ UNCHANGED abandoned

CopyOut(t) ==
  /\ pc[t] = "copy_out"
  /\ reply' = [reply EXCEPT ![t] = out]
  /\ pc' = [pc EXCEPT ![t] = "unlock"]
  /\ UNCHANGED <<mutex, req, ret, calls, quiet, abandoned, taVars, linkVars>>

Unlock(t) ==
  /\ pc[t] = "unlock"
  /\ mutex' = NoThread
  /\ pc' = [pc EXCEPT ![t] = "idle"]
  /\ UNCHANGED <<req, ret, reply, calls, quiet, abandoned, taVars, linkVars>>

---------------------------------------------------------------------------
(* The trusted application: tlMain and ta_router.                          *)

\* Mutation: tlMain is woken but the ring stays.
TaWakeKeepsRing ==
  /\ ta = "idle"
  /\ toTa > 0
  /\ gin' = in
  /\ ta' = "copy"
  /\ UNCHANGED <<clientVars, runs, in, out, toTa, toClient, tci>>

\* tlApiWaitNotification returns; the copy to g_in starts.
TaWake ==
  /\ ta = "idle"
  /\ toTa > 0
  /\ toTa' = toTa - 1
  /\ gin' = in
  /\ ta' = "copy"
  /\ UNCHANGED <<clientVars, runs, in, out, toClient, tci>>

\* The copy ends, with the old, the new or a mix when the client has written
\* meanwhile; ta_router presets the status to OK and enters the command.
TaCopy ==
  /\ ta = "copy"
  /\ \E c \in {gin, in, IF gin = in THEN in ELSE Garbage} :
       /\ gin' = c
       /\ out' = [by |-> c, done |-> FALSE]
       /\ runs' = [runs EXCEPT ![c] = @ + 1]
  /\ ta' = "route"
  /\ UNCHANGED <<clientVars, in, toTa, toClient, tci>>

\* The command function returns, its results are in g_out.
TaRoute ==
  /\ ta = "route"
  /\ out' = [out EXCEPT !.done = TRUE]
  /\ ta' = "notify"
  /\ UNCHANGED <<clientVars, gin, runs, in, toTa, toClient, tci>>

\* The command jumps through an operation platform_init never assigned.
TaDies ==
  /\ ta = "route"
  /\ ta' = "dead"
  /\ UNCHANGED <<clientVars, gin, runs, linkVars>>

TaNotify ==
  /\ ta = "notify"
  /\ toClient' = Bump(toClient)
  /\ ta' = "idle"
  /\ UNCHANGED <<clientVars, gin, runs, in, out, toTa, tci>>

---------------------------------------------------------------------------
(* kinibi_exit: the buffer goes first, the session after it.  It does not  *)
(* take dev->mutex; that no call is under way is what tee_test sees to,    *)
(* whose one thread releases the device after its last call.               *)

FreeMem ==
  /\ \A t \in Threads : pc[t] = "idle"
  /\ tci = "open"
  /\ tci' = "freed"
  /\ UNCHANGED <<clientVars, taVars, in, out, toTa, toClient>>

CloseSession ==
  /\ tci = "freed"
  /\ tci' = "closed"
  /\ ta' = "dead"
  /\ UNCHANGED <<clientVars, gin, runs, in, out, toTa, toClient>>

\* The process is over: no deadlock.
Done == tci = "closed" /\ UNCHANGED vars

Wait(t) == WaitOk(t) \/ WaitGivesUp(t) \/ WaitError(t)

ClientStep(t) ==
  \/ Lock(t) \/ CopyIn(t) \/ Notify(t) \/ NotifyError(t)
  \/ Wait(t) \/ CopyOut(t) \/ Unlock(t)

TaStep == TaWake \/ TaCopy \/ TaRoute \/ TaDies \/ TaNotify

Next ==
  \/ \E t \in Threads : Call(t) \/ ClientStep(t)
  \/ TaStep
  \/ FreeMem \/ CloseSession \/ Done

Spec == Init /\ [][Next]_vars

\* The scheduler runs every thread inside kinibi_cmd.  The TA is scheduled too
\* when it answers in time; a TA that may be late is owed nothing.
Fairness ==
  /\ \A t \in Threads : WF_vars(ClientStep(t))
  /\ Timeouts \/ WF_vars(TaStep)

FairSpec == Spec /\ Fairness

---------------------------------------------------------------------------
(* Properties.                                                             *)

Own(t) == reply[t] = [by |-> req[t], done |-> TRUE]

\* A call that found the link quiet when it took the mutex, and returns 0,
\* carries the complete answer to its own request, whatever timed out before.
QuietCallGetsOwnReply ==
  \A t \in Threads :
    pc[t] = "unlock" /\ ret[t] = "ok" /\ quiet[t] => Own(t)

\* As long as no call has been given up in its wait, every critical section
\* of kinibi_cmd leaves the link quiet for the next one.
QuietUntilAbandoned == mutex = NoThread /\ ~abandoned => Quiet

\* Client and TA never touch the shared buffer at the same time: it has no
\* lock of its own, only the two doorbells.
TciRaceFree ==
  ~abandoned =>
    ~ \E t \in Threads :
        /\ pc[t] \in {"copy_in", "copy_out"}
        /\ ta \in {"copy", "route"}

\* kinibi_exit frees g_mem before it closes the session; the TA must be done
\* with the buffer by then.  Given that tee_test releases the device after its
\* calls, it is, unless one of them was given up.
TciAlive == ~abandoned /\ ta \in {"copy", "route", "notify"} => tci = "open"

\* What random_test takes for granted: a call that returns 0 carries the answer
\* to its own request (it charges out->status to the command it sent).
OkCallGetsOwnReply ==
  \A t \in Threads : pc[t] = "unlock" /\ ret[t] = "ok" => Own(t)

\* Every call of kinibi_cmd returns, whatever becomes of the TA: no path
\* leaves the mutex locked.
EveryCallReturns == \A t \in Threads : pc[t] = "lock" ~> pc[t] = "idle"

\* With a TA that answers in time, and a driver that says so, the link is the
\* abstract command operation.
Call_Abstract == INSTANCE TeeCall WITH
  stage <- [t \in Threads |-> IF pc[t] = "idle" THEN "idle" ELSE "called"],
  answer <- [t \in Threads |->
               IF pc[t] = "idle" /\ ret[t] = "ok" /\ reply[t].done
                 THEN reply[t].by ELSE Garbage]

ImplementsTeeCall == Call_Abstract!Spec
---------------------------------------------------------------------------
(* The inductive invariant behind them.                                    *)

MutexInv == \A t \in Threads : pc[t] \in Critical <=> mutex = t

\* A request is new until its thread has the mutex: neither side of the
\* buffer has seen it.
Unseen(r) == in # r /\ gin # r /\ runs[r] = 0

FreshInv ==
  /\ \A r \in Requests : r > calls => Unseen(r)
  /\ \A t \in Threads :
       /\ req[t] <= calls
       /\ pc[t] # "idle" => req[t] > 0
       /\ pc[t] = "lock" => Unseen(req[t])
  /\ \A t, u \in Threads : t # u /\ req[t] > 0 => req[t] # req[u]

ExitInv == tci # "open" => \A t \in Threads : pc[t] = "idle"

\* Where the request of a waiting thread can be: rung for, in the copy, in the
\* command function, answered, or lost with the TA.
Rung(t) == ta = "idle" /\ toTa = 1 /\ toClient = 0 /\ runs[req[t]] = 0
Copied(t) == ta = "copy" /\ toTa = 0 /\ toClient = 0 /\ gin = req[t]
               /\ runs[req[t]] = 0
Routed(t) == ta = "route" /\ toTa = 0 /\ toClient = 0 /\ out.by = req[t]
               /\ runs[req[t]] = 1
Answered(t) == /\ toTa = 0 /\ runs[req[t]] = 1
               /\ out = [by |-> req[t], done |-> TRUE]
               /\ \/ ta = "notify" /\ toClient = 0
                  \/ ta = "idle" /\ toClient = 1
Lost == TaGone /\ toClient = 0

\* A thread that took the mutex on a quiet link owns the whole handshake.
HandshakeInv ==
  \A t \in Threads : quiet[t] =>
    /\ pc[t] \in {"copy_in", "notify"} => Quiet /\ runs[req[t]] = 0
    /\ pc[t] = "notify" => in = req[t]
    /\ pc[t] = "wait" =>
         /\ in = req[t]
         /\ Rung(t) \/ Copied(t) \/ Routed(t) \/ Answered(t) \/ Lost
    /\ pc[t] = "copy_out" =>
         Quiet /\ out = [by |-> req[t], done |-> TRUE] /\ runs[req[t]] = 1
    /\ pc[t] = "unlock" =>
         /\ ret[t] = "ok" => Own(t) /\ runs[req[t]] = 1 /\ Quiet
         /\ abandoned \/ Quiet

\* Until the first abandoned call every critical section starts and ends on a
\* quiet link.
PromptInv ==
  ~abandoned =>
    /\ \A t \in Threads : pc[t] \in Critical => quiet[t]
    /\ mutex = NoThread => Quiet
    /\ \A r \in Requests : runs[r] <= 1

IInv == /\ TypeOK /\ MutexInv /\ FreshInv /\ ExitInv /\ HandshakeInv
        /\ PromptInv /\ (abandoned => Timeouts)
=============================================================================
