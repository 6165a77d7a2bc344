----------------------------- MODULE TrustyLink -----------------------------
(***************************************************************************)
(* One Trusty channel: trusty_cmd of the HAL (sample_hal/platform/         *)
(* trusty.c) against the event loop of the trusted application, its two    *)
(* handlers trusty_accept and trusty_router, and the port they serve       *)
(* (app_main.c, sampleta/platform/trusty/trusty.c).  A request is named by *)
(* the order of its call.  main passes its variable p_func to the handler  *)
(* by value, and trusty_accept assigns trusty_router to that copy:         *)
(* ByReference = FALSE is the code.  With ByReference = TRUE the           *)
(* assignment takes effect, which is what the rest of the code is made for.*)
(***************************************************************************)
EXTENDS Integers, Sequences

CONSTANTS
  Threads,      \* callers of dev->tee_cmd on one device
  NoThread,     \* the mutex is free
  MaxCalls,     \* bound: calls made in a behaviour
  ByReference,  \* does the assignment in trusty_accept reach main
  Failures      \* what may fail in this behaviour

ASSUME NoThreadAssumption == NoThread \notin Threads
ASSUME MaxCallsAssumption == MaxCalls \in Nat
ASSUME ByReferenceAssumption == ByReference \in BOOLEAN
ASSUME FailuresAssumption ==
  Failures \subseteq {"accept", "write", "signal", "get_msg", "read_msg",
                      "put_msg", "send_msg", "wait_any"}

VARIABLES
  pc,       \* pc[t]: the step of trusty_cmd thread t is about to take
  mutex,    \* dev->mutex
  req,      \* req[t]: the request of t's current or last call
  ret,      \* ret[t]: what the call returns; "none" until it is decided
  reply,    \* reply[t]: the request whose answer was last read into t's `out`
  calls,    \* calls made so far
  quiet,    \* history: was the channel quiet when t took the mutex
  conn,     \* our connection: "pending" at the port, "refused" (trusty_init
            \* fails), "open", or "closed"
  rival,    \* the connection of another process to the same port
  port,     \* the one receive buffer of our channel: a message, or NoRequest
  held,     \* has the TA taken that message and not put it back
  back,     \* replies on their way to the client
  ta,       \* where main is: "wait", "run", "send", or "dead"
  p_func,   \* the handler main calls
  gin,      \* g_in of the TA
  runs      \* history: how often a request reached a command function

clientVars == <<pc, mutex, req, ret, reply, calls, quiet>>
taVars == <<ta, p_func, gin, runs>>
linkVars == <<conn, rival, port, held, back>>
vars == <<clientVars, taVars, linkVars>>

Requests == 1 .. MaxCalls
NoRequest == 0
Contents == {NoRequest} \union Requests

Critical == {"write", "read", "unlock"}

\* Nothing of an earlier call is under way.
Quiet == port = NoRequest /\ back = <<>> /\ ta \in {"wait", "dead"}

TypeOK ==
  /\ pc \in [Threads -> {"idle", "lock"} \union Critical]
  /\ mutex \in Threads \union {NoThread}
  /\ req \in [Threads -> Contents]
  /\ ret \in [Threads -> {"none", "ok", "err"}]
  /\ reply \in [Threads -> Contents]
  /\ calls \in Contents
  /\ quiet \in [Threads -> BOOLEAN]
  /\ conn \in {"pending", "refused", "open", "closed"}
  /\ rival \in {"none", "pending", "open"}
  /\ port \in Contents
  /\ held \in BOOLEAN
  /\ back \in Seq(Requests)
  /\ ta \in {"wait", "run", "send", "dead"}
  /\ p_func \in {"trusty_accept", "trusty_router"}
  /\ gin \in Contents
  /\ runs \in [Contents -> Nat]

\* trusty_init is inside tipc_connect; main is in its first wait_any.
Init ==
  /\ pc = [t \in Threads |-> "idle"]
  /\ mutex = NoThread
  /\ req = [t \in Threads |-> NoRequest]
  /\ ret = [t \in Threads |-> "none"]
  /\ reply = [t \in Threads |-> NoRequest]
  /\ calls = 0
  /\ quiet = [t \in Threads |-> FALSE]
  /\ conn = "pending"
  /\ rival = "none"
  /\ port = NoRequest
  /\ held = FALSE
  /\ back = <<>>
  /\ ta = "wait"
  /\ p_func = "trusty_accept"
  /\ gin = NoRequest
  /\ runs = [r \in Contents |-> 0]

---------------------------------------------------------------------------
(* The client: trusty_cmd.                                                 *)

Call(t) ==
  /\ pc[t] = "idle"
  /\ conn \in {"open", "closed"}
  /\ calls < MaxCalls
  /\ calls' = calls + 1
  /\ pc' = [pc EXCEPT ![t] = "lock"]
  /\ req' = [req EXCEPT ![t] = calls + 1]
  /\ ret' = [ret EXCEPT ![t] = "none"]
  /\ UNCHANGED <<mutex, reply, quiet, taVars, linkVars>>

\* Mutation: the mutex is not waited for.
LockAnyway(t) ==
  /\ pc[t] = "lock"
  /\ mutex' = t
  /\ pc' = [pc EXCEPT ![t] = "write"]
  /\ quiet' = [quiet EXCEPT ![t] = Quiet]
  /\ UNCHANGED <<req, ret, reply, calls, taVars, linkVars>>

Lock(t) ==
  /\ pc[t] = "lock"
  /\ mutex = NoThread
  /\ mutex' = t
  /\ pc' = [pc EXCEPT ![t] = "write"]
  /\ quiet' = [quiet EXCEPT ![t] = Quiet]
  /\ UNCHANGED <<req, ret, reply, calls, taVars, linkVars>>

\* write() waits for the one buffer of the channel, then fills it.
Write(t) ==
  /\ pc[t] = "write"
  /\ conn = "open"
  /\ port = NoRequest
  /\ port' = req[t]
  /\ pc' = [pc EXCEPT ![t] = "read"]
  /\ UNCHANGED <<mutex, req, ret, reply, calls, quiet, taVars, conn, rival,
                 held, back>>

\* Mutation: the error path returns and leaves the mutex locked.
FailHoldingMutex(t) ==
  /\ ret' = [ret EXCEPT ![t] = "err"]
  /\ pc' = [pc EXCEPT ![t] = "idle"]
  /\ UNCHANGED <<mutex, req, reply, calls, quiet>>

\* `status = GENERIC_ERR; goto end`, or the fall through after a bad read.
Fail(t) ==
  /\ ret' = [ret EXCEPT ![t] = "err"]
  /\ pc' = [pc EXCEPT ![t] = "unlock"]
  /\ UNCHANGED <<mutex, req, reply, calls, quiet>>

WriteFails(t) ==
  /\ pc[t] = "write"
  /\ conn = "closed" \/ "write" \in Failures
  /\ Fail(t)
  /\ UNCHANGED <<taVars, linkVars>>

\* Mutation: the length that read() returned is not looked at.
ReadUnchecked(t) ==
  /\ pc[t] = "read"
  /\ back # <<>> \/ conn = "closed" \/ "signal" \in Failures
  /\ reply' = [reply EXCEPT ![t] = IF back # <<>> THEN Head(back) ELSE @]
  /\ back' = IF back # <<>> THEN Tail(back) ELSE back
  /\ ret' = [ret EXCEPT ![t] = "ok"]
  /\ pc' = [pc EXCEPT ![t] = "unlock"]
  /\ UNCHANGED <<mutex, req, calls, quiet, taVars, conn, rival, port, held>>

\* read() blocks, under the mutex and without a timeout, until a reply is there.
Read(t) ==
  /\ pc[t] = "read"
  /\ back # <<>>
  /\ reply' = [reply EXCEPT ![t] = Head(back)]
  /\ back' = Tail(back)
  /\ ret' = [ret EXCEPT ![t] = "ok"]
  /\ pc' = [pc EXCEPT ![t] = "unlock"]
  /\ UNCHANGED <<mutex, req, calls, quiet, taVars, conn, rival, port, held>>

\* It also returns when the channel is closed, or a signal interrupts it.
ReadFails(t) ==
  /\ pc[t] = "read"
  /\ back = <<>>
  /\ conn = "closed" \/ "signal" \in Failures
  /\ Fail(t)
  /\ UNCHANGED <<taVars, linkVars>>

Unlock(t) ==
  /\ pc[t] = "unlock"
  /\ mutex' = NoThread
  /\ pc' = [pc EXCEPT ![t] = "idle"]
  /\ UNCHANGED <<req, ret, reply, calls, quiet, taVars, linkVars>>

\* Another process connects to the port.
RivalConnects ==
  /\ rival = "none"
  /\ rival' = "pending"
  /\ UNCHANGED <<clientVars, taVars, conn, port, held, back>>

---------------------------------------------------------------------------
(* The trusted application: wait_any hands an event to p_func.             *)

Waits(handler) == ta = "wait" /\ p_func = handler

\* The end of trusty_accept: the assignment is to the parameter.
Switch == p_func' = IF ByReference THEN "trusty_router" ELSE p_func

Accept ==
  /\ Waits("trusty_accept")
  /\ conn = "pending"
  /\ conn' = "open"
  /\ Switch
  /\ UNCHANGED <<clientVars, ta, gin, runs, rival, port, held, back>>

AcceptRival ==
  /\ Waits("trusty_accept")
  /\ rival = "pending"
  /\ rival' = "open"
  /\ Switch
  /\ UNCHANGED <<clientVars, ta, gin, runs, conn, port, held, back>>

\* accept() fails: the connection is refused, the handler stays.
AcceptFails ==
  /\ Waits("trusty_accept")
  /\ "accept" \in Failures
  /\ conn = "pending"
  /\ conn' = "refused"
  /\ UNCHANGED <<clientVars, taVars, rival, port, held, back>>

Message == Waits("trusty_router") /\ port # NoRequest /\ ~held

\* Mutation: the message is read but left to be signalled again.
TakeTwice ==
  /\ Message
  /\ gin' = port
  /\ ta' = "run"
  /\ UNCHANGED <<clientVars, p_func, runs, linkVars>>

\* trusty_router up to ta_router: get_msg, read_msg into g_in, put_msg.
Take ==
  /\ Message
  /\ gin' = port
  /\ port' = NoRequest
  /\ ta' = "run"
  /\ UNCHANGED <<clientVars, p_func, runs, conn, rival, held, back>>

\* The handler has no use for the event, or get_msg fails: nothing changes, and
\* the event will come again.
Ignore ==
  /\ \/ Waits("trusty_accept") /\ port # NoRequest
     \/ Waits("trusty_router") /\ "pending" \in {conn, rival}
     \/ Message /\ "get_msg" \in Failures
  /\ UNCHANGED vars

\* read_msg or put_msg fails: trusty_router returns and the message keeps the
\* buffer.
TakeFails ==
  /\ Message
  /\ Failures \intersect {"read_msg", "put_msg"} # {}
  /\ gin' \in {gin, port}
  /\ held' = TRUE
  /\ UNCHANGED <<clientVars, ta, p_func, runs, conn, rival, port, back>>

\* ta_router runs the command.
Run ==
  /\ ta = "run"
  /\ runs' = [runs EXCEPT ![gin] = @ + 1]
  /\ ta' = "send"
  /\ UNCHANGED <<clientVars, p_func, gin, linkVars>>

Send ==
  /\ ta = "send"
  /\ back' = Append(back, gin)
  /\ ta' = "wait"
  /\ UNCHANGED <<clientVars, p_func, gin, runs, conn, rival, port, held>>

SendFails ==
  /\ ta = "send"
  /\ "send_msg" \in Failures
  /\ ta' = "wait"
  /\ UNCHANGED <<clientVars, p_func, gin, runs, linkVars>>

\* wait_any reports an error: main breaks out of the loop and the TA is gone,
\* with it the channel.
WaitFails ==
  /\ ta = "wait"
  /\ "wait_any" \in Failures
  /\ ta' = "dead"
  /\ conn' = IF conn = "pending" THEN "refused"
             ELSE IF conn = "open" THEN "closed" ELSE conn
  /\ UNCHANGED <<clientVars, p_func, gin, runs, rival, port, held, back>>

ClientStep(t) ==
  \/ Lock(t) \/ Write(t) \/ WriteFails(t) \/ Read(t) \/ ReadFails(t)
  \/ Unlock(t)

TaStep ==
  \/ Accept \/ AcceptRival \/ AcceptFails
  \/ Take \/ TakeFails \/ Run \/ Send \/ SendFails \/ WaitFails

\* No connection, or all calls made and answered: the process may end.
Done ==
  /\ conn = "refused" \/ calls = MaxCalls
  /\ \A t \in Threads : pc[t] = "idle"
  /\ UNCHANGED vars

Next ==
  \/ \E t \in Threads : Call(t) \/ ClientStep(t)
  \/ RivalConnects \/ TaStep \/ Ignore \/ Done

Spec == Init /\ [][Next]_vars

\* Threads inside trusty_cmd are scheduled, and so is the TA: it takes up each
\* kind of event that stays pending.
Fairness ==
  /\ \A t \in Threads : WF_vars(ClientStep(t))
  /\ WF_vars(Accept \/ AcceptFails) /\ WF_vars(AcceptRival)
  /\ WF_vars(Take \/ TakeFails) /\ WF_vars(Run) /\ WF_vars(Send \/ SendFails)

FairSpec == Spec /\ Fairness

---------------------------------------------------------------------------
(* Properties.                                                             *)

\* A call that took the mutex over a quiet channel and returns 0 carries the
\* answer to its own request: only a reply that an interrupted read left behind
\* can be taken for another.
QuietCallGetsOwnReply ==
  \A t \in Threads :
    pc[t] = "unlock" /\ ret[t] = "ok" /\ quiet[t] => reply[t] = req[t]

\* As long as no read is interrupted, no failure on either side makes a call
\* return the answer to another.
OkCallGetsOwnReply ==
  \A t \in Threads : pc[t] = "unlock" /\ ret[t] = "ok" => reply[t] = req[t]

Waiting(r) == \E t \in Threads : pc[t] = "read" /\ req[t] = r

\* As long as no read is interrupted and the channel is open, a request is in
\* the buffer, in a command function or on its way back only while its caller
\* waits for it.
ServedWhileOpen ==
  conn = "open" =>
    /\ port # NoRequest => Waiting(port)
    /\ ta \in {"run", "send"} => Waiting(gin)
    /\ \A i \in DOMAIN back : Waiting(back[i])

\* A reader whose message the trusted application could not take, or whose
\* answer it could not send: read() has no timeout and waits for good.
LostItsAnswer(t) ==
  /\ pc[t] = "read"
  /\ conn = "open"
  /\ held \/ (port = NoRequest /\ ta = "wait" /\ back = <<>>)

\* Every call returns, also over a channel that is closed, refuses a write or
\* shares the trusted application with another client; unless the exchange of
\* one caller lost its message or its answer, which holds up all callers.
EveryCallReturns ==
  \A t \in Threads :
    pc[t] = "lock" ~> (pc[t] = "idle" \/ \E u \in Threads : LostItsAnswer(u))

\* With the assignment taking effect and no read interrupted, the channel is
\* the abstract command operation, whatever else fails.
Call_Abstract == INSTANCE TeeCall WITH
  stage <- [t \in Threads |-> IF pc[t] = "idle" THEN "idle" ELSE "called"],
  answer <- [t \in Threads |->
               IF pc[t] = "idle" /\ ret[t] = "ok" THEN reply[t] ELSE NoRequest]

ImplementsTeeCall == Call_Abstract!Spec
=============================================================================
