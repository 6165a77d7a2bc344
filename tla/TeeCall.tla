------------------------------ MODULE TeeCall ------------------------------
(***************************************************************************)
(* What the command operation of the HAL promises, whatever TEE carries    *)
(* it: `tee_cmd(dev, in, out)` of struct tee_client_device.  A call hands  *)
(* one request over; the trusted application runs it at most once, and     *)
(* only while the call is open; the call then returns 0 with the answer to *)
(* that very request, or an error code with no promise about `out`.        *)
(* tee_test.c uses it in this way: random_test charges out->status to the  *)
(* command it has just put in g_in.                                        *)
(***************************************************************************)
EXTENDS Naturals

CONSTANTS
  Threads,   \* the callers of tee_cmd on one device
  MaxCalls   \* bound: calls made in a behaviour; request r is the r-th call

VARIABLES
  calls,     \* calls made so far
  stage,     \* stage[t]: is thread t inside tee_cmd
  req,       \* req[t]: the request of t's current or last call
  runs,      \* runs[r]: how often request r was handed to a command function
  answer     \* answer[t]: the request whose answer t's last call returned

vars == <<calls, stage, req, runs, answer>>

Requests == 1 .. MaxCalls
NoRequest == 0                       \* no answer: open, or returned an error
Contents == {NoRequest} \union Requests

TypeOK ==
  /\ calls \in Contents
  /\ stage \in [Threads -> {"idle", "called"}]
  /\ req \in [Threads -> Contents]
  /\ runs \in [Contents -> Nat]
  /\ answer \in [Threads -> Contents]

Init ==
  /\ calls = 0
  /\ stage = [t \in Threads |-> "idle"]
  /\ req = [t \in Threads |-> NoRequest]
  /\ runs = [r \in Contents |-> 0]
  /\ answer = [t \in Threads |-> NoRequest]

Call(t) ==
  /\ stage[t] = "idle"
  /\ calls < MaxCalls
  /\ calls' = calls + 1
  /\ stage' = [stage EXCEPT ![t] = "called"]
  /\ req' = [req EXCEPT ![t] = calls + 1]
  /\ answer' = [answer EXCEPT ![t] = NoRequest]
  /\ UNCHANGED runs

\* The trusted application takes up the request of an open call, once.
Serve(t) ==
  /\ stage[t] = "called"
  /\ runs[req[t]] = 0
  /\ runs' = [runs EXCEPT ![req[t]] = 1]
  /\ UNCHANGED <<calls, stage, req, answer>>

ReturnOk(t) ==
  /\ stage[t] = "called"
  /\ runs[req[t]] = 1
  /\ stage' = [stage EXCEPT ![t] = "idle"]
  /\ answer' = [answer EXCEPT ![t] = req[t]]
  /\ UNCHANGED <<calls, req, runs>>

ReturnError(t) ==
  /\ stage[t] = "called"
  /\ stage' = [stage EXCEPT ![t] = "idle"]
  /\ UNCHANGED <<calls, req, runs, answer>>

Next ==
  \E t \in Threads : Call(t) \/ Serve(t) \/ ReturnOk(t) \/ ReturnError(t)

Spec == Init /\ [][Next]_vars

=============================================================================
