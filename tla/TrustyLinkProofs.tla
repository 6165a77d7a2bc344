-------------------------- MODULE TrustyLinkProofs --------------------------
(***************************************************************************)
(* For any number of threads and calls, and whatever fails: a request runs *)
(* once at most, its answer reaches one call at most, and a call that      *)
(* found the channel quiet and returns 0 has the answer to its own.  When  *)
(* every answer is sent, no other call has, and after one interrupted read *)
(* none ever has again.  As long as no read is interrupted every call that *)
(* returns 0 has, and the channel implements TeeCall.                      *)
(***************************************************************************)
EXTENDS TrustyLink, TLAPS

---------------------------------------------------------------------------
(* What holds whatever fails.                                              *)

\* The thread between lock and unlock, and no other, holds the mutex.
Exclusion == \A t \in Threads : pc[t] \in Critical <=> mutex = t

\* A request belongs to one call and runs once at most, not before it is asked.
Numbered ==
  /\ \A t \in Threads : req[t] <= calls /\ (pc[t] # "idle" => req[t] # NoRequest)
  /\ \A t, u \in Threads : t # u /\ req[t] = req[u] => req[t] = NoRequest
  /\ \A r \in Requests : runs[r] <= 1 /\ (calls < r => runs[r] = 0)

\* A request that has not been run is in one place: with its caller, in the
\* buffer, or in ta_router; what the buffer or ta_router holds has been asked.
OnePlace ==
  /\ port # NoRequest => port <= calls /\ runs[port] = 0
  /\ ta \in {"run", "send"} => gin \in Requests /\ gin <= calls
  /\ ta = "run" => runs[gin] = 0 /\ gin # port
  /\ \A t \in Threads : pc[t] \in {"lock", "write"} =>
       /\ runs[req[t]] = 0 /\ req[t] # port
       /\ ta \in {"run", "send"} => req[t] # gin

Base == TypeOK /\ Exclusion /\ Numbered /\ OnePlace

LEMMA InitBase == Init => Base
<1> SUFFICES ASSUME Init PROVE Base
  OBVIOUS
<1>1. TypeOK
  <2>1. back \in Seq(Requests)
    BY DEF Init
  <2>2. held \in BOOLEAN /\ quiet \in [Threads -> BOOLEAN]
    BY DEF Init
  <2>3. /\ req \in [Threads -> Contents] /\ reply \in [Threads -> Contents]
        /\ calls \in Contents /\ port \in Contents /\ gin \in Contents
        /\ runs \in [Contents -> Nat]
    BY MaxCallsAssumption DEF Init, Contents, NoRequest
  <2>4. /\ pc \in [Threads -> {"idle", "lock"} \union Critical]
        /\ mutex \in Threads \union {NoThread}
        /\ ret \in [Threads -> {"none", "ok", "err"}]
        /\ conn \in {"pending", "refused", "open", "closed"}
        /\ rival \in {"none", "pending", "open"}
        /\ ta \in {"wait", "run", "send", "dead"}
        /\ p_func \in {"trusty_accept", "trusty_router"}
    BY DEF Init
  <2> QED
    BY <2>1, <2>2, <2>3, <2>4 DEF TypeOK
<1>2. Exclusion
  BY NoThreadAssumption DEF Init, Exclusion, Critical
<1>3. Numbered
  BY MaxCallsAssumption DEF Init, Numbered, NoRequest, Requests, Contents
<1>4. OnePlace
  BY DEF Init, OnePlace
<1> QED
  BY <1>1, <1>2, <1>3, <1>4 DEF Base

\* Each action keeps the types, the exclusion, the numbers and the places.
LEMMA NextBase == Base /\ [Next]_vars => Base'
<1> SUFFICES ASSUME Base, [Next]_vars PROVE Base'
  OBVIOUS
<1> USE NoThreadAssumption, MaxCallsAssumption
    DEF Base, TypeOK, Contents, Requests, NoRequest, clientVars, taVars, linkVars
<1>1. ASSUME NEW t \in Threads, Call(t) PROVE Base'
  <2>1. TypeOK'
    BY <1>1 DEF Call, Critical
  <2>2. Exclusion'
    BY <1>1 DEF Call, Exclusion, Critical
  <2>3. Numbered'
    BY <1>1 DEF Call, Numbered
  <2>4. OnePlace'
    BY <1>1 DEF Call, Numbered, OnePlace
  <2> QED
    BY <2>1, <2>2, <2>3, <2>4
<1>2. ASSUME NEW t \in Threads, Lock(t) PROVE Base'
  <2>1. TypeOK'
    BY <1>2 DEF Lock, Quiet, Critical
  <2>2. Exclusion'
    BY <1>2 DEF Lock, Quiet, Exclusion, Critical
  <2>3. Numbered'
    BY <1>2 DEF Lock, Quiet, Numbered
  <2>4. OnePlace'
    BY <1>2 DEF Lock, Quiet, Numbered, OnePlace
  <2> QED
    BY <2>1, <2>2, <2>3, <2>4
<1>3. ASSUME NEW t \in Threads, Write(t) PROVE Base'
  <2>1. TypeOK'
    BY <1>3 DEF Write, Critical
  <2>2. Exclusion'
    BY <1>3 DEF Write, Exclusion, Critical
  <2>3. Numbered'
    BY <1>3 DEF Write, Numbered
  <2>4. OnePlace'
    BY <1>3 DEF Write, Numbered, OnePlace
  <2> QED
    BY <2>1, <2>2, <2>3, <2>4
<1>4. ASSUME NEW t \in Threads, WriteFails(t) PROVE Base'
  <2>1. TypeOK'
    BY <1>4 DEF WriteFails, Fail, Critical
  <2>2. Exclusion'
    BY <1>4 DEF WriteFails, Fail, Exclusion, Critical
  <2>3. Numbered'
    BY <1>4 DEF WriteFails, Fail, Numbered
  <2>4. OnePlace'
    BY <1>4 DEF WriteFails, Fail, Numbered, OnePlace
  <2> QED
    BY <2>1, <2>2, <2>3, <2>4
<1>5. ASSUME NEW t \in Threads, Read(t) PROVE Base'
  <2>a. Head(back) \in Requests /\ Tail(back) \in Seq(Requests)
    BY <1>5 DEF Read
  <2>1. TypeOK'
    BY <1>5, <2>a DEF Read, Critical
  <2>2. Exclusion'
    BY <1>5, <2>a DEF Read, Exclusion, Critical
  <2>3. Numbered'
    BY <1>5, <2>a DEF Read, Numbered
  <2>4. OnePlace'
    BY <1>5, <2>a DEF Read, Numbered, OnePlace
  <2> QED
    BY <2>1, <2>2, <2>3, <2>4
<1>6. ASSUME NEW t \in Threads, ReadFails(t) PROVE Base'
  <2>1. TypeOK'
    BY <1>6 DEF ReadFails, Fail, Critical
  <2>2. Exclusion'
    BY <1>6 DEF ReadFails, Fail, Exclusion, Critical
  <2>3. Numbered'
    BY <1>6 DEF ReadFails, Fail, Numbered
  <2>4. OnePlace'
    BY <1>6 DEF ReadFails, Fail, Numbered, OnePlace
  <2> QED
    BY <2>1, <2>2, <2>3, <2>4
<1>7. ASSUME NEW t \in Threads, Unlock(t) PROVE Base'
  <2>1. TypeOK'
    BY <1>7 DEF Unlock, Critical
  <2>2. Exclusion'
    BY <1>7 DEF Unlock, Exclusion, Critical
  <2>3. Numbered'
    BY <1>7 DEF Unlock, Numbered
  <2>4. OnePlace'
    BY <1>7 DEF Unlock, Numbered, OnePlace
  <2> QED
    BY <2>1, <2>2, <2>3, <2>4
<1>8. CASE RivalConnects
  <2>1. TypeOK'
    BY <1>8 DEF RivalConnects, Critical
  <2>2. Exclusion'
    BY <1>8 DEF RivalConnects, Exclusion, Critical
  <2>3. Numbered'
    BY <1>8 DEF RivalConnects, Numbered
  <2>4. OnePlace'
    BY <1>8 DEF RivalConnects, Numbered, OnePlace
  <2> QED
    BY <2>1, <2>2, <2>3, <2>4
<1>9. CASE Accept
  <2>1. TypeOK'
    BY <1>9 DEF Accept, Waits, Switch, Critical
  <2>2. Exclusion'
    BY <1>9 DEF Accept, Waits, Switch, Exclusion, Critical
  <2>3. Numbered'
    BY <1>9 DEF Accept, Waits, Switch, Numbered
  <2>4. OnePlace'
    BY <1>9 DEF Accept, Waits, Switch, Numbered, OnePlace
  <2> QED
    BY <2>1, <2>2, <2>3, <2>4
<1>10. CASE AcceptRival
  <2>1. TypeOK'
    BY <1>10 DEF AcceptRival, Waits, Switch, Critical
  <2>2. Exclusion'
    BY <1>10 DEF AcceptRival, Waits, Switch, Exclusion, Critical
  <2>3. Numbered'
    BY <1>10 DEF AcceptRival, Waits, Switch, Numbered
  <2>4. OnePlace'
    BY <1>10 DEF AcceptRival, Waits, Switch, Numbered, OnePlace
  <2> QED
    BY <2>1, <2>2, <2>3, <2>4
<1>11. CASE AcceptFails
  <2>1. TypeOK'
    BY <1>11 DEF AcceptFails, Waits, Critical
  <2>2. Exclusion'
    BY <1>11 DEF AcceptFails, Waits, Exclusion, Critical
  <2>3. Numbered'
    BY <1>11 DEF AcceptFails, Waits, Numbered
  <2>4. OnePlace'
    BY <1>11 DEF AcceptFails, Waits, Numbered, OnePlace
  <2> QED
    BY <2>1, <2>2, <2>3, <2>4
<1>12. CASE Take
  <2>1. TypeOK'
    BY <1>12 DEF Take, Message, Waits, Critical
  <2>2. Exclusion'
    BY <1>12 DEF Take, Message, Waits, Exclusion, Critical
  <2>3. Numbered'
    BY <1>12 DEF Take, Message, Waits, Numbered
  <2>4. OnePlace'
    BY <1>12 DEF Take, Message, Waits, Numbered, OnePlace
  <2> QED
    BY <2>1, <2>2, <2>3, <2>4
<1>13. CASE TakeFails
  <2>1. TypeOK'
    BY <1>13 DEF TakeFails, Message, Waits, Critical
  <2>2. Exclusion'
    BY <1>13 DEF TakeFails, Message, Waits, Exclusion, Critical
  <2>3. Numbered'
    BY <1>13 DEF TakeFails, Message, Waits, Numbered
  <2>4. OnePlace'
    BY <1>13 DEF TakeFails, Message, Waits, Numbered, OnePlace
  <2> QED
    BY <2>1, <2>2, <2>3, <2>4
<1>14. CASE Run
  <2>1. TypeOK'
    BY <1>14 DEF Run, Critical, OnePlace
  <2>2. Exclusion'
    BY <1>14 DEF Run, Exclusion, Critical
  <2>3. Numbered'
    BY <1>14 DEF Run, Numbered, OnePlace
  <2>4. OnePlace'
    BY <1>14 DEF Run, Numbered, OnePlace
  <2> QED
    BY <2>1, <2>2, <2>3, <2>4
<1>15. CASE Send
  <2>a. back' \in Seq(Requests)
    BY <1>15 DEF Send, OnePlace
  <2>1. TypeOK'
    BY <1>15, <2>a DEF Send, Critical
  <2>2. Exclusion'
    BY <1>15, <2>a DEF Send, Exclusion, Critical
  <2>3. Numbered'
    BY <1>15, <2>a DEF Send, Numbered
  <2>4. OnePlace'
    BY <1>15, <2>a DEF Send, Numbered, OnePlace
  <2> QED
    BY <2>1, <2>2, <2>3, <2>4
<1>16. CASE SendFails
  <2>1. TypeOK'
    BY <1>16 DEF SendFails, Critical
  <2>2. Exclusion'
    BY <1>16 DEF SendFails, Exclusion, Critical
  <2>3. Numbered'
    BY <1>16 DEF SendFails, Numbered
  <2>4. OnePlace'
    BY <1>16 DEF SendFails, Numbered, OnePlace
  <2> QED
    BY <2>1, <2>2, <2>3, <2>4
<1>17. CASE WaitFails
  <2>1. TypeOK'
    BY <1>17 DEF WaitFails, Critical
  <2>2. Exclusion'
    BY <1>17 DEF WaitFails, Exclusion, Critical
  <2>3. Numbered'
    BY <1>17 DEF WaitFails, Numbered
  <2>4. OnePlace'
    BY <1>17 DEF WaitFails, Numbered, OnePlace
  <2> QED
    BY <2>1, <2>2, <2>3, <2>4
<1>18. CASE Ignore \/ Done \/ UNCHANGED vars
  <2>1. UNCHANGED vars
    BY <1>18 DEF Ignore, Done
  <2> QED
    BY <2>1 DEF vars, Exclusion, Numbered, OnePlace
<1> QED
  BY <1>1, <1>2, <1>3, <1>4, <1>5, <1>6, <1>7, <1>8, <1>9,
     <1>10, <1>11, <1>12, <1>13, <1>14, <1>15, <1>16, <1>17, <1>18
  DEF Next, ClientStep, TaStep

LEMMA BaseInvariant == Spec => []Base
<1>1. Init => Base
  BY InitBase
<1>2. Base /\ [Next]_vars => Base'
  BY NextBase
<1> QED
  BY <1>1, <1>2, PTL DEF Spec

\* A request reaches a command function at most once, also when get_msg has to
\* be repeated.
RunAtMostOnce == \A r \in Requests : runs[r] <= 1

\* Nothing that fails, not even an interrupted read that leaves a request or an
\* answer behind, makes the trusted application run a request again.
THEOREM NoSecondRun == Spec => []RunAtMostOnce
<1>1. Base => RunAtMostOnce
  BY DEF Base, Numbered, RunAtMostOnce
<1> QED
  BY <1>1, BaseInvariant, PTL

---------------------------------------------------------------------------
(* The calls that find the channel quiet.                                  *)

\* Where the request of a thread in read() is: in the buffer, in ta_router, run,
\* on its way back, or lost with its answer.
InBuffer(t) ==
  /\ port = req[t] /\ ta \in {"wait", "dead"}
  /\ back = <<>> /\ runs[req[t]] = 0
Taken(t) ==
  /\ port = NoRequest /\ ta = "run" /\ gin = req[t]
  /\ back = <<>> /\ runs[req[t]] = 0
HasRun(t) ==
  /\ port = NoRequest /\ ta = "send" /\ gin = req[t]
  /\ back = <<>> /\ runs[req[t]] = 1
Coming(t) ==
  /\ port = NoRequest /\ ta \in {"wait", "dead"}
  /\ back = <<req[t]>> /\ runs[req[t]] = 1
Gone == port = NoRequest /\ ta \in {"wait", "dead"} /\ back = <<>>

Somewhere(t) == InBuffer(t) \/ Taken(t) \/ HasRun(t) \/ Coming(t) \/ Gone

\* From Lock on, the channel carries the request of a quiet call and nothing
\* else: nobody else writes or reads until it unlocks.
Alone ==
  \A t \in Threads : quiet[t] =>
    /\ pc[t] = "write" => Quiet
    /\ pc[t] = "read" => Somewhere(t)
    /\ pc[t] = "unlock" /\ ret[t] = "ok" => reply[t] = req[t]

LEMMA InitAlone == Init => Alone
BY DEF Init, Alone

LEMMA NextAlone == Base /\ Alone /\ [Next]_vars => Alone'
<1> SUFFICES ASSUME Base, Alone, [Next]_vars PROVE Alone'
  OBVIOUS
<1> USE NoThreadAssumption, MaxCallsAssumption
    DEF Base, TypeOK, Contents, Requests, NoRequest, clientVars, taVars, linkVars
<1>1. ASSUME NEW t \in Threads, Call(t) PROVE Alone'
  BY <1>1 DEF Call, Quiet, Exclusion, Critical, Numbered, OnePlace, Alone,
     Somewhere, InBuffer, Taken, HasRun, Coming, Gone
<1>2. ASSUME NEW t \in Threads, Lock(t) PROVE Alone'
  BY <1>2 DEF Lock, Quiet, Exclusion, Critical, Numbered, OnePlace, Alone,
     Somewhere, InBuffer, Taken, HasRun, Coming, Gone
<1>3. ASSUME NEW t \in Threads, Write(t) PROVE Alone'
  BY <1>3 DEF Write, Quiet, Exclusion, Critical, Numbered, OnePlace, Alone,
     Somewhere, InBuffer, Taken, HasRun, Coming, Gone
<1>4. ASSUME NEW t \in Threads, WriteFails(t) PROVE Alone'
  BY <1>4 DEF WriteFails, Fail, Quiet, Exclusion, Critical, Numbered, OnePlace, Alone,
     Somewhere, InBuffer, Taken, HasRun, Coming, Gone
<1>5. ASSUME NEW t \in Threads, Read(t) PROVE Alone'
  BY <1>5 DEF Read, Quiet, Exclusion, Critical, Numbered, OnePlace, Alone,
     Somewhere, InBuffer, Taken, HasRun, Coming, Gone
<1>6. ASSUME NEW t \in Threads, ReadFails(t) PROVE Alone'
  BY <1>6 DEF ReadFails, Fail, Quiet, Exclusion, Critical, Numbered, OnePlace, Alone,
     Somewhere, InBuffer, Taken, HasRun, Coming, Gone
<1>7. ASSUME NEW t \in Threads, Unlock(t) PROVE Alone'
  BY <1>7 DEF Unlock, Quiet, Exclusion, Critical, Numbered, OnePlace, Alone,
     Somewhere, InBuffer, Taken, HasRun, Coming, Gone
<1>8. CASE RivalConnects
  BY <1>8 DEF RivalConnects, Quiet, Numbered, OnePlace, Alone,
     Somewhere, InBuffer, Taken, HasRun, Coming, Gone
<1>9. CASE Accept
  BY <1>9 DEF Accept, Waits, Switch, Quiet, Numbered, OnePlace, Alone,
     Somewhere, InBuffer, Taken, HasRun, Coming, Gone
<1>10. CASE AcceptRival
  BY <1>10 DEF AcceptRival, Waits, Switch, Quiet, Numbered, OnePlace, Alone,
     Somewhere, InBuffer, Taken, HasRun, Coming, Gone
<1>11. CASE AcceptFails
  BY <1>11 DEF AcceptFails, Waits, Quiet, Numbered, OnePlace, Alone,
     Somewhere, InBuffer, Taken, HasRun, Coming, Gone
<1>12. CASE Take
  BY <1>12 DEF Take, Message, Waits, Quiet, Numbered, OnePlace, Alone,
     Somewhere, InBuffer, Taken, HasRun, Coming, Gone
<1>13. CASE TakeFails
  BY <1>13 DEF TakeFails, Message, Waits, Quiet, Numbered, OnePlace, Alone,
     Somewhere, InBuffer, Taken, HasRun, Coming, Gone
<1>14. CASE Run
  BY <1>14 DEF Run, Quiet, Numbered, OnePlace, Alone,
     Somewhere, InBuffer, Taken, HasRun, Coming, Gone
<1>15. CASE Send
  <2>1. back = <<>> => back' = <<gin>>
    BY <1>15 DEF Send
  <2>2. /\ ta = "send" /\ ta' = "wait"
        /\ UNCHANGED <<pc, req, ret, reply, quiet, port, gin, runs>>
    BY <1>15 DEF Send
  <2> QED
    BY <2>1, <2>2 DEF Quiet, Alone, Somewhere, InBuffer, Taken, HasRun, Coming, Gone
<1>16. CASE SendFails
  BY <1>16 DEF SendFails, Quiet, Numbered, OnePlace, Alone,
     Somewhere, InBuffer, Taken, HasRun, Coming, Gone
<1>17. CASE WaitFails
  BY <1>17 DEF WaitFails, Quiet, Numbered, OnePlace, Alone,
     Somewhere, InBuffer, Taken, HasRun, Coming, Gone
<1>18. CASE Ignore \/ Done \/ UNCHANGED vars
  <2>1. UNCHANGED vars
    BY <1>18 DEF Ignore, Done
  <2> QED
    BY <2>1 DEF vars, Alone, Quiet, Somewhere, InBuffer, Taken, HasRun, Coming, Gone
<1> QED
  BY <1>1, <1>2, <1>3, <1>4, <1>5, <1>6, <1>7, <1>8, <1>9,
     <1>10, <1>11, <1>12, <1>13, <1>14, <1>15, <1>16, <1>17, <1>18
  DEF Next, ClientStep, TaStep

\* Also with reads interrupted: a call that found nothing of an earlier one
\* under way and returns 0 has its own answer, for any number of threads
\* (TrustyLink.QuietCallGetsOwnReply).
THEOREM QuietCallOwnReply == Spec => []QuietCallGetsOwnReply
<1>1. Init => Base /\ Alone
  BY InitBase, InitAlone
<1>2. Base /\ Alone /\ [Next]_vars => Base' /\ Alone'
  BY NextBase, NextAlone
<1>3. Base /\ Alone => QuietCallGetsOwnReply
  BY DEF Alone, QuietCallGetsOwnReply
<1> QED
  BY <1>1, <1>2, <1>3, PTL DEF Spec

---------------------------------------------------------------------------
(* An answer is delivered once.                                            *)

\* Whatever fails, no two calls return the answer to one request, and what a
\* call returns is the answer to a request that has run: an answer that an
\* interrupted read leaves in the channel is taken up once, by one caller.
AnswerOnce ==
  \A t \in Threads : reply[t] # NoRequest =>
    /\ runs[reply[t]] = 1
    /\ \A u \in Threads \ {t} : reply[u] # reply[t]

\* What is on its way back has run, is there once, and has not been delivered;
\* and so has what the trusted application is about to send.
Once ==
  /\ AnswerOnce
  /\ \A i \in 1 .. Len(back) :
       /\ runs[back[i]] = 1
       /\ \A j \in 1 .. Len(back) : i # j => back[i] # back[j]
       /\ \A t \in Threads : reply[t] # back[i]
       /\ ta = "send" => back[i] # gin
  /\ ta = "send" => runs[gin] = 1 /\ \A t \in Threads : reply[t] # gin

LEMMA NextOnce == Base /\ Once /\ [Next]_vars => Once'
<1> SUFFICES ASSUME Base, Once, [Next]_vars PROVE Once'
  OBVIOUS
<1> USE MaxCallsAssumption
    DEF Base, TypeOK, Contents, Requests, NoRequest, clientVars, taVars, linkVars
<1>1. CASE UNCHANGED <<reply, back, ta, gin, runs>>
  BY <1>1 DEF Once, AnswerOnce
<1>2. ASSUME NEW t \in Threads, Call(t) \/ ClientStep(t), ~Read(t)
      PROVE  UNCHANGED <<reply, back, ta, gin, runs>>
  BY <1>2 DEF Call, ClientStep, Lock, Write, WriteFails, ReadFails, Unlock, Fail
<1>3. ASSUME NEW t \in Threads, Read(t) PROVE Once'
  <2>1. /\ back # <<>> /\ back' = Tail(back)
        /\ reply' = [reply EXCEPT ![t] = back[1]]
        /\ UNCHANGED <<ta, gin, runs>>
    BY <1>3 DEF Read
  <2>2. /\ Len(back) \in Nat /\ 1 \in 1 .. Len(back)
        /\ Len(back') = Len(back) - 1
        /\ \A i \in 1 .. Len(back') :
             /\ back'[i] = back[i + 1]
             /\ i + 1 \in 1 .. Len(back) /\ i + 1 # 1
    BY <2>1
  <2>3. \A u \in Threads : reply'[u] = IF u = t THEN back[1] ELSE reply[u]
    BY <2>1
  <2>4. back[1] \in Requests
    BY <2>2
  <2>5. AnswerOnce'
    BY <2>1, <2>2, <2>3, <2>4 DEF Once, AnswerOnce
  <2>6. ASSUME NEW i \in 1 .. Len(back')
        PROVE  /\ runs'[back'[i]] = 1
               /\ \A j \in 1 .. Len(back') : i # j => back'[i] # back'[j]
               /\ \A u \in Threads : reply'[u] # back'[i]
               /\ ta' = "send" => back'[i] # gin'
    BY <2>1, <2>2, <2>3 DEF Once
  <2>7. ta' = "send" => runs'[gin'] = 1 /\ \A u \in Threads : reply'[u] # gin'
    BY <2>1, <2>2, <2>3 DEF Once
  <2> QED
    BY <2>5, <2>6, <2>7 DEF Once
<1>4. CASE Take \/ TakeFails
  BY <1>4 DEF Take, TakeFails, Message, Waits, Once, AnswerOnce
<1>5. CASE Run
  <2>a. runs[gin] = 0 /\ gin \in Requests
    BY <1>5 DEF Run, OnePlace
  <2>1. /\ runs[gin] = 0 /\ gin \in Requests
        /\ runs' = [runs EXCEPT ![gin] = 1]
        /\ UNCHANGED <<reply, back, gin>>
    BY <1>5, <2>a DEF Run
  <2>2. \A t \in Threads : reply[t] # NoRequest => reply[t] # gin
    BY <2>1 DEF Once, AnswerOnce
  <2>3. ASSUME NEW i \in 1 .. Len(back) PROVE back[i] # gin
    <3>1. runs[back[i]] = 1
      BY DEF Once
    <3> QED
      BY <2>a, <3>1
  <2>4. AnswerOnce'
    BY <2>1, <2>2 DEF Once, AnswerOnce
  <2> QED
    BY <2>1, <2>2, <2>3, <2>4 DEF Once
<1>6. CASE Send
  <2>1. /\ ta = "send" /\ ta' = "wait" /\ back' = Append(back, gin)
        /\ gin \in Requests /\ UNCHANGED <<reply, gin, runs>>
    BY <1>6 DEF Send, OnePlace
  <2>2. /\ Len(back') = Len(back) + 1 /\ Len(back) \in Nat
        /\ \A i \in 1 .. Len(back') :
             back'[i] = IF i = Len(back') THEN gin ELSE back[i]
    BY <2>1
  <2>3. AnswerOnce'
    BY <2>1 DEF Once, AnswerOnce
  <2>4. ASSUME NEW i \in 1 .. Len(back')
        PROVE  /\ runs'[back'[i]] = 1
               /\ \A j \in 1 .. Len(back') : i # j => back'[i] # back'[j]
               /\ \A t \in Threads : reply'[t] # back'[i]
    BY <2>1, <2>2 DEF Once
  <2> QED
    BY <2>1, <2>3, <2>4 DEF Once
<1>7. CASE SendFails \/ WaitFails
  BY <1>7 DEF SendFails, WaitFails, Once, AnswerOnce
<1>8. CASE RivalConnects \/ Accept \/ AcceptRival \/ AcceptFails
  BY <1>1, <1>8 DEF RivalConnects, Accept, AcceptRival, AcceptFails
<1>9. CASE Ignore \/ Done \/ UNCHANGED vars
  BY <1>1, <1>9 DEF Ignore, Done, vars
<1> QED
  BY <1>1, <1>2, <1>3, <1>4, <1>5, <1>6, <1>7, <1>8, <1>9
  DEF Next, ClientStep, TaStep

LEMMA OnceInvariant == Spec => []Once
<1>1. Init => Once
  BY DEF Init, Once, AnswerOnce
<1>2. Base /\ Once /\ [Next]_vars => Once'
  BY NextOnce
<1> QED
  BY <1>1, <1>2, BaseInvariant, PTL DEF Spec

\* Interrupted reads included, an answer reaches one caller at most, and only
\* after its request has run (AnswerOnce).
THEOREM DeliveredOnce == Spec => []AnswerOnce
<1>1. Once => AnswerOnce
  BY DEF Once
<1> QED
  BY <1>1, OnceInvariant, PTL

---------------------------------------------------------------------------
(* A channel that is out of step stays so.                                 *)

\* An answer of the trusted application is never lost on its way.
AnswersSent == "send_msg" \notin Failures

\* The requests and answers under way; those beyond the one a reader waits for
\* were left by interrupted reads.
Underway ==
  (IF port = NoRequest THEN 0 ELSE 1)
    + (IF ta \in {"run", "send"} THEN 1 ELSE 0) + Len(back)
Reading == \E t \in Threads : pc[t] = "read"
Extra == IF Reading THEN Underway - 1 ELSE Underway
OutOfStep == Extra > 0

\* The request of t is under way, behind another.
Behind(t) ==
  \/ port = req[t] /\ (ta \in {"run", "send"} \/ back # <<>>)
  \/ port = NoRequest /\ ta \in {"run", "send"} /\ gin = req[t] /\ back # <<>>
  \/ /\ port = NoRequest /\ ta \in {"wait", "dead"}
     /\ Len(back) > 1 /\ back[Len(back)] = req[t]

\* A call returns the answer to its own request just when it found the channel
\* quiet: behind a request that is still under way it takes another's answer.
OwnReplyOnlyIfQuiet ==
  \A t \in Threads :
    pc[t] = "unlock" /\ ret[t] = "ok" => (reply[t] = req[t] <=> quiet[t])

\* How far the channel is from quiet, through one call.
Shifted ==
  /\ OwnReplyOnlyIfQuiet
  /\ \A t \in Threads :
       /\ pc[t] = "write" => (quiet[t] <=> Underway = 0)
       /\ pc[t] = "read" => IF quiet[t] THEN Underway = 1 ELSE Behind(t)
       /\ pc[t] = "unlock" /\ ret[t] = "ok" => (quiet[t] <=> Underway = 0)

LEMMA UnderwayType ==
  TypeOK => Underway \in Nat /\ (Quiet <=> Underway = 0)
<1> SUFFICES ASSUME TypeOK PROVE Underway \in Nat /\ (Quiet <=> Underway = 0)
  OBVIOUS
<1>1. Len(back) \in Nat /\ (back = <<>> <=> Len(back) = 0)
  BY DEF TypeOK
<1> QED
  BY <1>1 DEF TypeOK, Underway, Quiet

LEMMA UnderwayAfter == TypeOK' => (Underway \in Nat)'
<1>1. TypeOK => Underway \in Nat
  BY UnderwayType
<1> QED
  BY <1>1, PTL

\* The trusted application passes on what is under way and loses nothing.
LEMMA TaKeeps ==
  ASSUME AnswersSent, Base, TaStep
  PROVE  /\ Underway' = Underway
         /\ UNCHANGED <<pc, req, ret, reply, quiet>>
         /\ \A t \in Threads : pc[t] = "read" /\ Behind(t) => Behind(t)'
<1> USE MaxCallsAssumption
    DEF Base, TypeOK, Contents, Requests, NoRequest, clientVars, taVars, linkVars
<1>1. UNCHANGED <<pc, req, ret, reply, quiet>>
  BY DEF TaStep, Accept, AcceptRival, AcceptFails, Take, TakeFails, Run, Send,
         SendFails, WaitFails
<1>2. CASE Accept \/ AcceptRival \/ AcceptFails
  BY <1>1, <1>2 DEF Accept, AcceptRival, AcceptFails, Underway, Behind
<1>3. CASE Take
  <2>1. /\ port # NoRequest /\ ta = "wait" /\ port' = NoRequest /\ ta' = "run"
        /\ gin' = port /\ back' = back
    BY <1>3 DEF Take, Message, Waits
  <2>2. Len(back) \in Nat
    OBVIOUS
  <2> QED
    BY <1>1, <2>1, <2>2 DEF Underway, Behind
<1>4. CASE TakeFails
  BY <1>1, <1>4 DEF TakeFails, Message, Waits, Underway, Behind
<1>5. CASE Run
  BY <1>1, <1>5 DEF Run, Underway, Behind
<1>6. CASE Send
  <2>1. /\ ta = "send" /\ ta' = "wait" /\ back' = Append(back, gin)
        /\ gin \in Requests /\ UNCHANGED <<port, gin>>
    BY <1>6 DEF Send, OnePlace
  <2>2. /\ Len(back) \in Nat /\ Len(back') = Len(back) + 1
        /\ back'[Len(back')] = gin
        /\ back' # <<>> /\ (back # <<>> => Len(back) > 0)
    BY <2>1
  <2> QED
    BY <1>1, <2>1, <2>2 DEF Underway, Behind
<1>7. CASE SendFails
  BY <1>7 DEF SendFails, AnswersSent
<1>8. CASE WaitFails
  BY <1>1, <1>8 DEF WaitFails, Underway, Behind
<1> QED
  BY <1>2, <1>3, <1>4, <1>5, <1>6, <1>7, <1>8 DEF TaStep

\* What is read behind another request is not the answer to the own one.
LEMMA ReadsAnother ==
  ASSUME Base, Once, NEW t \in Threads, Read(t), Behind(t)
  PROVE  back[1] # req[t] /\ Underway' # 0
<1> USE MaxCallsAssumption
    DEF Base, TypeOK, Contents, Requests, NoRequest, clientVars, taVars, linkVars
<1>1. /\ back # <<>> /\ back' = Tail(back) /\ pc[t] = "read"
      /\ UNCHANGED <<port, ta, gin>>
  BY DEF Read
<1>2. /\ Len(back) \in Nat /\ 1 \in 1 .. Len(back) /\ Len(back) \in 1 .. Len(back)
      /\ Len(back') = Len(back) - 1
  BY <1>1
<1>3. runs[back[1]] = 1 /\ (ta = "send" => back[1] # gin)
  BY <1>2 DEF Once
<1>4. req[t] # NoRequest
  BY <1>1 DEF Numbered
<1>5. CASE port = req[t]
  <2>1. runs[port] = 0
    BY <1>4, <1>5 DEF OnePlace
  <2> QED
    BY <1>1, <1>2, <1>3, <1>4, <1>5, <2>1 DEF Underway
<1>6. CASE port = NoRequest /\ ta \in {"run", "send"} /\ gin = req[t]
  <2>1. ta = "run" => runs[gin] = 0
    BY DEF OnePlace
  <2> QED
    BY <1>1, <1>2, <1>3, <1>6, <2>1 DEF Underway
<1>7. CASE Len(back) > 1 /\ back[Len(back)] = req[t]
  <2>1. back[1] # back[Len(back)]
    BY <1>2, <1>7 DEF Once
  <2> QED
    BY <1>1, <1>2, <1>7, <2>1 DEF Underway
<1> QED
  BY <1>5, <1>6, <1>7 DEF Behind

\* The thread that takes the mutex learns whether anything is under way.
LEMMA LockLearns ==
  ASSUME TypeOK, NEW t \in Threads, Lock(t)
  PROVE  (quiet'[t] <=> Underway = 0) /\ Underway' = Underway
<1>1. quiet \in [Threads -> BOOLEAN] /\ quiet' = [quiet EXCEPT ![t] = Quiet]
  BY DEF TypeOK, Lock
<1>2. quiet'[t] <=> Quiet
  BY <1>1, Zenon
<1>3. UNCHANGED <<port, ta, back>>
  BY DEF Lock, linkVars, taVars
<1>4. Underway' = Underway
  BY <1>3 DEF Underway
<1> QED
  BY <1>2, <1>4, UnderwayType

LEMMA NextShifted ==
  ASSUME AnswersSent, Base, Alone, Alone', Once, Shifted, [Next]_vars
  PROVE  Shifted'
<1> USE NoThreadAssumption, MaxCallsAssumption
    DEF Base, TypeOK, Contents, Requests, NoRequest, clientVars, taVars, linkVars
<1>0. Underway \in Nat
  BY UnderwayType
<1>1. ASSUME NEW t \in Threads, Call(t) PROVE Shifted'
  BY <1>1 DEF Call, Shifted, OwnReplyOnlyIfQuiet, Underway, Behind
<1>2. ASSUME NEW t \in Threads, Lock(t) PROVE Shifted'
  <2>1. (quiet'[t] <=> Underway = 0) /\ Underway' = Underway
    BY <1>2, LockLearns
  <2>2. /\ pc' = [pc EXCEPT ![t] = "write"] /\ UNCHANGED <<req, ret, reply>>
        /\ \A u \in Threads : u # t => pc'[u] \notin Critical
    BY <1>2 DEF Lock, Exclusion
  <2> QED
    BY <2>1, <2>2 DEF Shifted, OwnReplyOnlyIfQuiet, Critical
<1>3. ASSUME NEW t \in Threads, Write(t) PROVE Shifted'
  <2>1. /\ pc[t] = "write" /\ pc' = [pc EXCEPT ![t] = "read"]
        /\ port = NoRequest /\ port' = req[t] /\ req[t] # NoRequest
        /\ UNCHANGED <<req, ret, reply, quiet, ta, back>>
    BY <1>3 DEF Write, Numbered
  <2>2. \A u \in Threads : u # t => pc'[u] \notin Critical
    BY <1>3 DEF Write, Exclusion, Critical
  <2>3. Underway' = Underway + 1
    BY <1>0, <2>1 DEF Underway
  <2>4. Underway # 0 => Behind(t)'
    BY <2>1 DEF Underway, Behind
  <2> QED
    BY <1>0, <2>1, <2>2, <2>3, <2>4 DEF Shifted, OwnReplyOnlyIfQuiet, Critical
<1>4. ASSUME NEW t \in Threads, Read(t) PROVE Shifted'
  <2>1. /\ pc[t] = "read" /\ pc' = [pc EXCEPT ![t] = "unlock"]
        /\ back # <<>> /\ back' = Tail(back)
        /\ reply' = [reply EXCEPT ![t] = back[1]]
        /\ ret' = [ret EXCEPT ![t] = "ok"]
        /\ UNCHANGED <<req, quiet, ta, port>>
    BY <1>4 DEF Read
  <2>2. \A u \in Threads : u # t => pc'[u] \notin Critical
    BY <1>4 DEF Read, Exclusion, Critical
  <2>3. Underway' = Underway - 1
    <3>1. Len(back') = Len(back) - 1 /\ Len(back) \in Nat
      BY <2>1
    <3> QED
      BY <2>1, <3>1 DEF Underway
  <2>4. quiet[t] => Underway' = 0 /\ reply'[t] = req'[t]
    <3>1. quiet[t] => Underway = 1
      BY <2>1 DEF Shifted
    <3>2. quiet'[t] => reply'[t] = req'[t]
      BY <2>1 DEF Alone
    <3> QED
      BY <2>1, <2>3, <3>1, <3>2
  <2>5. ~quiet[t] => Underway' # 0 /\ reply'[t] # req'[t]
    <3>1. ~quiet[t] => Behind(t)
      BY <2>1 DEF Shifted
    <3>2. ~quiet[t] => back[1] # req[t] /\ Underway' # 0
      BY <1>4, <3>1, ReadsAnother
    <3> QED
      BY <2>1, <3>2
  <2> QED
    BY <2>1, <2>2, <2>4, <2>5 DEF Shifted, OwnReplyOnlyIfQuiet, Critical
<1>5. ASSUME NEW t \in Threads, WriteFails(t) \/ ReadFails(t) \/ Unlock(t)
      PROVE  Shifted'
  <2>1. /\ pc'[t] \in {"unlock", "idle"}
        /\ pc'[t] = "unlock" => ret'[t] = "err"
        /\ \A u \in Threads : u # t => pc'[u] \notin Critical
    BY <1>5 DEF WriteFails, ReadFails, Unlock, Fail, Exclusion, Critical
  <2> QED
    BY <2>1 DEF Shifted, OwnReplyOnlyIfQuiet, Critical
<1>6. CASE TaStep
  <2>1. /\ Underway' = Underway
        /\ UNCHANGED <<pc, req, ret, reply, quiet>>
        /\ \A t \in Threads : pc[t] = "read" /\ Behind(t) => Behind(t)'
    BY <1>6, TaKeeps
  <2> QED
    BY <2>1 DEF Shifted, OwnReplyOnlyIfQuiet
<1>7. CASE RivalConnects \/ Ignore \/ Done \/ UNCHANGED vars
  <2>1. UNCHANGED <<pc, req, ret, reply, quiet, port, ta, back, gin>>
    BY <1>7 DEF RivalConnects, Ignore, Done, vars
  <2> QED
    BY <2>1 DEF Shifted, OwnReplyOnlyIfQuiet, Underway, Behind
<1> QED
  BY <1>1, <1>2, <1>3, <1>4, <1>5, <1>6, <1>7 DEF Next, ClientStep

LEMMA ShiftedInvariant == AnswersSent /\ Spec => [](Base /\ Once /\ Alone /\ Shifted)
<1> SUFFICES ASSUME AnswersSent
             PROVE  Spec => [](Base /\ Once /\ Alone /\ Shifted)
  OBVIOUS
<1>1. Init => Alone /\ Shifted
  BY InitAlone DEF Init, Shifted, OwnReplyOnlyIfQuiet
<1>2. Base /\ Once /\ Alone /\ Shifted /\ [Next]_vars => Alone' /\ Shifted'
  BY NextAlone, NextShifted
<1> QED
  BY <1>1, <1>2, BaseInvariant, OnceInvariant, PTL DEF Spec

\* The converse of QuietCallOwnReply: as long as no answer is lost on its way,
\* a call that finds anything of an earlier one under way and returns 0 has the
\* answer to another request (OwnReplyOnlyIfQuiet).
THEOREM OnlyQuietCallsMatch == AnswersSent /\ Spec => []OwnReplyOnlyIfQuiet
<1>1. Shifted => OwnReplyOnlyIfQuiet
  BY DEF Shifted
<1> QED
  BY <1>1, ShiftedInvariant, PTL

\* The only step that changes how far the channel is out of step is the read
\* that is interrupted, and it adds to it.
LEMMA ExtraGrows ==
  ASSUME AnswersSent, Base, [Next]_vars
  PROVE  Extra \in Int /\ Extra' \in Int /\ Extra' >= Extra
<1> DEFINE Grows == Extra' >= Extra
<1> USE NoThreadAssumption DEF clientVars, taVars, linkVars
<1>0. Underway \in Nat /\ pc \in [Threads -> {"idle", "lock"} \union Critical]
  BY UnderwayType DEF Base, TypeOK
<1>a. Underway' \in Nat
  <2>1. TypeOK'
    BY NextBase DEF Base
  <2> QED
    BY <2>1, UnderwayAfter
<1>b. Extra \in Int /\ Extra' \in Int
  BY <1>0, <1>a DEF Extra
<1>1. CASE Underway' = Underway /\ (Reading' <=> Reading)
  BY <1>0, <1>1 DEF Extra
<1>2. ASSUME NEW t \in Threads, Call(t) \/ Lock(t) \/ WriteFails(t) \/ Unlock(t)
      PROVE  Underway' = Underway /\ (Reading' <=> Reading)
  <2>1. UNCHANGED <<port, ta, back>>
    BY <1>2 DEF Call, Lock, WriteFails, Unlock
  <2>2. pc[t] # "read" /\ \E s \in {"lock", "write", "unlock", "idle"} :
                             pc' = [pc EXCEPT ![t] = s]
    BY <1>2 DEF Call, Lock, WriteFails, Unlock, Fail
  <2>3. \A u \in Threads : pc'[u] = "read" <=> pc[u] = "read"
    BY <1>0, <2>2
  <2> QED
    BY <2>1, <2>3 DEF Underway, Reading
<1>3. ASSUME NEW t \in Threads, Write(t) PROVE Grows
  <2>1. /\ port = NoRequest /\ port' = req[t] /\ UNCHANGED <<ta, back>>
        /\ req[t] # NoRequest
    BY <1>3 DEF Write, Base, Numbered
  <2>2. Underway' = Underway + 1
    BY <1>0, <2>1 DEF Underway
  <2> QED
    BY <1>0, <2>2 DEF Extra
<1>4. ASSUME NEW t \in Threads, Read(t) \/ ReadFails(t) PROVE Grows
  <2>1. Reading /\ ~Reading'
    BY <1>0, <1>4 DEF Read, ReadFails, Fail, Reading, Base, Exclusion, Critical
  <2>2. Underway' >= Underway - 1
    <3>1. CASE Read(t)
      <4>1. back # <<>> /\ back' = Tail(back) /\ UNCHANGED <<port, ta>>
        BY <3>1 DEF Read
      <4>2. Len(back') = Len(back) - 1 /\ Len(back) \in Nat
        BY <4>1 DEF Base, TypeOK
      <4>3. Underway' = Underway - 1
        BY <4>1, <4>2 DEF Underway
      <4> QED
        BY <1>0, <4>3
    <3>2. CASE ReadFails(t)
      <4>1. Underway' = Underway
        BY <3>2 DEF ReadFails, Underway
      <4> QED
        BY <1>0, <4>1
    <3> QED
      BY <1>4, <3>1, <3>2
  <2>3. Extra = Underway - 1
    BY <2>1 DEF Extra
  <2>4. Extra' = Underway'
    BY <2>1 DEF Extra
  <2> QED
    BY <1>0, <1>a, <1>b, <2>2, <2>3, <2>4
<1>5. CASE TaStep
  <2>1. Underway' = Underway /\ UNCHANGED pc
    BY <1>5, TaKeeps
  <2> QED
    BY <1>1, <2>1 DEF Reading
<1>6. CASE RivalConnects \/ Ignore \/ Done \/ UNCHANGED vars
  <2>1. UNCHANGED <<pc, port, ta, back>>
    BY <1>6 DEF RivalConnects, Ignore, Done, vars
  <2> QED
    BY <1>1, <2>1 DEF Underway, Reading
<1> QED
  BY <1>b, <1>1, <1>2, <1>3, <1>4, <1>5, <1>6 DEF Next, ClientStep

\* No call has the answer to its own request.
NoCallMatches ==
  \A t \in Threads : pc[t] = "unlock" /\ ret[t] = "ok" => reply[t] # req[t]

\* An interrupted read is never made up for.  Once a request or an answer is
\* under way that no reader waits for, the channel stays out of step until the
\* end, and every call from then on that returns 0 has the answer to another:
\* trusty_cmd has no way to tell, and none to drain the channel.
THEOREM OutOfStepForGood ==
  AnswersSent /\ Spec => [](OutOfStep => [](OutOfStep /\ NoCallMatches))
<1> SUFFICES ASSUME AnswersSent
             PROVE  Spec => [](OutOfStep => [](OutOfStep /\ NoCallMatches))
  OBVIOUS
<1>1. Base /\ OutOfStep /\ [Next]_vars => OutOfStep'
  <2> SUFFICES ASSUME Base, OutOfStep, [Next]_vars PROVE OutOfStep'
    OBVIOUS
  <2>1. Extra \in Int /\ Extra' \in Int /\ Extra' >= Extra
    BY ExtraGrows
  <2> QED
    BY <2>1 DEF OutOfStep
<1>2. Base /\ Shifted /\ OutOfStep => NoCallMatches
  <2> SUFFICES ASSUME Base, Shifted, OutOfStep, NEW t \in Threads,
                      pc[t] = "unlock", ret[t] = "ok"
               PROVE  reply[t] # req[t]
    BY DEF NoCallMatches
  <2>1. Underway # 0
    BY UnderwayType DEF Base, OutOfStep, Extra
  <2> QED
    BY <2>1 DEF Shifted, OwnReplyOnlyIfQuiet
<1>3. AnswersSent /\ Spec => [](Base /\ Shifted)
  BY ShiftedInvariant, PTL
<1> QED
  BY <1>1, <1>2, <1>3, BaseInvariant, PTL DEF Spec

---------------------------------------------------------------------------
(* As long as no read is interrupted.                                      *)

\* No signal handler interrupts a read().
Uninterrupted == "signal" \notin Failures

\* The channel is closed by the end of the trusted application alone; before it
\* is open nothing is called.
Ends ==
  /\ conn = "open" => ta # "dead"
  /\ conn = "closed" => ta = "dead"
  /\ conn \in {"pending", "refused"} =>
       port = NoRequest /\ ta \in {"wait", "dead"}
         /\ \A t \in Threads : pc[t] = "idle"

\* Nobody reads, and nothing is under way.
Empty ==
  (\A t \in Threads : pc[t] # "read") =>
    back = <<>> /\ (conn = "open" => port = NoRequest /\ ta = "wait")

\* What the steps of one call have done so far.
Progress(t) ==
  /\ pc[t] \in {"lock", "write"} => ret[t] = "none" /\ runs[req[t]] = 0
  /\ pc[t] = "read" =>
       /\ ret[t] = "none"
       /\ Somewhere(t)
  /\ pc[t] = "unlock" => ret[t] # "none"
  /\ pc[t] \in {"unlock", "idle"} /\ ret[t] = "ok" =>
       reply[t] = req[t] /\ runs[req[t]] = 1

IInv ==
  /\ Base
  /\ Ends
  /\ Empty
  /\ \A t \in Threads : Progress(t)

LEMMA InitIInv == Init => IInv
<1> SUFFICES ASSUME Init PROVE IInv
  OBVIOUS
<1>1. Base
  BY InitBase
<1>2. Ends /\ Empty /\ \A t \in Threads : Progress(t)
  BY DEF Init, Ends, Empty, Progress
<1> QED
  BY <1>1, <1>2 DEF IInv

\* While the trusted application is busy with a request, its caller reads.
LEMMA Served ==
  ASSUME IInv, ta \in {"run", "send"}
  PROVE  \E t \in Threads :
           /\ pc[t] = "read" /\ gin = req[t] /\ req[t] \in Requests
           /\ port = NoRequest /\ back = <<>> /\ conn = "open"
           /\ IF ta = "run" THEN Taken(t) ELSE HasRun(t)
<1>1. conn = "open"
  BY DEF IInv, Base, TypeOK, Ends
<1>2. PICK t \in Threads : pc[t] = "read"
  BY <1>1 DEF IInv, Empty
<1>3. IF ta = "run" THEN Taken(t) ELSE HasRun(t)
  BY <1>2 DEF IInv, Progress, Somewhere, InBuffer, Taken, HasRun, Coming, Gone
<1>4. req[t] \in Requests
  BY <1>2 DEF IInv, Base, TypeOK, Numbered, Contents, Requests, NoRequest
<1> QED
  BY <1>1, <1>2, <1>3, <1>4 DEF Taken, HasRun

\* The reply a read() takes is the answer to its own request.
LEMMA OwnReply ==
  ASSUME IInv, NEW t \in Threads, pc[t] = "read", back # <<>>
  PROVE  Coming(t) /\ Head(back) = req[t] /\ Tail(back) = <<>>
           /\ \A u \in Threads : u # t => pc[u] \notin Critical
<1>1. Coming(t)
  BY DEF IInv, Progress, Somewhere, InBuffer, Taken, HasRun, Coming, Gone
<1>2. \A u \in Threads : u # t => pc[u] \notin Critical
  BY DEF IInv, Base, Exclusion, Critical
<1> QED
  BY <1>1, <1>2 DEF Coming

\* Each action keeps the invariant.
LEMMA NextIInv == Uninterrupted /\ IInv /\ [Next]_vars => IInv'
<1> SUFFICES ASSUME Uninterrupted, IInv, [Next]_vars PROVE IInv'
  OBVIOUS
<1>0. Base'
  BY NextBase DEF IInv
<1> USE NoThreadAssumption, MaxCallsAssumption
    DEF IInv, Base, TypeOK, Contents, Requests, NoRequest, clientVars, taVars, linkVars
<1>1. ASSUME NEW t \in Threads, Call(t) PROVE IInv'
  <2>1. Ends' /\ Empty'
    BY <1>1 DEF Call, Ends, Empty
  <2>2. ASSUME NEW u \in Threads PROVE Progress(u)'
    BY <1>1 DEF Call, Exclusion, Critical, Numbered, Ends,
       Empty, Progress, Somewhere, InBuffer, Taken, HasRun, Coming, Gone
  <2> QED
    BY <1>0, <2>1, <2>2
<1>2. ASSUME NEW t \in Threads, Lock(t) PROVE IInv'
  <2>1. Ends' /\ Empty'
    BY <1>2 DEF Lock, Quiet, Ends, Empty, Exclusion, Critical
  <2>2. ASSUME NEW u \in Threads PROVE Progress(u)'
    BY <1>2 DEF Lock, Quiet, Exclusion, Critical, Numbered, Ends,
       Empty, Progress, Somewhere, InBuffer, Taken, HasRun, Coming, Gone
  <2> QED
    BY <1>0, <2>1, <2>2
<1>3. ASSUME NEW t \in Threads, Write(t) PROVE IInv'
  <2>1. Ends' /\ Empty'
    BY <1>3 DEF Write, Ends, Empty, Exclusion, Critical
  <2>2. ASSUME NEW u \in Threads PROVE Progress(u)'
    BY <1>3 DEF Write, Exclusion, Critical, Numbered, Ends,
       Empty, Progress, Somewhere, InBuffer, Taken, HasRun, Coming, Gone
  <2> QED
    BY <1>0, <2>1, <2>2
<1>4. ASSUME NEW t \in Threads, WriteFails(t) PROVE IInv'
  <2>1. Ends' /\ Empty'
    BY <1>4 DEF WriteFails, Fail, Ends, Empty, Exclusion, Critical
  <2>2. ASSUME NEW u \in Threads PROVE Progress(u)'
    BY <1>4 DEF WriteFails, Fail, Exclusion, Critical, Numbered, Ends,
       Empty, Progress, Somewhere, InBuffer, Taken, HasRun, Coming, Gone
  <2> QED
    BY <1>0, <2>1, <2>2
<1>5. ASSUME NEW t \in Threads, Read(t) PROVE IInv'
  <2>0. Coming(t) /\ Head(back) = req[t] /\ Tail(back) = <<>>
          /\ \A u \in Threads : u # t => pc[u] \notin Critical
    BY <1>5, OwnReply DEF Read
  <2>1. Ends' /\ Empty'
    BY <1>5, <2>0 DEF Read, Ends, Empty, Coming
  <2>2. ASSUME NEW u \in Threads PROVE Progress(u)'
    BY <1>5, <2>0 DEF Read, Exclusion, Critical, Numbered, Ends,
       Empty, Progress, Somewhere, InBuffer, Taken, HasRun, Coming, Gone
  <2> QED
    BY <1>0, <2>1, <2>2
<1>6. ASSUME NEW t \in Threads, ReadFails(t) PROVE IInv'
  <2>1. Ends' /\ Empty'
    BY <1>6
      DEF ReadFails, Fail, Uninterrupted, Ends, Empty, Exclusion, Critical, Progress,
          Somewhere, InBuffer, Taken, HasRun, Coming, Gone
  <2>2. ASSUME NEW u \in Threads PROVE Progress(u)'
    BY <1>6
      DEF ReadFails, Fail, Uninterrupted, Exclusion, Critical, Numbered, Ends,
          Empty, Progress, Somewhere, InBuffer, Taken, HasRun, Coming, Gone
  <2> QED
    BY <1>0, <2>1, <2>2
<1>7. ASSUME NEW t \in Threads, Unlock(t) PROVE IInv'
  <2>1. Ends' /\ Empty'
    BY <1>7 DEF Unlock, Ends, Empty, Exclusion, Critical
  <2>2. ASSUME NEW u \in Threads PROVE Progress(u)'
    BY <1>7 DEF Unlock, Exclusion, Critical, Numbered, Ends,
       Empty, Progress, Somewhere, InBuffer, Taken, HasRun, Coming, Gone
  <2> QED
    BY <1>0, <2>1, <2>2
<1>8. CASE RivalConnects
  <2>1. Ends' /\ Empty'
    BY <1>8 DEF RivalConnects, Ends, Empty
  <2>2. ASSUME NEW u \in Threads PROVE Progress(u)'
    BY <1>8 DEF RivalConnects, Exclusion, Critical, Numbered, Ends,
       Empty, Progress, Somewhere, InBuffer, Taken, HasRun, Coming, Gone
  <2> QED
    BY <1>0, <2>1, <2>2
<1>9. CASE Accept
  <2>1. Ends' /\ Empty'
    BY <1>9 DEF Accept, Waits, Switch, Ends, Empty
  <2>2. ASSUME NEW u \in Threads PROVE Progress(u)'
    BY <1>9
      DEF Accept, Waits, Switch, Exclusion, Critical, Numbered, Ends,
          Empty, Progress, Somewhere, InBuffer, Taken, HasRun, Coming, Gone
  <2> QED
    BY <1>0, <2>1, <2>2
<1>10. CASE AcceptRival
  <2>1. Ends' /\ Empty'
    BY <1>10 DEF AcceptRival, Waits, Switch, Ends, Empty
  <2>2. ASSUME NEW u \in Threads PROVE Progress(u)'
    BY <1>10
      DEF AcceptRival, Waits, Switch, Exclusion, Critical, Numbered, Ends,
          Empty, Progress, Somewhere, InBuffer, Taken, HasRun, Coming, Gone
  <2> QED
    BY <1>0, <2>1, <2>2
<1>11. CASE AcceptFails
  <2>1. Ends' /\ Empty'
    BY <1>11 DEF AcceptFails, Waits, Ends, Empty
  <2>2. ASSUME NEW u \in Threads PROVE Progress(u)'
    BY <1>11
      DEF AcceptFails, Waits, Exclusion, Critical, Numbered, Ends,
          Empty, Progress, Somewhere, InBuffer, Taken, HasRun, Coming, Gone
  <2> QED
    BY <1>0, <2>1, <2>2
<1>12. CASE Take
  <2>1. Ends' /\ Empty'
    BY <1>12 DEF Take, Message, Waits, Ends, Empty
  <2>2. ASSUME NEW u \in Threads PROVE Progress(u)'
    BY <1>12
      DEF Take, Message, Waits, Exclusion, Critical, Numbered, Ends,
          Empty, Progress, Somewhere, InBuffer, Taken, HasRun, Coming, Gone
  <2> QED
    BY <1>0, <2>1, <2>2
<1>13. CASE TakeFails
  <2>1. Ends' /\ Empty'
    BY <1>13 DEF TakeFails, Message, Waits, Ends, Empty
  <2>2. ASSUME NEW u \in Threads PROVE Progress(u)'
    BY <1>13
      DEF TakeFails, Message, Waits, Exclusion, Critical, Numbered, Ends,
          Empty, Progress, Somewhere, InBuffer, Taken, HasRun, Coming, Gone
  <2> QED
    BY <1>0, <2>1, <2>2
<1>14. CASE Run
  <2>0. PICK t \in Threads :
         /\ pc[t] = "read" /\ gin = req[t] /\ req[t] \in Requests
         /\ port = NoRequest /\ back = <<>> /\ conn = "open"
         /\ Taken(t)
    BY <1>14, Served DEF Run
  <2>1. Ends' /\ Empty'
    BY <1>14, <2>0 DEF Run, Ends, Empty
  <2>2. ASSUME NEW u \in Threads PROVE Progress(u)'
    BY <1>14, <2>0 DEF Run, Exclusion, Critical, Numbered, Ends,
       Empty, Progress, Somewhere, InBuffer, Taken, HasRun, Coming, Gone
  <2> QED
    BY <1>0, <2>1, <2>2
<1>15. CASE Send
  <2>0. PICK t \in Threads :
         /\ pc[t] = "read" /\ gin = req[t] /\ req[t] \in Requests
         /\ port = NoRequest /\ back = <<>> /\ conn = "open"
         /\ HasRun(t)
    BY <1>15, Served DEF Send
  <2>a. back' = <<req[t]>>
    BY <1>15, <2>0 DEF Send
  <2>1. Ends' /\ Empty'
    BY <1>15, <2>0, <2>a DEF Send, Ends, Empty
  <2>2. ASSUME NEW u \in Threads PROVE Progress(u)'
    BY <1>15, <2>0, <2>a DEF Send, Exclusion, Critical, Numbered, Ends,
       Empty, Progress, Somewhere, InBuffer, Taken, HasRun, Coming, Gone
  <2> QED
    BY <1>0, <2>1, <2>2
<1>16. CASE SendFails
  <2>1. Ends' /\ Empty'
    BY <1>16 DEF SendFails, Ends, Empty
  <2>2. ASSUME NEW u \in Threads PROVE Progress(u)'
    BY <1>16 DEF SendFails, Exclusion, Critical, Numbered, Ends,
       Empty, Progress, Somewhere, InBuffer, Taken, HasRun, Coming, Gone
  <2> QED
    BY <1>0, <2>1, <2>2
<1>17. CASE WaitFails
  <2>1. Ends' /\ Empty'
    BY <1>17 DEF WaitFails, Ends, Empty
  <2>2. ASSUME NEW u \in Threads PROVE Progress(u)'
    BY <1>17 DEF WaitFails, Exclusion, Critical, Numbered, Ends,
       Empty, Progress, Somewhere, InBuffer, Taken, HasRun, Coming, Gone
  <2> QED
    BY <1>0, <2>1, <2>2
<1>18. CASE Ignore \/ Done \/ UNCHANGED vars
  <2>1. UNCHANGED vars
    BY <1>18 DEF Ignore, Done
  <2>2. Ends' /\ Empty' /\ \A t \in Threads : Progress(t)'
    BY <2>1 DEF vars, Ends, Empty, Progress, Somewhere, InBuffer, Taken, HasRun,
       Coming, Gone
  <2> QED
    BY <1>0, <2>2
<1> QED
  BY <1>1, <1>2, <1>3, <1>4, <1>5, <1>6, <1>7, <1>8, <1>9,
     <1>10, <1>11, <1>12, <1>13, <1>14, <1>15, <1>16, <1>17, <1>18
  DEF Next, ClientStep, TaStep

LEMMA Invariant == Uninterrupted /\ Spec => []IInv
<1> SUFFICES ASSUME Uninterrupted PROVE Spec => []IInv
  OBVIOUS
<1>1. Init => IInv
  BY InitIInv
<1>2. IInv /\ [Next]_vars => IInv'
  BY NextIInv
<1> QED
  BY <1>1, <1>2, PTL DEF Spec

\* Whatever fails but a read(): a call that returns 0 has its own answer
\* (TrustyLink.OkCallGetsOwnReply), for any number of threads.
THEOREM RepliesMatch == Uninterrupted /\ Spec => []OkCallGetsOwnReply
<1>1. IInv => OkCallGetsOwnReply
  BY DEF IInv, Progress, OkCallGetsOwnReply
<1> QED
  BY <1>1, Invariant, PTL

\* While the channel is open, nothing is under way that no caller waits for
\* (TrustyLink.ServedWhileOpen).
THEOREM NothingStray == Uninterrupted /\ Spec => []ServedWhileOpen
<1>1. IInv => ServedWhileOpen
  <2> SUFFICES ASSUME IInv, conn = "open" PROVE ServedWhileOpen
    BY DEF ServedWhileOpen
  <2>1. CASE \A t \in Threads : pc[t] # "read"
    BY <2>1 DEF IInv, Empty, ServedWhileOpen
  <2>2. CASE \E t \in Threads : pc[t] = "read"
    <3>1. PICK t \in Threads : pc[t] = "read"
      BY <2>2
    <3>2. Somewhere(t)
      BY <3>1 DEF IInv, Progress
    <3>3. port # NoRequest => port = req[t]
      BY <3>2 DEF Somewhere, InBuffer, Taken, HasRun, Coming, Gone
    <3>4. ta \in {"run", "send"} => gin = req[t]
      BY <3>2 DEF Somewhere, InBuffer, Taken, HasRun, Coming, Gone
    <3>5. \A i \in DOMAIN back : back[i] = req[t]
      BY <3>2 DEF Somewhere, InBuffer, Taken, HasRun, Coming, Gone
    <3> QED
      BY <3>1, <3>3, <3>4, <3>5 DEF ServedWhileOpen, Waiting
  <2> QED
    BY <2>1, <2>2
<1> QED
  BY <1>1, Invariant, PTL

---------------------------------------------------------------------------
(* Nobody is stuck.                                                        *)

\* The handler is trusty_accept only until it has accepted a connection.
Switched == conn = "open" /\ ByReference => p_func = "trusty_router"

LEMMA SwitchedInvariant == Spec => []Switched
<1>1. Init => Switched
  BY DEF Init, Switched
<1>2. Switched /\ [Next]_vars => Switched'
  <2> SUFFICES ASSUME Switched, [Next]_vars PROVE Switched'
    OBVIOUS
  <2> USE DEF Switched, clientVars, taVars, linkVars
  <2>1. ASSUME NEW t \in Threads, Call(t) \/ ClientStep(t) PROVE Switched'
    BY <2>1 DEF Call, ClientStep, Lock, Write, WriteFails, Read, ReadFails,
                Unlock, Fail
  <2>2. CASE Accept \/ AcceptRival \/ AcceptFails
    BY <2>2 DEF Accept, AcceptRival, AcceptFails, Switch
  <2>3. CASE RivalConnects \/ Take \/ TakeFails \/ Run \/ Send \/ SendFails
    BY <2>3 DEF RivalConnects, Take, TakeFails, Run, Send, SendFails
  <2>4. CASE WaitFails
    BY <2>4 DEF WaitFails
  <2>5. CASE Ignore \/ Done \/ UNCHANGED vars
    BY <2>5 DEF Ignore, Done, vars
  <2> QED
    BY <2>1, <2>2, <2>3, <2>4, <2>5 DEF Next, TaStep
<1> QED
  BY <1>1, <1>2, PTL DEF Spec

\* The steps thread t and the trusted application can take in a call.
CanStep(t) ==
  \/ pc[t] = "lock" /\ mutex = NoThread
  \/ pc[t] = "write" /\ (conn = "closed" \/ port = NoRequest)
  \/ pc[t] = "read" /\ (conn = "closed" \/ back # <<>>)
  \/ pc[t] = "unlock"
TaCanStep == Message \/ ta \in {"run", "send"}

\* With the assignment taking effect and no read interrupted, the calls under
\* way are held up by nothing but an exchange that lost its message or answer.
NobodyStuck ==
  (\E t \in Threads : pc[t] # "idle") =>
    TaCanStep \/ \E t \in Threads : CanStep(t) \/ LostItsAnswer(t)

\* With the assignment in trusty_accept taking effect and no read interrupted,
\* the calls under way can go on, or the one that holds the mutex has lost its
\* message or its answer: no error path of trusty_cmd leaves dev->mutex locked,
\* no message is left in the buffer unnoticed, and a writer never waits for the
\* buffer: the part of EveryCallReturns that is about states.
THEOREM NeverStuck ==
  ASSUME ByReference, Uninterrupted
  PROVE  Spec => []NobodyStuck
<1>1. IInv /\ Switched => NobodyStuck
  <2> SUFFICES ASSUME IInv, Switched, NEW t \in Threads, pc[t] # "idle"
               PROVE  TaCanStep \/ \E u \in Threads : CanStep(u) \/ LostItsAnswer(u)
    BY DEF NobodyStuck
  <2>1. CASE mutex = NoThread
    BY <2>1, NoThreadAssumption DEF IInv, Base, TypeOK, Exclusion, CanStep
  <2>2. ASSUME NEW u \in Threads, mutex = u
        PROVE  TaCanStep \/ CanStep(u) \/ LostItsAnswer(u)
    <3>1. pc[u] \in Critical /\ \A v \in Threads : v # u => pc[v] \notin Critical
      BY <2>2 DEF IInv, Base, Exclusion
    <3>2. conn \in {"open", "closed"}
      BY <3>1 DEF IInv, Base, TypeOK, Ends, Critical
    <3>3. CASE pc[u] = "write"
      BY <3>1, <3>2, <3>3 DEF IInv, Empty, CanStep, Critical
    <3>4. CASE pc[u] = "read" /\ conn = "open"
      <4>1. Somewhere(u)
        BY <3>4 DEF IInv, Progress
      <4>2. ta # "dead" /\ p_func = "trusty_router"
        BY <3>4 DEF IInv, Ends, Switched
      <4>3. CASE InBuffer(u)
        BY <3>4, <4>2, <4>3 DEF InBuffer, TaCanStep, Message, Waits, LostItsAnswer
      <4>4. CASE Taken(u) \/ HasRun(u)
        BY <4>4 DEF Taken, HasRun, TaCanStep
      <4>5. CASE Coming(u)
        BY <3>4, <4>5 DEF Coming, CanStep
      <4>6. CASE Gone
        BY <3>4, <4>2, <4>6 DEF Gone, LostItsAnswer
      <4> QED
        BY <4>1, <4>3, <4>4, <4>5, <4>6 DEF Somewhere
    <3>5. CASE pc[u] = "unlock" \/ (pc[u] = "read" /\ conn = "closed")
      BY <3>5 DEF CanStep
    <3> QED
      BY <3>1, <3>2, <3>3, <3>4, <3>5 DEF Critical
  <2> QED
    BY <2>1, <2>2 DEF IInv, Base, TypeOK
<1> QED
  BY <1>1, Invariant, SwitchedInvariant, PTL

---------------------------------------------------------------------------
(* Critical sections end.                                                  *)

\* How much thread t has before it, and what the trusted application can still
\* do meanwhile: take the message, serve it, fail to take it, end, or take up a
\* connection.
Ahead == [lock |-> 7, write |-> 6, read |-> 2, unlock |-> 1, idle |-> 0]
Full == IF port = NoRequest THEN 0 ELSE 3
Busy == [wait |-> 1, run |-> 3, send |-> 2, dead |-> 0][ta]
Spare == IF held THEN 0 ELSE 1
Comers == (IF conn = "pending" THEN 1 ELSE 0)
            + [none |-> 2, pending |-> 1, open |-> 0][rival]
ToDo(t) == Ahead[pc[t]] + Full + Busy + Spare + Comers

\* Whatever fails, each step inside a critical section uses up something of
\* what is left to do before its unlock, or is the call of another thread.
SectionAdvances ==
  \A t \in Threads : pc[t] \in Critical =>
    calls' > calls \/ ToDo(t)' < ToDo(t)

\* Whatever fails, and whoever else connects, the thread that has the mutex and
\* the trusted application take a bounded number of steps before they are at
\* the unlock or wait for good: the part of EveryCallReturns that is about
\* steps.
THEOREM SectionEnds == Spec => [][SectionAdvances]_vars
<1>1. Base /\ Base' /\ [Next]_vars => [SectionAdvances]_vars
  <2> SUFFICES ASSUME Base, Base', Next, ~UNCHANGED vars,
                      NEW t \in Threads, pc[t] \in Critical
               PROVE  calls' > calls \/ ToDo(t)' < ToDo(t)
    BY DEF SectionAdvances
  <2> USE DEF clientVars, taVars, linkVars
  <2>0. /\ pc \in [Threads -> {"idle", "lock"} \union Critical]
        /\ pc'[t] \in {"idle", "lock"} \union Critical
        /\ calls \in Nat
        /\ ta \in {"wait", "run", "send", "dead"}
        /\ ta' \in {"wait", "run", "send", "dead"}
        /\ rival \in {"none", "pending", "open"}
        /\ rival' \in {"none", "pending", "open"}
        /\ held \in BOOLEAN
    BY MaxCallsAssumption DEF Base, TypeOK, Contents, Requests, NoRequest
  <2>1. /\ mutex = t /\ mutex # NoThread
        /\ \A u \in Threads : pc[u] \in Critical => u = t
    BY NoThreadAssumption DEF Base, Exclusion
  <2>2. Ahead[pc[t]] \in Nat /\ Ahead[pc'[t]] \in Nat
    BY <2>0 DEF Ahead, Critical
  <2>3. /\ Full \in Nat /\ Busy \in Nat /\ Spare \in Nat /\ Comers \in Nat
        /\ Full' \in Nat /\ Busy' \in Nat /\ Spare' \in Nat /\ Comers' \in Nat
    BY <2>0 DEF Full, Busy, Spare, Comers
  <2>4. /\ ToDo(t) = Ahead[pc[t]] + Full + Busy + Spare + Comers
        /\ ToDo(t)' = Ahead[pc'[t]] + Full' + Busy' + Spare' + Comers'
    BY DEF ToDo, Ahead
  <2>5. ASSUME NEW u \in Threads, Call(u) PROVE calls' > calls
    BY <2>0, <2>5 DEF Call
  <2>6. ASSUME NEW u \in Threads, ClientStep(u) PROVE ToDo(t)' < ToDo(t)
    <3>1. u = t /\ ~Lock(u)
      BY <2>1, <2>6 DEF ClientStep, Lock, Write, WriteFails, Read, ReadFails,
                        Unlock, Critical
    <3>2. ta' = ta /\ held' = held /\ conn' = conn /\ rival' = rival
      BY <2>6, <3>1 DEF ClientStep, Write, WriteFails, Read, ReadFails, Unlock
    <3>3. Busy' = Busy /\ Spare' = Spare /\ Comers' = Comers
      BY <3>2 DEF Busy, Spare, Comers
    <3>4. CASE Write(t)
      <4>1. Ahead[pc[t]] = 6 /\ Ahead[pc'[t]] = 2
        BY <2>0, <3>4 DEF Write, Ahead
      <4>2. Full = 0 /\ Full' \in {0, 3}
        BY <3>4 DEF Write, Full
      <4> QED
        BY <2>2, <2>3, <2>4, <3>3, <4>1, <4>2
    <3>5. CASE WriteFails(t) \/ Read(t) \/ ReadFails(t) \/ Unlock(t)
      <4>1. Ahead[pc'[t]] < Ahead[pc[t]]
        BY <2>0, <3>5 DEF WriteFails, Read, ReadFails, Fail, Unlock, Ahead
      <4>2. Full' = Full
        BY <3>5 DEF WriteFails, Read, ReadFails, Fail, Unlock, Full
      <4> QED
        BY <2>2, <2>3, <2>4, <3>3, <4>1, <4>2
    <3> QED
      BY <2>6, <3>1, <3>4, <3>5 DEF ClientStep
  <2>7. CASE RivalConnects \/ TaStep
    <3>1. Ahead[pc'[t]] = Ahead[pc[t]]
      BY <2>7 DEF RivalConnects, TaStep, Accept, AcceptRival, AcceptFails, Take,
                  TakeFails, Run, Send, SendFails, WaitFails
    <3>2. CASE RivalConnects \/ Accept \/ AcceptRival \/ AcceptFails
      <4>1. Comers' < Comers
        BY <2>0, <3>2 DEF RivalConnects, Accept, AcceptRival, AcceptFails, Comers
      <4>2. Full' = Full /\ Busy' = Busy /\ Spare' = Spare
        BY <3>2 DEF RivalConnects, Accept, AcceptRival, AcceptFails, Full, Busy,
                    Spare
      <4> QED
        BY <2>2, <2>3, <2>4, <3>1, <4>1, <4>2
    <3>3. CASE Take
      <4>1. Full = 3 /\ Full' = 0 /\ Busy = 1 /\ Busy' = 3
        BY <3>3 DEF Take, Message, Waits, Full, Busy
      <4>2. Spare' = Spare /\ Comers' = Comers
        BY <3>3 DEF Take, Spare, Comers
      <4> QED
        BY <2>2, <2>3, <2>4, <3>1, <4>1, <4>2
    <3>4. CASE TakeFails
      <4>1. Spare = 1 /\ Spare' = 0
        BY <2>0, <3>4 DEF TakeFails, Message, Spare
      <4>2. Full' = Full /\ Busy' = Busy /\ Comers' = Comers
        BY <3>4 DEF TakeFails, Full, Busy, Comers
      <4> QED
        BY <2>2, <2>3, <2>4, <3>1, <4>1, <4>2
    <3>5. CASE Run \/ Send \/ SendFails
      <4>1. Busy' < Busy
        BY <3>5 DEF Run, Send, SendFails, Busy
      <4>2. Full' = Full /\ Spare' = Spare /\ Comers' = Comers
        BY <3>5 DEF Run, Send, SendFails, Full, Spare, Comers
      <4> QED
        BY <2>2, <2>3, <2>4, <3>1, <4>1, <4>2
    <3>6. CASE WaitFails
      <4>1. Busy' < Busy
        BY <3>6 DEF WaitFails, Busy
      <4>2. Full' = Full /\ Spare' = Spare /\ Comers' <= Comers
        BY <2>0, <3>6 DEF WaitFails, Full, Spare, Comers
      <4> QED
        BY <2>2, <2>3, <2>4, <3>1, <4>1, <4>2
    <3> QED
      BY <2>7, <3>2, <3>3, <3>4, <3>5, <3>6 DEF TaStep
  <2> QED
    BY <2>5, <2>6, <2>7 DEF Next, Ignore, Done
<1> QED
  BY <1>1, BaseInvariant, PTL DEF Spec

---------------------------------------------------------------------------
(* The channel implements TeeCall.                                         *)

\* Run serves the request of the caller that reads, Unlock returns its answer
\* or an error, Call is the call; the other steps are inside.
LEMMA StepImplements ==
  ASSUME IInv, IInv', [Next]_vars
  PROVE  [Call_Abstract!Next]_(Call_Abstract!vars)
<1> DEFINE stg == [t \in Threads |-> IF pc[t] = "idle" THEN "idle" ELSE "called"]
           ans == [t \in Threads |->
                     IF pc[t] = "idle" /\ ret[t] = "ok" THEN reply[t] ELSE NoRequest]
           Same == calls' = calls /\ stg' = stg /\ req' = req
                     /\ runs' = runs /\ ans' = ans
<1>1. Same => UNCHANGED Call_Abstract!vars
  BY DEF Call_Abstract!vars
<1> USE DEF IInv, Base, TypeOK, Contents, Requests, NoRequest, clientVars, taVars,
            linkVars
<1>2. ASSUME NEW t \in Threads, Call(t) PROVE Call_Abstract!Call(t)
  BY <1>2 DEF Call, Call_Abstract!Call, Call_Abstract!NoRequest
<1>3. ASSUME NEW t \in Threads, Lock(t) \/ Write(t) PROVE Same
  BY <1>3 DEF Lock, Write
<1>4. ASSUME NEW t \in Threads, WriteFails(t) \/ Read(t) \/ ReadFails(t) PROVE Same
  BY <1>4 DEF WriteFails, Read, ReadFails, Fail
<1>5. CASE Run
  <2>1. PICK t \in Threads : pc[t] = "read" /\ gin = req[t] /\ Taken(t)
    BY <1>5, Served DEF Run
  <2>2. gin = req[t] /\ runs[req[t]] = 0
    BY <2>1 DEF Taken
  <2>3. runs' = [runs EXCEPT ![req[t]] = 1]
    BY <1>5, <2>2 DEF Run
  <2>4. stg[t] = "called" /\ UNCHANGED <<calls, req, stg, ans>>
    BY <1>5, <2>1 DEF Run
  <2>5. Call_Abstract!Serve(t)
    BY <2>2, <2>3, <2>4 DEF Call_Abstract!Serve
  <2> QED
    BY <2>5 DEF Call_Abstract!Next
<1>6. ASSUME NEW t \in Threads, Unlock(t)
      PROVE  Call_Abstract!ReturnOk(t) \/ Call_Abstract!ReturnError(t)
  <2>1. CASE ret[t] = "ok"
    <3>1. reply[t] = req[t] /\ runs[req[t]] = 1
      BY <1>6, <2>1 DEF Unlock, Progress
    <3>2. ans' = [ans EXCEPT ![t] = req[t]]
      BY <1>6, <2>1, <3>1 DEF Unlock
    <3>3. stg[t] = "called" /\ stg' = [stg EXCEPT ![t] = "idle"]
      BY <1>6 DEF Unlock
    <3>4. UNCHANGED <<calls, req, runs>>
      BY <1>6 DEF Unlock
    <3> QED
      BY <3>1, <3>2, <3>3, <3>4 DEF Call_Abstract!ReturnOk
  <2>2. CASE ret[t] # "ok"
    BY <1>6, <2>2 DEF Unlock, Call_Abstract!ReturnError
  <2> QED
    BY <2>1, <2>2
<1>7. CASE RivalConnects \/ Accept \/ AcceptRival \/ AcceptFails
  BY <1>1, <1>7 DEF RivalConnects, Accept, AcceptRival, AcceptFails
<1>8. CASE Take \/ TakeFails \/ Send \/ SendFails \/ WaitFails
  BY <1>1, <1>8 DEF Take, TakeFails, Send, SendFails, WaitFails
<1>9. CASE Ignore \/ Done \/ UNCHANGED vars
  BY <1>1, <1>9 DEF Ignore, Done, vars
<1> QED
  BY <1>1, <1>2, <1>3, <1>4, <1>5, <1>6, <1>7, <1>8, <1>9
  DEF Next, ClientStep, TaStep, Call_Abstract!Next

\* Whatever fails but a read(), the channel implements the abstract command
\* operation (TrustyLink.ImplementsTeeCall).
THEOREM Refinement == Uninterrupted /\ Spec => ImplementsTeeCall
<1> SUFFICES ASSUME Uninterrupted PROVE Spec => ImplementsTeeCall
  OBVIOUS
<1>1. Init => Call_Abstract!Init
  BY DEF Init, Call_Abstract!Init, Call_Abstract!NoRequest, Contents,
         Requests, NoRequest, Call_Abstract!Contents, Call_Abstract!Requests
<1>2. IInv /\ IInv' /\ [Next]_vars => [Call_Abstract!Next]_(Call_Abstract!vars)
  BY StepImplements
<1> QED
  BY <1>1, <1>2, Invariant, PTL DEF Spec, ImplementsTeeCall, Call_Abstract!Spec
=============================================================================
