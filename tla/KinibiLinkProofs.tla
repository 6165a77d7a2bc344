------------------------- MODULE KinibiLinkProofs --------------------------
(***************************************************************************)
(* What KinibiLink guarantees for any number of threads and calls, any     *)
(* doorbell depth, and with or without late answers: a call that found the *)
(* link quiet and returns 0 ran once and has its own answer; until a call  *)
(* is abandoned the link implements TeeCall; after that it works again if  *)
(* it becomes quiet, which takes doorbells of one ring.                    *)
(***************************************************************************)
EXTENDS KinibiLink, TLAPS

USE NoThreadAssumption, MaxCallsAssumption, NotifyCapAssumption,
    TimeoutsAssumption

\* A doorbell never counts past its depth, and a ring is heard.
LEMMA BumpType ==
  ASSUME NEW n \in 0 .. NotifyCap
  PROVE  Bump(n) \in 0 .. NotifyCap /\ Bump(n) > 0 /\ (n = 0 => Bump(n) = 1)
  BY DEF Bump

\* Every step of either side keeps the variables of the link in their types.
LEMMA TypeStep == TypeOK /\ [Next]_vars => TypeOK'
  <1> SUFFICES ASSUME TypeOK, [Next]_vars PROVE TypeOK'
    OBVIOUS
  <1> USE DEF TypeOK, Contents, Requests, Garbage, Replies, Critical,
              clientVars, taVars, linkVars
  <1>1. ASSUME NEW t \in Threads, Call(t) PROVE TypeOK'
    BY <1>1 DEF Call
  <1>2. ASSUME NEW t \in Threads, Lock(t) PROVE TypeOK'
    BY <1>2 DEF Lock, Quiet, TaGone
  <1>3. ASSUME NEW t \in Threads, CopyIn(t) PROVE TypeOK'
    BY <1>3 DEF CopyIn
  <1>4. ASSUME NEW t \in Threads, Notify(t) PROVE TypeOK'
    BY <1>4, BumpType DEF Notify
  <1>5. ASSUME NEW t \in Threads, NotifyError(t) \/ WaitError(t) PROVE TypeOK'
    BY <1>5 DEF NotifyError, WaitError, Fail
  <1>6. ASSUME NEW t \in Threads, WaitOk(t) PROVE TypeOK'
    BY <1>6 DEF WaitOk
  <1>7. ASSUME NEW t \in Threads, WaitGivesUp(t) PROVE TypeOK'
    BY <1>7 DEF WaitGivesUp, Fail
  <1>8. ASSUME NEW t \in Threads, CopyOut(t) PROVE TypeOK'
    BY <1>8 DEF CopyOut
  <1>9. ASSUME NEW t \in Threads, Unlock(t) PROVE TypeOK'
    BY <1>9 DEF Unlock
  <1>10. CASE TaWake
    BY <1>10 DEF TaWake
  <1>11. CASE TaCopy
    BY <1>11 DEF TaCopy
  <1>12. CASE TaRoute
    BY <1>12 DEF TaRoute
  <1>13. CASE TaDies
    BY <1>13 DEF TaDies
  <1>14. CASE TaNotify
    BY <1>14, BumpType DEF TaNotify
  <1>15. CASE FreeMem \/ CloseSession
    BY <1>15 DEF FreeMem, CloseSession
  <1>16. CASE Done \/ UNCHANGED vars
    BY <1>16 DEF Done, vars
  <1> QED
    BY <1>1, <1>2, <1>3, <1>4, <1>5, <1>6, <1>7, <1>8, <1>9, <1>10, <1>11,
       <1>12, <1>13, <1>14, <1>15, <1>16
    DEF Next, ClientStep, Wait, TaStep

\* The invariant holds of a fresh session.
LEMMA InitIInv == Init => IInv
  <1> SUFFICES ASSUME Init PROVE IInv
    OBVIOUS
  <1> USE DEF Init, Contents, Requests, Garbage, Critical
  <1>1. TypeOK
    <2>1. [by |-> Garbage, done |-> FALSE] \in Replies
      BY DEF Replies
    <2>2. 0 .. MaxCalls \subseteq Contents /\ 0 \in 0 .. NotifyCap
      OBVIOUS
    <2> QED
      BY <2>1, <2>2 DEF TypeOK
  <1>2. MutexInv
    BY DEF MutexInv
  <1>3. FreshInv
    BY DEF FreshInv, Unseen
  <1>4. ExitInv /\ HandshakeInv
    BY DEF ExitInv, HandshakeInv
  <1>5. PromptInv
    BY DEF PromptInv, Quiet
  <1> QED
    BY <1>1, <1>2, <1>3, <1>4, <1>5 DEF IInv

\* Type correctness of the link: dev->mutex, the doorbells and both halves of
\* the buffer never leave their ranges.
THEOREM TypeCorrect == Spec => []TypeOK
  <1>1. Init => TypeOK
    BY InitIInv DEF IInv
  <1> QED
    BY <1>1, TypeStep, PTL DEF Spec

\* Who is inside the critical section, which requests are new and when the
\* buffer may go do not depend on what the doorbells do.
LEMMA FrameStep ==
  ASSUME IInv, TypeOK', [Next]_vars
  PROVE  MutexInv' /\ FreshInv' /\ ExitInv' /\ (abandoned => Timeouts)'
  <1> USE DEF IInv, TypeOK, MutexInv, FreshInv, ExitInv, Unseen, Contents,
              Requests, Garbage, Critical, clientVars, taVars, linkVars
  <1>1. ASSUME NEW t \in Threads, Call(t)
        PROVE  MutexInv' /\ FreshInv' /\ ExitInv' /\ (abandoned => Timeouts)'
    BY <1>1 DEF Call
  <1>2. ASSUME NEW t \in Threads, Lock(t)
        PROVE  MutexInv' /\ FreshInv' /\ ExitInv' /\ (abandoned => Timeouts)'
    BY <1>2 DEF Lock
  <1>3. ASSUME NEW t \in Threads, CopyIn(t)
        PROVE  MutexInv' /\ FreshInv' /\ ExitInv' /\ (abandoned => Timeouts)'
    BY <1>3 DEF CopyIn
  <1>4. ASSUME NEW t \in Threads, Notify(t) \/ WaitOk(t)
        PROVE  MutexInv' /\ FreshInv' /\ ExitInv' /\ (abandoned => Timeouts)'
    BY <1>4 DEF Notify, WaitOk
  <1>5. ASSUME NEW t \in Threads,
               NotifyError(t) \/ WaitError(t) \/ WaitGivesUp(t)
        PROVE  MutexInv' /\ FreshInv' /\ ExitInv' /\ (abandoned => Timeouts)'
    BY <1>5 DEF NotifyError, WaitError, WaitGivesUp, Fail
  <1>6. ASSUME NEW t \in Threads, CopyOut(t) \/ Unlock(t)
        PROVE  MutexInv' /\ FreshInv' /\ ExitInv' /\ (abandoned => Timeouts)'
    BY <1>6 DEF CopyOut, Unlock
  <1>7. CASE TaWake
    BY <1>7 DEF TaWake
  <1>8. CASE TaCopy
    BY <1>8 DEF TaCopy
  <1>9. CASE TaRoute \/ TaDies \/ TaNotify
    BY <1>9 DEF TaRoute, TaDies, TaNotify
  <1>10. CASE FreeMem \/ CloseSession
    BY <1>10 DEF FreeMem, CloseSession
  <1>11. CASE Done \/ UNCHANGED vars
    BY <1>11 DEF Done, vars
  <1> QED
    BY <1>1, <1>2, <1>3, <1>4, <1>5, <1>6, <1>7, <1>8, <1>9, <1>10, <1>11
    DEF Next, ClientStep, Wait, TaStep

\* The thread that takes the mutex learns whether it found the link quiet.
LEMMA LockRecords ==
  ASSUME TypeOK, NEW t \in Threads, Lock(t)
  PROVE  quiet'[t] <=> Quiet
  <1>1. quiet \in [Threads -> BOOLEAN] /\ quiet' = [quiet EXCEPT ![t] = Quiet]
    BY DEF TypeOK, Lock
  <1> QED
    BY <1>1, Zenon

\* A quiet link at the mutex makes the whole exchange the holder's own: no
\* other client step touches the link, and the TA works on one ring at a time.
LEMMA HandshakeStep ==
  ASSUME IInv, TypeOK', [Next]_vars
  PROVE  HandshakeInv'
  <1> USE DEF IInv, TypeOK, MutexInv, FreshInv, ExitInv, HandshakeInv, Unseen,
              Rung, Copied, Routed, Answered, Lost, Quiet, TaGone, Own,
              Contents, Requests, Garbage, Replies, Critical, clientVars,
              taVars, linkVars
  <1>1. ASSUME NEW t \in Threads, Call(t) PROVE HandshakeInv'
    BY <1>1 DEF Call
  <1>2. ASSUME NEW t \in Threads, Lock(t) PROVE HandshakeInv'
    <2>1. quiet'[t] => Quiet
      BY <1>2, LockRecords
    <2>2. pc'[t] = "copy_in" /\ runs[req[t]] = 0
      BY <1>2 DEF Lock
    <2>3. \A u \in Threads : u # t => pc'[u] \notin Critical
      BY <1>2 DEF Lock
    <2>4. UNCHANGED <<req, runs, toClient, ta, toTa>>
      BY <1>2 DEF Lock
    <2> QED
      BY <2>1, <2>2, <2>3, <2>4
  <1>3. ASSUME NEW t \in Threads, CopyIn(t) PROVE HandshakeInv'
    BY <1>3 DEF CopyIn
  <1>4. ASSUME NEW t \in Threads, Notify(t) PROVE HandshakeInv'
    BY <1>4, BumpType DEF Notify
  <1>5. ASSUME NEW t \in Threads, NotifyError(t) \/ WaitError(t) PROVE HandshakeInv'
    BY <1>5 DEF NotifyError, WaitError, Fail
  <1>6. ASSUME NEW t \in Threads, WaitGivesUp(t) PROVE HandshakeInv'
    BY <1>6 DEF WaitGivesUp, Fail
  <1>7. ASSUME NEW t \in Threads, WaitOk(t) PROVE HandshakeInv'
    BY <1>7 DEF WaitOk
  <1>8. ASSUME NEW t \in Threads, CopyOut(t) PROVE HandshakeInv'
    BY <1>8 DEF CopyOut
  <1>9. ASSUME NEW t \in Threads, Unlock(t) PROVE HandshakeInv'
    BY <1>9 DEF Unlock
  <1>10. CASE TaWake
    BY <1>10 DEF TaWake
  <1>11. CASE TaCopy
    BY <1>11 DEF TaCopy
  <1>12. CASE TaRoute
    BY <1>12 DEF TaRoute
  <1>13. CASE TaDies
    BY <1>13 DEF TaDies
  <1>14. CASE TaNotify
    BY <1>14, BumpType DEF TaNotify
  <1>15. CASE FreeMem \/ CloseSession
    BY <1>15 DEF FreeMem, CloseSession
  <1>16. CASE Done \/ UNCHANGED vars
    BY <1>16 DEF Done, vars
  <1> QED
    BY <1>1, <1>2, <1>3, <1>4, <1>5, <1>6, <1>7, <1>8, <1>9, <1>10, <1>11,
       <1>12, <1>13, <1>14, <1>15, <1>16
    DEF Next, ClientStep, Wait, TaStep

\* Without an abandoned call the TA is only ever busy with the request of the
\* thread that holds the mutex.
LEMMA PromptStep ==
  ASSUME IInv, TypeOK', [Next]_vars
  PROVE  PromptInv'
  <1> USE DEF IInv, TypeOK, MutexInv, FreshInv, ExitInv, HandshakeInv, PromptInv,
              Unseen, Rung, Copied, Routed, Answered, Lost, Quiet, TaGone,
              Contents, Requests, Garbage, Critical, clientVars, taVars,
              linkVars
  <1>1. ASSUME NEW t \in Threads, Call(t) PROVE PromptInv'
    BY <1>1 DEF Call
  <1>2. ASSUME NEW t \in Threads, Lock(t) PROVE PromptInv'
    <2>1. ~abandoned => quiet'[t]
      <3>1. ~abandoned => Quiet
        BY <1>2 DEF Lock
      <3> QED
        BY <1>2, <3>1, LockRecords
    <2>2. \A u \in Threads : u # t => pc'[u] \notin Critical
      BY <1>2 DEF Lock
    <2>3. mutex' # NoThread /\ UNCHANGED <<abandoned, runs>>
      BY <1>2 DEF Lock
    <2> QED
      BY <2>1, <2>2, <2>3
  <1>3. ASSUME NEW t \in Threads, CopyIn(t) PROVE PromptInv'
    BY <1>3 DEF CopyIn
  <1>4. ASSUME NEW t \in Threads, Notify(t) PROVE PromptInv'
    BY <1>4, BumpType DEF Notify
  <1>5. ASSUME NEW t \in Threads, NotifyError(t) \/ WaitError(t) PROVE PromptInv'
    BY <1>5 DEF NotifyError, WaitError, Fail
  <1>6. ASSUME NEW t \in Threads, WaitGivesUp(t) PROVE PromptInv'
    BY <1>6 DEF WaitGivesUp, Fail
  <1>7. ASSUME NEW t \in Threads, WaitOk(t) PROVE PromptInv'
    BY <1>7 DEF WaitOk
  <1>8. ASSUME NEW t \in Threads, CopyOut(t) PROVE PromptInv'
    BY <1>8 DEF CopyOut
  <1>9. ASSUME NEW t \in Threads, Unlock(t) PROVE PromptInv'
    BY <1>9 DEF Unlock
  <1>10. CASE TaWake
    BY <1>10 DEF TaWake
  <1>11. CASE TaCopy
    BY <1>11 DEF TaCopy
  <1>12. CASE TaRoute
    BY <1>12 DEF TaRoute
  <1>13. CASE TaDies
    BY <1>13 DEF TaDies
  <1>14. CASE TaNotify
    BY <1>14, BumpType DEF TaNotify
  <1>15. CASE FreeMem \/ CloseSession
    BY <1>15 DEF FreeMem, CloseSession
  <1>16. CASE Done \/ UNCHANGED vars
    BY <1>16 DEF Done, vars
  <1> QED
    BY <1>1, <1>2, <1>3, <1>4, <1>5, <1>6, <1>7, <1>8, <1>9, <1>10, <1>11,
       <1>12, <1>13, <1>14, <1>15, <1>16
    DEF Next, ClientStep, Wait, TaStep

\* The inductive invariant: mutex, freshness, exit order, and the handshake of
\* a thread that started on a quiet link.
THEOREM Invariant == Spec => []IInv
  <1>1. IInv /\ [Next]_vars => IInv'
    <2> SUFFICES ASSUME IInv, [Next]_vars PROVE IInv'
      OBVIOUS
    <2>1. TypeOK'
      BY TypeStep DEF IInv
    <2> QED
      BY <2>1, FrameStep, HandshakeStep, PromptStep DEF IInv
  <1> QED
    BY <1>1, InitIInv, PTL DEF Spec

\* kinibi_cmd on a quiet link: a 0 means the complete answer to this request,
\* even when earlier calls ran into the 1000 ms.
THEOREM QuietCallOwnReply == Spec => []QuietCallGetsOwnReply
  <1>1. IInv => QuietCallGetsOwnReply
    BY DEF IInv, HandshakeInv, QuietCallGetsOwnReply
  <1> QED
    BY <1>1, Invariant, PTL

\* Until a call is given up every critical section leaves no ring and no late
\* work behind, so every call finds the link quiet.
THEOREM StaysQuiet == Spec => []QuietUntilAbandoned
  <1>1. IInv => QuietUntilAbandoned
    BY DEF IInv, PromptInv, QuietUntilAbandoned
  <1> QED
    BY <1>1, Invariant, PTL

\* A request reaches a command function of the TA at most once: the doorbell
\* does not run a stored value or a storage read a second time.
RunAtMostOnce == ~abandoned => \A r \in Requests : runs[r] <= 1

\* No request is executed twice before the first call is given up.
THEOREM AtMostOnce == Spec => []RunAtMostOnce
  <1>1. IInv => RunAtMostOnce
    BY DEF IInv, PromptInv, RunAtMostOnce
  <1> QED
    BY <1>1, Invariant, PTL

\* The memcpys of kinibi_cmd never overlap tlMain's use of the buffer before
\* the first call that is given up.
THEOREM NoTciRace == Spec => []TciRaceFree
  <1>1. IInv => TciRaceFree
    BY DEF TciRaceFree, IInv, TypeOK, MutexInv, HandshakeInv, PromptInv,
           Rung, Copied, Routed, Answered, Lost, Quiet, TaGone,
           Critical
  <1> QED
    BY <1>1, Invariant, PTL

\* Freeing g_mem before mcCloseSession is harmless as long as no call was given
\* up, and the device is released after the calls, as in tee_test: the TA only
\* touches the buffer while a call is open.
THEOREM TciOutlivesWork == Spec => []TciAlive
  <1>1. IInv => TciAlive
    BY DEF TciAlive, ExitInv, IInv, TypeOK, MutexInv, HandshakeInv, PromptInv,
           Rung, Copied, Routed, Answered, Lost, Quiet, TaGone,
           Critical
  <1> QED
    BY <1>1, Invariant, PTL

\* The steps thread t and the TA can take in a call.
CanStep(t) ==
  \/ pc[t] = "lock" /\ mutex = NoThread
  \/ pc[t] \in Critical \ {"wait"}
  \/ pc[t] = "wait" /\ (toClient > 0 \/ TaGone \/ Timeouts)
TaCanStep == ta \in {"copy", "route", "notify"} \/ (ta = "idle" /\ toTa > 0)

\* While a call is under way, a thread or the TA can take a step; a wait for a
\* TA that answers in time needs no timeout: no ring is lost and no path leaves
\* the mutex locked.
NobodyStuck ==
  (\E t \in Threads : pc[t] # "idle") =>
    TaCanStep \/ \E t \in Threads : CanStep(t)

\* While a call is under way somebody can go on: the thread that holds the
\* mutex, the TA with its request or its ring, or a thread that finds the mutex
\* free: the part of EveryCallReturns that is about states.
THEOREM NeverStuck == Spec => []NobodyStuck
  <1>1. IInv => NobodyStuck
    <2> SUFFICES ASSUME IInv, NEW t \in Threads, pc[t] # "idle"
                 PROVE  TaCanStep \/ \E u \in Threads : CanStep(u)
      BY DEF NobodyStuck
    <2>1. CASE mutex = NoThread
      BY <2>1 DEF IInv, TypeOK, MutexInv, CanStep
    <2>2. ASSUME NEW u \in Threads, mutex = u, pc[u] = "wait", ~Timeouts
          PROVE  TaCanStep \/ CanStep(u)
      <3>1. quiet[u]
        BY <2>2 DEF IInv, PromptInv, Critical
      <3>2. Rung(u) \/ Copied(u) \/ Routed(u) \/ Answered(u) \/ Lost
        BY <2>2, <3>1 DEF IInv, HandshakeInv
      <3> QED
        BY <2>2, <3>2 DEF Rung, Copied, Routed, Answered, Lost, TaCanStep, CanStep
    <2>3. ASSUME NEW u \in Threads, mutex = u, pc[u] # "wait" \/ Timeouts
          PROVE  CanStep(u)
      BY <2>3 DEF IInv, MutexInv, CanStep, Critical
    <2> QED
      BY <2>1, <2>2, <2>3 DEF IInv, TypeOK
  <1> QED
    BY <1>1, Invariant, PTL

\* How much thread t, and the TA for it, have before them.
TaToDo == [idle |-> IF toTa > 0 THEN 4 ELSE 0, copy |-> 3, route |-> 2,
           notify |-> 1, dead |-> 0]
ToDo(t) == [lock |-> 10, copy_in |-> 9, notify |-> 8, wait |-> 3 + TaToDo[ta],
            copy_out |-> 2, unlock |-> 1, idle |-> 0][pc[t]]

\* Until a call is abandoned, each step of either side inside a critical
\* section leads towards its unlock, or is the call of another thread.
SectionAdvances ==
  ~abandoned => \A t \in Threads : pc[t] \in Critical =>
    calls' > calls \/ ToDo(t)' < ToDo(t)

\* A thread that has the mutex, and the TA with its request, take a bounded
\* number of steps to the unlock as long as no call has been abandoned
\* (the part of EveryCallReturns that is about steps).
THEOREM SectionEnds == Spec => [][SectionAdvances]_vars
  <1>1. IInv /\ [Next]_vars => [SectionAdvances]_vars
    <2> SUFFICES ASSUME IInv, Next, ~UNCHANGED vars, ~abandoned,
                        NEW t \in Threads, pc[t] \in Critical
                 PROVE  calls' > calls \/ ToDo(t)' < ToDo(t)
      BY DEF SectionAdvances
    <2> USE DEF IInv, TypeOK
    <2>1. /\ mutex = t /\ mutex # NoThread /\ quiet[t]
          /\ \A u \in Threads : pc[u] \in Critical => u = t
      BY DEF MutexInv, PromptInv
    <2>2. ASSUME NEW u \in Threads, Call(u) PROVE calls' > calls
      BY <2>2 DEF Call, Contents, Requests, Garbage
    <2>3. ASSUME NEW u \in Threads, ClientStep(u) PROVE ToDo(t)' < ToDo(t)
      <3>1. u = t
        BY <2>1, <2>3 DEF ClientStep, Wait, Lock, CopyIn, Notify, NotifyError,
                          WaitOk, WaitGivesUp, WaitError, CopyOut, Unlock, Critical
      <3>2. CASE CopyIn(t) \/ CopyOut(t) \/ Unlock(t)
        BY <3>2 DEF CopyIn, CopyOut, Unlock, ToDo
      <3>3. CASE Notify(t)
        <4>1. Quiet
          BY <2>1, <3>3 DEF Notify, HandshakeInv
        <4>2. TaToDo[ta]' \in {0, 4}
          BY <3>3, <4>1 DEF Notify, Quiet, TaGone, TaToDo, taVars
        <4>3. pc[t] = "notify" /\ pc'[t] = "wait"
          BY <3>3 DEF Notify
        <4>4. ToDo(t) = 8 /\ ToDo(t)' = 3 + TaToDo[ta]'
          BY <4>3 DEF ToDo
        <4> QED
          BY <4>2, <4>4
      <3>4. CASE NotifyError(t) \/ Wait(t)
        BY <3>4 DEF NotifyError, Wait, WaitOk, WaitGivesUp, WaitError, Fail,
                    ToDo, TaToDo
      <3> QED
        BY <2>1, <2>3, <3>1, <3>2, <3>3, <3>4 DEF ClientStep, Lock
    <2>4. CASE TaStep
      <3>1. pc[t] = "wait"
        BY <2>1, <2>4 DEF TaStep, TaWake, TaCopy, TaRoute, TaDies, TaNotify,
                          HandshakeInv, Quiet, TaGone, Critical
      <3>2. Rung(t) \/ Copied(t) \/ Routed(t) \/ Answered(t) \/ Lost
        BY <2>1, <3>1 DEF HandshakeInv
      <3>3. pc' = pc
        BY <2>4 DEF TaStep, TaWake, TaCopy, TaRoute, TaDies, TaNotify, clientVars
      <3>4. ASSUME TaWake
            PROVE  TaToDo[ta] = 4 /\ TaToDo[ta]' = 3
        BY <3>2, <3>4 DEF TaWake, TaToDo, Rung, Copied, Routed, Answered, Lost,
                          TaGone
      <3>5. ASSUME TaCopy
            PROVE  TaToDo[ta] = 3 /\ TaToDo[ta]' = 2
        BY <3>5 DEF TaCopy, TaToDo
      <3>6. ASSUME TaRoute \/ TaDies
            PROVE  TaToDo[ta] = 2 /\ TaToDo[ta]' \in {0, 1}
        BY <3>6 DEF TaRoute, TaDies, TaToDo
      <3>7. ASSUME TaNotify
            PROVE  TaToDo[ta] = 1 /\ TaToDo[ta]' = 0
        BY <3>2, <3>7 DEF TaNotify, TaToDo, Rung, Copied, Routed, Answered, Lost,
                          TaGone
      <3>8. ToDo(t) = 3 + TaToDo[ta] /\ ToDo(t)' = 3 + TaToDo[ta]'
        BY <3>1, <3>3 DEF ToDo
      <3> QED
        BY <2>4, <3>4, <3>5, <3>6, <3>7, <3>8 DEF TaStep
    <2>5. ~(FreeMem \/ CloseSession)
      BY DEF FreeMem, CloseSession, ExitInv, Critical
    <2> QED
      BY <2>2, <2>3, <2>4, <2>5 DEF Next, Done
  <1> QED
    BY <1>1, Invariant, PTL DEF Spec

\* A step of the link is a step of the abstract command operation or leaves it
\* alone: TaCopy serves the request, Unlock returns it, the rest is inside.
LEMMA StepImplements ==
  ASSUME ~Timeouts, IInv, IInv', [Next]_vars
  PROVE  [Call_Abstract!Next]_(Call_Abstract!vars)
  <1> DEFINE stg == [t \in Threads |-> IF pc[t] = "idle" THEN "idle" ELSE "called"]
             ans == [t \in Threads |->
                       IF pc[t] = "idle" /\ ret[t] = "ok" /\ reply[t].done
                         THEN reply[t].by ELSE Garbage]
             Same == calls' = calls /\ stg' = stg /\ req' = req
                       /\ runs' = runs /\ ans' = ans
  <1>1. Same => UNCHANGED Call_Abstract!vars
    BY DEF Call_Abstract!vars
  <1> USE DEF IInv, TypeOK, Contents, Requests, Garbage, Critical, clientVars,
              taVars, linkVars
  <1>2. ASSUME NEW t \in Threads, Call(t) PROVE Call_Abstract!Call(t)
    BY <1>2 DEF Call, Call_Abstract!Call, Call_Abstract!NoRequest
  <1>3. ASSUME NEW t \in Threads, Lock(t) \/ CopyIn(t) \/ Notify(t) PROVE Same
    BY <1>3 DEF Lock, CopyIn, Notify
  <1>4. ASSUME NEW t \in Threads, NotifyError(t) \/ Wait(t) PROVE Same
    BY <1>4 DEF NotifyError, Wait, WaitOk, WaitError, WaitGivesUp, Fail
  <1>5. ASSUME NEW t \in Threads, CopyOut(t) PROVE Same
    BY <1>5 DEF CopyOut
  <1>6. ASSUME NEW t \in Threads, Unlock(t)
        PROVE  Call_Abstract!ReturnOk(t) \/ Call_Abstract!ReturnError(t)
    <2>1. CASE ret[t] = "ok"
      <3>1. Own(t) /\ runs[req[t]] = 1
        BY <1>6, <2>1 DEF Unlock, HandshakeInv, PromptInv
      <3>2. reply[t].by = req[t] /\ reply[t].done
        BY <3>1 DEF Own
      <3>3. ans' = [ans EXCEPT ![t] = req[t]]
        BY <1>6, <2>1, <3>2 DEF Unlock
      <3>4. stg[t] = "called" /\ stg' = [stg EXCEPT ![t] = "idle"]
        BY <1>6 DEF Unlock
      <3>5. UNCHANGED <<calls, req, runs>>
        BY <1>6 DEF Unlock
      <3> QED
        BY <3>1, <3>3, <3>4, <3>5 DEF Call_Abstract!ReturnOk
    <2>2. CASE ret[t] # "ok"
      BY <1>6, <2>2 DEF Unlock, Call_Abstract!ReturnError
    <2> QED
      BY <2>1, <2>2
  <1>7. CASE TaCopy
    <2>1. PICK t \in Threads : pc[t] = "wait" /\ Copied(t) /\ in = req[t]
      BY <1>7 DEF TaCopy, MutexInv, HandshakeInv, PromptInv, Quiet, TaGone,
                  Rung, Copied, Routed, Answered, Lost
    <2>2. gin = req[t] /\ runs[req[t]] = 0
      BY <2>1 DEF Copied
    <2>3. runs' = [runs EXCEPT ![req[t]] = @ + 1]
      BY <1>7, <2>1, <2>2 DEF TaCopy
    <2>4. runs' = [runs EXCEPT ![req[t]] = 1]
      BY <2>2, <2>3
    <2>5. stg[t] = "called" /\ UNCHANGED <<calls, req, stg, ans>>
      BY <1>7, <2>1 DEF TaCopy
    <2>6. Call_Abstract!Serve(t)
      BY <2>2, <2>4, <2>5 DEF Call_Abstract!Serve
    <2> QED
      BY <2>6 DEF Call_Abstract!Next
  <1>8. CASE TaWake \/ TaRoute \/ TaDies \/ TaNotify
    BY <1>1, <1>8 DEF TaWake, TaRoute, TaDies, TaNotify
  <1>9. CASE FreeMem \/ CloseSession \/ Done \/ UNCHANGED vars
    BY <1>1, <1>9 DEF FreeMem, CloseSession, Done, vars
  <1> QED
    BY <1>1, <1>2, <1>3, <1>4, <1>5, <1>6, <1>7, <1>8, <1>9
    DEF Next, ClientStep, TaStep, Call_Abstract!Next

\* With a TA that answers within 1000 ms, kinibi_cmd implements the abstract
\* command operation: one execution, one own answer or an error.
THEOREM Refinement ==
  ASSUME ~Timeouts
  PROVE  Spec => ImplementsTeeCall
  <1>1. Init => Call_Abstract!Init
    BY DEF Init, Call_Abstract!Init, Call_Abstract!NoRequest, Contents,
           Requests, Garbage, Call_Abstract!Contents, Call_Abstract!Requests
  <1>2. IInv /\ IInv' /\ [Next]_vars => [Call_Abstract!Next]_(Call_Abstract!vars)
    BY StepImplements
  <1> QED
    BY <1>1, <1>2, Invariant, PTL DEF Spec, ImplementsTeeCall, Call_Abstract!Spec

---------------------------------------------------------------------------
(* After a timeout.                                                        *)

\* A call that found the link quiet and has returned 0.
Served(t) == quiet[t] /\ ret[t] = "ok" /\ pc[t] \in {"unlock", "idle"}

\* Such a call has had its request executed once, and it is never executed
\* again: not by the late work of earlier calls, nor by rings that later calls
\* leave behind when they time out.
QuietCallRunsOnce == \A t \in Threads : Served(t) => runs[req[t]] = 1

\* The request is out of the TA's copy, and while the buffer still holds it
\* nobody rings.
Settled ==
  \A t \in Threads : Served(t) =>
    /\ req[t] # Garbage /\ runs[req[t]] = 1
    /\ ta = "copy" => gin # req[t]
    /\ in = req[t] => Quiet /\ mutex \in {NoThread, t}

LEMMA SettledStep ==
  ASSUME IInv, IInv', Settled, [Next]_vars
  PROVE  Settled'
  <1> USE DEF Settled, Served, Garbage, clientVars, taVars, linkVars
  <1>1. ASSUME NEW t \in Threads, Call(t) PROVE Settled'
    BY <1>1 DEF Call, Quiet, TaGone, IInv, TypeOK
  <1>2. ASSUME NEW t \in Threads, Lock(t) PROVE Settled'
    <2>1. /\ in' = Garbage /\ pc'[t] = "copy_in"
          /\ \A u \in Threads : u # t => pc'[u] = pc[u] /\ quiet'[u] = quiet[u]
          /\ UNCHANGED <<req, ret, runs, ta, gin>>
      BY <1>2 DEF Lock, IInv, TypeOK
    <2> QED
      BY <2>1
  <1>3. ASSUME NEW t \in Threads, CopyIn(t) PROVE Settled'
    <2>1. /\ in' = req[t] /\ pc'[t] = "notify"
          /\ \A u \in Threads : u # t => pc'[u] = pc[u]
          /\ UNCHANGED <<req, ret, quiet, runs, ta, gin, mutex>>
      BY <1>3 DEF CopyIn, IInv, TypeOK
    <2>2. \A u \in Threads : u # t /\ req[u] > 0 => req[u] # req[t]
      BY DEF IInv, FreshInv
    <2>3. \A u \in Threads : req[u] # Garbage => req[u] > 0
      BY DEF IInv, TypeOK, Contents, Requests
    <2> QED
      BY <2>1, <2>2, <2>3
  <1>4. ASSUME NEW t \in Threads,
               Notify(t) \/ NotifyError(t) \/ WaitGivesUp(t) \/ WaitError(t)
                 \/ WaitOk(t)
        PROVE  Settled'
    <2>1. /\ mutex = t /\ pc[t] \in {"notify", "wait"}
          /\ pc'[t] \in {"wait", "unlock", "copy_out"}
          /\ pc'[t] = "unlock" => ret'[t] = "err"
          /\ \A u \in Threads : u # t => pc'[u] = pc[u] /\ ret'[u] = ret[u]
          /\ UNCHANGED <<req, quiet, runs, ta, gin, in, mutex>>
      BY <1>4 DEF Notify, NotifyError, WaitGivesUp, WaitError, WaitOk, Fail, IInv,
                  TypeOK, MutexInv, Critical
    <2>2. ASSUME NEW u \in Threads, Served(u)' PROVE u # t /\ Served(u) /\ in # req[u]
      <3>1. u # t /\ Served(u)
        BY <2>1, <2>2
      <3>2. mutex \notin {NoThread, u}
        BY <2>1, <3>1
      <3> QED
        BY <3>1, <3>2
    <2> QED
      BY <2>1, <2>2
  <1>5. ASSUME NEW t \in Threads, CopyOut(t) PROVE Settled'
    <2>1. /\ mutex = t /\ pc[t] = "copy_out" /\ pc'[t] = "unlock"
          /\ \A u \in Threads : u # t => pc'[u] = pc[u]
          /\ UNCHANGED <<req, ret, quiet, runs, ta, gin, in, mutex, toTa, toClient>>
      BY <1>5 DEF CopyOut, IInv, TypeOK, MutexInv, Critical
    <2>2. quiet[t] => Quiet /\ runs[req[t]] = 1 /\ ta # "copy"
      BY <2>1 DEF IInv, HandshakeInv, Quiet, TaGone
    <2>3. req[t] # Garbage
      BY <2>1 DEF IInv, FreshInv
    <2> QED
      BY <2>1, <2>2, <2>3 DEF Quiet, TaGone
  <1>6. ASSUME NEW t \in Threads, Unlock(t) PROVE Settled'
    <2>1. /\ pc[t] = "unlock" /\ mutex' = NoThread
          /\ \A u \in Threads : pc'[u] = IF u = t THEN "idle" ELSE pc[u]
          /\ UNCHANGED <<req, ret, quiet, runs, ta, gin, in, toTa, toClient>>
      BY <1>6 DEF Unlock, IInv, TypeOK
    <2> QED
      BY <2>1 DEF Quiet, TaGone
  <1>7. CASE TaWake
    <2>1. /\ ta = "idle" /\ toTa > 0 /\ gin' = in
          /\ UNCHANGED <<pc, req, ret, quiet, runs, in, mutex>>
      BY <1>7 DEF TaWake
    <2>2. ~Quiet
      BY <2>1 DEF Quiet, TaGone, IInv, TypeOK
    <2> QED
      BY <2>1, <2>2
  <1>8. CASE TaCopy
    <2>1. /\ ta = "copy" /\ ta' = "route"
          /\ UNCHANGED <<pc, req, ret, quiet, in, mutex>>
      BY <1>8 DEF TaCopy
    <2>2. PICK c \in {gin, in, Garbage} : runs' = [runs EXCEPT ![c] = @ + 1]
      BY <1>8 DEF TaCopy
    <2>3. ~Quiet
      BY <2>1 DEF Quiet, TaGone
    <2>4. ASSUME NEW u \in Threads, Served(u) PROVE runs'[req[u]] = 1 /\ in # req[u]
      <3>1. /\ gin # req[u] /\ in # req[u] /\ Garbage # req[u]
            /\ runs[req[u]] = 1
        BY <2>1, <2>3, <2>4
      <3>2. runs \in [Contents -> Nat] /\ req[u] \in Contents
        BY DEF IInv, TypeOK
      <3> QED
        BY <2>2, <3>1, <3>2
    <2> QED
      BY <2>1, <2>4
  <1>9. CASE TaRoute \/ TaDies \/ TaNotify
    <2>1. /\ ta \in {"route", "notify"} /\ ta' # "copy"
          /\ UNCHANGED <<pc, req, ret, quiet, runs, in, gin, mutex>>
      BY <1>9 DEF TaRoute, TaDies, TaNotify
    <2>2. ~Quiet
      BY <2>1 DEF Quiet, TaGone
    <2> QED
      BY <2>1, <2>2
  <1>10. CASE FreeMem \/ CloseSession
    BY <1>10 DEF FreeMem, CloseSession, Quiet, TaGone
  <1>11. CASE Done \/ UNCHANGED vars
    BY <1>11 DEF Done, vars, Quiet, TaGone
  <1> QED
    BY <1>1, <1>2, <1>3, <1>4, <1>5, <1>6, <1>7, <1>8, <1>9, <1>10, <1>11
    DEF Next, ClientStep, Wait, TaStep

\* Also when calls time out before it and after it: a call that found the link
\* quiet and returned 0 has its request executed exactly once
\* (QuietCallRunsOnce).
THEOREM ExactlyOnce == Spec => []QuietCallRunsOnce
  <1>1. Init => Settled
    BY DEF Init, Settled, Served
  <1>2. IInv /\ IInv' /\ Settled /\ [Next]_vars => Settled'
    BY SettledStep
  <1>3. Settled => QuietCallRunsOnce
    BY DEF Settled, QuietCallRunsOnce
  <1> QED
    BY <1>1, <1>2, <1>3, Invariant, PTL DEF Spec

\* The link is free and quiet: the next call gets its own answer.
Recovered == mutex = NoThread /\ Quiet

\* A link that has become quiet again after late answers stays so while it is
\* free, the thread that takes it finds it quiet, and leaves it quiet unless its
\* own call fails.
StaysRecovered ==
  /\ Recovered => Recovered' \/ \E t \in Threads : mutex' = t /\ quiet'[t]
  /\ \A t \in Threads :
       mutex = t /\ quiet[t] /\ mutex' = NoThread => Recovered' \/ ret[t] # "ok"

\* Once quiet again, the link works until the next call that fails.  After a
\* timeout it gets there when the doorbells hold one ring: that of a late answer
\* and that of the next merge.  With deeper ones see NeverQuietAgain.
THEOREM RecoveryLasts == Spec => [][StaysRecovered]_vars
  <1>1. IInv /\ [Next]_vars => [StaysRecovered]_vars
    <2> SUFFICES ASSUME IInv, Next, ~UNCHANGED vars PROVE StaysRecovered
      OBVIOUS
    <2> USE DEF clientVars, taVars, linkVars
    <2>1. CASE UNCHANGED <<mutex, quiet, ta, toTa, toClient>>
      BY <2>1 DEF StaysRecovered, Recovered, Quiet, TaGone, IInv, TypeOK
    <2>2. ASSUME NEW t \in Threads, Call(t) \/ CopyIn(t) \/ CopyOut(t)
          PROVE  UNCHANGED <<mutex, quiet, ta, toTa, toClient>>
      BY <2>2 DEF Call, CopyIn, CopyOut
    <2>3. ASSUME NEW t \in Threads,
                 Notify(t) \/ NotifyError(t) \/ Wait(t)
          PROVE  StaysRecovered
      <3>1. mutex = t /\ mutex # NoThread /\ mutex' = mutex
        BY <2>3 DEF Notify, NotifyError, Wait, WaitOk, WaitGivesUp, WaitError, Fail,
                    IInv, MutexInv, Critical
      <3> QED
        BY <3>1 DEF StaysRecovered, Recovered
    <2>4. ASSUME NEW t \in Threads, Lock(t) PROVE StaysRecovered
      <3>1. mutex = NoThread /\ mutex' = t /\ t # NoThread
        BY <2>4 DEF Lock
      <3>2. quiet'[t] <=> Quiet
        BY <2>4, LockRecords DEF IInv
      <3> QED
        BY <3>1, <3>2 DEF StaysRecovered, Recovered
    <2>5. ASSUME NEW t \in Threads, Unlock(t) PROVE StaysRecovered
      <3>1. /\ mutex = t /\ t # NoThread /\ pc[t] = "unlock" /\ mutex' = NoThread
            /\ UNCHANGED <<ta, toTa, toClient>>
        BY <2>5 DEF Unlock, IInv, MutexInv, Critical
      <3>2. quiet[t] /\ ret[t] = "ok" => Quiet
        BY <3>1 DEF IInv, HandshakeInv
      <3> QED
        BY <3>1, <3>2 DEF StaysRecovered, Recovered, Quiet, TaGone
    <2>6. CASE TaStep
      <3>1. ~Quiet /\ mutex' = mutex
        BY <2>6 DEF TaStep, TaWake, TaCopy, TaRoute, TaDies, TaNotify, Quiet, TaGone,
                    IInv, TypeOK
      <3> QED
        BY <3>1 DEF StaysRecovered, Recovered, IInv, TypeOK
    <2>7. CASE FreeMem \/ CloseSession
      BY <2>7 DEF FreeMem, CloseSession, StaysRecovered, Recovered, Quiet, TaGone,
                  IInv, TypeOK
    <2>8. CASE Done
      BY <2>8 DEF Done
    <2> QED
      BY <2>1, <2>2, <2>3, <2>4, <2>5, <2>6, <2>7, <2>8 DEF Next, ClientStep
  <1> QED
    BY <1>1, Invariant, PTL DEF Spec

\* The rings under way: to the TA, with it, and back.
Rings ==
  toTa + (IF ta \in {"copy", "route", "notify"} THEN 1 ELSE 0) + toClient
Waiting == \E t \in Threads : pc[t] = "wait"

\* After a call has been abandoned there is one ring more than calls that wait
\* for it, as long as the TA lives; nobody starts on a quiet link.
OneTooMany ==
  abandoned /\ ~TaGone =>
    /\ Rings >= IF Waiting THEN 2 ELSE 1
    /\ \A t \in Threads : pc[t] \in {"copy_in", "notify", "wait"} => ~quiet[t]

\* No call that starts after an abandoned one is promised its own answer.
NoQuietStart ==
  abandoned /\ ~TaGone =>
    ~Quiet /\ \A t \in Threads : pc[t] = "copy_in" => ~quiet[t]

\* A call that waits before any is abandoned has its own ring under way.
LEMMA RingOfWaiter ==
  ASSUME IInv, ~abandoned, ~TaGone, NEW t \in Threads, pc[t] = "wait"
  PROVE  Rings >= 1
  <1>1. Rung(t) \/ Copied(t) \/ Routed(t) \/ Answered(t)
    BY DEF IInv, PromptInv, HandshakeInv, Critical, Lost
  <1> QED
    BY <1>1 DEF Rung, Copied, Routed, Answered, Rings, IInv, TypeOK

\* Only the thread in the mutex can be waiting.
LEMMA OneWaiter ==
  ASSUME IInv, NEW t \in Threads, mutex \in {t, NoThread}
  PROVE  Waiting <=> pc[t] = "wait"
  BY NoThreadAssumption DEF IInv, MutexInv, Critical, Waiting

LEMMA OneTooManyStep ==
  ASSUME NotifyCap > 1, IInv, IInv', OneTooMany, [Next]_vars
  PROVE  OneTooMany'
  <1> USE NotifyCapAssumption DEF clientVars, taVars, linkVars
  <1>1. ASSUME UNCHANGED <<abandoned, quiet, ta, toTa, toClient>>,
               \A t \in Threads : pc'[t] \in {"copy_in", "notify", "wait"} =>
                 pc[t] \in {"copy_in", "notify", "wait"},
               \A t \in Threads : pc'[t] = "wait" => pc[t] = "wait"
        PROVE  OneTooMany'
    BY <1>1 DEF OneTooMany, Rings, Waiting, TaGone, IInv, TypeOK
  <1>2. ASSUME NEW t \in Threads, Call(t) \/ CopyIn(t) \/ CopyOut(t) \/ Unlock(t)
        PROVE  OneTooMany'
    BY <1>1, <1>2 DEF Call, CopyIn, CopyOut, Unlock, IInv, TypeOK
  <1>3. ASSUME NEW t \in Threads, Lock(t) PROVE OneTooMany'
    <2>1. /\ \A u \in Threads : u # t => pc'[u] = pc[u] /\ quiet'[u] = quiet[u]
          /\ pc'[t] = "copy_in" /\ (quiet'[t] <=> Quiet)
          /\ UNCHANGED <<abandoned, ta, toTa, toClient>>
      BY <1>3, LockRecords DEF Lock, IInv, TypeOK
    <2>2. abandoned /\ ~TaGone => ~Quiet
      BY DEF OneTooMany, Rings, Quiet, TaGone, Waiting
    <2>3. Waiting' => Waiting
      BY <2>1 DEF Waiting
    <2> QED
      BY <2>1, <2>2, <2>3 DEF OneTooMany, Rings, TaGone, IInv, TypeOK
  <1>4. ASSUME NEW t \in Threads, Notify(t) PROVE OneTooMany'
    <2>1. /\ pc[t] = "notify" /\ mutex = t /\ toTa' = Bump(toTa)
          /\ \A u \in Threads : pc'[u] \in {"copy_in", "notify", "wait"} =>
               pc[u] \in {"copy_in", "notify", "wait"}
          /\ UNCHANGED <<abandoned, quiet, ta, toClient>>
      BY <1>4 DEF Notify, IInv, TypeOK, MutexInv, Critical
    <2>2. ~Waiting
      BY <2>1, OneWaiter
    <2>3. toTa' = toTa + 1 \/ toTa' >= 2
      BY <2>1 DEF Bump, IInv, TypeOK
    <2> QED
      BY <2>1, <2>2, <2>3 DEF OneTooMany, Rings, TaGone, IInv, TypeOK
  <1>5. ASSUME NEW t \in Threads, WaitOk(t) PROVE OneTooMany'
    <2>1. /\ pc[t] = "wait" /\ mutex = t /\ mutex' = t
          /\ pc' = [pc EXCEPT ![t] = "copy_out"]
          /\ toClient > 0 /\ toClient' = toClient - 1
          /\ UNCHANGED <<abandoned, quiet, ta, toTa>>
      BY <1>5 DEF WaitOk, IInv, MutexInv, Critical
    <2>2. Waiting /\ ~Waiting'
      BY <2>1, NoThreadAssumption DEF Waiting, IInv, TypeOK, MutexInv, Critical
    <2>3. \A u \in Threads : pc'[u] \in {"copy_in", "notify", "wait"} =>
            pc[u] \in {"copy_in", "notify", "wait"}
      BY <2>1 DEF IInv, TypeOK
    <2> QED
      BY <2>1, <2>2, <2>3 DEF OneTooMany, Rings, TaGone, IInv, TypeOK
  <1>6. ASSUME NEW t \in Threads, WaitGivesUp(t) PROVE OneTooMany'
    <2>1. /\ pc[t] = "wait" /\ mutex = t /\ ~TaGone
          /\ pc' = [pc EXCEPT ![t] = "unlock"]
          /\ UNCHANGED <<quiet, ta, toTa, toClient>>
      BY <1>6 DEF WaitGivesUp, Fail, clientVars, IInv, MutexInv, Critical
    <2>2. \A u \in Threads : pc'[u] \notin {"copy_in", "notify", "wait"}
      BY <2>1, NoThreadAssumption DEF IInv, TypeOK, MutexInv, Critical
    <2>3. Rings >= 1
      <3>1. CASE abandoned
        BY <2>1, <3>1 DEF OneTooMany, Waiting, Rings, IInv, TypeOK
      <3> QED
        BY <2>1, <3>1, RingOfWaiter
    <2> QED
      BY <2>1, <2>2, <2>3 DEF OneTooMany, Rings, Waiting, TaGone
  <1>7. ASSUME NEW t \in Threads, NotifyError(t) \/ WaitError(t) PROVE OneTooMany'
    BY <1>7 DEF NotifyError, WaitError, Fail, TaGone, OneTooMany
  <1>8. CASE TaStep
    <2>1. /\ UNCHANGED <<pc, abandoned, quiet>>
          /\ TaGone' \/ Rings' >= Rings \/ toClient' >= 2
      BY <1>8 DEF TaStep, TaWake, TaCopy, TaRoute, TaDies, TaNotify, TaGone, Bump,
                  Rings, IInv, TypeOK
    <2> QED
      BY <2>1, <1>8 DEF OneTooMany, Waiting, Rings, TaGone, IInv, TypeOK, TaStep,
                        TaWake, TaCopy, TaRoute, TaDies, TaNotify
  <1>9. CASE FreeMem \/ CloseSession \/ Done \/ UNCHANGED vars
    BY <1>1, <1>9 DEF FreeMem, CloseSession, Done, vars, OneTooMany, TaGone
  <1> QED
    BY <1>2, <1>3, <1>4, <1>5, <1>6, <1>7, <1>8, <1>9 DEF Next, ClientStep, Wait

\* Where a doorbell remembers more than one ring, one timeout puts the link out
\* of step for as long as the TA lives: kinibi_cmd waits for a ring, whichever,
\* and nothing takes away the one too many (NoQuietStart).
THEOREM NeverQuietAgain ==
  ASSUME NotifyCap > 1
  PROVE  Spec => []NoQuietStart
  <1>1. Init => OneTooMany
    BY DEF Init, OneTooMany
  <1>2. IInv /\ IInv' /\ OneTooMany /\ [Next]_vars => OneTooMany'
    BY OneTooManyStep
  <1>3. OneTooMany => NoQuietStart
    BY DEF OneTooMany, NoQuietStart, Rings, Quiet, TaGone, Waiting
  <1> QED
    BY <1>1, <1>2, <1>3, Invariant, PTL DEF Spec
=============================================================================
