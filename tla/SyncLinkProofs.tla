--------------------------- MODULE SyncLinkProofs ---------------------------
(***************************************************************************)
(* For any number of threads and calls, and for each of the three blocking *)
(* links: a call that returns 0 has the answer to its own request, and the *)
(* link implements TeeCall.                                                *)
(***************************************************************************)
EXTENDS SyncLink, TLAPS

\* The two sides are built from the same headers where a refusal would not be
\* reported, and `out` lies where the answer goes.
Sound ==
  /\ "isee" \in Tees => Contiguous
  /\ "qsee" \in Tees => "refused" \notin Failures["qsee"]

\* The thread between lock and unlock, and no other, holds the mutex.
Exclusion == \A t \in Threads : pc[t] \in Critical <=> mutex = t

\* A request belongs to one call, and what has not been asked has not run.
Numbered ==
  /\ \A t \in Threads : req[t] <= calls /\ (pc[t] # "idle" => req[t] # NoRequest)
  /\ \A t, u \in Threads : t # u /\ req[t] = req[u] => req[t] = NoRequest
  /\ \A r \in Requests : calls < r => runs[r] = 0

\* What the steps of one call have done so far.
Progress(t) ==
  /\ pc[t] \in {"lock", "point", "copyin", "invoke", "run"} =>
       ret[t] = "none" /\ runs[req[t]] = 0
  /\ pc[t] \in {"copyin", "copyout"} => tee = "gp"
  /\ pc[t] = "point" => tee = "isee"
  /\ pc[t] = "invoke" /\ tee = "gp" => inMem = req[t]
  /\ pc[t] \in {"invoke", "run"} /\ tee = "isee" => gCmd = t
  /\ pc[t] = "run" => gin = req[t]
  /\ pc[t] = "result" =>
       /\ ret[t] = "none"
       /\ runs[req[t]] = 1
       /\ IF tee = "gp" THEN outMem = req[t] ELSE Delivers => out[t] = req[t]
  /\ pc[t] = "copyout" /\ ret[t] = "ok" => outMem = req[t] /\ runs[req[t]] = 1
  /\ pc[t] \in {"copyout", "unlock"} => ret[t] # "none"
  /\ Sound /\ pc[t] \in {"unlock", "idle"} /\ ret[t] = "ok" =>
       out[t] = req[t] /\ runs[req[t]] = 1

IInv ==
  /\ TypeOK
  /\ Exclusion
  /\ Numbered
  /\ \A t \in Threads : Progress(t)

\* What a call does first under the mutex depends on its back end.
LEMMA FirstSteps ==
  ASSUME tee \in Tees
  PROVE  /\ First \in {"point", "copyin", "invoke"}
         /\ First = "point" => tee = "isee"
         /\ First = "copyin" => tee = "gp"
         /\ First = "invoke" => tee = "qsee"
<1>1. tee \in {"qsee", "isee", "gp"}
  BY FailuresAssumption
<1> QED
  BY <1>1 DEF First

LEMMA InitIInv == Init => IInv
<1> SUFFICES ASSUME Init PROVE IInv
  OBVIOUS
<1>1. TypeOK
  BY MaxCallsAssumption DEF Init, TypeOK, Contents, NoRequest
<1>2. Exclusion
  BY NoThreadAssumption DEF Init, Exclusion, Critical
<1>3. Numbered
  BY MaxCallsAssumption DEF Init, Numbered, NoRequest, Requests, Contents
<1>4. \A t \in Threads : Progress(t)
  BY DEF Init, Progress
<1> QED
  BY <1>1, <1>2, <1>3, <1>4 DEF IInv

\* Each action keeps the invariant: the types, the exclusion, the numbering,
\* and for every thread the record of its call.
LEMMA NextIInv == IInv /\ [Next]_vars => IInv'
<1> SUFFICES ASSUME IInv, [Next]_vars PROVE IInv'
  OBVIOUS
<1> USE DEF IInv, TypeOK, Goto, Contents, Requests, NoRequest, taVars
<1>1. ASSUME NEW t \in Threads, Call(t) PROVE IInv'
  <2>1. TypeOK'
    BY <1>1, MaxCallsAssumption DEF Call
  <2>2. Exclusion'
    BY <1>1, MaxCallsAssumption DEF Call, Exclusion, Critical
  <2>3. Numbered'
    BY <1>1, MaxCallsAssumption DEF Call, Numbered
  <2>4. \A u \in Threads : Progress(u)'
    BY <1>1, MaxCallsAssumption DEF Call, Numbered, Progress, Sound, Delivers
  <2> QED
    BY <2>1, <2>2, <2>3, <2>4
<1>2. ASSUME NEW t \in Threads, Lock(t) PROVE IInv'
  <2>1. TypeOK'
    BY <1>2, FirstSteps, NoThreadAssumption DEF Lock, Critical
  <2>2. Exclusion'
    BY <1>2, FirstSteps, NoThreadAssumption DEF Lock, Exclusion, Critical
  <2>3. Numbered'
    BY <1>2, FirstSteps DEF Lock, Numbered
  <2>4. ASSUME NEW u \in Threads PROVE Progress(u)'
    BY <1>2, FirstSteps, NoThreadAssumption
      DEF Lock, Exclusion, Critical, Numbered, Progress, Sound, Delivers
  <2> QED
    BY <2>1, <2>2, <2>3, <2>4
<1>3. ASSUME NEW t \in Threads, CopyIn(t) PROVE IInv'
  <2>1. TypeOK'
    BY <1>3, NoThreadAssumption DEF CopyIn, Critical
  <2>2. Exclusion'
    BY <1>3, NoThreadAssumption DEF CopyIn, Exclusion, Critical
  <2>3. Numbered'
    BY <1>3 DEF CopyIn, Numbered
  <2>4. ASSUME NEW u \in Threads PROVE Progress(u)'
    BY <1>3, NoThreadAssumption DEF CopyIn, Exclusion, Critical, Numbered, Progress,
       Sound, Delivers
  <2> QED
    BY <2>1, <2>2, <2>3, <2>4
<1>12. ASSUME NEW t \in Threads, Point(t) PROVE IInv'
  <2>1. TypeOK'
    BY <1>12, NoThreadAssumption DEF Point, Critical
  <2>2. Exclusion'
    BY <1>12, NoThreadAssumption DEF Point, Exclusion, Critical
  <2>3. Numbered'
    BY <1>12 DEF Point, Numbered
  <2>4. ASSUME NEW u \in Threads PROVE Progress(u)'
    BY <1>12, NoThreadAssumption DEF Point, Exclusion, Critical, Numbered, Progress,
       Sound, Delivers
  <2> QED
    BY <2>1, <2>2, <2>3, <2>4
<1>4. ASSUME NEW t \in Threads, Lost(t) PROVE IInv'
  <2>1. TypeOK'
    BY <1>4, NoThreadAssumption DEF Lost, Returns, Critical
  <2>2. Exclusion'
    BY <1>4, NoThreadAssumption DEF Lost, Returns, Exclusion, Critical
  <2>3. Numbered'
    BY <1>4 DEF Lost, Returns, Numbered
  <2>4. ASSUME NEW u \in Threads PROVE Progress(u)'
    BY <1>4, NoThreadAssumption
      DEF Lost, Returns, Exclusion, Critical, Numbered, Progress,
          Sound, Delivers
  <2> QED
    BY <2>1, <2>2, <2>3, <2>4
<1>5. ASSUME NEW t \in Threads, Refused(t) PROVE IInv'
  <2>1. TypeOK'
    BY <1>5, NoThreadAssumption DEF Refused, Returns, Critical
  <2>2. Exclusion'
    BY <1>5, NoThreadAssumption DEF Refused, Returns, Exclusion, Critical
  <2>3. Numbered'
    BY <1>5 DEF Refused, Returns, Numbered
  <2>4. ASSUME NEW u \in Threads PROVE Progress(u)'
    BY <1>5, NoThreadAssumption
      DEF Refused, Returns, Exclusion, Critical, Numbered, Progress,
          Sound, Delivers
  <2> QED
    BY <2>1, <2>2, <2>3, <2>4
<1>6. ASSUME NEW t \in Threads, Enter(t) PROVE IInv'
  <2>1. TypeOK'
    BY <1>6, NoThreadAssumption DEF Enter, Subject, Progress, Critical
  <2>2. Exclusion'
    BY <1>6, NoThreadAssumption DEF Enter, Subject, Exclusion, Critical
  <2>3. Numbered'
    BY <1>6 DEF Enter, Subject, Numbered
  <2>4. ASSUME NEW u \in Threads PROVE Progress(u)'
    BY <1>6, NoThreadAssumption
      DEF Enter, Subject, Exclusion, Critical, Numbered, Progress, Sound, Delivers
  <2> QED
    BY <2>1, <2>2, <2>3, <2>4
<1>7. ASSUME NEW t \in Threads, Run(t) PROVE IInv'
  <2>1. TypeOK'
    BY <1>7, NoThreadAssumption DEF Run, Subject, Progress, Critical
  <2>2. Exclusion'
    BY <1>7, NoThreadAssumption DEF Run, Subject, Exclusion, Critical
  <2>3. Numbered'
    BY <1>7 DEF Run, Subject, Numbered, Progress
  <2>4. ASSUME NEW u \in Threads PROVE Progress(u)'
    BY <1>7, NoThreadAssumption
      DEF Run, Subject, Exclusion, Critical, Numbered, Progress, Sound, Delivers
  <2> QED
    BY <2>1, <2>2, <2>3, <2>4
<1>8. ASSUME NEW t \in Threads, Result(t) PROVE IInv'
  <2>1. TypeOK'
    BY <1>8, NoThreadAssumption DEF Result, Returns, Critical
  <2>2. Exclusion'
    BY <1>8, NoThreadAssumption DEF Result, Returns, Exclusion, Critical
  <2>3. Numbered'
    BY <1>8 DEF Result, Returns, Numbered
  <2>4. ASSUME NEW u \in Threads PROVE Progress(u)'
    BY <1>8, NoThreadAssumption
      DEF Result, Returns, Exclusion, Critical, Numbered, Progress,
          Sound, Delivers
  <2> QED
    BY <2>1, <2>2, <2>3, <2>4
<1>9. ASSUME NEW t \in Threads, CopyOut(t) PROVE IInv'
  <2>1. TypeOK'
    BY <1>9, NoThreadAssumption DEF CopyOut, Critical
  <2>2. Exclusion'
    BY <1>9, NoThreadAssumption DEF CopyOut, Exclusion, Critical
  <2>3. Numbered'
    BY <1>9 DEF CopyOut, Numbered
  <2>4. ASSUME NEW u \in Threads PROVE Progress(u)'
    BY <1>9, NoThreadAssumption DEF CopyOut, Exclusion, Critical, Numbered, Progress,
       Sound, Delivers
  <2> QED
    BY <2>1, <2>2, <2>3, <2>4
<1>10. ASSUME NEW t \in Threads, Unlock(t) PROVE IInv'
  <2>1. TypeOK'
    BY <1>10, NoThreadAssumption DEF Unlock, Critical
  <2>2. Exclusion'
    BY <1>10, NoThreadAssumption DEF Unlock, Exclusion, Critical
  <2>3. Numbered'
    BY <1>10 DEF Unlock, Numbered
  <2>4. ASSUME NEW u \in Threads PROVE Progress(u)'
    BY <1>10, NoThreadAssumption DEF Unlock, Exclusion, Critical, Numbered, Progress,
       Sound, Delivers
  <2> QED
    BY <2>1, <2>2, <2>3, <2>4
<1>11. CASE Done \/ UNCHANGED vars
  BY <1>11 DEF Done, vars, clientVars, taVars, Exclusion, Numbered, Progress,
              Sound, Delivers
<1> QED
  BY <1>1, <1>2, <1>3, <1>4, <1>5, <1>6, <1>7, <1>8, <1>9, <1>10, <1>11, <1>12
  DEF Next, Step

LEMMA Invariant == Spec => []IInv
<1>1. Init => IInv
  BY InitIInv
<1>2. IInv /\ [Next]_vars => IInv'
  BY NextIInv
<1> QED
  BY <1>1, <1>2, PTL DEF Spec

\* The variables keep their types, and no request reaches a command function
\* twice, whatever fails (SyncLink.TypeOK).
THEOREM TypeCorrect == Spec => []TypeOK
<1>1. IInv => TypeOK
  BY DEF IInv
<1> QED
  BY <1>1, Invariant, PTL

\* Any number of threads, any of the three links: a call that returns 0 has its
\* own answer and keeps it (SyncLink.OkCallGetsOwnReply).
THEOREM OwnReply == Sound /\ Spec => []OkCallGetsOwnReply
<1> SUFFICES ASSUME Sound PROVE Spec => []OkCallGetsOwnReply
  OBVIOUS
<1>1. IInv => OkCallGetsOwnReply
  BY DEF IInv, Progress, OkCallGetsOwnReply, Answered
<1> QED
  BY <1>1, Invariant, PTL

---------------------------------------------------------------------------
(* Nobody else's answer.                                                   *)

\* A request is counted among those of its thread, and `out` is nobody else's:
\* only GP copies what it has not asked for.
Owned ==
  \A t \in Threads :
    /\ req[t] # NoRequest => req[t] \in mine[t]
    /\ tee # "gp" => out[t] \in mine[t] \union {NoRequest}

LEMMA InitOwned == Init => Owned
BY DEF Init, Owned, NoRequest

LEMMA NextOwned == IInv /\ Owned /\ [Next]_vars => Owned'
<1> SUFFICES ASSUME IInv, Owned, [Next]_vars PROVE Owned'
  OBVIOUS
<1> USE DEF IInv, TypeOK, NoRequest, taVars
<1>1. ASSUME NEW t \in Threads, Call(t) PROVE Owned'
  BY <1>1 DEF Call, Owned
<1>2. ASSUME NEW t \in Threads, Lock(t) \/ Point(t) \/ CopyIn(t) \/ Enter(t) \/ Unlock(t)
      PROVE  Owned'
  BY <1>2 DEF Lock, Point, CopyIn, Enter, Unlock, Owned
<1>3. ASSUME NEW t \in Threads, Lost(t) \/ Refused(t) \/ Result(t) PROVE Owned'
  BY <1>3 DEF Lost, Refused, Result, Returns, Owned
<1>4. ASSUME NEW t \in Threads, Run(t) PROVE Owned'
  <2>1. gin = req[t] /\ req[t] \in mine[t]
    BY <1>4 DEF Run, Subject, Progress, Numbered, Owned
  <2>2. tee # "gp" => out' = out \/ out' = [out EXCEPT ![t] = req[t]]
    BY <1>4, <2>1 DEF Run, Subject, Progress
  <2>3. UNCHANGED <<tee, req, mine>>
    BY <1>4 DEF Run, Subject
  <2> QED
    BY <2>1, <2>2, <2>3 DEF Owned
<1>5. ASSUME NEW t \in Threads, CopyOut(t) PROVE Owned'
  <2>1. tee = "gp"
    BY <1>5 DEF CopyOut, Progress
  <2> QED
    BY <1>5, <2>1 DEF CopyOut, Owned
<1>6. CASE Done \/ UNCHANGED vars
  BY <1>6 DEF Done, vars, clientVars, taVars, Owned
<1> QED
  BY <1>1, <1>2, <1>3, <1>4, <1>5, <1>6 DEF Next, Step

\* Over QSEE and ISEE `out` never shows a thread the answer to another's
\* request, whatever failed, and wherever `out` lies (SyncLink.NoForeignAnswer).
THEOREM NobodyElses == Spec => []NoForeignAnswer
<1>1. Init => IInv /\ Owned
  BY InitIInv, InitOwned
<1>2. IInv /\ Owned /\ [Next]_vars => IInv' /\ Owned'
  BY NextIInv, NextOwned
<1>3. Owned => NoForeignAnswer
  BY DEF Owned, NoForeignAnswer
<1> QED
  BY <1>1, <1>2, <1>3, PTL DEF Spec

\* While a call is under way, one thread is inside the critical section, where
\* each step can be taken, or the mutex can be had: no path leaves it locked.
NobodyStuck ==
  (\E t \in Threads : pc[t] # "idle") =>
    \E t \in Threads : pc[t] \in Critical \/ (pc[t] = "lock" /\ mutex = NoThread)

\* While a call is under way, its thread or the one that holds the mutex can go
\* on: no error path of the three back ends leaves dev->mutex locked
\* (the part of EveryCallReturns that is about states).
THEOREM NeverStuck == Spec => []NobodyStuck
<1>1. IInv => NobodyStuck
  <2> SUFFICES ASSUME IInv, NEW t \in Threads, pc[t] # "idle"
               PROVE  \E u \in Threads :
                         \/ pc[u] \in Critical
                         \/ pc[u] = "lock" /\ mutex = NoThread
    BY DEF NobodyStuck
  <2>1. CASE mutex = NoThread
    BY <2>1, NoThreadAssumption DEF IInv, TypeOK, Exclusion
  <2>2. CASE mutex \in Threads
    BY <2>2 DEF IInv, Exclusion
  <2> QED
    BY <2>1, <2>2 DEF IInv, TypeOK
<1> QED
  BY <1>1, Invariant, PTL

\* How much the command of a thread has before it.
ToDo == [lock |-> 7, point |-> 6, copyin |-> 6, invoke |-> 5, run |-> 4,
         result |-> 3, copyout |-> 2, unlock |-> 1, idle |-> 0]

\* While a thread is inside the critical section, it alone goes on, and only
\* towards the unlock; the others can do no more than make a call, and wait.
SectionAdvances ==
  \A t \in Threads : pc[t] \in Critical =>
    calls' > calls \/ ToDo[pc'[t]] < ToDo[pc[t]]

\* A thread that has the mutex is in nobody's way for longer than its own few
\* steps: the part of EveryCallReturns that is about steps.
THEOREM SectionEnds == Spec => [][SectionAdvances]_vars
<1>1. IInv /\ [Next]_vars => [SectionAdvances]_vars
  <2> SUFFICES ASSUME IInv, Next, ~UNCHANGED vars, NEW t \in Threads, pc[t] \in Critical
               PROVE  calls' > calls \/ ToDo[pc'[t]] < ToDo[pc[t]]
    BY DEF SectionAdvances
  <2> USE DEF IInv, TypeOK, Goto, taVars
  <2>1. mutex = t /\ mutex # NoThread /\ \A u \in Threads : pc[u] \in Critical => u = t
    BY NoThreadAssumption DEF Exclusion
  <2>2. ASSUME NEW u \in Threads, Call(u) PROVE calls' > calls
    BY <2>2, MaxCallsAssumption DEF Call, Contents, NoRequest, Requests
  <2>3. ASSUME NEW u \in Threads, Step(u) PROVE ToDo[pc'[t]] < ToDo[pc[t]]
    <3>1. u = t
      BY <2>1, <2>3 DEF Step, Lock, Point, CopyIn, Lost, Refused, Enter, Run, Result,
                        CopyOut, Unlock, Critical
    <3>2. CASE Point(t) \/ CopyIn(t) \/ Enter(t) \/ Run(t) \/ CopyOut(t) \/ Unlock(t)
      BY <3>2 DEF Point, CopyIn, Enter, Run, CopyOut, Unlock, ToDo
    <3>3. CASE Lost(t) \/ Refused(t) \/ Result(t)
      BY <3>3 DEF Lost, Refused, Result, Returns, ToDo
    <3> QED
      BY <2>1, <2>3, <3>1, <3>2, <3>3 DEF Step, Lock
  <2> QED
    BY <2>2, <2>3 DEF Next, Done
<1> QED
  BY <1>1, Invariant, PTL DEF Spec

---------------------------------------------------------------------------
(* The link implements TeeCall.                                            *)

\* Run serves the request, Unlock returns its answer or an error, Call is the
\* call; the other steps are inside.
LEMMA StepImplements ==
  ASSUME Sound, IInv, IInv', [Next]_vars
  PROVE  [Call_Abstract!Next]_(Call_Abstract!vars)
<1> DEFINE stg == [t \in Threads |-> IF pc[t] = "idle" THEN "idle" ELSE "called"]
           ans == [t \in Threads |->
                     IF pc[t] = "idle" /\ ret[t] = "ok" THEN out[t] ELSE NoRequest]
           Same == calls' = calls /\ stg' = stg /\ req' = req
                     /\ runs' = runs /\ ans' = ans
<1>1. Same => UNCHANGED Call_Abstract!vars
  BY DEF Call_Abstract!vars
<1> USE DEF IInv, TypeOK, Contents, Requests, NoRequest, Goto, taVars
<1>2. ASSUME NEW t \in Threads, Call(t) PROVE Call_Abstract!Call(t)
  BY <1>2 DEF Call, Call_Abstract!Call, Call_Abstract!NoRequest
<1>3. ASSUME NEW t \in Threads,
             Lock(t) \/ Point(t) \/ CopyIn(t) \/ Enter(t) \/ CopyOut(t)
      PROVE  Same
  BY <1>3, FirstSteps DEF Lock, Point, CopyIn, Enter, CopyOut
<1>4. ASSUME NEW t \in Threads, Lost(t) \/ Refused(t) \/ Result(t) PROVE Same
  BY <1>4 DEF Lost, Refused, Result, Returns
<1>5. ASSUME NEW t \in Threads, Run(t) PROVE Call_Abstract!Serve(t)
  <2>1. gin = req[t] /\ runs[req[t]] = 0
    BY <1>5 DEF Run, Subject, Progress
  <2>2. runs' = [runs EXCEPT ![req[t]] = 1]
    BY <1>5, <2>1 DEF Run, Subject
  <2>3. stg[t] = "called" /\ UNCHANGED <<calls, req, stg, ans>>
    BY <1>5 DEF Run, Subject, Progress
  <2> QED
    BY <2>1, <2>2, <2>3 DEF Call_Abstract!Serve
<1>6. ASSUME NEW t \in Threads, Unlock(t)
      PROVE  Call_Abstract!ReturnOk(t) \/ Call_Abstract!ReturnError(t)
  <2>1. CASE ret[t] = "ok"
    <3>1. out[t] = req[t] /\ runs[req[t]] = 1
      BY <1>6, <2>1 DEF Unlock, Progress
    <3>2. ans' = [ans EXCEPT ![t] = req[t]]
      BY <1>6, <2>1, <3>1 DEF Unlock
    <3>3. stg[t] = "called" /\ stg' = [stg EXCEPT ![t] = "idle"]
      BY <1>6 DEF Unlock
    <3>4. UNCHANGED <<calls, req, runs>>
      BY <1>6 DEF Unlock
    <3> QED
      BY <3>1, <3>2, <3>3, <3>4 DEF Call_Abstract!ReturnOk
  <2>2. CASE ret[t] # "ok"
    BY <1>6, <2>2 DEF Unlock, Call_Abstract!ReturnError
  <2> QED
    BY <2>1, <2>2
<1>7. CASE Done \/ UNCHANGED vars
  BY <1>1, <1>7 DEF Done, vars, clientVars, taVars
<1> QED
  BY <1>1, <1>2, <1>3, <1>4, <1>5, <1>6, <1>7
  DEF Next, Step, Call_Abstract!Next

\* Each of the three links implements the abstract command operation: one
\* execution at most, one own answer or an error (SyncLink.ImplementsTeeCall).
THEOREM Refinement == Sound /\ Spec => ImplementsTeeCall
<1> SUFFICES ASSUME Sound PROVE Spec => ImplementsTeeCall
  OBVIOUS
<1>1. Init => Call_Abstract!Init
  BY DEF Init, Call_Abstract!Init, Call_Abstract!NoRequest, Contents,
         Requests, NoRequest, Call_Abstract!Contents, Call_Abstract!Requests
<1>2. IInv /\ IInv' /\ [Next]_vars => [Call_Abstract!Next]_(Call_Abstract!vars)
  BY StepImplements
<1> QED
  BY <1>1, <1>2, Invariant, PTL DEF Spec, ImplementsTeeCall, Call_Abstract!Spec
=============================================================================
