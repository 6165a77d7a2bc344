--------------------------- MODULE RoutineProofs ---------------------------
(***************************************************************************)
(* What the tables of routines owe their callers, for any table, any       *)
(* contract and any interleaving of failures: the rules Balanced,          *)
(* Reporting, Secured, Ordered, Grounded and Forward of Routine, which can *)
(* be told from a table alone, are enough.                                 *)
(***************************************************************************)
EXTENDS Routine, TLAPS

\* The shape of a row, from CodeAssumption.
LEMMA RowTyped ==
  ASSUME NEW c \in Routines, NEW i \in Rows(c)
  PROVE  /\ Len(Code[c]) \in Nat
         /\ Code[c][i] \in RowType
         /\ Code[c][i].go \in Fall .. Len(Code[c]) + 1
         /\ Code[c][i].loop # "no" => i + 1 \in Rows(c)
<1>1. Code[c] \in Seq(RowType)
  BY CodeAssumption
<1>2. i \in 1 .. Len(Code[c])
  BY DEF Rows
<1>3. Len(Code[c]) \in Nat /\ Code[c][i] \in RowType
  BY <1>1, <1>2
<1> QED
  BY <1>3, CodeAssumption

\* Every result is one of the values.
LEMMA OutcomeTyped ==
  ASSUME NEW r \in RowType, NEW o \in Outcomes[r.kind]
  PROVE  o.val \in Values /\ o.ok \in BOOLEAN
<1>1. r.kind \in DOMAIN Outcomes
  BY DEF RowType
<1>2. DOMAIN Outcomes = {"code", "negcode", "handle", "count", "pointer",
                         "fact", "void"}
  BY DEF Outcomes
<1>3. \A k \in DOMAIN Outcomes : Outcomes[k] \subseteq [val : Values, ok : BOOLEAN]
  <2>1. \A v \in Values : Good(v) \in [val : Values, ok : BOOLEAN]
                         /\ Bad(v) \in [val : Values, ok : BOOLEAN]
    BY DEF Good, Bad
  <2>2. -1 \in Values /\ 0 \in Values /\ 1 \in Values /\ Full \in Values
    BY DEF Values, Full
  <2> QED
    BY <1>2, <2>1, <2>2 DEF Outcomes
<1>4. o \in [val : Values, ok : BOOLEAN]
  BY <1>1, <1>3
<1> QED
  BY <1>4

\* The test of a row looks at one of the values.
LEMMA TestedTyped ==
  ASSUME NEW r \in RowType, NEW o \in Outcomes[r.kind], sys \in Values
  PROVE  Tested(r, o) \in Values
BY OutcomeTyped DEF Tested

\* A call hands over no more than its row says.
LEMMA TakenIsGot ==
  ASSUME NEW r \in RowType, NEW o \in Outcomes[r.kind], NEW x \in Taken(r, o)
  PROVE  x \subseteq r.get
BY DEF Taken

\* A row adds to the resources of the routine only what it is listed with.
LEMMA GetIsResource ==
  ASSUME NEW c \in Routines, NEW i \in Rows(c)
  PROVE  Code[c][i].get \subseteq Resources
BY DEF Resources

---------------------------------------------------------------------------
(* Type correctness.                                                       *)

LEMMA InitTypeOK == Init => TypeOK
<1> SUFFICES ASSUME Init PROVE TypeOK
  OBVIOUS
<1>1. row \in Nat /\ sys \in Values /\ turn \in 0 .. Tries - 1
  BY TriesAssumption DEF Init, Values, Return
<1>2. at = None /\ status = "ok" /\ kept = {} /\ broke = {} /\ refused = FALSE
  BY DEF Init
<1> QED
  BY <1>1, <1>2 DEF TypeOK

\* The part all outcomes of a row have in common.
LEMMA PerformTyped ==
  ASSUME TypeOK, at # None, row \in Rows(at), NEW o \in Outcomes[Code[at][row].kind],
         Perform(Code[at][row], o)
  PROVE  at' = at /\ sys' \in Values /\ kept' \subseteq Resources
<1> DEFINE r == Code[at][row]
<1>1. at \in Routines
  BY DEF TypeOK
<1>2. r \in RowType
  BY <1>1, RowTyped
<1>3. o.val \in Values
  BY <1>2, OutcomeTyped
<1>4. sys' \in Values
  BY <1>3 DEF Perform, TypeOK
<1>5. PICK x \in Taken(r, o) : kept' = (kept \union x) \ r.put
  BY DEF Perform
<1>6. x \subseteq r.get
  BY <1>2, <1>5, TakenIsGot
<1>7. r.get \subseteq Resources
  BY <1>1, GetIsResource
<1>8. kept' \subseteq Resources
  BY <1>5, <1>6, <1>7 DEF TypeOK
<1> QED
  BY <1>4, <1>8 DEF Perform

LEMMA NextTypeOK == TypeOK /\ [Next]_vars => TypeOK'
<1> SUFFICES ASSUME TypeOK, [Next]_vars PROVE TypeOK'
  OBVIOUS
<1>1. ASSUME NEW c \in Routines, Start(c) PROVE TypeOK'
  <2>1. Code[c] \in Seq(RowType)
    BY CodeAssumption
  <2>2. Len(Code[c]) \in Nat
    BY <2>1
  <2>3. /\ row' \in Nat /\ row' <= Len(Code[c]) + 1
        /\ turn' \in 0 .. Tries - 1
    BY <1>1, <2>2, TriesAssumption DEF Start
  <2>4. /\ at' = c /\ status' = "ok" /\ broke' = {} /\ refused' = FALSE
        /\ sys' = sys /\ kept' = kept
    BY <1>1 DEF Start
  <2> QED
    BY <2>3, <2>4 DEF TypeOK
<1>2. CASE Step
  <2>1. /\ at # None /\ at \in Routines /\ row \in Rows(at)
    BY <1>2 DEF Step, TypeOK
  <2> DEFINE r == Code[at][row]
  <2>2. PICK o \in Outcomes[r.kind] : Pass(r, o) \/ Retry(r, o) \/ Trip(r, o)
    BY <1>2 DEF Step
  <2>3. /\ Len(Code[at]) \in Nat /\ r \in RowType
        /\ r.go \in Fall .. Len(Code[at]) + 1
        /\ r.loop # "no" => row + 1 \in Rows(at)
    BY <2>1, RowTyped
  <2>4. o.ok \in BOOLEAN
    BY <2>3, OutcomeTyped
  <2>5. row \in 1 .. Len(Code[at])
    BY <2>1 DEF Rows
  <2>6. CASE Pass(r, o)
    <3>1. at' = at /\ sys' \in Values /\ kept' \subseteq Resources
      BY <2>1, <2>6, PerformTyped DEF Pass
    <3>2. row' \in Nat /\ row' <= Len(Code[at]) + 1
      BY <2>3, <2>5, <2>6 DEF Pass, Rows
    <3>3. broke' \subseteq Nat
      BY <2>5, <2>6 DEF Pass, Failed, TypeOK
    <3> QED
      BY <2>6, <3>1, <3>2, <3>3 DEF Pass, TypeOK
  <2>7. CASE Retry(r, o)
    <3>1. at' = at /\ sys' \in Values /\ kept' \subseteq Resources
      BY <2>1, <2>7, PerformTyped DEF Retry
    <3>2. turn' \in 0 .. Tries - 1
      BY <2>7, TriesAssumption DEF Retry, TypeOK
    <3> QED
      BY <2>7, <3>1, <3>2 DEF Retry, TypeOK
  <2>8. CASE Trip(r, o)
    <3>1. at' = at /\ sys' \in Values /\ kept' \subseteq Resources
      BY <2>1, <2>8, PerformTyped DEF Trip
    <3>2. row' \in Nat /\ row' <= Len(Code[at]) + 1
      BY <2>3, <2>5, <2>8 DEF Trip, Fall
    <3>3. broke' \subseteq Nat
      BY <2>5, <2>8 DEF Trip, Failed, TypeOK
    <3>4. refused' \in BOOLEAN
      BY <2>3, <2>8 DEF Trip, TypeOK, RowType
    <3>5. status' \in {"ok", "err"}
      BY <2>8 DEF Trip, TypeOK
    <3> QED
      BY <2>8, <3>1, <3>2, <3>3, <3>4, <3>5 DEF Trip, TypeOK
  <2> QED
    BY <2>2, <2>6, <2>7, <2>8
<1>3. CASE Finish
  BY <1>3 DEF Finish, TypeOK, Return
<1>4. CASE UNCHANGED vars
  BY <1>4 DEF vars, TypeOK
<1> QED
  BY <1>1, <1>2, <1>3, <1>4 DEF Next

\* Whatever the tables, a routine stays within its rows, its resources and its
\* retries (Routine.TypeOK).
THEOREM TypeCorrect == Spec => []TypeOK
<1>1. Init => TypeOK
  BY InitTypeOK
<1>2. TypeOK /\ [Next]_vars => TypeOK'
  BY NextTypeOK
<1> QED
  BY <1>1, <1>2, PTL DEF Spec

---------------------------------------------------------------------------
(* Failures are reported.                                                  *)

\* Once a call has failed whose test reports it, the error is recorded, or the
\* row that records it whatever happens is next.
Recorded ==
  at # None =>
    \A i \in broke :
      /\ i \in Rows(at)
      /\ Reporting(at, i) =>
           \/ status = "err"
           \/ row \in Rows(at) /\ Code[at][row].bad = Values
                               /\ Code[at][row].loop = "no"

LEMMA InitRecorded == Init => Recorded
BY DEF Init, Recorded

LEMMA NextRecorded == TypeOK /\ Recorded /\ [Next]_vars => Recorded'
<1> SUFFICES ASSUME TypeOK, Recorded, [Next]_vars PROVE Recorded'
  OBVIOUS
<1>1. ASSUME NEW c \in Routines, Start(c) PROVE Recorded'
  <2>1. broke' = {}
    BY <1>1 DEF Start
  <2> QED
    BY <2>1 DEF Recorded
<1>2. CASE Step
  <2>1. /\ at # None /\ at \in Routines /\ row \in Rows(at)
    BY <1>2 DEF Step, TypeOK
  <2> DEFINE r == Code[at][row]
  <2>2. PICK o \in Outcomes[r.kind] : Pass(r, o) \/ Retry(r, o) \/ Trip(r, o)
    BY <1>2 DEF Step
  <2>3. at' = at
    BY <2>2 DEF Pass, Retry, Trip, Perform
  <2>4. /\ r \in RowType /\ r.loop \in {"no", "counted", "endless"}
    BY <2>1, RowTyped DEF RowType
  <2>5. Tested(r, o) \in Values
    BY <2>4, TestedTyped DEF TypeOK
  <2> DEFINE Told(st, n) == \/ st = "err"
                            \/ n \in Rows(at) /\ Code[at][n].bad = Values
                                              /\ Code[at][n].loop = "no"
  <2> SUFFICES ASSUME NEW i \in broke'
               PROVE  i \in Rows(at) /\ (Reporting(at, i) => Told(status', row'))
    BY <2>3 DEF Recorded
  <2>6. i \in broke \/ (i = row /\ ~o.ok /\ broke' # broke)
    BY <2>2 DEF Pass, Retry, Trip, Failed
  <2>7. i \in Rows(at)
    BY <2>1, <2>6 DEF Recorded
  <2> SUFFICES ASSUME Reporting(at, i) PROVE Told(status', row')
    BY <2>7
  <2>8. i \in broke => Told(status, row)
    BY <2>1 DEF Recorded
  <2>9. i = row /\ ~o.ok => Tested(r, o) \in r.bad
    BY <2>2 DEF Reporting, Tested
  <2>10. CASE Pass(r, o)
    <3>1. Tested(r, o) \notin r.bad /\ status' = status
      BY <2>10 DEF Pass
    <3>2. i \in broke
      BY <2>6, <2>9, <3>1
    <3>3. r.bad # Values
      BY <2>5, <3>1
    <3> QED
      BY <2>8, <3>1, <3>2, <3>3
  <2>11. CASE Retry(r, o)
    BY <2>6, <2>8, <2>11 DEF Retry
  <2>12. CASE Trip(r, o)
    <3>1. CASE r.loop = "no"
      BY <2>12, <3>1 DEF Trip
    <3>2. CASE r.loop # "no" /\ i \in broke
      <4>1. status = "err"
        BY <2>8, <3>2
      <4> QED
        BY <2>12, <4>1 DEF Trip
    <3>3. CASE r.loop # "no" /\ i = row
      <4>1. /\ row + 1 \in Rows(at) /\ r.go = Fall
            /\ Code[at][row + 1].bad = Values /\ Code[at][row + 1].loop = "no"
        BY <3>3 DEF Reporting
      <4>2. row' = row + 1
        BY <2>12, <4>1 DEF Trip
      <4> QED
        BY <4>1, <4>2
    <3> QED
      BY <2>6, <3>1, <3>2, <3>3
  <2> QED
    BY <2>2, <2>10, <2>11, <2>12
<1>3. CASE Finish
  BY <1>3 DEF Finish, Recorded
<1>4. CASE UNCHANGED vars
  BY <1>4 DEF vars, Recorded
<1> QED
  BY <1>1, <1>2, <1>3, <1>4 DEF Next

\* Deaf names exactly the calls whose failure goes unreported.
DeafListed ==
  \A c \in Routines : \A i \in Rows(c) : <<c, i>> \in Deaf <=> ~Reporting(c, i)

\* When the exceptions are listed, no routine ends with status OK over the
\* failure of any other call (Routine.FailureReported): it is enough that the
\* test of that call takes all its failures for errors, which the tables show.
THEOREM FailuresReported == DeafListed /\ Spec => []FailureReported
<1> SUFFICES ASSUME DeafListed PROVE Spec => []FailureReported
  OBVIOUS
<1>1. Init => TypeOK /\ Recorded
  BY InitTypeOK, InitRecorded
<1>2. TypeOK /\ Recorded /\ [Next]_vars => TypeOK' /\ Recorded'
  BY NextTypeOK, NextRecorded
<1>3. TypeOK /\ Recorded => FailureReported
  BY DEF TypeOK, Recorded, FailureReported, Ended, DeafListed
<1> QED
  BY <1>1, <1>2, <1>3, PTL DEF Spec

---------------------------------------------------------------------------
(* Nothing is lost.                                                        *)

\* A routine holds at its first row what its caller gave it.
LEMMA OwnFirst ==
  ASSUME NEW c \in Routines
  PROVE  Own(c, 1) = Contract[c].needs
BY DEF Own

\* One row further, a routine holds what the row got it and not what it put.
LEMMA OwnNext ==
  ASSUME NEW c \in Routines, NEW i \in Rows(c)
  PROVE  Own(c, i + 1) = (Own(c, i) \union Code[c][i].get) \ Code[c][i].put
<1>1. i \in Nat /\ i >= 1
  BY RowTyped DEF Rows
<1>2. 1 .. (i + 1) - 1 = (1 .. i - 1) \union {i}
  BY <1>1
<1>3. \A j \in 1 .. i - 1 : j .. (i + 1) - 1 = (j .. i - 1) \union {i}
  BY <1>1
<1>4. i .. (i + 1) - 1 = {i}
  BY <1>1
<1>5. Code[c][i].get \subseteq Resources
  BY GetIsResource
<1>6. ASSUME NEW x
      PROVE  x \in Own(c, i + 1) <=>
               x \in (Own(c, i) \union Code[c][i].get) \ Code[c][i].put
  <2> DEFINE Needed(n) == /\ x \in Contract[c].needs
                          /\ \A k \in 1 .. n - 1 : x \notin Code[c][k].put
             Since(j, n) == /\ x \in Code[c][j].get
                            /\ \A k \in j .. n - 1 : x \notin Code[c][k].put
             Acquired(n) == \E j \in 1 .. n - 1 : Since(j, n)
  <2>1. \A n : x \in Own(c, n) <=>
                 x \in Contract[c].needs \union Resources /\ (Needed(n) \/ Acquired(n))
    BY DEF Own
  <2>2. Needed(i + 1) <=> Needed(i) /\ x \notin Code[c][i].put
    BY <1>2
  <2>3. \A j \in 1 .. i - 1 : Since(j, i + 1) <=> Since(j, i) /\ x \notin Code[c][i].put
    BY <1>3
  <2>4. Since(i, i + 1) <=> x \in Code[c][i].get /\ x \notin Code[c][i].put
    BY <1>4
  <2>5. Acquired(i + 1) <=> \/ Acquired(i) /\ x \notin Code[c][i].put
                            \/ x \in Code[c][i].get /\ x \notin Code[c][i].put
    <3>1. Acquired(i + 1) <=> (\E j \in 1 .. i - 1 : Since(j, i + 1)) \/ Since(i, i + 1)
      BY <1>2
    <3> QED
      BY <2>3, <2>4, <3>1
  <2> QED
    BY <1>5, <2>1, <2>2, <2>5
<1> QED
  BY <1>6

\* A row that acquires takes all of it, and lets pass, or nothing, and trips.
LEMMA AllOrNothing ==
  ASSUME NEW r \in RowType, SoundGet(r), NEW o \in Outcomes[r.kind],
         NEW x \in Taken(r, o)
  PROVE  /\ o.ok => x = r.get
         /\ ~o.ok => x = {}
         /\ r.get # {} => (o.ok <=> Tested(r, o) \notin r.bad)
         /\ r.get # {} => r.loop = "no" /\ r.go # Fall /\ r.put = {}
<1>1. o.ok => x = r.get
  BY DEF Taken
<1>2. ~o.ok => x = {}
  BY DEF Taken, SoundGet
<1>3. r.get # {} => (o.ok <=> Tested(r, o) \notin r.bad)
  BY DEF SoundGet, Tested
<1> QED
  BY <1>1, <1>2, <1>3 DEF SoundGet

\* A routine whose table balances holds exactly what its row says.
Holding ==
  at # None /\ Balanced(at) =>
    kept = IF row = Return THEN Contract[at].needs ELSE Own(at, row)

LEMMA InitHolding == Init => Holding
BY DEF Init, Holding

LEMMA NextHolding == TypeOK /\ Holding /\ [Next]_vars => Holding'
<1> SUFFICES ASSUME TypeOK, Holding, [Next]_vars PROVE Holding'
  OBVIOUS
<1>1. ASSUME NEW c \in Routines, Start(c) PROVE Holding'
  <2>1. at' = c /\ row' = 1 /\ kept' = Contract[c].needs
    BY <1>1 DEF Start
  <2> QED
    BY <2>1, OwnFirst DEF Holding, Return
<1>2. CASE Step
  <2>1. /\ at # None /\ at \in Routines /\ row \in Rows(at)
    BY <1>2 DEF Step, TypeOK
  <2> DEFINE r == Code[at][row]
  <2>2. PICK o \in Outcomes[r.kind] : Pass(r, o) \/ Retry(r, o) \/ Trip(r, o)
    BY <1>2 DEF Step
  <2>3. at' = at
    BY <2>2 DEF Pass, Retry, Trip, Perform
  <2>4. PICK x \in Taken(r, o) : kept' = (kept \union x) \ r.put
    BY <2>2 DEF Pass, Retry, Trip, Perform
  <2>5. /\ r \in RowType /\ row \in Nat /\ row >= 1 /\ row # Return
    BY <2>1, RowTyped DEF Rows, Return
  <2> SUFFICES ASSUME Balanced(at)
               PROVE  kept' = IF row' = Return THEN Contract[at].needs
                                               ELSE Own(at, row')
    BY <2>3 DEF Holding
  <2>6. SoundGet(r) /\ SoundJump(at, row)
    BY <2>1 DEF Balanced
  <2>7. kept = Own(at, row)
    BY <2>1, <2>5 DEF Holding
  <2>8. Own(at, row + 1) = (Own(at, row) \union r.get) \ r.put
    BY <2>1, OwnNext
  <2>9. /\ o.ok => x = r.get
        /\ ~o.ok => x = {}
        /\ r.get # {} => (o.ok <=> Tested(r, o) \notin r.bad)
        /\ r.get # {} => r.loop = "no" /\ r.go # Fall /\ r.put = {}
    BY <2>4, <2>5, <2>6, AllOrNothing
  <2>10. CASE Pass(r, o)
    <3>1. Tested(r, o) \notin r.bad
      BY <2>10 DEF Pass
    <3>2. kept' = Own(at, row + 1)
      BY <2>4, <2>7, <2>8, <2>9, <3>1
    <3>3. r.loop # "no" => Own(at, row + 2) = Own(at, row + 1)
      BY <2>6 DEF SoundJump
    <3>4. row' = IF r.loop = "no" THEN row + 1 ELSE row + 2
      BY <2>10 DEF Pass
    <3> QED
      BY <2>5, <3>2, <3>3, <3>4 DEF Return
  <2>11. CASE Retry(r, o)
    <3>1. r.loop # "no" /\ row' = row
      BY <2>11 DEF Retry
    <3>2. r.put = {} /\ r.get = {}
      BY <2>6, <2>9, <3>1 DEF SoundJump
    <3> QED
      BY <2>4, <2>5, <2>7, <2>9, <3>1, <3>2
  <2>12. CASE Trip(r, o)
    <3>1. Tested(r, o) \in r.bad /\ row' = IF r.go = Fall THEN row + 1 ELSE r.go
      BY <2>12 DEF Trip
    <3>2. x = {}
      BY <2>9, <3>1
    <3>3. kept' = Own(at, row) \ r.put
      BY <2>4, <2>7, <3>2
    <3>4. CASE r.go = Fall
      <4>1. kept' = Own(at, row + 1)
        BY <2>8, <2>9, <3>3, <3>4
      <4> QED
        BY <2>5, <3>1, <3>4, <4>1 DEF Return
    <3>5. CASE r.go = Return
      BY <2>6, <3>1, <3>3, <3>5 DEF SoundJump, Fall, Return
    <3>6. CASE r.go # Fall /\ r.go # Return
      <4>1. r.go > 0
        BY <2>1, <3>6, RowTyped DEF Fall, Return
      <4> QED
        BY <2>6, <3>1, <3>3, <3>6, <4>1 DEF SoundJump
    <3> QED
      BY <3>4, <3>5, <3>6
  <2> QED
    BY <2>2, <2>10, <2>11, <2>12
<1>3. CASE Finish
  BY <1>3 DEF Finish, Holding
<1>4. CASE UNCHANGED vars
  BY <1>4 DEF vars, Holding
<1> QED
  BY <1>1, <1>2, <1>3, <1>4 DEF Next

\* Leaky names exactly the routines whose table does not balance.
LeakyListed == \A c \in Routines : c \in Leaky <=> ~Balanced(c)

\* When the exceptions are listed, every other routine gives back all its
\* caller does not know of, whichever of its calls fail
\* (Routine.LosesNothing).
THEOREM NothingLost == LeakyListed /\ Spec => []LosesNothing
<1> SUFFICES ASSUME LeakyListed PROVE Spec => []LosesNothing
  OBVIOUS
<1>1. Init => TypeOK /\ Holding
  BY InitTypeOK, InitHolding
<1>2. TypeOK /\ Holding /\ [Next]_vars => TypeOK' /\ Holding'
  BY NextTypeOK, NextHolding
<1>3. TypeOK /\ Holding => LosesNothing
  <2> SUFFICES ASSUME TypeOK, Holding, Ended, at \notin Leaky
               PROVE  kept \subseteq Promise
    BY DEF LosesNothing
  <2>1. at \in Routines /\ at # None
    BY DEF TypeOK, Ended
  <2>2. Balanced(at)
    BY <2>1 DEF LeakyListed
  <2>3. CASE row = Return
    BY <2>1, <2>2, <2>3 DEF Holding, Promise
  <2>4. CASE row # Return
    <3>1. row = Len(Code[at]) + 1
      <4>1. Code[at] \in Seq(RowType)
        BY <2>1, CodeAssumption
      <4>2. Len(Code[at]) \in Nat
        BY <4>1
      <4> QED
        BY <2>1, <2>4, <4>2 DEF TypeOK, Ended, Rows, Return
    <3> QED
      BY <2>1, <2>2, <2>4, <3>1 DEF Holding, Promise, Balanced
  <2> QED
    BY <2>3, <2>4
<1> QED
  BY <1>1, <1>2, <1>3, PTL DEF Spec

---------------------------------------------------------------------------
(* Promises are kept, nothing is given back twice, nothing is orphaned.    *)

\* What a step of a routine has at hand: its row, the outcome of the call, and
\* what the call handed over.
LEMMA RowStep ==
  ASSUME TypeOK, Step
  PROVE  /\ at \in Routines /\ at # None /\ at' = at
         /\ row \in Rows(at) /\ row \in Nat /\ row >= 1 /\ row # Return
         /\ Code[at][row] \in RowType
         /\ Code[at][row].go \in Fall .. Len(Code[at]) + 1
         /\ \E o \in Outcomes[Code[at][row].kind] :
              /\ \E x \in Taken(Code[at][row], o) :
                   kept' = (kept \union x) \ Code[at][row].put
              /\ sys' = IF Code[at][row].stores THEN o.val ELSE sys
              /\ \/ Pass(Code[at][row], o)
                 \/ Retry(Code[at][row], o)
                 \/ Trip(Code[at][row], o)
<1>1. at \in Routines /\ at # None /\ row \in Rows(at)
  BY DEF Step, TypeOK
<1>2. PICK o \in Outcomes[Code[at][row].kind] :
        Pass(Code[at][row], o) \/ Retry(Code[at][row], o) \/ Trip(Code[at][row], o)
  BY DEF Step
<1>3. Perform(Code[at][row], o)
  BY <1>2 DEF Pass, Retry, Trip
<1>4. row \in Nat /\ row >= 1 /\ row # Return
  BY <1>1, RowTyped DEF Rows, Return
<1> QED
  BY <1>1, <1>2, <1>3, <1>4, RowTyped DEF Perform

\* A secured routine holds at least what its row says.
Covered ==
  at # None /\ Secured(at) =>
    (IF row = Return THEN Contract[at].needs ELSE Own(at, row)) \subseteq kept

LEMMA InitCovered == Init => Covered
BY DEF Init, Covered

LEMMA NextCovered == TypeOK /\ Covered /\ [Next]_vars => Covered'
<1> SUFFICES ASSUME TypeOK, Covered, [Next]_vars PROVE Covered'
  OBVIOUS
<1>1. ASSUME NEW c \in Routines, Start(c) PROVE Covered'
  <2>1. at' = c /\ row' = 1 /\ kept' = Contract[c].needs
    BY <1>1 DEF Start
  <2> QED
    BY <2>1, OwnFirst DEF Covered, Return
<1>2. CASE Step
  <2> DEFINE r == Code[at][row]
  <2>1. /\ at \in Routines /\ at # None /\ at' = at
        /\ row \in Rows(at) /\ row \in Nat /\ row >= 1 /\ row # Return
        /\ r \in RowType /\ r.go \in Fall .. Len(Code[at]) + 1
    BY <1>2, RowStep
  <2>2. PICK o \in Outcomes[r.kind] :
          /\ \E x \in Taken(r, o) : kept' = (kept \union x) \ r.put
          /\ Pass(r, o) \/ Retry(r, o) \/ Trip(r, o)
    BY <1>2, RowStep
  <2>3. PICK x \in Taken(r, o) : kept' = (kept \union x) \ r.put
    BY <2>2
  <2> SUFFICES ASSUME Secured(at)
               PROVE  (IF row' = Return THEN Contract[at].needs
                                        ELSE Own(at, row')) \subseteq kept'
    BY <2>1 DEF Covered
  <2>4. SafeGet(r) /\ SafeJump(at, row)
    BY <2>1 DEF Secured
  <2>5. Own(at, row) \subseteq kept
    BY <2>1 DEF Covered
  <2>6. Own(at, row) \ r.put \subseteq kept'
    BY <2>3, <2>5
  <2>7. Own(at, row + 1) = (Own(at, row) \union r.get) \ r.put
    BY <2>1, OwnNext
  <2>8. CASE Pass(r, o)
    <3>1. r.get # {} => o.ok
      BY <2>2, <2>4, <2>8 DEF SafeGet, Pass, Tested
    <3>2. r.get \subseteq x
      BY <2>3, <3>1 DEF Taken
    <3>3. Own(at, row + 1) \subseteq kept'
      BY <2>3, <2>5, <2>7, <3>2
    <3>4. row' = IF r.loop = "no" THEN row + 1 ELSE row + 2
      BY <2>8 DEF Pass
    <3>5. r.loop # "no" => Own(at, row + 2) \subseteq Own(at, row + 1)
      BY <2>4 DEF SafeJump
    <3> QED
      BY <2>1, <3>3, <3>4, <3>5 DEF Return
  <2>9. CASE Retry(r, o)
    <3>1. r.loop # "no" /\ row' = row
      BY <2>9 DEF Retry
    <3>2. r.put = {}
      BY <2>4, <3>1 DEF SafeJump
    <3> QED
      BY <2>1, <2>6, <3>1, <3>2
  <2>10. CASE Trip(r, o)
    <3>1. row' = IF r.go = Fall THEN row + 1 ELSE r.go
      BY <2>10 DEF Trip
    <3>2. CASE r.go = Fall
      <4>1. r.get = {}
        BY <2>4, <3>2 DEF SafeGet
      <4> QED
        BY <2>1, <2>6, <2>7, <3>1, <3>2, <4>1 DEF Return
    <3>3. CASE r.go = Return
      BY <2>4, <2>6, <3>1, <3>3 DEF SafeJump, Fall, Return
    <3>4. CASE r.go # Fall /\ r.go # Return
      <4>1. r.go > 0
        BY <2>1, <3>4, RowTyped DEF Fall, Return
      <4> QED
        BY <2>4, <2>6, <3>1, <3>4, <4>1 DEF SafeJump, Return
    <3> QED
      BY <3>2, <3>3, <3>4
  <2> QED
    BY <2>2, <2>8, <2>9, <2>10
<1>3. CASE Finish
  BY <1>3 DEF Finish, Covered
<1>4. CASE UNCHANGED vars
  BY <1>4 DEF vars, Covered
<1> QED
  BY <1>1, <1>2, <1>3, <1>4 DEF Next

LEMMA CoveredInvariant == Spec => [](TypeOK /\ Covered)
<1>1. Init => TypeOK /\ Covered
  BY InitTypeOK, InitCovered
<1>2. TypeOK /\ Covered /\ [Next]_vars => TypeOK' /\ Covered'
  BY NextTypeOK, NextCovered
<1> QED
  BY <1>1, <1>2, PTL DEF Spec

\* Where a routine ends that has not returned.
LEMMA EndRow ==
  ASSUME TypeOK, Ended, row # Return
  PROVE  row = Len(Code[at]) + 1
<1>1. at \in Routines /\ at # None
  BY DEF TypeOK, Ended
<1>2. Code[at] \in Seq(RowType)
  BY <1>1, CodeAssumption
<1>3. Len(Code[at]) \in Nat
  BY <1>2
<1> QED
  BY <1>1, <1>3 DEF TypeOK, Ended, Rows, Return

\* A secured routine that is over holds what was promised.
LEMMA PromiseHeld ==
  ASSUME TypeOK, Covered, Ended, Secured(at)
  PROVE  Promise \subseteq kept
<1>1. at # None
  BY DEF Ended
<1>2. CASE row = Return
  BY <1>1, <1>2 DEF Covered, Promise
<1>3. CASE row # Return
  <2>1. Own(at, Len(Code[at]) + 1) \subseteq kept
    BY <1>1, <1>3, EndRow DEF Covered
  <2> QED
    BY <1>3, <2>1 DEF Promise, Secured
<1> QED
  BY <1>2, <1>3

\* Every routine, leaking or not, keeps the rules of Secured.
AllSecured == \A c \in Routines : Secured(c)

\* Secured routines, the leaking ones included, hold at their end all their
\* caller goes on to use, whichever of their calls fail
\* (Routine.HoldsPromise).
THEOREM PromisesHeld == AllSecured /\ Spec => []HoldsPromise
<1> SUFFICES ASSUME AllSecured PROVE Spec => []HoldsPromise
  OBVIOUS
<1>1. TypeOK /\ Covered => HoldsPromise
  BY PromiseHeld DEF AllSecured, HoldsPromise, TypeOK, Ended
<1> QED
  BY <1>1, CoveredInvariant, PTL

\* No clean-up path of a secured routine closes what is not open
\* (Routine.NoBadRelease).
THEOREM ReleasesOwned == AllSecured /\ Spec => []NoBadRelease
<1> SUFFICES ASSUME AllSecured PROVE Spec => []NoBadRelease
  OBVIOUS
<1>1. TypeOK /\ Covered => NoBadRelease
  <2> SUFFICES ASSUME TypeOK, Covered, at # None, row \in Rows(at)
               PROVE  Code[at][row].put \subseteq kept
    BY DEF NoBadRelease
  <2>1. at \in Routines /\ Secured(at)
    BY DEF TypeOK, AllSecured
  <2>2. row # Return
    BY DEF Rows, Return
  <2>3. Own(at, row) \subseteq kept
    BY <2>1, <2>2 DEF Covered
  <2>4. Code[at][row].put \subseteq Own(at, row)
    BY <2>1 DEF Secured
  <2> QED
    BY <2>3, <2>4
<1> QED
  BY <1>1, CoveredInvariant, PTL

\* Hasty names exactly the orders routines break, and what a caller holds
\* between two routines is in order.
HastyListed ==
  /\ \A c \in Routines : \A d \in Depends : <<c, d>> \in Hasty <=> ~Ordered(c, d)
  /\ \A c \in Routines : Closed(Contract[c].needs) /\ Closed(Contract[c].gains)

LEMMA NextNoOrphan ==
  ASSUME AllSecured, HastyListed, TypeOK, Covered, Holding, NoOrphan, [Next]_vars
  PROVE  NoOrphan'
<1> SUFFICES ASSUME NEW d \in Depends, d[1] \in kept', <<at', d>> \notin Hasty
             PROVE  d[2] \in kept'
  BY DEF NoOrphan
<1>0. <<None, d>> \notin Hasty
  BY NoneAssumption, HastyAssumption
<1>1. ASSUME NEW c \in Routines, Start(c) PROVE d[2] \in kept'
  BY <1>0, <1>1 DEF Start, NoOrphan
<1>2. CASE Step
  <2> DEFINE r == Code[at][row]
  <2>1. /\ at \in Routines /\ at # None /\ at' = at
        /\ row \in Rows(at) /\ row # Return /\ r \in RowType
    BY <1>2, RowStep
  <2>2. PICK o \in Outcomes[r.kind] :
          \E x \in Taken(r, o) : kept' = (kept \union x) \ r.put
    BY <1>2, RowStep
  <2>3. PICK x \in Taken(r, o) : kept' = (kept \union x) \ r.put
    BY <2>2
  <2>4. x \subseteq r.get
    BY <2>1, <2>3, TakenIsGot
  <2>5. /\ d[1] \in r.get => d[2] \in Own(at, row) \ r.put
        /\ d[2] \in r.put =>
             d[1] \in r.put \/ (Balanced(at) /\ d[1] \notin Own(at, row))
    BY <2>1 DEF HastyListed, Ordered
  <2>6. Own(at, row) \subseteq kept
    BY <2>1 DEF AllSecured, Covered
  <2>7. Balanced(at) => kept = Own(at, row)
    BY <2>1 DEF Holding
  <2>8. CASE d[1] \in r.get
    BY <2>3, <2>5, <2>6, <2>8
  <2>9. CASE d[1] \notin r.get
    <3>1. d[1] \in kept /\ d[1] \notin r.put
      BY <2>3, <2>4, <2>9
    <3>2. d[2] \in kept
      BY <2>1, <3>1 DEF NoOrphan
    <3>3. d[2] \notin r.put
      BY <2>5, <2>7, <3>1
    <3> QED
      BY <2>3, <3>2, <3>3
  <2> QED
    BY <2>8, <2>9
<1>3. CASE Finish
  <2>1. at \in Routines /\ Ended /\ kept' = kept \intersect Promise
    BY <1>3 DEF Finish, Ended, TypeOK
  <2>2. Promise \subseteq kept
    BY <2>1, PromiseHeld DEF AllSecured
  <2>3. Closed(Promise)
    BY <2>1 DEF HastyListed, Promise
  <2> QED
    BY <2>1, <2>2, <2>3 DEF Closed
<1>4. CASE UNCHANGED vars
  BY <1>4 DEF vars, NoOrphan
<1> QED
  BY <1>1, <1>2, <1>3, <1>4 DEF Next

\* Over all sequences of routines and failures: a session goes before its
\* device, a file before its session, the library last, but for the orders a
\* running routine is listed with; those hold again once it is over
\* (Routine.NoOrphan).
THEOREM NothingOrphaned == AllSecured /\ HastyListed /\ Spec => []NoOrphan
<1> SUFFICES ASSUME AllSecured, HastyListed PROVE Spec => []NoOrphan
  OBVIOUS
<1> DEFINE OInv == TypeOK /\ Covered /\ Holding /\ NoOrphan
<1>1. Init => OInv
  BY InitTypeOK, InitCovered, InitHolding DEF Init, NoOrphan
<1>2. OInv /\ [Next]_vars => OInv'
  BY NextTypeOK, NextCovered, NextHolding, NextNoOrphan
<1> QED
  BY <1>1, <1>2, PTL DEF Spec

---------------------------------------------------------------------------
(* Errors have a cause.                                                    *)

Caused == broke # {} \/ refused

\* In a grounded routine a call has failed or the data were refused once an
\* error is recorded, past a loop that gave up, and while sys holds what only a
\* failed call leaves there.
Founded ==
  at # None /\ Grounded(at) =>
    /\ status = "err" => Caused
    /\ row \in Rows(at) /\ GivenUp(at, row) => Caused
    /\ row # 1 /\ FailureLeaves(at, sys) => Caused

LEMMA InitFounded == Init => Founded
BY DEF Init, Founded

\* A test that trips has a cause.
LEMMA TripCaused ==
  ASSUME TypeOK, Founded, at # None, Grounded(at), row \in Rows(at),
         NEW o \in Outcomes[Code[at][row].kind], Trip(Code[at][row], o)
  PROVE  Caused'
<1> DEFINE r == Code[at][row]
<1>1. at \in Routines /\ Tested(r, o) \in r.bad
  BY DEF TypeOK, Trip
<1>2. r \in RowType
  BY <1>1, RowTyped
<1>3. /\ broke' = broke \union Failed(o)
      /\ refused' = (refused \/ r.data)
  BY DEF Trip
<1>10. ~o.ok => broke' # {}
  BY <1>3 DEF Failed
<1>4. Caused => Caused'
  BY <1>3 DEF Caused
<1>5. \/ r.data
      \/ r.tests = "result" /\ \A q \in Outcomes[r.kind] : q.val \in r.bad => ~q.ok
      \/ r.tests = "stored" /\ row # 1 /\ \A v \in r.bad : FailureLeaves(at, v)
      \/ GivenUp(at, row)
  BY DEF Grounded
<1>6. CASE r.data
  BY <1>3, <1>6 DEF Caused
<1>7. CASE r.tests = "result" /\ \A q \in Outcomes[r.kind] : q.val \in r.bad => ~q.ok
  BY <1>1, <1>10, <1>7 DEF Caused, Tested
<1>8. CASE r.tests = "stored" /\ row # 1 /\ \A v \in r.bad : FailureLeaves(at, v)
  <2>1. FailureLeaves(at, sys)
    BY <1>1, <1>8 DEF Tested
  <2> QED
    BY <1>4, <1>8, <2>1 DEF Founded
<1>9. CASE GivenUp(at, row)
  BY <1>4, <1>9 DEF Founded
<1> QED
  BY <1>5, <1>6, <1>7, <1>8, <1>9

\* A step after which sys holds what only a failed call leaves has a cause.
LEMMA StoredCaused ==
  ASSUME TypeOK, Founded, at # None, Grounded(at), row \in Rows(at),
         NEW o \in Outcomes[Code[at][row].kind],
         sys' = IF Code[at][row].stores THEN o.val ELSE sys,
         Pass(Code[at][row], o) \/ Trip(Code[at][row], o),
         FailureLeaves(at, sys')
  PROVE  Caused'
<1> DEFINE r == Code[at][row]
<1>1. (~o.ok => Caused') /\ (Caused => Caused')
  <2>1. CASE Pass(r, o)
    BY <2>1 DEF Pass, Failed, Caused
  <2>2. CASE Trip(r, o)
    BY <2>2 DEF Trip, Failed, Caused
  <2> QED
    BY <2>1, <2>2
<1>2. CASE r.stores
  <2>1. o.ok => o.val # sys'
    BY <1>2 DEF FailureLeaves
  <2> QED
    BY <1>1, <1>2, <2>1
<1>3. CASE ~r.stores
  <2>1. row # 1
    BY <1>3 DEF FailureLeaves
  <2>2. sys' = sys
    BY <1>3
  <2>3. Caused
    BY <2>1, <2>2 DEF Founded
  <2> QED
    BY <1>1, <2>3
<1> QED
  BY <1>2, <1>3

LEMMA NextFounded == TypeOK /\ Founded /\ [Next]_vars => Founded'
<1> SUFFICES ASSUME TypeOK, Founded, [Next]_vars PROVE Founded'
  OBVIOUS
<1>1. ASSUME NEW c \in Routines, Start(c) PROVE Founded'
  <2>1. at' = c /\ row' = 1 /\ status' = "ok"
    BY <1>1 DEF Start
  <2>2. ~GivenUp(c, 1)
    BY RowTyped DEF GivenUp, Rows
  <2> QED
    BY <2>1, <2>2 DEF Founded
<1>2. CASE Step
  <2> DEFINE r == Code[at][row]
  <2>1. /\ at \in Routines /\ at # None /\ at' = at
        /\ row \in Rows(at) /\ row \in Nat /\ row >= 1 /\ row # Return
        /\ r \in RowType /\ r.go \in Fall .. Len(Code[at]) + 1
    BY <1>2, RowStep
  <2>2. PICK o \in Outcomes[r.kind] :
          /\ sys' = IF r.stores THEN o.val ELSE sys
          /\ Pass(r, o) \/ Retry(r, o) \/ Trip(r, o)
    BY <1>2, RowStep
  <2> SUFFICES ASSUME Grounded(at)
               PROVE  /\ status' = "err" => Caused'
                      /\ row' \in Rows(at) /\ GivenUp(at, row') => Caused'
                      /\ row' # 1 /\ FailureLeaves(at, sys') => Caused'
    BY <2>1 DEF Founded
  <2>3. CASE Pass(r, o)
    <3>1. status' = status /\ (Caused => Caused')
      BY <2>3 DEF Pass, Caused
    <3>2. status' = "err" => Caused'
      BY <2>1, <3>1 DEF Founded
    <3>3. row' = IF r.loop = "no" THEN row + 1 ELSE row + 2
      BY <2>3 DEF Pass
    <3>4. ~GivenUp(at, row')
      BY <2>1, <3>3 DEF GivenUp
    <3>5. FailureLeaves(at, sys') => Caused'
      BY <2>1, <2>2, <2>3, StoredCaused
    <3> QED
      BY <3>2, <3>4, <3>5
  <2>4. CASE Retry(r, o)
    <3>1. row' = row /\ status' = status /\ Caused' = Caused /\ r.loop # "no"
      BY <2>4 DEF Retry, Caused
    <3>2. FailureLeaves(at, sys') => sys' = sys
      BY <2>1, <2>2, <3>1 DEF FailureLeaves
    <3> QED
      BY <2>1, <3>1, <3>2 DEF Founded
  <2>5. CASE Trip(r, o)
    BY <2>1, <2>5, TripCaused
  <2> QED
    BY <2>2, <2>3, <2>4, <2>5
<1>3. CASE Finish
  BY <1>3 DEF Finish, Founded
<1>4. CASE UNCHANGED vars
  BY <1>4 DEF vars, Founded, Caused
<1> QED
  BY <1>1, <1>2, <1>3, <1>4 DEF Next

\* Alarmist names exactly the routines whose tests are not grounded.
AlarmistListed == \A c \in Routines : c \in Alarmist <=> ~Grounded(c)

\* When the exceptions are listed, every other routine reports an error only
\* over a call that failed or data it refused, never over what an earlier
\* routine left in sys_err (Routine.SuccessReported).
THEOREM ErrorsCaused == AlarmistListed /\ Spec => []SuccessReported
<1> SUFFICES ASSUME AlarmistListed PROVE Spec => []SuccessReported
  OBVIOUS
<1>1. Init => TypeOK /\ Founded
  BY InitTypeOK, InitFounded
<1>2. TypeOK /\ Founded /\ [Next]_vars => TypeOK' /\ Founded'
  BY NextTypeOK, NextFounded
<1>3. TypeOK /\ Founded => SuccessReported
  BY DEF TypeOK, Founded, SuccessReported, Ended, AlarmistListed, Caused
<1> QED
  BY <1>1, <1>2, <1>3, PTL DEF Spec

---------------------------------------------------------------------------
(* Routines come to an end.                                                *)

\* Endless names exactly the routines with a way back.
EndlessListed == \A c \in Routines : c \in Endless <=> ~Forward(c)

\* Each step of such a routine leads to a later row, out of it, or through one
\* more of the Tries turns of a loop: no clean-up path leads back.
Advances ==
  Step /\ at \notin Endless =>
    row' = Return \/ row' > row \/ (row' = row /\ turn' = turn + 1)

\* A routine whose error paths lead forward and whose loops count goes through
\* each of its rows at most Tries times, the part of
\* Terminates that is about steps: rows and turns are bounded by TypeOK.
THEOREM AlwaysAdvances == EndlessListed /\ Spec => [][Advances]_vars
<1> SUFFICES ASSUME EndlessListed PROVE Spec => [][Advances]_vars
  OBVIOUS
<1>1. TypeOK /\ [Next]_vars => [Advances]_vars
  <2> SUFFICES ASSUME TypeOK, Step, at \notin Endless
               PROVE  row' = Return \/ row' > row \/ (row' = row /\ turn' = turn + 1)
    BY DEF Advances
  <2> DEFINE r == Code[at][row]
  <2>1. at \in Routines /\ row \in Rows(at) /\ row \in Nat /\ turn \in 0 .. Tries - 1
    BY DEF Step, TypeOK
  <2>2. r.loop # "endless" /\ (r.go > 0 => r.go > row)
    BY <2>1 DEF EndlessListed, Forward
  <2>3. r.go \in Fall .. Len(Code[at]) + 1 /\ Len(Code[at]) \in Nat
    BY <2>1, RowTyped
  <2>4. PICK o \in Outcomes[r.kind] : Pass(r, o) \/ Retry(r, o) \/ Trip(r, o)
    BY DEF Step
  <2>5. CASE Pass(r, o)
    BY <2>1, <2>5 DEF Pass
  <2>6. CASE Retry(r, o)
    BY <2>1, <2>2, <2>6, TriesAssumption DEF Retry
  <2>7. CASE Trip(r, o)
    BY <2>1, <2>2, <2>3, <2>7 DEF Trip, Fall, Return
  <2> QED
    BY <2>4, <2>5, <2>6, <2>7
<1> QED
  BY <1>1, TypeCorrect, PTL DEF Spec
=============================================================================
