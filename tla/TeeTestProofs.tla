--------------------------- MODULE TeeTestProofs ---------------------------
(***************************************************************************)
(* The figures print_data prints agree with each other, for any number of  *)
(* rounds, any latency and any width of the words.                         *)
(***************************************************************************)
EXTENDS TeeTest, TLAPS

\* A cost fits its word.
LEMMA CostType ==
  ASSUME NEW a \in 0 .. Second - 1, NEW b \in 0 .. Second - 1
  PROVE  Cost(a, b) \in 0 .. Word - 1
BY WordAssumption DEF Cost

\* A product grows with a factor.
LEMMA TimesMonotone ==
  ASSUME NEW n \in Nat, NEW x \in Nat, NEW y \in Nat, x <= y
  PROVE  n * x <= n * y
OBVIOUS

\* A quotient is not above what the dividend is bounded by.
LEMMA DivBound ==
  ASSUME NEW n \in Nat \ {0}, NEW m \in Nat, NEW a \in Nat, a <= n * m
  PROVE  a \div n <= m
OBVIOUS

---------------------------------------------------------------------------
\* Every step keeps the types: the words stay reduced, the counters natural.
LEMMA TypeStep ==
  ASSUME TypeOK, [Next]_vars
  PROVE  TypeOK'
<1> USE DEF TypeOK, Places, Statuses, Replies
<1>1. CASE UNCHANGED vars
  BY <1>1 DEF vars
<1>2. CASE BadArguments
  BY <1>2 DEF BadArguments
<1>3. CASE Arguments
  BY <1>3, MaxTimesAssumption DEF Arguments
<1>4. CASE InitDevice
  BY <1>4 DEF InitDevice
<1>5. CASE Fill
  BY <1>5, MaxTimesAssumption DEF Fill
<1>6. CASE RoundsOver
  BY <1>6 DEF RoundsOver
<1>7. CASE Send
  <2>1. PICK t \in 0 .. Second - 1, d \in 0 .. MaxLatency :
          cost' = Cost(t, (t + d) % Second) /\ elapsed' = d
    BY <1>7 DEF Send
  <2>2. (t + d) % Second \in 0 .. Second - 1
    BY WordAssumption
  <2>3. cost' \in 0 .. Word - 1 /\ elapsed' \in 0 .. MaxLatency
    BY <2>1, <2>2, CostType
  <2>4. UNCHANGED <<hasPerf, times, cmd, perf, printed>> /\ pc' = "check"
    BY <1>7 DEF Send
  <2>5. reply' \in Replies /\ status' \in Statuses /\ late' \subseteq Statuses
    BY <1>7 DEF Send, Abandon
  <2> QED
    BY <2>3, <2>4, <2>5
<1>8. CASE Break
  BY <1>8 DEF Break
<1>9. CASE Collect
  <2>1. cmd \in Commands =>
          Larger(perf[cmd].max, cost) \in 0 .. Word - 1
    BY DEF Larger
  <2>2. perf' \in [Commands -> [runs : Nat, max : 0 .. Word - 1, total : Nat]]
    <3> DEFINE R == [runs : Nat, max : 0 .. Word - 1, total : Nat]
               r == [runs |-> perf[cmd].runs + 1, max |-> Larger(perf[cmd].max, cost),
                     total |-> perf[cmd].total + cost]
    <3>1. perf \in [Commands -> R] /\ perf' = [perf EXCEPT ![cmd] = r]
      BY <1>9 DEF Collect
    <3>2. CASE cmd \in Commands
      <4>1. perf[cmd].runs \in Nat /\ perf[cmd].total \in Nat /\ cost \in Nat
        BY <3>2
      <4>2. r \in R
        BY <2>1, <3>2, <4>1
      <4> HIDE DEF r, R
      <4> QED
        BY <3>1, <4>2 DEF R
    <3>3. CASE cmd \notin Commands
      <4> HIDE DEF r, R
      <4>1. perf' = perf
        BY <3>1, <3>3
      <4> QED
        BY <3>1, <4>1 DEF R
    <3> QED
      BY <3>2, <3>3
  <2> QED
    BY <1>9, <2>2 DEF Collect
<1>10. CASE NullPerf
  BY <1>10 DEF NullPerf
<1>11. CASE PrintLine
  BY <1>11 DEF PrintLine
<1>12. CASE Printed
  BY <1>12 DEF Printed
<1>13. CASE Release
  BY <1>13 DEF Release
<1>14. CASE Hang
  BY <1>14 DEF Hang
<1> QED
  BY <1>1, <1>2, <1>3, <1>4, <1>5, <1>6, <1>7, <1>8, <1>9, <1>10, <1>11, <1>12,
     <1>13, <1>14 DEF Next, Step, Over

LEMMA TypeInit == Init => TypeOK
<1> SUFFICES ASSUME Init PROVE TypeOK
  OBVIOUS
<1>1. 0 \in 0 .. MaxTimes /\ 0 \in 0 .. Word - 1 /\ 0 \in 0 .. MaxLatency
  BY MaxTimesAssumption, WordAssumption
<1>2. perf \in [Commands -> [runs : Nat, max : 0 .. Word - 1, total : Nat]]
  BY <1>1 DEF Init
<1> QED
  BY <1>1, <1>2 DEF Init, TypeOK, Places, Statuses, Replies

\* The test client keeps its types: a cost and a maximum fit their words for
\* every latency.
THEOREM TypeCorrect == Spec => []TypeOK
BY TypeInit, TypeStep, PTL DEF Spec

---------------------------------------------------------------------------
\* What is charged to a command is bounded by its runs at its largest cost.
\* This, and not the bound of the quotient, is what a step keeps.
Charged == \A c \in Commands : perf[c].total <= perf[c].runs * perf[c].max

\* A run more, at a cost that the new maximum covers.
LEMMA ChargedOnce ==
  ASSUME NEW n \in Nat, NEW m \in Nat, NEW a \in Nat, NEW t \in Nat,
         a <= n * m
  PROVE  a + t <= (n + 1) * Larger(m, t)
<1> DEFINE l == Larger(m, t)
<1>1. l \in Nat /\ m <= l /\ t <= l
  BY DEF Larger
<1> HIDE DEF l
<1>2. n * m <= n * l
  BY <1>1, TimesMonotone
<1>3. (n + 1) * l = n * l + l
  BY <1>1
<1>4. n * m \in Nat /\ n * l \in Nat
  BY <1>1
<1> DEFINE p == n * m  q == n * l
<1>5. p \in Nat /\ q \in Nat /\ a <= p /\ p <= q
  BY <1>2, <1>4
<1>6. (n + 1) * l = q + l
  BY <1>3
<1> HIDE DEF p, q
<1>7. a + t <= q + l
  BY <1>1, <1>5
<1> QED
  BY <1>6, <1>7 DEF l

LEMMA ChargedStep ==
  ASSUME TypeOK, Charged, [Next]_vars
  PROVE  Charged'
<1>1. CASE Collect
  <2> SUFFICES ASSUME NEW c \in Commands
               PROVE  perf'[c].total <= perf'[c].runs * perf'[c].max
    BY DEF Charged
  <2>1. CASE c = cmd
    <3>1. perf'[c].runs = perf[c].runs + 1
      BY <1>1, <2>1 DEF Collect, TypeOK
    <3>2. perf'[c].max = Larger(perf[c].max, cost)
      BY <1>1, <2>1 DEF Collect, TypeOK
    <3>3. perf'[c].total = perf[c].total + cost
      BY <1>1, <2>1 DEF Collect, TypeOK
    <3>4. perf[c].runs \in Nat /\ perf[c].max \in Nat /\ perf[c].total \in Nat
          /\ cost \in Nat
      BY DEF TypeOK
    <3>5. perf[c].total <= perf[c].runs * perf[c].max
      BY DEF Charged
    <3> QED
      BY <3>1, <3>2, <3>3, <3>4, <3>5, ChargedOnce
  <2>2. CASE c # cmd
    <3>1. perf'[c] = perf[c]
      BY <1>1, <2>2 DEF Collect, TypeOK
    <3> QED
      BY <3>1 DEF Charged
  <2> QED
    BY <2>1, <2>2
<1>2. CASE UNCHANGED perf
  BY <1>2 DEF Charged
<1>3. Collect \/ UNCHANGED perf
  BY DEF Next, Step, Over, vars, BadArguments, Arguments, InitDevice, Fill,
         RoundsOver, Send, Hang, Break, NullPerf, PrintLine, Printed, Release
<1> QED
  BY <1>1, <1>2, <1>3

LEMMA ChargedInit == Init => Charged
<1> SUFFICES ASSUME Init, NEW c \in Commands
             PROVE  perf[c].total <= perf[c].runs * perf[c].max
  BY DEF Charged
<1>1. perf[c].total = 0 /\ perf[c].runs = 0 /\ perf[c].max = 0
  BY DEF Init
<1>2. 0 <= 0 * 0
  OBVIOUS
<1> QED
  BY <1>1, <1>2

\* An average over costs that are not above a printable maximum is printable.
LEMMA ChargedAverage == TypeOK /\ Charged => AverageBelowMax
<1> SUFFICES ASSUME TypeOK, Charged, NEW c \in Commands, perf[c].runs > 0,
                    Signed(perf[c].max) >= 0
             PROVE  Signed(Average(c)) \in 0 .. Signed(perf[c].max)
  BY DEF AverageBelowMax, TypeOK
<1> DEFINE q == perf[c].total \div perf[c].runs
           m == perf[c].max
<1>1. perf[c].runs \in Nat \ {0} /\ m \in 0 .. Word - 1 /\ perf[c].total \in Nat
  BY DEF TypeOK
<1>2. perf[c].total <= perf[c].runs * m
  BY DEF Charged
<1>3. q <= m /\ q \in Nat
  <2>1. perf[c].total \div perf[c].runs <= perf[c].max
    BY <1>1, <1>2, DivBound
  <2>2. perf[c].total \div perf[c].runs \in Nat
    BY <1>1
  <2> QED
    BY <2>1, <2>2
<1>4. Word \in Nat
  BY WordAssumption
<1> HIDE DEF q, m
<1>5. q % Word = q
  BY <1>1, <1>3, <1>4
<1>6. Average(c) = q
  BY <1>5 DEF Average, q
<1>7. Signed(m) >= 0
  BY DEF m
<1>8. Signed(m) = m /\ 2 * m < Word
  BY <1>1, <1>4, <1>7 DEF Signed
<1>9. Signed(q) = q
  BY <1>1, <1>3, <1>4, <1>8 DEF Signed
<1> QED
  BY <1>1, <1>3, <1>6, <1>8, <1>9 DEF m

\* Of the figures print_data prints with %d, an average is never above a
\* maximum that is printed without a sign, nor is it then negative; a maximum
\* with a sign is the mark of a cost that wrapped around
\* (TeeTest.AverageBelowMax), for every width of the words.
THEOREM FiguresAgree == Spec => []AverageBelowMax
BY TypeInit, TypeStep, ChargedInit, ChargedStep, ChargedAverage, PTL DEF Spec

---------------------------------------------------------------------------
\* As long as the rounds go on, the status is OK.
GoesOnOk == pc \in {"main", "init", "loop", "send"} => status = "ok"

\* A status that was left over, without a reply delivered by this tee_cmd, is
\* never an error; an error is the command's own, or that of a command given up
\* before it whose reply came late (TeeTest.NoOldError): the loop ends at the
\* first one.
THEOREM OldStatusOk == Spec => []NoOldError
<1>1. Init => GoesOnOk /\ NoOldError
  BY DEF Init, GoesOnOk, NoOldError
<1>2. GoesOnOk /\ NoOldError /\ [Next]_vars => (GoesOnOk /\ NoOldError)'
  <2> SUFFICES ASSUME GoesOnOk, NoOldError, [Next]_vars
               PROVE  GoesOnOk' /\ NoOldError'
    OBVIOUS
  <2>1. CASE Send
    <3>1. status = "ok" /\ pc' = "check"
      BY <2>1 DEF Send, GoesOnOk
    <3>2. status' = "err" => reply' = "own" \/ (reply' = "late" /\ "err" \in late)
      BY <2>1, <3>1 DEF Send
    <3>3. reply' = "late" => late \subseteq late'
      BY <2>1 DEF Send, Abandon
    <3> QED
      BY <3>1, <3>2, <3>3 DEF GoesOnOk, NoOldError
  <2>2. CASE ~Send
    BY <2>2 DEF GoesOnOk, NoOldError, Next, Step, Over, vars, BadArguments,
       Arguments, InitDevice, Fill, RoundsOver, Hang, Break, Collect, NullPerf,
       PrintLine, Printed, Release
  <2> QED
    BY <2>1, <2>2
<1> QED
  BY <1>1, <1>2, PTL DEF Spec

\* The two ways of two readings of tv_usec less than a second apart.
LEMMA CostOfShort ==
  ASSUME NEW t \in 0 .. Second - 1, NEW d \in Nat, d < Second
  PROVE  Cost(t, (t + d) % Second) \in {d, d + Word - Second}
<1> USE WordAssumption
<1>1. CASE t + d < Second
  <2>1. (t + d) % Second = t + d
    BY <1>1
  <2>2. (d + Word) % Word = d
    OBVIOUS
  <2>3. t + d - t + Word = d + Word
    OBVIOUS
  <2> QED
    BY <2>1, <2>2, <2>3 DEF Cost
<1>2. CASE t + d >= Second
  <2>1. (t + d) % Second = t + d - Second
    BY <1>2
  <2>2. (d + Word - Second) % Word = d + Word - Second
    OBVIOUS
  <2>3. t + d - Second - t + Word = d + Word - Second
    OBVIOUS
  <2> QED
    BY <2>1, <2>2, <2>3 DEF Cost
<1> QED
  BY <1>1, <1>2

\* What a command is charged is its time, or wrapped by exactly a second
\* (TeeTest.ChargedOrWrapped), for every width of the word.
THEOREM CostsKnown == Spec => []ChargedOrWrapped
<1>1. Init => ChargedOrWrapped
  BY DEF Init, ChargedOrWrapped
<1>2. ChargedOrWrapped /\ [Next]_vars => ChargedOrWrapped'
  <2> SUFFICES ASSUME ChargedOrWrapped, [Next]_vars PROVE ChargedOrWrapped'
    OBVIOUS
  <2>1. CASE Send
    <3>1. PICK t \in 0 .. Second - 1, d \in 0 .. MaxLatency :
            cost' = Cost(t, (t + d) % Second) /\ elapsed' = d
      BY <2>1 DEF Send
    <3>2. d \in Nat
      BY WordAssumption
    <3>3. elapsed' < Second => cost' \in {elapsed', elapsed' + Word - Second}
      BY <3>1, <3>2, CostOfShort
    <3> QED
      BY <3>3 DEF ChargedOrWrapped
  <2>2. CASE UNCHANGED vars
    BY <2>2 DEF vars, ChargedOrWrapped
  <2>3. CASE ~Send /\ ~UNCHANGED vars
    <3>1. pc' # "check"
      BY <2>3 DEF Next, Step, Over, BadArguments, Arguments, InitDevice, Fill,
         RoundsOver, Hang, Break, Collect, NullPerf, PrintLine, Printed, Release
    <3> QED
      BY <3>1 DEF ChargedOrWrapped
  <2> QED
    BY <2>1, <2>2, <2>3
<1> QED
  BY <1>1, <1>2, PTL DEF Spec

\* How far the end is within a round.
Left == [done |-> 0, help |-> 0, crashed |-> 0, hung |-> 0, release |-> 1, print |-> 2,
         loop |-> 3, check |-> 4, send |-> 5, init |-> 6, main |-> 7]

\* With the arguments read, each step ends a round, comes nearer to the end of
\* one, or prints a line more: nothing is sent twice.
Approaches ==
  Step /\ pc # "main" =>
    \/ times' < times
    \/ times' = times /\ Left[pc'] < Left[pc]
    \/ /\ times' = times /\ pc' = pc
       /\ \E c \in Commands \ printed : printed' = printed \union {c}

\* For any number of rounds the test goes nowhere but on, the
\* part of EndsInRelease that is about steps: rounds, places and lines are finite.
THEOREM AlwaysOn == Spec => [][Approaches]_vars
<1>1. TypeOK /\ [Next]_vars => [Approaches]_vars
  <2> SUFFICES ASSUME TypeOK, Step, pc # "main"
               PROVE  \/ times' < times
                      \/ times' = times /\ Left[pc'] < Left[pc]
                      \/ /\ times' = times /\ pc' = pc
                         /\ \E c \in Commands \ printed : printed' = printed \union {c}
    BY DEF Approaches
  <2>1. CASE Fill
    BY <2>1 DEF Fill, TypeOK
  <2>2. CASE PrintLine
    BY <2>2 DEF PrintLine, Left
  <2>3. CASE InitDevice \/ RoundsOver \/ Send \/ Hang \/ Break \/ Collect
    BY <2>3 DEF InitDevice, RoundsOver, Send, Hang, Break, Collect, Left
  <2>4. CASE NullPerf \/ Printed \/ Release
    BY <2>4 DEF NullPerf, Printed, Release, Left
  <2> QED
    BY <2>1, <2>2, <2>3, <2>4 DEF Step, BadArguments, Arguments
<1> QED
  BY <1>1, TypeCorrect, PTL DEF Spec
=============================================================================
