------------------------------ MODULE TeeTest ------------------------------
(***************************************************************************)
(* The test client, sample_hal/tee_test.c: main, init, random_test,        *)
(* print_data and release around the tee_cmd of a back end, of which it    *)
(* sees a return value (that it ignores) and g_out->status.  tee_cmd may   *)
(* bring the reply to the command, one to an abandoned command before it   *)
(* (KinibiLink, TrustyLink), or none, and may not return.  g_perf is a     *)
(* global pointer that nothing assigns: hasPerf = FALSE is the code;       *)
(* hasPerf = TRUE is the test once g_perf points to perf of struct         *)
(* tee_client_device, which is there for it.                               *)
(***************************************************************************)
EXTENDS Integers

CONSTANTS
  Commands,    \* 0 .. TEE_CMD_RELEASE - 1, what rand() % TEE_CMD_RELEASE gives
  MaxTimes,    \* bound: the largest `times` on the command line
  Second,      \* tv_usec counts from 0 to Second - 1
  Word,        \* uint32_t counts modulo Word
  MaxLatency,  \* bound: the longest a command takes, in the unit of tv_usec
  PerfSet      \* may g_perf point to a table: {FALSE} is the code

ASSUME CommandsAssumption == Commands \subseteq Nat
ASSUME MaxTimesAssumption == MaxTimes \in Nat
ASSUME WordAssumption ==
  /\ Second \in Nat \ {0} /\ Word \in Nat /\ Word >= Second
  /\ MaxLatency \in Nat
ASSUME PerfSetAssumption == PerfSet \subseteq BOOLEAN

VARIABLES
  hasPerf,    \* does g_perf point anywhere
  pc,         \* where main is
  times,      \* rounds left
  cmd,        \* g_in->cmd
  status,     \* g_out->status: "ok" (0, also before any answer) or "err"
  reply,      \* history: whose reply the last tee_cmd left in g_out
  late,       \* the statuses of replies to abandoned commands on their way
  cost,       \* time_cost
  elapsed,    \* history: how long the last command took
  perf,       \* g_perf[c]: run times, largest and total cost
  printed     \* the commands whose line print_data has printed

vars ==
  <<hasPerf, pc, times, cmd, status, reply, late, cost, elapsed, perf, printed>>

Places ==
  {"main", "init", "loop", "send", "check", "print", "release", "done",
   "help", "crashed", "hung"}

Statuses == {"ok", "err"}

\* The last command's own, an abandoned one's, or none: g_out is as it was, or
\* holds once more the reply that was in it.
Replies == {"own", "late", "none"}

TypeOK ==
  /\ hasPerf \in PerfSet
  /\ pc \in Places
  /\ times \in 0 .. MaxTimes
  /\ cmd \in Commands \union {-1}
  /\ status \in Statuses
  /\ reply \in Replies
  /\ late \subseteq Statuses
  /\ cost \in 0 .. Word - 1
  /\ elapsed \in 0 .. MaxLatency
  /\ perf \in [Commands -> [runs : Nat, max : 0 .. Word - 1, total : Nat]]
  /\ printed \subseteq Commands

Init ==
  /\ hasPerf \in PerfSet
  /\ pc = "main"
  /\ times = 0
  /\ cmd = -1
  /\ status = "ok"
  /\ reply = "none"
  /\ late = {}
  /\ cost = 0
  /\ elapsed = 0
  /\ perf = [c \in Commands |-> [runs |-> 0, max |-> 0, total |-> 0]]
  /\ printed = {}

\* main: too few arguments, no such back end or times < 1 print the help.
BadArguments ==
  /\ pc = "main"
  /\ pc' = "help"
  /\ UNCHANGED <<hasPerf, times, cmd, status, reply, late, cost, elapsed,
                 perf, printed>>

Arguments ==
  /\ pc = "main"
  /\ \E n \in 1 .. MaxTimes : times' = n
  /\ pc' = "init"
  /\ UNCHANGED <<hasPerf, cmd, status, reply, late, cost, elapsed, perf, printed>>

\* The buffers are cleared: g_out->status reads GENERIC_OK before any answer.
InitDevice ==
  /\ pc = "init"
  /\ pc' \in {"loop", "help"}
  /\ UNCHANGED <<hasPerf, times, cmd, status, reply, late, cost, elapsed,
                 perf, printed>>

\* random_test: while(times--) random_cmd_buf().
Fill ==
  /\ pc = "loop"
  /\ times > 0
  /\ times' = times - 1
  /\ cmd' \in Commands
  /\ pc' = "send"
  /\ UNCHANGED <<hasPerf, status, reply, late, cost, elapsed, perf, printed>>

RoundsOver ==
  /\ pc = "loop"
  /\ times = 0
  /\ pc' = "print"
  /\ UNCHANGED <<hasPerf, times, cmd, status, reply, late, cost, elapsed,
                 perf, printed>>

\* Mutation: the first reading is taken from the second the wrong way round.
CostSwapped(usec1, usec2) == (usec1 - usec2 + Word) % Word

\* The difference of the two tv_usec, in a uint32_t.
Cost(usec1, usec2) == (usec2 - usec1 + Word) % Word

\* The TA may yet reply to a command that is given up.
Abandon == late' = late \/ \E s \in Statuses : late' = late \union {s}

\* tee_cmd between two gettimeofday: its own reply; a reply that came too late
\* for an earlier command; no reply, and g_out keeps its status.
Send ==
  /\ pc = "send"
  /\ \E t \in 0 .. Second - 1, d \in 0 .. MaxLatency :
       /\ cost' = Cost(t, (t + d) % Second)
       /\ elapsed' = d
  /\ \/ reply' = "own" /\ status' \in Statuses /\ UNCHANGED late
     \/ reply' = "late" /\ status' \in late /\ Abandon
     \/ reply' = "none" /\ status' = status /\ Abandon
  /\ pc' = "check"
  /\ UNCHANGED <<hasPerf, times, cmd, perf, printed>>

\* tee_cmd does not return: trusty_cmd waits in read() without a timeout, the
\* other back ends in the vendor call.  RELEASE goes through tee_cmd as well.
Hang ==
  /\ pc \in {"send", "release"}
  /\ pc' = "hung"
  /\ UNCHANGED <<hasPerf, times, cmd, status, reply, late, cost, elapsed,
                 perf, printed>>

\* Mutation: a command that is refused is sent again, as long as it takes.
BreakRetries ==
  /\ pc = "check"
  /\ status = "err"
  /\ pc' = "send"
  /\ UNCHANGED <<hasPerf, times, cmd, status, reply, late, cost, elapsed,
                 perf, printed>>

\* Mutation: the loop goes on after a refusal.
BreakGoesOn ==
  /\ pc = "check"
  /\ status = "err"
  /\ pc' = "loop"
  /\ UNCHANGED <<hasPerf, times, cmd, status, reply, late, cost, elapsed,
                 perf, printed>>

\* if_abc(g_out->status != GENERIC_OK, break, ...)
Break ==
  /\ pc = "check"
  /\ status = "err"
  /\ pc' = "print"
  /\ UNCHANGED <<hasPerf, times, cmd, status, reply, late, cost, elapsed,
                 perf, printed>>

Larger(a, b) == IF a > b THEN a ELSE b

\* Mutation: the last cost in place of the largest.
CollectLast ==
  /\ pc = "check"
  /\ status = "ok"
  /\ hasPerf
  /\ perf' = [perf EXCEPT ![cmd] =
                [runs |-> @.runs + 1, max |-> cost, total |-> @.total + cost]]
  /\ pc' = "loop"
  /\ UNCHANGED <<hasPerf, times, cmd, status, reply, late, cost, elapsed,
                 printed>>

\* collect_performance_data.
Collect ==
  /\ pc = "check"
  /\ status = "ok"
  /\ hasPerf
  /\ perf' = [perf EXCEPT ![cmd] =
                [runs |-> @.runs + 1, max |-> Larger(@.max, cost),
                 total |-> @.total + cost]]
  /\ pc' = "loop"
  /\ UNCHANGED <<hasPerf, times, cmd, status, reply, late, cost, elapsed,
                 printed>>

\* A null g_perf is written through, or read by print_data.
NullPerf ==
  /\ ~hasPerf
  /\ (pc = "check" /\ status = "ok") \/ pc = "print"
  /\ pc' = "crashed"
  /\ UNCHANGED <<hasPerf, times, cmd, status, reply, late, cost, elapsed,
                 perf, printed>>

\* avg_t, a uint32_t.
Average(c) == (perf[c].total \div perf[c].runs) % Word

\* What %d prints of a uint32_t.
Signed(w) == IF 2 * w >= Word THEN w - Word ELSE w

\* print_data, one command after the other.  To divide by zero is undefined:
\* the process may be killed, or go on with any quotient.
PrintLine ==
  /\ pc = "print"
  /\ hasPerf
  /\ \E c \in Commands \ printed :
       /\ \A b \in Commands \ printed : c <= b
       /\ printed' = printed \union {c}
       /\ pc' \in IF perf[c].runs > 0 THEN {"print"} ELSE {"print", "crashed"}
  /\ UNCHANGED <<hasPerf, times, cmd, status, reply, late, cost, elapsed, perf>>

Printed ==
  /\ pc = "print"
  /\ hasPerf
  /\ printed = Commands
  /\ pc' = "release"
  /\ UNCHANGED <<hasPerf, times, cmd, status, reply, late, cost, elapsed,
                 perf, printed>>

\* release(): TEE_CMD_RELEASE, whose result is ignored, then tee_exit; main
\* returns 0.
Release ==
  /\ pc = "release"
  /\ pc' = "done"
  /\ UNCHANGED <<hasPerf, times, cmd, status, reply, late, cost, elapsed,
                 perf, printed>>

Step ==
  \/ BadArguments \/ Arguments \/ InitDevice \/ Fill \/ RoundsOver \/ Send
  \/ Hang \/ Break \/ Collect \/ NullPerf \/ PrintLine \/ Printed \/ Release

Over == pc \in {"done", "help", "crashed", "hung"} /\ UNCHANGED vars

Next == Step \/ Over

Spec == Init /\ [][Next]_vars

\* A single process that runs on.
FairSpec == Spec /\ WF_vars(Step)

---------------------------------------------------------------------------
(* Properties.                                                             *)

\* A cost that wrapped around is near 2^32, and %d prints a maximum made of it
\* as a negative number; a maximum that is printed without a sign is not below
\* the average printed beside it, which has no sign either.
AverageBelowMax ==
  \A c \in printed :
    perf[c].runs > 0 /\ Signed(perf[c].max) >= 0 =>
      Signed(Average(c)) \in 0 .. Signed(perf[c].max)

\* With the table in place, every command run once and a tee_cmd that returns,
\* the test reaches TEE_CMD_RELEASE and tee_exit, whatever the TA answers; only
\* what is named here keeps the session from being closed.
EndsInRelease ==
  pc = "loop" ~> \/ pc = "done"
                 \/ pc = "hung"
                 \/ pc = "crashed" /\ (~hasPerf \/ \E c \in Commands : perf[c].runs = 0)

\* random_test ignores what tee_cmd returns, so the status it reads may be an
\* earlier command's.  If nothing was delivered that status is OK, because the
\* loop is left at the first other one: an error that is read was delivered by
\* this very tee_cmd, as the reply to the command or to one given up before.
NoOldError ==
  pc = "check" /\ status = "err" => reply = "own" \/ (reply = "late" /\ "err" \in late)

\* A command shorter than a second is charged its time, or, when the second
\* turns during it, its time less one second in an unsigned word: never
\* another figure of the size of a latency.
ChargedOrWrapped ==
  pc = "check" /\ elapsed < Second =>
    cost \in {elapsed, elapsed + Word - Second}
=============================================================================
