------------------------------ MODULE Routine ------------------------------
(***************************************************************************)
(* The functions that talk to a vendor API have one shape in this code, in *)
(* the HAL back ends (open, init, exit of a session) and in the platforms  *)
(* of the trusted application (storage, HMAC, token, SPI): a list of       *)
(* calls, each followed by a test of its result (if_ab, if_abc, if_err)    *)
(* that records an error and then returns, jumps to a clean-up label, or   *)
(* falls through.  A routine is a table of such rows; this module runs one *)
(* routine after the other, every call free to fail, and says what a       *)
(* routine owes its caller.  HalTables and TaTables hold the tables.       *)
(***************************************************************************)
EXTENDS CallTable

CONSTANTS
  Code,        \* Code[c]: the rows of routine c
  Contract,    \* Contract[c]: what c needs to hold, and holds when it is done
  Depends,     \* <<a, b>>: resource a must be given back before b
  Tries,       \* turns of a retry loop that counts them
  Leaky,       \* routines known to leave a resource behind
  Deaf,        \* <<c, i>>: c is known to go on when the call of its row i fails
  Alarmist,    \* routines known to report an error no call has made
  Endless,     \* routines known to retry without end
  Hasty        \* <<c, d>>: c is known to break the order d of Depends

Routines == DOMAIN Code
None == "none"                        \* no routine is running
Rows(c) == 1 .. Len(Code[c])

ASSUME TriesAssumption == Tries \in Nat \ {0}
ASSUME NoneAssumption == None \notin Routines
ASSUME HastyAssumption == Hasty \subseteq Routines \X Depends

\* A table is a sequence of rows; no row jumps out of it, and a retry loop is
\* followed by the row that says what happens when it is left.
ASSUME CodeAssumption ==
  \A c \in Routines :
    /\ Code[c] \in Seq(RowType)
    /\ \A i \in Rows(c) :
         /\ Code[c][i].go \in Fall .. Len(Code[c]) + 1
         /\ Code[c][i].loop # "no" => i + 1 \in Rows(c)

VARIABLES
  at,          \* the routine that is running
  row,         \* its next row; Return once it has returned early
  sys,         \* the variable results go to: g_out->sys_err, or local `status`
  status,      \* "err" once a test has recorded an error
  turn,        \* turns a retry loop has taken, modulo Tries
  kept,        \* the resources held
  broke,       \* history: the rows of this routine whose call failed for good
  refused      \* history: a test of arguments or contents has refused

vars == <<at, row, sys, status, turn, kept, broke, refused>>

Resources ==
  UNION {UNION {Code[c][i].get : i \in Rows(c)} : c \in Routines}

TypeOK ==
  /\ at \in Routines \union {None}
  /\ row \in Nat
  /\ at # None => row <= Len(Code[at]) + 1
  /\ sys \in Values
  /\ status \in {"ok", "err"}
  /\ turn \in 0 .. Tries - 1
  /\ kept \subseteq Resources
  /\ broke \subseteq Nat
  /\ refused \in BOOLEAN

Init ==
  /\ at = None
  /\ row = Return
  /\ sys = 0
  /\ status = "ok"
  /\ turn = 0
  /\ kept = {}
  /\ broke = {}
  /\ refused = FALSE

\* The caller enters a routine when it holds what the routine works on.  The
\* result variable keeps what the last routine left in it.
Start(c) ==
  /\ at = None
  /\ kept = Contract[c].needs
  /\ at' = c
  /\ row' = 1
  /\ status' = "ok"
  /\ turn' = 0
  /\ broke' = {}
  /\ refused' = FALSE
  /\ UNCHANGED <<sys, kept>>

\* A failed call acquires nothing; of two failed mallocs one may have worked.
Taken(r, o) ==
  IF o.ok THEN {r.get}
  ELSE IF r.kind = "pointer" THEN {x \in SUBSET r.get : x # r.get \/ x = {}}
  ELSE {{}}

Failed(o) == IF o.ok THEN {} ELSE {row}

Tested(r, o) == IF r.tests = "result" THEN o.val ELSE sys

\* The call of row r, with outcome o: its result is stored and its resources
\* change hands.
Perform(r, o) ==
  /\ sys' = IF r.stores THEN o.val ELSE sys
  /\ \E x \in Taken(r, o) : kept' = (kept \union x) \ r.put
  /\ UNCHANGED at

\* The test lets the result pass; a retry loop is left over its error record.
Pass(r, o) ==
  /\ Tested(r, o) \notin r.bad
  /\ Perform(r, o)
  /\ row' = IF r.loop = "no" THEN row + 1 ELSE row + 2
  /\ broke' = broke \union Failed(o)
  /\ UNCHANGED <<status, turn, refused>>

\* One more turn of a retry loop.
Retry(r, o) ==
  /\ Tested(r, o) \in r.bad
  /\ r.loop = "endless" \/ (r.loop = "counted" /\ turn < Tries - 1)
  /\ turn' = IF turn = Tries - 1 THEN 0 ELSE turn + 1
  /\ Perform(r, o)
  /\ UNCHANGED <<row, status, broke, refused>>

\* The test trips: the error is recorded (a loop leaves that to its next row)
\* and the error path taken.
Trip(r, o) ==
  /\ Tested(r, o) \in r.bad
  /\ r.loop = "no" \/ (r.loop = "counted" /\ turn = Tries - 1)
  /\ Perform(r, o)
  /\ status' = IF r.loop = "no" THEN "err" ELSE status
  /\ row' = IF r.go = Fall THEN row + 1 ELSE r.go
  /\ broke' = broke \union Failed(o)
  /\ refused' = (refused \/ r.data)
  /\ UNCHANGED turn

Step ==
  /\ at # None
  /\ row \in Rows(at)
  /\ LET r == Code[at][row] IN
       \E o \in Outcomes[r.kind] : Pass(r, o) \/ Retry(r, o) \/ Trip(r, o)

Ended == at # None /\ row \notin Rows(at)

\* What the caller may count on when the routine is over.
Promise == IF row = Return THEN Contract[at].needs ELSE Contract[at].gains

\* Back to the caller: what it does not know about is out of its hands.
Finish ==
  /\ Ended
  /\ at' = None
  /\ row' = Return
  /\ kept' = kept \intersect Promise
  /\ UNCHANGED <<sys, status, turn, broke, refused>>

Next == (\E c \in Routines : Start(c)) \/ Step \/ Finish

Spec == Init /\ [][Next]_vars

\* A routine that has been entered runs on.
FairSpec == Spec /\ WF_vars(Step) /\ WF_vars(Finish)

---------------------------------------------------------------------------
(* Properties.                                                             *)

\* Whatever fails, a routine leaves nothing open that its caller does not know
\* of: each error exit gives back what was acquired before it.
LosesNothing == Ended /\ at \notin Leaky => kept \subseteq Promise

\* A routine that runs to its end holds all its caller goes on to use: no exit
\* closes what tee_cmd or the next routine still needs.
HoldsPromise == Ended => Promise \subseteq kept

\* No clean-up path closes what was never opened, or closes it twice.
NoBadRelease == at # None /\ row \in Rows(at) => Code[at][row].put \subseteq kept

\* A failed vendor call is reported: the routine does not end with status OK,
\* unless the call is one of those whose failure the code is known to drop.
FailureReported ==
  Ended /\ (\E i \in broke : <<at, i>> \notin Deaf) => status = "err"

\* An error is reported only when a call failed or the data were refused, not
\* because of a result left over from an earlier routine, nor of a success
\* taken for an error code.
SuccessReported ==
  Ended /\ status = "err" /\ at \notin Alarmist => broke # {} \/ refused

\* A session goes before its device, a file before its session, the library
\* after all that was opened with it; where a routine is known to break one of
\* these orders, it keeps the others, and all hold again when it is over.
NoOrphan ==
  \A d \in Depends : d[1] \in kept => d[2] \in kept \/ <<at, d>> \in Hasty

\* A routine ends even when every call keeps failing.
Terminates == \A c \in Routines \ Endless : at = c ~> at = None

---------------------------------------------------------------------------
(* What can be told from a table alone.                                    *)

\* What routine c holds at row i when no call has failed on the way.
Own(c, i) ==
  {x \in Contract[c].needs \union Resources :
     \/ x \in Contract[c].needs /\ \A k \in 1 .. i - 1 : x \notin Code[c][k].put
     \/ \E j \in 1 .. i - 1 :
          /\ x \in Code[c][j].get
          /\ \A k \in j .. i - 1 : x \notin Code[c][k].put}

\* A row that acquires takes exactly the failures for errors and leaves.
SoundGet(r) ==
  r.get # {} =>
    /\ r.loop = "no" /\ r.tests = "result" /\ r.put = {} /\ r.go # Fall
    /\ r.kind = "pointer" => \E x \in r.get : r.get = {x}
    /\ \A o \in Outcomes[r.kind] : o.ok <=> o.val \notin r.bad

\* An error path goes where the same resources are held.
SoundJump(c, i) ==
  LET r == Code[c][i] IN
    /\ r.go = Return => Own(c, i) \ r.put = Contract[c].needs
    /\ r.go > 0 => Own(c, r.go) = Own(c, i) \ r.put
    /\ r.loop # "no" => r.put = {} /\ Own(c, i + 2) = Own(c, i + 1)

\* All error paths and the end of c give back what they should.
Balanced(c) ==
  /\ \A i \in Rows(c) : SoundGet(Code[c][i]) /\ SoundJump(c, i)
  /\ Own(c, Len(Code[c]) + 1) = Contract[c].gains

\* Every failure of the call of row i trips the test that follows it; a retry
\* loop that is exhausted is followed by a row that records the error.
Reporting(c, i) ==
  LET r == Code[c][i] IN
    /\ \A o \in Outcomes[r.kind] :
         ~o.ok => r.tests = "result" /\ o.val \in r.bad
    /\ r.loop # "no" =>
         /\ i + 1 \in Rows(c)
         /\ Code[c][i + 1].bad = Values
         /\ Code[c][i + 1].loop = "no"
         /\ r.go = Fall

\* What row r lets pass has worked, when it acquires something; a loop does not.
SafeGet(r) ==
  r.get # {} =>
    /\ r.loop = "no" /\ r.tests = "result" /\ r.go # Fall
    /\ \A o \in Outcomes[r.kind] : o.val \notin r.bad => o.ok

\* An error path goes where no more is needed than is held on it for certain.
SafeJump(c, i) ==
  LET r == Code[c][i] IN
    /\ r.go = Return => Contract[c].needs \subseteq Own(c, i) \ r.put
    /\ r.go > 0 => Own(c, r.go) \subseteq Own(c, i) \ r.put
    /\ r.loop # "no" => r.put = {} /\ Own(c, i + 2) \subseteq Own(c, i + 1)

\* c gives back only what it holds, whichever way led there, and its caller
\* finds what it was promised; a routine that leaks can still be secured.
Secured(c) ==
  /\ \A i \in Rows(c) :
       SafeGet(Code[c][i]) /\ SafeJump(c, i) /\ Code[c][i].put \subseteq Own(c, i)
  /\ Contract[c].gains \subseteq Own(c, Len(Code[c]) + 1)

\* What depends on a resource is held only with it.
Closed(S) == \A d \in Depends : d[1] \in S => d[2] \in S

\* c acquires d[1] while it holds d[2], and gives d[2] back with d[1] or where
\* it does not hold d[1].
Ordered(c, d) ==
  \A i \in Rows(c) :
    LET r == Code[c][i] IN
      /\ d[1] \in r.get => d[2] \in Own(c, i) \ r.put
      /\ d[2] \in r.put => d[1] \in r.put \/ (Balanced(c) /\ d[1] \notin Own(c, i))

\* Only a call that failed leaves v in sys: the first row stores its result,
\* and no row stores v for a success.
FailureLeaves(c, v) ==
  /\ Code[c][1].stores
  /\ \A i \in Rows(c) :
       LET r == Code[c][i] IN
         r.stores => r.loop = "no" /\ \A o \in Outcomes[r.kind] : o.ok => o.val # v

\* Row i is reached only from a retry loop that has given up.
GivenUp(c, i) ==
  /\ i - 1 \in Rows(c) /\ Code[c][i - 1].loop # "no"
  /\ \A k \in Rows(c) :
       Code[c][k].go # i /\ (k + 2 = i => Code[c][k].loop = "no")

\* Each test of c trips over data, over a call that failed, over what a failed
\* call left, or after such a loop.
Grounded(c) ==
  \A i \in Rows(c) :
    LET r == Code[c][i] IN
      \/ r.data
      \/ r.tests = "result" /\ \A o \in Outcomes[r.kind] : o.val \in r.bad => ~o.ok
      \/ r.tests = "stored" /\ i # 1 /\ \A v \in r.bad : FailureLeaves(c, v)
      \/ GivenUp(c, i)

\* Error paths lead to later rows, and loops count their turns.
Forward(c) ==
  \A i \in Rows(c) :
    LET r == Code[c][i] IN r.loop # "endless" /\ (r.go > 0 => r.go > i)

\* The exceptions of LosesNothing, FailureReported, SuccessReported, Terminates
\* and NoOrphan are exactly the routines, calls and orders whose table breaks
\* the rule; the rules behind HoldsPromise and NoBadRelease every routine that
\* can run keeps, the leaking ones included.
ExceptionsExact ==
  at # None =>
    /\ at \in Leaky <=> ~Balanced(at)
    /\ \A i \in Rows(at) : <<at, i>> \in Deaf <=> ~Reporting(at, i)
    /\ at \in Alarmist <=> ~Grounded(at)
    /\ at \in Endless <=> ~Forward(at)
    /\ Secured(at)
    /\ \A d \in Depends : <<at, d>> \in Hasty <=> ~Ordered(at, d)
    /\ Closed(Contract[at].needs) /\ Closed(Contract[at].gains)
=============================================================================
