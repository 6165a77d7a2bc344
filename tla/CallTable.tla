----------------------------- MODULE CallTable -----------------------------
(***************************************************************************)
(* The rows routines are written in: one call of a vendor API, what it can *)
(* come back with, and the test the code makes of it.                      *)
(***************************************************************************)
EXTENDS Integers, Sequences

\* A result: negative, zero, a positive number that is a handle, an error code
\* or a short count, or the full count that was asked for.
Values == -1 .. 2
Full == 2
Neg == {-1}
Null == {0}
NonZero == Values \ {0}
NotFull == Values \ {Full}

\* What a call can come back with, and whether it has done its work.
Good(v) == [val |-> v, ok |-> TRUE]
Bad(v) == [val |-> v, ok |-> FALSE]
Outcomes ==
  [code    |-> {Good(0), Bad(-1), Bad(1)},      \* 0 or an error code
   negcode |-> {Good(0), Bad(-1)},              \* 0 or a negative code
   handle  |-> {Good(0), Good(1), Bad(-1)},     \* a handle or negative
   count   |-> {Good(Full), Bad(1), Bad(-1)},   \* bytes done
   pointer |-> {Good(1), Bad(0)},               \* malloc, dlopen, HMAC
   fact    |-> {Good(0), Good(1)},              \* a condition on the data
   void    |-> {Good(0)}]                       \* cannot fail

Return == 0                           \* `return` out of the routine
Fall == -1                            \* record the error and go on

\* One call and its test.  `data` marks a test of arguments or contents, which
\* is no failure of a call.  What `put` names is out of the code's hands after
\* the call even if that fails: no close is tried twice.
Row(get, put, kind, stores, tests, bad, go) ==
  [get |-> get, put |-> put, kind |-> kind, stores |-> stores,
   tests |-> tests, bad |-> bad, go |-> go, loop |-> "no",
   data |-> kind = "fact"]

RowType ==
  [get : SUBSET STRING, put : SUBSET STRING, kind : DOMAIN Outcomes,
   stores : BOOLEAN, tests : {"result", "stored"}, bad : SUBSET Values,
   go : Int, loop : {"no", "counted", "endless"}, data : BOOLEAN]

Get(x, kind, bad, go) == Row(x, {}, kind, TRUE, "result", bad, go)
Put(x) == Row({}, x, "void", FALSE, "result", {}, Fall)
PutDropped(x, kind) == Row({}, x, kind, FALSE, "result", {}, Fall)
PutChecked(x, kind, bad) == Row({}, x, kind, TRUE, "result", bad, Fall)
Call(kind, bad, go) == Row({}, {}, kind, TRUE, "result", bad, go)
Unstored(kind, bad, go) == Row({}, {}, kind, FALSE, "result", bad, go)
Dropped(kind, bad, go) == Row({}, {}, kind, FALSE, "stored", bad, go)
Check(bad, go) == Row({}, {}, "void", FALSE, "stored", bad, go)
CheckData(bad, go) == [Check(bad, go) EXCEPT !.data = TRUE]
Test(go) == Row({}, {}, "fact", FALSE, "result", {1}, go)
Fail(go) == Row({}, {}, "void", FALSE, "result", Values, go)
Loop(how, kind, bad) == [Unstored(kind, bad, Fall) EXCEPT !.loop = how]

\* q after p, where `return` of p returns from both, or only from p.
Shift(q, n) ==
  [i \in DOMAIN q |-> IF q[i].go > 0 THEN [q[i] EXCEPT !.go = @ + n] ELSE q[i]]
Join(p, q) == p \o Shift(q, Len(p))
Then(p, q) ==
  Join([i \in DOMAIN p |->
          IF p[i].go = Return THEN [p[i] EXCEPT !.go = Len(p) + 1] ELSE p[i]], q)
=============================================================================
