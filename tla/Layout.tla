------------------------------- MODULE Layout -------------------------------
(***************************************************************************)
(* The lengths the two sides of a link tell each other.  Each side is      *)
(* built with its own copy of platform_common.h; here their BUF_LEN may    *)
(* differ, as after an update of one side.  A call declares a request and  *)
(* an answer length (the back ends in sample_hal/platform), the entry      *)
(* point of the trusted application looks at them, copies IN_BUF_LEN bytes *)
(* out of the request into io_buf of its device block (on Trusty the whole *)
(* request, before it looks) and writes an answer of OUT_BUF_LEN bytes     *)
(* (app_main.c, sampleta/platform/trusty/trusty.c).  What a vendor can     *)
(* carry at most is left out: the 32768 bytes of the Trusty port           *)
(* (app_main.c:140) and of a GP shared block (tee_client_api.h:34).        *)
(***************************************************************************)
EXTENDS Integers

CONSTANTS
  BufLens,     \* BUF_LEN of a build
  Tees         \* the back ends in use

AllTees == {"qsee", "isee", "kinibi", "trusty", "gp"}

ASSUME BufLensAssumption == BufLens \subseteq Nat \ {0}
ASSUME TeesAssumption == Tees \subseteq AllTees

VARIABLES
  tee,         \* the back end
  halLen,      \* BUF_LEN of the HAL
  taLen,       \* BUF_LEN of the trusted application
  pc,          \* "idle", "called", "inside", "refused"
  cmdlen,      \* length of the request, or of the one block for both
  rsplen,      \* length of the answer's block; 0 when there is one block
  copied       \* bytes of the request copied to io_buf

vars == <<tee, halLen, taLen, pc, cmdlen, rsplen, copied>>

\* sizeof(struct tee_in_buf), sizeof(struct tee_out_buf): words of 4 bytes.
Words(n) == 4 * ((n + 3) \div 4)
IN_BUF_LEN(bufLen) == Words(48 + bufLen)
OUT_BUF_LEN(bufLen) == Words(52 + bufLen)

\* io_buf of struct platform_device: g_in at its start, room for an answer.
IO_BUF_LEN(bufLen) == IN_BUF_LEN(bufLen) + OUT_BUF_LEN(bufLen)

\* Mutation: rounded down.
AlignDown(n) == 64 * (n \div 64)

\* QSEECOM_ALIGN: (x + 63) & ~63.
QSEECOM_ALIGN(n) == 64 * ((n + 63) \div 64)

TypeOK ==
  /\ tee \in Tees
  /\ halLen \in BufLens
  /\ taLen \in BufLens
  /\ pc \in {"idle", "called", "inside", "refused"}
  /\ cmdlen \in Nat
  /\ rsplen \in Nat
  /\ copied \in Nat

Init ==
  /\ tee \in Tees
  /\ halLen \in BufLens
  /\ taLen \in BufLens
  /\ pc = "idle"
  /\ cmdlen = 0
  /\ rsplen = 0
  /\ copied = 0

\* tee_cmd of the back end, with what its tee_init set up.
DeclaresTwo ==
  /\ tee \in {"qsee", "trusty", "gp"}
  /\ cmdlen' = IF tee = "qsee" THEN QSEECOM_ALIGN(IN_BUF_LEN(halLen))
               ELSE IN_BUF_LEN(halLen)
  /\ rsplen' = IF tee = "qsee" THEN QSEECOM_ALIGN(OUT_BUF_LEN(halLen))
               ELSE OUT_BUF_LEN(halLen)

DeclaresOne ==
  /\ tee \in {"isee", "kinibi"}
  /\ cmdlen' = IN_BUF_LEN(halLen) + OUT_BUF_LEN(halLen)
  /\ rsplen' = 0

Call ==
  /\ pc = "idle"
  /\ pc' = "called"
  /\ DeclaresTwo \/ DeclaresOne
  /\ UNCHANGED <<tee, halLen, taLen, copied>>

\* Mutation: only the request's length is looked at.
AcceptsRequest ==
  /\ tee = "qsee" => cmdlen >= IN_BUF_LEN(taLen)
  /\ tee = "gp" => cmdlen = IN_BUF_LEN(taLen)
  /\ tee = "isee" => cmdlen = IN_BUF_LEN(taLen) + OUT_BUF_LEN(taLen)
  /\ tee = "kinibi" => cmdlen >= IN_BUF_LEN(taLen) + OUT_BUF_LEN(taLen)
  /\ tee = "trusty" => cmdlen = IN_BUF_LEN(taLen)

\* Mutation: the one block may be longer than is needed.
AcceptsLonger ==
  /\ tee = "qsee" => cmdlen >= IN_BUF_LEN(taLen) /\ rsplen >= OUT_BUF_LEN(taLen)
  /\ tee = "gp" => cmdlen = IN_BUF_LEN(taLen) /\ rsplen = OUT_BUF_LEN(taLen)
  /\ tee \in {"isee", "kinibi"} =>
         cmdlen >= IN_BUF_LEN(taLen) + OUT_BUF_LEN(taLen)
  /\ tee = "trusty" => cmdlen = IN_BUF_LEN(taLen)

\* tz_app_cmd_handler, TA_InvokeCommandEntryPoint, ut_pf_fp_invoke_command,
\* tlMain and trusty_router.
Accepts ==
  /\ tee = "qsee" => cmdlen >= IN_BUF_LEN(taLen) /\ rsplen >= OUT_BUF_LEN(taLen)
  /\ tee = "gp" => cmdlen = IN_BUF_LEN(taLen) /\ rsplen = OUT_BUF_LEN(taLen)
  /\ tee = "isee" => cmdlen = IN_BUF_LEN(taLen) + OUT_BUF_LEN(taLen)
  /\ tee = "kinibi" => cmdlen >= IN_BUF_LEN(taLen) + OUT_BUF_LEN(taLen)
  /\ tee = "trusty" => cmdlen = IN_BUF_LEN(taLen)

\* trusty_router has read_msg take in the whole message before it compares the
\* length with IN_BUF_LEN; the others copy what they have accepted.
Copies ==
  IF tee = "trusty" THEN cmdlen ELSE IF Accepts THEN IN_BUF_LEN(taLen) ELSE 0

Enter ==
  /\ pc = "called"
  /\ Accepts
  /\ pc' = "inside"
  /\ copied' = Copies
  /\ UNCHANGED <<tee, halLen, taLen, cmdlen, rsplen>>

Refuse ==
  /\ pc = "called"
  /\ ~Accepts
  /\ pc' = "refused"
  /\ copied' = Copies
  /\ UNCHANGED <<tee, halLen, taLen, cmdlen, rsplen>>

\* tee_cmd returns, whatever it met.
Return ==
  /\ pc \in {"inside", "refused"}
  /\ pc' = "idle"
  /\ copied' = 0
  /\ UNCHANGED <<tee, halLen, taLen, cmdlen, rsplen>>

Next == Call \/ Enter \/ Refuse \/ Return

Spec == Init /\ [][Next]_vars

---------------------------------------------------------------------------
(* Properties.                                                             *)

\* The trusted application reads and writes only inside the blocks it was
\* given, also when the two sides were built with different lengths.  (A Trusty
\* answer is a message of its own, which the client reads into rsplen bytes.)
\* Its own io_buf it overruns only on Trusty, in the copy before the check, and
\* only for a client whose request is longer than request and answer of its own.
TaStaysInside ==
  /\ pc = "inside" =>
       IF tee \in {"isee", "kinibi"}
       THEN IO_BUF_LEN(taLen) <= cmdlen
       ELSE /\ IN_BUF_LEN(taLen) <= cmdlen
            /\ OUT_BUF_LEN(taLen) <= rsplen
  /\ copied > IO_BUF_LEN(taLen) =>
       /\ tee = "trusty" /\ pc = "refused"
       /\ IN_BUF_LEN(halLen) > IO_BUF_LEN(taLen)

\* Two sides of one build understand each other: no call is refused.
OneBuildAccepts == halLen = taLen => pc # "refused"

\* In one block the answer lies where the client looks for it, behind a request
\* of the client's length.  The test of tlMain (Kinibi) lets a longer block
\* pass, so there it takes two equal builds.
AnswerInPlace ==
  pc = "inside" /\ (tee = "isee" \/ (tee = "kinibi" /\ halLen = taLen)) =>
    IN_BUF_LEN(taLen) = IN_BUF_LEN(halLen)
=============================================================================
