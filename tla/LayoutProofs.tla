---------------------------- MODULE LayoutProofs ----------------------------
(***************************************************************************)
(* The lengths fit for every BUF_LEN, and for any two of them.             *)
(***************************************************************************)
EXTENDS Layout, TLAPS

\* A size in words covers the bytes and is the next multiple of 4.
LEMMA WordsBound ==
  ASSUME NEW n \in Nat
  PROVE  Words(n) \in Nat /\ n <= Words(n) /\ Words(n) < n + 4
BY DEF Words

\* The two structures differ by the one word that the answer has more.
LEMMA AnswerIsLonger ==
  ASSUME NEW b \in BufLens
  PROVE  /\ IN_BUF_LEN(b) \in Nat /\ OUT_BUF_LEN(b) \in Nat
         /\ OUT_BUF_LEN(b) = IN_BUF_LEN(b) + 4
BY BufLensAssumption DEF IN_BUF_LEN, OUT_BUF_LEN, Words

\* Rounding up to 64 covers the length and costs less than a block.
LEMMA AlignBound ==
  ASSUME NEW n \in Nat
  PROVE  /\ QSEECOM_ALIGN(n) \in Nat /\ n <= QSEECOM_ALIGN(n)
         /\ QSEECOM_ALIGN(n) < n + 64 /\ QSEECOM_ALIGN(n) % 64 = 0
BY DEF QSEECOM_ALIGN

---------------------------------------------------------------------------
\* What a call in progress has declared.
Declared ==
  pc # "idle" =>
    /\ tee = "qsee" => /\ cmdlen = QSEECOM_ALIGN(IN_BUF_LEN(halLen))
                       /\ rsplen = QSEECOM_ALIGN(OUT_BUF_LEN(halLen))
    /\ tee \in {"trusty", "gp"} => /\ cmdlen = IN_BUF_LEN(halLen)
                                   /\ rsplen = OUT_BUF_LEN(halLen)
    /\ tee \in {"isee", "kinibi"} =>
         cmdlen = IN_BUF_LEN(halLen) + OUT_BUF_LEN(halLen)

\* What the entry point has found out.
Examined == pc = "inside" => Accepts
Rejected == pc = "refused" => ~Accepts

\* What has been copied, and when.
Taken ==
  /\ pc \in {"idle", "called"} => copied = 0
  /\ pc \in {"inside", "refused"} => copied = Copies

LInv == TypeOK /\ Declared /\ Examined /\ Rejected /\ Taken

LEMMA LInvInit == Init => LInv
BY DEF Init, LInv, TypeOK, Declared, Examined, Rejected, Taken

LEMMA LInvStep ==
  ASSUME LInv, [Next]_vars
  PROVE  LInv'
<1> USE DEF LInv, TypeOK
<1>1. CASE Call
  <2>1. halLen \in BufLens /\ halLen' = halLen /\ tee' = tee /\ taLen' = taLen
    BY <1>1 DEF Call
  <2>2. IN_BUF_LEN(halLen) \in Nat /\ OUT_BUF_LEN(halLen) \in Nat
    BY <2>1, AnswerIsLonger
  <2>3. /\ QSEECOM_ALIGN(IN_BUF_LEN(halLen)) \in Nat
        /\ QSEECOM_ALIGN(OUT_BUF_LEN(halLen)) \in Nat
    BY <2>2, AlignBound
  <2>4. Declared'
    BY <1>1, <2>1 DEF Call, DeclaresTwo, DeclaresOne, Declared
  <2>5. cmdlen' \in Nat /\ rsplen' \in Nat
    BY <1>1, <2>2, <2>3 DEF Call, DeclaresTwo, DeclaresOne
  <2>6. pc' = "called" /\ copied' = 0
    BY <1>1 DEF Call, Taken
  <2> QED
    BY <2>1, <2>4, <2>5, <2>6 DEF Examined, Rejected, Taken
<1>6. Copies \in Nat
  <2>1. IN_BUF_LEN(taLen) \in Nat
    BY AnswerIsLonger
  <2> QED
    BY <2>1 DEF Copies
<1>2. CASE Enter
  <2>1. Accepts' /\ Copies' = Copies
    BY <1>2 DEF Enter, Accepts, Copies
  <2> QED
    BY <1>2, <1>6, <2>1 DEF Enter, Declared, Examined, Rejected, Taken
<1>3. CASE Refuse
  <2>1. ~Accepts' /\ Copies' = Copies
    BY <1>3 DEF Refuse, Accepts, Copies
  <2> QED
    BY <1>3, <1>6, <2>1 DEF Refuse, Declared, Examined, Rejected, Taken
<1>4. CASE Return
  BY <1>4 DEF Return, Declared, Examined, Rejected, Taken
<1>5. CASE UNCHANGED vars
  <2>1. Accepts' = Accepts /\ Copies' = Copies
    BY <1>5 DEF vars, Accepts, Copies
  <2> QED
    BY <1>5, <2>1 DEF vars, Declared, Examined, Rejected, Taken
<1> QED
  BY <1>1, <1>2, <1>3, <1>4, <1>5 DEF Next

LEMMA LInvAlways == Spec => []LInv
BY LInvInit, LInvStep, PTL DEF Spec

\* In no build and between no two builds does the trusted application read or
\* write outside the blocks of a call it accepts; its own io_buf it overruns
\* only on Trusty, with a request it then refuses, of a client that is built
\* for more than twice its length (Layout.TaStaysInside).
THEOREM StaysInside == Spec => []TaStaysInside
<1>1. LInv => TaStaysInside
  <2> SUFFICES ASSUME LInv
               PROVE  TaStaysInside
    OBVIOUS
  <2>1. /\ tee \in AllTees /\ halLen \in BufLens /\ taLen \in BufLens
        /\ cmdlen \in Nat /\ rsplen \in Nat
        /\ pc \in {"idle", "called", "inside", "refused"}
    BY TeesAssumption DEF LInv, TypeOK
  <2>2. /\ IN_BUF_LEN(taLen) \in Nat
        /\ OUT_BUF_LEN(taLen) = IN_BUF_LEN(taLen) + 4
        /\ IN_BUF_LEN(halLen) \in Nat
        /\ OUT_BUF_LEN(halLen) = IN_BUF_LEN(halLen) + 4
    BY <2>1, AnswerIsLonger
  <2>3. ASSUME pc = "inside"
        PROVE  IF tee \in {"isee", "kinibi"}
               THEN IO_BUF_LEN(taLen) <= cmdlen
               ELSE IN_BUF_LEN(taLen) <= cmdlen /\ OUT_BUF_LEN(taLen) <= rsplen
    <3>1. Accepts
      BY <2>3 DEF LInv, Examined
    <3>2. CASE tee \in {"isee", "kinibi"}
      BY <2>2, <3>1, <3>2 DEF Accepts, IO_BUF_LEN
    <3>3. CASE tee \in {"qsee", "gp"}
      BY <2>2, <3>1, <3>3 DEF Accepts
    <3>4. CASE tee = "trusty"
      <4>1. rsplen = OUT_BUF_LEN(halLen) /\ cmdlen = IN_BUF_LEN(halLen)
        BY <2>3, <3>4 DEF LInv, Declared
      <4>2. cmdlen = IN_BUF_LEN(taLen)
        BY <3>1, <3>4 DEF Accepts
      <4> QED
        BY <2>2, <3>4, <4>1, <4>2
    <3> QED
      BY <2>1, <3>2, <3>3, <3>4 DEF AllTees
  <2>4. ASSUME copied > IO_BUF_LEN(taLen)
        PROVE  /\ tee = "trusty" /\ pc = "refused"
               /\ IN_BUF_LEN(halLen) > IO_BUF_LEN(taLen)
    <3>1. IO_BUF_LEN(taLen) \in Nat /\ IN_BUF_LEN(taLen) <= IO_BUF_LEN(taLen)
      BY <2>2 DEF IO_BUF_LEN
    <3>2. copied # 0 /\ copied # IN_BUF_LEN(taLen)
      BY <2>2, <2>4, <3>1
    <3>3. pc \in {"inside", "refused"} /\ copied = Copies
      BY <2>1, <3>2 DEF LInv, Taken
    <3>4. tee = "trusty" /\ copied = cmdlen
      BY <3>2, <3>3 DEF Copies
    <3>5. cmdlen = IN_BUF_LEN(halLen)
      BY <3>3, <3>4 DEF LInv, Declared
    <3>6. pc # "inside"
      BY <3>2, <3>4 DEF LInv, Examined, Accepts
    <3> QED
      BY <2>4, <3>3, <3>4, <3>5, <3>6
  <2> QED
    BY <2>3, <2>4 DEF TaStaysInside
<1> QED
  BY <1>1, LInvAlways, PTL

\* Whatever BUF_LEN is, two sides built with it accept each other's calls.
THEOREM OneBuildWorks == Spec => []OneBuildAccepts
<1>1. LInv => OneBuildAccepts
  <2> SUFFICES ASSUME LInv, halLen = taLen, pc = "refused"
               PROVE  FALSE
    BY DEF OneBuildAccepts
  <2>1. tee \in AllTees /\ halLen \in BufLens /\ ~Accepts
    BY TeesAssumption DEF LInv, TypeOK, Rejected
  <2>2. IN_BUF_LEN(halLen) \in Nat /\ OUT_BUF_LEN(halLen) \in Nat
    BY <2>1, AnswerIsLonger
  <2>3. /\ IN_BUF_LEN(halLen) <= QSEECOM_ALIGN(IN_BUF_LEN(halLen))
        /\ OUT_BUF_LEN(halLen) <= QSEECOM_ALIGN(OUT_BUF_LEN(halLen))
    BY <2>2, AlignBound
  <2>4. Accepts
    BY <2>1, <2>2, <2>3 DEF LInv, Declared, Accepts, AllTees
  <2> QED
    BY <2>1, <2>4
<1> QED
  BY <1>1, LInvAlways, PTL

\* Where request and answer share a block, an accepted call finds the answer at
\* its place, for any two builds on ISEE, for two equal ones on Kinibi.
THEOREM AnswersFound == Spec => []AnswerInPlace
<1>1. LInv => AnswerInPlace
  <2> SUFFICES ASSUME LInv, pc = "inside", tee = "isee"
               PROVE  IN_BUF_LEN(taLen) = IN_BUF_LEN(halLen)
    BY DEF AnswerInPlace
  <2>1. halLen \in BufLens /\ taLen \in BufLens /\ Accepts
    BY DEF LInv, TypeOK, Examined
  <2>2. cmdlen = IN_BUF_LEN(halLen) + OUT_BUF_LEN(halLen)
    BY DEF LInv, Declared
  <2>3. cmdlen = IN_BUF_LEN(taLen) + OUT_BUF_LEN(taLen)
    BY <2>1 DEF Accepts
  <2>4. /\ IN_BUF_LEN(taLen) \in Nat
        /\ OUT_BUF_LEN(taLen) = IN_BUF_LEN(taLen) + 4
        /\ IN_BUF_LEN(halLen) \in Nat
        /\ OUT_BUF_LEN(halLen) = IN_BUF_LEN(halLen) + 4
    BY <2>1, AnswerIsLonger
  <2> QED
    BY <2>2, <2>3, <2>4
<1> QED
  BY <1>1, LInvAlways, PTL

\* QSEECom asks for lengths in blocks of 64; rounding costs less than a block.
LengthsAligned ==
  pc = "called" /\ tee = "qsee" =>
    /\ cmdlen % 64 = 0 /\ rsplen % 64 = 0
    /\ cmdlen < IN_BUF_LEN(halLen) + 64 /\ rsplen < OUT_BUF_LEN(halLen) + 64

\* QSEECom is always given whole blocks, and less than one more than needed.
THEOREM AlwaysAligned == Spec => []LengthsAligned
<1>1. LInv => LengthsAligned
  <2> SUFFICES ASSUME LInv, pc = "called", tee = "qsee"
               PROVE  LengthsAligned
    BY DEF LengthsAligned
  <2>1. IN_BUF_LEN(halLen) \in Nat /\ OUT_BUF_LEN(halLen) \in Nat
    BY AnswerIsLonger DEF LInv, TypeOK
  <2>2. /\ cmdlen = QSEECOM_ALIGN(IN_BUF_LEN(halLen))
        /\ rsplen = QSEECOM_ALIGN(OUT_BUF_LEN(halLen))
    BY DEF LInv, Declared
  <2> QED
    BY <2>1, <2>2, AlignBound DEF LengthsAligned
<1> QED
  BY <1>1, LInvAlways, PTL
=============================================================================
