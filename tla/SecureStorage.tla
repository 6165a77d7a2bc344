--------------------------- MODULE SecureStorage ---------------------------
(***************************************************************************)
(* write_test and read_test of the trusted application: one file, written  *)
(* and read through the platform's storage service (qsee_write, qsee_read  *)
(* of qsee.c; trusty_write, trusty_read of trusty.c).  A call of the       *)
(* service may fail, and the TA may die between any two of them.  On QSEE  *)
(* a write goes straight to the file; on Trusty it happens in a            *)
(* transaction that the end of the operation commits.                      *)
(***************************************************************************)
EXTENDS Naturals, SequencesExt

CONSTANTS
  Platforms, \* "qsee", "trusty": the builds looked at
  Values,    \* fill patterns of a request
  MaxLen,    \* bound: BUF_LEN, in units of the model
  MaxLost,   \* bound: writes that may leave a mark between two answered ones
  Failures   \* what may fail: opening; input and output; input and output
             \* that come back short, without an error; the commit; the TA

ASSUME PlatformsAssumption == Platforms \subseteq {"qsee", "trusty"}
ASSUME ValuesAssumption == Values # {}
ASSUME MaxLenAssumption == MaxLen \in Nat \ {0}
ASSUME FailuresAssumption ==
  Failures \subseteq {"open", "io", "short", "commit", "death"}

VARIABLES
  platform,  \* the one the trusted application is built for
  pc,        \* the service call the operation makes next
  data,      \* the request of a write: buf_len bytes of g_in->buf
  file,      \* what the storage holds
  view,      \* the file as the open session sees it
  handles,   \* open descriptors, sessions and file handles
  status,    \* g_out->status
  size,      \* the local `size` of a read
  bufLen,    \* g_out->buf_len, kept from one call to the next
  got,       \* what the last read put into g_out->buf
  last,      \* history: the operation answered last
  dropped,   \* history: has the operation dropped a result that says not
             \* everything was done: a short count, a failed commit
  whole,     \* history: the data of the last whole write: answered OK, with no
             \* result dropped
  marks,     \* history: that data, and those of the writes begun since, also
             \* in the parts that failed or short writes moved
  refused    \* history: refusals for lack of room with nothing else since

reqVars == <<data, last, dropped, whole, marks, refused>>
vars == <<platform, pc, file, view, handles, status, size, bufLen, got,
          reqVars>>

Lengths == 0 .. MaxLen
Files == BoundedSeq(Values, MaxLen)
Filled(v, n) == [i \in 1 .. n |-> v]
Datas == {Filled(v, n) : v \in Values, n \in Lengths}

Transactional == platform = "trusty"

TypeOK ==
  /\ platform \in Platforms
  /\ pc \in {"idle", "write", "close_write", "size", "read", "close_read"}
  /\ data \in Datas
  /\ file \in Files
  /\ view \in Files
  /\ handles \in 0 .. 2
  /\ status \in {"ok", "err"}
  /\ size \in Lengths
  /\ bufLen \in Lengths
  /\ got \in Files
  /\ last \in {"none", "write", "read"}
  /\ dropped \in BOOLEAN
  /\ whole \in Files
  /\ marks \subseteq Files
  /\ refused \in Nat

\* g_out of QSEE is the client's buffer, which tee_test clears; g_out of
\* Trusty is malloc memory of the TA.
FreshBufLen == IF Transactional THEN Lengths ELSE {0}

Init ==
  /\ platform \in Platforms
  /\ pc = "idle"
  /\ data = <<>>
  /\ file = <<>>
  /\ view = <<>>
  /\ handles = 0
  /\ status = "ok"
  /\ size = 0
  /\ bufLen \in FreshBufLen
  /\ got = <<>>
  /\ last = "none"
  /\ dropped = FALSE
  /\ whole = <<>>
  /\ marks = {<<>>}
  /\ refused = 0

\* A descriptor on QSEE; a session and a file handle on Trusty.
Open == handles' = IF Transactional THEN 2 ELSE 1

\* The operation returns to ta_router, which answers.
Answer(op) == pc' = "idle" /\ last' = op

\* The first bytes of f replaced by d: a write does not shorten the file.
Over(f, d) ==
  [i \in 1 .. (IF Len(d) > Len(f) THEN Len(d) ELSE Len(f)) |->
     IF i <= Len(d) THEN d[i] ELSE f[i]]

---------------------------------------------------------------------------
(* sfs_write                                                               *)

\* Nothing is open yet: qsee_write refuses an empty request, or the open fails.
WriteRefused(d) ==
  /\ pc = "idle"
  /\ (d = <<>> /\ ~Transactional) \/ "open" \in Failures
  /\ data' = d
  /\ status' = "err"
  /\ dropped' = FALSE
  /\ refused' = 0
  /\ Answer("write")
  /\ UNCHANGED <<platform, file, view, handles, size, bufLen, got, whole,
                 marks>>

\* Mutation: STORAGE_FILE_OPEN_TRUNCATE is not given.
WriteOpenKeepsTail(d) ==
  /\ pc = "idle"
  /\ d # <<>> \/ Transactional
  /\ Cardinality(marks) <= MaxLost
  /\ Open
  /\ data' = d
  /\ view' = file
  /\ status' = "ok"
  /\ dropped' = FALSE
  /\ marks' = marks \union {d}
  /\ refused' = 0
  /\ pc' = "write"
  /\ UNCHANGED <<platform, file, size, bufLen, got, last, whole>>

\* Only Trusty opens with STORAGE_FILE_OPEN_TRUNCATE.
WriteOpen(d) ==
  /\ pc = "idle"
  /\ d # <<>> \/ Transactional
  /\ Cardinality(marks) <= MaxLost
  /\ Open
  /\ data' = d
  /\ view' = IF Transactional THEN <<>> ELSE file
  /\ status' = "ok"
  /\ dropped' = FALSE
  /\ marks' = marks \union {d}
  /\ refused' = 0
  /\ pc' = "write"
  /\ UNCHANGED <<platform, file, size, bufLen, got, last, whole>>

\* The first n bytes of the data go to the file on QSEE, into the transaction
\* on Trusty; the operation goes on to close.
Move(n) ==
  LET part == SubSeq(data, 1, n)
  IN  /\ view' = Over(view, part)
      /\ file' = IF Transactional THEN file ELSE view'
      /\ marks' = marks \union {part}
      /\ pc' = "close_write"
      /\ UNCHANGED <<platform, handles, size, bufLen, got, data, last, whole,
                     refused>>

Write ==
  /\ pc = "write"
  /\ Move(Len(data))
  /\ UNCHANGED <<status, dropped>>

\* A short count is not negative, and passes for success.
WriteShort ==
  /\ pc = "write"
  /\ "short" \in Failures
  /\ \E n \in 0 .. Len(data) : n < Len(data) /\ Move(n)
  /\ dropped' = TRUE
  /\ UNCHANGED status

\* Mutation: the result of the write is not looked at.
WriteFailsUnnoticed ==
  /\ pc = "write"
  /\ "io" \in Failures
  /\ \E n \in 0 .. Len(data) : Move(n)
  /\ UNCHANGED <<status, dropped>>

\* The write fails after some part of the data.
WriteFails ==
  /\ pc = "write"
  /\ "io" \in Failures
  /\ \E n \in 0 .. Len(data) : Move(n)
  /\ status' = "err"
  /\ UNCHANGED dropped

\* Close and, on Trusty, commit: also after a failed write, and whatever
\* storage_end_transaction returns.
WriteClose ==
  /\ pc = "close_write"
  /\ handles' = 0
  /\ \/ file' = view /\ UNCHANGED dropped
     \/ /\ Transactional /\ "commit" \in Failures
        /\ dropped' = TRUE
        /\ UNCHANGED file
  /\ IF status = "ok" /\ ~dropped'
       THEN marks' = {data} /\ whole' = data
       ELSE UNCHANGED <<marks, whole>>
  /\ Answer("write")
  /\ UNCHANGED <<platform, view, status, size, bufLen, got, data, refused>>

---------------------------------------------------------------------------
(* sfs_read                                                                *)

\* The open fails.  trusty_read stores the size it does not know when the
\* session opened but the file did not.
ReadRefused ==
  /\ pc = "idle"
  /\ "open" \in Failures
  /\ status' = "err"
  /\ bufLen' \in {bufLen} \union (IF Transactional THEN {0} ELSE {})
  /\ dropped' = FALSE
  /\ refused' = 0
  /\ Answer("read")
  /\ UNCHANGED <<platform, file, view, handles, size, got, data, whole, marks>>

\* Both platforms create the file when there is none, which reads as empty.
ReadOpen ==
  /\ pc = "idle"
  /\ Open
  /\ view' = file
  /\ status' = "ok"
  /\ dropped' = FALSE
  /\ size' = 0
  /\ pc' = "size"
  /\ UNCHANGED <<platform, file, bufLen, got, data, last, whole, marks,
                 refused>>

ReadSizeFails ==
  /\ pc = "size"
  /\ "io" \in Failures
  /\ status' = "err"
  /\ refused' = 0
  /\ pc' = "close_read"
  /\ UNCHANGED <<platform, file, view, handles, size, bufLen, got, data, last,
                 dropped, whole, marks>>

\* An empty file is an error, and so is one longer than g_out->buf_len says.
Room(n) == n > 0 /\ bufLen >= n

ReadSize ==
  /\ pc = "size"
  /\ size' = Len(view)
  /\ IF Room(Len(view))
       THEN pc' = "read" /\ UNCHANGED <<platform, status, refused>>
       ELSE /\ pc' = "close_read"
            /\ status' = "err"
            /\ refused' = IF view = <<>> THEN refused ELSE refused + 1
  /\ UNCHANGED <<platform, file, view, handles, bufLen, got, data, last,
                 dropped, whole, marks>>

\* The service returns the first n bytes of the file.
Take(n) ==
  /\ got' = SubSeq(view, 1, n)
  /\ refused' = 0
  /\ pc' = "close_read"
  /\ UNCHANGED <<platform, file, view, handles, size, bufLen, data, last, whole,
                 marks>>

Read ==
  /\ pc = "read"
  /\ Take(Len(view))
  /\ UNCHANGED <<status, dropped>>

\* trusty_read takes a short count for success; qsee_read compares it with the
\* size.
ReadShort ==
  /\ pc = "read"
  /\ "short" \in Failures
  /\ \E n \in 0 .. Len(view) : n < Len(view) /\ Take(n)
  /\ IF Transactional THEN dropped' = TRUE /\ UNCHANGED status
                      ELSE status' = "err" /\ UNCHANGED dropped

\* Mutation: the result of the read is not looked at.
ReadFailsUnnoticed ==
  /\ pc = "read"
  /\ "io" \in Failures
  /\ \E n \in 0 .. Len(view) : n < Len(view) /\ Take(n)
  /\ UNCHANGED <<status, dropped>>

ReadFails ==
  /\ pc = "read"
  /\ "io" \in Failures
  /\ \E n \in 0 .. Len(view) : n < Len(view) /\ Take(n)
  /\ status' = "err"
  /\ UNCHANGED dropped

\* Mutation: the size is not handed back.
ReadCloseKeepsLength ==
  /\ pc = "close_read"
  /\ handles' = 0
  /\ Answer("read")
  /\ UNCHANGED <<platform, file, view, status, size, bufLen, got, data, dropped,
                 whole, marks, refused>>

\* Mutation: the paths that leave early skip the close.
ReadCloseLeaks ==
  /\ pc = "close_read"
  /\ handles' = IF status = "ok" THEN 0 ELSE handles
  /\ bufLen' = size
  /\ Answer("read")
  /\ UNCHANGED <<platform, file, view, status, size, got, data, dropped, whole,
                 marks, refused>>

\* The size is handed back on every path, and is what the next read may use.
ReadClose ==
  /\ pc = "close_read"
  /\ handles' = 0
  /\ bufLen' = size
  /\ Answer("read")
  /\ UNCHANGED <<platform, file, view, status, size, got, data, dropped, whole,
                 marks, refused>>

\* The TA dies and starts again: the service drops its sessions and open
\* transaction; Trusty's g_out is new memory.
Die ==
  /\ "death" \in Failures
  /\ pc # "idle"
  /\ pc' = "idle"
  /\ handles' = 0
  /\ view' = file
  /\ bufLen' \in IF Transactional THEN FreshBufLen ELSE {bufLen}
  /\ refused' = 0
  /\ last' = "none"
  /\ dropped' = FALSE
  /\ UNCHANGED <<platform, file, status, size, got, data, whole, marks>>

Next ==
  \/ \E d \in Datas : WriteRefused(d) \/ WriteOpen(d)
  \/ Write \/ WriteShort \/ WriteFails \/ WriteClose
  \/ ReadRefused \/ ReadOpen \/ ReadSizeFails \/ ReadSize
  \/ Read \/ ReadShort \/ ReadFails \/ ReadClose
  \/ Die

Spec == Init /\ [][Next]_vars

---------------------------------------------------------------------------
(* Properties.                                                             *)

\* f keeps what the last whole write left, as far as no later write replaced
\* it.  Trusty's files are the data of one write.  A file of QSEE, which is not
\* truncated, is at least as long as the last whole write, and each byte in
\* that length is from this write or a later one; what follows may be older.
Keeps(f) ==
  IF Transactional
    THEN f \in marks
    ELSE /\ Len(whole) <= Len(f)
         /\ \A i \in 1 .. Len(whole) :
              \E d \in marks : i <= Len(d) /\ f[i] = d[i]

\* Whatever failed, died or was dropped since, also the commit whose result
\* trusty_write ignores: on Trusty the file is the data of the last whole write
\* or of one later write as far as it got; on QSEE no byte of the last whole
\* write has been lost to an older one.
FileKeepsWrites == Keeps(file)

\* A write answered OK, none of whose results was dropped, is in the file when
\* the answer leaves the TA: on Trusty alone, on QSEE at its beginning.
OkWriteIsStored ==
  pc = "idle" /\ last = "write" /\ status = "ok" /\ ~dropped =>
    IF Transactional THEN file = data ELSE IsPrefix(data, file)

\* A read answered OK, no short count of which was dropped, returned the whole
\* file and its length.
OkReadIsComplete ==
  pc = "idle" /\ last = "read" /\ status = "ok" /\ ~dropped =>
    got = file /\ bufLen = Len(file)

\* A read refused for lack of room hands back the size that is needed: with
\* nothing in between the next one is not refused.
RefusedOnce == refused <= 1

\* No descriptor, session or file handle outlives its operation.
HandleBalance == pc = "idle" => handles = 0

=============================================================================
