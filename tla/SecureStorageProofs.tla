------------------------ MODULE SecureStorageProofs ------------------------
(***************************************************************************)
(* What write_test and read_test guarantee for files of any length and any *)
(* failures: an OK is true unless a result was dropped, and the file never *)
(* goes back behind the last whole write.                                  *)
(***************************************************************************)
EXTENDS SecureStorage, SequenceTheorems, TLAPS

USE PlatformsAssumption, ValuesAssumption, MaxLenAssumption, FailuresAssumption
      DEF PlatformsAssumption, ValuesAssumption, MaxLenAssumption, FailuresAssumption

\* The model's files are the short sequences.
LEMMA FileDef ==
  ASSUME NEW f
  PROVE  f \in Files <=> f \in Seq(Values) /\ Len(f) <= MaxLen
  <1>1. ASSUME f \in Files PROVE f \in Seq(Values) /\ Len(f) <= MaxLen
    <2>1. PICK n \in 0 .. MaxLen : f \in [1 .. n -> Values]
      BY <1>1 DEF Files, BoundedSeq, SeqOf
    <2> QED
      BY <2>1, SeqDef
  <1>2. ASSUME f \in Seq(Values), Len(f) <= MaxLen PROVE f \in Files
    <2>1. Len(f) \in 0 .. MaxLen /\ f \in [1 .. Len(f) -> Values]
      BY <1>2, LenProperties
    <2> QED
      BY <2>1 DEF Files, BoundedSeq, SeqOf
  <1> QED
    BY <1>1, <1>2

LEMMA FileProps ==
  ASSUME NEW f \in Files
  PROVE  /\ f \in Seq(Values) /\ Len(f) \in Lengths
         /\ f \in [1 .. Len(f) -> Values]
         /\ f = <<>> <=> Len(f) = 0
  BY FileDef, LenProperties, EmptySeq DEF Lengths

LEMMA EmptyFile == <<>> \in Files /\ Len(<<>>) = 0
  <1>1. ASSUME NEW f \in Seq(Values), Len(f) = 0 PROVE f \in Files
    <2>1. Len(f) <= MaxLen
      BY <1>1
    <2> QED
      BY <2>1, FileDef
  <1> QED
    BY <1>1, EmptySeq

\* Every request is a file that could be stored.
LEMMA DatasAreFiles == Datas \subseteq Files
  <1> SUFFICES ASSUME NEW v \in Values, NEW n \in Lengths
               PROVE  Filled(v, n) \in Files
    BY DEF Datas
  <1>1. Filled(v, n) \in [1 .. n -> Values]
    BY DEF Filled
  <1> QED
    BY <1>1 DEF Lengths, Files, BoundedSeq, SeqOf

\* What a partial write or read moves is a file as well.
LEMMA SubSeqFile ==
  ASSUME NEW f \in Files, NEW n \in 0 .. Len(f)
  PROVE  /\ SubSeq(f, 1, n) \in Files
         /\ Len(SubSeq(f, 1, n)) = n
         /\ \A i \in 1 .. n : SubSeq(f, 1, n)[i] = f[i]
  <1>1. f \in Seq(Values) /\ Len(f) \in Nat /\ Len(f) <= MaxLen
    BY FileProps DEF Lengths
  <1>2. \A i \in 1 .. n : f[i] \in Values
    BY <1>1, ElementOfSeq
  <1>3. /\ SubSeq(f, 1, n) \in Seq(Values)
        /\ Len(SubSeq(f, 1, n)) = IF 1 <= n THEN n - 1 + 1 ELSE 0
        /\ \A i \in 1 .. n - 1 + 1 : SubSeq(f, 1, n)[i] = f[1 + i - 1]
    BY <1>1, <1>2, SubSeqProperties, n \in Int
  <1>4. Len(SubSeq(f, 1, n)) = n
    BY <1>1, <1>3
  <1>5. SubSeq(f, 1, n) \in Files
    <2>1. \A g \in Seq(Values) : Len(g) = n => g \in Files
      BY <1>1, FileDef
    <2> QED
      BY <1>3, <1>4, <2>1
  <1>6. \A i \in 1 .. n : SubSeq(f, 1, n)[i] = f[i]
    BY <1>1, <1>3
  <1> QED
    BY <1>4, <1>5, <1>6

\* A transfer of all bytes moves the file itself.
LEMMA WholeFile ==
  ASSUME NEW f \in Files
  PROVE  SubSeq(f, 1, Len(f)) = f /\ Len(f) \in 0 .. Len(f)
  <1>1. f \in [1 .. Len(f) -> Values] /\ Len(f) \in 0 .. Len(f)
    BY FileProps DEF Lengths
  <1>2. SubSeq(f, 1, Len(f)) \in Files /\ Len(SubSeq(f, 1, Len(f))) = Len(f)
        /\ \A i \in 1 .. Len(f) : SubSeq(f, 1, Len(f))[i] = f[i]
    BY <1>1, SubSeqFile
  <1>3. SubSeq(f, 1, Len(f)) \in [1 .. Len(f) -> Values]
    BY <1>2, FileProps
  <1> QED
    BY <1>1, <1>2, <1>3

LEMMA PrefixDef ==
  ASSUME NEW d \in Files, NEW f \in Files
  PROVE  IsPrefix(d, f) <=>
           Len(d) <= Len(f) /\ \A i \in 1 .. Len(d) : d[i] = f[i]
  <1>1. Len(d) \in 0 .. Len(d) /\ Len(f) \in Nat /\ Len(d) \in Nat
    BY FileProps DEF Lengths
  <1>2. SubSeq(d, 1, Len(d)) \in Files /\ Len(SubSeq(d, 1, Len(d))) = Len(d)
        /\ \A i \in 1 .. Len(d) : SubSeq(d, 1, Len(d))[i] = d[i]
    BY <1>1, SubSeqFile
  <1>3. ASSUME Len(d) <= Len(f)
        PROVE  SubSeq(f, 1, Len(d)) \in Files /\ Len(SubSeq(f, 1, Len(d))) = Len(d)
               /\ \A i \in 1 .. Len(d) : SubSeq(f, 1, Len(d))[i] = f[i]
    BY <1>1, <1>3, SubSeqFile
  <1>4. ASSUME IsPrefix(d, f)
        PROVE  Len(d) <= Len(f) /\ \A i \in 1 .. Len(d) : d[i] = f[i]
    BY <1>2, <1>3, <1>4 DEF IsPrefix
  <1>5. ASSUME Len(d) <= Len(f), \A i \in 1 .. Len(d) : d[i] = f[i]
        PROVE  IsPrefix(d, f)
    <2>1. SubSeq(d, 1, Len(d)) \in [1 .. Len(d) -> Values]
      BY <1>2, FileProps
    <2>2. SubSeq(f, 1, Len(d)) \in [1 .. Len(d) -> Values]
      BY <1>3, <1>5, FileProps
    <2>3. \A i \in 1 .. Len(d) : SubSeq(d, 1, Len(d))[i] = SubSeq(f, 1, Len(d))[i]
      BY <1>2, <1>3, <1>5
    <2>4. SubSeq(d, 1, Len(d)) = SubSeq(f, 1, Len(d))
      BY <2>1, <2>2, <2>3
    <2> QED
      BY <1>5, <2>4 DEF IsPrefix
  <1> QED
    BY <1>4, <1>5

\* Overwriting gives a file that starts with the data, and is the data when
\* the file was empty.
LEMMA OverFile ==
  ASSUME NEW f \in Files, NEW d \in Files
  PROVE  /\ Over(f, d) \in Files
         /\ IsPrefix(d, Over(f, d))
         /\ Len(Over(f, d)) >= Len(f)
         /\ \A i \in 1 .. Len(f) :
              Over(f, d)[i] = IF i <= Len(d) THEN d[i] ELSE f[i]
         /\ f = <<>> => Over(f, d) = d
  <1> DEFINE n == IF Len(d) > Len(f) THEN Len(d) ELSE Len(f)
             o == Over(f, d)
  <1>1. /\ Len(f) \in Lengths /\ f \in [1 .. Len(f) -> Values]
        /\ Len(d) \in Lengths /\ d \in [1 .. Len(d) -> Values]
    BY FileProps
  <1>2. n \in 0 .. MaxLen /\ Len(d) <= n
    BY <1>1 DEF Lengths
  <1>3. o = [i \in 1 .. n |-> IF i <= Len(d) THEN d[i] ELSE f[i]]
    BY DEF Over
  <1> HIDE DEF o
  <1>4. o \in [1 .. n -> Values]
    BY <1>1, <1>3 DEF Lengths
  <1> HIDE DEF n
  <1>5. o \in Files
    BY <1>2, <1>4 DEF Files, BoundedSeq, SeqOf
  <1>6. Len(o) = n
    BY <1>2, <1>3
  <1>7. IsPrefix(d, o)
    BY <1>1, <1>2, <1>3, <1>5, <1>6, PrefixDef DEF Lengths
  <1>9. Len(f) <= n
    BY <1>1 DEF n, Lengths
  <1>10. \A i \in 1 .. Len(f) : o[i] = IF i <= Len(d) THEN d[i] ELSE f[i]
    BY <1>1, <1>2, <1>3, <1>9 DEF Lengths
  <1>8. ASSUME f = <<>> PROVE o = d
    <2>1. n = Len(d)
      BY <1>1, <1>8 DEF n, Lengths
    <2> QED
      BY <2>1, <1>1, <1>3, <1>4
  <1> QED
    BY <1>5, <1>6, <1>7, <1>8, <1>9, <1>10 DEF o

---------------------------------------------------------------------------
(* Types.                                                                  *)

LEMMA InitType == Init => TypeOK
  <1> SUFFICES ASSUME Init PROVE TypeOK
    OBVIOUS
  <1>1. /\ file \in Files /\ view \in Files /\ got \in Files
        /\ marks \subseteq Files /\ whole \in Files
    BY EmptyFile DEF Init
  <1>3. dropped \in BOOLEAN
    BY DEF Init
  <1>2. data \in Datas
    <2>1. PICK v \in Values : TRUE
      OBVIOUS
    <2>2. Filled(v, 0) = <<>>
      BY DEF Filled
    <2> QED
      BY <2>1, <2>2 DEF Init, Datas, Lengths
  <1> QED
    BY <1>1, <1>2, <1>3 DEF Init, TypeOK, FreshBufLen, Lengths

\* What a transfer moves, sees and stores stays a file.
LEMMA MoveType ==
  ASSUME TypeOK, NEW n \in 0 .. Len(data), Move(n)
  PROVE  view' \in Files /\ file' \in Files /\ marks' \subseteq Files
  <1>1. SubSeq(data, 1, n) \in Files
    BY SubSeqFile, DatasAreFiles DEF TypeOK
  <1>2. Over(view, SubSeq(data, 1, n)) \in Files
    BY <1>1, OverFile DEF TypeOK
  <1> QED
    BY <1>1, <1>2 DEF Move, TypeOK

\* Whatever became of a write, it moved some part of the data.
LEMMA WriteMoves ==
  ASSUME TypeOK, Write \/ WriteShort \/ WriteFails
  PROVE  /\ \E n \in 0 .. Len(data) : Move(n)
         /\ pc = "write" /\ pc' = "close_write"
         /\ status' \in {"ok", "err"} /\ dropped' \in BOOLEAN
         /\ ~dropped' /\ status' = "ok" => Write /\ status = "ok" /\ ~dropped
  <1>1. Len(data) \in 0 .. Len(data)
    BY WholeFile, DatasAreFiles DEF TypeOK
  <1>2. CASE Write
    BY <1>1, <1>2 DEF Write, Move, TypeOK
  <1>3. CASE WriteShort
    BY <1>3 DEF WriteShort, Move, TypeOK
  <1>4. CASE WriteFails
    BY <1>4 DEF WriteFails, Move, TypeOK
  <1> QED
    BY <1>2, <1>3, <1>4

\* Whatever became of a read, it returned some part of what it saw.
LEMMA ReadTakes ==
  ASSUME TypeOK, Read \/ ReadShort \/ ReadFails
  PROVE  /\ \E n \in 0 .. Len(view) : Take(n)
         /\ pc = "read" /\ pc' = "close_read"
         /\ status' \in {"ok", "err"} /\ dropped' \in BOOLEAN
         /\ ~dropped' /\ status' = "ok" => got' = view
  <1>1. Len(view) \in 0 .. Len(view) /\ SubSeq(view, 1, Len(view)) = view
    BY WholeFile DEF TypeOK
  <1>2. CASE Read
    BY <1>1, <1>2 DEF Read, Take, TypeOK
  <1>3. CASE ReadShort
    BY <1>3 DEF ReadShort, Take, TypeOK
  <1>4. CASE ReadFails
    BY <1>4 DEF ReadFails, Take, TypeOK
  <1> QED
    BY <1>2, <1>3, <1>4

LEMMA TypeStep == TypeOK /\ [Next]_vars => TypeOK'
  <1> SUFFICES ASSUME TypeOK, [Next]_vars PROVE TypeOK'
    OBVIOUS
  <1>1. ASSUME NEW d \in Datas, WriteRefused(d) PROVE TypeOK'
    BY <1>1 DEF WriteRefused, Answer, TypeOK
  <1>2. ASSUME NEW d \in Datas, WriteOpen(d) PROVE TypeOK'
    <2>1. d \in Files /\ view' \in Files
      BY <1>2, DatasAreFiles, EmptyFile DEF WriteOpen, TypeOK
    <2>2. dropped' \in BOOLEAN
      BY <1>2 DEF WriteOpen
    <2> QED
      BY <1>2, <2>1, <2>2 DEF WriteOpen, Open, TypeOK
  <1>3. CASE Write \/ WriteShort \/ WriteFails
    <2>1. PICK n \in 0 .. Len(data) : Move(n)
      BY <1>3, WriteMoves
    <2> QED
      BY <1>3, <2>1, WriteMoves, MoveType DEF Move, TypeOK
  <1>5. CASE WriteClose
    <2>1. dropped' \in BOOLEAN
      <3>1. CASE dropped' = dropped
        BY <3>1 DEF TypeOK
      <3>2. CASE dropped' = TRUE
        BY <3>2
      <3> QED
        BY <1>5, <3>1, <3>2 DEF WriteClose
    <2>2. marks' \subseteq Files /\ whole' \in Files
      BY <1>5, DatasAreFiles DEF WriteClose, TypeOK
    <2> QED
      BY <1>5, <2>1, <2>2 DEF WriteClose, Answer, TypeOK
  <1>6. CASE ReadRefused
    <2>1. dropped' \in BOOLEAN
      BY <1>6 DEF ReadRefused
    <2>2. bufLen' \in Lengths
      BY <1>6 DEF ReadRefused, TypeOK, Lengths
    <2> QED
      BY <1>6, <2>1, <2>2 DEF ReadRefused, Answer, TypeOK
  <1>7. CASE ReadOpen
    <2>1. dropped' \in BOOLEAN
      BY <1>7 DEF ReadOpen
    <2>2. size' \in Lengths
      BY <1>7 DEF ReadOpen, Lengths
    <2> QED
      BY <1>7, <2>1, <2>2 DEF ReadOpen, Open, TypeOK
  <1>8. CASE ReadSizeFails
    BY <1>8 DEF ReadSizeFails, TypeOK
  <1>9. CASE ReadSize
    <2>1. size' \in Lengths
      BY <1>9, FileProps DEF ReadSize, TypeOK
    <2> QED
      BY <1>9, <2>1 DEF ReadSize, TypeOK
  <1>10. CASE Read \/ ReadShort \/ ReadFails
    <2>1. PICK n \in 0 .. Len(view) : Take(n)
      BY <1>10, ReadTakes
    <2>2. got' \in Files
      BY <2>1, SubSeqFile DEF Take, TypeOK
    <2> QED
      BY <1>10, <2>1, <2>2, ReadTakes DEF Take, TypeOK
  <1>12. CASE ReadClose
    BY <1>12 DEF ReadClose, Answer, TypeOK
  <1>13. CASE Die
    <2>1. dropped' \in BOOLEAN
      BY <1>13 DEF Die
    <2>2. bufLen' \in Lengths
      BY <1>13 DEF Die, FreshBufLen, TypeOK
    <2> QED
      BY <1>13, <2>1, <2>2 DEF Die, TypeOK
  <1>14. CASE UNCHANGED vars
    BY <1>14 DEF vars, reqVars, TypeOK
  <1> QED
    BY <1>1, <1>2, <1>3, <1>5, <1>6, <1>7, <1>8, <1>9, <1>10,
       <1>12, <1>13, <1>14 DEF Next

\* TypeOK for files of any length and any number of fill patterns.
THEOREM TypeCorrect == Spec => []TypeOK
  BY InitType, TypeStep, PTL DEF Spec

---------------------------------------------------------------------------
(* Reading: what is open sees the file, and the lengths agree.             *)

\* Outside a Trusty transaction the session sees the file itself.
ViewInv ==
  pc \in {"size", "read", "close_read"} \/ ~Transactional => view = file

\* What is read is what the session sees, with its length.
ReadInv ==
  /\ pc = "read" => size = Len(view)
  /\ pc = "close_read" /\ status = "ok" /\ ~dropped =>
       got = view /\ size = Len(view)
  /\ OkReadIsComplete

\* A refusal for lack of room leaves bufLen at the length that is needed.
RoomInv ==
  /\ refused <= 1
  /\ refused = 1 =>
       /\ pc \in {"idle", "size", "read"} => bufLen = Len(file)
       /\ pc = "close_read" => size = Len(file)
       /\ pc \notin {"write", "close_write"}

ReadingInv == TypeOK /\ ViewInv /\ ReadInv /\ RoomInv

LEMMA InitReading == Init => ReadingInv
  BY InitType, EmptyFile
     DEF Init, ReadingInv, ViewInv, ReadInv, OkReadIsComplete, RoomInv

\* A write leaves the session's view where ViewInv puts it.
LEMMA WriteReading ==
  ASSUME ReadingInv, Write \/ WriteShort \/ WriteFails \/ WriteClose
  PROVE  (ViewInv /\ ReadInv /\ RoomInv)'
  <1>1. CASE Write \/ WriteShort \/ WriteFails
    <2>1. PICK n \in 0 .. Len(data) : Move(n)
      BY <1>1, WriteMoves DEF ReadingInv
    <2>2. pc = "write"
      BY <1>1, WriteMoves DEF ReadingInv
    <2> QED
      BY <2>1, <2>2 DEF ReadingInv, Move, TypeOK, ViewInv, ReadInv,
                        OkReadIsComplete, RoomInv, Transactional
  <1>2. CASE WriteClose
    BY <1>2 DEF ReadingInv, WriteClose, Answer, TypeOK,
                ViewInv, ReadInv, OkReadIsComplete, RoomInv, Transactional
  <1> QED
    BY <1>1, <1>2

LEMMA ReadingStep == ReadingInv /\ [Next]_vars => ReadingInv'
  <1> SUFFICES ASSUME ReadingInv, [Next]_vars, TypeOK'
               PROVE  (ViewInv /\ ReadInv /\ RoomInv)'
    BY TypeStep DEF ReadingInv
  <1> USE DEF ReadingInv, ViewInv, ReadInv, OkReadIsComplete, RoomInv, Transactional
  <1>1. ASSUME NEW d \in Datas, WriteRefused(d) \/ WriteOpen(d)
        PROVE  (ViewInv /\ ReadInv /\ RoomInv)'
    BY <1>1 DEF WriteRefused, WriteOpen, Answer, TypeOK
  <1>2. CASE Write \/ WriteShort \/ WriteFails \/ WriteClose
    BY <1>2, WriteReading
  <1>3. CASE ReadRefused
    BY <1>3 DEF ReadRefused, Answer, TypeOK
  <1>4. CASE ReadOpen
    BY <1>4 DEF ReadOpen, reqVars, TypeOK
  <1>5. CASE ReadSizeFails
    BY <1>5 DEF ReadSizeFails, TypeOK
  <1>6. CASE ReadSize
    <2>1. Len(view) \in Lengths /\ (view = <<>> <=> Len(view) = 0)
      BY FileProps DEF TypeOK
    <2>2. view = file
      BY <1>6 DEF ReadSize
    <2>3. refused = 1 => bufLen = Len(view)
      BY <1>6, <2>2 DEF ReadSize
    <2>4. CASE Room(Len(view))
      BY <1>6, <2>1, <2>2, <2>3, <2>4 DEF ReadSize, TypeOK
    <2>5. CASE view = <<>>
      BY <1>6, <2>1, <2>2, <2>3, <2>5 DEF ReadSize, Room, TypeOK
    <2>6. CASE ~Room(Len(view)) /\ view # <<>>
      <3>1. refused # 1 /\ refused = 0
        BY <2>1, <2>3, <2>6 DEF Room, Lengths, TypeOK
      <3> QED
        BY <1>6, <2>1, <2>2, <2>6, <3>1 DEF ReadSize, TypeOK
    <2> QED
      BY <2>4, <2>5, <2>6
  <1>7. CASE Read \/ ReadShort \/ ReadFails
    <2>1. PICK n \in 0 .. Len(view) : Take(n)
      BY <1>7, ReadTakes
    <2> QED
      BY <1>7, <2>1, ReadTakes DEF Take, TypeOK
  <1>9. CASE ReadClose
    BY <1>9 DEF ReadClose, Answer, TypeOK
  <1>10. CASE Die
    BY <1>10 DEF Die, TypeOK
  <1>11. CASE UNCHANGED vars
    BY <1>11 DEF vars, reqVars, TypeOK
  <1> QED
    BY <1>1, <1>2, <1>3, <1>4, <1>5, <1>6, <1>7, <1>9, <1>10, <1>11
       DEF Next

THEOREM Reading == Spec => []ReadingInv
  BY InitReading, ReadingStep, PTL DEF Spec

\* RefusedOnce: the size a refused read hands back is enough for the next.
THEOREM SecondReadHasRoom == Spec => []RefusedOnce
  <1>1. ReadingInv => RefusedOnce
    BY DEF ReadingInv, RoomInv, RefusedOnce
  <1> QED
    BY <1>1, Reading, PTL

\* OkReadIsComplete: a read answered OK, unless it took a short count for
\* success, has the whole file and its length.
THEOREM ReadsAreComplete == Spec => []OkReadIsComplete
  <1>1. ReadingInv => OkReadIsComplete
    BY DEF ReadingInv, ReadInv
  <1> QED
    BY <1>1, Reading, PTL

---------------------------------------------------------------------------
(* Writing: what the file holds, whatever fails or is dropped.             *)

\* HandleBalance: between operations nothing is open.
THEOREM NothingStaysOpen == Spec => []HandleBalance
  <1>1. Init => HandleBalance
    BY DEF Init, HandleBalance
  <1>2. HandleBalance /\ [Next]_vars => HandleBalance'
    BY DEF HandleBalance, Next, vars, reqVars, Answer, WriteRefused, WriteOpen,
           Write, WriteShort, WriteFails, Move, WriteClose, ReadRefused, ReadOpen,
           ReadSizeFails, ReadSize, Read, ReadShort, ReadFails, Take, ReadClose,
           Die
  <1> QED
    BY <1>1, <1>2, PTL DEF Spec

\* A write under way is marked, and so is what its session would leave.
WriteInv ==
  /\ pc \in {"write", "close_write"} => data \in marks
  /\ pc = "write" /\ Transactional => view = <<>>
  /\ pc = "close_write" =>
       /\ Transactional => view \in marks
       /\ status = "ok" /\ ~dropped =>
            IF Transactional THEN view = data ELSE IsPrefix(data, view)
  /\ FileKeepsWrites
  /\ OkWriteIsStored

WritingInv == TypeOK /\ ViewInv /\ WriteInv

LEMMA InitWriting == Init => WritingInv
  <1> SUFFICES ASSUME Init PROVE WritingInv
    OBVIOUS
  <1>1. TypeOK /\ ViewInv
    BY InitType DEF Init, ViewInv
  <1>2. Keeps(file)
    BY EmptyFile DEF Init, Keeps
  <1> QED
    BY <1>1, <1>2 DEF Init, WritingInv, WriteInv, FileKeepsWrites, OkWriteIsStored

\* A step that leaves the file and keeps the marks leaves what is stored.
LEMMA StoredStays ==
  ASSUME FileKeepsWrites, UNCHANGED <<platform, file, whole>>,
         marks \subseteq marks'
  PROVE  FileKeepsWrites'
  BY DEF FileKeepsWrites, Keeps, Transactional

\* A transfer puts the part it moved in front, and nothing older.
LEMMA MoveKeeps ==
  ASSUME WritingInv, pc = "write", NEW n \in 0 .. Len(data), Move(n)
  PROVE  /\ FileKeepsWrites'
         /\ Transactional => view' \in marks'
         /\ n = Len(data) =>
              IF Transactional THEN view' = data ELSE IsPrefix(data, view')
  <1> DEFINE part == SubSeq(data, 1, n)
             new == Over(view, part)
  <1>1. /\ data \in Files /\ view \in Files /\ file \in Files /\ whole \in Files
        /\ FileKeepsWrites
        /\ Transactional => view = <<>>
        /\ ~Transactional => view = file
    BY DatasAreFiles DEF WritingInv, TypeOK, WriteInv, ViewInv
  <1>2. part \in Files
    BY <1>1, SubSeqFile
  <1>3. n = Len(data) => part = data
    BY <1>1, WholeFile
  <1>4. /\ view' = new /\ marks' = marks \union {part}
        /\ file' = IF Transactional THEN file ELSE new
        /\ UNCHANGED <<platform, whole>>
    BY DEF Move
  <1> HIDE DEF part
  <1>5. /\ new \in Files /\ IsPrefix(part, new) /\ Len(new) >= Len(view)
        /\ \A i \in 1 .. Len(view) :
             new[i] = IF i <= Len(part) THEN part[i] ELSE view[i]
        /\ view = <<>> => new = part
    BY <1>1, <1>2, OverFile
  <1> HIDE DEF new
  <1>6. FileKeepsWrites'
    <2>1. CASE Transactional
      BY <2>1, <1>1, <1>4, StoredStays
    <2>2. CASE ~Transactional
      <3>1. /\ Len(whole) \in Nat /\ Len(file) \in Nat /\ Len(new) \in Nat
            /\ Len(part) \in Nat
        BY <1>1, <1>2, <1>5, FileProps DEF Lengths
      <3>2. /\ Len(whole) <= Len(file)
            /\ \A i \in 1 .. Len(whole) :
                 \E d \in marks : i <= Len(d) /\ file[i] = d[i]
        BY <2>2, <1>1 DEF FileKeepsWrites, Keeps
      <3>3. Len(whole) <= Len(new)
        BY <3>1, <3>2, <2>2, <1>1, <1>5
      <3>4. ASSUME NEW i \in 1 .. Len(whole)
            PROVE  \E d \in marks' : i <= Len(d) /\ new[i] = d[i]
        <4>1. i \in 1 .. Len(view)
          BY <3>1, <3>2, <2>2, <1>1
        <4>2. CASE i <= Len(part)
          <5>1. new[i] = part[i]
            BY <4>1, <4>2, <1>5
          <5> QED
            BY <4>2, <5>1, <1>4
        <4>3. CASE ~(i <= Len(part))
          <5>1. new[i] = file[i]
            BY <4>1, <4>3, <2>2, <1>1, <1>5
          <5> QED
            BY <5>1, <3>2, <1>4
        <4> QED
          BY <4>2, <4>3
      <3> QED
        BY <3>3, <3>4, <2>2, <1>4 DEF FileKeepsWrites, Keeps, Transactional
    <2> QED
      BY <2>1, <2>2
  <1>7. Transactional => view' \in marks'
    BY <1>1, <1>4, <1>5
  <1>8. n = Len(data) =>
          IF Transactional THEN view' = data ELSE IsPrefix(data, view')
    BY <1>1, <1>3, <1>4, <1>5
  <1> QED
    BY <1>6, <1>7, <1>8

LEMMA WriteStep ==
  ASSUME WritingInv, Write \/ WriteShort \/ WriteFails
  PROVE  WriteInv'
  <1>1. TypeOK /\ pc = "write" /\ pc' = "close_write" /\ data \in marks
    BY WriteMoves DEF WritingInv, WriteInv
  <1>2. PICK n \in 0 .. Len(data) :
          Move(n) /\ (~dropped' /\ status' = "ok" => n = Len(data))
    <2>1. Len(data) \in 0 .. Len(data)
      BY <1>1, WholeFile, DatasAreFiles DEF TypeOK
    <2>2. CASE Write
      BY <2>1, <2>2 DEF Write
    <2>3. CASE ~Write
      BY <1>1, <2>3, WriteMoves
    <2> QED
      BY <2>2, <2>3
  <1>3. FileKeepsWrites' /\ (Transactional => view' \in marks')
        /\ (n = Len(data) =>
              IF Transactional THEN view' = data ELSE IsPrefix(data, view'))
    BY <1>1, <1>2, MoveKeeps
  <1>4. data' = data /\ platform' = platform /\ data \in marks'
    BY <1>1, <1>2 DEF Move
  <1> QED
    BY <1>1, <1>2, <1>3, <1>4 DEF WriteInv, OkWriteIsStored, Transactional

\* A whole write becomes the one that later ones are measured by; any other
\* leaves the marks, and a failed commit leaves the file as well.
LEMMA WriteCloseStep ==
  ASSUME WritingInv, WriteClose
  PROVE  WriteInv'
  <1>1. /\ pc' = "idle" /\ last' = "write"
        /\ UNCHANGED <<platform, view, status, data>>
        /\ pc = "close_write" /\ data \in Files /\ view \in Files
    BY DatasAreFiles DEF WriteClose, Answer, WritingInv, TypeOK
  <1>2. CASE status = "ok" /\ ~dropped'
    <2>1. file' = view /\ ~dropped /\ marks' = {data} /\ whole' = data
      BY <1>2 DEF WriteClose
    <2>2. IF Transactional THEN file' = data ELSE IsPrefix(data, file')
      BY <1>1, <1>2, <2>1 DEF WritingInv, WriteInv
    <2>3. FileKeepsWrites'
      <3>1. CASE Transactional
        BY <3>1, <1>1, <2>1, <2>2 DEF FileKeepsWrites, Keeps, Transactional
      <3>2. CASE ~Transactional
        <4>1. Len(data) <= Len(view) /\ \A i \in 1 .. Len(data) : data[i] = view[i]
          BY <3>2, <1>1, <2>1, <2>2, PrefixDef
        <4>2. \A i \in 1 .. Len(data) : i <= Len(data)
          BY <1>1, FileProps DEF Lengths
        <4> QED
          BY <3>2, <4>1, <4>2, <1>1, <2>1 DEF FileKeepsWrites, Keeps, Transactional
      <3> QED
        BY <3>1, <3>2
    <2> QED
      BY <1>1, <2>2, <2>3 DEF WriteInv, OkWriteIsStored, Transactional
  <1>3. CASE ~(status = "ok" /\ ~dropped')
    <2>1. UNCHANGED <<marks, whole>> /\ file' \in {file, view}
          /\ (~Transactional => file' = view)
      BY <1>3 DEF WriteClose
    <2>2. FileKeepsWrites'
      BY <1>1, <2>1 DEF WritingInv, WriteInv, ViewInv, FileKeepsWrites, Keeps,
                        Transactional
    <2> QED
      BY <1>1, <1>3, <2>2 DEF WriteInv, OkWriteIsStored
  <1> QED
    BY <1>2, <1>3

LEMMA WritingStep == WritingInv /\ [Next]_vars => WritingInv'
  <1> SUFFICES ASSUME WritingInv, [Next]_vars
               PROVE  (ViewInv /\ WriteInv)'
    BY TypeStep DEF WritingInv
  <1>1. ASSUME NEW d \in Datas, WriteRefused(d) \/ WriteOpen(d)
        PROVE  (ViewInv /\ WriteInv)'
    <2>1. FileKeepsWrites'
      BY <1>1, StoredStays DEF WriteRefused, WriteOpen, WritingInv, WriteInv
    <2> QED
      BY <1>1, <2>1 DEF WriteRefused, WriteOpen, Answer, WritingInv, WriteInv,
                        ViewInv, OkWriteIsStored, Transactional
  <1>2. CASE Write \/ WriteShort \/ WriteFails
    <2>1. PICK n \in 0 .. Len(data) : Move(n)
      BY <1>2, WriteMoves DEF WritingInv
    <2>2. ViewInv'
      BY <2>1 DEF Move, ViewInv, Transactional
    <2> QED
      BY <1>2, <2>2, WriteStep
  <1>3. CASE WriteClose
    <2>1. ViewInv'
      BY <1>3 DEF WriteClose, Answer, ViewInv, Transactional
    <2> QED
      BY <1>3, <2>1, WriteCloseStep
  <1>4. CASE ReadRefused \/ ReadOpen \/ ReadSizeFails \/ ReadSize \/ Read
             \/ ReadShort \/ ReadFails \/ ReadClose \/ Die \/ UNCHANGED vars
    <2>1. UNCHANGED <<platform, file, whole, marks, data>>
      BY <1>4 DEF ReadRefused, ReadOpen, ReadSizeFails, ReadSize, Read, ReadShort,
                  ReadFails, Take, ReadClose, Die, vars, reqVars
    <2>2. \/ UNCHANGED <<pc, view, status, last, dropped>>
          \/ pc' \in {"size", "read", "close_read"}
          \/ pc' = "idle" /\ last' \in {"read", "none"}
      <3>1. CASE ReadRefused \/ ReadClose \/ Die
        BY <3>1 DEF ReadRefused, ReadClose, Die, Answer
      <3>2. CASE ReadOpen \/ ReadSizeFails \/ ReadSize
        BY <3>2 DEF ReadOpen, ReadSizeFails, ReadSize
      <3>3. CASE Read \/ ReadShort \/ ReadFails
        BY <3>3, ReadTakes DEF WritingInv
      <3>4. CASE UNCHANGED vars
        BY <3>4 DEF vars, reqVars
      <3> QED
        BY <1>4, <3>1, <3>2, <3>3, <3>4
    <2>3. ViewInv'
      <3>1. CASE Read \/ ReadShort \/ ReadFails
        BY <3>1 DEF Read, ReadShort, ReadFails, Take, WritingInv, ViewInv,
                    Transactional
      <3>2. CASE ~(Read \/ ReadShort \/ ReadFails)
        BY <1>4, <3>2 DEF ReadRefused, ReadOpen, ReadSizeFails, ReadSize,
                  ReadClose, Die, Answer, vars, WritingInv, ViewInv, Transactional
      <3> QED
        BY <3>1, <3>2
    <2>4. FileKeepsWrites'
      BY <2>1, StoredStays DEF WritingInv, WriteInv
    <2> QED
      BY <2>1, <2>2, <2>3, <2>4
         DEF WritingInv, WriteInv, OkWriteIsStored, Transactional
  <1> QED
    BY <1>1, <1>2, <1>3, <1>4 DEF Next

THEOREM Writing == Spec => []WritingInv
  BY InitWriting, WritingStep, PTL DEF Spec

\* FileKeepsWrites: whatever fails, dies or is dropped, on Trusty the file is
\* one write's data; on QSEE, where an old tail may follow, no byte of the last
\* whole write is lost to an older one.
THEOREM KeepsWholeWrites == Spec => []FileKeepsWrites
  <1>1. WritingInv => FileKeepsWrites
    BY DEF WritingInv, WriteInv
  <1> QED
    BY <1>1, Writing, PTL

\* OkWriteIsStored: an OK answer of a write that dropped no result means the
\* data is in the file.
THEOREM OkWritesAreStored == Spec => []OkWriteIsStored
  <1>1. WritingInv => OkWriteIsStored
    BY DEF WritingInv, WriteInv
  <1> QED
    BY <1>1, Writing, PTL

---------------------------------------------------------------------------
(* Both together: what a client reads is what a client wrote.              *)

\* After a whole write nothing but its data is marked.  What a read answered OK
\* returns, no short count of which was dropped, has lost nothing of the last
\* whole write: on Trusty it is that write's data or a later one's; on QSEE it
\* is as long, and byte by byte that write's or a later one's.
ReadYourWrite ==
  /\ pc = "idle" /\ last = "write" /\ status = "ok" /\ ~dropped =>
       marks = {data} /\ whole = data
  /\ pc = "idle" /\ last = "read" /\ status = "ok" /\ ~dropped => Keeps(got)

OnlyMark ==
  pc = "idle" /\ last = "write" /\ status = "ok" /\ ~dropped =>
    marks = {data} /\ whole = data

LEMMA OnlyItsMark == OnlyMark /\ [Next]_vars => OnlyMark'
  BY DEF OnlyMark, Next, vars, reqVars, Answer, WriteRefused, WriteOpen, Write,
         WriteShort, WriteFails, Move, WriteClose, ReadRefused, ReadOpen,
         ReadSizeFails, ReadSize, Read, ReadShort, ReadFails, Take, ReadClose, Die

\* ReadYourWrite, whatever fails and whenever the TA dies: a read never returns,
\* in place of the last whole write, data that is older or that nobody wrote.
THEOREM ReadsGiveWrites == Spec => []ReadYourWrite
  <1>1. Init => OnlyMark
    BY DEF Init, OnlyMark
  <1>2. OnlyMark /\ WritingInv /\ ReadingInv => ReadYourWrite
    BY DEF OnlyMark, WritingInv, WriteInv, ReadingInv, ReadInv, FileKeepsWrites,
           OkReadIsComplete, ReadYourWrite
  <1> QED
    BY <1>1, <1>2, OnlyItsMark, Writing, Reading, PTL DEF Spec

=============================================================================
