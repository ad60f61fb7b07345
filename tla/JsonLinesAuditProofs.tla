------------------------ MODULE JsonLinesAuditProofs ------------------------
(***************************************************************************)
(* JsonLinesAudit keeps its invariant and implements the AuditStore        *)
(* contract for any writers, long entries, cancellations, failures and     *)
(* crashes.                                                                *)
(***************************************************************************)
EXTENDS JsonLinesAudit, SequenceLemmas

-----------------------------------------------------------------------------
(* The inductive invariant.                                                *)

(* Where a task is tells how far its thread can be, and who holds the lock.*)
TasksInOrder ==
  \A w \in Writers :
    /\ pc[w] \in {"idle", "waiting"} => thread[w] = "none"
    /\ pc[w] # "idle" => Arrived(w, w)
    /\ pc[w] = "appending" <=> holder = w
    /\ pc[w] = "appending" => thread[w] \in {"queued", "open", "written", "done", "failed"}
    /\ pc[w] = "returned" => thread[w] = "done"
    /\ pc[w] = "raised" => thread[w] = "failed"
    /\ pc[w] = "lost" => thread[w] \notin {"queued", "open", "written"}
    /\ pc[w] = "cancelled" => thread[w] # "queued"

(* The queue is the tasks that wait, each once, as they arrived.           *)
QueueInOrder ==
  /\ \A i \in DOMAIN waiters : pc[waiters[i]] = "waiting"
  /\ \A i, j \in DOMAIN waiters :
       i < j => waiters[i] # waiters[j] /\ Arrived(waiters[i], waiters[j])
  /\ \A w \in Writers : pc[w] = "waiting" => \E i \in DOMAIN waiters : waiters[i] = w

(* Who had the lock arrived before those who hold it or wait for it.       *)
LockInOrder ==
  \A w, v \in Writers :
    thread[w] # "none" /\ pc[v] \in {"waiting", "appending"} => Arrived(w, v)

(* A thread that has written, or has come to its end.                      *)
Begun == {"written", "done", "failed", "dead"}

(* A piece tells how far the thread that wrote it has come.                *)
PiecesTell ==
  \A i \in DOMAIN file :
    LET w == file[i].by IN
    /\ thread[w] \in Begun
    /\ file[i].kind = "body" => w \in Long
    /\ file[i].kind = "part" => thread[w] = "failed"
    /\ file[i].kind \in {"line", "newline"} => thread[w] = "done"
    /\ i = Len(file) /\ thread[w] = "done" => file[i].kind \in {"line", "newline"}

(* And a thread tells which of its pieces are in the file.                 *)
ThreadsTell ==
  \A w \in Writers :
    /\ w \in Long /\ thread[w] \in {"written", "done"} => InFile(w, "body")
    /\ thread[w] = "done" => InFile(w, IF w \in Long THEN "newline" ELSE "line")

(* After the body of a task that holds the lock, only a thread whose task  *)
(* was cancelled has written.                                              *)
BodyIsLast ==
  \A w \in Writers :
    w \in Long /\ thread[w] = "written" /\ pc[w] = "appending" =>
      /\ file # <<>>
      /\ file[Len(file)].by = w \/ pc[file[Len(file)].by] = "cancelled"

Inv ==
  /\ TypeOK
  /\ TasksInOrder
  /\ QueueInOrder
  /\ LockInOrder
  /\ PiecesTell
  /\ ThreadsTell
  /\ BodyIsLast
  /\ FileInCallOrder
  /\ OnlyTroubleTearsLines

-----------------------------------------------------------------------------
(* Sequences that grow at their end.                                       *)

LEMMA NoneIsNoWriter == None \notin Writers
BY JsonLinesAssumption

LEMMA ArrivedStays ==
  ASSUME TypeOK, NEW w, NEW v, Arrived(w, v),
         arrivals' = arrivals \/ \E u \in Writers : arrivals' = Append(arrivals, u)
  PROVE  Arrived(w, v)'
<1>1. PICK m, n \in DOMAIN arrivals : m <= n /\ arrivals[m] = w /\ arrivals[n] = v
  BY DEF Arrived
<1>2. CASE arrivals' = arrivals
  BY <1>1, <1>2 DEF Arrived
<1>3. CASE \E u \in Writers : arrivals' = Append(arrivals, u)
  <2>1. PICK u \in Writers : arrivals' = Append(arrivals, u)
    BY <1>3
  <2>2. /\ Len(arrivals) \in Nat
        /\ DOMAIN arrivals = 1 .. Len(arrivals)
        /\ DOMAIN arrivals' = 1 .. Len(arrivals) + 1
        /\ \A i \in 1 .. Len(arrivals) : arrivals'[i] = arrivals[i]
    BY <2>1, AppendProperties, LenProperties DEF TypeOK
  <2>3. m \in DOMAIN arrivals' /\ n \in DOMAIN arrivals'
    BY <1>1, <2>2
  <2> QED BY <1>1, <2>2, <2>3 DEF Arrived
<1> QED BY <1>2, <1>3

LEMMA ArrivesLast ==
  ASSUME TypeOK, NEW u \in Writers, arrivals' = Append(arrivals, u)
  PROVE  /\ Arrived(u, u)'
         /\ \A w : Arrived(w, w) => Arrived(w, u)'
<1>1. /\ Len(arrivals) \in Nat
      /\ DOMAIN arrivals = 1 .. Len(arrivals)
      /\ DOMAIN arrivals' = 1 .. Len(arrivals) + 1
      /\ \A i \in 1 .. Len(arrivals) : arrivals'[i] = arrivals[i]
      /\ arrivals'[Len(arrivals) + 1] = u
  BY AppendProperties, LenProperties DEF TypeOK
<1>2. Len(arrivals) + 1 \in DOMAIN arrivals'
  BY <1>1
<1>3. Arrived(u, u)'
  BY <1>1, <1>2 DEF Arrived
<1>4. ASSUME NEW w, Arrived(w, w)
      PROVE  Arrived(w, u)'
  <2>1. PICK m \in DOMAIN arrivals : arrivals[m] = w
    BY <1>4 DEF Arrived
  <2>2. m \in DOMAIN arrivals' /\ m <= Len(arrivals) + 1
    BY <1>1, <2>1
  <2> QED BY <1>1, <1>2, <2>1, <2>2 DEF Arrived
<1> QED BY <1>3, <1>4

Pieces == [by : Writers, kind : {"body", "newline", "line", "part"}]

LEMMA PieceType ==
  ASSUME NEW w \in Writers, NEW kind \in {"body", "newline", "line", "part"}
  PROVE  Piece(w, kind) \in Pieces /\ Piece(w, kind).by = w /\ Piece(w, kind).kind = kind
BY DEF Piece, Pieces

LEMMA FileShape ==
  ASSUME TypeOK
  PROVE  /\ file \in Seq(Pieces)
         /\ Len(file) \in Nat
         /\ DOMAIN file = 1 .. Len(file)
         /\ \A i \in DOMAIN file : /\ file[i] \in Pieces
                                   /\ file[i].by \in Writers
                                   /\ file[i].kind \in {"body", "newline", "line", "part"}
                                   /\ file[i] = Piece(file[i].by, file[i].kind)
<1>1. file \in Seq(Pieces)
  BY DEF TypeOK, Pieces
<1>2. Len(file) \in Nat /\ DOMAIN file = 1 .. Len(file)
  BY <1>1, LenProperties
<1>3. \A i \in DOMAIN file : file[i] \in Pieces
  BY <1>1, <1>2, ElementOfSeq
<1> QED BY <1>1, <1>2, <1>3 DEF Pieces, Piece

LEMMA FileGrows ==
  ASSUME TypeOK, NEW w \in Writers, NEW kind \in {"body", "newline", "line", "part"},
         file' = Append(file, Piece(w, kind))
  PROVE  /\ file' \in Seq(Pieces)
         /\ Len(file') = Len(file) + 1
         /\ DOMAIN file' = 1 .. Len(file) + 1
         /\ \A i \in DOMAIN file : file'[i] = file[i]
         /\ file'[Len(file) + 1] = Piece(w, kind)
<1>1. Piece(w, kind) \in Pieces /\ file \in Seq(Pieces)
  BY PieceType, FileShape
<1>2. file' \in Seq(Pieces) /\ DOMAIN file = 1 .. Len(file)
  BY <1>1, AppendProperties, LenProperties
<1> QED BY <1>1, <1>2, AppendProperties, LenProperties

-----------------------------------------------------------------------------
(* What the steps of a thread have in common.                              *)

ThreadMoves(w, to) ==
  /\ thread[w] \in {"queued", "open", "written"}
  /\ thread' = [thread EXCEPT ![w] = to]
  /\ UNCHANGED <<pc, holder, waiters, arrivals, crashed>>

(* The piece a thread adds to the file on its way to a new place.          *)
PieceOf(w, to, kind) ==
  /\ to = "written" => kind = "body" /\ w \in Long
  /\ to = "failed" => kind = "part"
  /\ to = "done" => /\ thread[w] = "written"
                    /\ kind = IF w \in Long THEN "newline" ELSE "line"

LEMMA ThreadStepMoves ==
  ASSUME TypeOK, NEW w \in Writers, Appends(w)
  PROVE  \/ \E to \in {"open", "written", "failed"} :
              /\ ThreadMoves(w, to)
              /\ file' = file
              /\ to = "written" => w \notin Long
              /\ thread[w] = "written" => to = "failed"
         \/ \E to \in {"written", "failed", "done"},
               kind \in {"body", "newline", "line", "part"} :
              /\ ThreadMoves(w, to)
              /\ file' = Append(file, Piece(w, kind))
              /\ PieceOf(w, to, kind)
<1>1. file \o <<>> = file
  BY FileShape, ConcatEmptySeq
<1>2. \A kind \in {"body", "newline", "line", "part"} :
        file \o <<Piece(w, kind)>> = Append(file, Piece(w, kind))
  BY FileShape, PieceType, AppendIsConcat
<1>3. CASE Open(w)
  BY <1>1, <1>3 DEF Open, ThreadStep, ThreadMoves
<1>4. CASE WriteLine(w)
  <2>1. CASE w \in Long
    <3>1. ThreadMoves(w, "written") /\ file' = Append(file, Piece(w, "body"))
      BY <1>2, <1>4, <2>1 DEF WriteLine, ThreadStep, ThreadMoves
    <3>2. PieceOf(w, "written", "body")
      BY <2>1 DEF PieceOf
    <3> QED BY <3>1, <3>2
  <2>2. CASE w \notin Long
    BY <1>1, <1>4, <2>2 DEF WriteLine, ThreadStep, ThreadMoves
  <2> QED BY <2>1, <2>2
<1>5. CASE Close(w)
  <2> DEFINE kind == IF w \in Long THEN "newline" ELSE "line"
  <2>1. kind \in {"line", "newline"} /\ kind = IF w \in Long THEN "newline" ELSE "line"
    OBVIOUS
  <2>2. ThreadMoves(w, "done") /\ file' = file \o <<Piece(w, kind)>> /\ thread[w] = "written"
    BY <1>5 DEF Close, ThreadStep, ThreadMoves
  <2> HIDE DEF kind
  <2>3. PieceOf(w, "done", kind)
    BY <2>1, <2>2 DEF PieceOf
  <2> QED BY <1>2, <2>1, <2>2, <2>3
<1>6. CASE ThreadFails(w)
  <2>1. ThreadMoves(w, "failed") /\ (file' = file \o <<>> \/ file' = file \o <<Piece(w, "part")>>)
    BY <1>6 DEF ThreadFails, ThreadStep, ThreadMoves
  <2>2. CASE file' = file \o <<>>
    BY <1>1, <2>1, <2>2
  <2>3. CASE file' = file \o <<Piece(w, "part")>>
    <3>1. PieceOf(w, "failed", "part") /\ file' = Append(file, Piece(w, "part"))
      BY <1>2, <2>3 DEF PieceOf
    <3> QED BY <2>1, <3>1
  <2> QED BY <2>1, <2>2, <2>3
<1> QED BY <1>3, <1>4, <1>5, <1>6 DEF Appends

-----------------------------------------------------------------------------
(* Steps that leave the file alone, and steps that add to it.              *)

(* Cancellation is for good, and so is the end of a thread.                *)
Keeps ==
  /\ arrivals' = arrivals \/ \E u \in Writers : arrivals' = Append(arrivals, u)
  /\ \A w \in Writers :
       /\ pc[w] = "cancelled" => pc'[w] = "cancelled"
       /\ thread[w] \in Begun => thread'[w] \in Begun
       /\ thread[w] \in {"failed", "dead"} => thread'[w] = thread[w]

(* No thread comes any further with what it has to write.                  *)
StaysPut ==
  \A w \in Writers :
    /\ thread'[w] = "done" <=> thread[w] = "done"
    /\ w \in Long /\ thread'[w] = "written" => thread[w] = "written"
    /\ thread'[w] = "written" /\ pc'[w] = "appending" => pc[w] = "appending"

LEMMA FileStays ==
  ASSUME Inv, Keeps, StaysPut, file' = file
  PROVE  /\ PiecesTell' /\ ThreadsTell' /\ BodyIsLast'
         /\ FileInCallOrder' /\ OnlyTroubleTearsLines'
<1>1. /\ TypeOK /\ PiecesTell /\ ThreadsTell /\ BodyIsLast
      /\ FileInCallOrder /\ OnlyTroubleTearsLines
  BY DEF Inv
<1>2. \A i \in DOMAIN file : file[i].by \in Writers
  BY <1>1, FileShape
<1>3. PiecesTell'
  BY <1>1, <1>2 DEF PiecesTell, Keeps, StaysPut
<1>4. ThreadsTell'
  <2>1. \A w, kind : InFile(w, kind)' <=> InFile(w, kind)
    BY DEF InFile
  <2> QED BY <1>1, <2>1 DEF ThreadsTell, StaysPut
<1>5. BodyIsLast'
  <2> SUFFICES ASSUME NEW w \in Writers, w \in Long, thread'[w] = "written",
                      pc'[w] = "appending"
               PROVE  /\ file # <<>>
                      /\ file[Len(file)].by = w \/ pc'[file[Len(file)].by] = "cancelled"
    BY DEF BodyIsLast
  <2>1. thread[w] = "written" /\ pc[w] = "appending"
    BY DEF StaysPut
  <2>2. /\ file # <<>>
        /\ file[Len(file)].by = w \/ pc[file[Len(file)].by] = "cancelled"
    BY <1>1, <2>1 DEF BodyIsLast
  <2>3. file[Len(file)].by \in Writers
    <3>1. Len(file) \in DOMAIN file
      BY <1>1, <2>2, FileShape, EmptySeq
    <3> QED BY <1>2, <3>1
  <2> QED BY <2>2, <2>3 DEF Keeps, StaysPut, Begun
<1>6. FileInCallOrder'
  <2> SUFFICES ASSUME NEW i \in DOMAIN file, NEW j \in DOMAIN file,
                      i < j, pc'[file[j].by] # "cancelled"
               PROVE  Arrived(file[i].by, file[j].by)'
    BY DEF FileInCallOrder
  <2>1. pc[file[j].by] # "cancelled"
    BY <1>2 DEF Keeps, StaysPut, Begun
  <2>2. Arrived(file[i].by, file[j].by)
    BY <1>1, <2>1 DEF FileInCallOrder
  <2> QED BY <1>1, <2>2, ArrivedStays DEF Keeps, StaysPut, Begun
<1>7. OnlyTroubleTearsLines'
  <2>1. \A i \in 1 .. Len(file) - 1 : file[i].by \in Writers /\ file[i + 1].by \in Writers
    BY <1>1, <1>2, FileShape
  <2>2. \A i \in 2 .. Len(file) : file[i].by \in Writers /\ file[i - 1].by \in Writers
    BY <1>1, <1>2, FileShape
  <2>3. \A i : LineStarts(i)' <=> LineStarts(i)
    BY DEF LineStarts
  <2>4. \A w \in Writers :
          /\ pc[w] = "cancelled" => pc'[w] = "cancelled"
          /\ thread[w] \in {"failed", "dead"} => thread'[w] = thread[w]
    BY DEF Keeps, StaysPut, Begun
  <2> QED BY <1>1, <2>1, <2>2, <2>3, <2>4 DEF OnlyTroubleTearsLines
<1> QED BY <1>3, <1>4, <1>5, <1>6, <1>7

(* Whoever writes to the file holds the lock or has been cancelled.        *)
LEMMA WorkerHoldsLock ==
  ASSUME Inv, NEW w \in Writers, thread[w] \in {"queued", "open", "written"}
  PROVE  pc[w] \in {"appending", "cancelled"}
BY DEF Inv, TypeOK, TasksInOrder

(* And of two who do, one has been cancelled.                              *)
LEMMA OneWorkerHoldsLock ==
  ASSUME Inv, NEW u \in Writers, NEW w \in Writers, u # w,
         thread[u] \in {"queued", "open", "written"},
         thread[w] \in {"queued", "open", "written"}
  PROVE  "cancelled" \in {pc[u], pc[w]}
<1>1. pc[u] \in {"appending", "cancelled"} /\ pc[w] \in {"appending", "cancelled"}
  BY WorkerHoldsLock
<1>2. ~(pc[u] = "appending" /\ pc[w] = "appending")
  BY DEF Inv, TasksInOrder
<1> QED BY <1>1, <1>2

LEMMA FileAppended ==
  ASSUME Inv, NEW w \in Writers, NEW to \in {"written", "failed", "done"},
         NEW kind \in {"body", "newline", "line", "part"},
         ThreadMoves(w, to), file' = Append(file, Piece(w, kind)),
         PieceOf(w, to, kind)
  PROVE  /\ PiecesTell' /\ ThreadsTell' /\ BodyIsLast'
         /\ FileInCallOrder' /\ OnlyTroubleTearsLines'
<1>1. /\ TypeOK /\ PiecesTell /\ ThreadsTell /\ BodyIsLast
      /\ FileInCallOrder /\ OnlyTroubleTearsLines
  BY DEF Inv
<1>2. /\ Len(file) \in Nat
      /\ DOMAIN file = 1 .. Len(file)
      /\ \A i \in DOMAIN file : file[i].by \in Writers
      /\ \A i \in DOMAIN file : file[i].kind \in {"body", "newline", "line", "part"}
  BY <1>1, FileShape
<1>3. /\ Len(file') = Len(file) + 1
      /\ DOMAIN file' = 1 .. Len(file) + 1
      /\ \A i \in DOMAIN file : file'[i] = file[i]
      /\ file'[Len(file) + 1] = Piece(w, kind)
      /\ file'[Len(file) + 1].by = w
      /\ file'[Len(file) + 1].kind = kind
  BY <1>1, FileGrows, PieceType
<1>4. /\ thread'[w] = to
      /\ \A v \in Writers \ {w} : thread'[v] = thread[v]
      /\ thread[w] \in {"queued", "open", "written"}
      /\ pc' = pc
      /\ arrivals' = arrivals
  BY <1>1 DEF ThreadMoves, TypeOK
<1>5. PiecesTell'
  <2> SUFFICES ASSUME NEW i \in DOMAIN file'
               PROVE  /\ thread'[file'[i].by] \in Begun
                      /\ file'[i].kind = "body" => file'[i].by \in Long
                      /\ file'[i].kind = "part" => thread'[file'[i].by] = "failed"
                      /\ file'[i].kind \in {"line", "newline"} => thread'[file'[i].by] = "done"
                      /\ i = Len(file') /\ thread'[file'[i].by] = "done"
                           => file'[i].kind \in {"line", "newline"}
    BY DEF PiecesTell
  <2>1. CASE i = Len(file) + 1
    BY <1>3, <1>4, <2>1 DEF PieceOf, Begun
  <2>2. CASE i # Len(file) + 1
    <3>1. i \in DOMAIN file /\ i # Len(file') /\ file'[i] = file[i] /\ file[i].by \in Writers
      BY <1>2, <1>3, <2>2
    <3>2. /\ thread[file[i].by] \in Begun
          /\ file[i].kind = "body" => file[i].by \in Long
          /\ file[i].kind = "part" => thread[file[i].by] = "failed"
          /\ file[i].kind \in {"line", "newline"} => thread[file[i].by] = "done"
      BY <1>1, <3>1 DEF PiecesTell
    <3>3. thread'[w] \in Begun
      BY <1>4 DEF Begun
    <3>4. file[i].by = w => thread[file[i].by] = "written"
      BY <1>4, <3>2 DEF Begun
    <3>5. thread[file[i].by] # "written" => thread'[file[i].by] = thread[file[i].by]
      BY <1>4, <3>1, <3>4
    <3>6. thread'[file[i].by] \in Begun
      BY <1>4, <3>1, <3>2, <3>3
    <3> QED BY <3>1, <3>2, <3>5, <3>6
  <2> QED BY <2>1, <2>2
<1>6. ThreadsTell'
  <2>1. \A u, k : InFile(u, k) => InFile(u, k)'
    BY <1>2, <1>3 DEF InFile
  <2>2. InFile(w, kind)'
    <3>1. Len(file) + 1 \in DOMAIN file'
      BY <1>2, <1>3
    <3> QED BY <1>3, <3>1 DEF InFile
  <2>3. ASSUME NEW u \in Writers, u # w
        PROVE  /\ u \in Long /\ thread'[u] \in {"written", "done"} => InFile(u, "body")'
               /\ thread'[u] = "done" => InFile(u, IF u \in Long THEN "newline" ELSE "line")'
    BY <1>1, <1>4, <2>1, <2>3 DEF ThreadsTell
  <2>4. /\ w \in Long /\ thread'[w] \in {"written", "done"} => InFile(w, "body")'
        /\ thread'[w] = "done" => InFile(w, IF w \in Long THEN "newline" ELSE "line")'
    <3>1. CASE to = "written"
      BY <1>4, <2>2, <3>1 DEF PieceOf
    <3>2. CASE to = "failed"
      BY <1>4, <3>2
    <3>3. CASE to = "done"
      <4>1. thread[w] = "written" /\ kind = IF w \in Long THEN "newline" ELSE "line"
        BY <3>3 DEF PieceOf
      <4>2. w \in Long => InFile(w, "body")'
        BY <1>1, <2>1, <4>1 DEF ThreadsTell
      <4> QED BY <2>2, <4>1, <4>2
    <3> QED BY <3>1, <3>2, <3>3
  <2> QED BY <2>3, <2>4 DEF ThreadsTell
<1>7. BodyIsLast'
  <2> SUFFICES ASSUME NEW u \in Writers, thread'[u] = "written", pc[u] = "appending"
               PROVE  /\ file' # <<>>
                      /\ file'[Len(file')].by = u \/ pc[file'[Len(file')].by] = "cancelled"
    BY <1>4 DEF BodyIsLast
  <2>1. file' # <<>> /\ file'[Len(file')].by = w
    BY <1>2, <1>3, EmptySeq
  <2>2. CASE u # w
    <3>1. thread[u] = "written"
      BY <1>4, <2>2
    <3> QED BY <1>4, <2>1, <2>2, <3>1, OneWorkerHoldsLock
  <2> QED BY <2>1, <2>2
<1>8. FileInCallOrder'
  <2> SUFFICES ASSUME NEW i \in DOMAIN file', NEW j \in DOMAIN file',
                      i < j, pc'[file'[j].by] # "cancelled"
               PROVE  Arrived(file'[i].by, file'[j].by)
    BY <1>4 DEF FileInCallOrder, Arrived
  <2>1. i \in DOMAIN file /\ file'[i] = file[i] /\ file[i].by \in Writers
    BY <1>2, <1>3
  <2>2. CASE j = Len(file) + 1
    <3>1. pc[w] = "appending" /\ file'[j].by = w
      BY <1>3, <1>4, <2>2, WorkerHoldsLock
    <3>2. thread[file[i].by] # "none"
      BY <1>1, <2>1 DEF PiecesTell, Begun
    <3> QED BY <2>1, <3>1, <3>2 DEF Inv, LockInOrder
  <2>3. CASE j # Len(file) + 1
    <3>1. j \in DOMAIN file /\ file'[j] = file[j]
      BY <1>2, <1>3, <2>3
    <3> QED BY <1>1, <1>4, <2>1, <3>1 DEF FileInCallOrder
  <2> QED BY <2>2, <2>3
<1>9. ASSUME NEW i \in 1 .. Len(file') - 1, file'[i].by # file'[i + 1].by,
             ~LineStarts(i + 1)'
      PROVE  \/ thread'[file'[i].by] = "failed"
             \/ /\ file'[i].by \in Long
                /\ \/ thread'[file'[i].by] = "dead"
                   \/ "cancelled" \in {pc'[file'[i].by], pc'[file'[i + 1].by]}
  <2>1. i \in DOMAIN file /\ file'[i] = file[i] /\ file[i].by \in Writers
    BY <1>2, <1>3
  <2>2. file[i].kind \notin {"newline", "line"}
    <3>1. i + 1 # 1 /\ (i + 1) - 1 = i
      BY <1>2, <2>1
    <3> QED BY <1>9, <2>1, <3>1 DEF LineStarts
  <2>3. /\ thread[file[i].by] \in Begun
        /\ file[i].kind = "body" => file[i].by \in Long
        /\ file[i].kind = "part" => thread[file[i].by] = "failed"
    BY <1>1, <2>1 DEF PiecesTell
  <2>4. thread[file[i].by] \in {"failed", "dead"} => thread'[file[i].by] = thread[file[i].by]
    BY <1>4, <2>1
  <2>5. CASE file[i].kind = "part"
    BY <2>1, <2>3, <2>4, <2>5
  <2>6. CASE file[i].kind = "body" /\ i = Len(file)
    <3>1. file'[i + 1].by = w /\ file[i].by # w
      BY <1>3, <1>9, <2>1, <2>6
    <3>2. thread[file[i].by] # "done"
      BY <1>1, <2>1, <2>6 DEF PiecesTell
    <3>3. CASE thread[file[i].by] = "written"
      BY <1>4, <2>1, <2>3, <2>6, <3>1, <3>3, OneWorkerHoldsLock
    <3> QED BY <2>1, <2>3, <2>4, <2>6, <3>2, <3>3 DEF Begun
  <2>7. CASE file[i].kind = "body" /\ i # Len(file)
    <3>1. i \in 1 .. Len(file) - 1 /\ i + 1 \in DOMAIN file /\ file'[i + 1] = file[i + 1]
      BY <1>2, <1>3, <2>1, <2>7
    <3>2. ~LineStarts(i + 1)
      <4>1. i + 1 # 1 /\ (i + 1) - 1 = i
        BY <1>2, <2>1
      <4> QED BY <2>2, <4>1 DEF LineStarts
    <3>3. \/ thread[file[i].by] = "failed"
          \/ /\ file[i].by \in Long
             /\ \/ thread[file[i].by] = "dead"
                \/ "cancelled" \in {pc[file[i].by], pc[file[i + 1].by]}
      BY <1>1, <1>9, <2>1, <3>1, <3>2 DEF OnlyTroubleTearsLines
    <3> QED BY <1>4, <2>1, <2>4, <3>1, <3>3
  <2> QED BY <1>2, <2>1, <2>2, <2>5, <2>6, <2>7
<1>10. ASSUME NEW i \in 2 .. Len(file'), file'[i].kind = "newline",
              file'[i].by # file'[i - 1].by
       PROVE  "cancelled" \in {pc'[file'[i].by], pc'[file'[i - 1].by]}
  <2>1. i - 1 \in DOMAIN file /\ file'[i - 1] = file[i - 1]
    BY <1>2, <1>3
  <2>2. CASE i = Len(file) + 1
    <3>1. /\ file'[i].by = w /\ kind = "newline" /\ i - 1 = Len(file)
          /\ thread[w] = "written" /\ w \in Long
      <4>1. file'[i].by = w /\ file'[i].kind = kind
        BY <1>3, <2>2
      <4>2. i - 1 = Len(file)
        BY <1>2, <2>2
      <4>3. kind = "newline"
        BY <1>10, <4>1
      <4>4. to = "done"
        BY <4>3 DEF PieceOf
      <4>5. thread[w] = "written" /\ w \in Long
        BY <4>3, <4>4 DEF PieceOf
      <4> QED BY <4>1, <4>2, <4>3, <4>5
    <3>2. pc[w] = "appending" => pc[file[Len(file)].by] = "cancelled"
      BY <1>1, <1>10, <2>1, <3>1 DEF BodyIsLast
    <3>3. pc[w] \in {"appending", "cancelled"}
      BY <3>1, WorkerHoldsLock
    <3> QED BY <1>4, <2>1, <3>1, <3>2, <3>3
  <2>3. CASE i # Len(file) + 1
    <3>1. i \in 2 .. Len(file) /\ i \in DOMAIN file /\ file'[i] = file[i]
      BY <1>2, <1>3, <2>3
    <3> QED BY <1>1, <1>4, <1>10, <2>1, <3>1 DEF OnlyTroubleTearsLines
  <2> QED BY <2>2, <2>3
<1>11. OnlyTroubleTearsLines'
  BY <1>9, <1>10 DEF OnlyTroubleTearsLines
<1> QED BY <1>5, <1>6, <1>7, <1>8, <1>11

-----------------------------------------------------------------------------
(* Every step preserves the invariant: one lemma per action.               *)

LEMMA AppendsStep ==
  ASSUME Inv, NEW w \in Writers, Appends(w)
  PROVE  Inv'
<1>1. TypeOK /\ TasksInOrder /\ QueueInOrder /\ LockInOrder
  BY DEF Inv
<1>2. ASSUME NEW to \in {"open", "written", "failed", "done"}, ThreadMoves(w, to)
      PROVE  TasksInOrder' /\ QueueInOrder' /\ LockInOrder'
  <2>1. /\ thread[w] \in {"queued", "open", "written"}
        /\ thread'[w] = to
        /\ \A v \in Writers \ {w} : thread'[v] = thread[v]
        /\ UNCHANGED <<pc, holder, waiters, arrivals>>
    BY <1>1, <1>2 DEF ThreadMoves, TypeOK
  <2>2. \A u, v : Arrived(u, v)' <=> Arrived(u, v)
    BY <2>1 DEF Arrived
  <2>3. pc[w] \in {"appending", "cancelled"}
    BY <2>1, WorkerHoldsLock
  <2>4. TasksInOrder'
    BY <1>1, <2>1, <2>2, <2>3 DEF TasksInOrder
  <2>5. QueueInOrder'
    BY <1>1, <2>1, <2>2 DEF QueueInOrder
  <2>6. LockInOrder'
    BY <1>1, <2>1, <2>2 DEF LockInOrder
  <2> QED BY <2>4, <2>5, <2>6
<1>3. CASE \E to \in {"open", "written", "failed"} :
             /\ ThreadMoves(w, to)
             /\ file' = file
             /\ to = "written" => w \notin Long
             /\ thread[w] = "written" => to = "failed"
  <2>1. PICK to \in {"open", "written", "failed"} :
               /\ ThreadMoves(w, to)
               /\ file' = file
               /\ to = "written" => w \notin Long
               /\ thread[w] = "written" => to = "failed"
    BY <1>3
  <2>2. TypeOK'
    BY <1>1, <2>1 DEF ThreadMoves, TypeOK
  <2>3. /\ thread[w] \in {"queued", "open", "written"}
        /\ thread'[w] = to
        /\ \A v \in Writers \ {w} : thread'[v] = thread[v]
        /\ UNCHANGED <<pc, arrivals>>
    BY <1>1, <2>1 DEF ThreadMoves, TypeOK
  <2>4. Keeps /\ StaysPut
    BY <2>1, <2>3 DEF Keeps, StaysPut, Begun
  <2> QED BY <1>2, <2>1, <2>2, <2>4, FileStays DEF Inv
<1>4. CASE \E to \in {"written", "failed", "done"},
              kind \in {"body", "newline", "line", "part"} :
             /\ ThreadMoves(w, to)
             /\ file' = Append(file, Piece(w, kind))
             /\ PieceOf(w, to, kind)
  <2>1. PICK to \in {"written", "failed", "done"},
             kind \in {"body", "newline", "line", "part"} :
               /\ ThreadMoves(w, to)
               /\ file' = Append(file, Piece(w, kind))
               /\ PieceOf(w, to, kind)
    BY <1>4
  <2>2. file' \in Seq(Pieces)
    BY <1>1, <2>1, FileGrows
  <2>3. TypeOK'
    BY <1>1, <2>1, <2>2 DEF ThreadMoves, TypeOK, Pieces
  <2>4. /\ PiecesTell' /\ ThreadsTell' /\ BodyIsLast'
        /\ FileInCallOrder' /\ OnlyTroubleTearsLines'
    BY <2>1, FileAppended
  <2> QED BY <1>2, <2>1, <2>3, <2>4 DEF Inv
<1> QED BY <1>1, <1>3, <1>4, ThreadStepMoves

LEMMA WriteStep ==
  ASSUME Inv, NEW w \in Writers, Write(w)
  PROVE  Inv'
<1>1. TypeOK /\ TasksInOrder /\ QueueInOrder /\ LockInOrder
  BY DEF Inv
<1>2. /\ pc[w] = "idle"
      /\ thread[w] = "none"
      /\ arrivals' = Append(arrivals, w)
      /\ UNCHANGED <<file, crashed>>
  BY <1>1 DEF Write, TasksInOrder
<1>3. arrivals' \in Seq(Writers)
  BY <1>1, <1>2, AppendProperties DEF TypeOK
<1>4. /\ \A u, v : Arrived(u, v) => Arrived(u, v)'
      /\ \A u \in Writers : pc[u] # "idle" => Arrived(u, w)'
      /\ Arrived(w, w)'
  <2>1. \A u, v : Arrived(u, v) => Arrived(u, v)'
    BY <1>1, <1>2, ArrivedStays
  <2> QED BY <1>1, <1>2, <2>1, ArrivesLast DEF TasksInOrder
<1>5. CASE holder = None /\ waiters = <<>>
  <2>1. /\ holder' = w
        /\ thread' = [thread EXCEPT ![w] = "queued"]
        /\ pc' = [pc EXCEPT ![w] = "appending"]
        /\ waiters' = waiters
    BY <1>5 DEF Write, Acquired
  <2>2. /\ pc'[w] = "appending" /\ thread'[w] = "queued"
        /\ \A u \in Writers \ {w} : pc'[u] = pc[u] /\ thread'[u] = thread[u]
    BY <1>1, <2>1 DEF TypeOK
  <2>3. \A u \in Writers : pc[u] \notin {"appending", "waiting"}
    BY <1>1, <1>5, NoneIsNoWriter DEF TasksInOrder, QueueInOrder
  <2>4. TypeOK'
    BY <1>1, <1>2, <1>3, <2>1 DEF TypeOK
  <2>5. TasksInOrder'
    BY <1>1, <1>4, <2>1, <2>2, <2>3 DEF TasksInOrder
  <2>6. QueueInOrder'
    BY <1>5, <2>1, <2>2, <2>3 DEF QueueInOrder
  <2>7. LockInOrder'
    BY <1>1, <1>4, <2>2, <2>3 DEF LockInOrder, TasksInOrder
  <2>8. Keeps /\ StaysPut
    BY <1>2, <2>2 DEF Keeps, StaysPut, Begun
  <2> QED BY <1>2, <2>4, <2>5, <2>6, <2>7, <2>8, FileStays DEF Inv
<1>6. CASE ~(holder = None /\ waiters = <<>>)
  <2>1. /\ pc' = [pc EXCEPT ![w] = "waiting"]
        /\ waiters' = Append(waiters, w)
        /\ UNCHANGED <<holder, thread>>
    BY <1>6 DEF Write
  <2>2. pc'[w] = "waiting" /\ \A u \in Writers \ {w} : pc'[u] = pc[u]
    BY <1>1, <2>1 DEF TypeOK
  <2>3. /\ waiters' \in Seq(Writers)
        /\ Len(waiters) \in Nat
        /\ DOMAIN waiters = 1 .. Len(waiters)
        /\ DOMAIN waiters' = 1 .. Len(waiters) + 1
        /\ \A i \in DOMAIN waiters : waiters'[i] = waiters[i] /\ waiters[i] \in Writers
        /\ waiters'[Len(waiters) + 1] = w
    <3>1. waiters' \in Seq(Writers) /\ waiters \in Seq(Writers)
      BY <1>1, <2>1, AppendProperties DEF TypeOK
    <3> QED BY <2>1, <3>1, AppendProperties, LenProperties, ElementOfSeq
  <2>4. TypeOK'
    BY <1>1, <1>2, <1>3, <2>1, <2>3 DEF TypeOK
  <2>5. holder # w
    BY <1>1, <1>2 DEF TasksInOrder
  <2>6. TasksInOrder'
    BY <1>1, <1>2, <1>4, <2>1, <2>2, <2>5 DEF TasksInOrder
  <2>7. QueueInOrder'
    <3>1. \A i \in DOMAIN waiters : pc[waiters[i]] = "waiting" /\ waiters[i] \in Writers \ {w}
      BY <1>1, <1>2, <2>3 DEF QueueInOrder
    <3>2. \A i \in DOMAIN waiters' : pc'[waiters'[i]] = "waiting"
      <4> TAKE i \in DOMAIN waiters'
      <4>1. CASE i = Len(waiters) + 1
        BY <2>2, <2>3, <4>1
      <4>2. CASE i # Len(waiters) + 1
        <5>1. i \in DOMAIN waiters
          BY <2>3, <4>2
        <5> QED BY <2>2, <2>3, <3>1, <5>1
      <4> QED BY <4>1, <4>2
    <3>3. ASSUME NEW i \in DOMAIN waiters', NEW j \in DOMAIN waiters', i < j
          PROVE  waiters'[i] # waiters'[j] /\ Arrived(waiters[i], waiters[j])'
      <4>1. i \in DOMAIN waiters
        BY <2>3, <3>3
      <4>2. CASE j = Len(waiters) + 1
        BY <1>4, <2>3, <3>1, <4>1, <4>2
      <4>3. CASE j # Len(waiters) + 1
        <5>1. j \in DOMAIN waiters
          BY <2>3, <4>3
        <5> QED BY <1>1, <1>4, <2>3, <3>3, <4>1, <5>1 DEF QueueInOrder
      <4> QED BY <4>2, <4>3
    <3>4. ASSUME NEW u \in Writers, pc'[u] = "waiting"
          PROVE  \E i \in DOMAIN waiters' : waiters'[i] = u
      <4>1. CASE u = w
        <5>1. Len(waiters) + 1 \in DOMAIN waiters'
          BY <2>3
        <5> QED BY <2>3, <4>1, <5>1
      <4>2. CASE u # w
        <5>1. PICK i \in DOMAIN waiters : waiters[i] = u
          BY <1>1, <2>2, <3>4, <4>2 DEF QueueInOrder
        <5>2. i \in DOMAIN waiters'
          BY <2>3, <5>1
        <5> QED BY <2>3, <5>1, <5>2
      <4> QED BY <4>1, <4>2
    <3> QED BY <3>2, <3>3, <3>4 DEF QueueInOrder
  <2>8. LockInOrder'
    <3>1. \A u \in Writers : thread[u] # "none" => pc[u] # "idle"
      BY <1>1 DEF TasksInOrder
    <3> QED BY <1>1, <1>4, <2>1, <2>2, <3>1 DEF LockInOrder
  <2>9. Keeps /\ StaysPut
    BY <1>2, <2>1, <2>2 DEF Keeps, StaysPut, Begun
  <2> QED BY <1>2, <2>4, <2>6, <2>7, <2>8, <2>9, FileStays DEF Inv
<1> QED BY <1>5, <1>6

(* The queue without its k-th task: the others keep their order.           *)
LEMMA QueueWithout ==
  ASSUME TypeOK, QueueInOrder, NEW k \in DOMAIN waiters, NEW rest \in Seq(Writers),
         Len(rest) = Len(waiters) - 1,
         \A j \in 1 .. Len(waiters) - 1 :
           rest[j] = IF j < k THEN waiters[j] ELSE waiters[j + 1]
  PROVE  /\ \A i \in DOMAIN rest : pc[rest[i]] = "waiting" /\ rest[i] \in Writers \ {waiters[k]}
         /\ \A i, j \in DOMAIN rest : i < j => rest[i] # rest[j] /\ Arrived(rest[i], rest[j])
         /\ \A w \in Writers \ {waiters[k]} :
              pc[w] = "waiting" => \E i \in DOMAIN rest : rest[i] = w
<1> DEFINE old(i) == IF i < k THEN i ELSE i + 1
<1>1. /\ Len(waiters) \in Nat
      /\ DOMAIN waiters = 1 .. Len(waiters)
      /\ \A i \in DOMAIN waiters : waiters[i] \in Writers
      /\ DOMAIN rest = 1 .. Len(waiters) - 1
  BY LenProperties, ElementOfSeq DEF TypeOK
<1>2. ASSUME NEW i \in DOMAIN rest
      PROVE  old(i) \in DOMAIN waiters \ {k} /\ rest[i] = waiters[old(i)]
  BY <1>1
<1>3. ASSUME NEW i \in DOMAIN rest, NEW j \in DOMAIN rest, i < j
      PROVE  old(i) < old(j)
  BY <1>1, <1>3
<1>4. ASSUME NEW m \in DOMAIN waiters, m # k
      PROVE  \E i \in DOMAIN rest : old(i) = m
  <2>1. CASE m < k
    <3>1. m \in DOMAIN rest /\ old(m) = m
      BY <1>1, <2>1
    <3> QED BY <3>1
  <2>2. CASE m > k
    <3>1. m - 1 \in DOMAIN rest /\ old(m - 1) = m
      BY <1>1, <2>2
    <3> QED BY <3>1
  <2> QED BY <1>1, <1>4, <2>1, <2>2
<1>5. \A m \in DOMAIN waiters : m # k => waiters[m] # waiters[k]
  BY <1>1 DEF QueueInOrder
<1> HIDE DEF old
<1>6. \A i \in DOMAIN rest : pc[rest[i]] = "waiting" /\ rest[i] \in Writers \ {waiters[k]}
  BY <1>1, <1>2, <1>5 DEF QueueInOrder
<1>7. \A i, j \in DOMAIN rest : i < j => rest[i] # rest[j] /\ Arrived(rest[i], rest[j])
  BY <1>2, <1>3 DEF QueueInOrder
<1>8. ASSUME NEW w \in Writers \ {waiters[k]}, pc[w] = "waiting"
      PROVE  \E i \in DOMAIN rest : rest[i] = w
  <2>1. PICK m \in DOMAIN waiters : waiters[m] = w
    BY <1>8 DEF QueueInOrder
  <2>2. PICK i \in DOMAIN rest : old(i) = m
    BY <1>4, <2>1
  <2> QED BY <1>2, <2>1, <2>2
<1> QED BY <1>6, <1>7, <1>8

LEMMA GrantStep ==
  ASSUME Inv, NEW w \in Writers, Grant(w)
  PROVE  Inv'
<1>1. TypeOK /\ TasksInOrder /\ QueueInOrder /\ LockInOrder
  BY DEF Inv
<1>2. /\ holder = None
      /\ holder' = w
      /\ thread' = [thread EXCEPT ![w] = "queued"]
      /\ pc' = [pc EXCEPT ![w] = "appending"]
      /\ waiters # <<>>
      /\ w = Head(waiters)
      /\ waiters' = Tail(waiters)
      /\ UNCHANGED <<file, arrivals, crashed>>
  BY DEF Grant, Acquired
<1>3. /\ Len(waiters) \in Nat \ {0}
      /\ DOMAIN waiters = 1 .. Len(waiters)
      /\ 1 \in DOMAIN waiters
      /\ waiters[1] = w
      /\ waiters' \in Seq(Writers)
      /\ Len(waiters') = Len(waiters) - 1
      /\ \A j \in 1 .. Len(waiters) - 1 :
           waiters'[j] = waiters[j + 1]
  <2>1. Len(waiters) \in Nat \ {0} /\ DOMAIN waiters = 1 .. Len(waiters)
    BY <1>1, <1>2, EmptySeq, LenProperties DEF TypeOK
  <2> QED BY <1>1, <1>2, <2>1, HeadTailProperties DEF TypeOK
<1>4. /\ \A i \in DOMAIN waiters' : pc[waiters'[i]] = "waiting" /\ waiters'[i] \in Writers \ {w}
      /\ \A i, j \in DOMAIN waiters' :
           i < j => waiters'[i] # waiters'[j] /\ Arrived(waiters'[i], waiters'[j])
      /\ \A u \in Writers \ {w} :
           pc[u] = "waiting" => \E i \in DOMAIN waiters' : waiters'[i] = u
  <2>1. PICK k \in DOMAIN waiters : k = 1 /\ waiters[k] = w
    BY <1>3
  <2>2. \A j \in 1 .. Len(waiters) - 1 :
          waiters'[j] = IF j < k THEN waiters[j] ELSE waiters[j + 1]
    BY <1>3, <2>1
  <2>3. waiters' \in Seq(Writers) /\ Len(waiters') = Len(waiters) - 1
    BY <1>3
  <2> QED BY <1>1, <2>1, <2>2, <2>3, QueueWithout
<1>5. /\ pc[w] = "waiting" /\ thread[w] = "none"
      /\ pc'[w] = "appending" /\ thread'[w] = "queued"
      /\ \A u \in Writers \ {w} : pc'[u] = pc[u] /\ thread'[u] = thread[u]
  <2>1. pc[w] = "waiting"
    BY <1>1, <1>3 DEF QueueInOrder
  <2> QED BY <1>1, <1>2, <2>1 DEF TypeOK, TasksInOrder
<1>6. \A u \in Writers : pc[u] # "appending"
  BY <1>1, <1>2, NoneIsNoWriter DEF TasksInOrder
<1>7. \A u, v : Arrived(u, v)' <=> Arrived(u, v)
  BY <1>2 DEF Arrived
<1>8. TypeOK'
  BY <1>1, <1>2, <1>3 DEF TypeOK
<1>9. TasksInOrder'
  BY <1>1, <1>2, <1>5, <1>6, <1>7 DEF TasksInOrder
<1>10. QueueInOrder'
  BY <1>2, <1>4, <1>5, <1>7 DEF QueueInOrder, Arrived
<1>11. LockInOrder'
  <2> SUFFICES ASSUME NEW u \in Writers, NEW v \in Writers,
                      thread'[u] # "none", pc'[v] \in {"waiting", "appending"}
               PROVE  Arrived(u, v)
    BY <1>7 DEF LockInOrder
  <2>1. CASE v = w /\ u = w
    BY <1>1, <1>5, <2>1 DEF TasksInOrder
  <2>2. CASE u # w
    BY <1>1, <1>5, <2>2 DEF LockInOrder
  <2>3. CASE u = w /\ v # w
    <3>1. PICK i \in DOMAIN waiters : waiters[i] = v
      BY <1>1, <1>5, <1>6, <2>3 DEF QueueInOrder
    <3>2. 1 < i
      BY <1>3, <2>3, <3>1
    <3> QED BY <1>1, <1>3, <2>3, <3>1, <3>2 DEF QueueInOrder
  <2> QED BY <2>1, <2>2, <2>3
<1>12. Keeps /\ StaysPut
  BY <1>2, <1>5 DEF Keeps, StaysPut, Begun
<1> QED BY <1>2, <1>8, <1>9, <1>10, <1>11, <1>12, FileStays DEF Inv

(* Every way out of the lock.                                              *)
LEMMA LeaveStep ==
  ASSUME Inv, NEW w \in Writers,
         WriteReturns(w) \/ WriteRaises(w) \/ CancelAppending(w)
  PROVE  Inv'
<1>1. TypeOK /\ TasksInOrder /\ QueueInOrder /\ LockInOrder
  BY DEF Inv
<1>2. /\ pc[w] = "appending"
      /\ holder' = None
      /\ UNCHANGED <<waiters, file, arrivals, crashed>>
  BY DEF WriteReturns, WriteRaises, CancelAppending, Leave
<1>3. PICK how \in {"returned", "raised", "cancelled"},
           to \in {"queued", "open", "written", "done", "failed", "withdrawn"} :
        /\ pc' = [pc EXCEPT ![w] = how]
        /\ thread' = [thread EXCEPT ![w] = to]
        /\ how = "returned" => thread[w] = "done"
        /\ how = "raised" => thread[w] = "failed"
        /\ to = IF thread[w] = "queued" THEN "withdrawn" ELSE thread[w]
  <2>1. thread[w] \in {"queued", "open", "written", "done", "failed"}
    BY <1>1, <1>2 DEF TasksInOrder
  <2>2. CASE WriteReturns(w)
    <3>1. /\ pc' = [pc EXCEPT ![w] = "returned"]
          /\ thread[w] = "done"
          /\ thread' = [thread EXCEPT ![w] = "done"]
      BY <1>1, <2>2 DEF WriteReturns, Leave, TypeOK
    <3> QED BY <3>1
  <2>3. CASE WriteRaises(w)
    <3>1. /\ pc' = [pc EXCEPT ![w] = "raised"]
          /\ thread[w] = "failed"
          /\ thread' = [thread EXCEPT ![w] = "failed"]
      BY <1>1, <2>3 DEF WriteRaises, Leave, TypeOK
    <3> QED BY <3>1
  <2>4. CASE CancelAppending(w)
    <3> DEFINE to == IF thread[w] = "queued" THEN "withdrawn" ELSE thread[w]
    <3>1. pc' = [pc EXCEPT ![w] = "cancelled"] /\ thread' = [thread EXCEPT ![w] = to]
      BY <2>4 DEF CancelAppending, Leave
    <3>2. to \in {"open", "written", "done", "failed", "withdrawn"}
      BY <2>1
    <3> QED BY <3>1, <3>2
  <2> QED BY <2>2, <2>3, <2>4
<1>4. /\ pc'[w] = how /\ thread'[w] = to
      /\ \A u \in Writers \ {w} : pc'[u] = pc[u] /\ thread'[u] = thread[u]
      /\ thread[w] \in {"queued", "open", "written", "done", "failed"}
  BY <1>1, <1>2, <1>3 DEF TypeOK, TasksInOrder
<1>5. \A u, v : Arrived(u, v)' <=> Arrived(u, v)
  BY <1>2 DEF Arrived
<1>6. \A u \in Writers \ {w} : pc[u] # "appending"
  BY <1>1, <1>2 DEF TasksInOrder
<1>7. TypeOK'
  BY <1>1, <1>2, <1>3 DEF TypeOK
<1>8. TasksInOrder'
  BY <1>1, <1>2, <1>3, <1>4, <1>5, <1>6, NoneIsNoWriter DEF TasksInOrder
<1>9. QueueInOrder'
  <2>1. \A i \in DOMAIN waiters : waiters[i] \in Writers
    BY <1>1, LenProperties, ElementOfSeq DEF TypeOK
  <2> QED BY <1>1, <1>2, <1>4, <1>5, <2>1 DEF QueueInOrder
<1>10. LockInOrder'
  BY <1>1, <1>3, <1>4, <1>5 DEF LockInOrder
<1>11. Keeps /\ StaysPut
  BY <1>2, <1>3, <1>4 DEF Keeps, StaysPut, Begun
<1> QED BY <1>2, <1>7, <1>8, <1>9, <1>10, <1>11, FileStays DEF Inv

LEMMA CancelWaitingStep ==
  ASSUME Inv, NEW w \in Writers, CancelWaiting(w)
  PROVE  Inv'
<1>1. TypeOK /\ TasksInOrder /\ QueueInOrder /\ LockInOrder
  BY DEF Inv
<1>2. /\ pc[w] = "waiting"
      /\ waiters' = Dequeued(waiters, w)
      /\ pc' = [pc EXCEPT ![w] = "cancelled"]
      /\ UNCHANGED <<holder, thread, file, arrivals, crashed>>
  BY DEF CancelWaiting
<1> DEFINE k == CHOOSE i \in DOMAIN waiters : waiters[i] = w
<1>3. k \in DOMAIN waiters /\ waiters[k] = w
  BY <1>1, <1>2 DEF QueueInOrder
<1>4. waiters' = RemoveAt(waiters, k)
  BY <1>2 DEF Dequeued
<1> HIDE DEF k
<1>5. /\ waiters' \in Seq(Writers)
      /\ Len(waiters') = Len(waiters) - 1
      /\ \A j \in 1 .. Len(waiters) - 1 :
           waiters'[j] = IF j < k THEN waiters[j] ELSE waiters[j + 1]
  <2>1. waiters \in Seq(Writers) /\ k \in 1 .. Len(waiters)
    BY <1>1, <1>3, LenProperties DEF TypeOK
  <2> QED BY <1>4, <2>1, RemoveAtType, RemoveAtElements
<1>6. /\ \A i \in DOMAIN waiters' : pc[waiters'[i]] = "waiting" /\ waiters'[i] \in Writers \ {w}
      /\ \A i, j \in DOMAIN waiters' :
           i < j => waiters'[i] # waiters'[j] /\ Arrived(waiters'[i], waiters'[j])
      /\ \A u \in Writers \ {w} :
           pc[u] = "waiting" => \E i \in DOMAIN waiters' : waiters'[i] = u
  BY <1>1, <1>3, <1>5, QueueWithout
<1>7. /\ thread[w] = "none" /\ pc'[w] = "cancelled"
      /\ \A u \in Writers \ {w} : pc'[u] = pc[u]
  BY <1>1, <1>2 DEF TypeOK, TasksInOrder
<1>8. \A u, v : Arrived(u, v)' <=> Arrived(u, v)
  BY <1>2 DEF Arrived
<1>9. TypeOK'
  BY <1>1, <1>2, <1>5 DEF TypeOK
<1>10. TasksInOrder'
  BY <1>1, <1>2, <1>7, <1>8 DEF TasksInOrder
<1>11. QueueInOrder'
  BY <1>2, <1>6, <1>7, <1>8 DEF QueueInOrder, Arrived
<1>12. LockInOrder'
  BY <1>1, <1>2, <1>7, <1>8 DEF LockInOrder
<1>13. Keeps /\ StaysPut
  BY <1>2, <1>7 DEF Keeps, StaysPut, Begun
<1> QED BY <1>2, <1>9, <1>10, <1>11, <1>12, <1>13, FileStays DEF Inv

LEMMA CrashStep ==
  ASSUME Inv, Crash
  PROVE  Inv'
<1>1. TypeOK /\ TasksInOrder /\ QueueInOrder /\ LockInOrder
  BY DEF Inv
<1>2. /\ holder' = None
      /\ waiters' = <<>>
      /\ crashed' = TRUE
      /\ UNCHANGED <<file, arrivals>>
      /\ pc' = [w \in Writers |-> IF pc[w] \in {"waiting", "appending"} THEN "lost" ELSE pc[w]]
      /\ thread' = [w \in Writers |->
           IF thread[w] \in {"queued", "open", "written"} THEN "dead" ELSE thread[w]]
  BY DEF Crash
<1>3. \A u, v : Arrived(u, v)' <=> Arrived(u, v)
  BY <1>2 DEF Arrived
<1>4. TypeOK'
  BY <1>1, <1>2, EmptySeq DEF TypeOK
<1>5. TasksInOrder'
  BY <1>1, <1>2, <1>3, NoneIsNoWriter DEF TasksInOrder, TypeOK
<1>6. QueueInOrder'
  BY <1>2 DEF QueueInOrder
<1>7. LockInOrder'
  BY <1>2 DEF LockInOrder
<1>8. Keeps /\ StaysPut
  BY <1>2 DEF Keeps, StaysPut, Begun
<1> QED BY <1>2, <1>4, <1>5, <1>6, <1>7, <1>8, FileStays DEF Inv

-----------------------------------------------------------------------------
(* The theorems.                                                           *)

LEMMA InitInv == Init => Inv
<1> SUFFICES ASSUME Init PROVE Inv
  OBVIOUS
<1>1. DOMAIN file = {} /\ DOMAIN waiters = {} /\ Len(file) = 0
  BY EmptySeq DEF Init
<1>2. TypeOK
  BY EmptySeq DEF Init, TypeOK
<1>3. TasksInOrder /\ QueueInOrder /\ LockInOrder
  BY <1>1, NoneIsNoWriter DEF Init, TasksInOrder, QueueInOrder, LockInOrder
<1>4. PiecesTell /\ FileInCallOrder /\ OnlyTroubleTearsLines
  BY <1>1 DEF PiecesTell, FileInCallOrder, OnlyTroubleTearsLines
<1>5. ThreadsTell /\ BodyIsLast
  BY DEF Init, ThreadsTell, BodyIsLast
<1> QED BY <1>2, <1>3, <1>4, <1>5 DEF Inv

LEMMA NextInv == Inv /\ [Next]_vars => Inv'
<1> SUFFICES ASSUME Inv, [Next]_vars PROVE Inv'
  OBVIOUS
<1>1. CASE \E w \in Writers : Write(w) \/ Grant(w)
  BY <1>1, WriteStep, GrantStep
<1>2. CASE \E w \in Writers : WriteReturns(w) \/ WriteRaises(w) \/ CancelAppending(w)
  BY <1>2, LeaveStep
<1>3. CASE \E w \in Writers : CancelWaiting(w)
  BY <1>3, CancelWaitingStep
<1>4. CASE \E w \in Writers : Appends(w)
  BY <1>4, AppendsStep
<1>5. CASE Crash
  BY <1>5, CrashStep
<1>6. CASE UNCHANGED vars
  BY <1>6
     DEF vars, Inv, TypeOK, TasksInOrder, QueueInOrder, LockInOrder, PiecesTell,
         ThreadsTell, InFile, BodyIsLast, FileInCallOrder, OnlyTroubleTearsLines,
         Arrived, LineStarts
<1> QED BY <1>1, <1>2, <1>3, <1>4, <1>5, <1>6 DEF Next, Proceeds

(* Queue, lock, threads and file tell the same story of every write, with  *)
(* cancellations, failures and a crash (audit/jsonlines.py:59-70).         *)
THEOREM Invariance == Spec => []Inv
<1>1. Init => Inv
  BY InitInv
<1>2. Inv /\ [Next]_vars => Inv'
  BY NextInv
<1> QED BY <1>1, <1>2, PTL DEF Spec

(* The types among them: the lock is held by a task or by nobody, and the  *)
(* file is pieces of entries (audit/jsonlines.py:59-70).                   *)
THEOREM TypeCorrectness == Spec => []TypeOK
<1>1. Inv => TypeOK
  BY DEF Inv
<1> QED BY <1>1, Invariance, PTL

(* Lines land in the order in which write was called, whatever happens to  *)
(* the writes before them (the lock of audit/jsonlines.py:69).             *)
THEOREM LinesInCallOrder == Spec => []FileInCallOrder
<1>1. Inv => FileInCallOrder
  BY DEF Inv
<1> QED BY <1>1, Invariance, PTL

(* Only a failed write, or a long one that was cancelled, died or met the  *)
(* thread of a cancelled task, has torn a line: a short entry's line is    *)
(* torn by a failure alone (audit/jsonlines.py:59-70).                     *)
THEOREM TornLinesHaveACause == Spec => []OnlyTroubleTearsLines
<1>1. Inv => OnlyTroubleTearsLines
  BY DEF Inv
<1> QED BY <1>1, Invariance, PTL

-----------------------------------------------------------------------------
(* JsonLinesAudit implements the AuditStore contract: Close persists, and  *)
(* the steps in between are none of the contract's.                        *)

DoneArePersisted == Persisted = {w \in Writers : thread[w] = "done"}

LEMMA PersistedAreDone == Inv => DoneArePersisted
<1> SUFFICES ASSUME Inv PROVE DoneArePersisted
  OBVIOUS
<1>1. ASSUME NEW w \in Writers, InFile(w, "line") \/ InFile(w, "newline")
      PROVE  thread[w] = "done"
  <2>1. PICK i \in DOMAIN file :
          file[i] = Piece(w, "line") \/ file[i] = Piece(w, "newline")
    BY <1>1 DEF InFile
  <2>2. file[i].by = w /\ file[i].kind \in {"line", "newline"}
    BY <2>1, PieceType
  <2> QED BY <2>2 DEF Inv, PiecesTell
<1>2. ASSUME NEW w \in Writers, thread[w] = "done"
      PROVE  InFile(w, "line") \/ (InFile(w, "body") /\ InFile(w, "newline"))
  BY <1>2 DEF Inv, ThreadsTell
<1> QED BY <1>1, <1>2 DEF Persisted, DoneArePersisted

LEMMA PersistedAreDoneNext == Inv' => DoneArePersisted'
BY PersistedAreDone, PTL

LEMMA ContractStep ==
  ASSUME Inv, Inv', [Next]_vars
  PROVE  [Contract!Next]_(Contract!vars)
<1>1. /\ Persisted = {w \in Writers : thread[w] = "done"}
      /\ Persisted' = {w \in Writers : thread'[w] = "done"}
  BY PersistedAreDone, PersistedAreDoneNext DEF DoneArePersisted
<1>2. pc \in [Writers -> {"idle", "waiting", "appending", "returned",
                          "raised", "cancelled", "lost"}]
  BY DEF Inv, TypeOK
<1>3. ASSUME NEW w \in Writers, Write(w)
      PROVE  Contract!Begin(w)
  <2>1. /\ pc[w] = "idle"
        /\ pc' = [pc EXCEPT ![w] = "waiting"] \/ pc' = [pc EXCEPT ![w] = "appending"]
    BY <1>3 DEF Write, Acquired
  <2>2. StateOf[w] = "idle" /\ StateOf' = [StateOf EXCEPT ![w] = "open"]
    BY <1>2, <2>1 DEF StateOf
  <2>3. \A u \in Writers : thread'[u] = "done" <=> thread[u] = "done"
    BY <1>3 DEF Write, Acquired, Inv, TypeOK, TasksInOrder
  <2> QED BY <1>1, <2>2, <2>3 DEF Contract!Begin
<1>4. ASSUME NEW w \in Writers, Grant(w)
      PROVE  UNCHANGED <<StateOf, Persisted>>
  <2>1. 1 \in DOMAIN waiters /\ waiters[1] = w
    BY <1>4, EmptySeq, LenProperties DEF Grant, Inv, TypeOK
  <2>2. pc[w] = "waiting" /\ thread[w] = "none"
    BY <2>1 DEF Inv, QueueInOrder, TasksInOrder
  <2>3. /\ pc' = [pc EXCEPT ![w] = "appending"]
        /\ thread' = [thread EXCEPT ![w] = "queued"]
    BY <1>4 DEF Grant, Acquired
  <2>4. StateOf' = StateOf
    BY <1>2, <2>2, <2>3 DEF StateOf
  <2>5. \A u \in Writers : thread'[u] = "done" <=> thread[u] = "done"
    BY <2>2, <2>3 DEF Inv, TypeOK
  <2> QED BY <1>1, <2>4, <2>5
<1>5. ASSUME NEW w \in Writers, WriteReturns(w)
      PROVE  Contract!Return(w)
  <2>1. StateOf[w] = "open" /\ StateOf' = [StateOf EXCEPT ![w] = "returned"]
    BY <1>2, <1>5 DEF WriteReturns, Leave, StateOf
  <2>2. thread[w] = "done" /\ thread' = thread
    BY <1>5 DEF WriteReturns
  <2> QED BY <1>1, <2>1, <2>2 DEF Contract!Return
<1>6. ASSUME NEW w \in Writers, WriteRaises(w)
      PROVE  Contract!Raise(w)
  <2>1. StateOf[w] = "open" /\ StateOf' = [StateOf EXCEPT ![w] = "raised"]
    BY <1>2, <1>6 DEF WriteRaises, Leave, StateOf
  <2>2. thread' = thread
    BY <1>6 DEF WriteRaises
  <2> QED BY <1>1, <2>1, <2>2 DEF Contract!Raise
<1>7. ASSUME NEW w \in Writers, CancelWaiting(w) \/ CancelAppending(w)
      PROVE  Contract!Cancel(w)
  <2>1. pc[w] \in {"waiting", "appending"} /\ pc' = [pc EXCEPT ![w] = "cancelled"]
    BY <1>7 DEF CancelWaiting, CancelAppending, Leave
  <2>2. StateOf[w] = "open" /\ StateOf' = [StateOf EXCEPT ![w] = "cancelled"]
    BY <1>2, <2>1 DEF StateOf
  <2>3. \A u \in Writers : thread'[u] = "done" <=> thread[u] = "done"
    BY <1>7 DEF CancelWaiting, CancelAppending, Inv, TypeOK
  <2> QED BY <1>1, <2>2, <2>3 DEF Contract!Cancel
<1>8. ASSUME NEW w \in Writers, Appends(w)
      PROVE  Contract!Persist(w) \/ UNCHANGED <<StateOf, Persisted>>
  <2>1. PICK to \in {"open", "written", "failed", "done"} : ThreadMoves(w, to)
    BY <1>8, ThreadStepMoves DEF Inv
  <2>2. /\ thread[w] \in {"queued", "open", "written"}
        /\ thread'[w] = to
        /\ \A u \in Writers \ {w} : thread'[u] = thread[u]
        /\ StateOf' = StateOf
    <3>1. pc' = pc
      BY <2>1 DEF ThreadMoves
    <3> QED BY <2>1, <3>1 DEF ThreadMoves, StateOf, Inv, TypeOK
  <2>3. CASE to = "done"
    <3>1. StateOf[w] # "idle"
      BY <1>2, <2>2 DEF StateOf, Inv, TasksInOrder
    <3>2. w \notin Persisted /\ Persisted' = Persisted \cup {w}
      BY <1>1, <2>2, <2>3
    <3> QED BY <2>2, <3>1, <3>2 DEF Contract!Persist
  <2>4. CASE to # "done"
    <3>1. \A u \in Writers : thread'[u] = "done" <=> thread[u] = "done"
      BY <2>2, <2>4
    <3> QED BY <1>1, <2>2, <3>1
  <2> QED BY <2>3, <2>4
<1>9. ASSUME Crash
      PROVE  Contract!Crash
  <2>1. StateOf' = [w \in Writers |-> IF StateOf[w] = "open" THEN "lost" ELSE StateOf[w]]
    BY <1>2, <1>9 DEF Crash, StateOf
  <2>2. \A u \in Writers : thread'[u] = "done" <=> thread[u] = "done"
    BY <1>9 DEF Crash
  <2> QED BY <1>1, <2>1, <2>2 DEF Contract!Crash
<1>10. ASSUME UNCHANGED vars
       PROVE  UNCHANGED <<StateOf, Persisted>>
  BY <1>1, <1>10 DEF vars, StateOf
<1> QED BY <1>3, <1>4, <1>5, <1>6, <1>7, <1>8, <1>9, <1>10
   DEF Next, Proceeds, Contract!Next, Contract!vars

(* Through cancellations, failures and a restart, a write that returns has *)
(* left the whole of its entry in the file, and nothing takes it back: the *)
(* store is what the engine awaits (core/audit.py, AuditStore.write).      *)
THEOREM StoreImplementsContract == Spec => ImplementsContract
<1>1. Init => Contract!Init
  <2> SUFFICES ASSUME Init PROVE Contract!Init
    OBVIOUS
  <2>1. DOMAIN file = {}
    BY EmptySeq DEF Init
  <2>2. Persisted = {}
    BY <2>1 DEF Persisted, InFile
  <2> QED BY <2>2 DEF Init, StateOf, Contract!Init
<1>2. Inv /\ Inv' /\ [Next]_vars => [Contract!Next]_(Contract!vars)
  BY ContractStep
<1> QED BY <1>1, <1>2, Invariance, PTL
   DEF Spec, ImplementsContract, Contract!Spec
=============================================================================
