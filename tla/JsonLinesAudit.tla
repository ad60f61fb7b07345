--------------------------- MODULE JsonLinesAudit ---------------------------
(***************************************************************************)
(* audit/jsonlines.py: one JsonLinesAuditStore, the tasks that await its   *)
(* write, the asyncio.Lock it holds across asyncio.to_thread, the worker   *)
(* threads that append, and the file.                                      *)
(*                                                                         *)
(* The file is the sequence of what reached it, one element per os.write.  *)
(* An entry shorter than the stream's buffer reaches it at close, line and *)
(* newline in one piece; a longer one is flushed when it is written, and   *)
(* its newline follows at close.                                           *)
(***************************************************************************)
EXTENDS Naturals, Sequences, SequencesExt

CONSTANTS
  Writers,     \* tasks, each of which writes one entry
  Long,        \* the writers whose entry exceeds the stream's buffer
  MayCancel,   \* TRUE: tasks may be cancelled while they write
  MayFail,     \* TRUE: opening or writing the file may raise OSError
  MayCrash,    \* TRUE: the process may die once and be started again
  None

ASSUME JsonLinesAssumption ==
  /\ Long \subseteq Writers
  /\ {MayCancel, MayFail, MayCrash} \subseteq BOOLEAN
  /\ None \notin Writers

VARIABLES
  pc,        \* per task: idle, waiting, appending, returned, raised,
             \* cancelled, lost
  holder,    \* the task that holds _lock, or None
  waiters,   \* the tasks waiting for _lock, first come first
  thread,    \* per task: how far its call of _append_sync is
  file,      \* the pieces in the file
  arrivals,  \* the tasks in the order they called write
  crashed    \* the process has died and was started again

vars == <<pc, holder, waiters, thread, file, arrivals, crashed>>

Piece(w, kind) == [by |-> w, kind |-> kind]

Init ==
  /\ pc = [w \in Writers |-> "idle"]
  /\ holder = None
  /\ waiters = <<>>
  /\ thread = [w \in Writers |-> "none"]
  /\ file = <<>>
  /\ arrivals = <<>>
  /\ crashed = FALSE

-----------------------------------------------------------------------------
(* The task.                                                               *)

(* Having the lock, the task hands _append_sync to the thread pool.        *)
Acquired(w) ==
  /\ holder' = w
  /\ thread' = [thread EXCEPT ![w] = "queued"]
  /\ pc' = [pc EXCEPT ![w] = "appending"]

(* Slip: write does not take the lock.                                     *)
WriteUnlocked(w) ==
  /\ pc[w] = "idle"
  /\ arrivals' = Append(arrivals, w)
  /\ Acquired(w)
  /\ UNCHANGED <<waiters, file, crashed>>

(* Slip: a lock that a newcomer may take before those who wait for it.     *)
WriteBarging(w) ==
  /\ pc[w] = "idle"
  /\ arrivals' = Append(arrivals, w)
  /\ IF holder = None
     THEN /\ Acquired(w)
          /\ UNCHANGED waiters
     ELSE /\ pc' = [pc EXCEPT ![w] = "waiting"]
          /\ waiters' = Append(waiters, w)
          /\ UNCHANGED <<holder, thread>>
  /\ UNCHANGED <<file, crashed>>

(* asyncio.Lock lets nobody overtake a waiter.                             *)
Write(w) ==
  /\ pc[w] = "idle"
  /\ arrivals' = Append(arrivals, w)
  /\ IF holder = None /\ waiters = <<>>
     THEN /\ Acquired(w)
          /\ UNCHANGED waiters
     ELSE /\ pc' = [pc EXCEPT ![w] = "waiting"]
          /\ waiters' = Append(waiters, w)
          /\ UNCHANGED <<holder, thread>>
  /\ UNCHANGED <<file, crashed>>

Grant(w) ==
  /\ holder = None
  /\ waiters # <<>>
  /\ w = Head(waiters)
  /\ Acquired(w)
  /\ waiters' = Tail(waiters)
  /\ UNCHANGED <<file, arrivals, crashed>>

Leave(w, how) ==
  /\ pc[w] = "appending"
  /\ holder' = None
  /\ pc' = [pc EXCEPT ![w] = how]
  /\ UNCHANGED <<waiters, file, arrivals, crashed>>

(* Slip: the thread is started and not awaited.                            *)
WriteReturnsEarly(w) ==
  /\ thread[w] \in {"queued", "open", "written", "done"}
  /\ Leave(w, "returned")
  /\ UNCHANGED thread

WriteReturns(w) ==
  /\ thread[w] = "done"
  /\ Leave(w, "returned")
  /\ UNCHANGED thread

WriteRaises(w) ==
  /\ thread[w] = "failed"
  /\ Leave(w, "raised")
  /\ UNCHANGED thread

(* _waiters.remove of asyncio.Lock: the first of its kind.                 *)
Dequeued(queue, w) == RemoveAt(queue, CHOOSE i \in DOMAIN queue : queue[i] = w)

CancelWaiting(w) ==
  /\ MayCancel
  /\ pc[w] = "waiting"
  /\ waiters' = Dequeued(waiters, w)
  /\ pc' = [pc EXCEPT ![w] = "cancelled"]
  /\ UNCHANGED <<holder, thread, file, arrivals, crashed>>

(* Slip: acquire() and release() without a finally.                        *)
CancelAppendingLocked(w) ==
  /\ MayCancel
  /\ pc[w] = "appending"
  /\ pc' = [pc EXCEPT ![w] = "cancelled"]
  /\ thread' = [thread EXCEPT ![w] = IF @ = "queued" THEN "withdrawn" ELSE @]
  /\ UNCHANGED <<holder, waiters, file, arrivals, crashed>>

(* Cancelling the await withdraws a job that has not started; one that has *)
(* goes on without the lock.                                               *)
CancelAppending(w) ==
  /\ MayCancel
  /\ Leave(w, "cancelled")
  /\ thread' = [thread EXCEPT ![w] = IF @ = "queued" THEN "withdrawn" ELSE @]

-----------------------------------------------------------------------------
(* The thread: _append_sync.                                               *)

ThreadStep(w, from, to, pieces) ==
  /\ thread[w] = from
  /\ thread' = [thread EXCEPT ![w] = to]
  /\ file' = file \o pieces
  /\ UNCHANGED <<pc, holder, waiters, arrivals, crashed>>

Open(w) == ThreadStep(w, "queued", "open", <<>>)

(* fh.write(line): into the buffer, or through it to the file.             *)
WriteLine(w) ==
  ThreadStep(w, "open", "written",
             IF w \in Long THEN <<Piece(w, "body")>> ELSE <<>>)

(* fh.write("\n") and the flush of close().                                *)
Close(w) ==
  ThreadStep(w, "written", "done",
             <<Piece(w, IF w \in Long THEN "newline" ELSE "line")>>)

(* OSError, with part of the pending bytes written or none.                *)
ThreadFails(w) ==
  /\ MayFail
  /\ \/ ThreadStep(w, "queued", "failed", <<>>)
     \/ ThreadStep(w, "open", "failed", <<>>)
     \/ ThreadStep(w, "written", "failed", <<>>)
     \/ ThreadStep(w, IF w \in Long THEN "open" ELSE "written", "failed",
                   <<Piece(w, "part")>>)

-----------------------------------------------------------------------------
(* The process dies and a new one opens a store on the same path.          *)
Crash ==
  /\ MayCrash
  /\ ~crashed
  /\ crashed' = TRUE
  /\ pc' = [w \in Writers |->
       IF pc[w] \in {"waiting", "appending"} THEN "lost" ELSE pc[w]]
  /\ thread' = [w \in Writers |->
       IF thread[w] \in {"queued", "open", "written"} THEN "dead" ELSE thread[w]]
  /\ holder' = None
  /\ waiters' = <<>>
  /\ UNCHANGED <<file, arrivals>>

Appends(w) == Open(w) \/ WriteLine(w) \/ Close(w) \/ ThreadFails(w)

Proceeds(w) == Grant(w) \/ WriteReturns(w) \/ WriteRaises(w)

Next ==
  \/ \E w \in Writers :
       Write(w) \/ Proceeds(w) \/ Appends(w)
         \/ CancelWaiting(w) \/ CancelAppending(w)
  \/ Crash

(* The pool runs the jobs it was given, the loop the tasks it woke.        *)
Fairness == \A w \in Writers : WF_vars(Appends(w)) /\ WF_vars(Proceeds(w))

Spec == Init /\ [][Next]_vars /\ Fairness

-----------------------------------------------------------------------------
(* What the store promises.                                                *)

TypeOK ==
  /\ pc \in [Writers -> {"idle", "waiting", "appending", "returned",
                         "raised", "cancelled", "lost"}]
  /\ holder \in Writers \cup {None}
  /\ waiters \in Seq(Writers)
  /\ thread \in [Writers -> {"none", "queued", "open", "written", "done",
                             "failed", "withdrawn", "dead"}]
  /\ file \in Seq([by : Writers, kind : {"body", "newline", "line", "part"}])
  /\ arrivals \in Seq(Writers)
  /\ crashed \in BOOLEAN

LineStarts(i) == i = 1 \/ file[i - 1].kind \in {"newline", "line"}

(* What tears a line, and nothing else does: a write that failed in its    *)
(* midst; of a long entry also its task's cancellation or the death of the *)
(* process, or the thread of a cancelled task that still writes.  And a    *)
(* newline parted from its line is that of a cancelled write, or one came  *)
(* between.                                                                *)
OnlyTroubleTearsLines ==
  /\ \A i \in 1 .. Len(file) - 1 :
       LET w == file[i].by
           v == file[i + 1].by
       IN w # v /\ ~LineStarts(i + 1) =>
            \/ thread[w] = "failed"
            \/ w \in Long /\ (thread[w] = "dead" \/ "cancelled" \in {pc[w], pc[v]})
  /\ \A i \in 2 .. Len(file) :
       file[i].kind = "newline" /\ file[i].by # file[i - 1].by =>
         "cancelled" \in {pc[file[i].by], pc[file[i - 1].by]}

Arrived(w, v) ==
  \E m, n \in DOMAIN arrivals : m <= n /\ arrivals[m] = w /\ arrivals[n] = v

(* Whatever precedes the line of a write nobody cancelled was called for    *)
(* before it, failures, a crash and the cancellation of others              *)
(* notwithstanding: tasks queue for the lock, and the lock is held until    *)
(* the thread has closed the file.                                          *)
FileInCallOrder ==
  \A i, j \in DOMAIN file :
    i < j /\ pc[file[j].by] # "cancelled" => Arrived(file[i].by, file[j].by)

(* The lock is released on every way out of write, and handed on: every    *)
(* write ends.                                                             *)
EveryWriteEnds ==
  \A w \in Writers :
    pc[w] # "idle" ~> pc[w] \in {"returned", "raised", "cancelled", "lost"}

(* The store is an AuditStore as the engine relies on it, through          *)
(* cancellation, failures and a restart: a write that returns has left all *)
(* of its entry in the file, and nothing takes it back.  That the entry is *)
(* a line of its own is not in the contract: see OneObjectPerLine.         *)
StateOf ==
  [w \in Writers |-> IF pc[w] \in {"waiting", "appending"} THEN "open" ELSE pc[w]]

InFile(w, kind) == \E i \in DOMAIN file : file[i] = Piece(w, kind)

Persisted ==
  {w \in Writers : InFile(w, "line") \/ (InFile(w, "body") /\ InFile(w, "newline"))}

Contract == INSTANCE AuditStoreContract WITH
  Writes <- Writers, state <- StateOf, persisted <- Persisted

ImplementsContract == Contract!Spec

-----------------------------------------------------------------------------
(* A statement of the repository that the code does not keep.              *)

(* "One JSON object per line" (audit/jsonlines.py:15), here where no write *)
(* fails and no process dies: no two entries share a line and none is      *)
(* blank; only the last may be waiting for its newline.  A cancelled write *)
(* releases the lock at once while its thread goes on                      *)
(* (audit/jsonlines.py:69-70), and the next one's line may land between    *)
(* the body of a long entry and its newline.                               *)
OneObjectPerLine ==
  \A i \in DOMAIN file :
    /\ file[i].kind \in {"line", "body"} => LineStarts(i)
    /\ file[i].kind = "newline" => i > 1 /\ file[i - 1] = Piece(file[i].by, "body")
=============================================================================
