---------------------------- MODULE UsageLogWriter ----------------------------
(***************************************************************************)
(* BatchLogWriter: requests put usage rows on a queue, a background task    *)
(* collects them into batches and commits each batch in a session of its   *)
(* own, and the application's shutdown cancels that task and flushes what   *)
(* the queue still holds.                                                   *)
(*                                                                          *)
(* The queue is only touched between awaits, so collecting a batch is one   *)
(* step; the flush is where another task (a put, a stop) can come between.  *)
(* A database failure may leave the batch committed although the writer saw *)
(* an exception.                                                            *)
(***************************************************************************)
EXTENDS Naturals, Sequences, SequencesExt

CONSTANTS Rows,       \* usage rows of the requests
          MaxBatch    \* BatchLogWriter._max_batch

VARIABLES
  queue,     \* self._queue
  batch,     \* the batch the background task is flushing
  last,      \* the batch _flush_all is flushing
  task,      \* the background task: "collecting", "flushing" or "ended"
  stop,      \* stop(): "not called", "cancelling", "flushing" or "returned"
  \* history
  puts,      \* the rows in the order they were put
  commits,   \* the batches in the order they were committed
  failed     \* the rows of flushes that ended in an exception or a cancellation

vars == <<queue, batch, last, task, stop, puts, commits, failed>>

TypeOK ==
  /\ queue \in Seq(Rows) /\ batch \in Seq(Rows) /\ last \in Seq(Rows)
  /\ task \in {"collecting", "flushing", "ended"}
  /\ stop \in {"not called", "cancelling", "flushing", "returned"}
  /\ puts \in Seq(Rows) /\ commits \in Seq(Seq(Rows)) /\ failed \subseteq Rows
  /\ Len(batch) <= MaxBatch

Init ==
  /\ queue = <<>> /\ batch = <<>> /\ last = <<>>
  /\ task = "collecting" /\ stop = "not called"
  /\ puts = <<>> /\ commits = <<>> /\ failed = {}

\* put: the lifespan ends only after the requests, so no row comes after stop.
Put(row) ==
  /\ stop = "not called" /\ row \notin ToSet(puts)
  /\ queue' = Append(queue, row)
  /\ puts' = Append(puts, row)
  /\ UNCHANGED <<batch, last, task, stop, commits, failed>>

\* What _collect_batch takes off a queue, and what it leaves.
Taken(q) == LET k == IF Len(q) < MaxBatch THEN Len(q) ELSE MaxBatch
            IN  [first |-> SubSeq(q, 1, k), rest |-> SubSeq(q, k + 1, Len(q))]

\* _collect_batch: it waits for a first row, then takes what is there.
Collect ==
  /\ task = "collecting" /\ queue # <<>> /\ stop # "cancelling"
  /\ batch' = Taken(queue).first
  /\ queue' = Taken(queue).rest
  /\ task' = "flushing"
  /\ UNCHANGED <<last, stop, puts, commits, failed>>

Committed(rows) == commits' = Append(commits, rows)

\* _flush commits the batch.
Flush ==
  /\ task = "flushing"
  /\ Committed(batch)
  /\ batch' = <<>> /\ task' = "collecting"
  /\ UNCHANGED <<queue, last, stop, puts, failed>>

\* A faulty variant of FlushFails: the batch goes back on the queue.
FlushFailsRequeued ==
  /\ task = "flushing"
  /\ Committed(batch) \/ UNCHANGED commits
  /\ queue' = batch \o queue
  /\ batch' = <<>> /\ task' = "collecting"
  /\ UNCHANGED <<last, stop, puts, failed>>

\* _flush drops the batch on an SQLAlchemyError, _run survives anything else.
FlushFails ==
  /\ task = "flushing"
  /\ Committed(batch) \/ UNCHANGED commits
  /\ failed' = failed \cup ToSet(batch)
  /\ batch' = <<>> /\ task' = "collecting"
  /\ UNCHANGED <<queue, last, stop, puts>>

\* stop() cancels the task and awaits it.
Stop ==
  /\ stop = "not called" /\ stop' = "cancelling"
  /\ UNCHANGED <<queue, batch, last, task, puts, commits, failed>>

\* The CancelledError reaches the task at its await: waiting for a row, nothing
\* is in its hands; flushing, the batch is.  Either way _run breaks.
TaskCancelled ==
  /\ stop = "cancelling" /\ task # "ended"
  /\ task' = "ended" /\ batch' = <<>>
  /\ IF task = "flushing"
     THEN /\ failed' = failed \cup ToSet(batch)
          /\ Committed(batch) \/ UNCHANGED commits
     ELSE UNCHANGED <<failed, commits>>
  /\ UNCHANGED <<queue, last, stop, puts>>

\* _flush_all: everything left, in one batch of any size.
FlushAll ==
  /\ stop = "cancelling" /\ task = "ended"
  /\ last' = queue /\ queue' = <<>>
  /\ stop' = IF queue = <<>> THEN "returned" ELSE "flushing"
  /\ UNCHANGED <<batch, task, puts, commits, failed>>

\* Its flush commits, drops, or raises out of stop().
LastFlush ==
  /\ stop = "flushing" /\ stop' = "returned" /\ last' = <<>>
  /\ \/ Committed(last) /\ UNCHANGED failed
     \/ /\ failed' = failed \cup ToSet(last)
        /\ Committed(last) \/ UNCHANGED commits
  /\ UNCHANGED <<queue, batch, task, puts>>

Task     == Collect \/ Flush \/ FlushFails \/ TaskCancelled
Shutdown == FlushAll \/ LastFlush

Next == (\E row \in Rows : Put(row)) \/ Task \/ Stop \/ Shutdown

\* The event loop runs every task that is not waiting; commits return or fail.
Spec == Init /\ [][Next]_vars /\ WF_vars(Task) /\ WF_vars(Shutdown)

-----------------------------------------------------------------------------
(***************************************************************************)
(* Properties.                                                             *)
(***************************************************************************)

\* The committed rows, in the order of the commits.
Log == FlattenSeq(commits)

\* No row is committed twice: whatever failed, no flush is repeated and the
\* shutdown never flushes rows the background task had in its hands.
CommittedOnce == \A i, j \in DOMAIN Log : Log[i] = Log[j] => i = j

\* A row is missing from the log after stop() only if its own flush failed or
\* was cancelled: the shutdown leaves nothing on the queue.
MissingHasCause ==
  stop = "returned" => \A i \in DOMAIN puts : puts[i] \in ToSet(Log) \cup failed

\* The writer catches up again and again, before and after stop(): every row put
\* is off the queue and out of its hands sooner or later.
CatchesUp == []<>(queue = <<>> /\ batch = <<>> /\ last = <<>>)

=============================================================================
