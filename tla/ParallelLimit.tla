--------------------------- MODULE ParallelLimit ---------------------------
(***************************************************************************)
(* pkg/utils/concurrency.go: ParallelLimit runs N tasks on                 *)
(* Min(limit, N) goroutines of an errgroup. The caller's goroutine ("main")*)
(* starts the workers, sends every task to tasksChan and closes it, then   *)
(* collects resultsChan, which a further goroutine closes when g.Wait      *)
(* returns.                                                                *)
(*                                                                         *)
(* tasksChan is FIFO and holds the task ids taken .. sent-1. The order in  *)
(* which results arrive is not observable (main files each message under   *)
(* its id), so resultsChan is a set of messages.                           *)
(***************************************************************************)
EXTENDS Integers, FiniteSets

CONSTANTS N, Limits, Values, Failed, Nil

ASSUME PoolAssumption ==
  /\ N \in Nat
  /\ Limits \subseteq Int
  /\ Nil \notin Values
  /\ Failed \notin Values \cup {Nil}

Task == 0 .. N - 1
Worker == 1 .. N

VARIABLES
  limit,            \* argument of the call
  callerCancelled,  \* the caller's context is done
  spawned,          \* goroutines started by g.Go
  sent, closed,     \* tasks sent to tasksChan; tasksChan is closed
  taken,            \* tasks received from tasksChan
  wPc, wTask,       \* where each worker is, and its task
  cancelled,        \* the errgroup's derived context is done
  gErr,             \* g.err: "nil", a "task" error or "ctx" (ctx.Err())
  resultsChan, resultsClosed,
  results,          \* main's slice
  ret,              \* "none" while the call runs, then how it returned
  outcome           \* history: what each task has returned

chans == <<sent, closed, taken, resultsChan, resultsClosed>>
workers == <<wPc, wTask>>
group == <<cancelled, gErr>>
vars == <<limit, callerCancelled, spawned, chans, workers, group, results,
          ret, outcome>>

Message == [id : Task, r : Values]

TypeOK ==
  /\ limit \in Limits
  /\ callerCancelled \in BOOLEAN
  /\ spawned \in 0 .. N
  /\ sent \in 0 .. N
  /\ closed \in BOOLEAN
  /\ taken \in 0 .. sent
  /\ wPc \in [Worker -> {"none", "take", "run", "select", "errTask", "errCtx", "exit"}]
  /\ wTask \in [Worker -> Task]
  /\ cancelled \in BOOLEAN
  /\ gErr \in {"nil", "task", "ctx"}
  /\ resultsChan \subseteq Message
  /\ resultsClosed \in BOOLEAN
  /\ results \in [Task -> Values \cup {Nil}]
  /\ ret \in {"none", "ok", "task", "ctx"}
  /\ outcome \in [Task -> Values \cup {Failed, Nil}]

\* Mutant of NumWorkers: a worker per task.
WorkerPerTask == IF limit <= 0 THEN 0 ELSE N

\* Workers to start: none when the limit is zero or negative.
NumWorkers == IF limit < 0 THEN 0 ELSE IF limit < N THEN limit ELSE N

\* Mutant of Capacity: one slot per worker.
SlotPerWorker == NumWorkers

\* The buffer of both channels.
Capacity == N

Init ==
  /\ limit \in Limits
  /\ callerCancelled = FALSE
  /\ spawned = 0
  /\ sent = 0 /\ closed = FALSE /\ taken = 0
  /\ wPc = [w \in Worker |-> "none"]
  /\ wTask = [w \in Worker |-> 0]
  /\ cancelled = FALSE /\ gErr = "nil"
  /\ resultsChan = {} /\ resultsClosed = FALSE
  /\ results = [t \in Task |-> Nil]
  /\ ret = "none"
  /\ outcome = [t \in Task |-> Nil]

-----------------------------------------------------------------------------
(* The caller's goroutine. *)

Spawn ==
  /\ spawned < NumWorkers
  /\ spawned' = spawned + 1
  /\ wPc' = [wPc EXCEPT ![spawned + 1] = "take"]
  /\ UNCHANGED <<limit, callerCancelled, chans, wTask, group, results, ret, outcome>>

Send ==
  /\ spawned = NumWorkers
  /\ sent < N
  /\ sent - taken < Capacity
  /\ sent' = sent + 1
  /\ UNCHANGED <<limit, callerCancelled, spawned, closed, taken, resultsChan,
                 resultsClosed, workers, group, results, ret, outcome>>

\* close(tasksChan); the goroutine that closes resultsChan starts right after.
CloseTasks ==
  /\ spawned = NumWorkers
  /\ sent = N
  /\ ~closed
  /\ closed' = TRUE
  /\ UNCHANGED <<limit, callerCancelled, spawned, sent, taken, resultsChan,
                 resultsClosed, workers, group, results, ret, outcome>>

Receive ==
  /\ closed
  /\ ret = "none"
  /\ \E m \in resultsChan :
       /\ resultsChan' = resultsChan \ {m}
       /\ results' = [results EXCEPT ![m.id] = m.r]
  /\ UNCHANGED <<limit, callerCancelled, spawned, sent, closed, taken,
                 resultsClosed, workers, group, ret, outcome>>

\* The range over resultsChan has ended and the second g.Wait returns: every
\* worker is done, and the call answers with the error that was kept.
Return ==
  /\ ret = "none"
  /\ resultsClosed
  /\ resultsChan = {}
  /\ \A w \in Worker : wPc[w] \in {"none", "exit"}
  /\ ret' = IF gErr = "nil" THEN "ok" ELSE gErr
  /\ UNCHANGED <<limit, callerCancelled, spawned, chans, workers, group,
                 results, outcome>>

-----------------------------------------------------------------------------
(* A worker goroutine. *)

Take(w) ==
  /\ wPc[w] = "take"
  /\ taken < sent
  /\ taken' = taken + 1
  /\ wTask' = [wTask EXCEPT ![w] = taken]
  /\ wPc' = [wPc EXCEPT ![w] = "run"]
  /\ UNCHANGED <<limit, callerCancelled, spawned, sent, closed, resultsChan,
                 resultsClosed, group, results, ret, outcome>>

\* The range loop ends: tasksChan is closed and drained.
Drained(w) ==
  /\ wPc[w] = "take"
  /\ closed
  /\ taken = sent
  /\ wPc' = [wPc EXCEPT ![w] = "exit"]
  /\ UNCHANGED <<limit, callerCancelled, spawned, chans, wTask, group,
                 results, ret, outcome>>

\* t.t() returns, with a value or with an error.
RunTask(w) ==
  /\ wPc[w] = "run"
  /\ \E o \in Values \cup {Failed} :
       /\ outcome' = [outcome EXCEPT ![wTask[w]] = o]
       /\ wPc' = [wPc EXCEPT ![w] = IF o = Failed THEN "errTask" ELSE "select"]
  /\ UNCHANGED <<limit, callerCancelled, spawned, chans, wTask, group,
                 results, ret>>

\* The select: when both cases are ready Go picks either.
SendResult(w) ==
  /\ wPc[w] = "select"
  /\ Cardinality(resultsChan) < Capacity
  /\ resultsChan' = resultsChan \cup {[id |-> wTask[w], r |-> outcome[wTask[w]]]}
  /\ wPc' = [wPc EXCEPT ![w] = "take"]
  /\ UNCHANGED <<limit, callerCancelled, spawned, sent, closed, taken,
                 resultsClosed, wTask, group, results, ret, outcome>>

\* Mutant of SeeDone: the worker returns nil.
SeeDoneNil(w) ==
  /\ wPc[w] = "select"
  /\ cancelled
  /\ wPc' = [wPc EXCEPT ![w] = "exit"]
  /\ UNCHANGED <<limit, callerCancelled, spawned, chans, wTask, group,
                 results, ret, outcome>>

\* Mutant of SeeDone: the select does not wait for the context.
SeeDoneEarly(w) ==
  /\ wPc[w] = "select"
  /\ wPc' = [wPc EXCEPT ![w] = "errCtx"]
  /\ UNCHANGED <<limit, callerCancelled, spawned, chans, wTask, group,
                 results, ret, outcome>>

SeeDone(w) ==
  /\ wPc[w] = "select"
  /\ cancelled
  /\ wPc' = [wPc EXCEPT ![w] = "errCtx"]
  /\ UNCHANGED <<limit, callerCancelled, spawned, chans, wTask, group,
                 results, ret, outcome>>

\* errgroup: the first error is kept and cancels the derived context.
RecordError(w) ==
  /\ wPc[w] \in {"errTask", "errCtx"}
  /\ gErr' = IF gErr # "nil" THEN gErr
             ELSE IF wPc[w] = "errTask" THEN "task" ELSE "ctx"
  /\ cancelled' = TRUE
  /\ wPc' = [wPc EXCEPT ![w] = "exit"]
  /\ UNCHANGED <<limit, callerCancelled, spawned, chans, wTask, results, ret,
                 outcome>>

-----------------------------------------------------------------------------
\* The closer: g.Wait returns (it cancels the context) and resultsChan is closed.
CloseResults ==
  /\ closed
  /\ ~resultsClosed
  /\ \A w \in Worker : wPc[w] \in {"none", "exit"}
  /\ cancelled' = TRUE
  /\ resultsClosed' = TRUE
  /\ UNCHANGED <<limit, callerCancelled, spawned, sent, closed, taken,
                 resultsChan, workers, gErr, results, ret, outcome>>

\* The caller cancels the context it passed; the derived one is done as well.
CallerCancel ==
  /\ ~callerCancelled
  /\ ret = "none"
  /\ callerCancelled' = TRUE
  /\ cancelled' = TRUE
  /\ UNCHANGED <<limit, spawned, chans, workers, gErr, results, ret, outcome>>

WorkerStep(w) ==
  Take(w) \/ Drained(w) \/ RunTask(w) \/ SendResult(w) \/ SeeDone(w) \/ RecordError(w)

MainStep == Spawn \/ Send \/ CloseTasks \/ Receive \/ Return

\* The call is over; nothing is left to run.
Returned == ret # "none" /\ UNCHANGED vars

Next ==
  \/ MainStep
  \/ \E w \in Worker : WorkerStep(w)
  \/ CloseResults
  \/ CallerCancel
  \/ Returned

\* The Go scheduler runs every goroutine that can move, and tasks return.
Fairness ==
  /\ WF_vars(MainStep)
  /\ WF_vars(CloseResults)
  /\ \A w \in Worker : WF_vars(WorkerStep(w))

Spec == Init /\ [][Next]_vars /\ Fairness

-----------------------------------------------------------------------------
(* Properties. *)

\* With workers, a nil error means that every task has run without error and
\* that results[i] is the value of task i: no failure is swallowed, no result
\* is dropped by the select or filed under another task.
ResultsComplete ==
  ret = "ok" /\ limit > 0 =>
    \A t \in Task : outcome[t] \in Values /\ results[t] = outcome[t]

\* The error the call returns is the error of a task that failed, and it is
\* "context canceled" only if the caller cancelled: a worker that sees the
\* derived context done never masks the error that ended it.
ErrorHasCause ==
  /\ ret = "task" => \E t \in Task : outcome[t] = Failed
  /\ ret = "ctx" => callerCancelled

\* A task is handed to one worker only and is not run a second time.
RunsOnce ==
  \A w \in Worker : wPc[w] = "run" =>
    /\ outcome[wTask[w]] = Nil
    /\ \A v \in Worker \ {w} : wPc[v] = "run" => wTask[v] # wTask[w]

\* The call returns, whatever fails and whenever the context is cancelled:
\* main never blocks on a channel that no worker serves any more.
Returns == <>(ret # "none")

\* ParallelLimit implements the pool it promises.
Pool == INSTANCE TaskPool WITH
  running <- {wTask[w] : w \in {v \in Worker : wPc[v] = "run"}},
  cancelled <- callerCancelled,
  value <- IF ret = "ok" THEN results ELSE [t \in Task |-> Nil]

PoolSpec == Pool!Spec

-----------------------------------------------------------------------------
(* The inductive invariant behind the safety properties. *)

Busy(w) == wPc[w] \in {"run", "select", "errTask", "errCtx"}

\* Workers start in order; nothing is sent before all of them are started.
Dispatch ==
  /\ spawned <= NumWorkers
  /\ \A w \in Worker : wPc[w] = "none" <=> w > spawned
  /\ sent > 0 \/ closed => spawned = NumWorkers
  /\ closed => sent = N
  /\ spawned = 0 => taken = 0

\* Each worker's task is its own, and the task's outcome agrees with wPc.
Holding ==
  \A w \in Worker :
    /\ Busy(w) => /\ wTask[w] < taken
                  /\ \A v \in Worker \ {w} : Busy(v) => wTask[v] # wTask[w]
    /\ wPc[w] = "run" => outcome[wTask[w]] = Nil
    /\ wPc[w] \in {"select", "errCtx"} => outcome[wTask[w]] \in Values
    /\ wPc[w] = "errTask" => outcome[wTask[w]] = Failed

\* No task is lost: it waits in the channel, is run, or has left its trace.
NoTaskLost ==
  \A t \in Task :
    /\ t >= taken => outcome[t] = Nil
    /\ t < taken /\ outcome[t] = Nil => \E w \in Worker : wPc[w] = "run" /\ wTask[w] = t
    /\ outcome[t] = Failed =>
         gErr # "nil" \/ \E w \in Worker : wPc[w] = "errTask" /\ wTask[w] = t
    /\ outcome[t] \in Values =>
         \/ gErr # "nil"
         \/ results[t] = outcome[t]
         \/ [id |-> t, r |-> outcome[t]] \in resultsChan
         \/ \E w \in Worker : wPc[w] \in {"select", "errCtx"} /\ wTask[w] = t

\* Where errors and cancellation come from.
Causes ==
  /\ cancelled /\ gErr = "nil" => callerCancelled \/ resultsClosed
  /\ \A w \in Worker : wPc[w] = "errCtx" => callerCancelled \/ gErr # "nil"
  /\ gErr = "task" => \E t \in Task : outcome[t] = Failed
  /\ gErr = "ctx" => callerCancelled

\* What has ended stays ended, and for the right reason.
Ending ==
  /\ \A w \in Worker : wPc[w] = "exit" /\ gErr = "nil" => closed /\ taken = sent
  /\ \A m \in resultsChan : outcome[m.id] = m.r
  /\ \A t \in Task : results[t] \in {Nil, outcome[t]}
  /\ resultsClosed => closed /\ \A w \in Worker : wPc[w] \in {"none", "exit"}
  /\ ret # "none" => /\ resultsClosed
                     /\ resultsChan = {}
                     /\ ret = IF gErr = "nil" THEN "ok" ELSE gErr

IndInv == TypeOK /\ Dispatch /\ Holding /\ NoTaskLost /\ Causes /\ Ending
=============================================================================
