------------------------------ MODULE TaskPool ------------------------------
(***************************************************************************)
(* What utils.ParallelLimit promises its five callers, without goroutines  *)
(* and channels: tasks run at most `limit` at a time, each at most once,   *)
(* and the call returns once, when nothing runs any more, either with the  *)
(* value of every task or with an error that really happened.              *)
(***************************************************************************)
EXTENDS Integers, FiniteSets

CONSTANTS
  N,        \* number of tasks handed to the call
  Limits,   \* concurrency limits a caller may pass
  Values,   \* what a task may return with a nil error
  Failed,   \* a task returned an error
  Nil       \* no value yet, the zero TaskResult

Task == 0 .. N - 1

VARIABLES
  limit,       \* the limit of this call
  running,     \* tasks being executed
  outcome,     \* what each task has returned so far
  cancelled,   \* has the caller cancelled its context?
  ret,         \* how the call has returned
  value        \* the results it has returned, by task

vars == <<limit, running, outcome, cancelled, ret, value>>

TypeOK ==
  /\ limit \in Limits
  /\ running \subseteq Task
  /\ outcome \in [Task -> Values \cup {Failed, Nil}]
  /\ cancelled \in BOOLEAN
  /\ ret \in {"none", "ok", "task", "ctx"}
  /\ value \in [Task -> Values \cup {Nil}]

Init ==
  /\ limit \in Limits
  /\ running = {}
  /\ outcome = [t \in Task |-> Nil]
  /\ cancelled = FALSE
  /\ ret = "none"
  /\ value = [t \in Task |-> Nil]

Start(t) ==
  /\ ret = "none"
  /\ outcome[t] = Nil
  /\ t \notin running
  /\ Cardinality(running) < limit
  /\ running' = running \cup {t}
  /\ UNCHANGED <<limit, outcome, cancelled, ret, value>>

Finish(t) ==
  /\ t \in running
  /\ running' = running \ {t}
  /\ \E o \in Values \cup {Failed} : outcome' = [outcome EXCEPT ![t] = o]
  /\ UNCHANGED <<limit, cancelled, ret, value>>

Cancel ==
  /\ ~cancelled
  /\ cancelled' = TRUE
  /\ UNCHANGED <<limit, running, outcome, ret, value>>

\* A call without workers (limit <= 0) runs nothing and returns blank results.
ReturnResults ==
  /\ ret = "none"
  /\ running = {}
  /\ limit > 0 => \A t \in Task : outcome[t] \in Values
  /\ ret' = "ok"
  /\ value' = outcome
  /\ UNCHANGED <<limit, running, outcome, cancelled>>

ReturnError ==
  /\ ret = "none"
  /\ running = {}
  /\ \/ ret' = "task" /\ \E t \in Task : outcome[t] = Failed
     \/ ret' = "ctx" /\ cancelled
  /\ UNCHANGED <<limit, running, outcome, cancelled, value>>

Progress ==
  \/ \E t \in Task : Start(t) \/ Finish(t)
  \/ ReturnResults
  \/ ReturnError

Next == Progress \/ Cancel

Spec == Init /\ [][Next]_vars /\ WF_vars(Progress)

=============================================================================
