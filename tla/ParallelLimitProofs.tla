------------------------ MODULE ParallelLimitProofs ------------------------
(***************************************************************************)
(* Proofs about ParallelLimit, for every number of tasks, every set of     *)
(* limits and every set of task values. One lemma per conjunct of IndInv,  *)
(* one step per action under it; the theorems read the properties off      *)
(* IndInv. The refinement of TaskPool follows.                             *)
(***************************************************************************)
EXTENDS ParallelLimit, FiniteSetTheorems, TLAPS

\* Every step keeps the types.
LEMMA TypeStep ==
  ASSUME IndInv, [Next]_vars
  PROVE  TypeOK'
<1>. USE PoolAssumption DEF IndInv, Task, Worker, Message
<1>1. CASE Spawn
  <2>1. spawned + 1 \in 1 .. N
    BY <1>1 DEF Spawn, NumWorkers, TypeOK
  <2>. QED
    BY <1>1, <2>1 DEF Spawn, chans, workers, group, TypeOK
<1>2. CASE Send
  BY <1>2 DEF Send, chans, workers, group, TypeOK
<1>3. CASE CloseTasks
  BY <1>3 DEF CloseTasks, chans, workers, group, TypeOK
<1>4. CASE Receive
  BY <1>4 DEF Receive, chans, workers, group, TypeOK
<1>5. CASE Return
  BY <1>5 DEF Return, chans, workers, group, TypeOK
<1>6. ASSUME NEW w \in Worker, Take(w) PROVE TypeOK'
  BY <1>6 DEF Take, chans, workers, group, TypeOK
<1>7. ASSUME NEW w \in Worker, Drained(w) PROVE TypeOK'
  BY <1>7 DEF Drained, chans, workers, group, TypeOK
<1>8. ASSUME NEW w \in Worker, RunTask(w) PROVE TypeOK'
  BY <1>8 DEF RunTask, chans, workers, group, TypeOK
<1>9. ASSUME NEW w \in Worker, SendResult(w) PROVE TypeOK'
  <2>1. [id |-> wTask[w], r |-> outcome[wTask[w]]] \in Message
    BY <1>9 DEF SendResult, TypeOK, Holding
  <2>. QED
    BY <1>9, <2>1 DEF SendResult, chans, workers, group, TypeOK
<1>10. ASSUME NEW w \in Worker, SeeDone(w) PROVE TypeOK'
  BY <1>10 DEF SeeDone, chans, workers, group, TypeOK
<1>11. ASSUME NEW w \in Worker, RecordError(w) PROVE TypeOK'
  BY <1>11 DEF RecordError, chans, workers, group, TypeOK
<1>12. CASE CloseResults
  BY <1>12 DEF CloseResults, chans, workers, group, TypeOK
<1>13. CASE CallerCancel
  BY <1>13 DEF CallerCancel, chans, workers, group, TypeOK
<1>14. CASE Returned
  BY <1>14 DEF Returned, vars, chans, workers, group, TypeOK
<1>15. CASE UNCHANGED vars
  BY <1>15 DEF vars, chans, workers, group, TypeOK
<1>. QED
  BY <1>1, <1>2, <1>3, <1>4, <1>5, <1>6, <1>7, <1>8, <1>9, <1>10, <1>11, <1>12, <1>13, <1>14, <1>15 DEF Next, MainStep, WorkerStep

\* Every step keeps the order in which main starts, sends and closes.
LEMMA DispatchStep ==
  ASSUME IndInv, [Next]_vars
  PROVE  Dispatch'
<1>. USE PoolAssumption DEF IndInv, Task, Worker
<1>1. CASE Spawn
  BY <1>1 DEF Spawn, chans, workers, group, TypeOK, Dispatch, NumWorkers
<1>2. CASE Send
  BY <1>2 DEF Send, chans, workers, group, TypeOK, Dispatch, NumWorkers
<1>3. CASE CloseTasks
  BY <1>3 DEF CloseTasks, chans, workers, group, TypeOK, Dispatch, NumWorkers
<1>4. CASE Receive
  BY <1>4 DEF Receive, chans, workers, group, TypeOK, Dispatch, NumWorkers
<1>5. CASE Return
  BY <1>5 DEF Return, chans, workers, group, TypeOK, Dispatch, NumWorkers
<1>6. ASSUME NEW w \in Worker, Take(w) PROVE Dispatch'
  BY <1>6 DEF Take, chans, workers, group, TypeOK, Dispatch, NumWorkers
<1>7. ASSUME NEW w \in Worker, Drained(w) PROVE Dispatch'
  BY <1>7 DEF Drained, chans, workers, group, TypeOK, Dispatch, NumWorkers
<1>8. ASSUME NEW w \in Worker, RunTask(w) PROVE Dispatch'
  BY <1>8 DEF RunTask, chans, workers, group, TypeOK, Dispatch, NumWorkers
<1>9. ASSUME NEW w \in Worker, SendResult(w) PROVE Dispatch'
  BY <1>9 DEF SendResult, chans, workers, group, TypeOK, Dispatch, NumWorkers
<1>10. ASSUME NEW w \in Worker, SeeDone(w) PROVE Dispatch'
  BY <1>10 DEF SeeDone, chans, workers, group, TypeOK, Dispatch, NumWorkers
<1>11. ASSUME NEW w \in Worker, RecordError(w) PROVE Dispatch'
  BY <1>11 DEF RecordError, chans, workers, group, TypeOK, Dispatch, NumWorkers
<1>12. CASE CloseResults
  BY <1>12 DEF CloseResults, chans, workers, group, TypeOK, Dispatch, NumWorkers
<1>13. CASE CallerCancel
  BY <1>13 DEF CallerCancel, chans, workers, group, TypeOK, Dispatch, NumWorkers
<1>14. CASE Returned
  BY <1>14 DEF Returned, vars, chans, workers, group, TypeOK, Dispatch, NumWorkers
<1>15. CASE UNCHANGED vars
  BY <1>15 DEF vars, chans, workers, group, TypeOK, Dispatch, NumWorkers
<1>. QED
  BY <1>1, <1>2, <1>3, <1>4, <1>5, <1>6, <1>7, <1>8, <1>9, <1>10, <1>11, <1>12, <1>13, <1>14, <1>15 DEF Next, MainStep, WorkerStep

\* Every step keeps each worker's task its own.
LEMMA HoldingStep ==
  ASSUME IndInv, [Next]_vars
  PROVE  Holding'
<1>. USE PoolAssumption DEF IndInv, Task, Worker, Message
<1>1. CASE Spawn
  BY <1>1 DEF Spawn, chans, workers, group, TypeOK, Holding, Busy, NoTaskLost
<1>2. CASE Send
  BY <1>2 DEF Send, chans, workers, group, TypeOK, Holding, Busy, NoTaskLost
<1>3. CASE CloseTasks
  BY <1>3 DEF CloseTasks, chans, workers, group, TypeOK, Holding, Busy, NoTaskLost
<1>4. CASE Receive
  BY <1>4 DEF Receive, chans, workers, group, TypeOK, Holding, Busy, NoTaskLost
<1>5. CASE Return
  BY <1>5 DEF Return, chans, workers, group, TypeOK, Holding, Busy, NoTaskLost
<1>6. ASSUME NEW w \in Worker, Take(w) PROVE Holding'
  <2>1. /\ taken < sent /\ taken' = taken + 1 /\ taken \in Task
        /\ wTask' = [wTask EXCEPT ![w] = taken]
        /\ wPc' = [wPc EXCEPT ![w] = "run"]
        /\ UNCHANGED outcome
    BY <1>6 DEF Take, TypeOK, workers
  <2>2. outcome[taken] = Nil
    <3>1. taken >= taken
      BY <2>1 DEF TypeOK
    <3>2. \A t \in Task : t >= taken => outcome[t] = Nil
      BY DEF NoTaskLost
    <3>. QED
      BY <2>1, <3>1, <3>2
  <2>3. \A v \in Worker : Busy(v) => wTask[v] < taken
    BY DEF Holding
  <2>4. \A v \in Worker \ {w} : wPc'[v] = wPc[v] /\ wTask'[v] = wTask[v]
    BY <2>1 DEF TypeOK
  <2>5. wPc'[w] = "run" /\ wTask'[w] = taken
    BY <2>1 DEF TypeOK
  <2>6. ASSUME NEW u \in Worker, Busy(u)'
        PROVE  wTask'[u] < taken' /\ \A v \in Worker \ {u} : Busy(v)' => wTask'[v] # wTask'[u]
    BY <2>1, <2>3, <2>4, <2>5, <2>6 DEF Holding, Busy, TypeOK
  <2>7. ASSUME NEW u \in Worker
        PROVE  /\ wPc'[u] = "run" => outcome'[wTask'[u]] = Nil
               /\ wPc'[u] \in {"select", "errCtx"} => outcome'[wTask'[u]] \in Values
               /\ wPc'[u] = "errTask" => outcome'[wTask'[u]] = Failed
    BY <2>1, <2>2, <2>4, <2>5 DEF Holding
  <2>. QED
    BY <2>6, <2>7 DEF Holding
<1>7. ASSUME NEW w \in Worker, Drained(w) PROVE Holding'
  BY <1>7 DEF Drained, chans, workers, group, TypeOK, Holding, Busy, NoTaskLost
<1>8. ASSUME NEW w \in Worker, RunTask(w) PROVE Holding'
  BY <1>8 DEF RunTask, chans, workers, group, TypeOK, Holding, Busy, NoTaskLost
<1>9. ASSUME NEW w \in Worker, SendResult(w) PROVE Holding'
  BY <1>9 DEF SendResult, chans, workers, group, TypeOK, Holding, Busy, NoTaskLost
<1>10. ASSUME NEW w \in Worker, SeeDone(w) PROVE Holding'
  BY <1>10 DEF SeeDone, chans, workers, group, TypeOK, Holding, Busy, NoTaskLost
<1>11. ASSUME NEW w \in Worker, RecordError(w) PROVE Holding'
  BY <1>11 DEF RecordError, chans, workers, group, TypeOK, Holding, Busy, NoTaskLost
<1>12. CASE CloseResults
  BY <1>12 DEF CloseResults, chans, workers, group, TypeOK, Holding, Busy, NoTaskLost
<1>13. CASE CallerCancel
  BY <1>13 DEF CallerCancel, chans, workers, group, TypeOK, Holding, Busy, NoTaskLost
<1>14. CASE Returned
  BY <1>14 DEF Returned, vars, chans, workers, group, TypeOK, Holding, Busy, NoTaskLost
<1>15. CASE UNCHANGED vars
  BY <1>15 DEF vars, chans, workers, group, TypeOK, Holding, Busy, NoTaskLost
<1>. QED
  BY <1>1, <1>2, <1>3, <1>4, <1>5, <1>6, <1>7, <1>8, <1>9, <1>10, <1>11, <1>12, <1>13, <1>14, <1>15 DEF Next, MainStep, WorkerStep

\* No step loses a task, a failure or a result.
LEMMA NoTaskLostStep ==
  ASSUME IndInv, [Next]_vars
  PROVE  NoTaskLost'
<1>. USE PoolAssumption DEF IndInv, Task, Worker, Message
<1>1. CASE Spawn
  <2>1. spawned + 1 \in Worker /\ wPc[spawned + 1] = "none"
    BY <1>1 DEF Spawn, NumWorkers, TypeOK, Dispatch
  <2>2. \A v \in Worker : wPc[v] # "none" => wPc'[v] = wPc[v]
    BY <1>1, <2>1 DEF Spawn, TypeOK
  <2>3. UNCHANGED <<taken, resultsChan, wTask, gErr, results, outcome>>
    BY <1>1 DEF Spawn, chans, group
  <2>4. ASSUME NEW t \in Task
        PROVE  /\ t >= taken => outcome[t] = Nil
               /\ t < taken /\ outcome[t] = Nil =>
                    \E v \in Worker : wPc'[v] = "run" /\ wTask[v] = t
               /\ outcome[t] = Failed =>
                    gErr # "nil" \/ \E v \in Worker : wPc'[v] = "errTask" /\ wTask[v] = t
               /\ outcome[t] \in Values =>
                    \/ gErr # "nil"
                    \/ results[t] = outcome[t]
                    \/ [id |-> t, r |-> outcome[t]] \in resultsChan
                    \/ \E v \in Worker : wPc'[v] \in {"select", "errCtx"} /\ wTask[v] = t
    BY <2>2 DEF NoTaskLost
  <2>. QED
    BY <2>3, <2>4 DEF NoTaskLost
<1>2. CASE Send
  BY <1>2 DEF Send, chans, workers, group, TypeOK, NoTaskLost, Holding, Busy, Ending
<1>3. CASE CloseTasks
  BY <1>3 DEF CloseTasks, chans, workers, group, TypeOK, NoTaskLost, Holding, Busy, Ending
<1>4. CASE Receive
  BY <1>4 DEF Receive, chans, workers, group, TypeOK, NoTaskLost, Holding, Busy, Ending
<1>5. CASE Return
  BY <1>5 DEF Return, chans, workers, group, TypeOK, NoTaskLost, Holding, Busy, Ending
<1>6. ASSUME NEW w \in Worker, Take(w) PROVE NoTaskLost'
  <2>1. /\ wPc[w] = "take" /\ taken < sent /\ taken' = taken + 1
        /\ wTask' = [wTask EXCEPT ![w] = taken]
        /\ wPc' = [wPc EXCEPT ![w] = "run"]
        /\ UNCHANGED <<outcome, gErr, results, resultsChan>>
    BY <1>6 DEF Take, group
  <2>2. \A v \in Worker \ {w} : wPc'[v] = wPc[v] /\ wTask'[v] = wTask[v]
    BY <2>1 DEF TypeOK
  <2>3. wPc'[w] = "run" /\ wTask'[w] = taken
    BY <2>1 DEF TypeOK
  <2>4. ASSUME NEW t \in Task
        PROVE  /\ t >= taken' => outcome'[t] = Nil
               /\ t < taken' /\ outcome'[t] = Nil =>
                    \E v \in Worker : wPc'[v] = "run" /\ wTask'[v] = t
    <3>1. t >= taken' => outcome'[t] = Nil
      <4>1. t >= taken => outcome[t] = Nil
        BY DEF NoTaskLost
      <4>. QED
        BY <2>1, <4>1 DEF TypeOK
    <3>2. CASE t = taken
      BY <2>3, <3>1, <3>2
    <3>3. CASE t < taken /\ outcome[t] = Nil
      <4>1. PICK v \in Worker : wPc[v] = "run" /\ wTask[v] = t
        BY <3>3 DEF NoTaskLost
      <4>2. v # w
        BY <2>1, <4>1
      <4>. QED
        BY <2>2, <3>1, <4>1, <4>2
    <3>. QED
      BY <2>1, <3>1, <3>2, <3>3 DEF TypeOK
  <2>5. ASSUME NEW t \in Task
        PROVE  /\ outcome'[t] = Failed =>
                    gErr' # "nil" \/ \E v \in Worker : wPc'[v] = "errTask" /\ wTask'[v] = t
               /\ outcome'[t] \in Values =>
                    \/ gErr' # "nil"
                    \/ results'[t] = outcome'[t]
                    \/ [id |-> t, r |-> outcome'[t]] \in resultsChan'
                    \/ \E v \in Worker : wPc'[v] \in {"select", "errCtx"} /\ wTask'[v] = t
    BY <2>1, <2>2 DEF NoTaskLost
  <2>. QED
    BY <2>4, <2>5 DEF NoTaskLost
<1>7. ASSUME NEW w \in Worker, Drained(w) PROVE NoTaskLost'
  BY <1>7 DEF Drained, chans, workers, group, TypeOK, NoTaskLost, Holding, Busy, Ending
<1>8. ASSUME NEW w \in Worker, RunTask(w) PROVE NoTaskLost'
  BY <1>8 DEF RunTask, chans, workers, group, TypeOK, NoTaskLost, Holding, Busy, Ending
<1>9. ASSUME NEW w \in Worker, SendResult(w) PROVE NoTaskLost'
  BY <1>9 DEF SendResult, chans, workers, group, TypeOK, NoTaskLost, Holding, Busy, Ending
<1>10. ASSUME NEW w \in Worker, SeeDone(w) PROVE NoTaskLost'
  BY <1>10 DEF SeeDone, chans, workers, group, TypeOK, NoTaskLost, Holding, Busy, Ending
<1>11. ASSUME NEW w \in Worker, RecordError(w) PROVE NoTaskLost'
  BY <1>11 DEF RecordError, chans, workers, group, TypeOK, NoTaskLost, Holding, Busy, Ending
<1>12. CASE CloseResults
  BY <1>12 DEF CloseResults, chans, workers, group, TypeOK, NoTaskLost, Holding, Busy, Ending
<1>13. CASE CallerCancel
  BY <1>13 DEF CallerCancel, chans, workers, group, TypeOK, NoTaskLost, Holding, Busy, Ending
<1>14. CASE Returned
  BY <1>14 DEF Returned, vars, chans, workers, group, TypeOK, NoTaskLost, Holding, Busy, Ending
<1>15. CASE UNCHANGED vars
  BY <1>15 DEF vars, chans, workers, group, TypeOK, NoTaskLost, Holding, Busy, Ending
<1>. QED
  BY <1>1, <1>2, <1>3, <1>4, <1>5, <1>6, <1>7, <1>8, <1>9, <1>10, <1>11, <1>12, <1>13, <1>14, <1>15 DEF Next, MainStep, WorkerStep

\* Every error and every cancellation keeps its cause.
LEMMA CausesStep ==
  ASSUME IndInv, [Next]_vars
  PROVE  Causes'
<1>. USE PoolAssumption DEF IndInv, Task, Worker
<1>1. CASE Spawn
  BY <1>1 DEF Spawn, chans, workers, group, TypeOK, Causes, Holding
<1>2. CASE Send
  BY <1>2 DEF Send, chans, workers, group, TypeOK, Causes, Holding
<1>3. CASE CloseTasks
  BY <1>3 DEF CloseTasks, chans, workers, group, TypeOK, Causes, Holding
<1>4. CASE Receive
  BY <1>4 DEF Receive, chans, workers, group, TypeOK, Causes, Holding
<1>5. CASE Return
  BY <1>5 DEF Return, chans, workers, group, TypeOK, Causes, Holding
<1>6. ASSUME NEW w \in Worker, Take(w) PROVE Causes'
  BY <1>6 DEF Take, chans, workers, group, TypeOK, Causes, Holding
<1>7. ASSUME NEW w \in Worker, Drained(w) PROVE Causes'
  BY <1>7 DEF Drained, chans, workers, group, TypeOK, Causes, Holding
<1>8. ASSUME NEW w \in Worker, RunTask(w) PROVE Causes'
  BY <1>8 DEF RunTask, chans, workers, group, TypeOK, Causes, Holding
<1>9. ASSUME NEW w \in Worker, SendResult(w) PROVE Causes'
  BY <1>9 DEF SendResult, chans, workers, group, TypeOK, Causes, Holding
<1>10. ASSUME NEW w \in Worker, SeeDone(w) PROVE Causes'
  BY <1>10 DEF SeeDone, chans, workers, group, TypeOK, Causes, Ending
<1>11. ASSUME NEW w \in Worker, RecordError(w) PROVE Causes'
  BY <1>11 DEF RecordError, chans, workers, group, TypeOK, Causes, Holding
<1>12. CASE CloseResults
  BY <1>12 DEF CloseResults, chans, workers, group, TypeOK, Causes, Holding
<1>13. CASE CallerCancel
  BY <1>13 DEF CallerCancel, chans, workers, group, TypeOK, Causes, Holding
<1>14. CASE Returned
  BY <1>14 DEF Returned, vars, chans, workers, group, TypeOK, Causes, Holding
<1>15. CASE UNCHANGED vars
  BY <1>15 DEF vars, chans, workers, group, TypeOK, Causes, Holding
<1>. QED
  BY <1>1, <1>2, <1>3, <1>4, <1>5, <1>6, <1>7, <1>8, <1>9, <1>10, <1>11, <1>12, <1>13, <1>14, <1>15 DEF Next, MainStep, WorkerStep

\* A worker, a channel or a call that has ended stays ended.
LEMMA EndingStep ==
  ASSUME IndInv, [Next]_vars
  PROVE  Ending'
<1>. USE PoolAssumption DEF IndInv, Task, Worker, Message
<1>1. CASE Spawn
  BY <1>1 DEF Spawn, chans, workers, group, TypeOK, Ending, Dispatch, Holding, NoTaskLost
<1>2. CASE Send
  BY <1>2 DEF Send, chans, workers, group, TypeOK, Ending, Dispatch, Holding, NoTaskLost
<1>3. CASE CloseTasks
  BY <1>3 DEF CloseTasks, chans, workers, group, TypeOK, Ending, Dispatch, Holding, NoTaskLost
<1>4. CASE Receive
  BY <1>4 DEF Receive, chans, workers, group, TypeOK, Ending, Dispatch, Holding, NoTaskLost
<1>5. CASE Return
  BY <1>5 DEF Return, chans, workers, group, TypeOK, Ending, Dispatch, Holding, NoTaskLost
<1>6. ASSUME NEW w \in Worker, Take(w) PROVE Ending'
  BY <1>6 DEF Take, chans, workers, group, TypeOK, Ending, Dispatch, Holding, NoTaskLost
<1>7. ASSUME NEW w \in Worker, Drained(w) PROVE Ending'
  BY <1>7 DEF Drained, chans, workers, group, TypeOK, Ending, Dispatch, Holding, NoTaskLost
<1>8. ASSUME NEW w \in Worker, RunTask(w) PROVE Ending'
  BY <1>8 DEF RunTask, chans, workers, group, TypeOK, Ending, Dispatch, Holding, NoTaskLost
<1>9. ASSUME NEW w \in Worker, SendResult(w) PROVE Ending'
  BY <1>9 DEF SendResult, chans, workers, group, TypeOK, Ending, Dispatch, Holding, NoTaskLost
<1>10. ASSUME NEW w \in Worker, SeeDone(w) PROVE Ending'
  BY <1>10 DEF SeeDone, chans, workers, group, TypeOK, Ending, Dispatch, Holding, NoTaskLost
<1>11. ASSUME NEW w \in Worker, RecordError(w) PROVE Ending'
  BY <1>11 DEF RecordError, chans, workers, group, TypeOK, Ending, Dispatch, Holding, NoTaskLost
<1>12. CASE CloseResults
  BY <1>12 DEF CloseResults, chans, workers, group, TypeOK, Ending, Dispatch, Holding, NoTaskLost
<1>13. CASE CallerCancel
  BY <1>13 DEF CallerCancel, chans, workers, group, TypeOK, Ending, Dispatch, Holding, NoTaskLost
<1>14. CASE Returned
  BY <1>14 DEF Returned, vars, chans, workers, group, TypeOK, Ending, Dispatch, Holding, NoTaskLost
<1>15. CASE UNCHANGED vars
  BY <1>15 DEF vars, chans, workers, group, TypeOK, Ending, Dispatch, Holding, NoTaskLost
<1>. QED
  BY <1>1, <1>2, <1>3, <1>4, <1>5, <1>6, <1>7, <1>8, <1>9, <1>10, <1>11, <1>12, <1>13, <1>14, <1>15 DEF Next, MainStep, WorkerStep

\* Every step of the pool, and a stutter, keeps IndInv.
LEMMA IndInvStep == IndInv /\ [Next]_vars => IndInv'
  BY TypeStep, DispatchStep, HoldingStep, NoTaskLostStep, CausesStep, EndingStep
     DEF IndInv

\* IndInv is an inductive invariant of the pool.
THEOREM IndInvInvariant == Spec => []IndInv
<1>1. ASSUME Init
      PROVE  IndInv
  <2>. USE <1>1, PoolAssumption DEF Init, Task, Worker
  <2>1. TypeOK
    <3>1. \A w \in Worker : 0 \in Task
      OBVIOUS
    <3>2. wTask \in [Worker -> Task]
      BY <3>1
    <3>3. limit \in Limits /\ resultsChan \subseteq Message
      OBVIOUS
    <3>4. spawned \in 0 .. N /\ sent \in 0 .. N /\ taken \in 0 .. sent
      OBVIOUS
    <3>5. /\ wPc \in [Worker -> {"none", "take", "run", "select", "errTask", "errCtx", "exit"}]
          /\ results \in [Task -> Values \cup {Nil}]
          /\ outcome \in [Task -> Values \cup {Failed, Nil}]
      OBVIOUS
    <3>. QED
      BY <3>2, <3>3, <3>4, <3>5 DEF TypeOK
  <2>2. Dispatch
    BY DEF Dispatch, NumWorkers
  <2>3. Holding
    BY DEF Holding, Busy
  <2>5. NoTaskLost
    <3>1. \A t \in Task : outcome[t] = Nil /\ Nil # Failed /\ Nil \notin Values
      OBVIOUS
    <3>2. \A t \in Task : ~(t < taken)
      OBVIOUS
    <3>. QED
      BY <3>1, <3>2 DEF NoTaskLost
  <2>4. Causes /\ Ending
    BY DEF Causes, Ending
  <2>. QED
    BY <2>1, <2>2, <2>3, <2>4, <2>5 DEF IndInv
<1>. QED
  BY <1>1, IndInvStep, PTL DEF Spec

\* Type correctness of the pool.
THEOREM TypeCorrect == Spec => []TypeOK
<1>1. IndInv => TypeOK
  BY DEF IndInv
<1>. QED
  BY <1>1, IndInvInvariant, PTL

\* When the results are collected without an error every task has delivered.
LEMMA CollectedAll ==
  ASSUME IndInv, resultsClosed, resultsChan = {}, gErr = "nil", limit > 0,
         NEW t \in Task
  PROVE  outcome[t] \in Values /\ results[t] = outcome[t]
<1>. USE PoolAssumption DEF IndInv
<1>1. closed /\ \A w \in Worker : wPc[w] \in {"none", "exit"}
  BY DEF Ending
<1>2. 1 \in Worker /\ spawned >= 1
  BY <1>1 DEF Dispatch, NumWorkers, Task, Worker, TypeOK
<1>3. wPc[1] = "exit"
  BY <1>1, <1>2 DEF Dispatch, TypeOK
<1>4. taken = N
  BY <1>1, <1>2, <1>3 DEF Ending, Dispatch
<1>5. outcome[t] # Nil /\ outcome[t] # Failed
  BY <1>1, <1>4 DEF NoTaskLost, Task
<1>6. outcome[t] \in Values
  BY <1>5 DEF TypeOK
<1>. QED
  BY <1>1, <1>6 DEF NoTaskLost

\* With a positive limit, a nil error means that every task has run without
\* error and that the result at its index is its own (concurrency.go:64-72).
THEOREM ResultsCompleteCorrect == Spec => []ResultsComplete
<1>1. IndInv => ResultsComplete
  BY CollectedAll DEF IndInv, Ending, TypeOK, ResultsComplete
<1>. QED
  BY <1>1, IndInvInvariant, PTL

\* The error returned is that of a failed task, or the caller cancelled
\* (errgroup keeps the error that came first, concurrency.go:69).
THEOREM ErrorHasCauseCorrect == Spec => []ErrorHasCause
<1>1. IndInv => ErrorHasCause
  BY DEF IndInv, Causes, Ending, ErrorHasCause, TypeOK
<1>. QED
  BY <1>1, IndInvInvariant, PTL

\* No task is held by two workers or run again (concurrency.go:32-33).
THEOREM RunsOnceCorrect == Spec => []RunsOnce
<1>1. IndInv => RunsOnce
  BY DEF IndInv, Holding, Busy, RunsOnce
<1>. QED
  BY <1>1, IndInvInvariant, PTL

-----------------------------------------------------------------------------

(***************************************************************************)
(* ParallelLimit implements TaskPool (its safety part): the initial states *)
(* map to initial states and every step to a step of the pool or to a      *)
(* stutter. Only Take, RunTask, Return and CallerCancel are visible.       *)
(***************************************************************************)

Running == {wTask[w] : w \in {v \in Worker : wPc[v] = "run"}}

Value == IF ret = "ok" THEN results ELSE [t \in Task |-> Nil]

\* The instance has its own copy of the library's Cardinality.
LEMMA SameCardinality == \A S : Pool!Cardinality(S) = Cardinality(S)
  BY DEF Pool!Cardinality, Cardinality

\* A worker that is about to take a task finds a free slot in the abstract
\* pool: at most spawned - 1 <= limit - 1 others are running.
LEMMA FreeSlot ==
  ASSUME IndInv, NEW w \in Worker, wPc[w] = "take"
  PROVE  Cardinality(Running) < limit
<1>. USE PoolAssumption DEF IndInv
<1>. DEFINE R == {v \in Worker : wPc[v] = "run"}
            f == [v \in R |-> wTask[v]]
<1>1. spawned \in Nat /\ limit \in Int /\ spawned <= limit
  <2>1. spawned \in Nat /\ limit \in Int /\ spawned <= NumWorkers
    BY DEF TypeOK, Dispatch
  <2>2. spawned >= 1
    BY <2>1 DEF Dispatch, Worker
  <2>. QED
    BY <2>1, <2>2 DEF NumWorkers
<1>2. w \in 1 .. spawned /\ R \subseteq (1 .. spawned) \ {w}
  BY <1>1 DEF Dispatch, Worker
<1>3. /\ IsFiniteSet((1 .. spawned) \ {w})
      /\ Cardinality((1 .. spawned) \ {w}) = spawned - 1
  <2>1. IsFiniteSet(1 .. spawned) /\ Cardinality(1 .. spawned) = spawned
    BY <1>1, <1>2, FS_Interval
  <2>. QED
    BY <1>2, <2>1, FS_RemoveElement
<1>4. IsFiniteSet(R) /\ Cardinality(R) <= spawned - 1
  BY <1>2, <1>3, FS_Subset
<1>5. f \in Surjection(R, Running)
  BY DEF Surjection, Running
<1>6. IsFiniteSet(Running) /\ Cardinality(Running) <= Cardinality(R)
  BY <1>4, <1>5, FS_Surjection
<1>7. Cardinality(Running) \in Nat /\ Cardinality(R) \in Nat
  BY <1>4, <1>6, FS_CardinalityType
<1>. QED
  BY <1>1, <1>4, <1>6, <1>7

\* Steps that change neither who runs what nor the answer are stutters.
LEMMA Invisible ==
  ASSUME \A w \in Worker : wPc'[w] = "run" <=> wPc[w] = "run",
         \A w \in Worker : wPc[w] = "run" => wTask'[w] = wTask[w],
         ret = ret', ret = "none" \/ results' = results,
         UNCHANGED <<limit, outcome, callerCancelled>>
  PROVE  UNCHANGED Pool!vars
<1>1. Running' = Running
  BY DEF Running
<1>2. Value' = Value
  BY DEF Value
<1>. QED
  BY <1>1, <1>2 DEF Running, Value, Pool!vars

\* Receiving a task from tasksChan starts it in the abstract pool.
LEMMA TakeStarts ==
  ASSUME IndInv, NEW w \in Worker, Take(w)
  PROVE  Pool!Next
<1>. USE PoolAssumption DEF IndInv
<1>1. /\ wPc[w] = "take" /\ taken < sent /\ taken \in Task
      /\ wTask' = [wTask EXCEPT ![w] = taken]
      /\ wPc' = [wPc EXCEPT ![w] = "run"]
      /\ UNCHANGED <<limit, outcome, callerCancelled, ret, results>>
  BY DEF Take, TypeOK, Task
<1>2. Cardinality(Running) < limit
  BY <1>1, FreeSlot
<1>3. ret = "none"
  BY <1>1 DEF Ending
<1>4. outcome[taken] = Nil
  <2>1. taken >= taken
    BY DEF TypeOK
  <2>2. \A t \in Task : t >= taken => outcome[t] = Nil
    BY DEF NoTaskLost
  <2>. QED
    BY <1>1, <2>1, <2>2
<1>5. taken \notin Running
  <2>1. \A v \in Worker : wPc[v] = "run" => wTask[v] < taken /\ wTask[v] \in Int
    BY DEF Holding, Busy, TypeOK, Task
  <2>. QED
    BY <2>1 DEF Running, TypeOK
<1>6. Running' = Running \cup {taken}
  <2>1. wPc'[w] = "run" /\ wTask'[w] = taken
    BY <1>1 DEF TypeOK
  <2>2. \A v \in Worker \ {w} : wPc'[v] = wPc[v] /\ wTask'[v] = wTask[v]
    BY <1>1 DEF TypeOK
  <2>. QED
    BY <1>1, <2>1, <2>2 DEF Running
<1>7. Value' = Value
  BY <1>1 DEF Value
<1>8. Pool!Start(taken)
  BY <1>1, <1>2, <1>3, <1>4, <1>5, <1>6, <1>7, SameCardinality
     DEF Pool!Start, Running, Value
<1>9. PICK t \in Pool!Task : t = taken
  BY <1>1 DEF Pool!Task, Task
<1>10. Pool!Start(t)
  BY <1>8, <1>9 DEF Pool!Start
<1>. QED
  BY <1>10 DEF Pool!Next, Pool!Progress

\* The end of t.t() finishes the task in the abstract pool.
LEMMA RunFinishes ==
  ASSUME IndInv, NEW w \in Worker, RunTask(w)
  PROVE  Pool!Next
<1>. USE PoolAssumption DEF IndInv
<1>0. PICK t \in Task : t = wTask[w]
  BY DEF RunTask, TypeOK
<1>1. PICK o \in Values \cup {Failed} :
        /\ outcome' = [outcome EXCEPT ![t] = o]
        /\ wPc' = [wPc EXCEPT ![w] = IF o = Failed THEN "errTask" ELSE "select"]
  BY <1>0 DEF RunTask
<1>2. /\ wPc[w] = "run"
      /\ UNCHANGED <<limit, wTask, callerCancelled, ret, results>>
  BY DEF RunTask
<1>3. t \in Running
  BY <1>0, <1>2 DEF Running
<1>4. Running' = Running \ {t}
  <2>1. wPc'[w] # "run"
    BY <1>1 DEF TypeOK
  <2>2. \A v \in Worker \ {w} : wPc'[v] = wPc[v]
    BY <1>1 DEF TypeOK
  <2>3. \A v \in Worker \ {w} : wPc[v] = "run" => wTask[v] # t
    BY <1>0, <1>2 DEF Holding, Busy
  <2>. QED
    BY <1>0, <1>2, <2>1, <2>2, <2>3 DEF Running
<1>5. Value' = Value
  BY <1>2 DEF Value
<1>6. Pool!Finish(t)
  BY <1>1, <1>2, <1>3, <1>4, <1>5 DEF Pool!Finish, Running, Value
<1>7. t \in Pool!Task
  BY DEF Pool!Task, Task
<1>. QED
  BY <1>6, <1>7 DEF Pool!Next, Pool!Progress

\* The return of the call is an abstract return, with results or an error.
LEMMA ReturnReturns ==
  ASSUME IndInv, Return
  PROVE  Pool!Next
<1>. USE PoolAssumption DEF IndInv
<1>1. /\ ret = "none" /\ resultsClosed /\ resultsChan = {}
      /\ ret' = IF gErr = "nil" THEN "ok" ELSE gErr
      /\ UNCHANGED <<limit, callerCancelled, wPc, wTask, results, outcome>>
  BY DEF Return, workers
<1>2. Running = {} /\ Running' = {}
  BY <1>1 DEF Running, Ending
<1>3. CASE gErr = "nil"
  <2>1. ret' = "ok" /\ Value' = results
    BY <1>1, <1>3 DEF Value
  <2>2. limit > 0 => \A t \in Task : outcome[t] \in Values /\ results[t] = outcome[t]
    BY <1>1, <1>3, CollectedAll
  <2>3. results = outcome
    <3>1. CASE limit > 0
      BY <2>2, <3>1 DEF TypeOK
    <3>2. CASE ~(limit > 0)
      <4>1. taken = 0
        BY <3>2 DEF Dispatch, NumWorkers, TypeOK
      <4>2. \A t \in Task : outcome[t] = Nil
        <5>1. \A t \in Task : t >= taken => outcome[t] = Nil
          BY DEF NoTaskLost
        <5>. QED
          BY <4>1, <5>1 DEF Task
      <4>. QED
        BY <4>2 DEF Ending, TypeOK
    <3>. QED
      BY <3>1, <3>2
  <2>4. Pool!ReturnResults
    BY <1>1, <1>2, <2>1, <2>2, <2>3 DEF Pool!ReturnResults, Running, Value, Pool!Task, Task
  <2>. QED
    BY <2>4 DEF Pool!Next, Pool!Progress
<1>4. CASE gErr # "nil"
  <2>1. ret' \in {"task", "ctx"} /\ ret' = gErr /\ Value' = Value
    BY <1>1, <1>4 DEF Value, TypeOK
  <2>2. Pool!ReturnError
    BY <1>1, <1>2, <2>1 DEF Pool!ReturnError, Causes, Running, Value, Pool!Task, Task
  <2>. QED
    BY <2>2 DEF Pool!Next, Pool!Progress
<1>. QED
  BY <1>3, <1>4

\* A cancellation by the caller is one of the abstract pool.
LEMMA CancelCancels ==
  ASSUME CallerCancel
  PROVE  Pool!Next
<1>1. Running' = Running /\ Value' = Value
  BY DEF CallerCancel, workers, Running, Value
<1>. QED
  BY <1>1 DEF CallerCancel, Running, Value, Pool!Cancel, Pool!Next

\* The pool of goroutines implements the pool of tasks: never more than
\* `limit` tasks at a time, none twice, and a return that tells the truth.
THEOREM ImplementsPool == Spec => Pool!Init /\ [][Pool!Next]_(Pool!vars)
<1>1. Init => Pool!Init
  <2>. SUFFICES ASSUME Init
                PROVE  Pool!Init
    OBVIOUS
  <2>1. Running = {} /\ Value = [t \in Task |-> Nil]
    BY DEF Init, Running, Value
  <2>. QED
    BY <2>1 DEF Init, Pool!Init, Running, Value, Pool!Task, Task
<1>2. IndInv /\ [Next]_vars => [Pool!Next]_(Pool!vars)
  <2>. SUFFICES ASSUME IndInv, [Next]_vars
                PROVE  Pool!Next \/ UNCHANGED Pool!vars
    OBVIOUS
  <2>. USE DEF IndInv, TypeOK
  <2>1. CASE Spawn
    <3>1. spawned + 1 \in Worker /\ wPc[spawned + 1] = "none"
      BY <2>1, PoolAssumption DEF Spawn, NumWorkers, Dispatch, Worker
    <3>. QED
      BY <2>1, <3>1, Invisible DEF Spawn
  <2>2. CASE Send
    BY <2>2, Invisible DEF Send, workers
  <2>3. CASE CloseTasks
    BY <2>3, Invisible DEF CloseTasks, workers
  <2>4. CASE Receive
    BY <2>4, Invisible DEF Receive, workers
  <2>5. CASE Return
    BY <2>5, ReturnReturns
  <2>6. ASSUME NEW w \in Worker, Take(w) PROVE Pool!Next
    BY <2>6, TakeStarts
  <2>7. ASSUME NEW w \in Worker, Drained(w) PROVE UNCHANGED Pool!vars
    BY <2>7, Invisible DEF Drained
  <2>8. ASSUME NEW w \in Worker, RunTask(w) PROVE Pool!Next
    BY <2>8, RunFinishes
  <2>9. ASSUME NEW w \in Worker, SendResult(w) PROVE UNCHANGED Pool!vars
    BY <2>9, Invisible DEF SendResult
  <2>10. ASSUME NEW w \in Worker, SeeDone(w) PROVE UNCHANGED Pool!vars
    BY <2>10, Invisible DEF SeeDone
  <2>11. ASSUME NEW w \in Worker, RecordError(w) PROVE UNCHANGED Pool!vars
    BY <2>11, Invisible DEF RecordError
  <2>12. CASE CloseResults
    BY <2>12, Invisible DEF CloseResults, workers
  <2>13. CASE CallerCancel
    BY <2>13, CancelCancels
  <2>14. CASE Returned
    BY <2>14, Invisible DEF Returned, vars, workers
  <2>15. CASE UNCHANGED vars
    BY <2>15, Invisible DEF vars, workers
  <2>. QED
    BY <2>1, <2>2, <2>3, <2>4, <2>5, <2>6, <2>7, <2>8, <2>9, <2>10, <2>11,
       <2>12, <2>13, <2>14, <2>15 DEF Next, MainStep, WorkerStep
<1>. QED
  BY <1>1, <1>2, IndInvInvariant, PTL DEF Spec

=============================================================================
