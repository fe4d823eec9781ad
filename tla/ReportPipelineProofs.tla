------------------------ MODULE ReportPipelineProofs ------------------------
(***************************************************************************)
(* Proofs about ReportPipeline, for every set of reports, jobs and entries *)
(* of the cleanup configuration, any number of jobs per system, and every  *)
(* number of faults. First what the helpers of the actions do, then one    *)
(* lemma per conjunct of IndInv with one step per action; the theorems     *)
(* read the properties off IndInv.                                         *)
(***************************************************************************)
EXTENDS ReportPipeline, FiniteSetTheorems, TLAPS

\* Goto moves one task and no other.
LEMMA GotoEffect ==
  ASSUME TypeOK, NEW j \in Jobs, NEW o \in Reports, NEW s \in TaskState,
         Goto(j, o, s)
  PROVE  /\ task' \in [Jobs -> [Reports -> TaskState]]
         /\ task'[j][o] = s
         /\ \A i \in Jobs, p \in Reports :
              i # j \/ p # o => task'[i][p] = task[i][p]
<1>. DEFINE row == [task[j] EXCEPT ![o] = s]
<1>1. task' = [task EXCEPT ![j] = row]
  BY DEF Goto
<1>2. task[j] \in [Reports -> TaskState]
  BY DEF TypeOK
<1>3. row \in [Reports -> TaskState] /\ row[o] = s /\ \A p \in Reports \ {o} : row[p] = task[j][p]
  BY <1>2
<1>4. task \in [Jobs -> [Reports -> TaskState]]
  BY DEF TypeOK
<1>. HIDE DEF row
<1>. QED
  BY <1>1, <1>3, <1>4

\* A task of a running job that succeeds or fails stays a task of that job.
LEMMA OutcomeEffect ==
  ASSUME TypeOK, TasksJustified, NEW j \in Jobs, NEW o \in Reports,
         NEW s \in TaskState, task[j][o] # "none",
         Succeed(j, o, s) \/ Fail(j, o)
  PROVE  /\ running' = running /\ j \in running /\ failed' \subseteq running
         /\ task' \in [Jobs -> [Reports -> TaskState]]
         /\ task'[j][o] \in {s, "done"}
         /\ \A i \in Jobs, p \in Reports :
              i # j \/ p # o => task'[i][p] = task[i][p]
<1>1. j \in running
  BY DEF TasksJustified
<1>2. running' = running /\ failed' \subseteq running
  BY <1>1 DEF Succeed, Fail, TypeOK
<1>3. CASE Succeed(j, o, s)
  BY <1>1, <1>2, <1>3, GotoEffect DEF Succeed
<1>4. CASE Fail(j, o)
  <2>1. "done" \in TaskState
    BY DEF TaskState
  <2>. QED
    BY <1>1, <1>2, <1>4, <2>1, GotoEffect DEF Fail
<1>. QED
  BY <1>3, <1>4

\* A task that fails is done.
LEMMA FailDone ==
  ASSUME TypeOK, NEW j \in Jobs, NEW o \in Reports, Fail(j, o)
  PROVE  task'[j][o] = "done"
<1>1. "done" \in TaskState
  BY DEF TaskState
<1>. QED
  BY <1>1, GotoEffect DEF Fail

\* A process that ends leaves nothing behind.
LEMMA StopEffect ==
  ASSUME TypeOK, NEW j \in Jobs, Stop(j)
  PROVE  /\ running' = running \ {j} /\ failed' = failed \ {j}
         /\ task' \in [Jobs -> [Reports -> TaskState]]
         /\ seen' \in [Jobs -> [Reports -> SUBSET Systems]]
         /\ \A p \in Reports : task'[j][p] = "none" /\ seen'[j][p] = {}
         /\ \A i \in Jobs \ {j} : task'[i] = task[i] /\ seen'[i] = seen[i]
<1>1. [o \in Reports |-> "none"] \in [Reports -> TaskState]
  BY DEF TaskState
<1>2. [o \in Reports |-> {}] \in [Reports -> SUBSET Systems]
  OBVIOUS
<1>. QED
  BY <1>1, <1>2 DEF Stop, TypeOK

\* An import is counted and recorded for the one report.
LEMMA CountEffect ==
  ASSUME TypeOK, NEW k \in Systems, NEW o \in Reports, CountImport(k, o)
  PROVE  /\ imported' \in [Systems -> [Reports -> 0 .. 3]]
         /\ handled' \in [Reports -> SUBSET Systems]
         /\ k \in handled'[o]
         /\ \A p \in Reports : handled[p] \subseteq handled'[p]
<1>1. imported[k] \in [Reports -> 0 .. 3] /\ imported[k][o] \in 0 .. 3
  BY DEF TypeOK
<1>2. PICK n \in 0 .. 3 : imported' = [imported EXCEPT ![k][o] = n]
  <2>. DEFINE m == IF imported[k][o] < 3 THEN imported[k][o] + 1 ELSE 3
  <2>1. m \in 0 .. 3
    BY <1>1
  <2>2. imported' = [imported EXCEPT ![k][o] = m]
    BY Zenon DEF CountImport
  <2>. HIDE DEF m
  <2>. QED
    BY <2>1, <2>2
<1>3. [imported[k] EXCEPT ![o] = n] \in [Reports -> 0 .. 3]
  BY <1>1
<1>4. imported' = [imported EXCEPT ![k] = [imported[k] EXCEPT ![o] = n]]
  BY <1>2
<1>5. imported' \in [Systems -> [Reports -> 0 .. 3]]
  BY <1>3, <1>4 DEF TypeOK
<1>6. handled' = [handled EXCEPT ![o] = handled[o] \cup {k}]
  BY DEF CountImport
<1>. QED
  BY <1>5, <1>6 DEF TypeOK

\* What a system has imported or skipped it never unlearns.
LEMMA HandledGrows ==
  ASSUME TypeOK, [Next]_vars
  PROVE  \A p \in Reports : handled[p] \subseteq handled'[p]
<1>. USE PipelineAssumption DEF bucket, jobs, remote, cleaner
<1>1. ASSUME NEW j \in Jobs, NEW o \in Reports, Import(j, o)
      PROVE  \A p \in Reports : handled[p] \subseteq handled'[p]
  <2>1. System[j] \in Systems
    OBVIOUS
  <2>2. CASE CountImport(System[j], o)
    BY <2>1, <2>2, CountEffect
  <2>3. CASE handled' = [handled EXCEPT ![o] = @ \cup {System[j]}]
    BY <2>3 DEF TypeOK
  <2>4. CASE UNCHANGED remote
    BY <2>4
  <2>. QED
    BY <1>1, <2>2, <2>3, <2>4 DEF Import
<1>2. ASSUME NEW j \in Jobs, NEW o \in Reports, PollPanic(j, o)
      PROVE  \A p \in Reports : handled[p] \subseteq handled'[p]
  <2>1. "polarion" \in Systems
    BY DEF Systems
  <2>. QED
    BY <1>2, <2>1, CountEffect DEF PollPanic
<1>3. ASSUME NEW j \in Jobs, NEW o \in Reports, ReadTags(j, o) \/ PutTags(j, o)
      PROVE  UNCHANGED handled
  BY <1>3 DEF ReadTags, PutTags
<1>4. ASSUME NEW j \in Jobs, JobStep(j) \/ Crash(j)
      PROVE  UNCHANGED handled
  BY <1>4 DEF JobStep, List, Finish, Crash
<1>5. ASSUME NEW c \in Configs, CleanStep(c)
      PROVE  UNCHANGED handled
  BY <1>5 DEF CleanStep, ListBucket, Check, Copy, Delete
<1>6. CASE (\E o \in Reports : Upload(o)) \/ Cleanup \/ CleanupCrash \/ UNCHANGED vars
  BY <1>6 DEF Upload, Cleanup, CleanupCrash, vars
<1>. QED
  BY <1>1, <1>2, <1>3, <1>4, <1>5, <1>6 DEF Next, TaskStep

\* The fault counter stays within its bound.
LEMMA FaultEffect ==
  ASSUME TypeOK, Fault \/ UNCHANGED faults
  PROVE  faults' \in 0 .. MaxFaults
  BY PipelineAssumption DEF Fault, TypeOK

\* Every step keeps the types.
LEMMA TypeStep ==
  ASSUME IndInv, [Next]_vars
  PROVE  TypeOK'
<1>. USE PipelineAssumption DEF IndInv, bucket, jobs, remote, cleaner
<1>1. ASSUME NEW o \in Reports, Upload(o) PROVE TypeOK'
  BY <1>1 DEF Upload, TypeOK
<1>2. ASSUME NEW j \in Jobs, List(j) PROVE TypeOK'
  <2>1. [o \in Reports |-> IF o \in live THEN "listed" ELSE "none"] \in [Reports -> TaskState]
    BY DEF TaskState
  <2>2. task' \in [Jobs -> [Reports -> TaskState]]
    BY <1>2, <2>1 DEF List, TypeOK
  <2>. QED
    BY <1>2, <2>2 DEF List, TypeOK
<1>3. ASSUME NEW j \in Jobs, Finish(j) \/ Crash(j) PROVE TypeOK'
  <2>1. Stop(j) /\ UNCHANGED <<bucket, remote, cleaner>>
    BY <1>3 DEF Finish, Crash
  <2>2. faults' \in 0 .. MaxFaults
    BY <1>3, FaultEffect DEF Finish, Crash
  <2>. QED
    BY <2>1, <2>2, StopEffect DEF TypeOK
<1>4. ASSUME NEW j \in Jobs, NEW o \in Reports, ReadTags(j, o) PROVE TypeOK'
  <2>1. /\ task[j][o] # "none" /\ UNCHANGED <<bucket, remote, cleaner>>
        /\ Succeed(j, o, "done") \/ Succeed(j, o, "import") \/ Fail(j, o)
        /\ UNCHANGED seen \/ seen' = [seen EXCEPT ![j][o] = tags[o]]
        /\ UNCHANGED faults \/ Fault
    BY <1>4 DEF ReadTags
  <2>2. running' = running /\ failed' \subseteq running /\ task' \in [Jobs -> [Reports -> TaskState]]
    BY <2>1, OutcomeEffect DEF TaskState
  <2>3. seen' \in [Jobs -> [Reports -> SUBSET Systems]]
    <3>1. [seen[j] EXCEPT ![o] = tags[o]] \in [Reports -> SUBSET Systems]
      BY DEF TypeOK
    <3>2. seen \in [Jobs -> [Reports -> SUBSET Systems]]
      BY DEF TypeOK
    <3>. QED
      BY <2>1, <3>1, <3>2
  <2>4. faults' \in 0 .. MaxFaults
    BY <2>1, FaultEffect
  <2>. QED
    BY <2>1, <2>2, <2>3, <2>4 DEF TypeOK
<1>5. ASSUME NEW j \in Jobs, NEW o \in Reports, Import(j, o) PROVE TypeOK'
  <2>1. /\ task[j][o] # "none" /\ UNCHANGED <<bucket, seen, cleaner>>
        /\ Succeed(j, o, "tag") \/ Fail(j, o)
        /\ UNCHANGED faults \/ Fault
    BY <1>5 DEF Import
  <2>2. running' = running /\ failed' \subseteq running /\ task' \in [Jobs -> [Reports -> TaskState]]
    BY <2>1, OutcomeEffect DEF TaskState
  <2>3. /\ imported' \in [Systems -> [Reports -> 0 .. 3]]
        /\ handled' \in [Reports -> SUBSET Systems]
    <3>1. CASE CountImport(System[j], o)
      BY <3>1, CountEffect
    <3>2. CASE UNCHANGED imported /\ handled' = [handled EXCEPT ![o] = @ \cup {System[j]}]
      BY <3>2 DEF TypeOK
    <3>3. CASE UNCHANGED remote
      BY <3>3 DEF TypeOK
    <3>. QED
      BY <1>5, <3>1, <3>2, <3>3 DEF Import
  <2>4. faults' \in 0 .. MaxFaults
    BY <2>1, FaultEffect
  <2>. QED
    BY <2>1, <2>2, <2>3, <2>4 DEF TypeOK
<1>6. ASSUME NEW j \in Jobs, NEW o \in Reports, PutTags(j, o) PROVE TypeOK'
  <2>1. /\ task[j][o] # "none" /\ UNCHANGED <<uploaded, broken, live, archive, seen, remote, cleaner>>
        /\ Succeed(j, o, "done") \/ Fail(j, o)
        /\ UNCHANGED tags \/ tags' = [tags EXCEPT ![o] = NewTags(j, o)]
        /\ UNCHANGED faults \/ Fault
    BY <1>6 DEF PutTags
  <2>2. running' = running /\ failed' \subseteq running /\ task' \in [Jobs -> [Reports -> TaskState]]
    BY <2>1, OutcomeEffect DEF TaskState
  <2>3. tags' \in [Reports -> SUBSET Systems]
    <3>1. NewTags(j, o) \subseteq Systems
      BY DEF NewTags, TypeOK
    <3>. QED
      BY <2>1, <3>1 DEF TypeOK
  <2>4. faults' \in 0 .. MaxFaults
    BY <2>1, FaultEffect
  <2>. QED
    BY <2>1, <2>2, <2>3, <2>4 DEF TypeOK
<1>7. ASSUME NEW j \in Jobs, NEW o \in Reports, PollPanic(j, o) PROVE TypeOK'
  <2>1. /\ Stop(j) /\ UNCHANGED <<bucket, cleaner>>
        /\ CountImport("polarion", o) /\ Fault /\ "polarion" \in Systems
    BY <1>7 DEF PollPanic, Systems
  <2>2. /\ imported' \in [Systems -> [Reports -> 0 .. 3]]
        /\ handled' \in [Reports -> SUBSET Systems]
    BY <2>1, CountEffect
  <2>. QED
    BY <2>1, <2>2, FaultEffect, StopEffect DEF TypeOK
<1>8. CASE Cleanup
  BY <1>8 DEF Cleanup, TypeOK
<1>9. ASSUME NEW c \in Configs, ListBucket(c) PROVE TypeOK'
  <2>1. faults' \in 0 .. MaxFaults
    BY <1>9, FaultEffect DEF ListBucket
  <2>2. cPc' \in [Configs -> {"idle", "list", "work"}]
    BY <1>9 DEF ListBucket, TypeOK
  <2>3. toCheck' \in [Configs -> SUBSET Reports]
    BY <1>9 DEF ListBucket, TypeOK
  <2>4. UNCHANGED <<bucket, jobs, remote, toCopy, copied>>
    BY <1>9 DEF ListBucket
  <2>. QED
    BY <2>1, <2>2, <2>3, <2>4 DEF TypeOK
<1>10. ASSUME NEW c \in Configs, NEW o \in Reports, Check(c, o) PROVE TypeOK'
  <2>1. faults' \in 0 .. MaxFaults
    BY <1>10, FaultEffect DEF Check
  <2>2. toCheck' \in [Configs -> SUBSET Reports]
    BY <1>10 DEF Check, TypeOK
  <2>3. toCopy' \in [Configs -> SUBSET Reports]
    <3>1. toCopy' = toCopy \/ toCopy' = [toCopy EXCEPT ![c] = @ \cup {o}]
      BY <1>10 DEF Check
    <3>2. toCopy \in [Configs -> SUBSET Reports]
      BY DEF TypeOK
    <3>. QED
      BY <3>1, <3>2
  <2>4. UNCHANGED <<bucket, jobs, remote, cPc, copied>>
    BY <1>10 DEF Check
  <2>. QED
    BY <2>1, <2>2, <2>3, <2>4 DEF TypeOK
<1>11. ASSUME NEW c \in Configs, NEW o \in Reports, Copy(c, o) PROVE TypeOK'
  <2>1. faults' \in 0 .. MaxFaults
    BY <1>11, FaultEffect DEF Copy
  <2>2. archive' \subseteq uploaded
    BY <1>11 DEF Copy, TypeOK
  <2>3. copied' \in [Configs -> SUBSET Reports]
    BY <1>11 DEF Copy, TypeOK
  <2>4. toCopy' \in [Configs -> SUBSET Reports]
    BY <1>11 DEF Copy, TypeOK
  <2>5. UNCHANGED <<uploaded, broken, live, tags, jobs, remote, cPc, toCheck>>
    BY <1>11 DEF Copy
  <2>. QED
    BY <2>1, <2>2, <2>3, <2>4, <2>5 DEF TypeOK
<1>12. ASSUME NEW c \in Configs, Delete(c) PROVE TypeOK'
  BY <1>12 DEF Delete, Fault, TypeOK
<1>13. CASE CleanupCrash
  BY <1>13 DEF CleanupCrash, Fault, TypeOK
<1>14. CASE UNCHANGED vars
  BY <1>14 DEF vars, TypeOK
<1>. QED
  BY <1>1, <1>2, <1>3, <1>4, <1>5, <1>6, <1>7, <1>8, <1>9, <1>10, <1>11, <1>12, <1>13, <1>14
     DEF Next, JobStep, TaskStep, CleanStep

\* Every step leaves tasks with a running job and a true tag to put.
LEMMA TasksStep ==
  ASSUME IndInv, [Next]_vars
  PROVE  TasksJustified'
<1>. USE PipelineAssumption DEF IndInv, bucket, jobs, remote, cleaner
<1>1. \A p \in Reports : handled[p] \subseteq handled'[p]
  BY HandledGrows
<1>2. ASSUME NEW j \in Jobs, NEW o \in Reports, TaskStep(j, o) PROVE TasksJustified'
  <2>1. \E s \in TaskState : Succeed(j, o, s) \/ Fail(j, o)
    BY <1>2 DEF TaskStep, ReadTags, Import, PutTags, TaskState
  <2>2. task[j][o] # "none"
    BY <1>2 DEF TaskStep, ReadTags, Import, PutTags
  <2>3. /\ running' = running /\ j \in running
        /\ \A i \in Jobs, p \in Reports : i # j \/ p # o => task'[i][p] = task[i][p]
    BY <2>1, <2>2, OutcomeEffect
  <2>4. task'[j][o] = "tag" => System[j] \in handled'[o]
    <3>1. CASE ReadTags(j, o) \/ PutTags(j, o)
      <4>1. Succeed(j, o, "done") \/ Succeed(j, o, "import") \/ Fail(j, o)
        BY <3>1 DEF ReadTags, PutTags
      <4>2. task'[j][o] \in {"done", "import"}
        BY <2>2, <4>1, OutcomeEffect DEF TaskState
      <4>. QED
        BY <4>2
    <3>2. CASE Import(j, o) /\ Succeed(j, o, "tag")
      <4>1. CASE CountImport(System[j], o)
        BY <4>1, CountEffect
      <4>2. CASE handled' = [handled EXCEPT ![o] = @ \cup {System[j]}]
        BY <4>2 DEF TypeOK
      <4>3. CASE Fail(j, o)
        BY <4>3, <2>2, FailDone
      <4>. QED
        BY <3>2, <4>1, <4>2, <4>3 DEF Import
    <3>3. CASE Fail(j, o)
      BY <3>3, <2>2, FailDone
    <3>. QED
      BY <1>2, <3>1, <3>2, <3>3 DEF TaskStep, Import
  <2>. QED
    BY <1>1, <2>3, <2>4 DEF TasksJustified
<1>3. CASE UNCHANGED <<task, running>>
  BY <1>1, <1>3 DEF TasksJustified
<1>4. ASSUME NEW c \in Configs, CleanStep(c) PROVE UNCHANGED <<task, running>>
  BY <1>4 DEF CleanStep, ListBucket, Check, Copy, Delete
<1>5. ASSUME (\E o \in Reports : Upload(o)) \/ Cleanup \/ CleanupCrash \/ UNCHANGED vars
      PROVE  UNCHANGED <<task, running>>
  BY <1>5 DEF Upload, Cleanup, CleanupCrash, vars
<1>6. ASSUME NEW j \in Jobs, JobStep(j) \/ Crash(j) PROVE TasksJustified'
  <2>1. CASE List(j)
    <3>1. running' = running \cup {j}
      BY <2>1 DEF List
    <3>2. \A p \in Reports : task'[j][p] # "tag"
      BY <2>1 DEF List, TypeOK
    <3>3. \A i \in Jobs \ {j} : task'[i] = task[i]
      BY <2>1 DEF List, TypeOK
    <3>. QED
      BY <1>1, <3>1, <3>2, <3>3 DEF TasksJustified
  <2>2. CASE Stop(j)
    BY <1>1, <2>2, StopEffect DEF TasksJustified
  <2>. QED
    BY <1>6, <2>1, <2>2 DEF Crash, Finish, JobStep
<1>7. ASSUME NEW j \in Jobs, NEW o \in Reports, PollPanic(j, o) PROVE TasksJustified'
  BY <1>1, <1>7, StopEffect DEF PollPanic, TasksJustified
<1>. QED
  BY <1>2, <1>3, <1>4, <1>5, <1>6, <1>7 DEF Next

\* Every step leaves the cleanup with objects that it may move.
LEMMA CleanupStep ==
  ASSUME IndInv, [Next]_vars
  PROVE  CleanupJustified'
<1>. USE PipelineAssumption DEF IndInv, TypeOK, CleanupJustified
<1>1. \A p \in Reports : handled[p] \subseteq handled'[p]
  BY HandledGrows
<1>2. ASSUME archive \subseteq archive', UNCHANGED <<toCopy, copied>>
      PROVE  CleanupJustified'
  BY <1>1, <1>2
<1>3. CASE (\E o \in Reports : Upload(o)) \/ Cleanup \/ UNCHANGED vars
  BY <1>2, <1>3 DEF Upload, Cleanup, vars, bucket, cleaner
<1>4. ASSUME NEW j \in Jobs, JobStep(j) \/ Crash(j) PROVE CleanupJustified'
  BY <1>2, <1>4 DEF JobStep, List, Finish, Crash, bucket, cleaner
<1>5. ASSUME NEW j \in Jobs, NEW o \in Reports, TaskStep(j, o) \/ PollPanic(j, o)
      PROVE  CleanupJustified'
  BY <1>2, <1>5 DEF TaskStep, ReadTags, Import, PutTags, PollPanic, bucket, cleaner
<1>6. ASSUME NEW c \in Configs, ListBucket(c) PROVE CleanupJustified'
  BY <1>2, <1>6 DEF ListBucket, bucket
<1>7. ASSUME NEW c \in Configs, NEW o \in Reports, Check(c, o) PROVE CleanupJustified'
  <2>1. UNCHANGED <<archive, copied, handled>>
    BY <1>7 DEF Check, bucket, remote
  <2>2. CASE UNCHANGED toCopy
    BY <1>2, <2>1, <2>2
  <2>3. CASE Required[c] \subseteq tags[o] /\ toCopy' = [toCopy EXCEPT ![c] = @ \cup {o}]
    <3>1. Required[c] \subseteq handled[o]
      BY <2>3 DEF TagsAreTrue
    <3>. QED
      BY <2>1, <2>3, <3>1
  <2>. QED
    BY <1>7, <2>2, <2>3 DEF Check, ShouldCleanup
<1>8. ASSUME NEW c \in Configs, NEW o \in Reports, Copy(c, o) PROVE CleanupJustified'
  BY <1>8 DEF Copy, remote
<1>9. ASSUME NEW c \in Configs, Delete(c) PROVE CleanupJustified'
  BY <1>9 DEF Delete, remote
<1>10. CASE CleanupCrash
  BY <1>10 DEF CleanupCrash, bucket, remote
<1>. QED
  BY <1>3, <1>4, <1>5, <1>6, <1>7, <1>8, <1>9, <1>10 DEF Next, CleanStep

\* No step loses a report: only Delete removes objects, and only copied ones.
LEMMA NothingLostStep ==
  ASSUME IndInv, [Next]_vars
  PROVE  NothingLost'
<1>. USE PipelineAssumption DEF IndInv, TypeOK, NothingLost
<1>1. CASE UNCHANGED <<uploaded, live, archive>>
  BY <1>1
<1>2. ASSUME NEW j \in Jobs, JobStep(j) \/ Crash(j) PROVE NothingLost'
  BY <1>1, <1>2 DEF JobStep, List, Finish, Crash, bucket
<1>3. ASSUME NEW j \in Jobs, NEW o \in Reports, TaskStep(j, o) \/ PollPanic(j, o)
      PROVE  NothingLost'
  BY <1>1, <1>3 DEF TaskStep, ReadTags, Import, PutTags, PollPanic, bucket
<1>4. CASE Cleanup \/ CleanupCrash \/ UNCHANGED vars
  BY <1>1, <1>4 DEF Cleanup, CleanupCrash, vars, bucket
<1>5. ASSUME NEW c \in Configs, NEW o \in Reports, Check(c, o) PROVE NothingLost'
  BY <1>1, <1>5 DEF Check, bucket
<1>6. ASSUME NEW o \in Reports, Upload(o) PROVE NothingLost'
  BY <1>6 DEF Upload
<1>7. ASSUME NEW c \in Configs, NEW o \in Reports, Copy(c, o) PROVE NothingLost'
  BY <1>7 DEF Copy
<1>8. ASSUME NEW c \in Configs, Delete(c) PROVE NothingLost'
  <2>1. live \ copied[c] \subseteq live' /\ UNCHANGED <<uploaded, archive>>
    BY <1>8 DEF Delete
  <2>2. copied[c] \subseteq archive
    BY DEF CleanupJustified
  <2>. QED
    BY <2>1, <2>2
<1>9. ASSUME NEW c \in Configs, ListBucket(c) PROVE NothingLost'
  BY <1>1, <1>9 DEF ListBucket, bucket
<1>. QED
  BY <1>2, <1>3, <1>4, <1>5, <1>6, <1>7, <1>8, <1>9 DEF Next, CleanStep

\* Every step archives only what is processed.
LEMMA ArchiveStep ==
  ASSUME IndInv, [Next]_vars
  PROVE  ArchivedIsProcessed'
<1>. USE PipelineAssumption DEF IndInv, TypeOK, ArchivedIsProcessed
<1>1. \A p \in Reports : handled[p] \subseteq handled'[p]
  BY HandledGrows
<1>2. CASE UNCHANGED archive
  BY <1>1, <1>2
<1>3. ASSUME NEW j \in Jobs, JobStep(j) \/ Crash(j) PROVE UNCHANGED archive
  BY <1>3 DEF JobStep, List, Finish, Crash, bucket
<1>4. ASSUME NEW j \in Jobs, NEW o \in Reports, TaskStep(j, o) \/ PollPanic(j, o)
      PROVE  UNCHANGED archive
  BY <1>4 DEF TaskStep, ReadTags, Import, PutTags, PollPanic, bucket
<1>5. ASSUME NEW c \in Configs, NEW o \in Reports, Check(c, o) PROVE UNCHANGED archive
  BY <1>5 DEF Check, bucket
<1>6. ASSUME NEW c \in Configs, ListBucket(c) \/ Delete(c) PROVE UNCHANGED archive
  BY <1>6 DEF ListBucket, Delete, bucket
<1>7. ASSUME NEW o \in Reports, Upload(o) PROVE UNCHANGED archive
  BY <1>7 DEF Upload
<1>8. ASSUME Cleanup \/ CleanupCrash \/ UNCHANGED vars PROVE UNCHANGED archive
  BY <1>8 DEF Cleanup, CleanupCrash, vars, bucket
<1>9. ASSUME NEW c \in Configs, NEW o \in Reports, Copy(c, o) PROVE ArchivedIsProcessed'
  <2>1. Required[c] \subseteq handled[o]
    BY <1>9 DEF Copy, CleanupJustified
  <2>2. archive' \subseteq archive \cup {o} /\ UNCHANGED handled
    BY <1>9 DEF Copy, remote
  <2>. QED
    BY <2>1, <2>2
<1>. QED
  BY <1>2, <1>3, <1>4, <1>5, <1>6, <1>7, <1>8, <1>9 DEF Next, CleanStep

\* Every step puts true tags only.
LEMMA TagsStep ==
  ASSUME IndInv, [Next]_vars
  PROVE  TagsAreTrue'
<1>. USE PipelineAssumption DEF IndInv, TagsAreTrue
<1>1. \A p \in Reports : handled[p] \subseteq handled'[p]
  BY HandledGrows
<1>2. CASE UNCHANGED <<tags, seen>>
  BY <1>1, <1>2
<1>3. ASSUME NEW j \in Jobs, NEW o \in Reports, ReadTags(j, o) PROVE TagsAreTrue'
  <2>1. UNCHANGED <<tags, handled>>
    BY <1>3 DEF ReadTags, bucket, remote
  <2>2. CASE seen' = [seen EXCEPT ![j][o] = tags[o]]
    <3>1. \A i \in Jobs, p \in Reports : seen'[i][p] \in {seen[i][p], tags[p]}
      BY <2>2 DEF TypeOK
    <3>. QED
      BY <2>1, <3>1
  <2>. QED
    BY <1>2, <1>3, <2>1, <2>2 DEF ReadTags
<1>4. ASSUME NEW j \in Jobs, NEW o \in Reports, PutTags(j, o) PROVE TagsAreTrue'
  <2>1. UNCHANGED <<seen, handled>>
    BY <1>4 DEF PutTags, remote
  <2>2. CASE tags' = [tags EXCEPT ![o] = NewTags(j, o)]
    <3>1. NewTags(j, o) \subseteq handled[o]
      BY <1>4 DEF PutTags, NewTags, TasksJustified
    <3>. QED
      BY <2>1, <2>2, <3>1 DEF TypeOK
  <2>. QED
    BY <1>2, <1>4, <2>1, <2>2 DEF PutTags
<1>5. ASSUME NEW j \in Jobs, Stop(j), UNCHANGED bucket PROVE TagsAreTrue'
  <2>1. \A i \in Jobs, p \in Reports : seen'[i][p] \subseteq seen[i][p]
    BY <1>5, StopEffect DEF TypeOK
  <2>. QED
    BY <1>1, <1>5, <2>1 DEF bucket
<1>6. ASSUME NEW j \in Jobs, NEW o \in Reports, TaskStep(j, o) \/ PollPanic(j, o)
      PROVE  TagsAreTrue'
  BY <1>2, <1>3, <1>4, <1>5, <1>6 DEF TaskStep, Import, PollPanic, bucket
<1>7. ASSUME NEW j \in Jobs, JobStep(j) \/ Crash(j) PROVE TagsAreTrue'
  BY <1>2, <1>5, <1>7 DEF JobStep, List, Finish, Crash, bucket
<1>8. ASSUME NEW c \in Configs, CleanStep(c) PROVE TagsAreTrue'
  BY <1>2, <1>8 DEF CleanStep, ListBucket, Check, Copy, Delete, bucket, jobs
<1>9. CASE (\E o \in Reports : Upload(o)) \/ Cleanup \/ CleanupCrash \/ UNCHANGED vars
  BY <1>2, <1>9 DEF Upload, Cleanup, CleanupCrash, vars, bucket, jobs
<1>. QED
  BY <1>6, <1>7, <1>8, <1>9 DEF Next

\* IndInv is an inductive invariant of the pipeline.
THEOREM IndInvInvariant == Spec => []IndInv
<1>. USE PipelineAssumption
<1>1. Init => IndInv
  <2>. SUFFICES ASSUME Init PROVE IndInv
    OBVIOUS
  <2>1. TypeOK
    BY DEF Init, TypeOK, TaskState
  <2>2. TasksJustified /\ CleanupJustified
    BY DEF Init, TasksJustified, CleanupJustified
  <2>3. NothingLost /\ ArchivedIsProcessed /\ TagsAreTrue
    BY DEF Init, NothingLost, ArchivedIsProcessed, TagsAreTrue
  <2>. QED
    BY <2>1, <2>2, <2>3 DEF IndInv
<1>2. IndInv /\ [Next]_vars => IndInv'
  BY TypeStep, TasksStep, CleanupStep, NothingLostStep, ArchiveStep, TagsStep DEF IndInv
<1>. QED
  BY <1>1, <1>2, PTL DEF Spec

\* Type correctness of the pipeline; of its parts, that a job with an error is
\* a job being run (an error ends with its process).
THEOREM TypeCorrect == Spec => []TypeOK
<1>1. IndInv => TypeOK
  BY DEF IndInv
<1>. QED
  BY <1>1, IndInvInvariant, PTL

\* No report is lost by the cleanup, for every number of failing calls and
\* kills: deleteObjects gets only what copyObjects has copied
\* (cleanupReports.go:135-140, 161-184).
THEOREM NothingLostCorrect == Spec => []NothingLost
<1>1. IndInv => NothingLost
  BY DEF IndInv
<1>. QED
  BY <1>1, IndInvInvariant, PTL

\* What is archived has been processed by every system of some entry, however
\* many jobs overlap and whatever tags they overwrite (cleanupReports.go:142).
THEOREM ArchivedIsProcessedCorrect == Spec => []ArchivedIsProcessed
<1>1. IndInv => ArchivedIsProcessed
  BY DEF IndInv
<1>. QED
  BY <1>1, IndInvInvariant, PTL

\* A tag, and a tag about to be put, never claims an import that did not
\* happen (reportPortalImport.go:151-233 and its two siblings).
THEOREM TagsAreTrueCorrect == Spec => []TagsAreTrue
<1>1. IndInv => TagsAreTrue
  BY DEF IndInv
<1>. QED
  BY <1>1, IndInvInvariant, PTL

-----------------------------------------------------------------------------
(* Step by step, the commands implement the abstract store. *)

\* Importing a report is processing it, wherever the job ends up then.
LEMMA ImportImplements ==
  ASSUME IndInv, NEW j \in Jobs, NEW o \in Reports, Import(j, o) \/ PollPanic(j, o)
  PROVE  [Store!Next]_(Store!store)
<1>. USE PipelineAssumption DEF bucket
<1>1. UNCHANGED <<uploaded, live, tags, archive>> /\ System[j] \in Systems
  BY DEF Import, PollPanic
<1>2. CASE handled' = handled
  BY <1>1, <1>2 DEF Store!store
<1>3. CASE handled' = [handled EXCEPT ![o] = @ \cup {System[j]}] /\ o \in live
  <2>1. Store!Process(System[j], o)
    BY <1>1, <1>3 DEF Store!Process
  <2>. QED
    BY <1>1, <2>1 DEF Store!Next
<1>. QED
  BY <1>2, <1>3 DEF Import, PollPanic, CountImport, Readable, remote

\* A put leaves true tags: the ones seen before the import and the job's own.
LEMMA PutImplements ==
  ASSUME IndInv, NEW j \in Jobs, NEW o \in Reports, PutTags(j, o)
  PROVE  [Store!Next]_(Store!store)
<1>1. UNCHANGED <<uploaded, live, archive, handled>> /\ task[j][o] = "tag"
  BY DEF PutTags, remote
<1>2. CASE tags' = tags
  BY <1>1, <1>2 DEF Store!store
<1>3. CASE tags' = [tags EXCEPT ![o] = NewTags(j, o)] /\ o \in live
  <2>1. seen[j][o] \subseteq handled[o] /\ System[j] \in handled[o]
    BY <1>1 DEF IndInv, TagsAreTrue, TasksJustified
  <2>2. Store!Tag(o)
    BY <1>1, <1>3, <2>1 DEF Store!Tag, NewTags
  <2>. QED
    BY <2>2 DEF Store!Next
<1>. QED
  BY <1>2, <1>3 DEF PutTags

\* A copy archives what is processed, a delete removes what is archived.
LEMMA CleanImplements ==
  ASSUME IndInv, NEW c \in Configs, CleanStep(c)
  PROVE  [Store!Next]_(Store!store)
<1>. USE DEF bucket, remote
<1>1. CASE ListBucket(c) \/ \E o \in Reports : Check(c, o)
  BY <1>1 DEF ListBucket, Check, Store!store
<1>2. ASSUME NEW o \in Reports, Copy(c, o) PROVE [Store!Next]_(Store!store)
  <2>1. UNCHANGED <<uploaded, live, tags, handled>> /\ Required[c] \subseteq handled[o]
    BY <1>2 DEF Copy, IndInv, CleanupJustified
  <2>2. CASE archive' = archive
    BY <2>1, <2>2 DEF Store!store
  <2>3. CASE archive' = archive \cup {o} /\ o \in live
    <3>1. Store!Archive(o)
      BY <2>1, <2>3 DEF Store!Archive
    <3>. QED
      BY <3>1 DEF Store!Next
  <2>. QED
    BY <1>2, <2>2, <2>3 DEF Copy
<1>3. CASE Delete(c)
  <2>1. UNCHANGED <<uploaded, tags, archive, handled>> /\ copied[c] \subseteq archive
    BY <1>3 DEF Delete, IndInv, CleanupJustified
  <2>2. \E gone \in SUBSET archive : live' = live \ gone
    BY <1>3, <2>1 DEF Delete
  <2>3. Store!Remove
    BY <2>1, <2>2 DEF Store!Remove
  <2>. QED
    BY <2>3 DEF Store!Next
<1>. QED
  BY <1>1, <1>2, <1>3 DEF CleanStep

\* For any jobs side by side and any number of faults, those who upload
\* reports and those who read the archive see the abstract store: the S3 calls
\* of the imports and of the cleanup are its steps, or steps it does not see
\* (reportPortalImport.go:151-233 and its siblings, cleanupReports.go:101-184).
THEOREM StoreImplemented == Spec => StoreSpec
<1>1. Init => Store!Init
  BY DEF Init, Store!Init
<1>2. ASSUME IndInv, [Next]_vars PROVE [Store!Next]_(Store!store)
  <2>. USE DEF bucket, jobs, remote
  <2>1. ASSUME NEW o \in Reports, Upload(o) PROVE [Store!Next]_(Store!store)
    <3>1. Store!Upload(o)
      BY <2>1 DEF Upload, Store!Upload
    <3>. QED
      BY <3>1 DEF Store!Next
  <2>2. ASSUME NEW j \in Jobs, JobStep(j) \/ Crash(j) \/ \E o \in Reports : ReadTags(j, o)
        PROVE  UNCHANGED Store!store
    BY <2>2 DEF JobStep, List, Finish, Crash, ReadTags, Store!store
  <2>3. CASE Cleanup \/ CleanupCrash \/ UNCHANGED vars
    BY <2>3 DEF Cleanup, CleanupCrash, vars, Store!store
  <2>. QED
    BY <1>2, <2>1, <2>2, <2>3, ImportImplements, PutImplements, CleanImplements DEF Next, TaskStep
<1>. QED
  BY <1>1, <1>2, IndInvInvariant, PTL DEF Spec, StoreSpec, Store!Spec

-----------------------------------------------------------------------------
(***************************************************************************)
(* The cost of the lost update of a tag, when one job imports for each     *)
(* system: a report that carries all tags of an entry keeps them, and when *)
(* nothing fails no system imports a report a third time.                  *)
(***************************************************************************)

\* A report has two systems that import it at most.
LEMMA TwoHandle ==
  ASSUME OneWriterEach, NEW o \in Reports, NEW k \in Systems, NEW l \in Systems, NEW m \in Systems,
         Handles(k, o), Handles(l, o), Handles(m, o)
  PROVE  /\ k = l \/ l = m \/ k = m
         /\ k # l => {k, l} = {"rp", "polarion"}
  BY DEF OneWriterEach, Systems, Handles

\* The tags of a report are replaced by the job that has it in hand, or not.
LEMMA PutEffect ==
  ASSUME TypeOK, NEW j \in Jobs, NEW o \in Reports, PutTags(j, o)
  PROVE  /\ task'[j][o] = "done"
         /\ \A i \in Jobs, p \in Reports : i # j \/ p # o => task'[i][p] = task[i][p]
         /\ \A p \in Reports \ {o} : tags'[p] = tags[p]
         /\ tags'[o] = tags[o] \/ tags'[o] = seen[j][o] \cup {System[j]}
<1>1. "done" \in TaskState
  BY DEF TaskState
<1>2. Goto(j, o, "done")
  BY DEF PutTags, Succeed, Fail
<1>3. tags' = tags \/ tags' = [tags EXCEPT ![o] = NewTags(j, o)]
  BY DEF PutTags
<1>. QED
  BY <1>1, <1>2, <1>3, GotoEffect DEF TypeOK, NewTags

\* Reading the tags leads into an import, or the task is done.
LEMMA ReadEffect ==
  ASSUME TypeOK, NEW j \in Jobs, NEW o \in Reports, ReadTags(j, o)
  PROVE  /\ \A i \in Jobs, p \in Reports :
              i # j \/ p # o => task'[i][p] = task[i][p] /\ seen'[i][p] = seen[i][p]
         /\ \/ task'[j][o] = "done"
            \/ /\ task'[j][o] = "import" /\ seen'[j][o] = tags[o]
               /\ System[j] \notin tags[o] /\ Handles(System[j], o)
<1>1. "done" \in TaskState /\ "import" \in TaskState
  BY DEF TaskState
<1>2. CASE Goto(j, o, "done") /\ seen' = seen
  BY <1>1, <1>2, GotoEffect
<1>3. CASE /\ Goto(j, o, "import") /\ seen' = [seen EXCEPT ![j][o] = tags[o]]
           /\ System[j] \notin tags[o] /\ Handles(System[j], o)
  <2>1. \A i \in Jobs, p \in Reports : i # j \/ p # o => seen'[i][p] = seen[i][p]
    BY <1>3 DEF TypeOK
  <2>2. seen'[j][o] = tags[o]
    BY <1>3 DEF TypeOK
  <2>. QED
    BY <1>1, <1>3, <2>1, <2>2, GotoEffect
<1>. QED
  BY <1>2, <1>3 DEF ReadTags, Succeed, Fail, HasTag

\* An import that succeeds leads to the tag, one that fails is done.
LEMMA ImportEffect ==
  ASSUME TypeOK, NEW j \in Jobs, NEW o \in Reports, Import(j, o)
  PROVE  /\ \A i \in Jobs, p \in Reports : i # j \/ p # o => task'[i][p] = task[i][p]
         /\ \/ task'[j][o] = "tag" /\ (CountImport(System[j], o) \/ imported' = imported)
            \/ task'[j][o] = "done" /\ imported' = imported
            \/ task'[j][o] = "done" /\ Fault
<1>1. "done" \in TaskState /\ "tag" \in TaskState
  BY DEF TaskState
<1>2. Goto(j, o, "done") => /\ task'[j][o] = "done"
                            /\ \A i \in Jobs, p \in Reports : i # j \/ p # o => task'[i][p] = task[i][p]
  BY <1>1, GotoEffect
<1>3. Goto(j, o, "tag") => /\ task'[j][o] = "tag"
                           /\ \A i \in Jobs, p \in Reports : i # j \/ p # o => task'[i][p] = task[i][p]
  BY <1>1, GotoEffect
<1>. QED
  BY <1>2, <1>3 DEF Import, Succeed, Fail, remote

\* The other steps put no tag and count nothing when nothing fails; tasks end.
LEMMA OtherSteps ==
  ASSUME TypeOK, Next,
         \A j \in Jobs, o \in Reports : ~ReadTags(j, o) /\ ~Import(j, o) /\ ~PutTags(j, o)
  PROVE  /\ tags' = tags
         /\ \A j \in Jobs, o \in Reports : task'[j][o] \in {"import", "tag"} =>
              task'[j][o] = task[j][o] /\ seen'[j][o] = seen[j][o]
<1>. USE DEF bucket, jobs, remote, cleaner
<1>1. ASSUME NEW j \in Jobs, List(j)
      PROVE  /\ tags' = tags
             /\ \A i \in Jobs, o \in Reports : task'[i][o] \in {"import", "tag"} =>
                  task'[i][o] = task[i][o] /\ seen'[i][o] = seen[i][o]
  BY <1>1 DEF List, TypeOK
<1>2. ASSUME NEW j \in Jobs, Stop(j), UNCHANGED bucket
      PROVE  /\ tags' = tags
             /\ \A i \in Jobs, o \in Reports : task'[i][o] \in {"import", "tag"} =>
                  task'[i][o] = task[i][o] /\ seen'[i][o] = seen[i][o]
  <2>1. \A o \in Reports : task'[j][o] = "none"
    BY <1>2, StopEffect
  <2>2. \A i \in Jobs \ {j} : task'[i] = task[i] /\ seen'[i] = seen[i]
    BY <1>2, StopEffect
  <2>. QED
    BY <1>2, <2>1, <2>2
<1>3. ASSUME NEW j \in Jobs, Finish(j) \/ Crash(j) \/ \E o \in Reports : PollPanic(j, o)
      PROVE  Stop(j) /\ UNCHANGED bucket
  BY <1>3 DEF Finish, Crash, PollPanic
<1>4. ASSUME NEW c \in Configs, CleanStep(c) PROVE UNCHANGED <<tags, task, seen>>
  BY <1>4 DEF CleanStep, ListBucket, Check, Copy, Delete
<1>5. ASSUME (\E o \in Reports : Upload(o)) \/ Cleanup \/ CleanupCrash
      PROVE  UNCHANGED <<tags, task, seen>>
  BY <1>5 DEF Upload, Cleanup, CleanupCrash
<1>. QED
  BY <1>1, <1>2, <1>3, <1>4, <1>5 DEF Next, JobStep, TaskStep

\* Every step leaves the writers apart.
LEMMA WritersStep ==
  ASSUME OneWriterEach, IndInv, WritersApart, [Next]_vars
  PROVE  WritersApart'
<1>. USE PipelineAssumption DEF IndInv
<1>1. ASSUME tags' = tags,
             \A j \in Jobs, o \in Reports : task'[j][o] \in {"import", "tag"} =>
               task[j][o] \in {"import", "tag"} /\ seen'[j][o] = seen[j][o]
      PROVE  WritersApart'
  BY <1>1 DEF WritersApart, Apart
<1>2. ASSUME NEW j \in Jobs, NEW o \in Reports, ReadTags(j, o) PROVE WritersApart'
  <2>1. tags' = tags
    BY <1>2 DEF ReadTags, bucket
  <2>. QED
    BY <1>2, <2>1, ReadEffect DEF WritersApart, Apart
<1>3. ASSUME NEW j \in Jobs, NEW o \in Reports, Import(j, o) PROVE WritersApart'
  <2>1. tags' = tags /\ seen' = seen /\ task[j][o] = "import"
    BY <1>3 DEF Import, bucket
  <2>2. \A i \in Jobs, p \in Reports : i # j \/ p # o => task'[i][p] = task[i][p]
    BY <1>3, ImportEffect
  <2>. QED
    BY <1>1, <2>1, <2>2
<1>4. ASSUME NEW j \in Jobs, NEW o \in Reports, PutTags(j, o) PROVE WritersApart'
  <2>1. seen' = seen /\ task[j][o] = "tag"
    BY <1>4 DEF PutTags
  <2>2. /\ task'[j][o] = "done"
        /\ \A i \in Jobs, p \in Reports : i # j \/ p # o => task'[i][p] = task[i][p]
        /\ \A p \in Reports \ {o} : tags'[p] = tags[p]
        /\ tags'[o] = tags[o] \/ tags'[o] = seen[j][o] \cup {System[j]}
    BY <1>4, PutEffect
  <2>3. ASSUME NEW p \in Reports, p # o \/ tags'[o] = tags[o] PROVE Apart(p)'
    BY <2>1, <2>2, <2>3 DEF WritersApart, Apart
  <2>4. ASSUME tags'[o] = seen[j][o] \cup {System[j]} PROVE Apart(o)'
    <3>1. /\ Apart(o) /\ System[j] \in Systems /\ tags[o] \subseteq Systems
          /\ Handles(System[j], o) /\ System[j] \notin tags[o] /\ seen[j][o] \subseteq tags[o]
      BY <2>1 DEF WritersApart, Apart, TypeOK
    <3>2. \A k \in tags'[o] : Handles(k, o)
      BY <2>4, <3>1 DEF Apart
    <3>3. ASSUME NEW i \in Jobs, task'[i][o] \in {"import", "tag"}
          PROVE  /\ Handles(System[i], o) /\ System[i] \notin tags'[o]
                 /\ seen[i][o] \subseteq tags'[o]
      <4>1. i # j /\ task[i][o] \in {"import", "tag"}
        BY <2>2, <3>3
      <4>2. /\ Handles(System[i], o) /\ System[i] \notin tags[o] /\ System[i] \in Systems
            /\ seen[i][o] \subseteq tags[o] /\ System[i] # System[j]
        BY <3>1, <4>1 DEF Apart, OneWriterEach
      <4>3. ASSUME NEW x \in seen[i][o] PROVE FALSE
        <5>1. x \in Systems /\ Handles(x, o) /\ x # System[i] /\ x # System[j]
          BY <3>1, <4>2 DEF Apart
        <5>. QED
          BY <3>1, <4>2, <5>1, TwoHandle
      <4>. QED
        BY <2>4, <3>1, <4>2, <4>3
    <3>. QED
      BY <2>1, <3>2, <3>3 DEF Apart
  <2>. QED
    BY <2>2, <2>3, <2>4 DEF WritersApart
<1>5. CASE UNCHANGED vars
  BY <1>1, <1>5 DEF vars, bucket, jobs
<1>6. CASE /\ Next
           /\ \A j \in Jobs, o \in Reports : ~ReadTags(j, o) /\ ~Import(j, o) /\ ~PutTags(j, o)
  <2>1. /\ tags' = tags
        /\ \A j \in Jobs, o \in Reports : task'[j][o] \in {"import", "tag"} =>
             task'[j][o] = task[j][o] /\ seen'[j][o] = seen[j][o]
    BY <1>6, OtherSteps
  <2>. QED
    BY <1>1, <2>1
<1>. QED
  BY <1>2, <1>3, <1>4, <1>5, <1>6

\* No step takes a tag from a report that has all those of an entry.
LEMMA FullTagsStep ==
  ASSUME OneWriterEach, RequiresBoth, IndInv, WritersApart, [Next]_vars,
         NEW o \in Reports, NEW c \in Configs, Required[c] \subseteq tags[o]
  PROVE  Required[c] \subseteq tags'[o]
<1>. USE PipelineAssumption DEF IndInv
<1>1. ASSUME NEW j \in Jobs, NEW p \in Reports, PutTags(j, p)
      PROVE  Required[c] \subseteq tags'[o]
  <2>1. CASE p # o \/ tags'[o] = tags[o]
    BY <1>1, <2>1, PutEffect
  <2>2. CASE p = o
    <3>1. /\ Apart(o) /\ System[j] \in Systems /\ tags[o] \subseteq Systems
          /\ Handles(System[j], o) /\ System[j] \notin tags[o]
      BY <1>1, <2>2 DEF PutTags, WritersApart, Apart, TypeOK
    <3>2. ASSUME NEW x \in Required[c] PROVE FALSE
      <4>1. x \in Systems /\ x # System[j] /\ Handles(x, o)
        BY <3>1, <3>2 DEF Apart
      <4>2. {x, System[j]} = {"rp", "polarion"}
        BY <3>1, <4>1, TwoHandle
      <4>. QED
        BY <3>1, <3>2, <4>2 DEF RequiresBoth
    <3>. QED
      BY <3>2
  <2>. QED
    BY <2>1, <2>2
<1>2. CASE UNCHANGED tags
  BY <1>2
<1>3. ASSUME NEW j \in Jobs, NEW p \in Reports, ReadTags(j, p) \/ Import(j, p)
      PROVE  UNCHANGED tags
  BY <1>3 DEF ReadTags, Import, bucket
<1>4. CASE UNCHANGED vars
  BY <1>2, <1>4 DEF vars, bucket
<1>. QED
  BY <1>1, <1>2, <1>3, <1>4, OtherSteps

\* One system imports the one report once more.
LEMMA CountExact ==
  ASSUME TypeOK, NEW k \in Systems, NEW o \in Reports, CountImport(k, o), imported[k][o] < 3
  PROVE  /\ imported'[k][o] = imported[k][o] + 1
         /\ \A l \in Systems, p \in Reports : l # k \/ p # o => imported'[l][p] = imported[l][p]
<1>1. imported[k] \in [Reports -> 0 .. 3] /\ imported[k][o] \in 0 .. 3
  BY DEF TypeOK
<1>2. (IF imported[k][o] < 3 THEN imported[k][o] + 1 ELSE 3) = imported[k][o] + 1
  OBVIOUS
<1>3. imported' = [imported EXCEPT ![k][o] = imported[k][o] + 1]
  BY <1>2, Zenon DEF CountImport
<1>. QED
  BY <1>1, <1>3 DEF TypeOK

\* A system that imported a report twice handles it, a job of its own did so,
\* and while the report is in the bucket it has another system's tag.
LEMMA TwiceKnown ==
  ASSUME NEW o \in Reports, NEW k \in Systems, Bounded(o), imported[k][o] = 2
  PROVE  /\ Handles(k, o)
         /\ \E i \in Jobs : System[i] = k
         /\ o \in live => \E x \in tags[o] : x # k
<1>1. imported[k][o] > 0
  OBVIOUS
<1>2. Handles(k, o) /\ \E i \in Jobs : System[i] = k
  BY <1>1 DEF Bounded
<1>3. ASSUME NEW i \in Jobs, System[i] = k, o \in live PROVE \E x \in tags[o] : x # k
  <2>1. tags[o] \ {System[i]} # {}
    BY <1>3 DEF Bounded
  <2>. QED
    BY <1>3, <2>1
<1>. QED
  BY <1>2, <1>3

\* Every step keeps the imports bounded.
LEMMA BoundedStep ==
  ASSUME OneWriterEach, NothingFails, IndInv, WritersApart, ImportsBounded, [Next]_vars
  PROVE  ImportsBounded'
<1>. USE PipelineAssumption DEF IndInv, bucket, jobs, remote, cleaner
<1>0. ~Fault
  BY DEF Fault, TypeOK, NothingFails
<1>1. ASSUME NEW p \in Reports, tags'[p] = tags[p], p \notin uploaded' => p \notin uploaded,
             \A k \in Systems : imported'[k][p] = imported[k][p],
             p \in live' => p \in live,
             \A i \in Jobs : /\ task'[i][p] = "tag" <=> task[i][p] = "tag"
                             /\ task'[i][p] = "import" => task[i][p] = "import"
                             /\ task'[i][p] \in {"import", "tag"} => seen'[i][p] = seen[i][p]
                             /\ p \notin uploaded' => task'[i][p] = "none"
      PROVE  Bounded(p)'
  BY <1>1 DEF ImportsBounded, Bounded
<1>2. ASSUME NEW o \in Reports, Upload(o) PROVE ImportsBounded'
  <2>1. ASSUME NEW p \in Reports, p # o PROVE Bounded(p)'
    BY <1>1, <1>2, <2>1 DEF Upload, ImportsBounded, Bounded
  <2>2. Bounded(o)'
    BY <1>2 DEF Upload, ImportsBounded, Bounded
  <2>. QED
    BY <2>1, <2>2 DEF ImportsBounded
<1>3. ASSUME NEW j \in Jobs, List(j) PROVE ImportsBounded'
  <2>1. /\ UNCHANGED <<bucket, seen, imported>>
        /\ \A p \in Reports : task'[j][p] = (IF p \in live THEN "listed" ELSE "none")
        /\ \A i \in Jobs \ {j} : task'[i] = task[i]
    BY <1>3 DEF List, TypeOK
  <2>2. \A p \in Reports : task[j][p] = "none"
    BY <1>3 DEF List, TasksJustified
  <2>3. ASSUME NEW p \in Reports PROVE Bounded(p)'
    <3>1. ASSUME p \notin uploaded' PROVE \A i \in Jobs : task'[i][p] = "none"
      <4>1. p \notin live /\ \A i \in Jobs : task[i][p] = "none"
        BY <2>1, <3>1 DEF ImportsBounded, Bounded, TypeOK
      <4>. QED
        BY <2>1, <4>1
    <3>. QED
      BY <1>1, <2>1, <2>2, <3>1
  <2>. QED
    BY <2>3 DEF ImportsBounded
<1>4. ASSUME NEW j \in Jobs, Finish(j) PROVE ImportsBounded'
  <2>1. /\ UNCHANGED <<bucket, imported>>
        /\ \A p \in Reports : task[j][p] \notin {"import", "tag"}
    BY <1>4 DEF Finish, InFlight
  <2>2. /\ \A p \in Reports : task'[j][p] = "none"
        /\ \A i \in Jobs \ {j} : task'[i] = task[i] /\ seen'[i] = seen[i]
    BY <1>4, StopEffect DEF Finish
  <2>3. ASSUME NEW p \in Reports PROVE Bounded(p)'
    <3>1. \A i \in Jobs : p \notin uploaded' => task'[i][p] = "none"
      BY <2>1, <2>2 DEF ImportsBounded, Bounded
    <3>. QED
      BY <1>1, <2>1, <2>2, <3>1
  <2>. QED
    BY <2>3 DEF ImportsBounded
<1>5. ASSUME NEW j \in Jobs, NEW o \in Reports, ReadTags(j, o) PROVE ImportsBounded'
  <2>1. UNCHANGED <<bucket, imported>> /\ task[j][o] = "listed"
    BY <1>5 DEF ReadTags
  <2>2. /\ \A i \in Jobs, p \in Reports :
             i # j \/ p # o => task'[i][p] = task[i][p] /\ seen'[i][p] = seen[i][p]
        /\ \/ task'[j][o] = "done"
           \/ task'[j][o] = "import" /\ seen'[j][o] = tags[o] /\ System[j] \notin tags[o]
    BY <1>5, ReadEffect
  <2>3. o \in uploaded
    BY <2>1 DEF ImportsBounded, Bounded
  <2>4. ASSUME NEW p \in Reports, p # o \/ task'[j][o] = "done" PROVE Bounded(p)'
    <3>1. \A i \in Jobs : p \notin uploaded' => task'[i][p] = "none"
      BY <2>1, <2>2, <2>3, <2>4 DEF ImportsBounded, Bounded
    <3>. QED
      BY <1>1, <2>1, <2>2, <2>4, <3>1
  <2>5. ASSUME task'[j][o] = "import", seen'[j][o] = tags[o] PROVE Bounded(o)'
    BY <2>1, <2>2, <2>3, <2>5 DEF ImportsBounded, Bounded
  <2>. QED
    BY <2>2, <2>4, <2>5 DEF ImportsBounded
<1>6. ASSUME NEW j \in Jobs, NEW o \in Reports, Import(j, o) PROVE ImportsBounded'
  <2>. DEFINE k == System[j]
  <2>1. /\ UNCHANGED <<bucket, seen>> /\ task[j][o] = "import" /\ k \in Systems
    BY <1>6 DEF Import
  <2>2. /\ \A i \in Jobs, p \in Reports : i # j \/ p # o => task'[i][p] = task[i][p]
        /\ \/ task'[j][o] = "tag" /\ (CountImport(k, o) \/ imported' = imported)
           \/ task'[j][o] = "done" /\ imported' = imported
    BY <1>0, <1>6, ImportEffect
  <2>3. o \in uploaded /\ Bounded(o) /\ Apart(o)
    BY <2>1 DEF ImportsBounded, Bounded, WritersApart
  <2>4. /\ Handles(k, o) /\ k \notin tags[o] /\ seen[j][o] \subseteq tags[o]
        /\ tags[o] \subseteq Systems
    BY <2>1, <2>3 DEF Apart, TypeOK
  <2>5. imported[k][o] \in 0 .. 2 /\ imported \in [Systems -> [Reports -> 0 .. 3]]
    <3>1. imported \in [Systems -> [Reports -> 0 .. 3]] /\ imported[k][o] \in 0 .. 3
      BY <2>1 DEF TypeOK
    <3>2. imported[k][o] <= 2
      BY <2>1, <2>3 DEF Bounded
    <3>. QED
      BY <3>1, <3>2
  <2>6. o \in live => imported[k][o] # 2
    BY <2>1, <2>3, <2>4 DEF Bounded
  <2>7. \A p \in Reports \ {o} : \A l \in Systems : imported'[l][p] = imported[l][p]
    BY <2>1, <2>2, <2>5, CountExact
  <2>8. ASSUME NEW p \in Reports, p # o PROVE Bounded(p)'
    <3>1. \A i \in Jobs : p \notin uploaded' => task'[i][p] = "none"
      BY <2>1, <2>2, <2>8 DEF ImportsBounded, Bounded
    <3>. QED
      BY <1>1, <2>1, <2>2, <2>7, <2>8, <3>1
  <2>9. CASE imported' = imported
    <3>1. Bounded(o)'
      BY <2>1, <2>2, <2>3, <2>6, <2>9 DEF Bounded
    <3>. QED
      BY <2>8, <3>1 DEF ImportsBounded
  <2>10. CASE CountImport(k, o) /\ task'[j][o] = "tag" /\ o \in live
    <3>1. /\ imported'[k][o] = imported[k][o] + 1 /\ imported[k][o] \in 0 .. 1
          /\ \A l \in Systems \ {k} : imported'[l][o] = imported[l][o]
      <4>1. imported[k][o] \in 0 .. 1 /\ imported[k][o] < 3
        BY <2>5, <2>6, <2>10
      <4>2. /\ imported'[k][o] = imported[k][o] + 1
            /\ \A l \in Systems, p \in Reports : l # k \/ p # o => imported'[l][p] = imported[l][p]
        BY <2>1, <2>10, <4>1, CountExact
      <4>. QED
        BY <4>1, <4>2
    <3>2. ASSUME NEW l \in Systems, l # k, imported[l][o] = 2 PROVE FALSE
      <4>1. Handles(l, o) /\ \E x \in tags[o] : x # l
        BY <2>3, <2>10, <3>2, TwiceKnown
      <4>2. PICK x \in tags[o] : x # l
        BY <4>1
      <4>3. x \in Systems /\ Handles(x, o) /\ x # k
        BY <2>3, <2>4, <4>2 DEF Apart
      <4>. QED
        BY <2>1, <2>4, <3>2, <4>1, <4>2, <4>3, TwoHandle
    <3>3. \A m \in Systems :
            /\ imported'[m][o] <= 2
            /\ imported'[m][o] > 0 => Handles(m, o) /\ \E i \in Jobs : System[i] = m
            /\ \A l \in Systems : imported'[m][o] = 2 /\ imported'[l][o] = 2 => m = l
      <4>1. \A l \in Systems \ {k} : imported'[l][o] # 2
        BY <3>1, <3>2
      <4>2. imported'[k][o] <= 2 /\ \A l \in Systems \ {k} : imported'[l][o] <= 2
        BY <2>3, <3>1 DEF Bounded
      <4>3. \A l \in Systems \ {k} : imported'[l][o] > 0 =>
               Handles(l, o) /\ \E i \in Jobs : System[i] = l
        BY <2>3, <3>1 DEF Bounded
      <4>. QED
        BY <2>4, <4>1, <4>2, <4>3
    <3>4. ASSUME NEW i \in Jobs
          PROVE  /\ imported'[System[i]][o] = 1 /\ task'[i][o] # "tag" => tags[o] # {}
                 /\ imported'[System[i]][o] = 1 /\ task'[i][o] = "import" => seen[i][o] # {}
                 /\ imported'[System[i]][o] = 2 =>
                      /\ tags[o] \ {System[i]} # {}
                      /\ (task'[i][o] = "tag" /\ seen[i][o] # {}) \/ System[i] \in tags[o]
      <4>1. CASE i = j
        <5>1. imported'[k][o] = 2 => seen[j][o] # {}
          BY <2>1, <2>3, <2>10, <3>1 DEF Bounded
        <5>. QED
          BY <2>4, <2>10, <4>1, <5>1
      <4>2. CASE i # j
        <5>1. System[i] \in Systems \ {k} /\ task'[i][o] = task[i][o]
          BY <2>2, <4>2 DEF OneWriterEach
        <5>. QED
          BY <2>3, <2>10, <3>1, <5>1 DEF Bounded
      <4>. QED
        BY <4>1, <4>2
    <3>5. Bounded(o)'
      BY <2>1, <2>3, <3>3, <3>4 DEF Bounded
    <3>. QED
      BY <2>8, <3>5 DEF ImportsBounded
  <2>. QED
    BY <1>0, <1>6, <2>2, <2>9, <2>10 DEF Import, Readable
<1>7. ASSUME NEW j \in Jobs, NEW o \in Reports, PutTags(j, o) PROVE ImportsBounded'
  <2>. DEFINE k == System[j]
  <2>1. /\ UNCHANGED <<uploaded, live, seen, imported>> /\ task[j][o] = "tag" /\ k \in Systems
    BY <1>7 DEF PutTags
  <2>2. /\ task'[j][o] = "done"
        /\ \A i \in Jobs, p \in Reports : i # j \/ p # o => task'[i][p] = task[i][p]
        /\ \A p \in Reports \ {o} : tags'[p] = tags[p]
    BY <1>7, PutEffect
  <2>3. o \in live => tags'[o] = seen[j][o] \cup {k}
    BY <1>0, <1>7 DEF PutTags, NothingFails, NewTags, TypeOK
  <2>4. o \in uploaded /\ Bounded(o) /\ Apart(o)
    BY <2>1 DEF ImportsBounded, Bounded, WritersApart
  <2>5. /\ Handles(k, o) /\ k \notin tags[o] /\ seen[j][o] \subseteq tags[o]
        /\ tags[o] \subseteq Systems
    BY <2>1, <2>4 DEF Apart, TypeOK
  <2>6. ASSUME NEW p \in Reports, p # o PROVE Bounded(p)'
    <3>1. \A i \in Jobs : p \notin uploaded' => task'[i][p] = "none"
      BY <2>1, <2>2, <2>6 DEF ImportsBounded, Bounded
    <3>. QED
      BY <1>1, <2>1, <2>2, <2>6, <3>1
  <2>7. ASSUME NEW i \in Jobs, o \in live
        PROVE  /\ imported[System[i]][o] = 1 /\ task'[i][o] = "import" => seen[i][o] # {}
               /\ imported[System[i]][o] = 2 =>
                    /\ tags'[o] \ {System[i]} # {}
                    /\ (task'[i][o] = "tag" /\ seen[i][o] # {}) \/ System[i] \in tags'[o]
    <3>1. CASE i = j
      <4>1. imported[k][o] = 2 => seen[j][o] # {}
        BY <2>4, <2>5, <2>7 DEF Bounded
      <4>. QED
        BY <2>2, <2>3, <2>5, <2>7, <3>1, <4>1
    <3>2. CASE i # j
      <4>1. System[i] \in Systems /\ System[i] # k /\ task'[i][o] = task[i][o]
        BY <2>2, <3>2 DEF OneWriterEach
      <4>2. ASSUME imported[System[i]][o] = 2 PROVE FALSE
        <5>1. Handles(System[i], o) /\ \E x \in tags[o] : x # System[i]
          BY <2>4, <2>7, <4>1, <4>2, TwiceKnown
        <5>2. PICK x \in tags[o] : x # System[i]
          BY <5>1
        <5>3. x \in Systems /\ Handles(x, o) /\ x # k
          BY <2>4, <2>5 DEF Apart
        <5>. QED
          BY <2>1, <2>5, <4>1, <5>1, <5>2, <5>3, TwoHandle
      <4>. QED
        BY <2>4, <2>7, <4>1, <4>2 DEF Bounded
    <3>. QED
      BY <3>1, <3>2
  <2>8. Bounded(o)'
    <3>1. o \in live => tags'[o] # {}
      BY <2>3
    <3>. QED
      BY <2>1, <2>4, <2>7, <3>1 DEF Bounded
  <2>. QED
    BY <2>6, <2>8 DEF ImportsBounded
<1>8. ASSUME UNCHANGED <<uploaded, tags, task, seen, imported>>, live' \subseteq live
      PROVE  ImportsBounded'
  BY <1>8 DEF ImportsBounded, Bounded
<1>9. ASSUME NEW c \in Configs, CleanStep(c)
      PROVE  UNCHANGED <<uploaded, tags, task, seen, imported>> /\ live' \subseteq live
  BY <1>9 DEF CleanStep, ListBucket, Check, Copy, Delete
<1>10. CASE Cleanup \/ CleanupCrash \/ UNCHANGED vars
  BY <1>8, <1>10 DEF Cleanup, CleanupCrash, vars
<1>11. ASSUME NEW j \in Jobs PROVE ~Crash(j) /\ \A o \in Reports : ~PollPanic(j, o)
  BY <1>0 DEF Crash, PollPanic
<1>. QED
  BY <1>2, <1>3, <1>4, <1>5, <1>6, <1>7, <1>8, <1>9, <1>10, <1>11 DEF Next, JobStep, TaskStep

\* When one job imports for each system, the lost update of a tag never hits a
\* report that carries all tags of an entry, whatever fails.
THEOREM FullTagsStayCorrect ==
  ASSUME OneWriterEach, RequiresBoth PROVE Spec => FullTagsStay
<1>1. Init => WritersApart
  BY DEF Init, WritersApart, Apart
<1>2. IndInv /\ WritersApart /\ [Next]_vars => WritersApart'
  BY WritersStep
<1>3. IndInv /\ WritersApart /\ [Next]_vars =>
        [\A o \in Reports, c \in Configs :
           Required[c] \subseteq tags[o] => Required[c] \subseteq tags'[o]]_vars
  BY FullTagsStep
<1>. QED
  BY <1>1, <1>2, <1>3, IndInvInvariant, PTL DEF Spec, FullTagsStay

\* When moreover nothing fails and every job tags, it costs one import: no
\* system imports a report a third time, and of the systems that an entry
\* requires only one imports it twice.
THEOREM DuplicateBoundCorrect ==
  ASSUME OneWriterEach, NothingFails PROVE Spec => []DuplicateBound
<1>1. Init => WritersApart /\ ImportsBounded
  BY DEF Init, WritersApart, Apart, ImportsBounded, Bounded
<1>2. IndInv /\ WritersApart /\ ImportsBounded /\ [Next]_vars => WritersApart' /\ ImportsBounded'
  BY WritersStep, BoundedStep
<1>3. IndInv /\ ImportsBounded => DuplicateBound
  <2>. SUFFICES ASSUME IndInv, ImportsBounded, NEW o \in Reports, NEW c \in Configs
                PROVE  /\ \A k \in Required[c] : imported[k][o] <= 2
                       /\ Cardinality({k \in Required[c] : imported[k][o] = 2}) <= 1
    BY DEF DuplicateBound
  <2>. DEFINE twice == {k \in Required[c] : imported[k][o] = 2}
  <2>1. Required[c] \subseteq Systems /\ Bounded(o)
    BY PipelineAssumption DEF ImportsBounded
  <2>2. \A k \in Required[c] : imported[k][o] <= 2
    BY <2>1 DEF Bounded
  <2>3. ASSUME twice = {} PROVE Cardinality(twice) <= 1
    <3>1. Cardinality({}) = 0
      BY FS_EmptySet
    <3>. QED
      BY <2>3, <3>1
  <2>4. ASSUME twice # {} PROVE Cardinality(twice) <= 1
    <3>1. PICK k \in twice : TRUE
      BY <2>4
    <3>2. twice = {k}
      BY <2>1, <3>1 DEF Bounded
    <3>3. Cardinality({k}) = 1
      BY FS_Singleton
    <3>4. Cardinality(twice) = 1
      BY <3>2, <3>3, Zenon
    <3>. HIDE DEF twice
    <3>. QED
      BY <3>4
  <2>5. Cardinality(twice) <= 1
    BY <2>3, <2>4
  <2>. QED
    BY <2>2, <2>5
<1>. QED
  BY <1>1, <1>2, <1>3, IndInvInvariant, PTL DEF Spec

=============================================================================
