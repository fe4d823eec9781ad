------------------------- MODULE ProductTestsProofs -------------------------
(***************************************************************************)
(* Proofs about ProductTests, for every number of tests, all secrets, any  *)
(* pods left over, watches that close or not, and any number of faults.    *)
(* First what the helpers of the actions do, then one lemma per conjunct   *)
(* of IndInv with one step per action; the theorems read the properties    *)
(* off IndInv.                                                             *)
(***************************************************************************)
EXTENDS ProductTests, FiniteSetTheorems, TLAPS

\* The fault counter stays within its bound.
LEMMA FaultEffect ==
  ASSUME TypeOK, Fault \/ UNCHANGED faults
  PROVE  faults' \in 0 .. MaxFaults
  BY TestsAssumption DEF Fault, TypeOK

Places == [Tests -> {"off", "create", "poll", "open", "wait", "complete",
                     "delete", "report", "done"}]

\* Goto moves a goroutine to one of its places.
LEMMA GotoType ==
  ASSUME TypeOK, NEW t \in Tests,
         NEW p \in {"poll", "open", "wait", "complete", "delete", "report", "done"},
         Goto(t, p)
  PROVE  pc' \in Places
  BY DEF Goto, TypeOK, Places

\* A change of one pod leaves all others alone.
LEMMA PodEffect ==
  ASSUME TypeOK, NEW t \in Tests, NEW p \in Pod, NEW s \in PodState,
         pods' = [pods EXCEPT ![t][p] = s]
  PROVE  /\ pods' \in [Tests -> [Pod -> PodState]]
         /\ pods'[t][p] = s
         /\ \A q \in Pod \ {p} : pods'[t][q] = pods[t][q]
<1>. DEFINE row == [pods[t] EXCEPT ![p] = s]
<1>1. pods' = [pods EXCEPT ![t] = row]
  OBVIOUS
<1>2. pods[t] \in [Pod -> PodState] /\ pods \in [Tests -> [Pod -> PodState]]
  BY DEF TypeOK
<1>3. row \in [Pod -> PodState] /\ row[p] = s /\ \A q \in Pod \ {p} : row[q] = pods[t][q]
  BY <1>2
<1>. HIDE DEF row
<1>. QED
  BY <1>1, <1>2, <1>3

\* A Modified event is appended to the channel of an open watch.
LEMMA NotifyEffect ==
  ASSUME TypeOK, NEW t \in Tests, NEW s \in PodState, Notify(t, s)
  PROVE  /\ events' \in [Tests -> Seq(PodState)]
         /\ \A u \in Tests \ {t} : events'[u] = events[u]
         /\ watch[t] # "open" => events'[t] = events[t]
         /\ watch[t] = "open" => events'[t] = Append(events[t], s)
<1>1. events \in [Tests -> Seq(PodState)] /\ events[t] \in Seq(PodState)
  BY DEF TypeOK
<1>2. Append(events[t], s) \in Seq(PodState)
  BY <1>1
<1>3. CASE watch[t] = "open"
  <2>1. events' = [events EXCEPT ![t] = Append(events[t], s)]
    BY <1>3 DEF Notify
  <2>. QED
    BY <1>1, <1>2, <1>3, <2>1
<1>4. CASE watch[t] # "open"
  BY <1>1, <1>4 DEF Notify
<1>. QED
  BY <1>3, <1>4

\* What a closed watch still delivers is a beginning of what it had to deliver.
LEMMA CloseEffect ==
  ASSUME TypeOK, NEW t \in Tests, WatchCloses(t)
  PROVE  /\ events' \in [Tests -> Seq(PodState)]
         /\ \A u \in Tests \ {t} : events'[u] = events[u]
         /\ \A i \in DOMAIN events'[t] : i \in DOMAIN events[t] /\ events'[t][i] = events[t][i]
<1>1. events \in [Tests -> Seq(PodState)]
  BY DEF TypeOK
<1>2. PICK k \in 0 .. Len(events[t]) : events' = [events EXCEPT ![t] = SubSeq(@, 1, k)]
  BY DEF WatchCloses
<1>. DEFINE old == events[t]
            new == SubSeq(old, 1, k)
<1>3. old \in Seq(PodState) /\ k \in Nat /\ k <= Len(old)
  BY <1>1, <1>2
<1>4. /\ new \in Seq(PodState)
      /\ \A i \in DOMAIN new : i \in DOMAIN old /\ new[i] = old[i]
  BY <1>3
<1>5. events'[t] = new /\ \A u \in Tests \ {t} : events'[u] = events[u]
  BY <1>1, <1>2
<1>. QED
  BY <1>1, <1>2, <1>4, <1>5

\* The goroutines at work are finitely many.
LEMMA ActiveFinite ==
  /\ IsFiniteSet(Active) /\ Cardinality(Active) \in 0 .. N
  /\ Cardinality(Active) = 0 <=> Active = {}
<1>1. IsFiniteSet(Tests) /\ Cardinality(Tests) = N
  BY FS_Interval, TestsAssumption DEF Tests
<1>2. Active \in SUBSET Tests
  BY DEF Active
<1>. QED
  BY <1>1, <1>2, FS_Subset, FS_CardinalityType, FS_EmptySet, TestsAssumption

\* The steps of main keep the types.
LEMMA MainTypes ==
  ASSUME TypeOK, Counted, MainStep
  PROVE  TypeOK'
<1>. USE TestsAssumption DEF main, go, cluster
<1>1. faults' \in 0 .. MaxFaults
  BY FaultEffect DEF MainStep, Prepare, NextTest, EndLoop, Wait, Teardown
<1>2. CASE Prepare
  BY <1>1, <1>2 DEF Prepare, Return, TypeOK
<1>3. CASE NextTest
  <2>1. cur + 1 \in Tests /\ cur' = cur + 1 /\ mPc' \in {mPc, "end"} /\ ret' \in {ret, "err"}
    BY <1>3 DEF NextTest, Return, TypeOK, Tests
  <2>2. secrets' \subseteq Names
    BY <1>3 DEF NextTest, TypeOK
  <2>3. /\ wg' \in 0 .. N
        /\ pc' \in [Tests -> {"off", "create", "poll", "open", "wait", "complete",
                              "delete", "report", "done"}]
    <3>1. CASE UNCHANGED <<wg, pc>>
      BY <3>1 DEF TypeOK
    <3>2. CASE Launch(cur + 1)
      <4>1. wg < N
        <5>1. Active \in SUBSET (Tests \ {cur + 1})
          BY <2>1 DEF Active, Counted, Tests, TypeOK
        <5>2. IsFiniteSet(Tests) /\ Cardinality(Tests) = N
          BY FS_Interval DEF Tests
        <5>3. IsFiniteSet(Tests \ {cur + 1}) /\ Cardinality(Tests \ {cur + 1}) = N - 1
          BY <2>1, <5>2, FS_RemoveElement
        <5>4. Cardinality(Active) <= N - 1
          BY <5>1, <5>3, FS_Subset
        <5>. QED
          BY <5>4, ActiveFinite DEF Counted
      <4>2. wg + 1 \in 0 .. N
        BY <4>1 DEF TypeOK
      <4>3. pc' = [pc EXCEPT ![cur + 1] = "create"] /\ wg' = wg + 1
        BY <3>2 DEF Launch
      <4>. QED
        BY <4>2, <4>3 DEF TypeOK
    <3>. QED
      BY <1>3, <3>1, <3>2 DEF NextTest
  <2>4. UNCHANGED <<cleanup, ns, pick, result, verdict, success, cluster, watch, events>>
    BY <1>3 DEF NextTest
  <2>5. cur' \in 0 .. N
    BY <2>1 DEF Tests
  <2>6. mPc' \in {"prepare", "loop", "wait", "clean", "end"} /\ ret' \in {"none", "ok", "err"}
    BY <2>1 DEF TypeOK
  <2>. QED
    BY <1>1, <2>2, <2>3, <2>4, <2>5, <2>6 DEF TypeOK
<1>4. CASE EndLoop
  BY <1>4 DEF EndLoop, TypeOK
<1>5. CASE Wait
  BY <1>5 DEF Wait, Return, TypeOK
<1>6. CASE Teardown
  BY <1>1, <1>6 DEF Teardown, Return, TypeOK
<1>. QED
  BY <1>2, <1>3, <1>4, <1>5, <1>6 DEF MainStep

\* The steps of a goroutine keep the types.
LEMMA GoTypes ==
  ASSUME TypeOK, Counted, NEW t \in Tests, GoStep(t)
  PROVE  TypeOK'
<1>. USE TestsAssumption DEF main, go, cluster
<1>1. CASE CreateJob(t)
  <2>1. faults' \in 0 .. MaxFaults
    BY <1>1, FaultEffect DEF CreateJob
  <2>. QED
    BY <1>1, <2>1 DEF CreateJob, Goto, GiveUp, TypeOK
<1>2. CASE FindPod(t)
  <2>1. faults' \in 0 .. MaxFaults
    BY <1>2, FaultEffect DEF FindPod
  <2>2. pc' \in Places
    BY <1>2, GotoType DEF FindPod, GiveUp
  <2>3. pick' \in [Tests -> Pod \cup {"none"}]
    BY <1>2 DEF FindPod, GiveUp, TypeOK
  <2>4. UNCHANGED <<main, ns, wg, result, verdict, success, cluster, watch, events>>
    BY <1>2 DEF FindPod, GiveUp
  <2>. QED
    BY <2>1, <2>2, <2>3, <2>4 DEF TypeOK, Places
<1>3. CASE OpenWatch(t)
  <2>1. faults' \in 0 .. MaxFaults
    BY <1>3, FaultEffect DEF OpenWatch
  <2>2. pc' \in Places
    BY <1>3, GotoType DEF OpenWatch, GiveUp
  <2>3. watch' \in [Tests -> {"none", "open", "closed", "stopped"}]
    BY <1>3 DEF OpenWatch, TypeOK
  <2>4. UNCHANGED <<main, ns, wg, pick, result, verdict, success, cluster, events>>
    BY <1>3 DEF OpenWatch, GiveUp
  <2>. QED
    BY <2>1, <2>2, <2>3, <2>4 DEF TypeOK, Places
<1>4. CASE HandleEvent(t)
  <2>1. pc' \in Places
    BY <1>4, GotoType DEF HandleEvent, Places, TypeOK
  <2>2. result' \in [Tests -> Exited \cup {"none"}]
    BY <1>4 DEF HandleEvent, TypeOK
  <2>3. watch' \in [Tests -> {"none", "open", "closed", "stopped"}]
    BY <1>4 DEF HandleEvent, StopWatch, TypeOK
  <2>4. events' \in [Tests -> Seq(PodState)]
    <3>1. events[t] \in Seq(PodState) /\ events[t] # <<>>
      BY <1>4 DEF HandleEvent, TypeOK
    <3>2. Tail(events[t]) \in Seq(PodState) /\ <<>> \in Seq(PodState)
      BY <3>1
    <3>3. \/ events' = [events EXCEPT ![t] = Tail(events[t])]
          \/ events' = [events EXCEPT ![t] = <<>>]
      BY <1>4 DEF HandleEvent, StopWatch
    <3>. QED
      BY <3>2, <3>3 DEF TypeOK
  <2>5. UNCHANGED <<main, ns, wg, pick, verdict, success, cluster, faults>>
    BY <1>4 DEF HandleEvent
  <2>. QED
    BY <2>1, <2>2, <2>3, <2>4, <2>5 DEF TypeOK, Places
<1>5. CASE Timeout(t)
  <2>1. events' \in [Tests -> Seq(PodState)]
    BY <1>5 DEF Timeout, StopWatch, TypeOK
  <2>. QED
    BY <1>5, <2>1 DEF Timeout, StopWatch, Goto, GiveUp, TypeOK
<1>6. CASE Spin(t)
  BY <1>6 DEF Spin, vars, TypeOK
<1>7. CASE CompleteJob(t)
  <2>1. faults' \in 0 .. MaxFaults
    BY <1>7, FaultEffect DEF CompleteJob
  <2>. QED
    BY <1>7, <2>1 DEF CompleteJob, Goto, GiveUp, TypeOK
<1>8. CASE DeleteJob(t)
  <2>1. faults' \in 0 .. MaxFaults
    BY <1>8, FaultEffect DEF DeleteJob
  <2>. QED
    BY <1>8, <2>1 DEF DeleteJob, Goto, GiveUp, Passed, TypeOK
<1>9. CASE Report(t)
  <2>1. wg # 0
    BY <1>9, ActiveFinite DEF Report, At, Active, Counted
  <2>2. wg' \in 0 .. N
    BY <1>9, <2>1 DEF Report, TypeOK
  <2>3. pc' \in Places
    BY <1>9, GotoType DEF Report
  <2>4. success' \in [Tests -> BOOLEAN]
    <3>1. verdict[t] \in BOOLEAN /\ success \in [Tests -> BOOLEAN]
      BY DEF TypeOK
    <3>2. success' = [success EXCEPT ![cur] = verdict[t]]
      BY <1>9 DEF Report
    <3>. QED
      BY <3>1, <3>2
  <2>5. UNCHANGED <<main, ns, pick, result, verdict, cluster, watch, events, faults>>
    BY <1>9 DEF Report
  <2>. QED
    BY <2>2, <2>3, <2>4, <2>5 DEF TypeOK, Places
<1>. QED
  BY <1>1, <1>2, <1>3, <1>4, <1>5, <1>6, <1>7, <1>8, <1>9 DEF GoStep

\* The steps of the cluster keep the types.
LEMMA EnvTypes ==
  ASSUME TypeOK, NEW t \in Tests, Env(t)
  PROVE  TypeOK'
<1>. USE TestsAssumption DEF main, go, cluster
<1>1. "run" \in PodState /\ "absent" \in PodState /\ Exited \subseteq PodState /\ "old" \in Pod /\ "new" \in Pod
  BY DEF PodState, Exited, Pod
<1>2. CASE PodStarts(t)
  <2>1. pods' \in [Tests -> [Pod -> PodState]]
    BY <1>1, <1>2, PodEffect DEF PodStarts
  <2>. QED
    BY <1>2, <2>1 DEF PodStarts, TypeOK
<1>3. CASE OldPodGone(t)
  <2>1. pods' \in [Tests -> [Pod -> PodState]]
    BY <1>1, <1>3, PodEffect DEF OldPodGone
  <2>. QED
    BY <1>3, <2>1 DEF OldPodGone, TypeOK
<1>4. CASE WatchCloses(t)
  <2>1. watch' = [watch EXCEPT ![t] = "closed"] /\ events' \in [Tests -> Seq(PodState)]
    BY <1>4, CloseEffect DEF WatchCloses
  <2>. QED
    BY <1>4, <2>1 DEF WatchCloses, TypeOK
<1>5. ASSUME NEW p \in Pod, PodExits(t, p) PROVE TypeOK'
  <2>1. PICK s \in Exited : pods' = [pods EXCEPT ![t][p] = s] /\ Notify(t, s)
    BY <1>5 DEF PodExits
  <2>2. pods' \in [Tests -> [Pod -> PodState]] /\ events' \in [Tests -> Seq(PodState)]
    BY <1>1, <2>1, PodEffect, NotifyEffect
  <2>. QED
    BY <1>5, <2>2 DEF PodExits, TypeOK
<1>6. ASSUME NEW p \in Pod, PodTouched(t, p) PROVE TypeOK'
  <2>1. pods[t][p] \in PodState
    BY DEF TypeOK
  <2>2. events' \in [Tests -> Seq(PodState)]
    BY <1>6, <2>1, NotifyEffect DEF PodTouched
  <2>. QED
    BY <1>6, <2>2 DEF PodTouched, TypeOK
<1>. QED
  BY <1>2, <1>3, <1>4, <1>5, <1>6 DEF Env

\* Every step keeps the types.
LEMMA TypeStep ==
  ASSUME IndInv, [Next]_vars
  PROVE  TypeOK'
<1>1. CASE UNCHANGED vars
  BY <1>1 DEF vars, main, go, cluster, IndInv, TypeOK
<1>2. CASE Returned
  BY <1>1, <1>2 DEF Returned
<1>. QED
  BY <1>1, <1>2, MainTypes, GoTypes, EnvTypes DEF Next, IndInv

\* Main touches no channel, no pod and no goroutine but the one it starts.
LEMMA MainLocal ==
  ASSUME MainStep
  PROVE  UNCHANGED <<pick, result, verdict, watch, events, pods>>
  BY DEF MainStep, Prepare, NextTest, EndLoop, Wait, Teardown, main, go, cluster

\* A goroutine changes nothing that belongs to another test, and no pod.
LEMMA GoLocal ==
  ASSUME TypeOK, NEW t \in Tests, GoStep(t)
  PROVE  /\ UNCHANGED <<main, pods>>
         /\ \A u \in Tests \ {t} :
              /\ pc'[u] = pc[u] /\ pick'[u] = pick[u] /\ result'[u] = result[u]
              /\ verdict'[u] = verdict[u] /\ watch'[u] = watch[u] /\ events'[u] = events[u]
<1>. USE DEF main, go, cluster, Goto, GiveUp, StopWatch, TypeOK
<1>1. CASE CreateJob(t)
  BY <1>1 DEF CreateJob
<1>2. CASE FindPod(t)
  BY <1>2 DEF FindPod
<1>3. CASE OpenWatch(t)
  BY <1>3 DEF OpenWatch
<1>4. CASE HandleEvent(t)
  BY <1>4 DEF HandleEvent
<1>5. CASE Timeout(t)
  BY <1>5 DEF Timeout
<1>6. CASE Spin(t)
  BY <1>6 DEF Spin, vars
<1>7. CASE CompleteJob(t)
  BY <1>7 DEF CompleteJob
<1>8. CASE DeleteJob(t)
  BY <1>8 DEF DeleteJob
<1>9. CASE Report(t)
  BY <1>9 DEF Report
<1>. QED
  BY <1>1, <1>2, <1>3, <1>4, <1>5, <1>6, <1>7, <1>8, <1>9 DEF GoStep

\* The cluster does not move a goroutine, and touches one test at a time.
LEMMA EnvLocal ==
  ASSUME TypeOK, NEW t \in Tests, Env(t)
  PROVE  /\ UNCHANGED <<main, wg, go>>
         /\ \A u \in Tests \ {t} :
              /\ pods'[u] = pods[u]
              /\ watch'[u] = watch[u] /\ events'[u] = events[u]
<1>1. CASE PodStarts(t)
  BY <1>1 DEF PodStarts, TypeOK
<1>2. CASE OldPodGone(t)
  BY <1>2 DEF OldPodGone, TypeOK
<1>3. CASE WatchCloses(t)
  BY <1>3 DEF WatchCloses, TypeOK, cluster
<1>4. ASSUME NEW p \in Pod, PodExits(t, p)
      PROVE  /\ UNCHANGED <<main, wg, go>>
             /\ \A u \in Tests \ {t} :
                  /\ pods'[u] = pods[u]
                  /\ watch'[u] = watch[u] /\ events'[u] = events[u]
  BY <1>4 DEF PodExits, Notify, TypeOK
<1>5. ASSUME NEW p \in Pod, PodTouched(t, p)
      PROVE  /\ UNCHANGED <<main, wg, go>>
             /\ \A u \in Tests \ {t} :
                  /\ pods'[u] = pods[u]
                  /\ watch'[u] = watch[u] /\ events'[u] = events[u]
  BY <1>5 DEF PodTouched, Notify, TypeOK
<1>. QED
  BY <1>1, <1>2, <1>3, <1>4, <1>5 DEF Env

\* A goroutine is at work before each of its steps, and after all but Report.
LEMMA GoActive ==
  ASSUME TypeOK, NEW t \in Tests, GoStep(t)
  PROVE  /\ ret = "none" /\ t \in Active
         /\ \/ Report(t) /\ Active' = Active \ {t}
            \/ UNCHANGED wg /\ Active' = Active
<1>1. ret = "none" /\ pc[t] \notin {"off", "done"}
  BY DEF GoStep, CreateJob, FindPod, OpenWatch, HandleEvent, Timeout, Spin,
         CompleteJob, DeleteJob, Report, At
<1>2. \A u \in Tests \ {t} : pc'[u] = pc[u]
  BY GoLocal
<1>3. CASE Report(t)
  <2>1. pc'[t] = "done"
    BY <1>3 DEF Report, Goto, TypeOK
  <2>. QED
    BY <1>1, <1>2, <1>3, <2>1 DEF Active
<1>4. CASE ~Report(t)
  <2>1. UNCHANGED wg
    BY <1>4 DEF GoStep, CreateJob, FindPod, OpenWatch, HandleEvent, Timeout, Spin,
                CompleteJob, DeleteJob, vars
  <2>2. pc'[t] \notin {"off", "done"}
    BY <1>1, <1>4 DEF GoStep, CreateJob, FindPod, OpenWatch, HandleEvent, Timeout, Spin,
                CompleteJob, DeleteJob, vars, go, Goto, GiveUp, TypeOK
  <2>. QED
    BY <1>1, <1>2, <2>1, <2>2 DEF Active
<1>. QED
  BY <1>3, <1>4

\* Every step keeps the count of the goroutines at work.
LEMMA CountedStep ==
  ASSUME IndInv, [Next]_vars
  PROVE  Counted'
<1>. USE TestsAssumption DEF IndInv
<1>1. ASSUME UNCHANGED <<main, wg, pc>> PROVE Counted'
  <2>1. Active' = Active
    BY <1>1 DEF Active
  <2>. QED
    BY <1>1, <2>1 DEF Counted, main
<1>2. CASE MainStep /\ ~NextTest
  <2>1. UNCHANGED <<wg, pc, cur>> /\ Active' = Active
    BY <1>2 DEF MainStep, Prepare, EndLoop, Wait, Teardown, go, main, Active
  <2>2. ret' # "none" <=> mPc' = "end"
    BY <1>2 DEF MainStep, Prepare, EndLoop, Wait, Teardown, Return, main, Counted
  <2>3. mPc' = "clean" => Active = {}
    BY <1>2, ActiveFinite DEF MainStep, Prepare, EndLoop, Wait, Teardown, Return, Counted
  <2>. QED
    BY <2>1, <2>2, <2>3 DEF Counted
<1>3. CASE NextTest
  <2>1. cur + 1 \in Tests /\ cur' = cur + 1 /\ mPc = "loop" /\ ret = "none"
    BY <1>3 DEF NextTest, Tests, TypeOK, Counted
  <2>2. mPc' # "clean" /\ (ret' # "none" <=> mPc' = "end")
    BY <1>3, <2>1 DEF NextTest, Return
  <2>3. CASE UNCHANGED <<wg, pc>>
    <3>1. Active' = Active
      BY <2>3 DEF Active
    <3>. QED
      BY <2>1, <2>2, <2>3, <3>1 DEF Counted, Tests, TypeOK
  <2>4. CASE Launch(cur + 1)
    <3>1. pc' = [pc EXCEPT ![cur + 1] = "create"] /\ wg' = wg + 1
      BY <2>4 DEF Launch
    <3>2. cur + 1 \notin Active
      BY <2>1 DEF Active, Counted, Tests, TypeOK
    <3>3. Active' = Active \cup {cur + 1}
      BY <2>1, <3>1 DEF Active, TypeOK
    <3>4. Cardinality(Active \cup {cur + 1}) = Cardinality(Active) + 1
      BY <3>2, ActiveFinite, FS_AddElement
    <3>5. \A t \in Tests : t > cur' => pc'[t] = "off"
      BY <2>1, <3>1 DEF Counted, Tests, TypeOK
    <3>. QED
      BY <2>2, <3>1, <3>3, <3>4, <3>5 DEF Counted
  <2>. QED
    BY <1>3, <2>3, <2>4 DEF NextTest
<1>4. ASSUME NEW t \in Tests, GoStep(t) PROVE Counted'
  <2>1. UNCHANGED main /\ ret = "none" /\ t \in Active
    BY <1>4, GoLocal, GoActive
  <2>2. \A u \in Tests : u > cur => pc'[u] = "off"
    <3>1. \A u \in Tests : u > cur => u # t /\ pc[u] = "off"
      BY <2>1 DEF Counted, Active
    <3>. QED
      BY <1>4, <3>1, GoLocal
  <2>3. CASE Report(t) /\ Active' = Active \ {t}
    <3>1. Cardinality(Active \ {t}) = Cardinality(Active) - 1
      BY <2>1, ActiveFinite, FS_RemoveElement
    <3>2. wg' = wg - 1
      BY <2>3 DEF Report
    <3>. QED
      BY <2>1, <2>2, <2>3, <3>1, <3>2 DEF Counted, main
  <2>4. CASE UNCHANGED wg /\ Active' = Active
    BY <2>1, <2>2, <2>4 DEF Counted, main
  <2>. QED
    BY <1>4, <2>3, <2>4, GoActive
<1>5. ASSUME NEW t \in Tests, Env(t) PROVE Counted'
  BY <1>1, <1>5, EnvLocal DEF go
<1>6. CASE Returned \/ UNCHANGED vars
  BY <1>1, <1>6 DEF Returned, vars, go
<1>. QED
  BY <1>2, <1>3, <1>4, <1>5, <1>6 DEF Next

\* run() returns nil from the wait or the teardown only, with nothing at work.
LEMMA AllDoneStep ==
  ASSUME IndInv, [Next]_vars
  PROVE  AllDoneAtReturn'
<1>. USE TestsAssumption DEF IndInv
<1>1. AllDoneAtReturn <=> (ret = "ok" => Active = {})
  BY DEF AllDoneAtReturn, Active
<1>2. AllDoneAtReturn' <=> (ret' = "ok" => Active' = {})
  BY DEF AllDoneAtReturn, Active
<1>3. CASE MainStep
  <2>1. CASE ret' # "ok"
    BY <1>2, <2>1
  <2>2. CASE ret' = "ok"
    <3>1. ret = "none"
      BY <1>3 DEF MainStep, Prepare, NextTest, EndLoop, Wait, Teardown, Counted
    <3>2. Wait \/ Teardown
      BY <1>3, <2>2, <3>1 DEF MainStep, Prepare, NextTest, EndLoop, Return, main
    <3>3. UNCHANGED pc /\ Active = {}
      BY <3>2, ActiveFinite DEF Wait, Teardown, Counted, go
    <3>. QED
      BY <1>2, <3>3 DEF Active
  <2>. QED
    BY <2>1, <2>2
<1>4. ASSUME NEW t \in Tests, GoStep(t) PROVE AllDoneAtReturn'
  BY <1>2, <1>4, GoLocal, GoActive DEF main
<1>5. ASSUME UNCHANGED <<ret, pc>> PROVE AllDoneAtReturn'
  BY <1>5 DEF AllDoneAtReturn
<1>6. ASSUME NEW t \in Tests, Env(t) PROVE AllDoneAtReturn'
  BY <1>5, <1>6, EnvLocal DEF main, go
<1>7. CASE Returned \/ UNCHANGED vars
  BY <1>5, <1>7 DEF Returned, vars, main, go
<1>. QED
  BY <1>3, <1>4, <1>6, <1>7 DEF Next

\* A goroutine's own steps keep what it knows of its pod.
LEMMA GoOwnExit ==
  ASSUME TypeOK, NEW t \in Tests, OwnExit(t), GoStep(t)
  PROVE  OwnExit(t)'
<1>. USE DEF OwnExit, At, Goto, GiveUp, go, cluster
<1>1. CASE CreateJob(t)
  BY <1>1 DEF CreateJob, TypeOK
<1>2. CASE FindPod(t)
  <2>1. UNCHANGED <<result, verdict, pods, watch, events>> /\ pc[t] = "poll"
    BY <1>2 DEF FindPod
  <2>2. pick[t] = "none" /\ watch[t] = "none" /\ events[t] = <<>> /\ result[t] = "none" /\ ~verdict[t]
    BY <2>1
  <2>3. CASE GiveUp(t)
    BY <2>1, <2>2, <2>3 DEF TypeOK
  <2>4. ASSUME NEW p \in Pod, Existing(t) = {p}, pick' = [pick EXCEPT ![t] = p], Goto(t, "open")
        PROVE  OwnExit(t)'
    <3>1. pick'[t] = p /\ pc'[t] = "open" /\ p # "none"
      BY <2>4 DEF TypeOK, Pod
    <3>2. p = "new" => pods[t]["old"] = "absent"
      BY <2>4 DEF Existing, Pod
    <3>. QED
      BY <2>1, <2>2, <3>1, <3>2
  <2>. QED
    BY <1>2, <2>3, <2>4 DEF FindPod
<1>3. CASE OpenWatch(t)
  BY <1>3 DEF OpenWatch, TypeOK
<1>4. CASE HandleEvent(t)
  <2>1. UNCHANGED <<pick, verdict, pods>> /\ pc[t] = "wait" /\ pick[t] # "none" /\ watch[t] # "none" /\ ~verdict[t]
    BY <1>4 DEF HandleEvent
  <2>2. events[t] \in Seq(PodState) /\ events[t] # <<>>
    BY <1>4 DEF HandleEvent, TypeOK
  <2>3. 1 \in DOMAIN events[t] /\ Head(events[t]) = events[t][1]
    BY <2>2
  <2>4. CASE Head(events[t]) \in Exited
    <3>1. /\ result'[t] = Head(events[t]) /\ pc'[t] = "complete"
          /\ watch'[t] = "stopped" /\ events'[t] = <<>>
      BY <1>4, <2>4 DEF HandleEvent, StopWatch, TypeOK
    <3>2. pick[t] = "new" => pods[t]["new"] = Head(events[t])
      BY <2>3, <2>4
    <3>3. DOMAIN events'[t] = {}
      BY <3>1
    <3>. QED
      BY <2>1, <3>1, <3>2, <3>3
  <2>5. CASE Head(events[t]) \notin Exited
    <3>1. UNCHANGED <<pc, result, watch>> /\ events'[t] = Tail(events[t])
      BY <1>4, <2>5 DEF HandleEvent, TypeOK
    <3>2. \A i \in DOMAIN Tail(events[t]) : i + 1 \in DOMAIN events[t] /\ Tail(events[t])[i] = events[t][i + 1]
      BY <2>2
    <3>. QED
      BY <2>1, <3>1, <3>2
  <2>. QED
    BY <2>4, <2>5
<1>5. CASE Timeout(t)
  <2>1. /\ UNCHANGED <<pick, result, verdict, pods>> /\ pc[t] = "wait"
        /\ pc'[t] = "report" /\ watch'[t] = "stopped" /\ events'[t] = <<>>
    BY <1>5 DEF Timeout, StopWatch, TypeOK
  <2>2. DOMAIN events'[t] = {}
    BY <2>1
  <2>. QED
    BY <2>1, <2>2
<1>6. CASE Spin(t)
  BY <1>6 DEF Spin, vars
<1>7. CASE CompleteJob(t)
  BY <1>7 DEF CompleteJob, TypeOK
<1>8. CASE DeleteJob(t)
  BY <1>8 DEF DeleteJob, Passed, TypeOK
<1>9. CASE Report(t)
  BY <1>9 DEF Report, TypeOK
<1>. QED
  BY <1>1, <1>2, <1>3, <1>4, <1>5, <1>6, <1>7, <1>8, <1>9 DEF GoStep

\* The cluster's steps keep it: only the one pod of the test can still exit.
LEMMA EnvOwnExit ==
  ASSUME TypeOK, NEW t \in Tests, OwnExit(t), Env(t)
  PROVE  OwnExit(t)'
<1>. USE DEF OwnExit, go
<1>1. "run" \in PodState /\ "absent" \in PodState /\ Exited \subseteq PodState /\ "old" \in Pod /\ "new" \in Pod
      /\ "run" \notin Exited /\ "absent" \notin Exited
  BY DEF PodState, Exited, Pod
<1>2. result[t] # "none" => result[t] \in Exited
  BY DEF TypeOK
<1>3. CASE PodStarts(t)
  <2>1. pods[t]["new"] = "absent" /\ pods'[t]["old"] = pods[t]["old"] /\ UNCHANGED <<go, watch, events>>
    BY <1>1, <1>3, PodEffect DEF PodStarts
  <2>. QED
    BY <1>1, <1>2, <2>1
<1>4. CASE OldPodGone(t)
  <2>1. pods' = [pods EXCEPT ![t]["old"] = "absent"] /\ UNCHANGED <<go, watch, events>>
    BY <1>4 DEF OldPodGone
  <2>2. pods'[t]["old"] = "absent" /\ \A q \in Pod \ {"old"} : pods'[t][q] = pods[t][q]
    BY <1>1, <2>1, PodEffect
  <2>. QED
    BY <1>1, <2>1, <2>2
<1>5. CASE WatchCloses(t)
  <2>1. /\ watch[t] = "open" /\ watch'[t] = "closed" /\ UNCHANGED <<go, pods>>
        /\ \A i \in DOMAIN events'[t] : i \in DOMAIN events[t] /\ events'[t][i] = events[t][i]
    BY <1>5, CloseEffect DEF WatchCloses, TypeOK, cluster
  <2>. QED
    BY <1>2, <2>1
<1>6. ASSUME NEW s \in PodState, Notify(t, s), UNCHANGED <<go, watch>>,
             pick[t] = "new" => /\ pods'[t]["old"] = "absent"
                                /\ pods'[t]["new"] = s
                                /\ pods[t]["new"] \in Exited => pods[t]["new"] = s
      PROVE  OwnExit(t)'
  <2>1. CASE watch[t] = "open"
    <3>1. events'[t] = Append(events[t], s) /\ events[t] \in Seq(PodState)
      BY <1>6, <2>1, NotifyEffect DEF TypeOK
    <3>2. \A i \in DOMAIN events'[t] : (i \in DOMAIN events[t] /\ events'[t][i] = events[t][i]) \/ events'[t][i] = s
      BY <3>1
    <3>3. watch'[t] # "none"
      BY <1>6, <2>1
    <3>. QED
      BY <1>2, <1>6, <3>2, <3>3
  <2>2. CASE watch[t] # "open"
    <3>1. events'[t] = events[t]
      BY <1>6, <2>2, NotifyEffect
    <3>. QED
      BY <1>2, <1>6, <3>1
  <2>. QED
    BY <2>1, <2>2
<1>7. ASSUME NEW p \in Pod, PodExits(t, p) PROVE OwnExit(t)'
  <2>1. PICK s \in Exited : pods' = [pods EXCEPT ![t][p] = s] /\ Notify(t, s)
    BY <1>7 DEF PodExits
  <2>2. pods[t][p] = "run" /\ UNCHANGED <<go, watch>>
    BY <1>7 DEF PodExits
  <2>3. pick[t] = "new" => p = "new"
    BY <1>1, <2>2 DEF Pod
  <2>4. pods'[t][p] = s /\ (p = "new" => pods'[t]["old"] = pods[t]["old"])
    <3>1. s \in PodState
      BY <1>1
    <3>2. pods'[t][p] = s /\ \A q \in Pod \ {p} : pods'[t][q] = pods[t][q]
      BY <2>1, <3>1, PodEffect
    <3>. QED
      BY <1>1, <3>2
  <2>. QED
    BY <1>1, <1>6, <2>1, <2>2, <2>3, <2>4
<1>8. ASSUME NEW p \in Pod, PodTouched(t, p) PROVE OwnExit(t)'
  <2>1. pods[t][p] \in PodState /\ pods[t][p] # "absent" /\ UNCHANGED <<go, watch, pods>> /\ Notify(t, pods[t][p])
    BY <1>8 DEF PodTouched, TypeOK
  <2>2. pick[t] = "new" => p = "new"
    BY <2>1 DEF Pod
  <2>. QED
    BY <1>6, <2>1, <2>2
<1>. QED
  BY <1>3, <1>4, <1>5, <1>7, <1>8 DEF Env

\* Every step keeps what each goroutine knows of its pod.
LEMMA OwnExitsStep ==
  ASSUME IndInv, [Next]_vars
  PROVE  OwnExits'
<1>. USE DEF IndInv, OwnExits
<1>1. ASSUME NEW u \in Tests,
             /\ pick'[u] = pick[u] /\ result'[u] = result[u] /\ verdict'[u] = verdict[u]
             /\ watch'[u] = watch[u] /\ events'[u] = events[u] /\ pods'[u] = pods[u]
             /\ pc'[u] = pc[u] \/ (pc[u] = "off" /\ pc'[u] = "create")
      PROVE  OwnExit(u)'
  BY <1>1 DEF OwnExit
<1>2. ASSUME NEW t \in Tests, GoStep(t) PROVE OwnExits'
  BY <1>1, <1>2, GoLocal, GoOwnExit
<1>3. ASSUME NEW t \in Tests, Env(t) PROVE OwnExits'
  BY <1>1, <1>3, EnvLocal, EnvOwnExit DEF go
<1>4. CASE MainStep
  <2>1. ASSUME NEW u \in Tests
        PROVE  pc'[u] = pc[u] \/ (pc[u] = "off" /\ pc'[u] = "create")
    <3>1. CASE NextTest
      <4>1. cur + 1 \in Tests /\ pc[cur + 1] = "off"
        BY <3>1, TestsAssumption DEF NextTest, Counted, Tests, TypeOK
      <4>. QED
        BY <3>1, <4>1 DEF NextTest, Launch, TypeOK
    <3>2. CASE UNCHANGED pc
      BY <3>2
    <3>. QED
      BY <1>4, <3>1, <3>2 DEF MainStep, Prepare, EndLoop, Wait, Teardown, go
  <2>. QED
    BY <1>1, <1>4, <2>1, MainLocal
<1>5. CASE Returned \/ UNCHANGED vars
  BY <1>1, <1>5 DEF Returned, vars, go, cluster
<1>. QED
  BY <1>2, <1>3, <1>4, <1>5 DEF Next

\* IndInv holds when the command starts, whatever an earlier run has left.
LEMMA InitInv == Init => IndInv
<1>. SUFFICES ASSUME Init PROVE IndInv
  OBVIOUS
<1>. USE TestsAssumption DEF Init
<1>1. TypeOK
  <2>1. secrets \subseteq Names
    OBVIOUS
  <2>2. pods \in [Tests -> [Pod -> PodState]]
    <3>1. PICK old \in [Leftover -> PodState] :
            pods = [t \in Tests |-> [p \in Pod |->
                      IF p = "old" /\ t \in Leftover THEN old[t] ELSE "absent"]]
      OBVIOUS
    <3>2. "absent" \in PodState
      BY DEF PodState
    <3>3. \A t \in Tests, p \in Pod :
            (IF p = "old" /\ t \in Leftover THEN old[t] ELSE "absent") \in PodState
      BY <3>2
    <3>. QED
      BY <3>1, <3>3
  <2>3. ns \in BOOLEAN
    OBVIOUS
  <2>4. events \in [Tests -> Seq(PodState)]
    <3>1. <<>> \in Seq(PodState)
      OBVIOUS
    <3>. QED
      BY <3>1
  <2>. QED
    BY <2>1, <2>2, <2>3, <2>4 DEF TypeOK
<1>2. Counted
  <2>1. Active = {}
    BY DEF Active
  <2>. QED
    BY <2>1, FS_EmptySet DEF Counted
<1>3. OwnExits /\ AllDoneAtReturn
  BY DEF OwnExits, OwnExit, AllDoneAtReturn
<1>. QED
  BY <1>1, <1>2, <1>3 DEF IndInv

\* IndInv is an inductive invariant of the command and the cluster.
THEOREM IndInvInvariant == Spec => []IndInv
<1>1. IndInv /\ [Next]_vars => IndInv'
  BY TypeStep, CountedStep, OwnExitsStep, AllDoneStep
     DEF IndInv
<1>. QED
  BY <1>1, InitInv, PTL DEF Spec

\* Type correctness: among others, the WaitGroup never drops below zero, which
\* would panic (productTests.go:156-171).
THEOREM TypeCorrect == Spec => []TypeOK
<1>1. IndInv => TypeOK
  BY DEF IndInv
<1>. QED
  BY <1>1, IndInvInvariant, PTL

\* A test passes only if its own container exited with 0, unless the poll has
\* taken a pod of an earlier run (productTests.go:190-237, k8s.go:153-182).
THEOREM VerdictIsOwnCorrect == Spec => []VerdictIsOwn
<1>1. IndInv => VerdictIsOwn
  BY DEF IndInv, OwnExits, OwnExit, VerdictIsOwn
<1>. QED
  BY <1>1, IndInvInvariant, PTL

\* run() returns nil only when no goroutine is at work (productTests.go:173).
THEOREM AllDoneAtReturnCorrect == Spec => []AllDoneAtReturn
<1>1. IndInv => AllDoneAtReturn
  BY DEF IndInv
<1>. QED
  BY <1>1, IndInvInvariant, PTL


-----------------------------------------------------------------------------
(* The field Success. The goroutines share the loop variable, so a test can  *)
(* get the verdict of another one (SuccessIsOwn is false).                   *)

\* A test is marked as passed only if it, or one started before it, passed.
SomePassed == \A c \in Tests : success[c] => \E t \in Tests : t <= c /\ verdict[t]

\* With one test: the field is written once, when the goroutine has ended.
WrittenAtEnd ==
  \A t \in Tests : success[t] <=> (pc[t] = "done" /\ verdict[t])

\* No step takes a verdict back, and only Report writes the field.
LEMMA VerdictStays ==
  ASSUME IndInv, [Next]_vars
  PROVE  /\ \A t \in Tests : verdict[t] => verdict'[t]
         /\ \A u \in Tests : pc[u] = "done" => pc'[u] = "done" /\ verdict'[u] = verdict[u]
         /\ \A u \in Tests : pc'[u] = "done" /\ pc[u] # "done" => Report(u)
         /\ success' # success => \E t \in Tests : Report(t)
<1> USE DEF IndInv
<1>1. ASSUME NEW t \in Tests, GoStep(t)
      PROVE  /\ verdict[t] => verdict'[t]
             /\ pc[t] # "done"
             /\ pc'[t] = "done" => Report(t)
             /\ success' # success => Report(t)
  <2>1. verdict[t] => pc[t] \in {"report", "done"}
    BY DEF OwnExits, OwnExit
  <2> QED
    BY <1>1, <2>1 DEF GoStep, CreateJob, FindPod, OpenWatch, HandleEvent, Timeout, Spin,
       CompleteJob, DeleteJob, Report, At, GiveUp, Goto, StopWatch, go, main, cluster, vars, TypeOK
<1>2. CASE \E t \in Tests : GoStep(t)
  BY <1>1, <1>2, GoLocal
<1>3. CASE \E t \in Tests : Env(t)
  BY <1>3, EnvLocal DEF go, Env, PodStarts, OldPodGone, WatchCloses, PodExits, PodTouched
<1>4. CASE MainStep
  <2>1. UNCHANGED <<verdict, success>>
    BY <1>4 DEF MainStep, Prepare, NextTest, EndLoop, Wait, Teardown, go
  <2>2. ASSUME NEW u \in Tests PROVE pc'[u] = pc[u] \/ (pc[u] = "off" /\ pc'[u] = "create")
    <3>1. CASE NextTest
      <4>1. pc' = pc \/ Launch(cur + 1)
        BY <3>1 DEF NextTest
      <4>2. pc[cur + 1] = "off" \/ cur + 1 \notin Tests
        BY <3>1 DEF Counted, TypeOK
      <4> QED BY <4>1, <4>2 DEF Launch, TypeOK
    <3>2. CASE Prepare \/ EndLoop \/ Wait \/ Teardown
      BY <3>2 DEF Prepare, EndLoop, Wait, Teardown, go
    <3> QED BY <1>4, <3>1, <3>2 DEF MainStep
  <2> QED BY <2>1, <2>2
<1>5. CASE Returned \/ UNCHANGED vars
  BY <1>5 DEF Returned, vars, go
<1> QED BY <1>2, <1>3, <1>4, <1>5 DEF Next

LEMMA ReportAt ==
  ASSUME IndInv, NEW t \in Tests, Report(t)
  PROVE  /\ t <= cur /\ cur \in Tests
         /\ success' = [success EXCEPT ![cur] = verdict[t]] /\ verdict' = verdict
         /\ pc' = [pc EXCEPT ![t] = "done"]
<1>1. pc[t] = "report" /\ cur \in 0 .. N /\ t \in 1 .. N
  BY DEF Report, At, IndInv, TypeOK, Tests
<1>2. ~(t > cur)
  BY <1>1 DEF IndInv, Counted
<1> QED BY <1>1, <1>2, TestsAssumption DEF Report, Goto, Tests

\* Although the verdict lands in the last test started
\* (cmd/productTests.go:165), no test is marked as passed unless it or one
\* started before it passed: if no test passed, none is marked.
THEOREM SomePassedCorrect == Spec => []SomePassed
<1>1. Init => SomePassed
  BY DEF Init, SomePassed
<1>2. IndInv /\ SomePassed /\ [Next]_vars => SomePassed'
  <2> SUFFICES ASSUME IndInv, SomePassed, [Next]_vars, NEW c \in Tests, success'[c]
               PROVE  \E t \in Tests : t <= c /\ verdict'[t]
    BY DEF SomePassed
  <2>1. CASE success[c]
    BY <2>1, VerdictStays DEF SomePassed
  <2>2. CASE ~success[c]
    <3>1. PICK t \in Tests : Report(t)
      BY <2>2, VerdictStays
    <3>2. c = cur /\ verdict[t]
      BY <2>2, <3>1, ReportAt DEF IndInv, TypeOK
    <3> QED BY <3>1, <3>2, ReportAt
  <2> QED BY <2>1, <2>2
<1> QED BY <1>1, <1>2, IndInvInvariant, PTL DEF Spec

\* A single test gets its own verdict, which is all that the unit test
\* cmd/productTests_test.go:83 can see.
THEOREM OneTestIsOwn == ASSUME N = 1 PROVE Spec => []SuccessIsOwn
<1> USE DEF Tests
<1>1. Init => WrittenAtEnd
  BY DEF Init, WrittenAtEnd
<1>2. IndInv /\ WrittenAtEnd /\ [Next]_vars => WrittenAtEnd'
  <2> SUFFICES ASSUME IndInv, WrittenAtEnd, [Next]_vars, NEW u \in Tests
               PROVE  success'[u] <=> (pc'[u] = "done" /\ verdict'[u])
    BY DEF WrittenAtEnd
  <2>1. u = 1
    OBVIOUS
  <2>2. success[u] <=> (pc[u] = "done" /\ verdict[u])
    BY DEF WrittenAtEnd
  <2>3. CASE Report(u)
    <3>1. cur = 1
      BY <2>3, ReportAt
    <3> QED BY <2>1, <2>3, <3>1, ReportAt DEF IndInv, TypeOK
  <2>4. CASE ~Report(u)
    <3>1. success' = success
      BY <2>1, <2>4, VerdictStays
    <3>2. pc[u] = "done" <=> pc'[u] = "done"
      BY <2>4, VerdictStays
    <3>3. pc[u] = "done" => verdict'[u] = verdict[u]
      BY VerdictStays
    <3> QED BY <2>2, <3>1, <3>2, <3>3
  <2> QED BY <2>3, <2>4
<1>3. IndInv /\ WrittenAtEnd => SuccessIsOwn
  <2> SUFFICES ASSUME IndInv, WrittenAtEnd, ret = "ok" PROVE success = verdict
    BY DEF SuccessIsOwn
  <2>1. ASSUME NEW t \in Tests PROVE success[t] = verdict[t]
    <3>1. pc[t] \in {"off", "done"}
      BY DEF IndInv, AllDoneAtReturn
    <3>2. pc[t] = "off" => ~verdict[t]
      BY DEF IndInv, OwnExits, OwnExit
    <3>3. verdict[t] \in BOOLEAN /\ success[t] \in BOOLEAN
      BY DEF IndInv, TypeOK
    <3> QED BY <3>1, <3>2, <3>3 DEF WrittenAtEnd
  <2> QED BY <2>1 DEF IndInv, TypeOK
<1> QED BY <1>1, <1>2, <1>3, IndInvInvariant, PTL DEF Spec
=============================================================================
