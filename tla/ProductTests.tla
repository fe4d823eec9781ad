---------------------------- MODULE ProductTests ----------------------------
(***************************************************************************)
(* cmd/productTests.go and pkg/utils/k8s.go: `pipeline product-tests` runs *)
(* each configured test container as a Kubernetes job. Main prepares the   *)
(* namespace and starts a goroutine per test; the goroutine creates the    *)
(* job, polls for its pod, opens a watch on the job's label and takes the  *)
(* exit code from the first event that shows the container terminated.     *)
(*                                                                         *)
(* The cluster is the environment. A test may have a job, and a pod of     *)
(* that job, left from an earlier run in the namespace: deleting a job     *)
(* with default options may leave its pods, and they carry the same label. *)
(***************************************************************************)
EXTENDS Naturals, Sequences, FiniteSets

CONSTANTS
  N,             \* number of configured tests
  Secret,        \* the pull secret of each test: a name, NoSecret or Unset
  NoSecret,      \* the test needs none
  Unset,         \* the test names a variable that has no value
  Leftover,      \* tests that may have a pod of an earlier run
  WatchMayClose, \* may the API server close a watch? (it does, in time)
  MaxTouches,    \* bound: pod updates that change nothing the code reads
  MaxFaults      \* bound: failing API and oc calls

Tests == 1 .. N
Names == {Secret[t] : t \in Tests} \ {NoSecret, Unset}

ASSUME TestsAssumption ==
  /\ N \in Nat \ {0}
  /\ DOMAIN Secret = Tests
  /\ NoSecret # Unset
  /\ Leftover \subseteq Tests
  /\ WatchMayClose \in BOOLEAN
  /\ MaxTouches \in Nat
  /\ MaxFaults \in Nat

VARIABLES
  mPc,       \* where main is
  cleanup,   \* --post-cleanup
  cur,       \* the loop variable testContainer, which the goroutines capture
  secrets,   \* pull secrets in the namespace
  ns,        \* the namespace exists
  wg,        \* the WaitGroup's counter
  ret,       \* "none" while run() runs, then what it returned
  pc,        \* where the goroutine of each test is
  pick,      \* the pod the poll has found
  result,    \* the container state the wait has returned
  verdict,   \* what runTestContainer has returned
  success,   \* the field Success of each test
  job,       \* the job of this run exists
  pods,      \* state of the pod of an earlier run and of this run's
  watch,     \* the watch of each goroutine
  events,    \* what it has still to receive: on its way or in the channel
  touches, faults

main == <<mPc, cleanup, cur, secrets, ret>>
go == <<pc, pick, result, verdict>>
cluster == <<job, pods, touches>>
vars == <<main, ns, wg, go, success, cluster, watch, events, faults>>

Pod == {"old", "new"}
PodState == {"absent", "run", "exit0", "exit1"}
Exited == {"exit0", "exit1"}

TypeOK ==
  /\ mPc \in {"prepare", "loop", "wait", "clean", "end"}
  /\ cleanup \in BOOLEAN
  /\ cur \in 0 .. N
  /\ secrets \subseteq Names
  /\ ns \in BOOLEAN
  /\ wg \in 0 .. N
  /\ ret \in {"none", "ok", "err"}
  /\ pc \in [Tests -> {"off", "create", "poll", "open", "wait", "complete",
                       "delete", "report", "done"}]
  /\ pick \in [Tests -> Pod \cup {"none"}]
  /\ result \in [Tests -> Exited \cup {"none"}]
  /\ verdict \in [Tests -> BOOLEAN]
  /\ success \in [Tests -> BOOLEAN]
  /\ job \in [Tests -> BOOLEAN]
  /\ pods \in [Tests -> [Pod -> PodState]]
  /\ watch \in [Tests -> {"none", "open", "closed", "stopped"}]
  /\ events \in [Tests -> Seq(PodState)]
  /\ touches \in 0 .. MaxTouches
  /\ faults \in 0 .. MaxFaults

Init ==
  /\ mPc = "prepare" /\ cleanup \in BOOLEAN /\ cur = 0 /\ ret = "none"
  /\ secrets \in IF Leftover = {} THEN {{}} ELSE SUBSET Names
  /\ ns = (Leftover # {})
  /\ wg = 0
  /\ pc = [t \in Tests |-> "off"]
  /\ pick = [t \in Tests |-> "none"]
  /\ result = [t \in Tests |-> "none"]
  /\ verdict = [t \in Tests |-> FALSE]
  /\ success = [t \in Tests |-> FALSE]
  /\ job = [t \in Tests |-> FALSE]
  /\ \E old \in [Leftover -> PodState] :
       pods = [t \in Tests |-> [p \in Pod |->
                 IF p = "old" /\ t \in Leftover THEN old[t] ELSE "absent"]]
  /\ watch = [t \in Tests |-> "none"]
  /\ events = [t \in Tests |-> <<>>]
  /\ touches = 0 /\ faults = 0

Fault == faults < MaxFaults /\ faults' = faults + 1

-----------------------------------------------------------------------------
(* run() *)

Return(r) == mPc' = "end" /\ ret' = r

\* Namespace, service account and cluster role binding.
Prepare ==
  /\ mPc = "prepare"
  /\ \/ /\ mPc' = "loop" /\ ns' = TRUE
        /\ UNCHANGED <<ret, faults>>
     \/ /\ Fault /\ Return("err")
        /\ ns' \in {ns, TRUE}
  /\ UNCHANGED <<cleanup, cur, secrets, wg, go, success, cluster, watch, events>>

\* Mutant of Launch: the goroutine is not counted before it starts.
LaunchUncounted(t) == pc' = [pc EXCEPT ![t] = "create"] /\ wg' = wg

\* wg.Add(1) and the go statement.
Launch(t) == pc' = [pc EXCEPT ![t] = "create"] /\ wg' = wg + 1

\* One iteration of the loop. A secret that exists already cannot be created:
\* run() returns the error, whatever has been started before.
NextTest ==
  LET t == cur + 1
      s == Secret[t] IN
  /\ mPc = "loop"
  /\ cur < N
  /\ cur' = t
  /\ \/ /\ s = Unset
        /\ UNCHANGED <<mPc, ret, secrets, wg, pc, faults>>
     \/ /\ s = NoSecret
        /\ Launch(t)
        /\ UNCHANGED <<mPc, ret, secrets, faults>>
     \/ /\ s \in Names \ secrets
        /\ secrets' = secrets \cup {s}
        /\ Launch(t)
        /\ UNCHANGED <<mPc, ret, faults>>
     \/ /\ s \in Names
        /\ IF s \in secrets THEN UNCHANGED faults ELSE Fault
        /\ Return("err")
        /\ UNCHANGED <<secrets, wg, pc>>
  /\ UNCHANGED <<cleanup, ns, pick, result, verdict, success, cluster, watch, events>>

EndLoop ==
  /\ mPc = "loop"
  /\ cur = N
  /\ mPc' = "wait"
  /\ UNCHANGED <<cleanup, cur, secrets, ret, ns, wg, go, success, cluster,
                 watch, events, faults>>

\* wg.Wait; without --post-cleanup run() returns nil, whatever the verdicts.
Wait ==
  /\ mPc = "wait"
  /\ wg = 0
  /\ IF cleanup THEN mPc' = "clean" /\ UNCHANGED ret ELSE Return("ok")
  /\ UNCHANGED <<cleanup, cur, secrets, ns, wg, go, success, cluster, watch,
                 events, faults>>

Teardown ==
  /\ mPc = "clean"
  /\ \/ ns' = FALSE /\ Return("ok") /\ UNCHANGED faults
     \/ Fault /\ Return("err") /\ UNCHANGED ns
  /\ UNCHANGED <<cleanup, cur, secrets, wg, go, success, cluster, watch, events>>

-----------------------------------------------------------------------------
(* runTestContainer, in the goroutine of test t; it dies when run() returns. *)

At(t, p) == ret = "none" /\ pc[t] = p
Goto(t, p) == pc' = [pc EXCEPT ![t] = p]

\* Return false, with or without an error.
GiveUp(t) == Goto(t, "report") /\ UNCHANGED <<pick, result, verdict>>

\* Get, delete and create. The old job may still be there when the new one is
\* created, and between the two calls the create can fail as well.
CreateJob(t) ==
  /\ At(t, "create")
  /\ \/ /\ Goto(t, "poll")
        /\ job' = [job EXCEPT ![t] = TRUE]
        /\ UNCHANGED <<pick, result, verdict, faults>>
     \/ /\ IF pods[t]["old"] # "absent" THEN UNCHANGED faults ELSE Fault
        /\ GiveUp(t)
        /\ UNCHANGED job
  /\ UNCHANGED <<main, ns, wg, success, pods, touches, watch, events>>

Existing(t) == {p \in Pod : pods[t][p] # "absent"}

\* PollImmediate: exactly one pod has the label, or a minute has passed.
FindPod(t) ==
  /\ At(t, "poll")
  /\ \/ \E p \in Pod :
          /\ Existing(t) = {p}
          /\ pick' = [pick EXCEPT ![t] = p]
          /\ Goto(t, "open")
          /\ UNCHANGED <<result, verdict, faults>>
     \/ /\ IF Cardinality(Existing(t)) # 1 THEN UNCHANGED faults ELSE Fault
        /\ GiveUp(t)
  /\ UNCHANGED <<main, ns, wg, success, cluster, watch, events>>

\* The watch begins with an Added event for each pod; the switch skips those.
OpenWatch(t) ==
  /\ At(t, "open")
  /\ \/ /\ Goto(t, "wait")
        /\ watch' = [watch EXCEPT ![t] = "open"]
        /\ UNCHANGED <<pick, result, verdict, faults>>
     \/ Fault /\ GiveUp(t) /\ UNCHANGED watch
  /\ UNCHANGED <<main, ns, wg, success, cluster, events>>

StopWatch(t) ==
  /\ watch' = [watch EXCEPT ![t] = "stopped"]
  /\ events' = [events EXCEPT ![t] = <<>>]

\* A Modified event: the exit code counts once the container has terminated,
\* and neither the pod's name nor its job is looked at.
HandleEvent(t) ==
  /\ At(t, "wait")
  /\ events[t] # <<>>
  /\ IF Head(events[t]) \in Exited
     THEN /\ result' = [result EXCEPT ![t] = Head(events[t])]
          /\ Goto(t, "complete")
          /\ StopWatch(t)
     ELSE /\ events' = [events EXCEPT ![t] = Tail(@)]
          /\ UNCHANGED <<pc, result, watch>>
  /\ UNCHANGED <<main, ns, wg, pick, verdict, success, cluster, faults>>

\* time.After is called anew in each turn of the loop and so measures idle
\* time. It may fire while an event is on its way, and when an event is ready
\* as well Go picks either. A closed channel is ready in every turn, and the
\* timer of that turn then never fires.
TimerFires(t) == watch[t] = "open"

Timeout(t) ==
  /\ At(t, "wait")
  /\ TimerFires(t)
  /\ GiveUp(t)
  /\ StopWatch(t)
  /\ UNCHANGED <<main, ns, wg, success, cluster, faults>>

\* The nil object received from a closed channel: continue, without end.
Spin(t) ==
  /\ At(t, "wait")
  /\ watch[t] = "closed" /\ events[t] = <<>>
  /\ UNCHANGED vars

\* Errors of saving status, results and logs are printed only; completeJob
\* runs a command in the pod found by the poll, which must still be running
\* (its sidecar is, until told to stop).
CompleteJob(t) ==
  /\ At(t, "complete")
  /\ \/ /\ pods[t][pick[t]] # "absent"
        /\ Goto(t, "delete")
        /\ UNCHANGED <<pick, result, verdict, faults>>
     \/ /\ IF pick[t] = "old" THEN UNCHANGED faults ELSE Fault
        /\ GiveUp(t)
  /\ UNCHANGED <<main, ns, wg, success, cluster, watch, events>>

\* Mutant of Passed: a container that has terminated has passed.
Terminated(t) == result[t] \in Exited

\* containerResult.ExitCode == 0
Passed(t) == result[t] = "exit0"

DeleteJob(t) ==
  /\ At(t, "delete")
  /\ \/ /\ job' = [job EXCEPT ![t] = FALSE]
        /\ verdict' = [verdict EXCEPT ![t] = Passed(t)]
        /\ Goto(t, "report")
        /\ UNCHANGED <<pick, result, faults>>
     \/ Fault /\ GiveUp(t) /\ UNCHANGED job
  /\ UNCHANGED <<main, ns, wg, success, pods, touches, watch, events>>

\* Mutant of Report: wg.Done is not deferred and only a pass reaches it.
ReportPassOnly(t) ==
  /\ At(t, "report")
  /\ Goto(t, "done")
  /\ success' = [success EXCEPT ![cur] = verdict[t]]
  /\ wg' = IF verdict[t] THEN wg - 1 ELSE wg
  /\ UNCHANGED <<main, ns, pick, result, verdict, cluster, watch, events, faults>>

\* The verdict goes to the loop variable, not to the goroutine's own test.
Report(t) ==
  /\ At(t, "report")
  /\ Goto(t, "done")
  /\ success' = [success EXCEPT ![cur] = verdict[t]]
  /\ wg' = wg - 1
  /\ UNCHANGED <<main, ns, pick, result, verdict, cluster, watch, events, faults>>

-----------------------------------------------------------------------------
(* The cluster. *)

\* The API server sends an event to the watch; events arrive in order.
Notify(t, s) ==
  events' = IF watch[t] = "open" THEN [events EXCEPT ![t] = Append(@, s)] ELSE events

PodStarts(t) ==
  /\ job[t]
  /\ pods[t]["new"] = "absent"
  /\ pods' = [pods EXCEPT ![t]["new"] = "run"]
  /\ UNCHANGED <<main, ns, wg, go, success, job, touches, watch, events, faults>>

PodExits(t, p) ==
  /\ pods[t][p] = "run"
  /\ \E s \in Exited : pods' = [pods EXCEPT ![t][p] = s] /\ Notify(t, s)
  /\ UNCHANGED <<main, ns, wg, go, success, job, touches, watch, faults>>

\* Some other field of the pod changes.
PodTouched(t, p) ==
  /\ pods[t][p] # "absent"
  /\ watch[t] = "open"
  /\ touches < MaxTouches
  /\ touches' = touches + 1
  /\ Notify(t, pods[t][p])
  /\ UNCHANGED <<main, ns, wg, go, success, job, pods, watch, faults>>

\* The garbage collector removes the old pod; Deleted events are skipped.
OldPodGone(t) ==
  /\ pods[t]["old"] # "absent"
  /\ pods' = [pods EXCEPT ![t]["old"] = "absent"]
  /\ UNCHANGED <<main, ns, wg, go, success, job, touches, watch, events, faults>>

\* What the server had not sent when it closed the watch never arrives.
WatchCloses(t) ==
  /\ WatchMayClose
  /\ watch[t] = "open"
  /\ watch' = [watch EXCEPT ![t] = "closed"]
  /\ \E k \in 0 .. Len(events[t]) : events' = [events EXCEPT ![t] = SubSeq(@, 1, k)]
  /\ UNCHANGED <<main, ns, wg, go, success, cluster, faults>>

-----------------------------------------------------------------------------
MainStep == Prepare \/ NextTest \/ EndLoop \/ Wait \/ Teardown

GoStep(t) ==
  \/ CreateJob(t) \/ FindPod(t) \/ OpenWatch(t) \/ HandleEvent(t) \/ Timeout(t)
  \/ Spin(t) \/ CompleteJob(t) \/ DeleteJob(t) \/ Report(t)

Env(t) ==
  \/ PodStarts(t) \/ OldPodGone(t) \/ WatchCloses(t)
  \/ \E p \in Pod : PodExits(t, p) \/ PodTouched(t, p)

\* run() has returned and the process ends.
Returned == ret # "none" /\ UNCHANGED vars

Next == MainStep \/ Returned \/ \E t \in Tests : GoStep(t) \/ (ret = "none" /\ Env(t))

\* The scheduler runs main and every goroutine. Nothing is assumed of the
\* cluster: a pod need not start and a container need not exit.
Fairness == WF_vars(MainStep) /\ \A t \in Tests : WF_vars(GoStep(t))

Spec == Init /\ [][Next]_vars /\ Fairness

-----------------------------------------------------------------------------
(* Properties. *)

\* A test passes only if its own container exited with code 0, unless the
\* poll took a pod of an earlier run for its own: once the poll has found this
\* run's pod no event of another pod can be mistaken for its end.
VerdictIsOwn ==
  \A t \in Tests : verdict[t] /\ pick[t] = "new" => pods[t]["new"] = "exit0"

\* run() returns nil, and tears the namespace down, only when no goroutine is
\* at work any more: no result is collected from a deleted namespace.
AllDoneAtReturn ==
  ret = "ok" => \A t \in Tests : pc[t] \in {"off", "done"}

\* run() returns, even when pods never start and containers never exit, unless
\* the API server closes a watch. (The timer measures idle time: a pod whose
\* fields change for ever within the timeout keeps the wait going. MaxTouches
\* bounds such changes.)
Ends == <>(ret # "none" \/ \E t \in Tests : watch[t] = "closed")

\* The field Success of a test is the verdict of that test, as
\* cmd/productTests_test.go:83 reads it: `if !tests[0].Success`.
SuccessIsOwn == ret = "ok" => success = verdict

\* A wait ends, at the latest after the timeout: pkg/utils/k8s_test.go:237,
\* "should timeout".
WaitEnds == \A t \in Tests : pc[t] = "wait" ~> pc[t] # "wait" \/ ret # "none"

\* The wait group counts the goroutines at work; the loop starts them in order.
Active == {t \in Tests : pc[t] \notin {"off", "done"}}

Counted ==
  /\ wg = Cardinality(Active)
  /\ \A t \in Tests : t > cur => pc[t] = "off"
  /\ ret # "none" <=> mPc = "end"
  /\ mPc = "clean" => Active = {}

\* What a goroutine knows of its pod. Before the poll has found one there is
\* no watch; once it has found this run's pod no other pod is left, and every
\* exit in the channel or taken from it is the exit of that pod.
OwnExit(t) ==
  /\ pc[t] \in {"off", "create", "poll"} => pick[t] = "none"
  /\ pc[t] \in {"open", "wait", "complete", "delete"} => pick[t] # "none"
  /\ pick[t] = "none" => watch[t] = "none" /\ result[t] = "none"
  /\ watch[t] = "none" => events[t] = <<>>
  /\ verdict[t] => result[t] = "exit0" /\ pc[t] \in {"report", "done"}
  /\ pick[t] = "new" =>
       /\ pods[t]["old"] = "absent"
       /\ result[t] # "none" => pods[t]["new"] = result[t]
       /\ \A i \in DOMAIN events[t] :
            events[t][i] \in Exited => pods[t]["new"] = events[t][i]

OwnExits == \A t \in Tests : OwnExit(t)

\* The inductive invariant behind VerdictIsOwn and AllDoneAtReturn: counter,
\* channel and pods agree at every moment.
IndInv ==
  /\ TypeOK /\ Counted /\ OwnExits /\ AllDoneAtReturn

=============================================================================
