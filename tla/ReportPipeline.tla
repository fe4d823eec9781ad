--------------------------- MODULE ReportPipeline ---------------------------
(***************************************************************************)
(* The report commands that share one S3 bucket: `report export` and       *)
(* `report query` upload reports; reportportal-import, polarion-import and *)
(* datahub-import hand each report to a remote system and record that in   *)
(* the object's tag set; `report cleanup` moves the reports that carry     *)
(* every tag of a configuration to archive/.                               *)
(*                                                                         *)
(* An import command is a job that processes the objects it listed as      *)
(* concurrent tasks (ParallelLimit). S3 replaces the whole tag set on a    *)
(* put, and a task puts the set it read before the import plus its own     *)
(* tag. Every step is one S3 or remote call; objects are abstracted to     *)
(* what decides how a command treats them.                                 *)
(***************************************************************************)
EXTENDS Naturals, FiniteSets

CONSTANTS
  Zips,         \* test results, uploaded by export
  Downtimes,    \* downtime reports, uploaded by query
  Jobs,         \* import commands that may run side by side
  System,       \* the system each job imports into
  NoTagging,    \* reportportal-import jobs run with --no-tagging
  Configs,      \* entries of the cleanup configuration
  Required,     \* the tags each entry requires
  MayBreak,     \* bound: systems whose import may meet a report it cannot process
  MaxFaults     \* bound: calls that fail once, and killed processes

Reports == Zips \cup Downtimes
Systems == {"rp", "polarion", "datahub"}

ASSUME PipelineAssumption ==
  /\ System \in [Jobs -> Systems]
  /\ NoTagging \subseteq {j \in Jobs : System[j] = "rp"}
  /\ Required \in [Configs -> SUBSET Systems]
  /\ MayBreak \subseteq Systems
  /\ MaxFaults \in Nat

VARIABLES
  uploaded,   \* history: reports ever uploaded
  broken,     \* the systems whose import cannot process each report's content
  live,       \* objects in the bucket's root
  tags,       \* tag set of each object (tag "rp" stands for rp=true ...)
  archive,    \* objects under archive/
  running,    \* jobs being run
  failed,     \* jobs of which a task has returned an error
  task,       \* task[j][o]: where job j is with object o
  seen,       \* seen[j][o]: the tag set the task has read
  imported,   \* history: times each system was handed each report, up to 3
  handled,    \* history: systems that have imported or skipped each report
  cPc,        \* where each cleanup task is
  toCheck, toCopy, copied,   \* the objects it works on
  faults      \* faults so far

bucket == <<uploaded, broken, live, tags, archive>>
jobs == <<running, failed, task, seen>>
remote == <<imported, handled>>
cleaner == <<cPc, toCheck, toCopy, copied>>
vars == <<bucket, jobs, remote, cleaner, faults>>

TaskState == {"none", "listed", "import", "tag", "done"}

TypeOK ==
  /\ uploaded \subseteq Reports
  /\ broken \in [Reports -> SUBSET MayBreak]
  /\ live \subseteq uploaded
  /\ archive \subseteq uploaded
  /\ tags \in [Reports -> SUBSET Systems]
  /\ running \subseteq Jobs
  /\ failed \subseteq running
  /\ task \in [Jobs -> [Reports -> TaskState]]
  /\ seen \in [Jobs -> [Reports -> SUBSET Systems]]
  /\ imported \in [Systems -> [Reports -> 0 .. 3]]
  /\ handled \in [Reports -> SUBSET Systems]
  /\ cPc \in [Configs -> {"idle", "list", "work"}]
  /\ toCheck \in [Configs -> SUBSET Reports]
  /\ toCopy \in [Configs -> SUBSET Reports]
  /\ copied \in [Configs -> SUBSET Reports]
  /\ faults \in 0 .. MaxFaults

Init ==
  /\ uploaded = {} /\ live = {} /\ archive = {}
  /\ broken = [o \in Reports |-> {}]
  /\ tags = [o \in Reports |-> {}]
  /\ running = {} /\ failed = {}
  /\ task = [j \in Jobs |-> [o \in Reports |-> "none"]]
  /\ seen = [j \in Jobs |-> [o \in Reports |-> {}]]
  /\ imported = [k \in Systems |-> [o \in Reports |-> 0]]
  /\ handled = [o \in Reports |-> {}]
  /\ cPc = [c \in Configs |-> "idle"]
  /\ toCheck = [c \in Configs |-> {}]
  /\ toCopy = [c \in Configs |-> {}]
  /\ copied = [c \in Configs |-> {}]
  /\ faults = 0

Fault == faults < MaxFaults /\ faults' = faults + 1

-----------------------------------------------------------------------------
(* report export / report query: the object names carry the time, and the  *)
(* content of a report stays what it was when it was uploaded.             *)

Upload(o) ==
  /\ o \notin uploaded
  /\ uploaded' = uploaded \cup {o}
  /\ live' = live \cup {o}
  /\ \E ks \in SUBSET MayBreak : broken' = [broken EXCEPT ![o] = ks]
  /\ UNCHANGED <<tags, archive, jobs, remote, cleaner, faults>>

-----------------------------------------------------------------------------
(* The import commands. *)

\* The reports a system takes: zip files, or keys with prefix downtime-report.
Handles(k, o) == IF k = "datahub" THEN o \in Downtimes ELSE o \in Zips

Goto(j, o, s) == task' = [task EXCEPT ![j][o] = s]

Succeed(j, o, s) == Goto(j, o, s) /\ UNCHANGED <<running, failed>>

\* Mutant of Fail: the error of an import is not returned.
FailSilently(j, o) ==
  /\ Goto(j, o, IF task[j][o] = "import" THEN "tag" ELSE "done")
  /\ UNCHANGED <<running, failed>>

Fail(j, o) == Goto(j, o, "done") /\ failed' = failed \cup {j} /\ UNCHANGED running

List(j) ==
  /\ j \notin running
  /\ running' = running \cup {j}
  /\ task' = [task EXCEPT ![j] = [o \in Reports |-> IF o \in live THEN "listed" ELSE "none"]]
  /\ UNCHANGED <<bucket, failed, seen, remote, cleaner, faults>>

\* Mutant of HasTag: the test is missing.
NeverTagged(j, o) == FALSE

\* hasTag: the object already carries the tag of the job's system.
HasTag(j, o) == System[j] \in tags[o]

\* GetObjectTagging, the test of the tag and the test of the file name;
\* datahub-import tests the name first.
ReadTags(j, o) ==
  /\ task[j][o] = "listed"
  /\ UNCHANGED <<bucket, remote, cleaner>>
  /\ \/ /\ System[j] = "datahub" /\ ~Handles("datahub", o)
        /\ Succeed(j, o, "done")
        /\ UNCHANGED <<seen, faults>>
     \/ /\ o \in live
        /\ HasTag(j, o) \/ ~Handles(System[j], o)
        /\ Succeed(j, o, "done")
        /\ UNCHANGED <<seen, faults>>
     \/ /\ o \in live
        /\ ~HasTag(j, o) /\ Handles(System[j], o)
        /\ Succeed(j, o, "import")
        /\ seen' = [seen EXCEPT ![j][o] = tags[o]]
        /\ UNCHANGED faults
     \/ /\ System[j] = "datahub" => Handles("datahub", o)
        /\ IF o \in live THEN Fault ELSE UNCHANGED faults
        /\ Fail(j, o)
        /\ UNCHANGED seen

CountImport(k, o) ==
  /\ imported' = [imported EXCEPT ![k][o] = IF @ < 3 THEN @ + 1 ELSE 3]
  /\ handled' = [handled EXCEPT ![o] = @ \cup {k}]

\* The report is there, and the import can read what is in it: a metadata
\* file, a known job name and version, well-formed JUnit or YAML.
Readable(k, o) == o \in live /\ k \notin broken[o]

\* Download and the calls to the remote system. A report whose content cannot
\* be read fails the import each time, before the remote system has anything.
\* Other failures may come before or after the remote system has taken the
\* report. polarion-import may find nothing to import in a report and then
\* tags it all the same.
Import(j, o) ==
  LET k == System[j] IN
  /\ task[j][o] = "import"
  /\ UNCHANGED <<bucket, seen, cleaner>>
  /\ \/ /\ Readable(k, o)
        /\ CountImport(k, o)
        /\ \/ Succeed(j, o, "tag") /\ UNCHANGED faults
           \/ Fail(j, o) /\ Fault
     \/ /\ Readable(k, o)
        /\ k = "polarion"
        /\ handled' = [handled EXCEPT ![o] = @ \cup {k}]
        /\ Succeed(j, o, "tag")
        /\ UNCHANGED <<imported, faults>>
     \/ /\ IF Readable(k, o) THEN Fault ELSE UNCHANGED faults
        /\ Fail(j, o)
        /\ UNCHANGED remote

\* Mutant of NewTags: the tags read before are dropped.
OwnTagOnly(j, o) == {System[j]}

\* append(tags.TagSet, own tag), of the tag set read before the import.
NewTags(j, o) == seen[j][o] \cup {System[j]}

\* PutObjectTagging replaces the whole tag set of the object.
PutTags(j, o) ==
  /\ task[j][o] = "tag"
  /\ UNCHANGED <<uploaded, broken, live, archive, seen, remote, cleaner>>
  /\ \/ /\ j \in NoTagging
        /\ Succeed(j, o, "done")
        /\ UNCHANGED <<tags, faults>>
     \/ /\ j \notin NoTagging /\ o \in live
        /\ tags' = [tags EXCEPT ![o] = NewTags(j, o)]
        /\ \/ Succeed(j, o, "done") /\ UNCHANGED faults
           \/ Fail(j, o) /\ Fault
     \/ /\ j \notin NoTagging
        /\ IF o \in live THEN Fault ELSE UNCHANGED faults
        /\ Fail(j, o)
        /\ UNCHANGED tags

InFlight(j) == {o \in Reports : task[j][o] \in {"import", "tag"}}
Waiting(j) == {o \in Reports : task[j][o] = "listed"}

Stop(j) ==
  /\ running' = running \ {j}
  /\ failed' = failed \ {j}
  /\ task' = [task EXCEPT ![j] = [o \in Reports |-> "none"]]
  /\ seen' = [seen EXCEPT ![j] = [o \in Reports |-> {}]]

\* ParallelLimit returns: no task runs; after an error some were never started.
Finish(j) ==
  /\ j \in running
  /\ InFlight(j) = {}
  /\ Waiting(j) = {} \/ j \in failed
  /\ Stop(j)
  /\ UNCHANGED <<bucket, remote, cleaner, faults>>

\* The process is killed.
Crash(j) ==
  /\ j \in running
  /\ Fault
  /\ Stop(j)
  /\ UNCHANGED <<bucket, remote, cleaner>>

\* polarion-import panics when it cannot read the status of its import job.
PollPanic(j, o) ==
  /\ System[j] = "polarion"
  /\ task[j][o] = "import"
  /\ Readable("polarion", o)
  /\ CountImport("polarion", o)
  /\ Fault
  /\ Stop(j)
  /\ UNCHANGED <<bucket, cleaner>>

-----------------------------------------------------------------------------
(* report cleanup: one task per entry of the configuration, side by side. *)

Cleanup ==
  /\ Configs # {}
  /\ \A c \in Configs : cPc[c] = "idle"
  /\ cPc' = [c \in Configs |-> "list"]
  /\ UNCHANGED <<bucket, jobs, remote, toCheck, toCopy, copied, faults>>

ListBucket(c) ==
  /\ cPc[c] = "list"
  /\ \/ /\ cPc' = [cPc EXCEPT ![c] = "work"]
        /\ toCheck' = [toCheck EXCEPT ![c] = live]
        /\ UNCHANGED faults
     \/ /\ Fault
        /\ cPc' = [cPc EXCEPT ![c] = "idle"]
        /\ UNCHANGED toCheck
  /\ UNCHANGED <<bucket, jobs, remote, toCopy, copied>>

\* Mutant of ShouldCleanup: one of the required tags is enough.
AnyRequiredTag(c, o) == Required[c] \cap tags[o] # {}

\* shouldCleanup
ShouldCleanup(c, o) == Required[c] \subseteq tags[o]

\* An object whose tags cannot be read is skipped.
Check(c, o) ==
  /\ o \in toCheck[c]
  /\ toCheck' = [toCheck EXCEPT ![c] = @ \ {o}]
  /\ \/ /\ toCopy' = IF o \in live /\ ShouldCleanup(c, o)
                     THEN [toCopy EXCEPT ![c] = @ \cup {o}] ELSE toCopy
        /\ UNCHANGED faults
     \/ o \in live /\ Fault /\ UNCHANGED toCopy
  /\ UNCHANGED <<bucket, jobs, remote, cPc, copied>>

\* Mutant of Copy: an object whose copy failed is deleted as well.
CopyUnchecked(c, o) ==
  /\ toCheck[c] = {}
  /\ o \in toCopy[c]
  /\ toCopy' = [toCopy EXCEPT ![c] = @ \ {o}]
  /\ copied' = [copied EXCEPT ![c] = @ \cup {o}]
  /\ \/ o \in live /\ archive' = archive \cup {o} /\ UNCHANGED faults
     \/ Fault /\ UNCHANGED archive
  /\ UNCHANGED <<uploaded, broken, live, tags, jobs, remote, cPc, toCheck>>

\* A copy that fails is logged and its object left alone.
Copy(c, o) ==
  /\ toCheck[c] = {}
  /\ o \in toCopy[c]
  /\ toCopy' = [toCopy EXCEPT ![c] = @ \ {o}]
  /\ \/ /\ o \in live
        /\ archive' = archive \cup {o}
        /\ copied' = [copied EXCEPT ![c] = @ \cup {o}]
        /\ UNCHANGED faults
     \/ /\ IF o \in live THEN Fault ELSE UNCHANGED faults
        /\ UNCHANGED <<archive, copied>>
  /\ UNCHANGED <<uploaded, broken, live, tags, jobs, remote, cPc, toCheck>>

\* The batch delete; when it fails any part of the batch may be gone.
Delete(c) ==
  /\ cPc[c] = "work" /\ toCheck[c] = {} /\ toCopy[c] = {}
  /\ \/ live' = live \ copied[c] /\ UNCHANGED faults
     \/ /\ Fault
        /\ \E gone \in SUBSET copied[c] : live' = live \ gone
  /\ cPc' = [cPc EXCEPT ![c] = "idle"]
  /\ copied' = [copied EXCEPT ![c] = {}]
  /\ UNCHANGED <<uploaded, broken, tags, archive, jobs, remote, toCheck, toCopy>>

CleanupCrash ==
  /\ \E c \in Configs : cPc[c] # "idle"
  /\ Fault
  /\ cPc' = [c \in Configs |-> "idle"]
  /\ toCheck' = [c \in Configs |-> {}]
  /\ toCopy' = [c \in Configs |-> {}]
  /\ copied' = [c \in Configs |-> {}]
  /\ UNCHANGED <<bucket, jobs, remote>>

-----------------------------------------------------------------------------
TaskStep(j, o) == ReadTags(j, o) \/ Import(j, o) \/ PutTags(j, o)

JobStep(j) == List(j) \/ Finish(j)

CleanStep(c) ==
  ListBucket(c) \/ Delete(c) \/ \E o \in Reports : Check(c, o) \/ Copy(c, o)

Next ==
  \/ \E o \in Reports : Upload(o)
  \/ \E j \in Jobs : JobStep(j) \/ Crash(j)
  \/ \E j \in Jobs, o \in Reports : TaskStep(j, o) \/ PollPanic(j, o)
  \/ Cleanup
  \/ \E c \in Configs : CleanStep(c)
  \/ CleanupCrash

\* The commands are run again and again by a scheduler outside the code, and
\* a process that is not killed goes on.
Fairness ==
  /\ \A j \in Jobs : WF_vars(JobStep(j))
  /\ \A j \in Jobs, o \in Reports : WF_vars(TaskStep(j, o))
  /\ WF_vars(Cleanup)
  /\ \A c \in Configs : WF_vars(CleanStep(c))

Spec == Init /\ [][Next]_vars
FairSpec == Spec /\ Fairness

-----------------------------------------------------------------------------
(* Properties. *)

Store == INSTANCE ReportStore

\* Whatever the jobs, tasks and cleanups do side by side, and wherever they
\* fail or are killed, those who upload reports and those who read the archive
\* see the abstract store: each call is one of its steps or none.
StoreSpec == Store!Spec

\* Moving a report never loses it: until its copy exists the original stays,
\* whatever call of the cleanup fails and wherever it is killed.
NothingLost == uploaded \subseteq live \cup archive

\* A report is archived only when every system that an entry of the cleanup
\* configuration names has imported it (or, polarion, had nothing to import).
ArchivedIsProcessed ==
  \A o \in archive : \E c \in Configs : Required[c] \subseteq handled[o]

\* A stale tag set never claims an import that did not happen: neither the
\* object nor what a task is about to write back carries a false tag.
TagsAreTrue ==
  \A o \in Reports :
    /\ tags[o] \subseteq handled[o]
    /\ \A j \in Jobs : seen[j][o] \subseteq handled[o]

\* With one job per system a report that carries all tags of an entry keeps
\* them: the lost update of a tag hits only reports that lack another one.
FullTagsStay ==
  [][\A o \in Reports, c \in Configs :
       Required[c] \subseteq tags[o] => Required[c] \subseteq tags'[o]]_vars

\* With one job per system and no faults the lost update costs one import at
\* most: no system imports a report three times, and of the systems that one
\* entry requires only one imports it twice.
DuplicateBound ==
  \A o \in Reports, c \in Configs :
    /\ \A k \in Required[c] : imported[k][o] <= 2
    /\ Cardinality({k \in Required[c] : imported[k][o] = 2}) <= 1

\* A system that is to process o has a report in the bucket that it cannot
\* process. Its command fails in every run, and that may be before o's turn.
Blocked(o) ==
  \E k \in Systems : Handles(k, o) /\ \E p \in live : k \in broken[p]

\* A report ends up in the archive only, whatever call fails once and whoever
\* is killed on the way, unless a report in the bucket, this one or another,
\* blocks a system that is to process it. (A bucket with more objects than one
\* page of a listing shows may keep one for ever as well; Reports is smaller.)
EventuallyArchived ==
  \A o \in Reports :
    o \in uploaded ~> (Blocked(o) \/ [](o \in archive /\ o \notin live))

\* Tasks belong to a running job, and a tag that is about to be put is true.
TasksJustified ==
  \A j \in Jobs, o \in Reports :
    /\ task[j][o] # "none" => j \in running
    /\ task[j][o] = "tag" => System[j] \in handled[o]

\* The cleanup copies what is processed and deletes what it has copied.
CleanupJustified ==
  \A c \in Configs :
    /\ \A o \in toCopy[c] : Required[c] \subseteq handled[o]
    /\ copied[c] \subseteq archive

\* The inductive invariant: what tasks and the cleanup have in hand between
\* two calls justifies the call that comes next, however stale it is.
IndInv ==
  /\ TypeOK /\ TasksJustified /\ CleanupJustified
  /\ NothingLost /\ ArchivedIsProcessed /\ TagsAreTrue

\* When one job imports for each system, and no report is a test result and a
\* downtime report at once: what a task has in hand while it imports. Its own
\* system is not among the tags, and all that it saw still is.
OneWriterEach ==
  /\ \A i, j \in Jobs : System[i] = System[j] => i = j
  /\ Zips \cap Downtimes = {}

Apart(o) ==
  /\ \A k \in tags[o] : Handles(k, o)
  /\ \A j \in Jobs : task[j][o] \in {"import", "tag"} =>
       /\ Handles(System[j], o) /\ System[j] \notin tags[o]
       /\ seen[j][o] \subseteq tags[o]

WritersApart == \A o \in Reports : Apart(o)

\* An entry for test results names both systems that import them.
RequiresBoth == \A c \in Configs : "rp" \in Required[c] <=> "polarion" \in Required[c]

\* When moreover nothing fails and every job tags: a system whose tag was lost
\* lost it to another one, saw that one's tag before it imported again, and
\* puts back both.
NothingFails == MaxFaults = 0 /\ NoTagging = {}

Bounded(o) ==
  /\ o \notin uploaded =>
       /\ tags[o] = {} /\ \A j \in Jobs : task[j][o] = "none"
       /\ \A k \in Systems : imported[k][o] = 0
  /\ \A k \in Systems :
       /\ imported[k][o] <= 2
       /\ imported[k][o] > 0 => Handles(k, o) /\ \E j \in Jobs : System[j] = k
       /\ \A l \in Systems : imported[k][o] = 2 /\ imported[l][o] = 2 => k = l
  /\ o \in live => \A j \in Jobs :
       /\ imported[System[j]][o] = 1 /\ task[j][o] # "tag" => tags[o] # {}
       /\ imported[System[j]][o] = 1 /\ task[j][o] = "import" => seen[j][o] # {}
       /\ imported[System[j]][o] = 2 =>
            /\ tags[o] \ {System[j]} # {}
            /\ (task[j][o] = "tag" /\ seen[j][o] # {}) \/ System[j] \in tags[o]

ImportsBounded == \A o \in Reports : Bounded(o)

=============================================================================
