# Delorean: specifications, model checking and proofs

Delorean is the release and test tooling of the Integreatly / RHOAM operator: one Go binary with
some forty commands. Most commands are short and sequential, but they change state that other
commands, other runs of the same command and people change at the same time: objects and tags in S3
buckets, jobs and pods in a cluster, refs and pull requests on GitHub, image tags on quay.io, plans
in Polarion, the resources of an AWS account. What is hard to test here is what happens *between*
two calls. The specifications in this directory model that.

## 1. Inventory

| Component (code) | State it keeps or changes | Operations | What is hard |
|---|---|---|---|
| Task pool, `pkg/utils/concurrency.go` | two channels, an errgroup, the results slice | `ParallelLimit`, called by the three imports, `query-report` and `report cleanup` | goroutines, a select between "send" and "cancelled", closing channels |
| Report export and query, `cmd/exportResults.go`, `cmd/queryReport.go` | objects in a bucket | zip or query, upload | object names carry a 12-hour clock |
| ReportPortal, Polarion, Datahub import, `cmd/*Import.go` | tag set of each object, launches, XUnit jobs, a pushgateway | list, read tags, download, import, put tags | read-modify-write of the tag set by three commands, failures between import and tag |
| Report cleanup, `cmd/cleanupReports.go` | objects in the root and under `archive/` | list, check tags, copy, batch delete | two entries on one bucket, failing copies and deletes |
| Product tests, `cmd/productTests.go`, `pkg/utils/k8s.go` | namespace, secrets, jobs, pods, a WaitGroup, a watch per test | prepare, start, poll, watch, collect, complete, delete, tear down | goroutine per test, a watch that begins late or is closed, pods of earlier runs |
| Release tags, `cmd/tagRelease*.go`, `cmd/tagRepository.go` | git refs, quay tags | create tag, promote the last release candidate | check then create, retry, order of names |
| Merge blocker, `cmd/mergeBlocker.go` | GitHub issues | create, close | check then create, one page of a search |
| Release pull requests, `cmd/createRelease.go`, `cmd/mergeRelease.go` | branches, pull requests | clone, script, push, open, merge | partial failure and rerun, people at work beside them |
| Prodsec manifest, `cmd/createProdsecManifest.go` | a branch, a pull request, a temporary file | generate, carry over, push, open | runs on one machine share the file |
| OpenShift CI release and branch, OSD addon release | branches of forks, pull and merge requests | edit files, push, open | partial failure and rerun, dropped errors |
| Polarion release, `cmd/polarionRelease.go` | plans and test runs | create unless there | a half-created object is taken for done |
| AWS cleanup, `cmd/cleanupAwsAccount.go` | buckets, VPCs, tagged resources | snapshot, classify, delete | decisions on a stale snapshot |
| Manifests and OLM graph, `cmd/extractManifests.go`, `pkg/utils/csv.go` | a package directory under version control | extract, process, check | runs that stop between two files |
| CSV images, `cmd/processCSVImages.go` | the current CSV, the mirror mapping | rewrite for the mirror, rewrite for a release | three writes in a row, two kinds of run in turn |
| Bundles, versions and images in files | single files of the operator's repository | edit | search by prefix, entries that keep what earlier edits left |
| Supported versions, pipeline JUnit report | - | pure computations | lists that are cut while they grow |
| XUnit conversion, HTTP clients, flags, scripts | - | conversion and I/O | - |

How they interact: `ParallelLimit` is called by five commands and hands each of their closures to a
worker. `report export` and `query-report` feed the bucket that the three imports read and tag and
that `report cleanup` empties; these six commands never talk to each other, a scheduler outside this
repository runs them and the tag set is their only protocol. `product-tests` produces the results
that `report export` uploads. The release commands are steps of a pipeline whose only shared state is
on GitHub, quay.io and Polarion.

What makes each component correct:

* **Task pool**: a nil error means every task ran and its result is at its index; an error was really
  raised by a task, or the caller cancelled; no task runs twice; the call returns; never more than `limit` tasks at once.
* **Reports**: no report is lost by cleanup; what is archived was imported by everybody who had to;
  a tag never lies; a lost tag update costs a bounded number of imports; every report is archived
  in the end unless a system that is to process it meets a report it cannot process.
* **Product tests**: the verdict of a test is that of its own container; nothing is at work when the namespace is deleted; the command ends.
* **Release tags**: a success means that the git tag is at the commit read and every image is tagged at
  that commit or a later one; git tag and images agree; the final release is a candidate people tested.
* **Merge blocker**: two open blockers of one branch have an explanation in a race or a full page; a close
  leaves no blocker that was there and newer.
* **Release pull requests** and the other git commands: a success means a pull request with the run's commit;
  runs do not mix their commits on one branch; what is reported merged is merged; every line of a manifest that is pushed
  comes from one that was generated or was there, and the manifest is whole unless another run wrote in between.
* **Polarion release**: no milestone without its release, no test run without its milestone, and a success
  means all three; a test run that is no template has an explanation.
* **AWS cleanup**: nothing of a cluster with a listed instance is removed; what happens to a resource does not
  depend on the order of the lists; the record is true; the run ends and a second one finds nothing.
* **Commands on files**: after any sequence of runs, complete or stopped, the current CSV of the package is the
  one the last successful run copied, and a package that cannot be read any more was cut off while it was written or has two
  files for one version; the source of every image the deployment names by its mirrored name was listed for mirroring unless
  the run stopped; versions never go back, and another product's are touched only where a product has none of its own.

The hazards found on the way, each at its line and with the properties that cover it, are listed in
`PROJECT.json`.

## 2. Modules

| Module | What it is |
|---|---|
| `TaskPool` | what `ParallelLimit` promises: tasks, a limit, one truthful return |
| `ParallelLimit` | the goroutines and channels of `ParallelLimit`; refines `TaskPool` |
| `ParallelLimitProofs` | inductive invariant, safety theorems, and that every step is one of `TaskPool`, or a stutter |
| `ReportStore` | what the bucket promises: a report stays until it is archived, and is archived when processed |
| `ReportPipeline` | the bucket, the imports and the cleanup; refines `ReportStore` |
| `ReportPipelineProofs` | its safety theorems, with and without overlapping jobs, and that every step is one of `ReportStore`, or a stutter |
| `ProductTests` | `product-tests`: main, the goroutines, the watch, the cluster |
| `ProductTestsProofs` | its safety theorems |
| `TagRelease` | `tag-release-repo` and `tag-release` with the branch, the registry and CI around them |
| `TagReleaseProofs` | its safety theorems |
| `AwsCleanup`, `AwsCleanupProofs` | `cleanup-aws` on an account that changes beside it; its safety theorems |
| `Versions` | `pkg/utils/rhmi_version.go`: what a version string is taken for, the names built from it |
| `GitHost` | repositories, pull requests, people, and the clone of every run; the git operations |
| `ReleaseCommands`, `ProdsecManifest`, `OpenshiftCIRelease`, `OSDAddonRelease` | the commands that work on it |
| `ReleaseFlow` | their composition on the same repositories, its properties and their inductive invariant |
| `ReleaseFlowProofs` | its safety theorems |
| `MergeBlocker`, `PolarionRelease` | `merge-blocker` and `polarion-release` by concurrent and repeated runs |
| `FindOrCreateProofs` | the theorems about these two |
| `ManifestPackage` | `extract-manifests` and `check-olm-graph` on a package directory |
| `CSVImages` | `process-csv-images` before and for a release |
| `OperatorFiles` | the commands that edit one file each |
| `SupportedVersions`, `PipelineReport` | two pure algorithms, against definitions without their stages |
| `ReleaseToolsProofs` | the theorems about the commands on files, and about all release tools put together |
| `MC...` | constants for TLC; `MCCatalog` and `MCReleaseTools` also put models side by side |

Some definitions are followed or preceded by a *mutant* of them: the same operation with a plausible
bug. Nothing uses the mutants; they are there to be put in the place of the original, which must make
TLC report the property that `PROJECT.json` pairs with them.

### ParallelLimit

`limit`, `callerCancelled`: the arguments. `spawned`, `sent`, `closed`, `taken`: how far main and
the workers have come with `tasksChan`, which is FIFO and therefore holds the ids `taken .. sent-1`.
`wPc`, `wTask`: each worker. `cancelled`, `gErr`: the errgroup. `resultsChan`, `resultsClosed`,
`results`, `ret`: the way back. `outcome` is a history variable.

Main is `Spawn`, `Send`, `CloseTasks`, `Receive`, `Return`; a worker is `Take`/`Drained` (the range
loop), `RunTask`, `SendResult`/`SeeDone` (the two cases of the select; both may be enabled and
either may be taken) and `RecordError` (what `errgroup.Go` does with the returned error);
`CloseResults` is the goroutine that closes `resultsChan`, and `CallerCancel` the caller. `Return` waits
for the whole group a second time, as the code does; that nothing is at work after the return is therefore plain, and no
property says it. The order in which results are received is not observable, so `resultsChan` is a set.

Two behaviours of the code that a caller should know are part of the promise in `TaskPool`: with a
limit of zero or below no task is run and the call returns nil and blank results
(`ReturnResults`; no caller in the repository passes such a limit except `report cleanup` with an
empty configuration, which has no tasks either), and after an error the remaining tasks are not run.
The second contradicts the comment of the function, see section 6.

### ReportPipeline

`live`, `tags`, `archive`: the bucket. `running`, `failed`, `task`, `seen`: the import processes, a
`task` being one object a process has listed; `seen` is the tag set it has read. `cPc`, `toCheck`,
`toCopy`, `copied`: a cleanup task per entry of the configuration. `imported`, `handled`, `uploaded`:
history.

One action per S3 or remote call: `List`, `ReadTags`, `Import`, `PutTags`, `Finish` for an import,
`Cleanup`, `ListBucket`, `Check`, `Copy`, `Delete` for the cleanup. The three imports share these
actions; where they differ (which objects they take, the order of the tests, `--no-tagging`, reports
with nothing to import, the panic of the status poll) the difference is in the action. The calls of
one import to its remote system are one action, `Import`: nothing else sees the steps in between, and
its failure may come before or after the remote system took the report. A call can fail without
effect or, for the calls that write, after its effect; a process can be killed anywhere (`Crash`,
`CleanupCrash`). Some failures are not of the call but of the report: metadata that cannot be parsed, a job
name Polarion import does not know, a version that is none. They depend on the content only, so they recur in every run; `Upload` chooses in `broken` which
systems cannot process the new report, and `Import` of such a one always ends in `Fail`. The pool that runs the tasks is abstracted to what `TaskPool` promises: tasks run in
any order and side by side, and a command whose task failed may end without having started the
others (`Finish`). Its limit is left out, so the model has more interleavings than the code.

Two jobs may import into the same system (two overlapping runs of the same command).

`ReportStore` is the bucket without jobs, tasks and listings, over the same five variables (`uploaded`, `live`, `tags`,
`archive`, `handled`), so the mapping is the identity. `Upload` is the export; `Process` the moment an import has handled a
report (`Import`, and `CountImport` for a report with nothing to import); `Tag` a `PutTags` that takes effect, whatever stale set
it writes; `Archive` a `Copy`; `Remove` a `Delete`, which may remove a part of the batch. All other steps, every failure
without effect and every kill are stutters.

### ProductTests

`mPc`, `cur`, `secrets`, `ns`, `wg`, `ret`: `run()`; `cur` is the loop variable `testContainer`.
`pc`, `pick`, `result`, `verdict`: the goroutine of each test. `watch`, `events`: its watch.
`job`, `pods`: the cluster. `Prepare`, `NextTest`, `EndLoop`,
`Wait`, `Teardown` are main; `CreateJob`, `FindPod`, `OpenWatch`, `HandleEvent`, `Timeout`, `Spin`,
`CompleteJob`, `DeleteJob`, `Report` are a goroutine, one action per API call (get, delete and create
of the job are one action with all their outcomes, as only this goroutine uses the job). `PodStarts`,
`PodExits`, `PodTouched`, `OldPodGone`, `WatchCloses` are the cluster.

`events` are those the API server has sent and the goroutine has not received: on their way or in the channel. The timer of the
select measures idle time and may fire whenever the watch is open, with an event on its way or ready (Go then picks either), so
a test whose container has exited can still time out; no document promises otherwise. When the server closes the watch, any of
the last events may be lost.

A job deleted with default options may leave its pods behind, and these carry the label by which
`runTestContainer` finds "its" pod and opens the watch. The model allows such a pod for the tests in
`Leftover`. If the poll runs before the new pod exists it takes the old one, and the verdict can then
be that of the old pod; `VerdictIsOwn` says that this is the only way to a wrong verdict.

### TagRelease

`head`, `gitTag`, `image`: the branch, the git tags and the registry. A commit is its number on the
branch, and an image is the commit in its label, which is all `createTagForImage` compares. `pc`, `sha`, `src`,
`at`, `ok`: a command and its locals; `passed` records how it ended. A version is the number of its
candidate, 0 for the final one; `HasPrefix` and `NameKey` keep what the code sees of the name, the prefix
search of `GetRefs` and the order as text.

One action per remote call: `ReadHead`, `ReadTag`, `CreateRef` for `tag-release-repo`; `ReadHead`, `ReadRCs`,
then `Inspect` and `Mirror` for each entry of `--quayRepos`, and `EndAttempt`, `Again` or `TimeOut`
after the last. An entry that fails, for whatever reason, is `EntryFails`; a command can fail or be killed anywhere
(`Fail`) and be run again. `wait.Poll` counts time, which the model does not have: after any failed attempt it
may go on or time out. `Commit` and `Build` are the world: people merge, CI builds, and neither knows of the commands.

`Freeze` is an assumption about people, not code: nobody merges while a version has been begun and is not
complete, nor runs a command for a complete version again. The runs with and without it show which of the
promises are the code's own and which need that discipline.

### AwsCleanup

`account`, `pages`: the account. `pc` and the variables up to `deletedResources` are the run: `tag` is the
cluster tag it gave to what it listed, `osd` and `rhmi` (with `todo`, the keys the loop has not reached) are
its two maps, `s3Buckets` and `vpcs` its lists. `seen`, `listed`, `decided`, `removed`, `changed`, `trouble`
are history of the current run.

One action per listing (`fetchEC2Instances`, `fetchVpcs`, `fetchS3Buckets`, in the order of the code), one per
turn of a loop (`RhmiTag`, `cleanupUnusedVeleroS3Buckets`, `cleanupVpcs`), one per poll of the cluster service.
`extractClusterTag` ranges over a Go map, so of several known tags any may win. The cluster service is external:
it works by cluster tag on the account as it is, may remove a part, all or nothing between two polls, and
report complete only when nothing is left. `removeS3Bucket` deletes one page of objects, and S3 refuses a bucket that
still has some; EC2 refuses a VPC with instances. Other people create and remove resources at any time
(`Environment`), and the command is run again (`RunAgain`), with or without `--dry-run`.

### GitHost, the four command modules and ReleaseFlow

A branch is the set of commits reachable from its head, `{}` when it does not exist; a fast forward adds to the
set. A commit is what made it, on which branch, by which run and attempt, and for a manifest its lines.
`heads` has the repositories (operator, the CI repository and its fork, the managed-tenants repository
and its fork), `pulls` the pull requests. `clone` and `work` are a run's local branches and its checkout: they are
a snapshot, `CloneToTmpDir` fetches `refs/*:refs/*`, and they are forgotten when the run ends, as the temporary
directory is. `team` is the set of runs that are under way together; a model with all of them at once would
multiply runs that touch different repositories.

What each push takes along follows the code. `create-release` and `create-prodsec-manifest` push without
refspecs, that is all local branches, so a branch someone deleted since the clone comes back and one that moved on makes the whole
push fail. The CI and the addon command push one branch. `createPRIfNotExists` is two calls, list and create;
where the list is filtered by the full name of the base branch (`refs/heads/...`) the host may answer with nothing, and
the create that follows is refused. A reply may be lost: the run fails with its effect in place, and `Again` starts it
anew. `People` commit, merge, close and delete branches.

`ProdsecManifest` keeps the lines of the manifest, because the two copies it makes (to a temporary file beside the
clone that all runs on a machine share, and from there into the new branch) open their target without truncating it.
A copy goes piece by piece, here by line (`SaveManifest`, `RestoreManifest`), so copies of several runs overlap in the temporary
file. `temp.mixed` records the runs whose copies others wrote into: what those push can be a mixture. `ManifestKept` says what
remains. `OpenshiftCIRelease` keeps the two dropped errors (`openshiftCIRelease.go:81`, `:148`): the first
continues without the branch, the second ends the command with success. `quiet` records runs that succeed without a pull
request.

### MergeBlocker, PolarionRelease

`issues` is the list of blocking issues, `found` what a run's search returned, `known` how many issues there were when it
searched. A search sees one page of the newest open issues and matches the branch name as a prefix, so
`release-v1.1` finds the issue of `release-v1.10`. In `PolarionRelease` `Steps` are the calls of the command in
order: get and create of the release, the milestone and the test run, and the update that marks the test run as a template,
whose result is not looked at. `untold` are milestones whose test run a run created and could not mark.

### The commands on files

`ManifestPackage`: `bundles` (version, file, CSV) and `package` are the directory; a write can leave a created,
empty file (`Torn`) and a run can stop after any step. Reading follows the code: the first CSV file of a directory by name, the first
directory by *listing order* whose CSV cannot be read or has the name (a CSV lying in the package directory itself would be
taken before them; a package made of bundle directories has none, and no step puts one there). `Exempt` are the two CSVs of
Keycloak that `check-olm-graph` skips by name. `CSVImages`: the CSV's containers with their variables, `relatedImages`, the
annotation, and the mapping file; an image is its registry and the rest. The mapping has one entry for each *source*
(`BuildOSBSImage`), and two images can share one (`SourceOf`): the later overwrites the earlier. The annotation is rewritten and
never listed; `rewritten` is read off the CSV before and after each step, from what the deployment names.
`OperatorFiles`: three files; a command reads, edits in memory and writes once, so it is one step.
`SupportedVersions` and `PipelineReport` compute an answer in the stages and loops of the code, for every
question the constants allow. In `SupportedVersions` the sorted lists of numbers without duplicates are sets, a list that a loop
takes from the folders is the set of the positions it takes, and `Streams` is the loop that adds minor numbers and cuts the list
at every turn.

These models, `ReleaseFlow`, `MergeBlocker` and `PolarionRelease` share no state. `MCReleaseTools` (and `MCCatalog` for the files alone) chooses one of
them per behaviour (`part`) and leaves the others at rest; one run then answers for all of them.

## 3. Runs

| Run | Question | Size |
|---|---|---|
| `pool` | safety, liveness and refinement of the pool | 3 tasks; limits -1, 0, 1, 2, 4; two values; cancel at any time; about 99,000 states |
| `reports_faults` | safety under faults, is every step one of `ReportStore`, and is every report archived in the end? | 1 report, which Polarion may be unable to process, 3 overlapping imports, cleanup, 2 faults, fair scheduling; about 193,000 states |
| `reports_both` | both cleanup entries at once on one bucket; cost of the lost tag update | 1 test result, 1 downtime report, 3 systems, no faults; about 2.3 million states |
| `tests` | safety of product-tests, and does it end? | 3 tests with the three kinds of secret, one leftover pod, closing watches, 1 fault, 1 spurious update; about 282,000 states |
| `tags_race` | can two commands for one version both succeed with different commits? Is an image older than its command's commit ever reported as done? | candidate 1, 4 commands, 2 commits; about 455,000 states |
| `tags_frozen` | do git tag and images agree when merges are held back? | 2 candidates and the final release, 2 CI tags, 2 commits; about 732,000 states |
| `tags_order` | is the candidate promoted the last one? | violated |
| `tests_success` | is `Success` the test's own verdict? | violated |
| `tests_closed` | does the wait end when the watch is closed? | violated |
| `aws` | what may a cleanup remove while clusters come and go, and does it end? | 2 clusters, 2 instances, 4 VPCs, 3 buckets; tags of one, two and no cluster; 2 polls; about 305,000 states |
| `release_tools` | what do the release commands leave when they race, fail and are repeated; are files and answers right after any sequence of calls? | see below; about 740,000 states |
| `types_set` | does set-product-operator-version set the operator's version? | violated |

Every type invariant, and the inductive invariants of section 5, were model-checked while they were written. The theorems
establish them for all constants, so the runs list the properties that say something of the program.

Why the bounds are enough to be interesting. Pool: three tasks are more than the workers with limits
1 and 2, fewer than limit 4; one worker can fail, one hold a result and one task wait at the same
time. Reports: the lost update needs two writers and one report; a double import of one system needs
a fault or an overlapping run of the same command, both present in `reports_faults`; two entries are
what the configuration of the repository has. Product tests: captured variable and wait group need
two goroutines; the leftover pod of one test meets a clean other one, a third test is skipped; one fault
fails any call.

Release tags: a race needs two commands for a version and one merge between their reads; `tags_order` has
candidates 9 and 10 for the order as text; two commits suffice for a final release that follows its candidate.

AWS: c1 runs and may go, an instance of c2 may appear at any step; there are a VPC whose tags name both clusters, one
without tags, a default one, a Velero bucket with an empty cluster tag and one with two pages of objects; two polls allow a partial report, a
late complete one and the timeout.

Release tools. Git flow: ten teams of one to three runs that meet on a branch, a file or a pull request (`MCTeams`), at
most two acts of people (`MaxActs`), two attempts for one command of each kind that a retry can meet. Merge blocker:
three creators and a closer, where the name of one branch begins that of another; a page of one issue (GitHub's default is
30; what matters is whether newer issues fill it). Polarion: three runs for two builds of one release, two attempts each.
Manifests: four sources, two of them with one version under two names, one exempt from the graph check, versions whose
directories are listed in an order that is not theirs, four runs. CSV images: four runs or fresh CSVs, two images with one source, an
annotation that names no container's image, an extra that has its mirrored name already. Files: three edits, versions up to 3, a product without a version of its own
whose name begins another's (Fuse, as in the test data). Supported versions: all lists of up to
three of six folders in any order, 0 to 2 streams. Pipeline report: up to four stages.

Deadlock is checked in every run but `tags_frozen`, `release_tools` and `types_set`: there the commands end, and once
every version is complete, or every run has used its attempts, nothing is left to do. The ends of a call are explicit stuttering
actions (`Returned`) elsewhere.

## 4. Fairness

* `ParallelLimit`: weak fairness of main, of each worker and of the closer. The Go scheduler runs
  every goroutine that can move; that a task returns is an assumption about the callers' closures.
  The cancellation by the caller has no fairness.
* `ReportPipeline`, `FairSpec` only: weak fairness of the steps of a process that runs and of
  starting the commands again: the commands are made to be run periodically, which is an assumption
  about the scheduler outside the repository. Faults and kills have none and are bounded by
  `MaxFaults`. That a remote call ends is assumed; `polarion-import` polls a job without a limit, so
  there this is an assumption about Polarion.
* `TagRelease` has no fairness and no liveness property: whether a waiting command succeeds depends on CI, and
  once CI has built a newer commit it cannot.
* `ProductTests`: weak fairness of main and the goroutines. Nothing is assumed of the cluster; `Ends` promises
  a return as long as no watch is closed, and `tests_closed` shows what happens otherwise.
* `AwsCleanup`: weak fairness of `Step`, the run itself. Each loop is over a list it already has, a listing answers or
  fails, and the wait for the cluster service has a limit; nothing is assumed of the service. `Ends` fails when that limit is taken away.
* The release tools have no fairness and no liveness property: whether they succeed depends on people and on services, and
  nobody promises to run them again.

## 5. Proofs

All for arbitrary constants that satisfy the named assumptions. `tlapm` checks every leaf.

**Pool.** From `PoolAssumption` (a natural number of tasks; limits are integers; `Nil` and `Failed` are
no values). The properties are not inductive: that a nil error means complete results depends on where
each task can be at any time. `IndInv` adds
`Dispatch` (workers start in order and before the first send, tasks are closed after the last one),
`Holding` (a busy worker's task is its own and its outcome agrees with the worker's place),
`NoTaskLost` (a task waits in the channel, or is run, or its failure is recorded or about to be, or
its value is in `results`, in the channel, in a worker's hand, or an error is recorded),
`Causes` (a cancelled context without an error was cancelled by the caller, or the work is over) and
`Ending` (a worker that left without an error saw the drained channel). One lemma per conjunct goes
through the actions; `IndInvInvariant` collects them, and `ResultsCompleteCorrect`,
`ErrorHasCauseCorrect`, `RunsOnceCorrect` follow. `ImplementsPool` maps each step: `Take` to `Start`, `RunTask` to `Finish`, `Return` to one of
the two returns, `CallerCancel` to `Cancel`, everything else to a stutter; its main lemma counts the
running workers to show a free slot below the limit.

**Reports.** From `PipelineAssumption` alone: any number of jobs, several per system, any number of
faults. `ArchivedIsProcessed`, `NothingLost` and `TagsAreTrue` depend on what the processes hold
between two calls, so `IndInv` adds `TasksJustified` (a task belongs to a running job, and the tag it is
about to put is one of a system that has handled the report) and `CleanupJustified` (what is about to be
copied is processed, what is about to be deleted is copied). The argument is one of monotonicity: what
systems have handled only grows (`HandledGrows`), so whatever a process read, however long ago, still
justifies its next call; that is why the lost update of a tag costs imports and never a report. `StoreImplemented` draws the
conclusion for the bucket as a whole: under `IndInv` each step maps to one of `ReportStore` or a stutter. `ImportImplements`,
`PutImplements` and `CleanImplements` are the steps that change the bucket; the tag set that `PutTags` writes is one the system
has truly handled (`TasksJustified`), what `Copy` copies is processed and what `Delete` removes is copied
(`CleanupJustified`).

What that costs is proved under the discipline the scheduler is to keep (`OneWriterEach`: one job per system, and no report is
a test result and a downtime report at once, as the two commands name them). `WritersApart` then says that a task at work does
not find its own system among the tags and that all it saw is still there: at most two systems take a report, so the one writer that
could interfere would itself be at work. `FullTagsStayCorrect` follows for any number of faults where every entry that names one
of `rp` and `polarion` names both (`RequiresBoth`, as `configurations/cleanup-reports.yaml` does); an entry for one of them alone
can lose its tag. `DuplicateBoundCorrect` needs `NothingFails` too. Its invariant `ImportsBounded` counts: a system whose tag was lost
lost it to the other one, therefore sees that one's tag when it imports again, and puts back both, after which neither imports.

**Product tests.** From `TestsAssumption`: any number of tests, any secrets, any leftover pods, watches
that close or not. `IndInv` adds `Counted` (the wait group is the number of goroutines at work, which
start in the order of the loop; the main loop is past its wait only when there are none) and `OwnExits` (once
the poll has found this run's pod, the old pod is gone for good and each exit on its way, or taken from the channel,
is the exit of this pod).
`MainLocal`, `GoLocal` and `EnvLocal` say that a step touches one test only, so each conjunct is proved for
the test that moves. The counting uses the finite set theorems of the library. `SuccessIsOwn` is false (section 6); what
remains of it is proved: no test is marked as passed unless it or one started before it passed (`SomePassedCorrect`), and a
single test gets its own verdict (`OneTestIsOwn`). Both rest on `VerdictStays`: only `Report` writes the field and no verdict
is taken back.

**Release tags.** From `TagAssumption`: any number of versions, commands, repositories, entries and commits; it
asks that the images of one repository and version come from one CI tag. `IndInv` adds `Sound` (a promoting
command works for the commit of the git tag of its source), `NotAhead` (a candidate's image is never newer
than the CI image it is copied from, so a copy made after a stale check moves it forward), `CopiedSoFar` (what
an attempt has copied) and `AtHead` (while merges are held back, everything of a version in progress is at
HEAD). `QuietStep` reduces the eleven steps that touch only their own command to that command; `CompleteStays` is
what holding back merges buys. `SameCommit` and `FinalIsTagged` are proved under `Freeze` and fail without it
(section 6). `MostRecentRCIsTagged` needs a greatest name to exist, which follows from
well-foundedness of the naturals. `LastIsPromoted` bounds the finding of `tags_order`: the candidate promoted is the last one
in every state whose tagged candidates have numbers of the same length (`OrderOfNames`: among those, text and number agree).

**AWS cleanup.** From the three assumptions of the module: any resources, tags, clusters, pages and number of polls.
`IndInv` adds `KeysAreSeen` (every key of `osdResources` but the empty one is the cluster of an instance that was
listed, and all such clusters are there), `Filed` (what is in the lists exists and is filed under one of its tags), `Progress`
(how far the run has come), `RhmiHandled` (every listed RHMI resource is still to do, of a cluster in use, or gone) and
`DecidedSoFar` (`DecidedBySnapshot` while the loops run). The loops add keys to `osdResources` on their way; the
argument for `DecidedBySnapshot` is that they only add keys that were there and the empty one, which decides nothing.
`Sweeps` is the frame that every step after the listings satisfies: what it removes is an orphan whose cluster
service is done, and what it records is gone; `SweepStep` gets the four conclusions from it once, and `CollectStep` does the
same for the listings. `NothingLeft` rests on a second invariant, `Swept`: what has one tag is filed as that tag says, and as long as
nobody interferes and nothing fails, the instances that keep a key in `osdResources` are there, what was decided on is not, and what
is there has been listed. It is proved where no instance names several clusters (`InstancesOfOne`). Without that it is false, as TLC
shows when `i1` also carries the RHMI tag of `c2`: the run keeps what belongs to `c1` because of `i1`, the cluster service removes
`i1` for `c2`, and the next run finds a VPC of `c1` to remove. The loops are only late by one run then; nothing in use is lost.

**Merge blocker.** Any number of runs and any page size. `SearchHolds` says that what a search has told a run stays
true of the issues it saw that are still open: closing only shrinks that set and new issues have higher numbers. The page
needs cardinalities: an open issue the search does not list has at least a page of newer ones before it.

**Git commands.** From `FlowAssumption`: any set of runs, versions, manifests and numbers of attempts, and teams of any size (a run has a
branch name of its own only as far as the code gives it one). `FlowInv` adds `WellMade` (every commit, on a branch, in a clone or in a
checkout, is what its maker makes: people commit to main, a run to its own branch, and a manifest is as `ManifestKept` has it),
`TempKept` (every line of the temporary file stands where some manifest has it, and as long as nobody else has written
in between it begins with what a run has copied so far), `BranchesNamed` (a branch a command works on has a
commit made for it), `PullsSound` (pull requests come from the branches of runs, two open ones never from the same branch, what was
merged is on main) and `RunsSound` (what a run holds between its calls: its clone is a snapshot of which main has since only grown, its checkout
holds its own commit and no other of its branch, and the pull request it was told of exists). The argument has three parts: main branches only grow, so what a
clone knew of main stays true; branches can be deleted and come back by the push of everything, but only as they were in a
clone, and clones are well made; and a push is a fast forward, so a second run for the same branch either has the first one's commit in
its clone or is refused.

**Manifests.** From `SourcesAssumption` and `PackageAssumption`: any source packages, listing order and number of runs.
`ManifestInv` adds `CutKnown` (what is torn or empty is in a version that a run was stopped in), `Anchored` (unless the package file is torn, a file with
the name it gives is there) and `Carried` (how far the run has come; at the end the package can be read). `GraphIsChain` is about
`check-olm-graph`: a set of versions that holds the oldest and is closed under "is replaced by" holds them all, by
the least version outside it; each CSV that the check exempts by name may begin a chain of its own.

**CSV images.** `ImagesInv` adds `Pending`, what a run has rewritten and has still to list, and that each part of the CSV is `Right` once the run is past it,
for any containers, variables, extra images and shared sources. What is listed is covered by source: an entry that another image
with the same source overwrites stays covered by that one (`CoverStays`).

**Files.** From `LinesAssumption` (lines with a type and a product, any names, in any order), the requests and the bound. The
search takes the first line that matches, which can be another product's; `TypesGrow` says when it can: only where the product has no
line of that type before it. The test data of the repository has such a product, Fuse, whose version line is missing and whose edits
therefore reach `VersionFuseOnOpenshift`. `FilesInv` adds to `FilesAsWanted` the types. `SetUnlessCurrent` bounds the finding of `types_set`: every step of
`set-product-operator-version` sets the operator's version unless the product's version it is given is the one that is there
already (or the product's `Version` line is the operator's own, in a file without the former before the latter).

**Pipeline report.** `FailuresCounted` for every number of stages: the failures a full report shows are in bijection with the ways of not succeeding.

**Supported versions.** For all lists of folders in any order and all counts. What the help says has no loop in it: a stream counts if fewer
than the asked number of streams are above it. The code cuts its list of minor streams at every turn, in the order of the folders. `LoopRuns` says
what the recursive function `Streams` is at each position and `StreamsAre` that after each turn the list is the newest of the numbers passed so
far: a number that was cut has enough above it already, and these can only become more (`CutKeeps`). The induction is over positions; as the library's
induction theorem takes an operator, `EveryNumber` gets it for a set of numbers from a least number outside it. `AnswerIsExact` and
`ProductionIsNewest` then compare the answer with the definition, `SupportedCorrect` and `AnswersRightCorrect` conclude.

**Release tools.** `PartsBehave`: a step of one tool leaves the others alone, so `ToolsSpec` implies the specification of each;
`ToolsRight` collects their promises for the composition that `release_tools` runs.

**Polarion release.** Any number of runs, builds and attempts. `Reached` links the place of a run to what is there;
nothing is ever removed, so it is stable under the steps of the others.

**Only model-checked**: every liveness property (`Returns`, the fairness part of `PoolSpec`, `EventuallyArchived`, `Ends`),
which is out of the prover's reach. Every invariant and every action property that a run checks is a theorem.

## 6. Where code and documents disagree

With a run that finds the violation:

* `tests_success`: the goroutine of a test assigns `testContainer.Success`
  (`cmd/productTests.go:165`, `:168`), the loop variable it captures. Under go 1.19 there is one
  variable for all iterations, so the verdict lands in the last test started; the unit test that reads
  the field has one test only.
* `tests_closed`: when the API server closes the watch, `WaitForContainerToComplete` receives nil
  objects without end and `continue`s; each turn makes a new timer, so "should timeout" of
  `pkg/utils/k8s_test.go:237` does not happen.
* `tags_order`: `cmd/tagRelease.go:153` promises the most recent candidate; names are compared as text, so rc9
  comes after rc10 and is promoted.
* `types_set`: `set-product-operator-version` promises to set the operator's version and, if given, the product's
  (`cmd/manageRHMITypes.go:32`). When the product's version is the current one, the second edit returns the empty text that means
  "no change", the command writes nothing and succeeds, and the operator's version stays.

Met while modelling, and part of the models:

* `pkg/utils/concurrency.go:23` promises to wait for all tasks to be completed. After the first error the tasks still
  queued are never run; `TaskPool` says so.
* "Also create the same tag for the image that is built from the same commit" (`cmd/tagRelease.go:60`):
  `tag-release` reads HEAD again (`:87`) and never looks at the git tag that `tag-release-repo` created; with a merge in between, tag
  and image are of different commits. `SameCommit` holds under `Freeze` only.
* Without `--wait` a failed attempt of `tag-release` returns the nil `err` (`cmd/tagRelease.go:135`). The test "should fail if
  image doesn't exist with the expected git commit" (`cmd/tagRelease_test.go:273`) passes only because its mock ref has no name, so
  that the branch is not found.
* `CreateAndPull` treats "already up to date" as an error, so `openshift-ci-release` fails whenever the fork is not behind.
* `process-csv-images` splits an extra image at `=` and panics without one; its help shows `NAME@IMAGE`. A release leaves
  stage images in the containers after the first (`RegistriesRight` leaves them out).
* The names of 3scale bundles are no semantic versions, so the sort of `update-3scale-bundle` moves nothing.
* `process-bundle` with `--index` and no `--package` erases the package, and the other kind of image stays in the entry.
* The search for a product's `Version` line also finds its `OperatorVersion` line, and lines of products whose names begin
  alike (`FindString`).
* `supported-versions` drops versions above production by their minor stream only, and one folder that is no version fails
  the command.
* The names of exported and queried reports have a 12-hour hour ("03"), so two made twelve hours apart on one day share one;
  the report model takes names to be distinct. The filter of `junit-report` leaves the counts of the suite unchanged.

## 7. Not modelled

* **Hazards without a property.** The listing of the imports is not paged (`cmd/reportPortalImport.go:130`): no document
  says what a longer bucket should do, and the model lists all of it, so `EventuallyArchived` is about buckets of one page. A test whose
  container has exited can be given up by a timer that fires while the event is on its way or ready (`pkg/utils/k8s.go:183`): in the
  model, and nothing says that it may not. The status of a Polarion job is polled without a limit
  (`cmd/polarionImport.go:256`): `EventuallyArchived` assumes the call ends. The gauge of `datahub-import` is shared by its tasks
  (`cmd/datahubImport.go:191`): nothing here reads the gateway. An error while a secret is created leaves `product-tests`
  with goroutines at work (`cmd/productTests.go:153`): nothing says what should happen, and `AllDoneAtReturn` is about a nil return.
* **Data.** File contents are kept where a property needs them (the lines of a manifest, images, versions) and are
  data elsewhere: the edits of the CI configuration (`openshift-ci-add-branch` is those alone), what the addon command copies
  and edits in the bundle, the fields that `process-manifest` sets. Zip files and Prometheus queries are data too.
* **Finer steps.** The writes of `process-csv-images` are atomic here, the copy of a manifest goes by whole lines, and the
  order of manifests merged into one main branch is not kept (`Existing` allows any).
* **Text.** `verify-image-version` and `replace-image-version` do not depend on each other in the code, and what the second replaces is
  a matter of characters: the first place where those of the current image stand, which can be inside a longer tag
  (`cmd/replaceImage.go:43`). A model of images as values would decide that by its own choice, so they are left out, with the hazard listed.
* **People.** Nobody deletes a git tag (as an error message of `createGitTag` asks). `tag-repository` makes the calls of
  `tag-release-repo` on repositories that nothing else here touches.
* **No state, failure or order.** The XUnit conversion, the latest release of a repository (one request, one comparison),
  the HTTP clients (one request each; their failures are the failing calls of the commands), flags, environment, files, logging, shell
  scripts and pipelines.

Worth doing next: the writes of `process-csv-images` at the grain of `ManifestPackage`; a promise of the release commands as a
specification of its own that `ReleaseFlow` refines; the text search of `replace-image-version` on short strings.
