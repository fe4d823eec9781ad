--------------------------- MODULE PipelineReport ---------------------------
(* pipeline junit-report: the stages of a Jenkins run become the test cases  *)
(* of one suite.  Of the stages that failed only the first is a failure (it  *)
(* takes the enclosing ones with it), likewise of those that were aborted.   *)
EXTENDS Naturals, Sequences, FiniteSets

CONSTANTS Statuses, MaxStages

ASSUME StagesAssumption == MaxStages \in Nat /\ {"FAILED", "ABORTED"} \subseteq Statuses

VARIABLES stages, suite
jvars == <<stages, suite>>

(* The case of a stage, given what the loop has met before it.               *)
Before(s, k, status) == \E j \in 1..(k - 1) : s[j].status = status

Outcome(s, k) ==
    IF s[k].status \notin {"FAILED", "ABORTED"} THEN "passed"
    ELSE IF Before(s, k, s[k].status) THEN "skipped" ELSE "failed"

(* The filter leaves cases out, it does not change what is counted.          *)
ToJUnitSuites(s, filter) ==
    [tests |-> Len(s),
     failures |-> Cardinality({k \in DOMAIN s : Outcome(s, k) = "failed"}),
     cases |-> [k \in {i \in DOMAIN s : filter => s[i].matches} |-> Outcome(s, k)]]

ReportInit ==
    /\ stages \in UNION {[1..n -> [status: Statuses, matches: BOOLEAN]] : n \in 0..MaxStages}
    /\ suite = <<>>

report == suite = <<>> /\ \E f \in BOOLEAN : suite' = ToJUnitSuites(stages, f) /\ UNCHANGED stages

ReportSpec == ReportInit /\ [][report]_jvars

----------------------------------------------------------------------------
(* A run with unsuccessful stages never looks clean: the suite counts a      *)
(* failure for each way of not succeeding, and a report of all stages shows  *)
(* exactly as many; one of some stages never shows more than it counts.      *)
FailuresCounted ==
    suite # <<>> =>
        LET Shown == {k \in DOMAIN suite.cases : suite.cases[k] = "failed"}
        IN  /\ suite.failures = Cardinality({"FAILED", "ABORTED"} \intersect {stages[k].status : k \in DOMAIN stages})
            /\ Cardinality(Shown) <= suite.failures
            /\ DOMAIN suite.cases = DOMAIN stages => Cardinality(Shown) = suite.failures
=============================================================================
