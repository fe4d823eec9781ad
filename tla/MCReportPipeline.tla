-------------------------- MODULE MCReportPipeline --------------------------
(* Instances of ReportPipeline for TLC. *)
EXTENDS ReportPipeline

\* One job per system, as many as the commands there are.
OneEach == {"rp", "polarion", "datahub"}
SystemOfEach == [j \in OneEach |-> j]

\* The two systems that share objects.
ZipJobs == {"rp", "polarion"}
SystemOfZip == [j \in ZipJobs |-> j]

\* Two overlapping runs of reportportal-import, one with --no-tagging.
Overlapping == {"rp", "polarion", "rpAgain"}
SystemOfOverlapping ==
  [j \in Overlapping |-> IF j = "polarion" THEN "polarion" ELSE "rp"]
NoTaggingAgain == {"rpAgain"}

\* configurations/cleanup-reports.yaml
BothEntries == {"results", "downtime"}
RequiredByBoth == [c \in BothEntries |->
  IF c = "results" THEN {"rp", "polarion"} ELSE {"datahub"}]
ResultsEntry == {"results"}
RequiredByResults == [c \in ResultsEntry |-> {"rp", "polarion"}]

None == {}

=============================================================================
