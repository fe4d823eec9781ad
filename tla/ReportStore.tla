----------------------------- MODULE ReportStore -----------------------------
(***************************************************************************)
(* What the report bucket promises to those who fill it and to those who   *)
(* read the archive, without the jobs and tasks that do the work: a report *)
(* stays in the bucket until its copy is in the archive, it is archived    *)
(* only after every system that some entry of the configuration names has  *)
(* processed it, and whatever tags it carries, stale ones too, are true.   *)
(***************************************************************************)
CONSTANTS
  Reports,   \* the names a report may have
  Systems,   \* the systems that process reports
  Configs,   \* entries of the cleanup configuration
  Required   \* the systems each entry requires

VARIABLES
  uploaded,  \* reports ever uploaded
  live,      \* reports in the bucket
  tags,      \* the systems that each report says have processed it
  archive,   \* reports in the archive
  handled    \* the systems that have

store == <<uploaded, live, tags, archive, handled>>

Init ==
  /\ uploaded = {} /\ live = {} /\ archive = {}
  /\ tags = [o \in Reports |-> {}]
  /\ handled = [o \in Reports |-> {}]

\* A name is uploaded once: what has been archived does not come back.
Upload(o) ==
  /\ o \notin uploaded
  /\ uploaded' = uploaded \cup {o}
  /\ live' = live \cup {o}
  /\ UNCHANGED <<tags, archive, handled>>

\* A system processes a report, the first time or again.
Process(k, o) ==
  /\ o \in live
  /\ handled' = [handled EXCEPT ![o] = @ \cup {k}]
  /\ UNCHANGED <<uploaded, live, tags, archive>>

\* The tags are replaced as a whole. Some may get lost, but not all, and none
\* is made up.
Tag(o) ==
  /\ o \in live
  /\ \E kept \in SUBSET handled[o] : kept # {} /\ tags' = [tags EXCEPT ![o] = kept]
  /\ UNCHANGED <<uploaded, live, archive, handled>>

\* The tags may have changed since they were read; the report is processed
\* all the same.
Archive(o) ==
  /\ o \in live
  /\ \E c \in Configs : Required[c] \subseteq handled[o]
  /\ archive' = archive \cup {o}
  /\ UNCHANGED <<uploaded, live, tags, handled>>

\* Only what has a copy leaves the bucket.
Remove ==
  /\ \E gone \in SUBSET archive : live' = live \ gone
  /\ UNCHANGED <<uploaded, tags, archive, handled>>

Next ==
  \/ \E o \in Reports : Upload(o) \/ Tag(o) \/ Archive(o)
  \/ \E k \in Systems, o \in Reports : Process(k, o)
  \/ Remove

Spec == Init /\ [][Next]_store
=============================================================================
