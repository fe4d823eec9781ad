-------------------------- MODULE ProdsecManifest ---------------------------
(* release create-prodsec-manifest generates a manifest on the release       *)
(* branch, carries it through a temporary file to a new branch made from     *)
(* main, and opens a pull request with it.  The temporary file lies beside   *)
(* the clone, under a fixed name: all runs on one machine share it, and each *)
(* copies a piece at a time, here a line.                                    *)
EXTENDS GitHost

Source(j) == IF JobOf[j].type = "production" THEN ReleaseBranchName(JobOf[j].version) ELSE Main

Quietly(j) == quiet' = quiet \union {j} /\ Goto(j, "done")

CloneForManifest(j) ==
    /\ At(j, "prodsec", "clone")
    /\ CloneToTmpDir(j, "operator")
    /\ pc' = [pc EXCEPT ![j] = "script"]
    /\ UNCHANGED <<team, heads, pulls, work, tries, acts, quiet, merges, temp>>

\* Mutant of Put: the file is opened for appending.
PutAtEnd(file, k, line) == Append(file, line)

(* A step of io.Copy, which goes on after what it has copied.                *)
Put(file, k, line) ==
    IF k \in DOMAIN file THEN [file EXCEPT ![k] = line] ELSE Append(file, line)

(* copyManifestFile opens the destination without O_TRUNC: what a whole copy *)
(* does not write over stays.                                                *)
copyManifestFile(new, old) == new \o SubSeq(old, Len(new) + 1, Len(old))

(* A comparison ends after the script; a type without a file name fails.     *)
runManifestScript(j) ==
    /\ At(j, "prodsec", "script")
    /\ clone[j][Source(j)] # {}
    /\ \/ JobOf[j].type = "compare" /\ Quietly(j) /\ UNCHANGED temp
       \/ /\ JobOf[j].type \in {"production", "master"}
          /\ temp' = [temp EXCEPT !.copied[j] = <<>>]
          /\ Goto(j, "save") /\ UNCHANGED quiet
    /\ UNCHANGED <<team, heads, pulls, tries, acts, merges>>

\* The other runs between the beginning of the first copy and the end of the second.
Copying(j) == {i \in team \ {j} : pc[i] \in {"save", "restore"}}

(* The first copy: the generated manifest to the temporary file.             *)
SaveManifest(j) ==
    LET new == JobOf[j].manifest
        k == Len(temp.copied[j]) + 1
    IN  /\ At(j, "prodsec", "save")
        /\ \/ /\ k \in DOMAIN new
              /\ temp' = [temp EXCEPT !.file = Put(@, k, new[k]),
                                      !.copied[j] = Append(@, new[k]),
                                      !.mixed = @ \union Copying(j)]
              /\ UNCHANGED <<pc, clone, work>>
           \/ /\ k \notin DOMAIN new
              /\ temp' = [temp EXCEPT !.copied[j] = <<>>]
              /\ Goto(j, "restore")
        /\ UNCHANGED <<team, heads, pulls, tries, acts, quiet, merges>>

SameFile(i, j) ==
    /\ JobOf[i].type = JobOf[j].type
    /\ NameByOlmType(JobOf[i].version) = NameByOlmType(JobOf[j].version)

(* The manifest on main: the first, or one of those merged since (which of   *)
(* them was the last is not recorded).                                       *)
Existing(j) ==
    LET merged == {c \in clone[j][Main] : c.kind = "manifest" /\ SameFile(c.by, j)}
    IN  IF merged = {} THEN {OldManifest} ELSE {c.file : c \in merged}

(* Both checkouts are forced, the second creates the branch; then the second *)
(* copy, up to the end the temporary file has by then, over the manifest of  *)
(* main in the clone, which no other run sees.                               *)
RestoreManifest(j) ==
    LET k == Len(temp.copied[j]) + 1
    IN  /\ At(j, "prodsec", "restore")
        /\ clone[j][OwnBranch(j)] = {}
        /\ \/ /\ k \in DOMAIN temp.file
              /\ temp' = [temp EXCEPT !.copied[j] = Append(@, temp.file[k])]
              /\ UNCHANGED <<pc, clone, work, quiet>>
           \/ /\ k \notin DOMAIN temp.file
              /\ \E old \in Existing(j) :
                     LET file == copyManifestFile(temp.copied[j], old)
                     IN  IF file = old THEN Quietly(j)
                         ELSE /\ work' = [work EXCEPT ![j] =
                                     clone[j][Main] \union {CommitOf("manifest", j, file)}]
                              /\ pc' = [pc EXCEPT ![j] = "push"]
                              /\ UNCHANGED <<clone, quiet>>
              /\ temp' = [temp EXCEPT !.copied[j] = <<>>]
        /\ UNCHANGED <<team, heads, pulls, tries, acts, merges>>

PushManifest(j) ==
    /\ At(j, "prodsec", "push")
    /\ PushAll(j, "operator")
    /\ \E where \in {"find", "failed"} : Goto(j, where)
    /\ UNCHANGED <<team, pulls, tries, acts, quiet, merges, temp>>

ManifestPull(j) ==
    /\ \/ /\ At(j, "prodsec", "find")
          /\ FindPull(j, "operator", TRUE, "open")
          /\ UNCHANGED pulls
       \/ At(j, "prodsec", "open") /\ OpenPull(j, "operator")
    /\ UNCHANGED <<team, heads, tries, acts, quiet, merges, temp>>
=============================================================================
