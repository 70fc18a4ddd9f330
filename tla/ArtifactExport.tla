--------------------------- MODULE ArtifactExport ---------------------------
(***************************************************************************)
(* containers/export.sh: init containers copy the compiled artifacts to    *)
(* /export/<identity> on a volume they share, possibly several at a time,  *)
(* and may be killed at any moment and run again.                          *)
(*                                                                         *)
(* All exporters of one identity carry the same files and SHA256SUMS, the  *)
(* list of their digests, which is copied with them but not in itself.  A  *)
(* copy of a file is identical ("good") or not ("bad").  A copy of the     *)
(* list is described line by line: "right", "wrong" (sha256sum -c fails on *)
(* it whatever the file is: another digest or name, a malformed line) or   *)
(* "lost" (there is no such line, so sha256sum -c ignores the file).       *)
(*                                                                         *)
(* mktemp names are unique, so a staging directory belongs to one run of   *)
(* one exporter; directories of killed runs stay behind.                   *)
(***************************************************************************)
EXTENDS Integers, FiniteSets

CONSTANTS
  Exporters,
  Files,
  MaxKills,      \* bound: how often an exporter is killed and started again
  MaxBadCopies   \* bound: how many copies have other bytes than cp read

ASSUME ExportAssumption == Files # {} /\ MaxKills \in Nat /\ MaxBadCopies \in Nat

VARIABLES
  shell,       \* where each exporter's shell is
  staging,     \* its staging directory, or Absent
  destination, \* /export/<identity>, or Absent
  abandoned,   \* staging directories without an owner
  kills, badCopies

exportVars == <<shell, staging, destination, abandoned, kills, badCopies>>

(* A directory: the copy of each file, and of each line of SHA256SUMS.     *)
Dirs == [copies : [Files -> {"none", "good", "bad"}],
         list   : [Files -> {"none", "right", "wrong", "lost"}]]
NotCopied == [f \in Files |-> "none"]
EmptyDir == [copies |-> NotCopied, list |-> NotCopied]
Absent == [x \in {} |-> "none"]

(* /artifacts/SHA256SUMS, and what cp may make of it.                      *)
ImageList == [f \in Files |-> "right"]
CopiedLists == [Files -> {"right", "wrong", "lost"}]

(***************************************************************************)
(* cd dir && sha256sum -c list: there is a line, and each line that there  *)
(* is agrees with the file it names.                                       *)
(***************************************************************************)
Verified(dir, list) ==
  LET listed == {f \in Files : list[f] # "lost"} IN
  /\ dir # Absent
  /\ listed # {}
  /\ \A f \in listed : list[f] = "right" /\ dir.copies[f] = "good"

ExportInit ==
  /\ shell = [p \in Exporters |-> "start"]
  /\ staging = [p \in Exporters |-> Absent]
  /\ destination = Absent
  /\ abandoned = {}
  /\ kills = 0
  /\ badCopies = 0

Jump(p, from, to) ==
  /\ shell[p] = from
  /\ shell' = [shell EXCEPT ![p] = to]

(* if [ -d "$destination" ]                                                *)
FindDestination(p) ==
  /\ Jump(p, "start", IF destination = Absent THEN "mktemp" ELSE "verify_found")
  /\ UNCHANGED <<staging, destination, abandoned, kills, badCopies>>

(* Checked against the image's own list; set -e: a failing check ends the  *)
(* script with its status.                                                 *)
VerifyFound(p) ==
  /\ Jump(p, "verify_found", IF Verified(destination, ImageList) THEN "exit_0" ELSE "exit_1")
  /\ UNCHANGED <<staging, destination, abandoned, kills, badCopies>>

MakeStaging(p) ==
  /\ Jump(p, "mktemp", "copy")
  /\ staging' = [staging EXCEPT ![p] = EmptyDir]
  /\ UNCHANGED <<destination, abandoned, kills, badCopies>>

(* The next file of cp -a: the check comes when nothing is missing.        *)
CopyInto(p, dir, faults) ==
  /\ shell[p] = "copy"
  /\ staging' = [staging EXCEPT ![p] = dir]
  /\ badCopies' = badCopies + faults
  /\ badCopies' <= MaxBadCopies
  /\ shell' = [shell EXCEPT ![p] =
       IF dir.list # NotCopied /\ \A f \in Files : dir.copies[f] # "none"
       THEN "verify_staging" ELSE "copy"]
  /\ UNCHANGED <<destination, abandoned, kills>>

(* cp writes a file, in any order, and perhaps wrong bytes unnoticed;      *)
CopyFile(p, f, quality) ==
  /\ shell[p] = "copy"
  /\ staging[p].copies[f] = "none"
  /\ CopyInto(p, [staging[p] EXCEPT !.copies[f] = quality], IF quality = "bad" THEN 1 ELSE 0)

(* SHA256SUMS is a file like the others, and may lose lines or change.     *)
CopyList(p, list) ==
  /\ shell[p] = "copy"
  /\ staging[p].list = NotCopied
  /\ CopyInto(p, [staging[p] EXCEPT !.list = list], IF list = ImageList THEN 0 ELSE 1)

Mut_VerifyStaging_Ignored(p) ==
  /\ Jump(p, "verify_staging", "publish")
  /\ UNCHANGED <<staging, destination, abandoned, kills, badCopies>>

(* The staged files are checked against the staged copy of the list.       *)
VerifyStaging(p) ==
  LET passed == Verified(staging[p], staging[p].list) IN
  /\ Jump(p, "verify_staging", IF passed THEN "publish" ELSE "exit_1")
  /\ staging' = [staging EXCEPT ![p] = IF passed THEN @ ELSE Absent]
  /\ UNCHANGED <<destination, abandoned, kills, badCopies>>

Mut_Publish_RemovesFirst(p) ==
  /\ Jump(p, "publish", IF destination = Absent THEN "renamed" ELSE "publish")
  /\ IF destination = Absent
     THEN /\ destination' = staging[p]
          /\ staging' = [staging EXCEPT ![p] = Absent]
     ELSE destination' = Absent /\ UNCHANGED staging
  /\ UNCHANGED <<abandoned, kills, badCopies>>

Mut_Publish_LoserStartsOver(p) ==
  /\ Jump(p, "publish", IF destination = Absent THEN "renamed" ELSE "publish")
  /\ IF destination = Absent
     THEN /\ destination' = staging[p]
          /\ staging' = [staging EXCEPT ![p] = Absent]
     ELSE UNCHANGED <<staging, destination>>
  /\ UNCHANGED <<abandoned, kills, badCopies>>

(* mv -T: an atomic rename that fails when the destination has content.    *)
Publish(p) ==
  /\ Jump(p, "publish", IF destination = Absent THEN "renamed" ELSE "verify_other")
  /\ IF destination = Absent
     THEN /\ destination' = staging[p]
          /\ staging' = [staging EXCEPT ![p] = Absent]
     ELSE UNCHANGED <<staging, destination>>
  /\ UNCHANGED <<abandoned, kills, badCopies>>

(* The end of the script; the trap has nothing left to remove.             *)
EndScript(p) ==
  /\ Jump(p, "renamed", "exit_0")
  /\ UNCHANGED <<staging, destination, abandoned, kills, badCopies>>

(* mv may fail for a reason of its own: the check decides all the same.    *)
RenameFails(p) ==
  /\ Jump(p, "publish", "verify_other")
  /\ UNCHANGED <<staging, destination, abandoned, kills, badCopies>>

Mut_VerifyOther_KeepsStaging(p) ==
  /\ Jump(p, "verify_other", IF Verified(destination, ImageList) THEN "exit_0" ELSE "exit_1")
  /\ UNCHANGED <<staging, destination, abandoned, kills, badCopies>>

Mut_VerifyOther_PublishedList(p) ==
  /\ Jump(p, "verify_other", IF destination # Absent /\ Verified(destination, destination.list)
                             THEN "exit_0" ELSE "exit_1")
  /\ staging' = [staging EXCEPT ![p] = Absent]
  /\ UNCHANGED <<destination, abandoned, kills, badCopies>>

(* Another exporter was first, or there is no directory to enter; the trap *)
(* removes this one's staging.                                             *)
VerifyOther(p) ==
  /\ Jump(p, "verify_other", IF Verified(destination, ImageList) THEN "exit_0" ELSE "exit_1")
  /\ staging' = [staging EXCEPT ![p] = Absent]
  /\ UNCHANGED <<destination, abandoned, kills, badCopies>>

(* No space, an I/O error: a command fails, set -e leaves through the trap.*)
CommandFails(p) ==
  /\ shell[p] \in {"start", "verify_found", "mktemp", "copy", "verify_staging", "verify_other"}
  /\ shell' = [shell EXCEPT ![p] = "exit_1"]
  /\ staging' = [staging EXCEPT ![p] = Absent]
  /\ UNCHANGED <<destination, abandoned, kills, badCopies>>

Exited(p) == shell[p] \in {"exit_0", "exit_1"}

Mut_Kill_BeforeMktemp(p) ==
  /\ ~ Exited(p)
  /\ kills < MaxKills
  /\ kills' = kills + 1
  /\ shell' = [shell EXCEPT ![p] = "start"]
  /\ abandoned' = abandoned \cup {staging[p]}
  /\ staging' = [staging EXCEPT ![p] = Absent]
  /\ UNCHANGED <<destination, badCopies>>

(* SIGKILL at any point, without the trap; the container is run again.     *)
Kill(p) ==
  /\ ~ Exited(p)
  /\ kills < MaxKills
  /\ kills' = kills + 1
  /\ shell' = [shell EXCEPT ![p] = "start"]
  /\ abandoned' = abandoned \cup ({staging[p]} \ {Absent})
  /\ staging' = [staging EXCEPT ![p] = Absent]
  /\ UNCHANGED <<destination, badCopies>>

Step(p) ==
  \/ FindDestination(p) \/ VerifyFound(p) \/ MakeStaging(p)
  \/ \E f \in Files, quality \in {"good", "bad"} : CopyFile(p, f, quality)
  \/ \E list \in CopiedLists : CopyList(p, list)
  \/ VerifyStaging(p) \/ Publish(p) \/ EndScript(p) \/ VerifyOther(p)

Over == (\A p \in Exporters : Exited(p)) /\ UNCHANGED exportVars

ExportNext ==
  \/ \E p \in Exporters : Step(p) \/ RenameFails(p) \/ CommandFails(p) \/ Kill(p)
  \/ Over

(* The shell of a running container is scheduled.                          *)
Fairness == \A p \in Exporters : WF_exportVars(Step(p))

ExportSpec     == ExportInit /\ [][ExportNext]_exportVars
FairExportSpec == ExportSpec /\ Fairness

-----------------------------------------------------------------------------
TypeOK ==
  /\ shell \in [Exporters -> {"start", "verify_found", "mktemp", "copy", "verify_staging",
                              "publish", "renamed", "verify_other", "exit_0", "exit_1"}]
  /\ staging \in [Exporters -> Dirs \cup {Absent}]
  /\ destination \in Dirs \cup {Absent}
  /\ abandoned \subseteq Dirs
  /\ kills \in 0 .. MaxKills /\ badCopies \in 0 .. MaxBadCopies

(***************************************************************************)
(* A reader of the volume who finds the directory finds every file in it,  *)
(* and intact if its SHA256SUMS, which no check covers, still has their    *)
(* line.  So neither a running copy, nor a killed one, nor one with a      *)
(* single wrong file is visible under the final name: a wrong file takes a *)
(* second fault, in the staged list the check at line 15 relies on.        *)
(***************************************************************************)
PublishedIsComplete ==
  destination # Absent =>
    \A f \in Files :
      /\ destination.copies[f] # "none"
      /\ destination.list[f] # "lost" => destination.list[f] = "right" /\ destination.copies[f] = "good"
      /\ destination.copies[f] = "bad" => badCopies >= 2

(***************************************************************************)
(* An exporter that reports success leaves a destination, and when another *)
(* one reports success too, the files are those of the image: at most one  *)
(* of them renamed its own directory and relied on the staged list, every  *)
(* other one compared with /artifacts/SHA256SUMS.                          *)
(***************************************************************************)
SuccessMeansPublished ==
  \A p \in Exporters : shell[p] = "exit_0" =>
    /\ destination # Absent
    /\ \A q \in Exporters \ {p} : shell[q] = "exit_0" => Verified(destination, ImageList)

(* "the same immutable directory": once published it is never touched.     *)
PublishedOnce == [][destination # Absent => UNCHANGED destination]_destination

(***************************************************************************)
(* A script that ends by itself removes its staging directory or has       *)
(* renamed it: only kills leave directories behind.                        *)
(***************************************************************************)
NoLitter ==
  /\ \A p \in Exporters : Exited(p) => staging[p] = Absent
  /\ Cardinality(abandoned) <= kills

(* Racing exporters never wait for each other: all of them end.            *)
AllExit == <>(\A p \in Exporters : Exited(p))
=============================================================================
