--------------------------------- MODULE Cycler ---------------------------------
(***************************************************************************)
(* Retention on one storage (runModel in storage/base.go, storage/         *)
(* cycler.go).  A backup is uploaded; the Cycler then loads the list of    *)
(* the packages it knows, adds the new one, deletes from the front of the  *)
(* list while it is longer than `keep', and saves it, on the storage and   *)
(* locally.                                                                *)
(*                                                                         *)
(* A package stands for all the parts of a split archive: when deleting    *)
(* one part fails, the package counts as left.  Uploads are numbered; a    *)
(* file name is the number of the first upload that may have had it, so    *)
(* that names are distinct unless filename_format repeats them.            *)
(***************************************************************************)
EXTENDS Integers, Sequences, FiniteSets

CONSTANTS Keep,        \* the storage's `keep'; 0 keeps everything
          MaxUploads,  \* bound on the uploads
          HasUrl,      \* whether the storage's download() returns a URL
          Repeats,     \* whether filename_format may give a name again
          Faults,      \* what may fail: "fetch", "save", "delete", "disk",
                       \* "upload"; "crash"; "wipe": local files do not last
          Missing,     \* no state file
          CutOff       \* a state file a crash cut off

ASSUME CyclerAssumption ==
    /\ Keep \in Nat /\ MaxUploads \in Nat
    /\ HasUrl \in BOOLEAN /\ Repeats \in BOOLEAN
    /\ Missing \notin Seq(Nat) /\ CutOff \notin Seq(Nat) /\ Missing # CutOff

Name == 1..MaxUploads

VARIABLES stored,    \* by name: the upload whose file is on the storage, or 0
          uploads,   \* how many uploads have succeeded
          remote,    \* the state file on the storage
          local,     \* the state file in cyclerPath
          pc,        \* where Run is
          fileKey,   \* the name of the backup being stored
          packages,  \* Cycler.packages
          isLoaded,  \* Cycler.isLoaded
          failed     \* history: the faults there have been

files      == <<stored, uploads>>
states     == <<remote, local>>
cycler     == <<packages, isLoaded>>
cyclerVars == <<files, states, pc, fileKey, cycler, failed>>

CyclerTypeOK ==
    /\ stored \in [Name -> 0..MaxUploads]
    /\ uploads \in 0..MaxUploads
    /\ remote \in Seq(Name) \cup {Missing}
    /\ local \in Seq(Name) \cup {Missing, CutOff}
    /\ pc \in {"idle", "upload", "load", "prune", "saveRemote", "save"}
    /\ fileKey \in 0..MaxUploads
    /\ packages \in Seq(Name)
    /\ isLoaded \in BOOLEAN
    /\ failed \subseteq Faults

CyclerInit ==
    /\ stored = [n \in Name |-> 0]
    /\ uploads = 0
    /\ remote = Missing
    /\ local = Missing
    /\ pc = "idle"
    /\ fileKey = 0
    /\ packages = <<>>
    /\ isLoaded = FALSE
    /\ failed = {}

Fault(what) == what \in Faults /\ failed' = failed \cup {what}

NoFault == UNCHANGED failed

-------------------------------------------------------------------------------

\* runModel: a new Cycler, and the name the compressor gave the archive.
Begin ==
    /\ pc = "idle" /\ uploads < MaxUploads
    /\ \E n \in 1..uploads + 1 :
          /\ Repeats \/ n = uploads + 1
          /\ fileKey' = n
    /\ pc' = "upload"
    /\ packages' = <<>>
    /\ isLoaded' = FALSE
    /\ UNCHANGED <<files, states, failed>>

Upload ==
    /\ pc = "upload"
    /\ uploads' = uploads + 1
    /\ stored' = [stored EXCEPT ![fileKey] = uploads + 1]
    /\ pc' = "load"
    /\ UNCHANGED <<states, fileKey, cycler, failed>>

\* Mutant of UploadFails: the error is not returned, and the Cycler runs.
UploadErrorIgnored ==
    /\ pc = "upload" /\ Fault("upload")
    /\ stored' = [stored EXCEPT ![fileKey] = 0]
    /\ pc' = "load"
    /\ UNCHANGED <<uploads, states, fileKey, cycler>>

\* The Cycler does not run then; a file of that name is gone or cut off.
UploadFails ==
    /\ pc = "upload" /\ Fault("upload")
    /\ stored' = [stored EXCEPT ![fileKey] = 0]
    /\ pc' = "idle"
    /\ UNCHANGED <<uploads, states, fileKey, cycler>>

Add(loaded) == packages' = Append(loaded, fileKey)

\* os.WriteFile on the local state: a full disk leaves the file cut off.
WriteLocal(list) ==
    \/ local' = list /\ NoFault
    \/ Fault("disk") /\ local' \in {local, CutOff}

\* loadRemote: the state on the storage comes first and is copied here.
LoadRemote ==
    /\ pc = "load"
    /\ HasUrl /\ remote # Missing
    /\ WriteLocal(remote)
    /\ Add(remote)
    /\ isLoaded' = TRUE
    /\ pc' = "prune"
    /\ UNCHANGED <<files, remote, fileKey>>

\* There is no state on the storage, or it is not fetched.
FallBack ==
    \/ (~ HasUrl \/ remote = Missing) /\ NoFault
    \/ HasUrl /\ remote # Missing /\ Fault("fetch")

\* load: a missing file is created, one that does not parse is taken as empty.
LoadLocal ==
    /\ pc = "load"
    /\ FallBack
    /\ local' = IF local = Missing THEN <<>> ELSE local
    /\ Add(IF local \in {Missing, CutOff} THEN <<>> ELSE local)
    /\ isLoaded' = TRUE
    /\ pc' = "prune"
    /\ UNCHANGED <<files, remote, fileKey>>

\* load gives up: nothing is loaded, and run goes on with the new package only.
\* That the storage did not answer either is not written down in failed.
LoadNothing ==
    /\ pc = "load" /\ Fault("disk")
    /\ ~ HasUrl \/ remote = Missing \/ "fetch" \in Faults
    /\ Add(<<>>)
    /\ pc' = "prune"
    /\ UNCHANGED <<files, states, fileKey, isLoaded>>

\* Mutant of shiftByKeep: one package more than asked for stays.
shiftByMore(keep) == Len(packages) > keep + 1

\* Whether shiftByKeep takes the first package off the list.
shiftByKeep(keep) == Len(packages) > keep

\* The loop of run: a package that cannot be deleted is off the list as well.
Prune ==
    /\ pc = "prune" /\ Keep # 0
    /\ shiftByKeep(Keep) /\ packages # <<>>
    /\ packages' = Tail(packages)
    /\ \/ stored' = [stored EXCEPT ![Head(packages)] = 0] /\ NoFault
       \/ Fault("delete") /\ stored' = stored
    /\ UNCHANGED <<uploads, states, pc, fileKey, isLoaded>>

Pruned ==
    /\ pc = "prune"
    /\ Keep = 0 \/ ~ shiftByKeep(Keep) \/ packages = <<>>
    /\ pc' = IF isLoaded THEN "saveRemote" ELSE "idle"
    /\ UNCHANGED <<files, states, fileKey, cycler, failed>>

\* saveRemote: a failing upload of the state is only a warning.
SaveRemote ==
    /\ pc = "saveRemote"
    /\ \/ remote' = packages /\ NoFault
       \/ Fault("save") /\ remote' = remote
    /\ pc' = "save"
    /\ UNCHANGED <<files, local, fileKey, cycler>>

Save ==
    /\ pc = "save"
    /\ WriteLocal(packages)
    /\ pc' = "idle"
    /\ UNCHANGED <<files, remote, fileKey, cycler>>

\* The process is killed; the file being written is cut off.
Kill ==
    /\ pc # "idle" /\ Fault("crash")
    /\ pc' = "idle"
    /\ local' \in IF pc \in {"load", "save"} THEN {local, CutOff} ELSE {local}
    /\ UNCHANGED <<files, remote, fileKey, cycler>>

\* Between two runs a container is replaced, and its files are gone.
Wipe ==
    /\ pc = "idle" /\ local # Missing /\ Fault("wipe")
    /\ local' = Missing
    /\ UNCHANGED <<files, remote, pc, fileKey, cycler>>

CyclerNext ==
    \/ Begin \/ Upload \/ UploadFails
    \/ LoadRemote \/ LoadLocal \/ LoadNothing
    \/ Prune \/ Pruned
    \/ SaveRemote \/ Save
    \/ Kill \/ Wipe

CyclerSpec == CyclerInit /\ [][CyclerNext]_cyclerVars

-------------------------------------------------------------------------------

(***************************************************************************)
(* Whatever fails between the steps, and whichever of the two state files  *)
(* the list comes from, the newest `keep' backups are on the storage, and  *)
(* with keep = 0 all of them (README: 自动保留最近 14 份历史备份).          *)
(***************************************************************************)
NewestKept ==
    \A k \in 1..uploads :
        Keep = 0 \/ k > uploads - Keep => \E n \in Name : stored[n] = k

OnStorage == {n \in Name : stored[n] # 0}

(***************************************************************************)
(* README: 过期自动清理, the expired backups are removed.                   *)
(***************************************************************************)
ExpiredRemoved == pc = "idle" /\ Keep # 0 => Cardinality(OnStorage) <= Keep

(***************************************************************************)
(* The faults after which a backup may be on no list: the list was not     *)
(* saved on the storage, a deletion failed, the process stopped, the local *)
(* disk failed, or neither copy of the list could be read.                 *)
(***************************************************************************)
ListIsSafe ==
    /\ failed \cap {"save", "delete", "crash", "disk"} = {}
    /\ "wipe" \in failed => HasUrl /\ "fetch" \notin failed

(***************************************************************************)
(* Failing uploads, a storage that does not answer, or a container that    *)
(* loses its files, cost no retention: the expired backups are removed.    *)
(***************************************************************************)
RetentionBound == ListIsSafe => ExpiredRemoved

-------------------------------------------------------------------------------
(* Why NewestKept holds when names are distinct: the lists are ascending   *)
(* and without repetition, so that whatever has `keep' packages after it   *)
(* in one of them has `keep' newer uploads.                                *)

Ascending(s) == \A i, j \in DOMAIN s : i <= j => s[j] - s[i] >= j - i

Below(s, k) == \A i \in DOMAIN s : s[i] <= k

IsList(s, k) == s \notin {Missing, CutOff} => Ascending(s) /\ Below(s, k)

\* What the lists hold: until the new package is listed, only older ones.
Older == IF pc = "load" THEN uploads - 1 ELSE uploads

ListsInOrder == IsList(remote, Older) /\ IsList(local, Older)

PackagesInOrder ==
    /\ pc \in {"upload", "load"} => packages = <<>>
    /\ Ascending(packages) /\ Below(packages, uploads)

FileKeyIsNext ==
    /\ pc = "upload" => fileKey = uploads + 1
    /\ pc = "load" => fileKey = uploads /\ uploads > 0

StoredUnderOwnName ==
    \A k \in 1..uploads : Keep = 0 \/ k > uploads - Keep => stored[k] = k

CyclerInv == CyclerTypeOK /\ ListsInOrder /\ PackagesInOrder /\ FileKeyIsNext /\ StoredUnderOwnName
===============================================================================
