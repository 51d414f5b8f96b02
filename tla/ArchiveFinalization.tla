------------------------ MODULE ArchiveFinalization ------------------------
(***************************************************************************)
(* How rosbag_recorder.py turns the volumes closed by the native recorder  *)
(* into the issued files of a record (record naming version 1), across     *)
(* failures, crashes and power losses: finalize_archive_files,             *)
(* move_closed_without_replacement, write_manifest and the restart logic.  *)
(*                                                                         *)
(* A step is one change of the output directory, or one fsync of it.  The  *)
(* directory and the manifest exist twice: as processes see them, and as   *)
(* they are on disk.  fsync makes the two equal; a power loss keeps or     *)
(* loses each change that was not synced.  An inode stands for its device, *)
(* number, size and type.                                                  *)
(***************************************************************************)
EXTENDS Integers, FiniteSets

CONSTANTS
  MaxVolumes,   \* how many volumes the native recorder may close
  Foreign,      \* inodes of files that somebody else puts into the directory
  MaxFaults     \* how many crashes, power losses and I/O errors are explored

ASSUME MaxVolumesAssumption == MaxVolumes \in Nat
ASSUME MaxFaultsAssumption == MaxFaults \in Nat
ASSUME ForeignAssumption ==
  /\ IsFiniteSet(Foreign)
  /\ \A f \in Foreign : f[1] = "foreign"

Indexes == 0 .. MaxVolumes - 1

\* Inodes.
None == <<"none", 0>>
Bag(i) == <<"bag", i>>
Partial == <<"partial", 0>>
Bags == {Bag(i) : i \in Indexes}

\* File names: prefix_<i>.bag, prefix-part<i+1>.bag, prefix.bag and the
\* .bag.active of the volume being written.
Native(i) == <<"native", i>>
Part(i) == <<"part", i>>
Single == <<"single", 0>>
Active == <<"active", 0>>
NativeNames == {Native(i) : i \in Indexes}
ReadableNames == {Part(i) : i \in Indexes} \cup {Single}
Names == NativeNames \cup ReadableNames \cup {Active}

VARIABLES
  dir,              \* the directory, and
  manifest_file,    \* session-manifest.json, as processes see them
  disk,             \* [dir, manifest]: as they are on disk
  stage,            \* the step of the recorder process, "dead" when there is none
  archive,          \* its copy of the manifest, document in the code
  left,             \* segments that the loop has not handled
  wrote,            \* volumes the native recorder has closed
  native_runs,      \* the native recorder runs
  orphaned,         \* history: its wrapper began to finalize while it ran
  inventoried,      \* history: volumes closed when the inventory was made
  faults            \* faults that may still happen

native_vars == <<wrote, native_runs, orphaned>>
archive_vars ==
  <<dir, manifest_file, disk, stage, archive, left, native_vars, inventoried, faults>>

\* A segment is [index, inode].
NoManifest == [status |-> "none", state |-> "none", pinned |-> FALSE,
               segments |-> {}, files |-> {}]
EmptyDir == [n \in Names |-> None]

ArchiveInit ==
  /\ dir = EmptyDir
  /\ manifest_file = NoManifest
  /\ disk = [dir |-> EmptyDir, manifest |-> NoManifest]
  /\ stage = "dead"
  /\ archive = NoManifest
  /\ left = {}
  /\ wrote = 0
  /\ native_runs = FALSE
  /\ orphaned = FALSE
  /\ inventoried = 0
  /\ faults = MaxFaults

-----------------------------------------------------------------------------
(* write_manifest: the fsynced temporary file replaces the manifest in one *)
(* step; the fsync of the directory is the next step, named by at.         *)

WriteManifest(d, step) ==
  /\ archive' = d
  /\ manifest_file' = d
  /\ stage' = step

\* Mutant: nothing is made durable.
SyncSkipped ==
  /\ stage \in {"sync-begin", "sync-pin", "sync-link", "sync-unlink",
             "sync-final", "sync-failed"}
  /\ stage' = CASE stage = "sync-begin" -> "pin"
             [] stage = "sync-pin" -> "segment"
             [] stage = "sync-link" -> "unlink"
             [] stage = "sync-unlink" -> "verify"
             [] stage = "sync-final" -> "done"
             [] stage = "sync-failed" -> "dead"
  /\ UNCHANGED <<dir, manifest_file, disk, archive, left, native_vars, inventoried, faults>>

\* os.fsync(directory_fd), and where the code goes on from there.
Sync ==
  /\ stage \in {"sync-begin", "sync-pin", "sync-link", "sync-unlink",
             "sync-final", "sync-failed"}
  /\ disk' = [dir |-> dir, manifest |-> manifest_file]
  /\ stage' = CASE stage = "sync-begin" -> "pin"
             [] stage = "sync-pin" -> "segment"
             [] stage = "sync-link" -> "unlink"
             [] stage = "sync-unlink" -> "verify"
             [] stage = "sync-final" -> "done"
             [] stage = "sync-failed" -> "dead"
  /\ UNCHANGED <<dir, manifest_file, archive, left, native_vars, inventoried, faults>>

-----------------------------------------------------------------------------
(* A recorder process starts.                                              *)

\* A new record: no manifest, and no file that looks like one of its volumes.
Launch ==
  /\ stage = "dead"
  /\ manifest_file.status = "none"
  /\ dir = EmptyDir
  /\ manifest_file' = [NoManifest EXCEPT !.status = "recording"]
  /\ archive' = manifest_file'
  /\ dir' = [dir EXCEPT ![Active] = Partial]
  /\ disk' = [dir |-> dir, manifest |-> manifest_file']
  /\ stage' = "recording"
  /\ native_runs' = TRUE
  /\ UNCHANGED <<left, wrote, orphaned, inventoried, faults>>

\* Mutant: only a pending finalization is taken up again.
ResumePendingOnly ==
  /\ stage = "dead"
  /\ manifest_file.status = "ended"
  /\ manifest_file.state = "pending"
  /\ archive' = manifest_file
  /\ stage' = "begin"
  /\ UNCHANGED <<dir, manifest_file, disk, left, native_vars, inventoried, faults>>

\* A record that ended and whose finalization is pending or failed is taken up
\* again; in every other case the process exits and leaves everything alone.
Resume ==
  /\ stage = "dead"
  /\ manifest_file.status = "ended"
  /\ manifest_file.state \in {"pending", "failed"}
  /\ archive' = manifest_file
  /\ stage' = "begin"
  /\ UNCHANGED <<dir, manifest_file, disk, left, native_vars, inventoried, faults>>

\* The native recorder closes a volume: .bag.active becomes prefix_<i>.bag and
\* the next one is opened.  (A volume counts as closed once this rename is on
\* disk.)  It outlives a wrapper that is killed or that has left its loop.
CloseVolume ==
  /\ native_runs
  /\ wrote < MaxVolumes
  /\ dir' = [dir EXCEPT ![Native(wrote)] = Bag(wrote)]
  /\ disk' = [disk EXCEPT !.dir[Native(wrote)] = Bag(wrote)]
  /\ wrote' = wrote + 1
  /\ UNCHANGED <<manifest_file, stage, archive, left, native_runs, orphaned,
                 inventoried, faults>>

\* It exits, and leaves a volume it did not close or none.
NativeExits ==
  /\ native_runs
  /\ native_runs' = FALSE
  /\ \E rest \in {None, Partial} : dir' = [dir EXCEPT ![Active] = rest]
  /\ UNCHANGED <<manifest_file, disk, stage, archive, left, wrote, orphaned,
                 inventoried, faults>>

Fault == faults > 0 /\ faults' = faults - 1

\* The finally clause.
EndRecording ==
  /\ stage = "recording"
  /\ archive' = [archive EXCEPT !.status = "ended"]
  /\ stage' = "begin"
  /\ UNCHANGED <<dir, manifest_file, disk, left, wrote, native_runs, inventoried>>

\* The loop sees that the native recorder has exited.
RecordingEnds ==
  /\ ~native_runs
  /\ EndRecording
  /\ UNCHANGED <<orphaned, faults>>

\* The loop raises: the manifest cannot be written, the directory cannot be
\* read.  Nobody stops the native recorder or waits for it.
RecordingFails ==
  /\ EndRecording
  /\ orphaned' = native_runs
  /\ Fault

-----------------------------------------------------------------------------
(* finalize_archive_files.                                                 *)

\* issued_bag_name.
IssuedName(i, count) == IF count = 1 /\ i = 0 THEN Single ELSE Part(i)
Issued(segments) ==
  {IssuedName(s.index, Cardinality(segments)) : s \in segments}

BeginFinalization ==
  /\ stage = "begin"
  /\ WriteManifest([archive EXCEPT !.state = "pending", !.files = {}],
                   "sync-begin")
  /\ UNCHANGED <<dir, disk, left, native_vars, inventoried, faults>>

\* The closed volumes found under native names.
Inventory ==
  {[index |-> i, inode |-> dir[Native(i)]] :
     i \in {j \in Indexes : dir[Native(j)] # None}}

\* Mutant: the inventory is taken anew on every attempt.
PinAgain ==
  /\ stage = "pin"
  /\ WriteManifest([archive EXCEPT !.pinned = TRUE, !.segments = Inventory],
                   "sync-pin")
  /\ left' = Inventory
  /\ inventoried' = wrote
  /\ UNCHANGED <<dir, disk, native_vars, faults>>

\* Mutant: the inventory is kept in memory.
PinInMemory ==
  LET d == IF archive.pinned THEN archive
           ELSE [archive EXCEPT !.pinned = TRUE, !.segments = Inventory]
  IN
  /\ stage = "pin"
  /\ archive' = d
  /\ left' = d.segments
  /\ inventoried' = IF archive.pinned THEN inventoried ELSE wrote
  /\ stage' = "sync-pin"
  /\ UNCHANGED <<dir, manifest_file, disk, native_vars, faults>>

\* The inodes are written down before anything is renamed; an inventory made
\* by an earlier attempt is kept.
Pin ==
  LET d == IF archive.pinned THEN archive
           ELSE [archive EXCEPT !.pinned = TRUE, !.segments = Inventory]
  IN
  /\ stage = "pin"
  /\ WriteManifest(d, "sync-pin")
  /\ left' = d.segments
  /\ inventoried' = IF archive.pinned THEN inventoried ELSE wrote
  /\ UNCHANGED <<dir, disk, native_vars, faults>>

\* The segment at hand, its two names.
Segment == CHOOSE s \in left : \A t \in left : s.index <= t.index
Source == Native(Segment.index)
Destination == IssuedName(Segment.index, Cardinality(archive.segments))

ContinueAt(step) ==
  /\ stage' = step
  /\ UNCHANGED <<dir, manifest_file, disk, archive, left, native_vars, inventoried, faults>>

\* Mutant: an existing destination is replaced.
LinkReplaces ==
  /\ stage = "segment" /\ left # {}
  /\ dir[Source] = Segment.inode
  /\ dir' = [dir EXCEPT ![Destination] = Segment.inode]
  /\ stage' = "sync-link"
  /\ UNCHANGED <<manifest_file, disk, archive, left, native_vars, inventoried, faults>>

\* os.link: the source is the pinned inode and the destination is free, or is
\* already that inode because an earlier attempt got this far.
Link ==
  /\ stage = "segment" /\ left # {}
  /\ dir[Source] = Segment.inode
  /\ dir[Destination] \in {None, Segment.inode}
  /\ dir' = [dir EXCEPT ![Destination] = Segment.inode]
  /\ stage' = "sync-link"
  /\ UNCHANGED <<manifest_file, disk, archive, left, native_vars, inventoried, faults>>

\* The source is another file, or somebody else's file has the destination.
LinkRefused ==
  /\ stage = "segment" /\ left # {}
  /\ \/ dir[Source] \notin {None, Segment.inode}
     \/ dir[Source] = Segment.inode /\ dir[Destination] \notin {None, Segment.inode}
  /\ ContinueAt("fail")

\* There is no source: an earlier attempt has unlinked it.
NoSource ==
  /\ stage = "segment" /\ left # {}
  /\ dir[Source] = None
  /\ ContinueAt("verify")

Unlink ==
  /\ stage = "unlink"
  /\ dir' = [dir EXCEPT ![Source] = None]
  /\ stage' = "sync-unlink"
  /\ UNCHANGED <<manifest_file, disk, archive, left, native_vars, inventoried, faults>>

\* The destination must be the pinned inode.
Verify ==
  /\ stage = "verify"
  /\ \/ /\ dir[Destination] = Segment.inode
        /\ left' = left \ {Segment}
        /\ stage' = "segment"
        /\ UNCHANGED <<dir, manifest_file, disk, archive, native_vars, inventoried, faults>>
     \/ /\ dir[Destination] # Segment.inode
        /\ ContinueAt("fail")

\* After the loop: no closed file that was not issued, and the record is final.
Close ==
  LET issued == Issued(archive.segments)
      unowned == {n \in Names \ {Active} : dir[n] # None} \ issued
  IN
  /\ stage = "segment" /\ left = {}
  /\ \/ /\ unowned # {}
        /\ ContinueAt("fail")
     \/ /\ unowned = {}
        /\ WriteManifest([archive EXCEPT !.state = "finalized", !.files = issued],
                         "sync-final")
        /\ UNCHANGED <<dir, disk, left, native_vars, inventoried, faults>>

\* The except clause: the failure is recorded before it is raised.
FinalizationFails ==
  /\ stage = "fail"
  /\ WriteManifest([archive EXCEPT !.state = "failed"], "sync-failed")
  /\ UNCHANGED <<dir, disk, left, native_vars, inventoried, faults>>

-----------------------------------------------------------------------------
(* The environment.                                                        *)

\* A system call of the loop fails.
IoError ==
  /\ stage \in {"segment", "sync-link", "unlink", "sync-unlink", "verify"}
  /\ Fault
  /\ stage' = "fail"
  /\ UNCHANGED <<dir, manifest_file, disk, archive, left, native_vars, inventoried>>

\* The recorder process is killed; the native recorder is not.
Crash ==
  /\ stage \notin {"dead", "done"}
  /\ Fault
  /\ stage' = "dead"
  /\ UNCHANGED <<dir, manifest_file, disk, archive, left, native_vars, inventoried>>

\* The machine goes down: every change since the last fsync is kept or lost.
PowerLoss ==
  /\ Fault
  /\ stage' = IF stage = "done" THEN "done" ELSE "dead"
  /\ \E lost \in SUBSET {n \in Names : dir[n] # disk.dir[n]} :
       dir' = [n \in Names |-> IF n \in lost THEN disk.dir[n] ELSE dir[n]]
  /\ manifest_file' \in {manifest_file, disk.manifest}
  /\ disk' = [dir |-> dir', manifest |-> manifest_file']
  /\ native_runs' = FALSE
  /\ UNCHANGED <<archive, left, wrote, orphaned, inventoried>>

\* Somebody else's file appears: under a readable name at any time, under a
\* native name once the volumes are pinned and the native recorder, whose own
\* rename would replace it, has exited.
Intrude ==
  /\ \E f \in Foreign, n \in Names \ {Active} :
       /\ f \notin {dir[m] : m \in Names}
       /\ dir[n] = None
       /\ n \in NativeNames => disk.manifest.pinned /\ ~native_runs
       /\ dir' = [dir EXCEPT ![n] = f]
  /\ UNCHANGED <<manifest_file, disk, stage, archive, left, native_vars, inventoried, faults>>

-----------------------------------------------------------------------------
Finalize ==
  \/ Sync \/ BeginFinalization \/ Pin \/ Link \/ LinkRefused \/ NoSource
  \/ Unlink \/ Verify \/ Close \/ FinalizationFails

ArchiveNext ==
  \/ Launch \/ CloseVolume \/ NativeExits \/ RecordingEnds \/ RecordingFails
  \/ Resume \/ Finalize
  \/ IoError \/ Crash \/ PowerLoss \/ Intrude

ArchiveSpec == ArchiveInit /\ [][ArchiveNext]_archive_vars

-----------------------------------------------------------------------------
(* Properties.                                                             *)

\* No closed volume is ever without a name in the directory, whenever the
\* process dies and whatever a power loss takes back; also when the wrapper
\* died while it recorded and no restart finalizes what it left, and when the
\* native recorder outlives it.
NoBytesLost ==
  \A i \in 0 .. wrote - 1 : \E n \in Names : dir[n] = Bag(i)

\* A volume has a readable name only after the manifest on disk lists its
\* inode, so a restart can tell it from somebody else's file.
PinnedBeforeRenamed ==
  \A n \in ReadableNames :
    dir[n] \in Bags =>
      \E s \in disk.manifest.segments :
        /\ s.inode = dir[n]
        /\ n = IssuedName(s.index, Cardinality(disk.manifest.segments))

\* When the manifest says finalized, every volume closed before the inventory
\* is issued under its own name with its own bytes, and the list of files is
\* exactly that.  These are all the volumes, unless the loop had raised and
\* left the native recorder running: what that closes later stays under its
\* native name, on no list.
FinalizedIsExact ==
  manifest_file.state = "finalized" =>
    /\ {s.inode : s \in manifest_file.segments} = {Bag(i) : i \in 0 .. inventoried - 1}
    /\ \A s \in manifest_file.segments :
         dir[IssuedName(s.index, Cardinality(manifest_file.segments))] = s.inode
    /\ manifest_file.files = Issued(manifest_file.segments)
    /\ Cardinality(manifest_file.files) = inventoried
    /\ ~orphaned => inventoried = wrote
    /\ \A i \in inventoried .. wrote - 1 : dir[Native(i)] = Bag(i)

\* Nobody else's file is replaced, moved or removed by the recorder; only a
\* power loss takes one back that was never synced.  Once the inventory is on
\* disk it never changes, and a finalized record is never touched again.
NothingRewritten ==
  [][/\ \A n \in Names : dir[n] \in Foreign => dir'[n] \in {dir[n], disk.dir[n]}
     /\ disk.manifest.pinned =>
          /\ manifest_file'.pinned
          /\ manifest_file'.segments = disk.manifest.segments
     /\ disk.manifest.state = "finalized" => manifest_file' = disk.manifest]_archive_vars

\* A process that runs keeps running, and a recorder that died is started
\* again.
ArchiveFairness == WF_archive_vars(Finalize) /\ WF_archive_vars(Resume)

\* A record whose end is on disk is finalized in the end, if nobody puts other
\* files into its directory and no native recorder left behind closes a volume
\* after the inventory: that one is an unowned closed file to every attempt.
EventuallyFinalized ==
  disk.manifest.status = "ended" ~>
    \/ manifest_file.state = "finalized"
    \/ \E n \in Names : dir[n] \in Foreign
    \/ orphaned /\ manifest_file.pinned /\ inventoried < wrote
=============================================================================
