---------------------------- MODULE FileHistory ----------------------------
(***************************************************************************)
(* The file history behind /undo and /rewind.  Before a write tool changes *)
(* a file, track_edit copies it to a numbered backup and names the backup  *)
(* in the last snapshot of an index on disk; rewind copies backups back.   *)
(* An edit loads the index, copies the file, saves the index as a whole    *)
(* and then writes the file, with other tasks at work between the steps:   *)
(* background agents that edit too, a rewind from the UI, shell commands   *)
(* and the user's own editor.  The process may end anywhere.               *)
(*                                                                         *)
(* A content is a number, a new one for every change.  That a backup       *)
(* differs from the file is decided by content: the length and mtime short *)
(* cuts of check_origin_file_changed answer the same as long as changes    *)
(* move a file's mtime forward.  make_snapshot has no caller.              *)
(***************************************************************************)
EXTENDS Naturals, Sequences

CONSTANTS
  Files,        \* paths the tools write
  Main,         \* the agent of the session worker
  Background,   \* agents in the background: no message id of their own
  NoFile,       \* the file does not exist
  MaxSnapshots, \* MAX_SNAPSHOTS
  MaxMessages,  \* bound: user messages of a session
  MaxEdits,     \* bound: calls of write tools
  MaxRewinds,   \* bound: /undo and /rewind commands
  MaxTroubles   \* bound: crashes, errors and changes by other programs

ASSUME NoFileAssumption == NoFile \notin Nat
ASSUME MainAssumption == Main \notin Background
ASSUME BoundAssumption ==
  /\ MaxSnapshots \in Nat \ {0} /\ MaxMessages \in Nat /\ MaxEdits \in Nat
  /\ MaxRewinds \in Nat /\ MaxTroubles \in Nat

Editors == {Main} \cup Background
Content == Nat \cup {NoFile}

(* A backup record: kept says that it names a backup file, was is history: *)
(* what the file held when the record was made.  Version 0 stands for no   *)
(* record.                                                                 *)
Version == 1 .. MaxEdits
NoBackup == [version |-> 0, kept |-> FALSE, was |-> NoFile]
Backup == {NoBackup} \cup [version : Version, kept : BOOLEAN, was : Content]
Snapshot == [message : Nat, backups : [Files -> Backup]]
Index == [snapshots : Seq(Snapshot), tracked : SUBSET Files]
EmptyIndex == [snapshots |-> << >>, tracked |-> {}]
NoBackups == [f \in Files |-> NoBackup]
NoSnapshot == [message |-> 0, backups |-> NoBackups]
Has(snapshot, f) == snapshot.backups[f].version # 0

VARIABLES
  disk,      \* the files
  store,     \* the backup files, by file and version
  index,     \* state.json
  message,   \* current_message_id of the worker, 0 before the first message
  stage,     \* where each agent's write tool is
  file,      \* the file it writes
  loaded,    \* the index as track_edit loaded it
  backup,    \* the record create_backup made
  rewinding, \* where the UI's rewind is
  target,    \* the snapshot it goes back to
  base,      \* the snapshots as apply_snapshot loaded them
  todo,      \* tracked files it has not looked at
  edits,     \* calls of write tools so far
  changes,   \* changes of files so far: the last content
  rewinds,   \* rewinds so far
  troubles,  \* crashes, errors and changes by other programs so far
  calm,      \* history: no edit overlapped another change or failed to track
  evicted,   \* history: a snapshot was dropped
  original,  \* history: each file as the first edit that tracks it found it
  alone,     \* history: nothing else has happened since the rewind began
  toStart    \* history: the rewind goes to the first snapshot ever made

edit == <<stage, file, loaded, backup, edits>>
rewind == <<rewinding, target, base, todo, toStart, rewinds>>
counts == <<changes, troubles>>
vars == <<disk, store, index, message, edit, rewind, counts,
          calm, evicted, original, alone>>

TypeOK ==
  /\ disk \in [Files -> Content]
  /\ store \in [Files \X Version -> Content]
  /\ index \in Index /\ Len(index.snapshots) <= MaxSnapshots
  /\ message \in Nat
  /\ stage \in [Editors -> {"idle", "loaded", "copied", "tracked"}]
  /\ file \in [Editors -> Files \cup {NoFile}]
  /\ \A e \in Editors : stage[e] # "idle" => file[e] \in Files
  /\ loaded \in [Editors -> Index]
  /\ backup \in [Editors -> Backup]
  /\ rewinding \in {"idle", "found", "restoring", "done"}
  /\ target \in Snapshot /\ base \in Seq(Snapshot) /\ todo \in SUBSET Files
  /\ edits \in Nat /\ changes \in Nat /\ rewinds \in Nat /\ troubles \in Nat
  /\ calm \in BOOLEAN /\ evicted \in BOOLEAN
  /\ alone \in BOOLEAN /\ toStart \in BOOLEAN
  /\ original \in [Files -> Content]

Init ==
  /\ disk \in [Files -> {0, NoFile}]
  /\ store = [b \in Files \X Version |-> NoFile]
  /\ index = EmptyIndex /\ message = 0
  /\ stage = [e \in Editors |-> "idle"]
  /\ file = [e \in Editors |-> NoFile]
  /\ loaded = [e \in Editors |-> EmptyIndex]
  /\ backup = [e \in Editors |-> NoBackup]
  /\ rewinding = "idle" /\ target = NoSnapshot /\ base = << >> /\ todo = {}
  /\ edits = 0 /\ changes = 0 /\ rewinds = 0 /\ troubles = 0
  /\ calm = TRUE /\ evicted = FALSE /\ alone = FALSE /\ toStart = FALSE
  /\ original = disk
-----------------------------------------------------------------------------
(* track_edit, called by Write, Edit and MultiEdit before they write       *)

Trouble == troubles < MaxTroubles /\ troubles' = troubles + 1

Last(s) == s[Len(s)]
Quiet == \A e \in Editors : stage[e] = "idle"
MessageOf(e) == IF e = Main THEN message ELSE 0

(* track_edit returns, and what it loaded is gone.                         *)
Tracked(e) ==
  /\ stage' = [stage EXCEPT ![e] = "tracked"]
  /\ loaded' = [loaded EXCEPT ![e] = EmptyIndex]
  /\ backup' = [backup EXCEPT ![e] = NoBackup]

(* Phase 1: the file has a backup in the most recent snapshot already.     *)
NeverTracked(snapshots, f) == FALSE
AlreadyTracked(snapshots, f) ==
  snapshots # << >> /\ Has(Last(snapshots), f)

Load(e, f) ==
  /\ stage[e] = "idle" /\ edits < MaxEdits
  /\ e = Main => message > 0
  /\ file' = [file EXCEPT ![e] = f]
  /\ IF AlreadyTracked(index.snapshots, f)
     THEN stage' = [stage EXCEPT ![e] = "tracked"] /\ UNCHANGED loaded
     ELSE stage' = [stage EXCEPT ![e] = "loaded"]
          /\ loaded' = [loaded EXCEPT ![e] = index]
  /\ edits' = edits + 1
  /\ calm' = (calm /\ Quiet)
  /\ original' = IF f \in index.tracked THEN original
                 ELSE [original EXCEPT ![f] = disk[f]]
  /\ alone' = FALSE
  /\ UNCHANGED <<disk, store, index, message, backup, rewind, counts, evicted>>

(* Phase 2: the next version above those of the retained snapshots.        *)
VersionsInLast(snapshots, f) ==
  {snapshots[i].backups[f].version :
     i \in {j \in DOMAIN snapshots : j = Len(snapshots)}} \ {0}
Versions(snapshots, f) ==
  {snapshots[i].backups[f].version : i \in DOMAIN snapshots} \ {0}
IsNext(v, used) == (v = 1 \/ v - 1 \in used) /\ \A u \in used : u < v

Copy(e) ==
  LET f == file[e] IN
  \E v \in Version :
    /\ stage[e] = "loaded" /\ IsNext(v, Versions(loaded[e].snapshots, f))
    /\ backup' = [backup EXCEPT ![e] =
         [version |-> v, kept |-> disk[f] # NoFile, was |-> disk[f]]]
    /\ store' = IF disk[f] = NoFile THEN store
                ELSE [store EXCEPT ![<<f, v>>] = disk[f]]
    /\ stage' = [stage EXCEPT ![e] = "copied"]
    /\ UNCHANGED <<disk, index, message, file, loaded, edits, rewind, counts,
                   calm, evicted, original, alone>>

(* Phase 3: attach to the last snapshot if it is of the same message, or   *)
(* begin a new one; drop the oldest; save what was loaded with the change. *)
Attached(snapshots, m, f, b) ==
  IF snapshots # << >> /\ Last(snapshots).message = m
  THEN [snapshots EXCEPT ![Len(snapshots)].backups[f] = b]
  ELSE Append(snapshots, [message |-> m, backups |-> [NoBackups EXCEPT ![f] = b]])

Newest(snapshots) ==
  IF Len(snapshots) > MaxSnapshots
  THEN SubSeq(snapshots, Len(snapshots) - MaxSnapshots + 1, Len(snapshots))
  ELSE snapshots

Save(e) ==
  LET all == Attached(loaded[e].snapshots, MessageOf(e), file[e], backup[e]) IN
  /\ stage[e] = "copied"
  /\ index' = [snapshots |-> Newest(all),
               tracked |-> loaded[e].tracked \cup {file[e]}]
  /\ evicted' = (evicted \/ Len(all) > MaxSnapshots)
  /\ Tracked(e)
  /\ UNCHANGED <<disk, store, message, file, edits, rewind,
                 counts, calm, original, alone>>

(* A failure to load, copy or save is logged and the edit goes on.         *)
TrackFails(e) ==
  /\ stage[e] \in {"loaded", "copied"}
  /\ Tracked(e)
  /\ Trouble
  /\ calm' = FALSE
  /\ UNCHANGED <<disk, store, index, message, file, edits,
                 rewind, changes, evicted, original, alone>>

Leave(e) ==
  /\ stage[e] = "tracked"
  /\ stage' = [stage EXCEPT ![e] = "idle"]
  /\ file' = [file EXCEPT ![e] = NoFile]
  /\ UNCHANGED <<store, index, message, loaded, backup, edits, rewind, calm,
                 evicted, original, alone>>

Write(e) ==
  /\ Leave(e)
  /\ disk' = [disk EXCEPT ![file[e]] = changes + 1]
  /\ changes' = changes + 1
  /\ UNCHANGED troubles

(* The tool finds that it must not write: the file was not read before,    *)
(* or the text to replace is not in it.                                    *)
GivesUp(e) ==
  /\ Leave(e) /\ Trouble
  /\ UNCHANGED <<disk, changes>>
-----------------------------------------------------------------------------
(* /undo and /rewind, in the UI task                                       *)

RewindFind(i) ==
  /\ rewinding \in {"idle", "done"}
  /\ rewinds < MaxRewinds /\ rewinds' = rewinds + 1
  /\ rewinding' = "found" /\ target' = index.snapshots[i]
  /\ base' = << >> /\ todo' = {}
  /\ alone' = Quiet
  /\ toStart' = (i = 1 /\ ~evicted)
  /\ UNCHANGED <<disk, store, index, message, edit, counts, calm, evicted,
                 original>>

RewindLoad ==
  /\ rewinding = "found"
  /\ rewinding' = "restoring"
  /\ base' = index.snapshots /\ todo' = index.tracked
  /\ UNCHANGED <<disk, store, index, message, edit, target, counts, calm,
                 evicted, original, alone, toStart, rewinds>>

(* The record to go back to: the target's, or else the first version 1.    *)
FirstVersions(f) == {j \in DOMAIN base : base[j].backups[f].version = 1}
ResolvedOwn(f) == {target.backups[f]}
Resolved(f) ==
  IF Has(target, f) THEN {target.backups[f]}
  ELSE IF FirstVersions(f) = {} THEN {NoBackup}
  ELSE {base[j].backups[f] : j \in
          {i \in FirstVersions(f) : \A l \in FirstVersions(f) : i <= l}}

(* A file with no record, or whose backup file is missing, is skipped.     *)
Restored(f, record) ==
  LET copy == store[<<f, record.version>>] IN
  IF record = NoBackup THEN disk[f]
  ELSE IF ~record.kept THEN NoFile
  ELSE IF copy = NoFile THEN disk[f] ELSE copy

RestoreFrom(f, record) ==
  /\ rewinding = "restoring" /\ f \in todo
  /\ disk' = [disk EXCEPT ![f] = Restored(f, record)]
  /\ todo' = todo \ {f}
  /\ rewinding' = IF todo = {f} THEN "done" ELSE "restoring"
  /\ base' = IF todo = {f} THEN << >> ELSE base
  /\ UNCHANGED <<index, message, edit, target, counts, calm, evicted,
                 original, alone, toStart, rewinds>>

RestoreMoves(f) ==
  \E record \in Resolved(f) :
    /\ RestoreFrom(f, record)
    /\ store' = IF record.kept
                THEN [store EXCEPT ![<<f, record.version>>] = NoFile] ELSE store
Restore(f) ==
  \E record \in Resolved(f) : RestoreFrom(f, record) /\ UNCHANGED store

(* An error ends the rewind with some files restored and others not.       *)
RewindFails ==
  /\ rewinding \in {"found", "restoring"} /\ Trouble
  /\ rewinding' = "idle" /\ todo' = {} /\ base' = << >> /\ target' = NoSnapshot
  /\ UNCHANGED <<disk, store, index, message, edit, changes, calm, evicted,
                 original, alone, toStart, rewinds>>
-----------------------------------------------------------------------------
NextMessage ==
  /\ stage[Main] = "idle" /\ message < MaxMessages
  /\ message' = message + 1
  /\ UNCHANGED <<disk, store, index, edit, rewind, counts, calm, evicted,
                 original, alone>>

(* A shell command or the user changes or removes a file.                  *)
Outside(f) ==
  /\ Trouble
  /\ changes' = changes + 1
  /\ \E c \in {changes + 1, NoFile} : disk' = [disk EXCEPT ![f] = c]
  /\ calm' = (calm /\ Quiet)
  /\ alone' = FALSE
  /\ UNCHANGED <<store, index, message, edit, rewind, evicted, original>>

(* The process ends and starts again.  The index is the project's, not the *)
(* session's, and message ids start again from one.                        *)
Crash ==
  /\ Trouble
  /\ message' = 0
  /\ stage' = [e \in Editors |-> "idle"]
  /\ loaded' = [e \in Editors |-> EmptyIndex]
  /\ backup' = [e \in Editors |-> NoBackup]
  /\ file' = [e \in Editors |-> NoFile]
  /\ rewinding' = "idle" /\ todo' = {} /\ base' = << >> /\ target' = NoSnapshot
  /\ UNCHANGED <<disk, store, index, edits, changes, calm, evicted, original,
                 alone, toStart, rewinds>>

Track(e) ==
  \/ \E f \in Files : Load(e, f)
  \/ Copy(e) \/ Save(e) \/ TrackFails(e) \/ Write(e) \/ GivesUp(e)

Rewind ==
  \/ \E i \in DOMAIN index.snapshots : RewindFind(i)
  \/ RewindLoad \/ (\E f \in Files : Restore(f)) \/ RewindFails

Next ==
  \/ \E e \in Editors : Track(e)
  \/ Rewind
  \/ NextMessage \/ (\E f \in Files : Outside(f)) \/ Crash

Spec == Init /\ [][Next]_vars
-----------------------------------------------------------------------------
(* Whatever overlaps, fails or crashes: every record of the index that     *)
(* names a backup file finds it in the store, so that a rewind never skips *)
(* a file for want of its backup (create_backup before save_state).        *)
HasItsBackup(f, record) == record.kept => store[<<f, record.version>>] # NoFile

RecordsHaveTheirBackups ==
  \A i \in DOMAIN index.snapshots : \A f \in Files :
    HasItsBackup(f, index.snapshots[i].backups[f])

(* No two retained snapshots share a backup file, also after the oldest    *)
(* snapshots are gone: a new backup cannot overwrite one that a retained   *)
(* snapshot would restore (the version in track_edit).                     *)
VersionsGrow(snapshots) ==
  \A i, j \in DOMAIN snapshots : \A f \in Files :
    i < j /\ Has(snapshots[i], f) /\ Has(snapshots[j], f) =>
      snapshots[i].backups[f].version < snapshots[j].backups[f].version

BackupsAreNotShared == VersionsGrow(index.snapshots)

(* Both together: each record has a backup, and one of its own.            *)
RecordsHaveTheirOwnBackups == RecordsHaveTheirBackups /\ BackupsAreNotShared

(* As long as edits do not overlap and are tracked, what a retained        *)
(* snapshot would restore is what the file held when it was recorded, and  *)
(* the first record of each file is what the agent first found, through    *)
(* rewinds, restarts, reused message ids and backups never recorded        *)
(* (track_edit: do NOT touch v1).                                          *)
IsWhatItWas(f, record) ==
  /\ record.was = IF record.kept THEN store[<<f, record.version>>] ELSE NoFile
  /\ ~evicted /\ record.version = 1 => record.was = original[f]

BackupsAreWhatTheyWere ==
  calm =>
    /\ \A i \in DOMAIN index.snapshots : \A f \in Files :
         Has(index.snapshots[i], f) => IsWhatItWas(f, index.snapshots[i].backups[f])
    /\ ~evicted => \A f \in index.tracked : \E i \in DOMAIN index.snapshots :
         index.snapshots[i].backups[f].version = 1

(* As long as no snapshot was dropped, going back to the first snapshot of *)
(* all undoes everything: every file the agents ever reached for is as     *)
(* they found it, in whatever message and session they did (the fallback   *)
(* to version 1 in apply_snapshot).                                        *)
TheFirstSnapshotUndoesAll ==
  rewinding = "done" /\ alone /\ calm /\ ~evicted /\ toStart =>
    \A f \in index.tracked : disk[f] = original[f]
=============================================================================
