------------------------- MODULE FileHistory_proofs -------------------------
(***************************************************************************)
(* Proofs about the file history, for any number of files, agents,         *)
(* messages and edits, any cap on snapshots and any trouble.               *)
(***************************************************************************)
EXTENDS FileHistory, TLAPS

(* What adding a record does to the snapshots, and what the cap leaves of  *)
(* them: a suffix of at most MaxSnapshots.                                 *)
IsAttached(t, s, f, b) ==
  /\ t \in Seq(Snapshot)
  /\ Len(t) \in {Len(s), Len(s) + 1} /\ Len(t) > 0
  /\ t[Len(t)].backups[f] = b
  /\ \A i \in 1 .. Len(t) : \A g \in Files :
       ~(i = Len(t) /\ g = f) =>
         \/ i \in 1 .. Len(s) /\ t[i].backups[g] = s[i].backups[g]
         \/ t[i].backups[g] = NoBackup
  /\ \A i \in 1 .. Len(s) : \A g \in Files :
       ~(i = Len(t) /\ g = f) => t[i].backups[g] = s[i].backups[g]

IsNewest(t, s) ==
  /\ t \in Seq(Snapshot)
  /\ Len(t) <= MaxSnapshots
  /\ \E k \in Nat : \A i \in 1 .. Len(t) :
       i + k \in 1 .. Len(s) /\ t[i] = s[i + k]

LEMMA AttachedFacts ==
  ASSUME NEW s \in Seq(Snapshot), NEW m \in Nat, NEW f \in Files,
         NEW b \in Backup, disk \in [Files -> Content]
  PROVE  IsAttached(Attached(s, m, f, b), s, f, b)
  <1> DEFINE t == Attached(s, m, f, b)
  <1>1. CASE s # << >> /\ Last(s).message = m
    <2>1. Len(s) \in Nat /\ Len(s) > 0 /\ DOMAIN s = 1 .. Len(s)
      BY <1>1
    <2>2. t = [s EXCEPT ![Len(s)].backups[f] = b]
      BY <1>1 DEF Attached
    <2>3. s[Len(s)] \in Snapshot
      BY <2>1
    <2>4. [s[Len(s)] EXCEPT !.backups[f] = b] \in Snapshot
      BY <2>3 DEF Snapshot
    <2>5. t = [s EXCEPT ![Len(s)] = [s[Len(s)] EXCEPT !.backups[f] = b]]
      BY <2>2
    <2>6. t \in Seq(Snapshot) /\ Len(t) = Len(s)
      BY <2>1, <2>4, <2>5
    <2>7. \A i \in 1 .. Len(s) : i # Len(s) => t[i] = s[i]
      BY <2>1, <2>5
    <2>8. t[Len(s)].backups = [s[Len(s)].backups EXCEPT ![f] = b]
      BY <2>1, <2>3, <2>5 DEF Snapshot
    <2>9. s[Len(s)].backups \in [Files -> Backup]
      BY <2>3 DEF Snapshot
    <2> QED
      BY <2>1, <2>6, <2>7, <2>8, <2>9 DEF IsAttached
  <1>2. CASE ~(s # << >> /\ Last(s).message = m)
    <2> DEFINE n == [message |-> m, backups |-> [NoBackups EXCEPT ![f] = b]]
    <2>1. t = Append(s, n)
      BY <1>2 DEF Attached
    <2>2. NoBackups \in [Files -> Backup]
      BY DEF NoBackups, Backup
    <2>3. [NoBackups EXCEPT ![f] = b] \in [Files -> Backup]
      BY <2>2
    <2>5. n \in Snapshot
      BY <2>3 DEF Snapshot
    <2>6. t \in Seq(Snapshot) /\ Len(t) = Len(s) + 1 /\ t[Len(s) + 1] = n
      BY <2>1, <2>5
    <2>7. \A i \in 1 .. Len(s) : t[i] = s[i]
      BY <2>1, <2>5
    <2>8. \A g \in Files : g # f => n.backups[g] = NoBackup
      BY <2>2 DEF NoBackups
    <2>9. n.backups[f] = b
      BY <2>2
    <2>10. Len(s) \in Nat
      OBVIOUS
    <2>11. IsAttached(t, s, f, b)
      <3> HIDE DEF t, n
      <3> QED
        BY <2>6, <2>7, <2>8, <2>9, <2>10 DEF IsAttached
    <2> QED
      BY <2>11
  <1> QED
    BY <1>1, <1>2 DEF Attached

LEMMA NewestFacts ==
  ASSUME NEW s \in Seq(Snapshot)
  PROVE  IsNewest(Newest(s), s)
  <1> DEFINE t == Newest(s)
  <1>0. Len(s) \in Nat /\ MaxSnapshots \in Nat \ {0}
    BY BoundAssumption
  <1>1. CASE Len(s) > MaxSnapshots
    <2> DEFINE k == Len(s) - MaxSnapshots
    <2>1. k \in Nat
      BY <1>0, <1>1
    <2>2. t = SubSeq(s, k + 1, Len(s))
      BY <1>1 DEF Newest
    <2>3. t \in Seq(Snapshot) /\ Len(t) = MaxSnapshots
      BY <1>0, <2>1, <2>2
    <2>4. \A i \in 1 .. Len(t) : i + k \in 1 .. Len(s) /\ t[i] = s[i + k]
      BY <1>0, <2>1, <2>2, <2>3
    <2>5. \E j \in Nat : \A i \in 1 .. Len(t) :
            i + j \in 1 .. Len(s) /\ t[i] = s[i + j]
      <3> HIDE DEF t, k
      <3> WITNESS k \in Nat
      <3> QED
        BY <2>4
    <2>6. Len(t) <= MaxSnapshots
      BY <1>0, <2>3
    <2> QED
      BY <2>3, <2>5, <2>6 DEF IsNewest
  <1>2. CASE ~(Len(s) > MaxSnapshots)
    <2>1. t = s
      BY <1>2 DEF Newest
    <2>2. \A i \in 1 .. Len(t) : i + 0 \in 1 .. Len(s) /\ t[i] = s[i + 0]
      BY <1>0, <2>1
    <2> QED
      BY <1>0, <1>2, <2>1, <2>2 DEF IsNewest
  <1> QED
    BY <1>1, <1>2
-----------------------------------------------------------------------------
LEMMA EditorFacts == Main \in Editors
  BY DEF Editors

LEMMA EmptyFacts ==
  /\ NoBackup \in Backup /\ NoBackups \in [Files -> Backup]
  /\ NoSnapshot \in Snapshot /\ EmptyIndex \in Index
  <1>1. NoBackup \in Backup
    BY DEF Backup
  <1>2. NoBackups \in [Files -> Backup]
    BY <1>1 DEF NoBackups
  <1>4. NoSnapshot \in Snapshot
    BY <1>2 DEF NoSnapshot, Snapshot
  <1>5. EmptyIndex \in Index
    BY DEF EmptyIndex, Index
  <1> QED
    BY <1>1, <1>2, <1>4, <1>5

(* The end of an edit's tracking touches no other edit.                    *)
LEMMA TrackedFacts ==
  ASSUME TypeOK, NEW e \in Editors, Tracked(e)
  PROVE  /\ stage' \in [Editors -> {"idle", "loaded", "copied", "tracked"}]
         /\ loaded' \in [Editors -> Index] /\ backup' \in [Editors -> Backup]
         /\ \A d \in Editors : stage'[d] # "idle" => d = e \/ stage[d] # "idle"
         /\ \A d \in Editors : stage'[d] = "copied" =>
              stage[d] = "copied" /\ backup'[d] = backup[d] /\ loaded'[d] = loaded[d]
         /\ \A d \in Editors :
              loaded'[d] = loaded[d] \/ loaded'[d].snapshots = << >>
  <1>1. /\ stage' \in [Editors -> {"idle", "loaded", "copied", "tracked"}]
        /\ \A d \in Editors : stage'[d] = IF d = e THEN "tracked" ELSE stage[d]
    BY DEF Tracked, TypeOK
  <1>2. /\ loaded' \in [Editors -> Index]
        /\ \A d \in Editors : loaded'[d] = IF d = e THEN EmptyIndex ELSE loaded[d]
    BY EmptyFacts DEF Tracked, TypeOK
  <1>3. /\ backup' \in [Editors -> Backup]
        /\ \A d \in Editors : d # e => backup'[d] = backup[d]
    BY EmptyFacts DEF Tracked, TypeOK
  <1>4. EmptyIndex.snapshots = << >>
    BY DEF EmptyIndex
  <1> QED
    BY <1>1, <1>2, <1>3, <1>4

LEMMA ResolvedFacts ==
  ASSUME TypeOK, NEW f \in Files, NEW r \in Resolved(f)
  PROVE  r \in Backup
  <1>1. CASE Has(target, f)
    BY <1>1 DEF Resolved, TypeOK, Snapshot
  <1>2. CASE ~Has(target, f) /\ FirstVersions(f) = {}
    BY <1>2, EmptyFacts DEF Resolved
  <1>3. CASE ~Has(target, f) /\ FirstVersions(f) # {}
    <2>1. PICK j \in FirstVersions(f) : r = base[j].backups[f]
      BY <1>3 DEF Resolved
    <2>2. base[j] \in Snapshot
      BY <2>1 DEF FirstVersions, TypeOK
    <2> QED
      BY <2>1, <2>2 DEF Snapshot
  <1> QED
    BY <1>1, <1>2, <1>3

(* Every variable keeps its shape, and the index never holds more than     *)
(* MaxSnapshots snapshots (track_edit, the cap).                           *)
THEOREM TypeCorrect == Spec => []TypeOK
  <1>1. Init => TypeOK
    <2> SUFFICES ASSUME Init PROVE TypeOK
      OBVIOUS
    <2>1. disk \in [Files -> Content] /\ original \in [Files -> Content]
      BY DEF Init, Content
    <2>2. store \in [Files \X Version -> Content]
      BY DEF Init, Content
    <2>3. index \in Index /\ Len(index.snapshots) <= MaxSnapshots
      BY EmptyFacts, BoundAssumption DEF Init, EmptyIndex
    <2>4. /\ loaded \in [Editors -> Index] /\ backup \in [Editors -> Backup]
          /\ target \in Snapshot /\ base \in Seq(Snapshot)
      BY EmptyFacts DEF Init
    <2> QED
      BY <2>1, <2>2, <2>3, <2>4 DEF Init, TypeOK
  <1>2. TypeOK /\ [Next]_vars => TypeOK'
    <2> SUFFICES ASSUME TypeOK, [Next]_vars PROVE TypeOK'
      OBVIOUS
    <2> USE EditorFacts, EmptyFacts
    <2>1. ASSUME NEW e \in Editors, NEW f \in Files, Load(e, f)
          PROVE  TypeOK'
      <3>1. stage' \in [Editors -> {"idle", "loaded", "copied", "tracked"}]
        BY <2>1 DEF Load, TypeOK
      <3>2. /\ file' \in [Editors -> Files \cup {NoFile}]
            /\ \A d \in Editors : stage'[d] # "idle" => file'[d] \in Files
        BY <2>1 DEF Load, TypeOK
      <3>3. loaded' \in [Editors -> Index] /\ edits' \in Nat
        <4>1. loaded' = loaded \/ loaded' = [loaded EXCEPT ![e] = index]
          BY <2>1 DEF Load
        <4> QED
          BY <2>1, <4>1 DEF Load, TypeOK
      <3>4. calm' \in BOOLEAN /\ alone' \in BOOLEAN
        BY <2>1 DEF Load
      <3>5. original' \in [Files -> Content]
        BY <2>1 DEF Load, TypeOK
      <3> QED
        BY <2>1, <3>1, <3>2, <3>3, <3>4, <3>5 DEF Load, TypeOK, rewind, counts
    <2>2. ASSUME NEW e \in Editors, Copy(e)
          PROVE  TypeOK'
      <3>1. file[e] \in Files
        BY <2>2 DEF Copy, TypeOK
      <3>2. PICK v \in Version :
              /\ backup' = [backup EXCEPT ![e] =
                   [version |-> v, kept |-> disk[file[e]] # NoFile,
                    was |-> disk[file[e]]]]
              /\ store' = IF disk[file[e]] = NoFile THEN store
                          ELSE [store EXCEPT ![<<file[e], v>>] = disk[file[e]]]
        BY <2>2 DEF Copy
      <3>3. disk[file[e]] \in Content
        BY <3>1 DEF TypeOK
      <3>4. backup' \in [Editors -> Backup]
        BY <3>2, <3>3 DEF TypeOK, Backup
      <3>5. store' \in [Files \X Version -> Content]
        BY <3>1, <3>2, <3>3 DEF TypeOK
      <3> QED
        BY <2>2, <3>1, <3>4, <3>5 DEF Copy, TypeOK, rewind, counts
    <2>3. ASSUME NEW e \in Editors, Save(e)
          PROVE  TypeOK'
      <3> DEFINE all == Attached(loaded[e].snapshots, MessageOf(e), file[e], backup[e])
      <3>1. file[e] \in Files /\ loaded[e] \in Index /\ backup[e] \in Backup
        BY <2>3 DEF Save, TypeOK
      <3>2. loaded[e].snapshots \in Seq(Snapshot) /\ loaded[e].tracked \in SUBSET Files
        BY <3>1 DEF Index
      <3>3. MessageOf(e) \in Nat
        BY DEF MessageOf, TypeOK
      <3>4. all \in Seq(Snapshot)
        BY <3>1, <3>2, <3>3, AttachedFacts DEF IsAttached, TypeOK
      <3>5. Newest(all) \in Seq(Snapshot) /\ Len(Newest(all)) <= MaxSnapshots
        BY <3>4, NewestFacts DEF IsNewest
      <3>6. index' = [snapshots |-> Newest(all),
                      tracked |-> loaded[e].tracked \cup {file[e]}]
        BY <2>3 DEF Save
      <3>7. index' \in Index /\ Len(index'.snapshots) <= MaxSnapshots
        BY <3>1, <3>2, <3>5, <3>6 DEF Index
      <3>8. evicted' \in BOOLEAN
        BY <2>3 DEF Save, TypeOK
      <3> QED
        BY <2>3, <3>1, <3>7, <3>8, TrackedFacts DEF Save, TypeOK, rewind, counts
    <2>4. ASSUME NEW e \in Editors, TrackFails(e)
          PROVE  TypeOK'
      <3>1. file[e] \in Files
        BY <2>4 DEF TrackFails, TypeOK
      <3>2. /\ stage' \in [Editors -> {"idle", "loaded", "copied", "tracked"}]
            /\ loaded' \in [Editors -> Index] /\ backup' \in [Editors -> Backup]
            /\ \A d \in Editors : stage'[d] # "idle" => file'[d] \in Files
        BY <2>4, <3>1, TrackedFacts DEF TrackFails, TypeOK
      <3>3. troubles' \in Nat
        BY <2>4 DEF TrackFails, Trouble, TypeOK
      <3>4. calm' = FALSE
        BY <2>4 DEF TrackFails
      <3> QED
        BY <2>4, <3>2, <3>3, <3>4 DEF TrackFails, TypeOK, rewind
    <2>5. ASSUME NEW e \in Editors, Write(e) \/ GivesUp(e)
          PROVE  TypeOK'
      <3>1. file[e] \in Files
        BY <2>5 DEF Write, GivesUp, Leave, TypeOK
      <3>2. disk' \in [Files -> Content] /\ changes' \in Nat /\ troubles' \in Nat
        <4>1. CASE Write(e)
          BY <3>1, <4>1 DEF Write, TypeOK, Content
        <4>2. CASE GivesUp(e)
          BY <4>2 DEF GivesUp, Trouble, TypeOK
        <4> QED
          BY <2>5, <4>1, <4>2
      <3>3. Leave(e)
        BY <2>5 DEF Write, GivesUp
      <3>4. /\ stage' \in [Editors -> {"idle", "loaded", "copied", "tracked"}]
            /\ file' \in [Editors -> Files \cup {NoFile}]
            /\ \A d \in Editors : stage'[d] # "idle" => file'[d] \in Files
        BY <3>3 DEF Leave, TypeOK
      <3>5. loaded' \in [Editors -> Index] /\ backup' \in [Editors -> Backup]
        BY <3>3 DEF Leave, TypeOK
      <3> QED
        BY <3>2, <3>3, <3>4, <3>5 DEF Leave, TypeOK, rewind
    <2>6. ASSUME NEW i \in DOMAIN index.snapshots, RewindFind(i)
          PROVE  TypeOK'
      <3>1. index.snapshots[i] \in Snapshot
        BY DEF TypeOK, Index
      <3> QED
        BY <2>6, <3>1 DEF RewindFind, TypeOK, edit, counts, Quiet
    <2>7. CASE RewindLoad
      BY <2>7 DEF RewindLoad, TypeOK, edit, counts, Index
    <2>8. ASSUME NEW f \in Files, Restore(f)
          PROVE  TypeOK'
      <3>1. PICK r \in Resolved(f) : RestoreFrom(f, r) /\ UNCHANGED store
        BY <2>8 DEF Restore
      <3>2. r \in Backup
        BY ResolvedFacts
      <3>3. Restored(f, r) \in Content
        <4>1. disk[f] \in Content
          BY DEF TypeOK
        <4>2. CASE r = NoBackup
          BY <4>1, <4>2 DEF Restored
        <4>3. CASE r.version \in Version
          <5>1. store[<<f, r.version>>] \in Content
            BY <4>3 DEF TypeOK
          <5> QED
            BY <4>1, <5>1 DEF Restored, Content
        <4> QED
          BY <3>2, <4>2, <4>3 DEF Backup
      <3> QED
        BY <3>1, <3>3 DEF RestoreFrom, TypeOK, edit, counts
    <2>9. CASE RewindFails
      BY <2>9 DEF RewindFails, TypeOK, edit, Trouble
    <2>10. CASE NextMessage
      BY <2>10 DEF NextMessage, TypeOK, edit, rewind, counts
    <2>11. ASSUME NEW f \in Files, Outside(f)
           PROVE  TypeOK'
      <3>1. PICK c \in {changes + 1, NoFile} : disk' = [disk EXCEPT ![f] = c]
        BY <2>11 DEF Outside
      <3>2. disk' \in [Files -> Content]
        BY <3>1 DEF TypeOK, Content
      <3>3. changes' \in Nat /\ troubles' \in Nat
        BY <2>11 DEF Outside, Trouble, TypeOK
      <3>4. calm' \in BOOLEAN /\ alone' \in BOOLEAN
        BY <2>11 DEF Outside
      <3> QED
        BY <2>11, <3>2, <3>3, <3>4 DEF Outside, TypeOK, edit, rewind
    <2>12. CASE Crash
      BY <2>12 DEF Crash, TypeOK, Trouble
    <2>13. CASE UNCHANGED vars
      BY <2>13 DEF vars, TypeOK, edit, rewind, counts
    <2> QED
      BY <2>1, <2>2, <2>3, <2>4, <2>5, <2>6, <2>7, <2>8, <2>9, <2>10, <2>11,
         <2>12, <2>13 DEF Next, Track, Rewind
  <1> QED
    BY <1>1, <1>2, PTL DEF Spec
-----------------------------------------------------------------------------
(* Whoever overlaps with whom, the index and every loaded copy of it have  *)
(* their backups: a copy is made before its record leaves the editor, and  *)
(* no step removes a backup file.                                          *)
AllBacked(snapshots) ==
  \A i \in DOMAIN snapshots : \A f \in Files :
    HasItsBackup(f, snapshots[i].backups[f])

BackedInv ==
  /\ AllBacked(index.snapshots)
  /\ \A e \in Editors : AllBacked(loaded[e].snapshots)
  /\ \A e \in Editors : stage[e] = "copied" => HasItsBackup(file[e], backup[e])

(* A step that leaves store and index alone and hands no agent more than   *)
(* it had.                                                                 *)
LEMMA BackedFrame ==
  ASSUME BackedInv, UNCHANGED <<store, index>>,
         \A d \in Editors : AllBacked(loaded'[d].snapshots),
         \A d \in Editors : stage'[d] = "copied" => HasItsBackup(file'[d], backup'[d])
  PROVE  BackedInv'
  <1>1. AllBacked(index.snapshots)'
    BY DEF BackedInv, AllBacked, HasItsBackup
  <1>2. \A d \in Editors : AllBacked(loaded[d].snapshots)'
    BY DEF AllBacked, HasItsBackup
  <1>3. \A d \in Editors : stage'[d] = "copied" => HasItsBackup(file[d], backup[d])'
    BY DEF HasItsBackup
  <1> QED
    BY <1>1, <1>2, <1>3 DEF BackedInv

StoreGrows ==
  \A b \in Files \X Version : store[b] # NoFile => store'[b] # NoFile

LEMMA BackedFacts ==
  ASSUME StoreGrows, NEW f \in Files, NEW r \in Backup, HasItsBackup(f, r)
  PROVE  HasItsBackup(f, r)'
  <1>1. CASE r = NoBackup
    BY <1>1 DEF HasItsBackup, NoBackup
  <1>2. CASE r.version \in Version
    BY <1>2 DEF HasItsBackup, StoreGrows
  <1> QED
    BY <1>1, <1>2 DEF Backup

LEMMA AllBackedFacts ==
  ASSUME StoreGrows, NEW s \in Seq(Snapshot), AllBacked(s)
  PROVE  AllBacked(s)'
  <1> SUFFICES ASSUME NEW i \in DOMAIN s, NEW f \in Files
               PROVE  HasItsBackup(f, s[i].backups[f])'
    BY DEF AllBacked
  <1>1. s[i] \in Snapshot
    OBVIOUS
  <1>2. s[i].backups[f] \in Backup
    BY <1>1 DEF Snapshot
  <1>3. HasItsBackup(f, s[i].backups[f])
    BY DEF AllBacked
  <1> QED
    BY <1>2, <1>3, BackedFacts

(* The records of the retained snapshots keep their backups.               *)
LEMMA RecordsKeepTheirBackups == Spec => []RecordsHaveTheirBackups
  <1>1. Init => BackedInv
    BY DEF Init, BackedInv, AllBacked, EmptyIndex
  <1>2. TypeOK /\ BackedInv /\ [Next]_vars => BackedInv'
    <2> SUFFICES ASSUME TypeOK, BackedInv, [Next]_vars PROVE BackedInv'
      OBVIOUS
    <2>0. /\ index.snapshots \in Seq(Snapshot)
          /\ \A e \in Editors : loaded[e].snapshots \in Seq(Snapshot)
      BY DEF TypeOK, Index
    <2>1. ASSUME NEW e \in Editors, NEW f \in Files, Load(e, f)
          PROVE  BackedInv'
      <3>1. /\ \A d \in Editors : loaded'[d] \in {loaded[d], index}
            /\ UNCHANGED <<store, index, backup>>
        BY <2>1 DEF Load, TypeOK
      <3>2. \A d \in Editors :
              stage'[d] = "copied" => d # e /\ stage[d] = "copied" /\ file'[d] = file[d]
        BY <2>1 DEF Load, TypeOK
      <3>3. \A d \in Editors : AllBacked(loaded'[d].snapshots)
        BY <3>1 DEF BackedInv
      <3>4. \A d \in Editors : stage'[d] = "copied" => HasItsBackup(file'[d], backup'[d])
        BY <3>1, <3>2 DEF BackedInv
      <3> QED
        BY <3>1, <3>3, <3>4, BackedFrame
    <2>2. ASSUME NEW e \in Editors, Copy(e)
          PROVE  BackedInv'
      <3>1. PICK v \in Version :
              /\ backup' = [backup EXCEPT ![e] =
                   [version |-> v, kept |-> disk[file[e]] # NoFile,
                    was |-> disk[file[e]]]]
              /\ store' = IF disk[file[e]] = NoFile THEN store
                          ELSE [store EXCEPT ![<<file[e], v>>] = disk[file[e]]]
        BY <2>2 DEF Copy
      <3>2. file[e] \in Files
        BY <2>2 DEF Copy, TypeOK
      <3>3. StoreGrows
        BY <3>1, <3>2 DEF StoreGrows, TypeOK
      <3>4. HasItsBackup(file[e], backup[e])'
        BY <2>2, <3>1, <3>2 DEF Copy, HasItsBackup, TypeOK
      <3>5. UNCHANGED <<index, loaded, file>>
        BY <2>2 DEF Copy
      <3>6. AllBacked(index.snapshots)'
        BY <2>0, <3>3, <3>5, AllBackedFacts DEF BackedInv
      <3>7. ASSUME NEW d \in Editors
            PROVE  AllBacked(loaded[d].snapshots)'
        BY <2>0, <3>3, <3>5, AllBackedFacts DEF BackedInv
      <3>8. ASSUME NEW d \in Editors, d # e, stage'[d] = "copied"
            PROVE  HasItsBackup(file[d], backup[d])'
        <4>1. stage[d] = "copied" /\ backup'[d] = backup[d] /\ file'[d] = file[d]
          BY <2>2, <3>1, <3>8 DEF Copy, TypeOK
        <4>2. file[d] \in Files /\ backup[d] \in Backup
          BY <4>1 DEF TypeOK
        <4>3. HasItsBackup(file[d], backup[d])
          BY <4>1 DEF BackedInv
        <4> QED
          BY <3>3, <4>1, <4>2, <4>3, BackedFacts DEF HasItsBackup
      <3> QED
        BY <3>4, <3>6, <3>7, <3>8 DEF BackedInv
    <2>3. ASSUME NEW e \in Editors, Save(e)
          PROVE  BackedInv'
      <3> DEFINE s == loaded[e].snapshots
                 all == Attached(s, MessageOf(e), file[e], backup[e])
                 new == Newest(all)
      <3>1. file[e] \in Files /\ backup[e] \in Backup /\ MessageOf(e) \in Nat
        BY <2>3 DEF Save, TypeOK, MessageOf
      <3>2. IsAttached(all, s, file[e], backup[e])
        BY <2>0, <3>1, AttachedFacts DEF TypeOK
      <3>3. AllBacked(s) /\ HasItsBackup(file[e], backup[e])
        BY <2>3 DEF Save, BackedInv
      <3>4. AllBacked(all)
        <4>0. DOMAIN all = 1 .. Len(all)
          <5>1. all \in Seq(Snapshot)
            BY <3>2 DEF IsAttached
          <5> HIDE DEF all
          <5> QED
            BY <5>1
        <4> SUFFICES ASSUME NEW i \in 1 .. Len(all), NEW g \in Files
                     PROVE  HasItsBackup(g, all[i].backups[g])
          BY <4>0 DEF AllBacked
        <4>1. CASE i = Len(all) /\ g = file[e]
          BY <3>2, <3>3, <4>1 DEF IsAttached
        <4>2. CASE i \in 1 .. Len(s) /\ all[i].backups[g] = s[i].backups[g]
          BY <2>0, <3>3, <4>2 DEF AllBacked
        <4>3. CASE all[i].backups[g] = NoBackup
          BY <4>3 DEF HasItsBackup, NoBackup
        <4> QED
          BY <3>2, <4>1, <4>2, <4>3 DEF IsAttached
      <3>5. IsNewest(new, all)
        BY <3>2, NewestFacts DEF IsAttached
      <3>6. AllBacked(new)
        <4> HIDE DEF all, new
        <4> QED
          BY <3>2, <3>4, <3>5 DEF AllBacked, IsNewest, IsAttached
      <3>7. index'.snapshots = new /\ Tracked(e) /\ UNCHANGED <<store, file>>
        BY <2>3 DEF Save
      <3>8. \A d \in Editors : AllBacked(loaded'[d].snapshots)
        BY <3>7, TrackedFacts DEF BackedInv, AllBacked
      <3>9. ASSUME NEW d \in Editors, stage'[d] = "copied"
            PROVE  HasItsBackup(file[d], backup[d])'
        <4>1. stage[d] = "copied" /\ backup'[d] = backup[d]
          BY <3>7, <3>9, TrackedFacts
        <4>2. HasItsBackup(file[d], backup[d])
          BY <4>1 DEF BackedInv
        <4> QED
          BY <3>7, <4>1, <4>2 DEF HasItsBackup
      <3>10. AllBacked(index.snapshots)'
        <4> HIDE DEF new
        <4> QED
          BY <3>6, <3>7 DEF AllBacked, HasItsBackup
      <3>11. \A d \in Editors : AllBacked(loaded[d].snapshots)'
        BY <3>7, <3>8 DEF AllBacked, HasItsBackup
      <3> QED
        BY <3>9, <3>10, <3>11 DEF BackedInv
    <2>4. ASSUME NEW e \in Editors, TrackFails(e)
          PROVE  BackedInv'
      <3>1. Tracked(e) /\ UNCHANGED <<store, index, file>>
        BY <2>4 DEF TrackFails
      <3>2. \A d \in Editors : AllBacked(loaded'[d].snapshots)
        BY <3>1, TrackedFacts DEF BackedInv, AllBacked
      <3>3. \A d \in Editors : stage'[d] = "copied" => HasItsBackup(file'[d], backup'[d])
        BY <3>1, TrackedFacts DEF BackedInv
      <3> QED
        BY <3>1, <3>2, <3>3, BackedFrame
    <2>5. ASSUME NEW e \in Editors, Write(e) \/ GivesUp(e)
          PROVE  BackedInv'
      <3>1. Leave(e)
        BY <2>5 DEF Write, GivesUp
      <3>2. UNCHANGED <<store, index, loaded, backup>>
        BY <3>1 DEF Leave
      <3>3. \A d \in Editors : stage'[d] = "copied" =>
              stage[d] = "copied" /\ file'[d] = file[d]
        BY <3>1 DEF Leave, TypeOK
      <3>4. \A d \in Editors : stage'[d] = "copied" => HasItsBackup(file'[d], backup'[d])
        BY <3>2, <3>3 DEF BackedInv
      <3>5. \A d \in Editors : AllBacked(loaded'[d].snapshots)
        BY <3>2 DEF BackedInv
      <3> QED
        BY <3>2, <3>4, <3>5, BackedFrame
    <2>6. CASE Crash
      BY <2>6 DEF Crash, BackedInv, AllBacked, HasItsBackup, EmptyIndex
    <2>7. CASE \/ Rewind \/ NextMessage \/ (\E f \in Files : Outside(f))
               \/ UNCHANGED vars
      <3>1. UNCHANGED <<store, index, stage, file, loaded, backup>>
        BY <2>7 DEF Rewind, RewindFind, RewindLoad, Restore, RestoreFrom,
                    RewindFails, NextMessage, Outside, vars, edit
      <3> QED
        BY <3>1 DEF BackedInv, AllBacked, HasItsBackup
    <2> QED
      BY <2>1, <2>2, <2>3, <2>4, <2>5, <2>6, <2>7 DEF Next, Track
  <1>3. BackedInv => RecordsHaveTheirBackups
    BY DEF BackedInv, AllBacked, RecordsHaveTheirBackups
  <1> QED
    BY <1>1, <1>2, <1>3, TypeCorrect, PTL DEF Spec
-----------------------------------------------------------------------------
(* The versions of a file grow along the index and along every loaded copy *)
(* of it, and a record on its way into a copy is above that copy's.        *)
Above(b, s, f) == \A i \in 1 .. Len(s) :
  Has(s[i], f) => s[i].backups[f].version < b.version

GrowInv ==
  /\ VersionsGrow(index.snapshots)
  /\ \A e \in Editors : VersionsGrow(loaded[e].snapshots)
  /\ \A e \in Editors :
       stage[e] = "copied" => Above(backup[e], loaded[e].snapshots, file[e])

LEMMA VersionType ==
  ASSUME NEW s \in Seq(Snapshot), NEW i \in 1 .. Len(s), NEW f \in Files
  PROVE  s[i].backups[f] \in Backup /\ s[i].backups[f].version \in Nat
  <1>1. s[i] \in Snapshot
    OBVIOUS
  <1>2. s[i].backups[f] \in Backup
    BY <1>1 DEF Snapshot
  <1>3. NoBackup.version \in Nat
    BY DEF NoBackup
  <1>4. \A b \in [version : Version, kept : BOOLEAN, was : Content] : b.version \in Nat
    BY BoundAssumption DEF Version
  <1> QED
    BY <1>2, <1>3, <1>4 DEF Backup

LEMMA AttachedGrows ==
  ASSUME NEW s \in Seq(Snapshot), NEW t, NEW f \in Files, NEW b \in Backup,
         IsAttached(t, s, f, b), VersionsGrow(s), Above(b, s, f)
  PROVE  VersionsGrow(t)
  <1> SUFFICES ASSUME NEW i \in 1 .. Len(t), NEW j \in 1 .. Len(t), NEW g \in Files,
                      i < j, Has(t[i], g), Has(t[j], g)
               PROVE  t[i].backups[g].version < t[j].backups[g].version
    BY DEF VersionsGrow, IsAttached
  <1>1. Len(t) \in Nat /\ Len(s) \in Nat
    BY DEF IsAttached
  <1>2. i # Len(t)
    BY <1>1
  <1>3. i \in 1 .. Len(s) /\ t[i].backups[g] = s[i].backups[g]
    BY <1>2 DEF IsAttached, Has, NoBackup
  <1>4. CASE j = Len(t) /\ g = f
    BY <1>3, <1>4 DEF IsAttached, Above, Has
  <1>5. CASE ~(j = Len(t) /\ g = f)
    <2>1. j \in 1 .. Len(s) /\ t[j].backups[g] = s[j].backups[g]
      BY <1>5 DEF IsAttached, Has, NoBackup
    <2> QED
      BY <1>3, <2>1 DEF VersionsGrow, Has
  <1> QED
    BY <1>4, <1>5

LEMMA NewestGrows ==
  ASSUME NEW s \in Seq(Snapshot), NEW t, IsNewest(t, s), VersionsGrow(s)
  PROVE  VersionsGrow(t)
  <1>1. PICK k \in Nat : \A i \in 1 .. Len(t) :
          i + k \in 1 .. Len(s) /\ t[i] = s[i + k]
    BY DEF IsNewest
  <1> SUFFICES ASSUME NEW i \in 1 .. Len(t), NEW j \in 1 .. Len(t), NEW g \in Files,
                      i < j, Has(t[i], g), Has(t[j], g)
               PROVE  t[i].backups[g].version < t[j].backups[g].version
    <2>1. DOMAIN t = 1 .. Len(t)
      BY DEF IsNewest
    <2> QED
      BY <2>1 DEF VersionsGrow
  <1>2. i + k < j + k /\ i + k \in DOMAIN s /\ j + k \in DOMAIN s
    BY <1>1
  <1> QED
    BY <1>1, <1>2 DEF VersionsGrow

(* No two retained snapshots share a backup file of a file.                *)
LEMMA BackupsStayApart == Spec => []BackupsAreNotShared
  <1>1. Init => GrowInv
    BY DEF Init, GrowInv, VersionsGrow, EmptyIndex
  <1>2. TypeOK /\ GrowInv /\ [Next]_vars => GrowInv'
    <2> SUFFICES ASSUME TypeOK, GrowInv, [Next]_vars PROVE GrowInv'
      OBVIOUS
    <2>0. /\ index.snapshots \in Seq(Snapshot)
          /\ \A e \in Editors : loaded[e].snapshots \in Seq(Snapshot)
      BY DEF TypeOK, Index
    <2>1. ASSUME NEW e \in Editors, NEW f \in Files, Load(e, f)
          PROVE  GrowInv'
      <3>1. /\ \A d \in Editors : loaded'[d] \in {loaded[d], index}
            /\ UNCHANGED <<index, backup>>
        BY <2>1 DEF Load, TypeOK
      <3>2. \A d \in Editors : stage'[d] = "copied" =>
              stage[d] = "copied" /\ file'[d] = file[d] /\ loaded'[d] = loaded[d]
        BY <2>1 DEF Load, TypeOK
      <3> QED
        BY <3>1, <3>2 DEF GrowInv, TypeOK
    <2>2. ASSUME NEW e \in Editors, Copy(e)
          PROVE  GrowInv'
      <3> DEFINE s == loaded[e].snapshots
      <3>1. PICK v \in Version :
              /\ IsNext(v, Versions(s, file[e]))
              /\ backup' = [backup EXCEPT ![e] =
                   [version |-> v, kept |-> disk[file[e]] # NoFile,
                    was |-> disk[file[e]]]]
        BY <2>2 DEF Copy
      <3>2. UNCHANGED <<index, loaded, file>>
        BY <2>2 DEF Copy
      <3>3. Above(backup'[e], s, file[e])
        <4>1. backup'[e].version = v
          BY <3>1 DEF TypeOK
        <4>2. \A i \in 1 .. Len(s) : Has(s[i], file[e]) =>
                s[i].backups[file[e]].version \in Versions(s, file[e])
          <5>1. s \in Seq(Snapshot)
            BY <2>0
          <5> HIDE DEF s
          <5>2. DOMAIN s = 1 .. Len(s)
            BY <5>1
          <5> QED
            BY <5>2 DEF Versions, Has
        <4> HIDE DEF s
        <4> QED
          BY <3>1, <4>1, <4>2 DEF IsNext, Above
      <3>4. \A d \in Editors : d # e /\ stage'[d] = "copied" =>
              stage[d] = "copied" /\ backup'[d] = backup[d]
        BY <2>2, <3>1 DEF Copy, TypeOK
      <3> QED
        BY <3>2, <3>3, <3>4 DEF GrowInv
    <2>3. ASSUME NEW e \in Editors, Save(e)
          PROVE  GrowInv'
      <3> DEFINE s == loaded[e].snapshots
                 all == Attached(s, MessageOf(e), file[e], backup[e])
                 new == Newest(all)
      <3>1. file[e] \in Files /\ backup[e] \in Backup /\ MessageOf(e) \in Nat
        BY <2>3 DEF Save, TypeOK, MessageOf
      <3>2. IsAttached(all, s, file[e], backup[e])
        BY <2>0, <3>1, AttachedFacts DEF TypeOK
      <3>3. VersionsGrow(s) /\ Above(backup[e], s, file[e])
        BY <2>3 DEF Save, GrowInv
      <3>4. VersionsGrow(all)
        BY <2>0, <3>1, <3>2, <3>3, AttachedGrows
      <3>5. IsNewest(new, all) /\ all \in Seq(Snapshot)
        BY <3>2, NewestFacts DEF IsAttached
      <3>6. VersionsGrow(new)
        BY <3>4, <3>5, NewestGrows
      <3>7. index'.snapshots = new /\ Tracked(e) /\ UNCHANGED file
        BY <2>3 DEF Save
      <3>8. \A d \in Editors : VersionsGrow(loaded'[d].snapshots)
        BY <3>7, TrackedFacts DEF GrowInv, VersionsGrow
      <3> HIDE DEF new
      <3> QED
        BY <3>6, <3>7, <3>8, TrackedFacts DEF GrowInv
    <2>4. ASSUME NEW e \in Editors, TrackFails(e)
          PROVE  GrowInv'
      <3>1. Tracked(e) /\ UNCHANGED <<index, file>>
        BY <2>4 DEF TrackFails
      <3>2. \A d \in Editors : VersionsGrow(loaded'[d].snapshots)
        BY <3>1, TrackedFacts DEF GrowInv, VersionsGrow
      <3> QED
        BY <3>1, <3>2, TrackedFacts DEF GrowInv
    <2>5. ASSUME NEW e \in Editors, Write(e) \/ GivesUp(e)
          PROVE  GrowInv'
      <3>1. Leave(e)
        BY <2>5 DEF Write, GivesUp
      <3>2. UNCHANGED <<index, loaded, backup>>
        BY <3>1 DEF Leave
      <3>3. \A d \in Editors : stage'[d] = "copied" =>
              stage[d] = "copied" /\ file'[d] = file[d]
        BY <3>1 DEF Leave, TypeOK
      <3> QED
        BY <3>2, <3>3 DEF GrowInv
    <2>6. CASE Crash
      BY <2>6 DEF Crash, GrowInv, VersionsGrow, EmptyIndex
    <2>7. CASE \/ Rewind \/ NextMessage \/ (\E f \in Files : Outside(f))
               \/ UNCHANGED vars
      <3>1. UNCHANGED <<index, stage, file, loaded, backup>>
        BY <2>7 DEF Rewind, RewindFind, RewindLoad, Restore, RestoreFrom,
                    RewindFails, NextMessage, Outside, vars, edit
      <3> QED
        BY <3>1 DEF GrowInv
    <2> QED
      BY <2>1, <2>2, <2>3, <2>4, <2>5, <2>6, <2>7 DEF Next, Track
  <1>3. GrowInv => BackupsAreNotShared
    BY DEF GrowInv, BackupsAreNotShared
  <1> QED
    BY <1>1, <1>2, <1>3, TypeCorrect, PTL DEF Spec

(* Each record of the retained snapshots keeps a backup, and one of its    *)
(* own, whatever edits overlap, fail or are cut off by a crash, for any    *)
(* cap and after any number of evictions.                                  *)
THEOREM RecordsKeepTheirOwnBackups == Spec => []RecordsHaveTheirOwnBackups
  <1>1. RecordsHaveTheirBackups /\ BackupsAreNotShared => RecordsHaveTheirOwnBackups
    BY DEF RecordsHaveTheirOwnBackups
  <1> QED
    BY <1>1, RecordsKeepTheirBackups, BackupsStayApart, PTL
-----------------------------------------------------------------------------
(* While the history is calm one edit is under way at a time, with the     *)
(* index as it is; what it records is what the file held, and a file that  *)
(* is not tracked has no record.                                           *)
Right(copies, dropped, first, f, record) ==
  /\ record.was = IF record.kept THEN copies[<<f, record.version>>] ELSE NoFile
  /\ ~dropped /\ record.version = 1 => record.was = first[f]

AllRight(copies, dropped, first, s) ==
  \A i \in DOMAIN s : \A f \in Files :
    Has(s[i], f) => Right(copies, dropped, first, f, s[i].backups[f])
OnlyTracked(s, T) == \A i \in DOMAIN s : \A f \in Files : Has(s[i], f) => f \in T
FirstKept(s, T) == \A f \in T : \E i \in DOMAIN s : s[i].backups[f].version = 1

OneEditor == \A d, e \in Editors : stage[d] # "idle" /\ stage[e] # "idle" => d = e
Fresh(e) ==
  stage[e] \in {"loaded", "copied"} =>
    loaded[e] = index /\ ~AlreadyTracked(index.snapshots, file[e])
Found(e) ==
  stage[e] = "loaded" /\ file[e] \notin index.tracked => original[file[e]] = disk[file[e]]
Recorded(e) ==
  stage[e] = "copied" =>
    /\ backup[e].version # 0 /\ Right(store, evicted, original, file[e], backup[e])
    /\ file[e] \notin index.tracked => backup[e].version = 1

Editing == OneEditor /\ \A e \in Editors : Fresh(e) /\ Found(e) /\ Recorded(e)
Kept ==
  /\ OnlyTracked(index.snapshots, index.tracked)
  /\ AllRight(store, evicted, original, index.snapshots)
  /\ ~evicted => FirstKept(index.snapshots, index.tracked)
CalmInv == calm => Editing /\ Kept /\ todo \subseteq index.tracked

(* The cap keeps a part of the index.                                      *)
LEMMA NewestKeeps ==
  ASSUME NEW s \in Seq(Snapshot), NEW t, IsNewest(t, s), NEW T,
         NEW copies, NEW dropped \in BOOLEAN, NEW first, NEW more \in BOOLEAN, dropped => more,
         OnlyTracked(s, T), AllRight(copies, dropped, first, s)
  PROVE  OnlyTracked(t, T) /\ AllRight(copies, more, first, t)
  <1>1. PICK k \in Nat : \A i \in 1 .. Len(t) :
          i + k \in 1 .. Len(s) /\ t[i] = s[i + k]
    BY DEF IsNewest
  <1>2. DOMAIN t = 1 .. Len(t) /\ DOMAIN s = 1 .. Len(s)
    BY DEF IsNewest
  <1>3. ASSUME NEW i \in DOMAIN t, NEW f \in Files, Has(t[i], f)
        PROVE  f \in T /\ Right(copies, more, first, f, t[i].backups[f])
    <2>1. t[i] = s[i + k] /\ i + k \in DOMAIN s
      BY <1>1, <1>2
    <2>2. f \in T /\ Right(copies, dropped, first, f, s[i + k].backups[f])
      BY <1>3, <2>1 DEF OnlyTracked, AllRight
    <2> QED
      BY <2>1, <2>2 DEF Right
  <1> QED
    BY <1>3 DEF OnlyTracked, AllRight

LEMMA AttachedShape ==
  ASSUME NEW s \in Seq(Snapshot), NEW t, NEW f, NEW b, IsAttached(t, s, f, b)
  PROVE  /\ DOMAIN t = 1 .. Len(t) /\ DOMAIN s = 1 .. Len(s)
         /\ Len(s) \in Nat /\ Len(t) \in {Len(s), Len(s) + 1}
         /\ Len(t) \in DOMAIN t /\ t[Len(t)].backups[f] = b
  <1>1. /\ t \in Seq(Snapshot) /\ Len(t) \in {Len(s), Len(s) + 1} /\ Len(t) > 0
        /\ t[Len(t)].backups[f] = b
    BY DEF IsAttached
  <1> QED
    BY <1>1

(* A record that is right joins an index that is.                          *)
LEMMA AttachedIsRight ==
  ASSUME NEW s \in Seq(Snapshot), NEW t, NEW f \in Files, NEW b, IsAttached(t, s, f, b),
         NEW T, NEW copies, NEW dropped, NEW first,
         OnlyTracked(s, T), AllRight(copies, dropped, first, s),
         Right(copies, dropped, first, f, b)
  PROVE  /\ OnlyTracked(t, T \cup {f})
         /\ AllRight(copies, dropped, first, t)
  <1>1. DOMAIN t = 1 .. Len(t) /\ DOMAIN s = 1 .. Len(s)
    BY AttachedShape
  <1>2. ASSUME NEW i \in DOMAIN t, NEW g \in Files, Has(t[i], g)
        PROVE  g \in T \cup {f} /\ Right(copies, dropped, first, g, t[i].backups[g])
    <2>1. CASE i = Len(t) /\ g = f
      BY <2>1 DEF IsAttached
    <2>2. CASE ~(i = Len(t) /\ g = f)
      <3>1. i \in DOMAIN s /\ t[i].backups[g] = s[i].backups[g]
        <4>1. t[i].backups[g] # NoBackup
          BY <1>2 DEF Has, NoBackup
        <4>2. \/ i \in 1 .. Len(s) /\ t[i].backups[g] = s[i].backups[g]
              \/ t[i].backups[g] = NoBackup
          BY <1>1, <2>2 DEF IsAttached
        <4> QED
          BY <1>1, <4>1, <4>2
      <3>2. Has(s[i], g)
        BY <1>2, <3>1 DEF Has
      <3> QED
        BY <3>1, <3>2 DEF OnlyTracked, AllRight
    <2> QED
      BY <2>1, <2>2
  <1> QED
    BY <1>2 DEF OnlyTracked, AllRight

LEMMA AttachedKeepsFirst ==
  ASSUME NEW s \in Seq(Snapshot), NEW t, NEW f \in Files, NEW b, IsAttached(t, s, f, b),
         NEW T \in SUBSET Files, FirstKept(s, T), ~AlreadyTracked(s, f),
         f \notin T => b.version = 1
  PROVE  FirstKept(t, T \cup {f})
  <1>1. /\ DOMAIN t = 1 .. Len(t) /\ DOMAIN s = 1 .. Len(s)
        /\ Len(s) \in Nat /\ Len(t) \in {Len(s), Len(s) + 1}
    BY AttachedShape
  <1>2. Len(t) \in DOMAIN t /\ t[Len(t)].backups[f] = b
    BY AttachedShape
  <1>3. ASSUME NEW g \in T
        PROVE  \E i \in DOMAIN t : t[i].backups[g].version = 1
    <2>1. PICK i \in DOMAIN s : s[i].backups[g].version = 1
      BY DEF FirstKept
    <2>2. ~(i = Len(s) /\ g = f)
      <3>1. SUFFICES ASSUME i = Len(s), g = f PROVE FALSE
        OBVIOUS
      <3>2. Last(s) = s[i]
        BY <3>1 DEF Last
      <3>3. i \in 1 .. Len(s)
        BY <1>1
      <3>4. s # << >>
        BY <3>3
      <3> QED
        BY <2>1, <3>1, <3>2, <3>4 DEF AlreadyTracked, Has
    <2>3. i \in 1 .. Len(s)
      BY <1>1
    <2>4. i \in 1 .. Len(t) /\ (i = Len(t) => i = Len(s))
      <3>1. \A n, m \in Nat : m \in {n, n + 1} =>
              \A k \in 1 .. n : k \in 1 .. m /\ (k = m => k = n)
        OBVIOUS
      <3>2. Len(s) \in Nat /\ Len(t) \in Nat
        <4>1. \A n \in Nat : n + 1 \in Nat
          OBVIOUS
        <4> QED
          BY <1>1, <4>1, Zenon
      <3> QED
        BY <1>1, <2>3, <3>1, <3>2, Zenon
    <2>5. t[i].backups[g] = s[i].backups[g]
      BY <2>2, <2>3, <2>4 DEF IsAttached
    <2> QED
      BY <1>1, <2>1, <2>4, <2>5
  <1> QED
    BY <1>2, <1>3 DEF FirstKept

LEMMA CalmLoad ==
  ASSUME TypeOK, CalmInv, NEW e \in Editors, NEW f \in Files, Load(e, f)
  PROVE  CalmInv'
  <1> SUFFICES ASSUME calm' PROVE (Editing /\ Kept /\ todo \subseteq index.tracked)'
    BY DEF CalmInv
  <1>1. calm /\ Quiet /\ Kept /\ todo \subseteq index.tracked
    BY DEF Load, CalmInv
  <1>2. UNCHANGED <<disk, store, index, evicted, todo, backup>>
    BY DEF Load, rewind
  <1>3. \A d \in Editors : d # e => stage'[d] = "idle"
    BY <1>1 DEF Load, TypeOK, Quiet
  <1>4. /\ file'[e] = f /\ stage'[e] \in {"tracked", "loaded"}
        /\ stage'[e] = "loaded" => loaded'[e] = index /\ ~AlreadyTracked(index.snapshots, f)
    BY DEF Load, TypeOK
  <1>5. /\ f \notin index.tracked => original'[f] = disk[f]
        /\ \A g \in index.tracked : original'[g] = original[g]
    BY DEF Load, TypeOK, Index
  <1>6. Editing'
    <2>1. OneEditor'
      BY <1>3 DEF OneEditor
    <2>2. ASSUME NEW d \in Editors PROVE (Fresh(d) /\ Found(d) /\ Recorded(d))'
      <3>1. CASE d # e
        BY <1>3, <3>1 DEF Fresh, Found, Recorded
      <3>2. CASE d = e
        BY <1>2, <1>4, <1>5, <3>2 DEF Fresh, Found, Recorded
      <3> QED
        BY <3>1, <3>2
    <2> QED
      BY <2>1, <2>2 DEF Editing
  <1>7. AllRight(store, evicted, original', index.snapshots)
    BY <1>1, <1>5 DEF Kept, AllRight, OnlyTracked, Right
  <1>8. Kept'
    BY <1>1, <1>2, <1>7 DEF Kept
  <1> QED
    BY <1>1, <1>2, <1>6, <1>8

LEMMA CalmCopy ==
  ASSUME TypeOK, CalmInv, NEW e \in Editors, Copy(e)
  PROVE  CalmInv'
  <1> SUFFICES ASSUME calm' PROVE (Editing /\ Kept /\ todo \subseteq index.tracked)'
    BY DEF CalmInv
  <1> DEFINE f == file[e]
             s == index.snapshots
  <1>1. calm /\ Editing /\ Kept /\ todo \subseteq index.tracked
    BY DEF Copy, CalmInv
  <1>2. stage[e] = "loaded" /\ UNCHANGED <<disk, index, file, loaded, todo, evicted, original>>
    BY DEF Copy, rewind
  <1>3. f \in Files /\ disk[f] \in Content
    BY <1>2 DEF TypeOK
  <1>4. loaded[e] = index /\ ~AlreadyTracked(s, f)
    BY <1>1, <1>2 DEF Editing, Fresh
  <1>5. PICK v \in Version :
          /\ IsNext(v, Versions(s, f))
          /\ backup' = [backup EXCEPT ![e] =
               [version |-> v, kept |-> disk[f] # NoFile, was |-> disk[f]]]
          /\ store' = IF disk[f] = NoFile THEN store
                      ELSE [store EXCEPT ![<<f, v>>] = disk[f]]
    BY <1>4 DEF Copy
  <1>6. s \in Seq(Snapshot) /\ DOMAIN s = 1 .. Len(s)
    BY DEF TypeOK, Index
  <1>7. v \in Nat \ {0}
    BY BoundAssumption DEF Version
  <1>8. \A i \in DOMAIN s : Has(s[i], f) => s[i].backups[f].version \in Versions(s, f)
    BY DEF Versions, Has
  <1>9. \A i \in DOMAIN s : Has(s[i], f) =>
          s[i].backups[f].version \in Nat \ {0} /\ s[i].backups[f].version < v
    BY <1>3, <1>5, <1>6, <1>8, VersionType DEF IsNext, Has
  <1>10. \A i \in DOMAIN s : \A g \in Files : Has(s[i], g) /\ s[i].backups[g].kept =>
           store'[<<g, s[i].backups[g].version>>] = store[<<g, s[i].backups[g].version>>]
    <2> SUFFICES ASSUME NEW i \in DOMAIN s, NEW g \in Files, Has(s[i], g)
                 PROVE  store'[<<g, s[i].backups[g].version>>]
                          = store[<<g, s[i].backups[g].version>>]
      OBVIOUS
    <2>1. <<g, s[i].backups[g].version>> # <<f, v>>
      <3>1. CASE g = f
        BY <1>7, <1>9, <3>1
      <3>2. CASE g # f
        BY <3>2
      <3> QED
        BY <3>1, <3>2
    <2>2. s[i].backups[g].version \in Version
      <3>1. s[i].backups[g] \in Backup /\ s[i].backups[g].version # 0
        BY <1>6, VersionType DEF Has
      <3> QED
        BY <3>1 DEF Backup, NoBackup
    <2> HIDE DEF s, f
    <2> QED
      BY <1>3, <1>5, <2>1, <2>2 DEF TypeOK
  <1>11. AllRight(store', evicted, original, s)
    <2>1. AllRight(store, evicted, original, s)
      BY <1>1 DEF Kept
    <2> HIDE DEF s
    <2> QED
      BY <1>10, <2>1 DEF AllRight, Right
  <1>12. Kept'
    BY <1>1, <1>2, <1>11 DEF Kept
  <1>13. backup'[e] = [version |-> v, kept |-> disk[f] # NoFile, was |-> disk[f]]
    BY <1>5 DEF TypeOK
  <1>14. disk[f] # NoFile => store'[<<f, v>>] = disk[f]
    BY <1>3, <1>5 DEF TypeOK
  <1>15. ~evicted /\ v = 1 => disk[f] = original[f]
    <2>1. SUFFICES ASSUME ~evicted, v = 1 PROVE disk[f] = original[f]
      OBVIOUS
    <2>2. ASSUME f \in index.tracked PROVE FALSE
      <3>1. PICK i \in DOMAIN s : s[i].backups[f].version = 1
        BY <1>1, <2>1, <2>2 DEF Kept, FirstKept
      <3> QED
        BY <1>9, <2>1, <3>1 DEF Has
    <2> QED
      BY <1>1, <1>2, <2>2 DEF Editing, Found
  <1>16. f \notin index.tracked => v = 1
    <2>1. SUFFICES ASSUME f \notin index.tracked PROVE v = 1
      OBVIOUS
    <2>2. \A i \in DOMAIN s : ~Has(s[i], f)
      BY <1>1, <1>3, <2>1 DEF Kept, OnlyTracked
    <2>3. Versions(s, f) = {}
      BY <2>2 DEF Versions, Has
    <2> QED
      BY <1>5, <2>3 DEF IsNext
  <1>17. Right(store', evicted, original, f, backup'[e])
    <2>1. /\ backup'[e].was = disk[f] /\ backup'[e].version = v
          /\ backup'[e].kept = (disk[f] # NoFile)
      <3> DEFINE there == disk[f] # NoFile
      <3>1. backup'[e] = [version |-> v, kept |-> there, was |-> disk[f]]
        BY <1>13
      <3> HIDE DEF there
      <3>2. backup'[e].kept = there /\ backup'[e].was = disk[f] /\ backup'[e].version = v
        BY <3>1
      <3> QED
        BY <3>2 DEF there
    <2>2. ~evicted /\ v = 1 => backup'[e].was = original[f]
      BY <1>15, <2>1
    <2>3. backup'[e].was = IF backup'[e].kept THEN store'[<<f, v>>] ELSE NoFile
      BY <1>14, <2>1
    <2> QED
      BY <2>1, <2>2, <2>3 DEF Right
  <1>18. stage'[e] = "copied" /\ \A d \in Editors \ {e} : stage'[d] = "idle"
    BY <1>1, <1>2 DEF Copy, TypeOK, Editing, OneEditor
  <1>19. ASSUME NEW d \in Editors PROVE (Fresh(d) /\ Found(d) /\ Recorded(d))'
    <2>1. CASE d # e
      BY <1>18, <2>1 DEF Fresh, Found, Recorded
    <2>2. CASE d = e
      <3>1. Fresh(e)' /\ Found(e)'
        BY <1>2, <1>4, <1>18 DEF Fresh, Found
      <3>2. backup'[e].version = v
        BY <1>13
      <3>3. Recorded(e)'
        BY <1>2, <1>7, <1>16, <1>17, <3>2 DEF Recorded
      <3> QED
        BY <2>2, <3>1, <3>3
    <2> QED
      BY <2>1, <2>2
  <1>20. OneEditor'
    BY <1>18 DEF OneEditor
  <1> QED
    BY <1>1, <1>2, <1>12, <1>19, <1>20 DEF Editing

LEMMA CalmSave ==
  ASSUME TypeOK, CalmInv, NEW e \in Editors, Save(e)
  PROVE  CalmInv'
  <1> SUFFICES ASSUME calm' PROVE (Editing /\ Kept /\ todo \subseteq index.tracked)'
    BY DEF CalmInv
  <1> DEFINE f == file[e]
             b == backup[e]
             s == index.snapshots
             all == Attached(s, MessageOf(e), f, b)
             new == Newest(all)
  <1>1. calm /\ Editing /\ Kept /\ todo \subseteq index.tracked
    BY DEF Save, CalmInv
  <1>2. /\ stage[e] = "copied" /\ Tracked(e)
        /\ UNCHANGED <<disk, store, file, todo, original>>
    BY DEF Save, rewind
  <1>3. loaded[e] = index /\ ~AlreadyTracked(s, f) /\ Recorded(e)
    BY <1>1, <1>2 DEF Editing, Fresh
  <1>4. /\ index' = [snapshots |-> new, tracked |-> index.tracked \cup {f}]
        /\ evicted' = (evicted \/ Len(all) > MaxSnapshots)
    BY <1>3 DEF Save
  <1>5. f \in Files /\ b \in Backup /\ MessageOf(e) \in Nat /\ s \in Seq(Snapshot)
    BY <1>2 DEF TypeOK, MessageOf, Index
  <1>6. IsAttached(all, s, f, b)
    BY <1>5, AttachedFacts DEF TypeOK
  <1>7. /\ OnlyTracked(s, index.tracked) /\ AllRight(store, evicted, original, s)
        /\ ~evicted => FirstKept(s, index.tracked)
    BY <1>1 DEF Kept
  <1>8. /\ Right(store, evicted, original, f, b)
        /\ f \notin index.tracked => b.version = 1
    BY <1>2, <1>3 DEF Recorded
  <1>9. index.tracked \in SUBSET Files /\ evicted \in BOOLEAN
    BY DEF TypeOK, Index
  <1> HIDE DEF f, b, s, all, new
  <1>10. /\ OnlyTracked(all, index.tracked \cup {f})
         /\ AllRight(store, evicted, original, all)
    BY <1>5, <1>6, <1>7, <1>8, AttachedIsRight
  <1>11. ~evicted => FirstKept(all, index.tracked \cup {f})
    BY <1>3, <1>5, <1>6, <1>7, <1>8, <1>9, AttachedKeepsFirst
  <1>12. IsNewest(new, all) /\ all \in Seq(Snapshot)
    BY <1>6, NewestFacts DEF IsAttached, new
  <1>13. evicted' \in BOOLEAN /\ (evicted => evicted')
    BY <1>4, <1>9
  <1>14. /\ OnlyTracked(new, index.tracked \cup {f})
         /\ AllRight(store, evicted', original, new)
    BY <1>9, <1>10, <1>12, <1>13, NewestKeeps
  <1>15. ~evicted' => FirstKept(new, index.tracked \cup {f})
    BY <1>4, <1>11 DEF new, Newest
  <1>16. index'.snapshots = new /\ index'.tracked = index.tracked \cup {f}
    BY <1>4
  <1>17. Kept'
    BY <1>2, <1>14, <1>15, <1>16 DEF Kept
  <1>18. \A d \in Editors : stage'[d] = IF d = e THEN "tracked" ELSE stage[d]
    BY <1>2 DEF Tracked, TypeOK
  <1>19. \A d \in Editors \ {e} : stage'[d] = "idle"
    BY <1>1, <1>2, <1>18 DEF Editing, OneEditor
  <1>20. \A d \in Editors : stage'[d] \notin {"loaded", "copied"}
    BY <1>18, <1>19
  <1>21. OneEditor'
    BY <1>19 DEF OneEditor
  <1>22. Editing'
    BY <1>20, <1>21 DEF Editing, Fresh, Found, Recorded
  <1> QED
    BY <1>1, <1>2, <1>16, <1>17, <1>22

LEMMA CalmStep == TypeOK /\ CalmInv /\ [Next]_vars => CalmInv'
  <1> SUFFICES ASSUME TypeOK, CalmInv, [Next]_vars PROVE CalmInv'
    OBVIOUS
  <1>1. ASSUME NEW e \in Editors, TrackFails(e)
        PROVE  CalmInv'
    BY <1>1 DEF TrackFails, CalmInv
  <1>2. ASSUME NEW e \in Editors, Write(e) \/ GivesUp(e)
        PROVE  CalmInv'
    <2> SUFFICES ASSUME calm' PROVE (Editing /\ Kept /\ todo \subseteq index.tracked)'
      BY DEF CalmInv
    <2>1. /\ stage[e] = "tracked" /\ stage' = [stage EXCEPT ![e] = "idle"]
          /\ UNCHANGED <<store, index, todo, evicted, original, calm>>
      BY <1>2 DEF Write, GivesUp, Leave, rewind
    <2>2. Editing /\ Kept /\ todo \subseteq index.tracked
      BY <2>1 DEF CalmInv
    <2>3. \A d \in Editors : stage'[d] = "idle"
      BY <2>1, <2>2 DEF TypeOK, Editing, OneEditor
    <2>4. Editing'
      BY <2>3 DEF Editing, OneEditor, Fresh, Found, Recorded
    <2> QED
      BY <2>1, <2>2, <2>4 DEF Kept
  <1>3. CASE Rewind \/ NextMessage \/ UNCHANGED vars
    <2> SUFFICES ASSUME calm' PROVE (Editing /\ Kept /\ todo \subseteq index.tracked)'
      BY DEF CalmInv
    <2>1. UNCHANGED <<store, index, stage, file, loaded, backup, evicted, original, calm>>
      BY <1>3 DEF Rewind, RewindFind, RewindLoad, Restore, RestoreFrom, RewindFails,
                  NextMessage, vars, edit
    <2>2. Editing /\ Kept /\ todo \subseteq index.tracked
      BY <2>1 DEF CalmInv
    <2>3. todo' \subseteq index.tracked
      BY <1>3, <2>2 DEF Rewind, RewindFind, RewindLoad, Restore, RestoreFrom, RewindFails,
                        NextMessage, vars, rewind
    <2>4. \A g \in Files \ index.tracked : disk'[g] = disk[g]
      <3>1. ASSUME NEW f \in Files, Restore(f)
            PROVE  \A g \in Files \ index.tracked : disk'[g] = disk[g]
        BY <2>2, <3>1 DEF Restore, RestoreFrom, TypeOK
      <3> QED
        BY <1>3, <3>1 DEF Rewind, RewindFind, RewindLoad, RewindFails, NextMessage, vars
    <2>5. ASSUME NEW d \in Editors PROVE (Fresh(d) /\ Found(d) /\ Recorded(d))'
      <3>1. Fresh(d) /\ Found(d) /\ Recorded(d)
        BY <2>2 DEF Editing
      <3>2. Found(d)'
        <4>1. SUFFICES ASSUME stage[d] = "loaded", file[d] \notin index.tracked
                       PROVE  original[file[d]] = disk'[file[d]]
          BY <2>1 DEF Found
        <4>2. file[d] \in Files
          BY <4>1 DEF TypeOK
        <4> QED
          BY <2>4, <3>1, <4>1, <4>2 DEF Found
      <3> QED
        BY <2>1, <3>1, <3>2 DEF Fresh, Recorded
    <2>6. Editing'
      BY <2>1, <2>2, <2>5 DEF Editing, OneEditor
    <2> QED
      BY <2>1, <2>2, <2>3, <2>6 DEF Kept
  <1>4. ASSUME NEW f \in Files, Outside(f)
        PROVE  CalmInv'
    <2> SUFFICES ASSUME calm' PROVE (Editing /\ Kept /\ todo \subseteq index.tracked)'
      BY DEF CalmInv
    <2>1. /\ \A d \in Editors : stage'[d] = "idle"
          /\ calm /\ UNCHANGED <<store, index, evicted, original, todo>>
      BY <1>4 DEF Outside, edit, rewind, Quiet
    <2>2. Kept /\ todo \subseteq index.tracked
      BY <2>1 DEF CalmInv
    <2>3. Editing'
      BY <2>1 DEF Editing, OneEditor, Fresh, Found, Recorded
    <2> QED
      BY <2>1, <2>2, <2>3 DEF Kept
  <1>5. ASSUME Crash
        PROVE  CalmInv'
    <2> SUFFICES ASSUME calm' PROVE (Editing /\ Kept /\ todo \subseteq index.tracked)'
      BY DEF CalmInv
    <2>1. /\ \A d \in Editors : stage'[d] = "idle"
          /\ calm /\ UNCHANGED <<store, index, evicted, original>> /\ todo' = {}
      BY <1>5 DEF Crash
    <2>2. Kept
      BY <2>1 DEF CalmInv
    <2>3. Editing'
      BY <2>1 DEF Editing, OneEditor, Fresh, Found, Recorded
    <2> QED
      BY <2>1, <2>2, <2>3 DEF Kept
  <1> QED
    BY <1>1, <1>2, <1>3, <1>4, <1>5, CalmLoad, CalmCopy, CalmSave DEF Next, Track

LEMMA CalmHolds == Spec => []CalmInv
  <1>1. Init => CalmInv
    BY DEF Init, CalmInv, Editing, OneEditor, Fresh, Found, Recorded, Kept,
           OnlyTracked, AllRight, FirstKept, EmptyIndex
  <1> QED
    BY <1>1, CalmStep, TypeCorrect, PTL DEF Spec

(* As long as edits do not overlap and are tracked, the records of the     *)
(* retained snapshots hold what the files held, and the first of each file *)
(* what the agents found.                                                  *)
THEOREM BackupsStayTrue == Spec => []BackupsAreWhatTheyWere
  <1>1. CalmInv => BackupsAreWhatTheyWere
    BY DEF CalmInv, Kept, AllRight, Right, FirstKept, BackupsAreWhatTheyWere, IsWhatItWas
  <1> QED
    BY <1>1, CalmHolds, PTL
-----------------------------------------------------------------------------
(* A rewind to the first snapshot, with nothing else at work: what it has  *)
(* looked at is as the agents found it.                                    *)
Undoing ==
  /\ Quiet
  /\ 1 \in DOMAIN index.snapshots /\ target = index.snapshots[1]
  /\ rewinding = "restoring" => base = index.snapshots
  /\ rewinding = "done" => todo = {}
  /\ rewinding # "found" => \A f \in index.tracked \ todo : disk[f] = original[f]
ToStart == rewinding # "idle" /\ alone /\ calm /\ ~evicted /\ toStart
StartInv == ToStart => Undoing

(* The record a rewind to the first snapshot goes by is the file's first.  *)
LEMMA FirstRecord ==
  ASSUME TypeOK, NEW s \in Seq(Snapshot), 1 \in DOMAIN s, target = s[1], base = s,
         VersionsGrow(s), NEW T, FirstKept(s, T), NEW f \in Files, f \in T,
         NEW record \in Resolved(f)
  PROVE  \E k \in DOMAIN s : record = s[k].backups[f] /\ record.version = 1
  <1>1. PICK i \in DOMAIN s : s[i].backups[f].version = 1
    BY DEF FirstKept
  <1>2. DOMAIN s = 1 .. Len(s)
    OBVIOUS
  <1>3. CASE Has(target, f)
    <2>1. record = s[1].backups[f]
      BY <1>3 DEF Resolved
    <2>2. s[1].backups[f].version \in Nat \ {0}
      BY <1>2, <1>3, VersionType DEF Has
    <2>3. s[i].backups[f].version = 1 /\ Has(s[i], f) /\ Has(s[1], f)
      BY <1>1, <1>3 DEF Has
    <2>4. 1 < i => s[1].backups[f].version < s[i].backups[f].version
      BY <2>3 DEF VersionsGrow
    <2>5. i = 1
      BY <1>2, <2>2, <2>3, <2>4
    <2> QED
      BY <1>1, <2>1, <2>5
  <1>4. CASE ~Has(target, f)
    <2>1. i \in FirstVersions(f)
      BY <1>1 DEF FirstVersions
    <2>2. record \in {base[j].backups[f] : j \in
            {h \in FirstVersions(f) : \A l \in FirstVersions(f) : h <= l}}
      BY <1>4, <2>1 DEF Resolved
    <2>3. PICK j \in FirstVersions(f) : record = base[j].backups[f]
      BY <2>2
    <2> QED
      BY <2>3 DEF FirstVersions
  <1> QED
    BY <1>3, <1>4

LEMMA StartRestore ==
  ASSUME TypeOK, CalmInv, RecordsHaveTheirBackups, BackupsAreNotShared, StartInv,
         NEW f \in Files, Restore(f)
  PROVE  StartInv'
  <1> SUFFICES ASSUME ToStart' PROVE Undoing'
    BY DEF StartInv
  <1> DEFINE s == index.snapshots
  <1>1. PICK record \in Resolved(f) : RestoreFrom(f, record)
    BY DEF Restore
  <1>2. /\ rewinding = "restoring" /\ f \in todo
        /\ disk' = [disk EXCEPT ![f] = Restored(f, record)]
        /\ todo' = todo \ {f}
        /\ UNCHANGED <<store, index, stage, target, calm, evicted, original, alone, toStart>>
    BY <1>1 DEF RestoreFrom, Restore, edit
  <1>3. ToStart /\ Undoing
    BY <1>2 DEF ToStart, StartInv
  <1>4. calm /\ ~evicted /\ Kept /\ todo \subseteq index.tracked
    BY <1>3 DEF ToStart, CalmInv
  <1>5. s \in Seq(Snapshot)
    BY DEF TypeOK, Index
  <1>6. 1 \in DOMAIN s /\ target = s[1] /\ base = s /\ VersionsGrow(s)
    BY <1>2, <1>3 DEF Undoing, BackupsAreNotShared
  <1>7. FirstKept(s, index.tracked) /\ f \in index.tracked
    BY <1>2, <1>4 DEF Kept
  <1>8. PICK k \in DOMAIN s : record = s[k].backups[f] /\ record.version = 1
    <2> HIDE DEF s
    <2> QED
      BY <1>5, <1>6, <1>7, FirstRecord
  <1>9. Right(store, evicted, original, f, record)
    BY <1>4, <1>8 DEF Kept, AllRight, Has
  <1>10. record.kept => store[<<f, record.version>>] # NoFile
    BY <1>8 DEF RecordsHaveTheirBackups, HasItsBackup
  <1>11. record # NoBackup
    BY <1>8 DEF NoBackup
  <1>12. Restored(f, record) = original[f]
    BY <1>4, <1>8, <1>9, <1>10, <1>11 DEF Restored, Right
  <1>13. disk'[f] = original[f] /\ \A g \in Files \ {f} : disk'[g] = disk[g]
    BY <1>2, <1>12 DEF TypeOK
  <1>14. \A g \in index.tracked \ todo : disk[g] = original[g]
    BY <1>2, <1>3 DEF Undoing
  <1>15. \A g \in index.tracked \ todo' : disk'[g] = original[g]
    BY <1>2, <1>13, <1>14 DEF TypeOK, Index
  <1>16. /\ rewinding' = "restoring" => base' = base
         /\ rewinding' = "done" => todo' = {}
    BY <1>1, <1>2 DEF RestoreFrom
  <1>17. Quiet'
    BY <1>2, <1>3 DEF Undoing, Quiet
  <1> QED
    BY <1>2, <1>6, <1>15, <1>16, <1>17 DEF Undoing

LEMMA StartStep ==
  TypeOK /\ CalmInv /\ RecordsHaveTheirBackups /\ BackupsAreNotShared
    /\ StartInv /\ [Next]_vars => StartInv'
  <1> SUFFICES ASSUME TypeOK, CalmInv, RecordsHaveTheirBackups, BackupsAreNotShared,
                      StartInv, [Next]_vars, ToStart'
               PROVE  Undoing'
    BY DEF StartInv
  <1>1. ASSUME NEW e \in Editors, Track(e)
        PROVE  FALSE
    <2>1. /\ \A f \in Files : ~Load(e, f)
          /\ ~TrackFails(e)
      BY DEF ToStart, Load, TrackFails
    <2>2. stage[e] # "idle" /\ ToStart
      BY <1>1, <2>1 DEF Track, Copy, Save, Write, GivesUp, Leave, ToStart, rewind, TypeOK
    <2> QED
      BY <2>2 DEF StartInv, Undoing, Quiet
  <1>2. ASSUME NEW i \in DOMAIN index.snapshots, RewindFind(i)
        PROVE  Undoing'
    BY <1>2 DEF RewindFind, ToStart, Undoing, Quiet, edit
  <1>3. CASE RewindLoad
    BY <1>3 DEF RewindLoad, StartInv, ToStart, Undoing, Quiet, edit
  <1>4. ASSUME NEW f \in Files, Restore(f)
        PROVE  Undoing'
    BY <1>4, StartRestore DEF StartInv
  <1>5. ~RewindFails /\ ~Crash /\ \A f \in Files : ~Outside(f)
    BY DEF RewindFails, Crash, Outside, ToStart
  <1>6. CASE NextMessage \/ UNCHANGED vars
    BY <1>6 DEF NextMessage, vars, StartInv, ToStart, Undoing, Quiet, edit, rewind
  <1> QED
    BY <1>1, <1>2, <1>3, <1>4, <1>5, <1>6 DEF Next, Rewind

(* As long as edits do not overlap and are tracked, and no snapshot was    *)
(* dropped, a rewind to the first snapshot that nothing else disturbs      *)
(* leaves every file the agents reached for as they found it.              *)
THEOREM TheFirstSnapshotUndoes == Spec => []TheFirstSnapshotUndoesAll
  <1>1. Init => StartInv
    BY DEF Init, StartInv, ToStart
  <1>2. StartInv => TheFirstSnapshotUndoesAll
    BY DEF StartInv, ToStart, Undoing, TheFirstSnapshotUndoesAll
  <1> QED
    BY <1>1, <1>2, StartStep, TypeCorrect, CalmHolds, RecordsKeepTheirBackups,
       BackupsStayApart, PTL DEF Spec
=============================================================================
