---------------------------- MODULE StateStoreProofs ----------------------------
(***************************************************************************)
(* Proofs about StateStore, for any set of processes and documents and any  *)
(* number of attempts at the lock.                                          *)
(***************************************************************************)
EXTENDS StateStore, TLAPS

\* The specification without fairness: all that safety needs.
SafeSpec == Init /\ [][Next]_vars

\* The disjuncts of Next, one per action, for the case splits below.
LEMMA NextCases ==
    ASSUME Next
    PROVE  \/ \E p \in Proc : \E f \in File, d \in Doc : Call(p, f, d)
           \/ \E p \in Proc : CallRemove(p)
           \/ \E p \in Proc : Step(p)
           \/ \E p \in Proc : Crash(p)
           \/ Flush
           \/ PowerLoss
  BY DEF Next

\* Return resets the fields of one process within their types.
LEMMA ReturnType ==
    ASSUME TypeOK, NEW p \in Proc, NEW r \in {"none", "ok", "err"}, Return(p, r)
    PROVE  /\ pc' \in [Proc -> PC]
           /\ call' \in [Proc -> [file : File, doc : Doc \cup {Absent}]]
           /\ tries' \in [Proc -> 0 .. MaxTries]
           /\ tmp' \in [Proc -> {"none", "empty", "full", "synced"}]
           /\ outcome' \in [Proc -> {"none", "ok", "err"}]
  <1>1. NoCall \in [file : File, doc : Doc \cup {Absent}]
    BY DEF NoCall, File
  <1>2. 0 \in 0 .. MaxTries
    BY StoreAssumption
  <1>3. "idle" \in PC
    BY DEF PC
  <1>4. QED
    BY <1>1, <1>2, <1>3 DEF TypeOK, Return

\* Writing the directory back stores documents, nothing else.
LEMMA WriteBackType ==
    ASSUME TypeOK, WriteBack
    PROVE  durable' \in [File -> Content] /\ durableLock' \in BOOLEAN
  <1>1. \A f \in File : OnDisk(f) \in Content
    BY DEF TypeOK, OnDisk, Content
  <1>2. QED
    BY <1>1 DEF WriteBack

\* One step of a call keeps the types.
LEMMA StepType ==
    ASSUME TypeOK, NEW p \in Proc, Step(p)
    PROVE  TypeOK'
  <1> USE DEF TypeOK, Goto, files, disk
  <1> DEFINE Pcs == [Proc -> PC]
  <1>0. /\ PC = {"idle", "lock", "remove", "rmsync", "rmdone", "create", "write",
                 "sync", "rename", "syncdir", "unlock"}
        /\ outcome[p] \in {"none", "ok", "err"}
        /\ call[p].file \in File /\ call[p].doc \in Doc \cup {Absent}
        /\ "daemon.status" \in File
    BY DEF PC, Critical, File
  <1>1. CASE AcquireLock(p)
    BY <1>0, <1>1 DEF AcquireLock
  <1>2. CASE LockBusy(p)
    <2>1. tries[p] + 1 \in 0 .. MaxTries
      BY <1>2, StoreAssumption DEF LockBusy
    <2>2. QED
      BY <1>2, <2>1 DEF LockBusy
  <1>3. CASE LockTimeout(p)
    BY <1>3, ReturnType DEF LockTimeout
  <1>4. CASE LockError(p)
    BY <1>4, ReturnType DEF LockError
  <1>5. CASE CreateTmp(p)
    BY <1>0, <1>5 DEF CreateTmp
  <1>6. CASE WriteTmp(p)
    BY <1>0, <1>6 DEF WriteTmp
  <1>7. CASE SyncTmp(p)
    BY <1>0, <1>7 DEF SyncTmp
  <1>8. CASE Rename(p)
    <2>1. TmpContent(p) \in Content
      BY <1>0 DEF TmpContent, Content
    <2>2. QED
      BY <1>0, <1>8, <2>1 DEF Rename
  <1>9. CASE SyncDir(p)
    <2>1. durable' \in [File -> Content] /\ durableLock' \in BOOLEAN
      BY <1>9, WriteBackType DEF SyncDir
    <2>2. QED
      BY <1>0, <1>9, <2>1 DEF SyncDir
  <1>10. CASE IOError(p)
    BY <1>0, <1>10 DEF IOError
  <1>11. CASE DropLock(p)
    BY <1>0, <1>11, ReturnType DEF DropLock
  <1>12. CASE RemoveMarker(p)
    BY <1>0, <1>12 DEF RemoveMarker, Content
  <1>13. CASE RemoveSync(p)
    <2>1. durable' \in [File -> Content] /\ durableLock' \in BOOLEAN
      BY <1>13, WriteBackType DEF RemoveSync
    <2>2. QED
      BY <1>0, <1>13, <2>1 DEF RemoveSync
  <1>14. CASE RemoveMissing(p)
    BY <1>0, <1>14 DEF RemoveMissing
  <1>15. CASE RemoveError(p)
    BY <1>0, <1>15 DEF RemoveError
  <1>16. CASE RemoveReturn(p)
    BY <1>0, <1>16, ReturnType DEF RemoveReturn
  <1>17. QED
    BY <1>1, <1>2, <1>3, <1>4, <1>5, <1>6, <1>7, <1>8, <1>9, <1>10, <1>11,
       <1>12, <1>13, <1>14, <1>15, <1>16 DEF Step

\* Every step keeps the types.
LEMMA NextType ==
    ASSUME TypeOK, [Next]_vars
    PROVE  TypeOK'
  <1> USE DEF files, disk
  <1>0. /\ "idle" \in PC /\ "lock" \in PC /\ "remove" \in PC
        /\ NoCall \in [file : File, doc : Doc \cup {Absent}]
        /\ 0 \in 0 .. MaxTries
        /\ "daemon.status" \in File
    BY StoreAssumption DEF PC, NoCall, File
  <1>1. ASSUME NEW p \in Proc, NEW f \in File, NEW d \in Doc, Call(p, f, d)
        PROVE  TypeOK'
    BY <1>0, <1>1 DEF TypeOK, Call, Goto
  <1>2. ASSUME NEW p \in Proc, CallRemove(p)
        PROVE  TypeOK'
    BY <1>0, <1>2 DEF TypeOK, CallRemove, Goto
  <1>3. ASSUME NEW p \in Proc, Step(p)
        PROVE  TypeOK'
    BY <1>3, StepType
  <1>4. ASSUME NEW p \in Proc, Crash(p)
        PROVE  TypeOK'
    <2>1. lock' \in Proc \cup {Free, Orphan}
      BY <1>4 DEF Crash, TypeOK
    <2>2. QED
      BY <1>4, <2>1, ReturnType DEF Crash, TypeOK
  <1>5. CASE Flush
    <2>1. durable' \in [File -> Content] /\ durableLock' \in BOOLEAN
      BY <1>5, WriteBackType DEF Flush
    <2>2. QED
      BY <1>5, <2>1 DEF Flush, TypeOK
  <1>6. CASE PowerLoss
    BY <1>0, <1>6 DEF PowerLoss, TypeOK
  <1>7. CASE UNCHANGED vars
    BY <1>7 DEF TypeOK, vars
  <1>8. QED
    BY <1>1, <1>2, <1>3, <1>4, <1>5, <1>6, <1>7, NextCases

\* Initially every variable has its type.
LEMMA InitType == Init => TypeOK
  <1>1. 0 \in 0 .. MaxTries
    BY StoreAssumption
  <1>2. NoCall \in [file : File, doc : Doc \cup {Absent}]
    BY DEF NoCall, File
  <1>3. SUFFICES ASSUME Init PROVE TypeOK
    OBVIOUS
  <1>4. hard \in [File -> BOOLEAN] /\ durableLock \in BOOLEAN
    BY <1>3 DEF Init
  <1>5. QED
    BY <1>1, <1>2, <1>3, <1>4 DEF Init, TypeOK, Content, PC

\* The state of the store is always well-typed: in particular the wait for the
\* lock never counts beyond its bound (acquire_lock).
THEOREM StoreTypeCorrect == SafeSpec => []TypeOK
  <1>1. TypeOK /\ [Next]_vars => TypeOK'
    BY NextType
  <1>2. QED
    BY InitType, <1>1, PTL DEF SafeSpec

-----------------------------------------------------------------------------
(* Mutual exclusion *)

\* LockHolderAlone is inductive relative to the types: a process enters the
\* critical points only by creating the file, and leaves them only by giving it up.
LEMMA NextLock ==
    ASSUME TypeOK, LockHolderAlone, [Next]_vars
    PROVE  LockHolderAlone'
  <1> USE StoreAssumption DEF LockHolderAlone, Critical, files, disk
  <1>1. ASSUME NEW p \in Proc, NEW f \in File, NEW d \in Doc, Call(p, f, d)
        PROVE  LockHolderAlone'
    BY <1>1 DEF TypeOK, Call, Goto
  <1>2. ASSUME NEW p \in Proc, CallRemove(p)
        PROVE  LockHolderAlone'
    BY <1>2 DEF TypeOK, CallRemove, Goto
  <1>3. ASSUME NEW p \in Proc, Step(p)
        PROVE  LockHolderAlone'
    <2> USE DEF TypeOK, Goto
    <2>1. CASE AcquireLock(p)
      BY <2>1 DEF AcquireLock
    <2>2. CASE LockBusy(p)
      BY <2>2 DEF LockBusy
    <2>3. CASE LockTimeout(p)
      BY <2>3 DEF LockTimeout, Return
    <2>4. CASE LockError(p)
      BY <2>4 DEF LockError, Return
    <2>5. CASE CreateTmp(p)
      BY <2>5 DEF CreateTmp
    <2>6. CASE WriteTmp(p)
      BY <2>6 DEF WriteTmp
    <2>7. CASE SyncTmp(p)
      BY <2>7 DEF SyncTmp
    <2>8. CASE Rename(p)
      BY <2>8 DEF Rename
    <2>9. CASE SyncDir(p)
      BY <2>9 DEF SyncDir
    <2>10. CASE IOError(p)
      BY <2>10 DEF IOError
    <2>11. CASE DropLock(p)
      BY <2>11 DEF DropLock, Return
    <2>12. CASE RemoveMarker(p)
      BY <2>12 DEF RemoveMarker
    <2>13. CASE RemoveSync(p)
      BY <2>13 DEF RemoveSync
    <2>14. CASE RemoveMissing(p)
      BY <2>14 DEF RemoveMissing
    <2>15. CASE RemoveError(p)
      BY <2>15 DEF RemoveError
    <2>16. CASE RemoveReturn(p)
      BY <2>16 DEF RemoveReturn, Return
    <2>17. QED
      BY <1>3, <2>1, <2>2, <2>3, <2>4, <2>5, <2>6, <2>7, <2>8, <2>9, <2>10,
         <2>11, <2>12, <2>13, <2>14, <2>15, <2>16 DEF Step
  <1>4. ASSUME NEW p \in Proc, Crash(p)
        PROVE  LockHolderAlone'
    BY <1>4 DEF TypeOK, Crash, Return
  <1>5. CASE Flush
    BY <1>5 DEF Flush
  <1>6. CASE PowerLoss
    BY <1>6 DEF PowerLoss
  <1>7. CASE UNCHANGED vars
    BY <1>7 DEF vars
  <1>8. QED
    BY <1>1, <1>2, <1>3, <1>4, <1>5, <1>6, <1>7, NextCases

\* No two processes are ever inside the guarded part of write_runtime or
\* write_daemon_marker, whatever is killed, fails or loses power.
THEOREM MutualExclusion == SafeSpec => []LockHolderAlone
  <1>1. Init => LockHolderAlone
    BY StoreAssumption DEF Init, LockHolderAlone, Critical
  <1>2. TypeOK /\ LockHolderAlone /\ [Next]_vars => LockHolderAlone'
    BY NextLock
  <1>3. QED
    BY <1>1, <1>2, StoreTypeCorrect, PTL DEF SafeSpec

-----------------------------------------------------------------------------
(* Complete documents and durable answers *)

\* A writer's call names a document of its file, a removal names no document.
CallShape ==
    \A p \in Proc :
        /\ pc[p] \in {"lock"} \cup Critical => call[p].doc \in DocOf(call[p].file)
        /\ pc[p] \in {"remove", "rmsync", "rmdone"} =>
              call[p].file = "daemon.status" /\ call[p].doc = Absent

\* Only a temporary file whose data is on disk is ever renamed.
SyncedBeforeRename ==
    /\ \A p \in Proc : pc[p] = "rename" => tmp[p] = "synced"
    /\ \A f \in File : hard[f] = TRUE

\* What the file of the call of p may hold once p has renamed.
Kept(p) == {call[p].doc} \cup (IF call[p].file = "daemon.status" THEN {Absent} ELSE {})

\* Until it drops the guard, the document of a writer stays where it put it.
RenamedIsVisible ==
    \A p \in Proc : pc[p] = "syncdir" => visible[call[p].file] \in Kept(p)

\* A call that is about to return knows its answer.
OutcomeKnown ==
    \A p \in Proc : pc[p] \in {"unlock", "rmdone"} => outcome[p] \in {"ok", "err"}

\* The inductive invariant behind CompleteDocuments and OkMeansDurable.  Types
\* and mutual exclusion alone do not suffice: that nothing torn is published
\* rests on the sync before the rename, and that the document of an Ok answer is
\* still there rests on nobody else renaming while the guard is held.
StoreInv ==
    /\ TypeOK
    /\ LockHolderAlone
    /\ CallShape
    /\ SyncedBeforeRename
    /\ CompleteDocuments
    /\ RenamedIsVisible
    /\ OkMeansDurable
    /\ OutcomeKnown

\* At most one process is at a critical point.
LEMMA OneCritical ==
    ASSUME LockHolderAlone, NEW p \in Proc, NEW q \in Proc,
           pc[p] \in Critical, pc[q] \in Critical
    PROVE  p = q
  BY DEF LockHolderAlone

\* When all visible data is on disk, writing back stores what readers see.
LEMMA WriteBackStoresVisible ==
    ASSUME TypeOK, SyncedBeforeRename, WriteBack
    PROVE  durable' = visible
  BY DEF TypeOK, SyncedBeforeRename, WriteBack, OnDisk

\* The part of StoreInv that is about documents.
DocumentInv ==
    /\ CallShape
    /\ SyncedBeforeRename
    /\ CompleteDocuments
    /\ RenamedIsVisible
    /\ OkMeansDurable
    /\ OutcomeKnown

\* One step of a call keeps the documents whole.
LEMMA StepDocuments ==
    ASSUME StoreInv, NEW p \in Proc, Step(p)
    PROVE  DocumentInv'
  <1> USE DEF StoreInv, DocumentInv, CallShape, SyncedBeforeRename, CompleteDocuments,
              RenamedIsVisible, OkMeansDurable, OutcomeKnown, Kept, Critical, Goto,
              files, disk, TypeOK
  <1>1. CASE AcquireLock(p)
    BY <1>1 DEF AcquireLock
  <1>2. CASE LockBusy(p)
    BY <1>2 DEF LockBusy
  <1>3. CASE LockTimeout(p)
    BY <1>3 DEF LockTimeout, Return
  <1>4. CASE LockError(p)
    BY <1>4 DEF LockError, Return
  <1>5. CASE CreateTmp(p)
    BY <1>5 DEF CreateTmp
  <1>6. CASE WriteTmp(p)
    BY <1>6 DEF WriteTmp
  <1>7. CASE SyncTmp(p)
    BY <1>7 DEF SyncTmp
  <1>8. CASE Rename(p)
    <2>1. TmpContent(p) = call[p].doc /\ tmp[p] = "synced"
      BY <1>8 DEF Rename, TmpContent
    <2>2. call[p].file \in File /\ call[p].doc \in DocOf(call[p].file)
      BY <1>8 DEF Rename
    <2>3. \A q \in Proc : q # p => pc[q] \notin Critical
      BY <1>8, OneCritical DEF Rename
    <2>4. visible' = [visible EXCEPT ![call[p].file] = call[p].doc]
      BY <1>8, <2>1 DEF Rename
    <2>5. \A f \in File : hard'[f] = TRUE
      BY <1>8, <2>1 DEF Rename
    <2>6. SyncedBeforeRename'
      BY <1>8, <2>5 DEF Rename
    <2>7. CompleteDocuments'
      BY <1>8, <2>2, <2>4 DEF Rename
    <2>8. RenamedIsVisible' /\ OkMeansDurable'
      BY <1>8, <2>2, <2>3, <2>4 DEF Rename
    <2>9. CallShape' /\ OutcomeKnown'
      BY <1>8 DEF Rename
    <2>10. QED
      BY <2>6, <2>7, <2>8, <2>9
  <1>9. CASE SyncDir(p)
    <2>1. durable' = visible /\ visible' = visible
      BY <1>9, WriteBackStoresVisible DEF SyncDir
    <2>2. OkMeansDurable'
      BY <1>9, <2>1 DEF SyncDir
    <2>3. CompleteDocuments'
      BY <1>9, <2>1 DEF SyncDir
    <2>4. CallShape' /\ SyncedBeforeRename' /\ RenamedIsVisible' /\ OutcomeKnown'
      BY <1>9, <2>1 DEF SyncDir
    <2>5. QED
      BY <2>2, <2>3, <2>4
  <1>10. CASE IOError(p)
    BY <1>10 DEF IOError
  <1>11. CASE DropLock(p)
    BY <1>11 DEF DropLock, Return
  <1>12. CASE RemoveMarker(p)
    BY <1>12 DEF RemoveMarker
  <1>13. CASE RemoveSync(p)
    <2>1. durable' = visible /\ visible' = visible
      BY <1>13, WriteBackStoresVisible DEF RemoveSync
    <2>2. OkMeansDurable'
      BY <1>13, <2>1 DEF RemoveSync
    <2>3. CompleteDocuments'
      BY <1>13, <2>1 DEF RemoveSync
    <2>4. CallShape' /\ SyncedBeforeRename' /\ RenamedIsVisible' /\ OutcomeKnown'
      BY <1>13, <2>1 DEF RemoveSync
    <2>5. QED
      BY <2>2, <2>3, <2>4
  <1>14. CASE RemoveMissing(p)
    BY <1>14 DEF RemoveMissing
  <1>15. CASE RemoveError(p)
    BY <1>15 DEF RemoveError
  <1>16. CASE RemoveReturn(p)
    BY <1>16 DEF RemoveReturn, Return
  <1>17. QED
    BY <1>1, <1>2, <1>3, <1>4, <1>5, <1>6, <1>7, <1>8, <1>9, <1>10, <1>11, <1>12, <1>13, <1>14, <1>15, <1>16 DEF Step

\* Every step preserves StoreInv.
LEMMA NextStoreInv ==
    ASSUME StoreInv, [Next]_vars
    PROVE  StoreInv'
  <1>1. TypeOK' /\ LockHolderAlone'
    BY NextType, NextLock DEF StoreInv
  <1>2. DocumentInv'
    <2> USE DEF StoreInv, DocumentInv, CallShape, SyncedBeforeRename, CompleteDocuments,
                RenamedIsVisible, OkMeansDurable, OutcomeKnown, Kept, Critical, Goto,
                files, disk, TypeOK
    <2>1. ASSUME NEW p \in Proc, NEW f \in File, NEW d \in Doc, Call(p, f, d)
          PROVE  DocumentInv'
      BY <2>1 DEF Call
    <2>2. ASSUME NEW p \in Proc, CallRemove(p)
          PROVE  DocumentInv'
      BY <2>2 DEF CallRemove
    <2>3. ASSUME NEW p \in Proc, Step(p)
          PROVE  DocumentInv'
      BY <2>3, StepDocuments
    <2>4. ASSUME NEW p \in Proc, Crash(p)
          PROVE  DocumentInv'
      BY <2>4 DEF Crash, Return
    <2>5. CASE Flush
      <3>1. durable' = visible /\ visible' = visible
        BY <2>5, WriteBackStoresVisible DEF Flush
      <3>2. QED
        BY <2>5, <3>1 DEF Flush
    <2>6. CASE PowerLoss
      BY <2>6 DEF PowerLoss
    <2>7. CASE UNCHANGED vars
      BY <2>7 DEF vars
    <2>8. QED
      BY <2>1, <2>2, <2>3, <2>4, <2>5, <2>6, <2>7, NextCases
  <1>3. QED
    BY <1>1, <1>2 DEF StoreInv, DocumentInv

\* Before anything happens no lock, no call and no file exists.
LEMMA InitStoreInv == Init => StoreInv
  <1>1. Init => TypeOK
    BY InitType
  <1>2. SUFFICES ASSUME Init PROVE StoreInv
    OBVIOUS
  <1>3. LockHolderAlone
    BY <1>2, StoreAssumption DEF Init, LockHolderAlone, Critical
  <1>4. SyncedBeforeRename
    BY <1>2 DEF Init, SyncedBeforeRename
  <1>5. CompleteDocuments
    BY <1>2 DEF Init, CompleteDocuments
  <1>6. CallShape /\ RenamedIsVisible /\ OkMeansDurable /\ OutcomeKnown
    BY <1>2 DEF Init, CallShape, RenamedIsVisible, OkMeansDurable, OutcomeKnown, Critical
  <1>7. QED
    BY <1>1, <1>2, <1>3, <1>4, <1>5, <1>6 DEF StoreInv

\* StoreInv holds in every reachable state.
LEMMA StoreInvariant == SafeSpec => []StoreInv
  <1>1. StoreInv /\ [Next]_vars => StoreInv'
    BY NextStoreInv
  <1>2. QED
    BY InitStoreInv, <1>1, PTL DEF SafeSpec

\* read_runtime never meets a half-written runtime.state that write_runtime
\* left there, not even after a crash or a power loss in the middle of a write.
THEOREM NoTornDocument == SafeSpec => []CompleteDocuments
  <1>1. StoreInv => CompleteDocuments
    BY DEF StoreInv
  <1>2. QED
    BY StoreInvariant, <1>1, PTL

\* An Ok of write_runtime is a promise about the disk, not about the page cache.
THEOREM OkIsDurable == SafeSpec => []OkMeansDurable
  <1>1. StoreInv => OkMeansDurable
    BY DEF StoreInv
  <1>2. QED
    BY StoreInvariant, <1>1, PTL

\* Once a lock file has lost its creator, only a power loss can end the silence:
\* no step of any process removes it or publishes a new runtime.state.
THEOREM OrphanSilence == SafeSpec => OrphanStopsPublishing
  <1> DEFINE Silent == lock = Orphan /\ ~PowerLoss =>
                         /\ lock' = Orphan
                         /\ visible'["runtime.state"] = visible["runtime.state"]
  <1>1. ASSUME TypeOK, LockHolderAlone, Next
        PROVE  Silent
    <2> SUFFICES ASSUME lock = Orphan, ~PowerLoss
                 PROVE  /\ lock' = Orphan
                        /\ visible'["runtime.state"] = visible["runtime.state"]
      OBVIOUS
    <2>1. \A p \in Proc : pc[p] \notin Critical
      BY <1>1, StoreAssumption DEF LockHolderAlone
    <2> USE StoreAssumption DEF files, disk
    <2>2. ASSUME NEW p \in Proc, Step(p)
          PROVE  lock' = Orphan /\ visible'["runtime.state"] = visible["runtime.state"]
      <3>1. ~(CreateTmp(p) \/ WriteTmp(p) \/ SyncTmp(p) \/ Rename(p) \/ SyncDir(p)
               \/ IOError(p) \/ DropLock(p))
        BY <2>1 DEF CreateTmp, WriteTmp, SyncTmp, Rename, SyncDir, IOError, DropLock,
                    Goto, Critical
      <3>2. ~AcquireLock(p)
        BY DEF AcquireLock
      <3>3. CASE RemoveMarker(p)
        BY <3>3, <1>1 DEF RemoveMarker, TypeOK
      <3>4. CASE LockBusy(p) \/ LockTimeout(p) \/ LockError(p) \/ RemoveSync(p)
                   \/ RemoveMissing(p) \/ RemoveError(p) \/ RemoveReturn(p)
        BY <3>4 DEF LockBusy, LockTimeout, LockError, RemoveSync, RemoveMissing,
                    RemoveError, RemoveReturn
      <3>5. QED
        BY <2>2, <3>1, <3>2, <3>3, <3>4 DEF Step
    <2>3. ASSUME NEW p \in Proc, Crash(p)
          PROVE  lock' = Orphan /\ visible'["runtime.state"] = visible["runtime.state"]
      BY <2>3 DEF Crash
    <2>4. QED
      BY <1>1, <2>2, <2>3, NextCases DEF Call, CallRemove, Flush
  <1>2. TypeOK /\ LockHolderAlone /\ [Next]_vars => [Silent]_vars
    BY <1>1
  <1>3. QED
    BY <1>2, StoreTypeCorrect, MutualExclusion, PTL DEF SafeSpec, OrphanStopsPublishing

-----------------------------------------------------------------------------
(* Refinement *)

\* The abstract phase and result of every process, as AtomicStore sees them.
Phases == [p \in Proc |-> PhaseOf(p)]
Results == [p \in Proc |-> IF pc[p] = "idle" THEN outcome[p] ELSE "none"]

\* The phase of a process that moved, and of the ones that did not.
LEMMA PhaseMoves ==
    ASSUME TypeOK, TypeOK', NEW p \in Proc,
           \A q \in Proc \ {p} : pc'[q] = pc[q] /\ outcome'[q] = outcome[q]
    PROVE  /\ Phases' = [Phases EXCEPT ![p] = PhaseOf(p)']
           /\ Results' = [Results EXCEPT ![p] = IF pc'[p] = "idle" THEN outcome'[p] ELSE "none"]
  BY DEF Phases, Results, PhaseOf

\* The initial states are initial states of AtomicStore.
LEMMA InitRefines == Init => Atomic!Init
  BY DEF Init, Atomic!Init, File, Atomic!File, NoCall, Atomic!NoCall, PhaseOf

\* Each step of a call is one step of AtomicStore, or is not visible there.
LEMMA StepRefines ==
    ASSUME StoreInv, StoreInv', NEW p \in Proc, Step(p)
    PROVE  [Atomic!Next]_(Atomic!vars)
  <1> USE DEF Goto, files, disk, Critical
  <1>0. /\ TypeOK /\ TypeOK' /\ CallShape /\ SyncedBeforeRename /\ OutcomeKnown
        /\ pc' \in [Proc -> PC] /\ pc \in [Proc -> PC]
        /\ outcome \in [Proc -> {"none", "ok", "err"}]
    BY DEF StoreInv, TypeOK
  <1>m. ASSUME \A q \in Proc \ {p} : pc'[q] = pc[q] /\ outcome'[q] = outcome[q]
        PROVE  /\ Phases' = [Phases EXCEPT ![p] = PhaseOf(p)']
               /\ Results' = [Results EXCEPT ![p] = IF pc'[p] = "idle" THEN outcome'[p] ELSE "none"]
    BY <1>0, <1>m, PhaseMoves
  <1>1. CASE AcquireLock(p)
    <2>1. PhaseOf(p) = "asked" /\ PhaseOf(p)' = "asked"
      BY <1>0, <1>1 DEF AcquireLock, PhaseOf, OutcomeKnown
    <2>2. /\ Phases' = [Phases EXCEPT ![p] = "asked"]
          /\ Results' = [Results EXCEPT ![p] = "none"]
      BY <1>0, <1>m, <1>1, <2>1 DEF AcquireLock
    <2>3. UNCHANGED Atomic!vars
      BY <1>0, <1>1, <2>1, <2>2 DEF AcquireLock, Atomic!vars, Phases, Results
    <2>4. QED
      BY <2>3
  <1>2. CASE LockBusy(p)
    <2>1. PhaseOf(p) = "asked" /\ PhaseOf(p)' = "asked"
      BY <1>0, <1>2 DEF LockBusy, PhaseOf, OutcomeKnown
    <2>2. /\ Phases' = [Phases EXCEPT ![p] = "asked"]
          /\ Results' = [Results EXCEPT ![p] = "none"]
      BY <1>0, <1>m, <1>2, <2>1 DEF LockBusy
    <2>3. UNCHANGED Atomic!vars
      BY <1>0, <1>2, <2>1, <2>2 DEF LockBusy, Atomic!vars, Phases, Results
    <2>4. QED
      BY <2>3
  <1>3. CASE CreateTmp(p)
    <2>1. PhaseOf(p) = "asked" /\ PhaseOf(p)' = "asked"
      BY <1>0, <1>3 DEF CreateTmp, PhaseOf, OutcomeKnown
    <2>2. /\ Phases' = [Phases EXCEPT ![p] = "asked"]
          /\ Results' = [Results EXCEPT ![p] = "none"]
      BY <1>0, <1>m, <1>3, <2>1 DEF CreateTmp
    <2>3. UNCHANGED Atomic!vars
      BY <1>0, <1>3, <2>1, <2>2 DEF CreateTmp, Atomic!vars, Phases, Results
    <2>4. QED
      BY <2>3
  <1>4. CASE WriteTmp(p)
    <2>1. PhaseOf(p) = "asked" /\ PhaseOf(p)' = "asked"
      BY <1>0, <1>4 DEF WriteTmp, PhaseOf, OutcomeKnown
    <2>2. /\ Phases' = [Phases EXCEPT ![p] = "asked"]
          /\ Results' = [Results EXCEPT ![p] = "none"]
      BY <1>0, <1>m, <1>4, <2>1 DEF WriteTmp
    <2>3. UNCHANGED Atomic!vars
      BY <1>0, <1>4, <2>1, <2>2 DEF WriteTmp, Atomic!vars, Phases, Results
    <2>4. QED
      BY <2>3
  <1>5. CASE SyncTmp(p)
    <2>1. PhaseOf(p) = "asked" /\ PhaseOf(p)' = "asked"
      BY <1>0, <1>5 DEF SyncTmp, PhaseOf, OutcomeKnown
    <2>2. /\ Phases' = [Phases EXCEPT ![p] = "asked"]
          /\ Results' = [Results EXCEPT ![p] = "none"]
      BY <1>0, <1>m, <1>5, <2>1 DEF SyncTmp
    <2>3. UNCHANGED Atomic!vars
      BY <1>0, <1>5, <2>1, <2>2 DEF SyncTmp, Atomic!vars, Phases, Results
    <2>4. QED
      BY <2>3
  <1>6. CASE LockTimeout(p) \/ LockError(p)
    <2>1. PhaseOf(p) = "asked" /\ PhaseOf(p)' = "idle"
      BY <1>0, <1>6 DEF LockTimeout, LockError, Return, TypeOK, PhaseOf, OutcomeKnown
    <2>2. /\ Phases' = [Phases EXCEPT ![p] = "idle"]
          /\ Results' = [Results EXCEPT ![p] = "err"]
      BY <1>0, <1>m, <1>6, <2>1 DEF LockTimeout, LockError, Return, TypeOK
    <2>3. Atomic!Answer(p)
      BY <1>0, <1>6, <2>1, <2>2 DEF LockTimeout, LockError, Return, TypeOK, Atomic!Answer, Phases, Results, NoCall, Atomic!NoCall
    <2>4. QED
      BY <2>3 DEF Atomic!Next
  <1>7. CASE Rename(p)
    <2>1. PhaseOf(p) = "asked" /\ PhaseOf(p)' = "taken"
      BY <1>0, <1>7 DEF Rename, TypeOK, PhaseOf, OutcomeKnown
    <2>2. /\ Phases' = [Phases EXCEPT ![p] = "taken"]
          /\ Results' = [Results EXCEPT ![p] = "none"]
      BY <1>0, <1>m, <1>7, <2>1 DEF Rename, TypeOK
    <2>3. Atomic!Take(p)
      BY <1>0, <1>7, <2>1, <2>2 DEF Rename, TypeOK, Atomic!Take, Phases, Results, SyncedBeforeRename, TmpContent
    <2>4. QED
      BY <2>3 DEF Atomic!Next
  <1>8. CASE SyncDir(p)
    <2>1. PhaseOf(p) = "taken" /\ PhaseOf(p)' = "done"
      BY <1>0, <1>8 DEF SyncDir, TypeOK, PhaseOf, OutcomeKnown
    <2>2. /\ Phases' = [Phases EXCEPT ![p] = "done"]
          /\ Results' = [Results EXCEPT ![p] = "none"]
      BY <1>0, <1>m, <1>8, <2>1 DEF SyncDir, TypeOK
    <2>3. Atomic!Keep(p)
      BY <1>0, <1>8, <2>1, <2>2, WriteBackStoresVisible DEF SyncDir, TypeOK, Atomic!Keep, Phases, Results
    <2>4. QED
      BY <2>3 DEF Atomic!Next
  <1>9. CASE IOError(p) /\ pc[p] # "syncdir"
    <2>1. PhaseOf(p) = "asked" /\ PhaseOf(p)' = "failed"
      BY <1>0, <1>9 DEF IOError, TypeOK, PhaseOf, OutcomeKnown
    <2>2. /\ Phases' = [Phases EXCEPT ![p] = "failed"]
          /\ Results' = [Results EXCEPT ![p] = "none"]
      BY <1>0, <1>m, <1>9, <2>1 DEF IOError, TypeOK
    <2>3. Atomic!Fail(p)
      BY <1>0, <1>9, <2>1, <2>2 DEF IOError, TypeOK, Atomic!Fail, Phases, Results
    <2>4. QED
      BY <2>3 DEF Atomic!Next
  <1>10. CASE IOError(p) /\ pc[p] = "syncdir"
    <2>1. PhaseOf(p) = "taken" /\ PhaseOf(p)' = "failed"
      BY <1>0, <1>10 DEF IOError, TypeOK, PhaseOf, OutcomeKnown
    <2>2. /\ Phases' = [Phases EXCEPT ![p] = "failed"]
          /\ Results' = [Results EXCEPT ![p] = "none"]
      BY <1>0, <1>m, <1>10, <2>1 DEF IOError, TypeOK
    <2>3. Atomic!Fail(p)
      BY <1>0, <1>10, <2>1, <2>2 DEF IOError, TypeOK, Atomic!Fail, Phases, Results
    <2>4. QED
      BY <2>3 DEF Atomic!Next
  <1>11. CASE DropLock(p) /\ outcome[p] = "ok"
    <2>1. PhaseOf(p) = "done" /\ PhaseOf(p)' = "idle"
      BY <1>0, <1>11 DEF DropLock, Return, TypeOK, PhaseOf, OutcomeKnown
    <2>2. /\ Phases' = [Phases EXCEPT ![p] = "idle"]
          /\ Results' = [Results EXCEPT ![p] = "ok"]
      BY <1>0, <1>m, <1>11, <2>1 DEF DropLock, Return, TypeOK
    <2>3. Atomic!Answer(p)
      BY <1>0, <1>11, <2>1, <2>2 DEF DropLock, Return, TypeOK, Atomic!Answer, Phases, Results, NoCall, Atomic!NoCall
    <2>4. QED
      BY <2>3 DEF Atomic!Next
  <1>12. CASE DropLock(p) /\ outcome[p] = "err"
    <2>1. PhaseOf(p) = "failed" /\ PhaseOf(p)' = "idle"
      BY <1>0, <1>12 DEF DropLock, Return, TypeOK, PhaseOf, OutcomeKnown
    <2>2. /\ Phases' = [Phases EXCEPT ![p] = "idle"]
          /\ Results' = [Results EXCEPT ![p] = "err"]
      BY <1>0, <1>m, <1>12, <2>1 DEF DropLock, Return, TypeOK
    <2>3. Atomic!Answer(p)
      BY <1>0, <1>12, <2>1, <2>2 DEF DropLock, Return, TypeOK, Atomic!Answer, Phases, Results, NoCall, Atomic!NoCall
    <2>4. QED
      BY <2>3 DEF Atomic!Next
  <1>13. CASE RemoveMarker(p)
    <2>1. PhaseOf(p) = "asked" /\ PhaseOf(p)' = "taken"
      BY <1>0, <1>13 DEF RemoveMarker, TypeOK, PhaseOf, OutcomeKnown
    <2>2. /\ Phases' = [Phases EXCEPT ![p] = "taken"]
          /\ Results' = [Results EXCEPT ![p] = "none"]
      BY <1>0, <1>m, <1>13, <2>1 DEF RemoveMarker, TypeOK
    <2>3. Atomic!Take(p)
      BY <1>0, <1>13, <2>1, <2>2 DEF RemoveMarker, TypeOK, Atomic!Take, Phases, Results, CallShape
    <2>4. QED
      BY <2>3 DEF Atomic!Next
  <1>14. CASE RemoveSync(p)
    <2>1. PhaseOf(p) = "taken" /\ PhaseOf(p)' = "done"
      BY <1>0, <1>14 DEF RemoveSync, TypeOK, PhaseOf, OutcomeKnown
    <2>2. /\ Phases' = [Phases EXCEPT ![p] = "done"]
          /\ Results' = [Results EXCEPT ![p] = "none"]
      BY <1>0, <1>m, <1>14, <2>1 DEF RemoveSync, TypeOK
    <2>3. Atomic!Keep(p)
      BY <1>0, <1>14, <2>1, <2>2, WriteBackStoresVisible DEF RemoveSync, TypeOK, Atomic!Keep, Phases, Results
    <2>4. QED
      BY <2>3 DEF Atomic!Next
  <1>15. CASE RemoveMissing(p)
    <2>1. PhaseOf(p) = "asked" /\ PhaseOf(p)' = "done"
      BY <1>0, <1>15 DEF RemoveMissing, TypeOK, PhaseOf, OutcomeKnown
    <2>2. /\ Phases' = [Phases EXCEPT ![p] = "done"]
          /\ Results' = [Results EXCEPT ![p] = "none"]
      BY <1>0, <1>m, <1>15, <2>1 DEF RemoveMissing, TypeOK
    <2>3. Atomic!AlreadyAbsent(p)
      BY <1>0, <1>15, <2>1, <2>2 DEF RemoveMissing, TypeOK, Atomic!AlreadyAbsent, Phases, Results, CallShape
    <2>4. QED
      BY <2>3 DEF Atomic!Next
  <1>16. CASE RemoveError(p) /\ pc[p] = "remove"
    <2>1. PhaseOf(p) = "asked" /\ PhaseOf(p)' = "failed"
      BY <1>0, <1>16 DEF RemoveError, TypeOK, PhaseOf, OutcomeKnown
    <2>2. /\ Phases' = [Phases EXCEPT ![p] = "failed"]
          /\ Results' = [Results EXCEPT ![p] = "none"]
      BY <1>0, <1>m, <1>16, <2>1 DEF RemoveError, TypeOK
    <2>3. Atomic!Fail(p)
      BY <1>0, <1>16, <2>1, <2>2 DEF RemoveError, TypeOK, Atomic!Fail, Phases, Results
    <2>4. QED
      BY <2>3 DEF Atomic!Next
  <1>17. CASE RemoveError(p) /\ pc[p] = "rmsync"
    <2>1. PhaseOf(p) = "taken" /\ PhaseOf(p)' = "failed"
      BY <1>0, <1>17 DEF RemoveError, TypeOK, PhaseOf, OutcomeKnown
    <2>2. /\ Phases' = [Phases EXCEPT ![p] = "failed"]
          /\ Results' = [Results EXCEPT ![p] = "none"]
      BY <1>0, <1>m, <1>17, <2>1 DEF RemoveError, TypeOK
    <2>3. Atomic!Fail(p)
      BY <1>0, <1>17, <2>1, <2>2 DEF RemoveError, TypeOK, Atomic!Fail, Phases, Results
    <2>4. QED
      BY <2>3 DEF Atomic!Next
  <1>18. CASE RemoveReturn(p) /\ outcome[p] = "ok"
    <2>1. PhaseOf(p) = "done" /\ PhaseOf(p)' = "idle"
      BY <1>0, <1>18 DEF RemoveReturn, Return, TypeOK, PhaseOf, OutcomeKnown
    <2>2. /\ Phases' = [Phases EXCEPT ![p] = "idle"]
          /\ Results' = [Results EXCEPT ![p] = "ok"]
      BY <1>0, <1>m, <1>18, <2>1 DEF RemoveReturn, Return, TypeOK
    <2>3. Atomic!Answer(p)
      BY <1>0, <1>18, <2>1, <2>2 DEF RemoveReturn, Return, TypeOK, Atomic!Answer, Phases, Results, NoCall, Atomic!NoCall
    <2>4. QED
      BY <2>3 DEF Atomic!Next
  <1>19. CASE RemoveReturn(p) /\ outcome[p] = "err"
    <2>1. PhaseOf(p) = "failed" /\ PhaseOf(p)' = "idle"
      BY <1>0, <1>19 DEF RemoveReturn, Return, TypeOK, PhaseOf, OutcomeKnown
    <2>2. /\ Phases' = [Phases EXCEPT ![p] = "idle"]
          /\ Results' = [Results EXCEPT ![p] = "err"]
      BY <1>0, <1>m, <1>19, <2>1 DEF RemoveReturn, Return, TypeOK
    <2>3. Atomic!Answer(p)
      BY <1>0, <1>19, <2>1, <2>2 DEF RemoveReturn, Return, TypeOK, Atomic!Answer, Phases, Results, NoCall, Atomic!NoCall
    <2>4. QED
      BY <2>3 DEF Atomic!Next
  <1>20. DropLock(p) \/ RemoveReturn(p) => outcome[p] \in {"ok", "err"}
    BY <1>0 DEF DropLock, RemoveReturn, OutcomeKnown
  <1>21. QED
    BY <1>1, <1>2, <1>3, <1>4, <1>5, <1>6, <1>7, <1>8, <1>9, <1>10, <1>11, <1>12, <1>13, <1>14, <1>15, <1>16, <1>17, <1>18, <1>19, <1>20 DEF Step, RemoveError

\* Every step of StateStore is a step of AtomicStore or a stutter.
LEMMA NextRefines ==
    ASSUME StoreInv, StoreInv', [Next]_vars
    PROVE  [Atomic!Next]_(Atomic!vars)
  <1> USE DEF Goto, files, disk
  <1>0. /\ TypeOK /\ TypeOK' /\ SyncedBeforeRename
        /\ File = Atomic!File /\ NoCall = Atomic!NoCall
        /\ \A f : DocOf(f) = Atomic!DocOf(f)
    BY DEF StoreInv, File, Atomic!File, NoCall, Atomic!NoCall, DocOf, Atomic!DocOf
  <1>1. ASSUME NEW p \in Proc, NEW f \in File, NEW d \in Doc, Call(p, f, d)
        PROVE  Atomic!Next
    <2>1. PhaseOf(p) = "idle" /\ PhaseOf(p)' = "asked"
      BY <1>0, <1>1 DEF Call, PhaseOf, TypeOK
    <2>2. /\ Phases' = [Phases EXCEPT ![p] = "asked"]
          /\ Results' = [Results EXCEPT ![p] = "none"]
      BY <1>0, <1>1, <2>1, PhaseMoves DEF Call, TypeOK
    <2>3. Atomic!Ask(p, f, d)
      BY <1>0, <1>1, <2>1, <2>2 DEF Call, Atomic!Ask, Phases, Results, TypeOK
    <2>4. QED
      BY <1>0, <2>3 DEF Atomic!Next, Doc
  <1>2. ASSUME NEW p \in Proc, CallRemove(p)
        PROVE  Atomic!Next
    <2>1. PhaseOf(p) = "idle" /\ PhaseOf(p)' = "asked"
      BY <1>0, <1>2 DEF CallRemove, PhaseOf, TypeOK
    <2>2. /\ Phases' = [Phases EXCEPT ![p] = "asked"]
          /\ Results' = [Results EXCEPT ![p] = "none"]
      BY <1>0, <1>2, <2>1, PhaseMoves DEF CallRemove, TypeOK
    <2>3. Atomic!Ask(p, "daemon.status", Absent)
      BY <1>0, <1>2, <2>1, <2>2 DEF CallRemove, Atomic!Ask, Phases, Results, TypeOK
    <2>4. "daemon.status" \in Atomic!File
      BY DEF Atomic!File
    <2>5. QED
      BY <2>3, <2>4 DEF Atomic!Next
  <1>3. ASSUME NEW p \in Proc, Step(p)
        PROVE  [Atomic!Next]_(Atomic!vars)
    BY <1>3, StepRefines
  <1>4. ASSUME NEW p \in Proc, Crash(p)
        PROVE  Atomic!Next
    <2>1. PhaseOf(p) # "idle" /\ PhaseOf(p)' = "idle"
      BY <1>0, <1>4 DEF Crash, Return, PhaseOf, TypeOK
    <2>2. /\ Phases' = [Phases EXCEPT ![p] = "idle"]
          /\ Results' = [Results EXCEPT ![p] = "none"]
      BY <1>0, <1>4, <2>1, PhaseMoves DEF Crash, Return, TypeOK
    <2>3. Atomic!Crash(p)
      BY <1>0, <1>4, <2>1, <2>2 DEF Crash, Return, Atomic!Crash, Phases, Results, TypeOK
    <2>4. QED
      BY <2>3 DEF Atomic!Next
  <1>5. CASE Flush
    <2>1. Atomic!Flush
      BY <1>0, <1>5, WriteBackStoresVisible DEF Flush, Atomic!Flush, PhaseOf
    <2>2. QED
      BY <2>1 DEF Atomic!Next
  <1>6. CASE PowerLoss
    <2>1. \A p \in Proc : PhaseOf(p)' = "idle" /\ pc'[p] = "idle" /\ outcome'[p] = "none"
      BY <1>6 DEF PowerLoss, PhaseOf
    <2>2. Atomic!PowerLoss
      BY <1>0, <1>6, <2>1 DEF PowerLoss, Atomic!PowerLoss
    <2>3. QED
      BY <2>2 DEF Atomic!Next
  <1>7. CASE UNCHANGED vars
    BY <1>7 DEF vars, Atomic!vars, PhaseOf
  <1>8. QED
    BY <1>1, <1>2, <1>3, <1>4, <1>5, <1>6, <1>7, NextCases

\* write_runtime, write_daemon_marker and remove_daemon_marker together keep the
\* promise of AtomicStore: the users of the state directory may be verified
\* against whole-file replacement and need not look at the lock or the rename.
THEOREM Refinement == SafeSpec => ImplementsAtomicStore
  <1>1. Init => Atomic!Init
    BY InitRefines
  <1>2. StoreInv /\ StoreInv' /\ [Next]_vars => [Atomic!Next]_(Atomic!vars)
    BY NextRefines
  <1>3. QED
    BY <1>1, <1>2, StoreInvariant, PTL DEF SafeSpec, ImplementsAtomicStore, Atomic!Spec
=============================================================================
