------------------------------- MODULE StateStore -------------------------------
(***************************************************************************)
(* The state directory as qddns/src/state.rs keeps it.  The daemon and     *)
(* every qddnsctl process share runtime.state and daemon.status.  A writer  *)
(* creates a lock file exclusively, writes a temporary file of its own,     *)
(* syncs it, renames it over the target, syncs the directory and deletes    *)
(* the lock file when the guard is dropped.  Readers take no lock.          *)
(*                                                                         *)
(* Nothing but the existence of the lock file is visible to the code; the   *)
(* variable lock also remembers who created it.  Any step may fail, a       *)
(* process may be killed between any two steps, and a power loss leaves     *)
(* what had reached the disk.                                               *)
(***************************************************************************)
EXTENDS Naturals

CONSTANTS
    Proc,         \* processes that share the state directory
    RuntimeDoc,   \* documents written to runtime.state
    MarkerDoc,    \* documents written to daemon.status
    Absent,       \* the file does not exist
    Torn,         \* the file holds an incomplete document
    Free,         \* lock: there is no lock file
    Orphan,       \* lock: a lock file whose creator will not delete it
    MaxTries      \* attempts to create the lock file (500 in the code)

ASSUME StoreAssumption ==
    /\ MaxTries \in Nat \ {0}
    /\ Absent \notin RuntimeDoc \cup MarkerDoc
    /\ Torn \notin RuntimeDoc \cup MarkerDoc \cup {Absent}
    /\ Free \notin Proc
    /\ Orphan \notin Proc \cup {Free}

VARIABLES
    lock,         \* Free, Orphan, or the process that created the lock file
    visible,      \* what a reader of each file finds now
    hard,         \* whether the data of the visible file is on disk
    durable,      \* what a reader would find after a power loss
    durableLock,  \* whether the lock file would be there after a power loss
    pc,           \* where each process stands in its call
    call,         \* the call of each process: a file and its new content
    tries,        \* failed attempts of the call to create the lock file
    tmp,          \* the temporary file of the call
    outcome       \* what the call answers, or answered when pc is "idle"

vars == <<lock, visible, hard, durable, durableLock, pc, call, tries, tmp, outcome>>
disk == <<durable, durableLock>>
files == <<visible, hard>>

File == {"runtime.state", "daemon.status"}
Doc == RuntimeDoc \cup MarkerDoc
DocOf(f) == IF f = "runtime.state" THEN RuntimeDoc ELSE MarkerDoc
Content == Doc \cup {Absent, Torn}
NoCall == [file |-> "runtime.state", doc |-> Absent]

\* Program points at which the process holds the StateLock guard.
Critical == {"create", "write", "sync", "rename", "syncdir", "unlock"}
PC == {"idle", "lock", "remove", "rmsync", "rmdone"} \cup Critical

\* Type invariant: in particular the wait of a caller for the lock is bounded.
TypeOK ==
    /\ lock \in Proc \cup {Free, Orphan}
    /\ visible \in [File -> Content]
    /\ hard \in [File -> BOOLEAN]
    /\ durable \in [File -> Content]
    /\ durableLock \in BOOLEAN
    /\ pc \in [Proc -> PC]
    /\ call \in [Proc -> [file : File, doc : Doc \cup {Absent}]]
    /\ tries \in [Proc -> 0 .. MaxTries]
    /\ tmp \in [Proc -> {"none", "empty", "full", "synced"}]
    /\ outcome \in [Proc -> {"none", "ok", "err"}]

Init ==
    /\ lock = Free
    /\ visible = [f \in File |-> Absent]
    /\ hard = [f \in File |-> TRUE]
    /\ durable = [f \in File |-> Absent]
    /\ durableLock = FALSE
    /\ pc = [p \in Proc |-> "idle"]
    /\ call = [p \in Proc |-> NoCall]
    /\ tries = [p \in Proc |-> 0]
    /\ tmp = [p \in Proc |-> "none"]
    /\ outcome = [p \in Proc |-> "none"]

-----------------------------------------------------------------------------
(* Helpers *)

Goto(p, from, to) ==
    /\ pc[p] = from
    /\ pc' = [pc EXCEPT ![p] = to]

\* The call of p is over, with the answer r.
Return(p, r) ==
    /\ pc' = [pc EXCEPT ![p] = "idle"]
    /\ call' = [call EXCEPT ![p] = NoCall]
    /\ tries' = [tries EXCEPT ![p] = 0]
    /\ tmp' = [tmp EXCEPT ![p] = "none"]
    /\ outcome' = [outcome EXCEPT ![p] = r]

\* What a rename of the temporary file of p makes visible.
TmpContent(p) == IF tmp[p] \in {"full", "synced"} THEN call[p].doc ELSE Torn

\* What the disk holds once the directory entry of f has been written back.
OnDisk(f) == IF hard[f] THEN visible[f] ELSE Torn

\* The directory, its lock file included, is written back.
WriteBack ==
    /\ durable' = [f \in File |-> OnDisk(f)]
    /\ durableLock' = (lock # Free)

-----------------------------------------------------------------------------
(* write_runtime and write_daemon_marker *)

\* The process enters write_runtime or write_daemon_marker.
Call(p, f, d) ==
    /\ Goto(p, "idle", "lock")
    /\ d \in DocOf(f)
    /\ call' = [call EXCEPT ![p] = [file |-> f, doc |-> d]]
    /\ outcome' = [outcome EXCEPT ![p] = "none"]
    /\ UNCHANGED <<lock, files, disk, tries, tmp>>

\* Faulty variant: create instead of create_new opens an existing lock file.
AcquireAnyLock(p) ==
    /\ Goto(p, "lock", "create")
    /\ lock' = p
    /\ UNCHANGED <<files, disk, call, tries, tmp, outcome>>

\* Faulty variant: a lock file whose creator is gone is taken over.
AcquireStaleLock(p) ==
    /\ Goto(p, "lock", "create")
    /\ lock \in {Free, Orphan}
    /\ lock' = p
    /\ UNCHANGED <<files, disk, call, tries, tmp, outcome>>

\* create_new(lock) succeeds: the process now owns the guard.
AcquireLock(p) ==
    /\ Goto(p, "lock", "create")
    /\ lock = Free
    /\ lock' = p
    /\ UNCHANGED <<files, disk, call, tries, tmp, outcome>>

\* Faulty variant: the wait for the lock counts its attempts but never ends.
LockBusyUnbounded(p) ==
    /\ pc[p] = "lock"
    /\ lock # Free
    /\ tries' = [tries EXCEPT ![p] = @ + 1]
    /\ UNCHANGED <<lock, files, disk, pc, call, tmp, outcome>>

\* Faulty variant: the count of attempts restarts instead of running out.
LockBusyRestarting(p) ==
    /\ pc[p] = "lock"
    /\ lock # Free
    /\ tries' = [tries EXCEPT ![p] = (@ + 1) % MaxTries]
    /\ UNCHANGED <<lock, files, disk, pc, call, tmp, outcome>>

\* AlreadyExists: sleep and try again.
LockBusy(p) ==
    /\ pc[p] = "lock"
    /\ lock # Free
    /\ tries[p] + 1 < MaxTries
    /\ tries' = [tries EXCEPT ![p] = @ + 1]
    /\ UNCHANGED <<lock, files, disk, pc, call, tmp, outcome>>

\* AlreadyExists at the last attempt: "timed out waiting for state lock".
LockTimeout(p) ==
    /\ pc[p] = "lock"
    /\ lock # Free
    /\ tries[p] + 1 >= MaxTries
    /\ Return(p, "err")
    /\ UNCHANGED <<lock, files, disk>>

\* ensure_dir fails, or the lock file cannot be created for another reason.
LockError(p) ==
    /\ pc[p] = "lock"
    /\ Return(p, "err")
    /\ UNCHANGED <<lock, files, disk>>

\* create_new(tmp) under a name no other call has, and its mode.
CreateTmp(p) ==
    /\ Goto(p, "create", "write")
    /\ tmp' = [tmp EXCEPT ![p] = "empty"]
    /\ UNCHANGED <<lock, files, disk, call, tries, outcome>>

WriteTmp(p) ==
    /\ Goto(p, "write", "sync")
    /\ tmp' = [tmp EXCEPT ![p] = "full"]
    /\ UNCHANGED <<lock, files, disk, call, tries, outcome>>

\* Faulty variant: the temporary file is renamed without sync_all.
SyncTmpSkipped(p) ==
    /\ Goto(p, "sync", "rename")
    /\ UNCHANGED <<lock, files, disk, call, tries, tmp, outcome>>

SyncTmp(p) ==
    /\ Goto(p, "sync", "rename")
    /\ tmp' = [tmp EXCEPT ![p] = "synced"]
    /\ UNCHANGED <<lock, files, disk, call, tries, outcome>>

\* rename(tmp, target): readers that open the file from now on see the new one.
Rename(p) ==
    /\ Goto(p, "rename", "syncdir")
    /\ visible' = [visible EXCEPT ![call[p].file] = TmpContent(p)]
    /\ hard' = [hard EXCEPT ![call[p].file] = (tmp[p] = "synced")]
    /\ tmp' = [tmp EXCEPT ![p] = "none"]
    /\ UNCHANGED <<lock, disk, call, tries, outcome>>

\* Faulty variant: Ok is answered without syncing the directory.
SyncDirSkipped(p) ==
    /\ Goto(p, "syncdir", "unlock")
    /\ outcome' = [outcome EXCEPT ![p] = "ok"]
    /\ UNCHANGED <<lock, files, disk, call, tries, tmp>>

SyncDir(p) ==
    /\ Goto(p, "syncdir", "unlock")
    /\ WriteBack
    /\ outcome' = [outcome EXCEPT ![p] = "ok"]
    /\ UNCHANGED <<lock, files, call, tries, tmp>>

\* Any of the five file operations fails: the ? returns the error, and the
\* guard is dropped.  What the temporary file holds is left behind.
IOError(p) ==
    /\ pc[p] \in Critical \ {"unlock"}
    /\ pc' = [pc EXCEPT ![p] = "unlock"]
    /\ outcome' = [outcome EXCEPT ![p] = "err"]
    /\ UNCHANGED <<lock, files, disk, call, tries, tmp>>

\* Faulty variant: an error met while the guard is held is swallowed.
DropLockOk(p) ==
    /\ pc[p] = "unlock"
    /\ lock' \in {Free, Orphan}
    /\ Return(p, "ok")
    /\ UNCHANGED <<files, disk>>

\* StateLock::drop deletes the lock file; a failure to do so is ignored.
DropLock(p) ==
    /\ pc[p] = "unlock"
    /\ lock' \in {Free, Orphan}
    /\ Return(p, outcome[p])
    /\ UNCHANGED <<files, disk>>

-----------------------------------------------------------------------------
(* remove_daemon_marker takes no lock *)

CallRemove(p) ==
    /\ Goto(p, "idle", "remove")
    /\ call' = [call EXCEPT ![p] = [file |-> "daemon.status", doc |-> Absent]]
    /\ outcome' = [outcome EXCEPT ![p] = "none"]
    /\ UNCHANGED <<lock, files, disk, tries, tmp>>

RemoveMarker(p) ==
    /\ Goto(p, "remove", "rmsync")
    /\ visible["daemon.status"] # Absent
    /\ visible' = [visible EXCEPT !["daemon.status"] = Absent]
    /\ hard' = [hard EXCEPT !["daemon.status"] = TRUE]
    /\ UNCHANGED <<lock, disk, call, tries, tmp, outcome>>

RemoveSync(p) ==
    /\ Goto(p, "rmsync", "rmdone")
    /\ WriteBack
    /\ outcome' = [outcome EXCEPT ![p] = "ok"]
    /\ UNCHANGED <<lock, files, call, tries, tmp>>

\* NotFound is not an error, and the directory is not synced.
RemoveMissing(p) ==
    /\ Goto(p, "remove", "rmdone")
    /\ visible["daemon.status"] = Absent
    /\ outcome' = [outcome EXCEPT ![p] = "ok"]
    /\ UNCHANGED <<lock, files, disk, call, tries, tmp>>

RemoveError(p) ==
    /\ pc[p] \in {"remove", "rmsync"}
    /\ pc' = [pc EXCEPT ![p] = "rmdone"]
    /\ outcome' = [outcome EXCEPT ![p] = "err"]
    /\ UNCHANGED <<lock, files, disk, call, tries, tmp>>

RemoveReturn(p) ==
    /\ pc[p] = "rmdone"
    /\ Return(p, outcome[p])
    /\ UNCHANGED <<lock, files, disk>>

-----------------------------------------------------------------------------
(* The environment *)

\* The process is killed inside its call.  Its lock file, if any, stays.
Crash(p) ==
    /\ pc[p] # "idle"
    /\ lock' = IF lock = p THEN Orphan ELSE lock
    /\ Return(p, "none")
    /\ UNCHANGED <<files, disk>>

\* The kernel writes the directory back on its own.
Flush ==
    /\ WriteBack
    /\ UNCHANGED <<lock, files, pc, call, tries, tmp, outcome>>

PowerLoss ==
    /\ lock' = IF durableLock THEN Orphan ELSE Free
    /\ visible' = durable
    /\ hard' = [f \in File |-> TRUE]
    /\ pc' = [p \in Proc |-> "idle"]
    /\ call' = [p \in Proc |-> NoCall]
    /\ tries' = [p \in Proc |-> 0]
    /\ tmp' = [p \in Proc |-> "none"]
    /\ outcome' = [p \in Proc |-> "none"]
    /\ UNCHANGED disk

-----------------------------------------------------------------------------

\* The steps of a call, errors included: what the process does by itself.
Step(p) ==
    \/ AcquireLock(p) \/ LockBusy(p) \/ LockTimeout(p) \/ LockError(p)
    \/ CreateTmp(p) \/ WriteTmp(p) \/ SyncTmp(p) \/ Rename(p) \/ SyncDir(p)
    \/ IOError(p) \/ DropLock(p)
    \/ RemoveMarker(p) \/ RemoveSync(p) \/ RemoveMissing(p) \/ RemoveError(p)
    \/ RemoveReturn(p)

Next ==
    \/ \E p \in Proc :
          \/ \E f \in File, d \in Doc : Call(p, f, d)
          \/ CallRemove(p)
          \/ Step(p)
          \/ Crash(p)
    \/ Flush
    \/ PowerLoss

\* A process that has entered a call keeps running until it returns or is
\* killed; nothing obliges anybody to call, to crash or to lose power.
Fairness == \A p \in Proc : WF_vars(Step(p))

Spec == Init /\ [][Next]_vars /\ Fairness
-----------------------------------------------------------------------------
(* What the protocol guarantees *)

\* The lock excludes: a process is inside write_runtime or write_daemon_marker
\* with the guard in hand exactly when the existing lock file is its own, so no
\* two writers are ever between create_new(tmp) and the sync of the directory.
LockHolderAlone == \A p \in Proc : pc[p] \in Critical <=> lock = p

\* A reader never finds half a document, whether it reads between two steps of
\* a writer, after a writer was killed, or after a power loss.
CompleteDocuments ==
    \A f \in File :
        /\ visible[f] \in DocOf(f) \cup {Absent}
        /\ durable[f] \in DocOf(f) \cup {Absent}

\* When a write is about to answer Ok its document is what readers find and
\* what a power loss would leave; only remove_daemon_marker, which takes no
\* lock, may have deleted the marker in the meantime.
OkMeansDurable ==
    \A p \in Proc :
        pc[p] = "unlock" /\ outcome[p] = "ok" =>
            LET f == call[p].file
                kept == {call[p].doc} \cup (IF f = "daemon.status" THEN {Absent} ELSE {})
            IN  visible[f] \in kept /\ durable[f] \in kept

\* A lock file left by a killed writer, or by a power loss, is never broken: as
\* long as it is there nothing is published.  The writers that find it all time
\* out, so a crash between create_new(lock) and the drop of the guard silences
\* every later write until the file is removed by hand.
OrphanStopsPublishing ==
    [][lock = Orphan /\ ~PowerLoss =>
          /\ lock' = Orphan
          /\ visible'["runtime.state"] = visible["runtime.state"]]_vars

\* Every call comes back: the wait for the lock is bounded, also when the lock
\* file is an orphan, so the daemon and the LuCI requests behind qddnsctl are
\* never blocked for good.
EveryCallReturns == \A p \in Proc : pc[p] # "idle" ~> pc[p] = "idle"

-----------------------------------------------------------------------------
(* StateStore implements AtomicStore *)

\* How far the call of p has come, seen from outside.
PhaseOf(p) ==
    CASE pc[p] = "idle" -> "idle"
      [] pc[p] \in {"lock", "create", "write", "sync", "rename", "remove"} -> "asked"
      [] pc[p] \in {"syncdir", "rmsync"} -> "taken"
      [] pc[p] \in {"unlock", "rmdone"} /\ outcome[p] = "ok" -> "done"
      [] OTHER -> "failed"

Atomic == INSTANCE AtomicStore WITH
    content <- visible,
    saved   <- durable,
    phase   <- [p \in Proc |-> PhaseOf(p)],
    result  <- [p \in Proc |-> IF pc[p] = "idle" THEN outcome[p] ELSE "none"]

\* Writers that go through the lock, the temporary file and the rename look to
\* each other and to the readers like atomic replacements of whole files.
ImplementsAtomicStore == Atomic!Spec
=============================================================================
