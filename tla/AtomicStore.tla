------------------------------ MODULE AtomicStore ------------------------------
(***************************************************************************)
(* What the state directory promises to the processes that use it: two     *)
(* files, each replaced as a whole.  A call that answers Ok has made its    *)
(* document visible and has put the directory on disk; a call that answers  *)
(* Err, or whose process dies, has replaced its file completely or not at   *)
(* all.  There is no lock, no temporary file and no retry here: StateStore  *)
(* shows how qddns/src/state.rs keeps this promise.                         *)
(***************************************************************************)
CONSTANTS
    Proc,         \* processes that share the state directory
    RuntimeDoc,   \* documents written to runtime.state
    MarkerDoc,    \* documents written to daemon.status
    Absent        \* the file does not exist; asked of a call, its removal

VARIABLES
    content,      \* what a reader of each file finds now
    saved,        \* what a reader would find after a power loss
    phase,        \* how far the call of each process has come
    call,         \* the call of each process: a file and its new content
    result        \* what the last finished call of each process answered

vars == <<content, saved, phase, call, result>>

File == {"runtime.state", "daemon.status"}
DocOf(f) == IF f = "runtime.state" THEN RuntimeDoc ELSE MarkerDoc
Request == {[file |-> f, doc |-> d] : f \in File, d \in RuntimeDoc \cup MarkerDoc \cup {Absent}}
Phase == {"idle", "asked", "taken", "done", "failed"}

\* Type invariant.
TypeOK ==
    /\ content \in [File -> RuntimeDoc \cup MarkerDoc \cup {Absent}]
    /\ saved \in [File -> RuntimeDoc \cup MarkerDoc \cup {Absent}]
    /\ phase \in [Proc -> Phase]
    /\ call \in [Proc -> Request]
    /\ result \in [Proc -> {"none", "ok", "err"}]

NoCall == [file |-> "runtime.state", doc |-> Absent]

Init ==
    /\ content = [f \in File |-> Absent]
    /\ saved = [f \in File |-> Absent]
    /\ phase = [p \in Proc |-> "idle"]
    /\ call = [p \in Proc |-> NoCall]
    /\ result = [p \in Proc |-> "none"]

\* A process asks for a file to be replaced, or for the marker to be removed.
Ask(p, f, d) ==
    /\ phase[p] = "idle"
    /\ \/ d \in DocOf(f)
       \/ f = "daemon.status" /\ d = Absent
    /\ phase' = [phase EXCEPT ![p] = "asked"]
    /\ call' = [call EXCEPT ![p] = [file |-> f, doc |-> d]]
    /\ result' = [result EXCEPT ![p] = "none"]
    /\ UNCHANGED <<content, saved>>

\* The one moment at which the file changes for every reader.
Take(p) ==
    /\ phase[p] = "asked"
    /\ content' = [content EXCEPT ![call[p].file] = call[p].doc]
    /\ phase' = [phase EXCEPT ![p] = "taken"]
    /\ UNCHANGED <<saved, call, result>>

\* A removal finds nothing to remove.
AlreadyAbsent(p) ==
    /\ phase[p] = "asked"
    /\ call[p].doc = Absent
    /\ content[call[p].file] = Absent
    /\ phase' = [phase EXCEPT ![p] = "done"]
    /\ UNCHANGED <<content, saved, call, result>>

\* What is visible reaches the disk before the call may answer Ok.
Keep(p) ==
    /\ phase[p] = "taken"
    /\ saved' = content
    /\ phase' = [phase EXCEPT ![p] = "done"]
    /\ UNCHANGED <<content, call, result>>

\* An error, before or after the file was replaced.
Fail(p) ==
    /\ phase[p] \in {"asked", "taken"}
    /\ phase' = [phase EXCEPT ![p] = "failed"]
    /\ UNCHANGED <<content, saved, call, result>>

\* The call answers.  One that never took effect may be refused at once.
Answer(p) ==
    /\ \/ phase[p] = "done" /\ result' = [result EXCEPT ![p] = "ok"]
       \/ phase[p] \in {"asked", "failed"} /\ result' = [result EXCEPT ![p] = "err"]
    /\ phase' = [phase EXCEPT ![p] = "idle"]
    /\ call' = [call EXCEPT ![p] = NoCall]
    /\ UNCHANGED <<content, saved>>

\* The process dies inside its call.
Crash(p) ==
    /\ phase[p] # "idle"
    /\ phase' = [phase EXCEPT ![p] = "idle"]
    /\ call' = [call EXCEPT ![p] = NoCall]
    /\ result' = [result EXCEPT ![p] = "none"]
    /\ UNCHANGED <<content, saved>>

\* The kernel may write the directory back whenever it likes.
Flush ==
    /\ saved' = content
    /\ UNCHANGED <<content, phase, call, result>>

\* Every process dies and the files are those that had reached the disk.
PowerLoss ==
    /\ content' = saved
    /\ phase' = [p \in Proc |-> "idle"]
    /\ call' = [p \in Proc |-> NoCall]
    /\ result' = [p \in Proc |-> "none"]
    /\ UNCHANGED saved

Next ==
    \/ \E p \in Proc :
          \/ \E f \in File, d \in RuntimeDoc \cup MarkerDoc \cup {Absent} : Ask(p, f, d)
          \/ Take(p) \/ AlreadyAbsent(p) \/ Keep(p) \/ Fail(p) \/ Answer(p) \/ Crash(p)
    \/ Flush
    \/ PowerLoss

Spec == Init /\ [][Next]_vars
=============================================================================
