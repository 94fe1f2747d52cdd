--------------------------------- MODULE Qddns ---------------------------------
(***************************************************************************)
(* The daemon and the qddnsctl processes over one state directory.  Each    *)
(* of them loads runtime.state into memory, runs rules against the          *)
(* provider, and writes the whole file back from its memory.  The daemon    *)
(* loads the file once, when it starts; a qddnsctl process loads it for its  *)
(* one command.  Nothing keeps two of them apart while they work: the lock   *)
(* of StateStore covers a single write.                                     *)
(*                                                                         *)
(* A write is one step here, which StateStore shows to be sound; what it     *)
(* leaves of a killed or failed write (old file, new file, orphan lock) is   *)
(* kept.  The provider, the source addresses, the administrator and the      *)
(* failures are the environment.                                            *)
(***************************************************************************)
EXTENDS RuleRun, FiniteSets, FiniteSetsExt, Sequences

CONSTANTS
    Daemon,      \* the qddnsd process
    Cli,         \* qddnsctl processes and qddnsd --once
    CliOps,      \* what they do: a subset of {"run", "load", "once"}
    Missing,     \* runtime.state does not exist
    Corrupt,     \* runtime.state does not parse
    Poll,        \* the sleep of the daemon: max(poll_interval, 5)
    StepBacks,   \* whether the clock may be set back
    MaxFaults,   \* bound on the failures of the environment
    MaxEvents    \* bound on what users do: commands, edits, address changes

ASSUME QddnsAssumption ==
    /\ Daemon \notin Cli
    /\ CliOps \subseteq {"run", "load", "once"}
    /\ Missing # Corrupt
    /\ Poll \in Nat \ {0}
    /\ StepBacks \in BOOLEAN
    /\ IsFiniteSet(Cli)
    /\ MaxFaults \in Nat
    /\ MaxEvents \in Nat

VARIABLES
    clock,       \* unix_now()
    addr,        \* the address every source yields now
    config,      \* of each rule: "absent", "disabled" or "enabled"
    valid,       \* whether Config::load_from_path and validate accept the file
    records,     \* what the provider holds for each rule, oldest record first
    late,        \* how many of each update are under way after their run has ended
    file,        \* runtime.state
    marker,      \* whether daemon.status exists
    wedged,      \* whether the lock file is an orphan: no write gets through
    pc,          \* where each process stands
    op,          \* what each qddnsctl process was asked to do
    mem,         \* the RuntimeState each process has in memory
    todo,        \* rules the process has still to look at
    job,         \* the run in progress
    pollNow,     \* the time the daemon took at the start of its poll
    wake,        \* when the sleep of the daemon ends
    ran,         \* history: rules the daemon has run since it started
    overtaken,   \* history: rules a late update reached since the daemon looked
    strays,      \* history: how many late creations found a rule already served
    faults, events

setting == <<addr, config, valid>>
world == <<setting, events>>
disk == <<file, marker, wedged>>
provider == <<records, late, strays>>
timing == <<pollNow, wake>>
history == <<ran, overtaken>>
vars == <<clock, world, provider, disk, pc, op, mem, todo, job, timing, history, faults>>

Proc == Cli \cup {Daemon}
Doc == [running : BOOLEAN, rules : RuleMap]
DefaultDoc == [running |-> FALSE, rules |-> EmptyMap]
Job == [rule : Rule \cup {None}, now : Time, ip : Addr \cup {None}, seen : Addr \cup {None}]
Request == [rule : Rule, ip : Addr, create : BOOLEAN]
NoJob == [rule |-> None, now |-> 0, ip |-> None, seen |-> None]
PC == {"down", "boot", "bootmark", "poll", "run", "fetch", "update", "mark", "unmark", "asleep"}

\* Type invariant: in particular the count of failures saturates.
TypeOK ==
    /\ clock \in Time
    /\ addr \in Addr
    /\ config \in [Rule -> {"absent", "disabled", "enabled"}]
    /\ valid \in BOOLEAN
    /\ records \in [Rule -> Seq(Addr)]
    /\ late \in [Request -> Nat]
    /\ file \in Doc \cup {Missing, Corrupt}
    /\ marker \in BOOLEAN
    /\ wedged \in BOOLEAN
    /\ pc \in [Proc -> PC]
    /\ op \in [Proc -> CliOps \cup {"none", "daemon"}]
    /\ mem \in [Proc -> Doc]
    /\ todo \in [Proc -> SUBSET Rule]
    /\ job \in [Proc -> Job]
    /\ pollNow \in Time
    /\ wake \in Time
    /\ ran \subseteq Rule
    /\ overtaken \subseteq Rule
    /\ strays \in [Rule -> Nat]
    /\ faults \in 0 .. MaxFaults
    /\ events \in 0 .. MaxEvents

Init ==
    /\ clock = 0
    /\ addr \in Addr
    /\ config = [r \in Rule |-> "enabled"]
    /\ valid = TRUE
    /\ records = [r \in Rule |-> <<>>]
    /\ late = [u \in Request |-> 0]
    /\ file = Missing
    /\ marker = FALSE
    /\ wedged = FALSE
    /\ pc = [p \in Proc |-> "down"]
    /\ op = [p \in Proc |-> "none"]
    /\ mem = [p \in Proc |-> DefaultDoc]
    /\ todo = [p \in Proc |-> {}]
    /\ job = [p \in Proc |-> NoJob]
    /\ pollNow = 0
    /\ wake = 0
    /\ ran = {}
    /\ overtaken = {}
    /\ strays = [r \in Rule |-> 0]
    /\ faults = 0
    /\ events = 0

-----------------------------------------------------------------------------
(* Helpers *)

Goto(p, to) == pc' = [pc EXCEPT ![p] = to]

Event == events < MaxEvents /\ events' = events + 1
Fault == faults < MaxFaults /\ faults' = faults + 1

Enabled == {r \in Rule : config[r] = "enabled"}

\* load_runtime_state(..).unwrap_or_default(): a file that is missing and a
\* file that does not parse both give the default state.
Loaded == IF file \in {Missing, Corrupt} THEN DefaultDoc ELSE file

\* prune_runtime_rules: entries of rules that are no longer configured go.
Pruned(doc) ==
    [doc EXCEPT !.rules = [r \in Rule |-> IF config[r] = "absent" THEN None ELSE doc.rules[r]]]

\* What lookup finds: the address of the oldest record.
Lookup(r) == IF records[r] = <<>> THEN None ELSE Head(records[r])

\* The process is gone, with all it had in memory.
Exit(p) ==
    /\ Goto(p, "down")
    /\ op' = [op EXCEPT ![p] = "none"]
    /\ mem' = [mem EXCEPT ![p] = DefaultDoc]
    /\ todo' = [todo EXCEPT ![p] = {}]
    /\ job' = [job EXCEPT ![p] = NoJob]
    /\ IF p = Daemon THEN pollNow' = 0 /\ wake' = 0 /\ ran' = {} /\ overtaken' = {}
       ELSE UNCHANGED <<timing, history>>

\* The process has its state in memory and the rules in ids before it.
Begin(p, what, doc, ids, at) ==
    /\ Goto(p, at)
    /\ op' = [op EXCEPT ![p] = what]
    /\ mem' = [mem EXCEPT ![p] = doc]
    /\ todo' = [todo EXCEPT ![p] = ids]
    /\ UNCHANGED job

-----------------------------------------------------------------------------
(* One rule: run_rule_once_with_runtime *)

\* The rules are visited in the order of their ids.
Turn(p, r) == pc[p] = "run" /\ todo[p] # {} /\ r = Min(todo[p])

\* Only the daemon asks whether a rule is due; now is that of the poll.
ToRun(p, r) == Turn(p, r) /\ (p = Daemon => Due(mem[p].rules, r, pollNow))

Skip(p, r) ==
    /\ Turn(p, r)
    /\ p = Daemon
    /\ ~Due(mem[p].rules, r, pollNow)
    /\ todo' = [todo EXCEPT ![p] = @ \ {r}]
    /\ UNCHANGED <<clock, world, provider, disk, pc, op, mem, job, timing, history, faults>>

Prior(p, r) == PriorOf(mem[p].rules, r)

\* runtime.rules.insert(rule_id, state): the run of r is over.
Insert(p, r, state) ==
    /\ mem' = [mem EXCEPT ![p].rules[r] = state]
    /\ Goto(p, "run")
    /\ todo' = [todo EXCEPT ![p] = @ \ {r}]
    /\ job' = [job EXCEPT ![p] = NoJob]
    /\ ran' = IF p = Daemon THEN ran \cup {r} ELSE ran

\* now, prior and the address of the source are taken; from here on the run
\* works with this address whatever becomes of the source.
Resolve(p, r) ==
    /\ ToRun(p, r)
    /\ Goto(p, "fetch")
    /\ job' = [job EXCEPT ![p] = [rule |-> r, now |-> clock, ip |-> addr, seen |-> None]]
    /\ UNCHANGED <<clock, world, provider, disk, op, mem, todo, timing, history, faults>>

\* The source yields no acceptable address.
ResolveFails(p, r) ==
    /\ ToRun(p, r)
    /\ Fault
    /\ Insert(p, r, Failed(Prior(p, r), clock))
    /\ UNCHANGED <<clock, world, provider, disk, op, timing, overtaken>>

\* The daemon has seen what became of the updates of r that came late.
Looked(p, r) == overtaken' = IF p = Daemon THEN overtaken \ {r} ELSE overtaken

\* fetch_record shows that nothing needs to be sent.
FetchMatches(p) ==
    LET r == job[p].rule IN
    /\ pc[p] = "fetch"
    /\ Lookup(r) = job[p].ip
    /\ ~ShouldForceUpdate(Prior(p, r), job[p].now)
    /\ Insert(p, r, Unchanged(Prior(p, r), job[p].ip, job[p].now))
    /\ Looked(p, r)
    /\ UNCHANGED <<clock, world, provider, disk, op, timing, faults>>

\* fetch_record shows another address or none, or the update is forced.
FetchDiffers(p) ==
    LET r == job[p].rule IN
    /\ pc[p] = "fetch"
    /\ Lookup(r) # job[p].ip \/ ShouldForceUpdate(Prior(p, r), job[p].now)
    /\ Goto(p, "update")
    /\ job' = [job EXCEPT ![p].seen = Lookup(r)]
    /\ Looked(p, r)
    /\ UNCHANGED <<clock, world, provider, disk, op, mem, todo, timing, ran, faults>>

FetchFails(p) ==
    LET r == job[p].rule IN
    /\ pc[p] = "fetch"
    /\ Fault
    /\ Insert(p, r, Failed(Prior(p, r), job[p].now))
    /\ UNCHANGED <<clock, world, provider, disk, op, timing, overtaken>>

\* update_record: an update of the record seen by the fetch, or a creation if
\* the fetch saw none, whatever the provider holds by now.
Sent(p) == [rule |-> job[p].rule, ip |-> job[p].ip, create |-> job[p].seen = None]

\* Faulty variant: a new record is created even if one was fetched.
AppliedAsNew(u) == [records EXCEPT ![u.rule] = Append(@, u.ip)]

\* What the provider makes of the request u.
Applied(u) ==
    IF u.create
    THEN [records EXCEPT ![u.rule] = Append(@, u.ip)]
    ELSE [records EXCEPT ![u.rule] = <<u.ip>> \o Tail(@)]

Pushed(p) == Applied(Sent(p))

\* The run does not wait for its update any longer: the provider has applied
\* it by then, or refused it, or may still receive it at any later time.
GivenUp(p) ==
    /\ \/ records' \in {records, Pushed(p)} /\ UNCHANGED late
       \/ late' = [late EXCEPT ![Sent(p)] = @ + 1] /\ UNCHANGED records
    /\ UNCHANGED strays

Update(p) ==
    LET r == job[p].rule IN
    /\ pc[p] = "update"
    /\ records' = Pushed(p)
    /\ Insert(p, r, Synced(job[p].ip, job[p].seen, job[p].now))
    /\ UNCHANGED <<clock, world, late, strays, disk, op, timing, overtaken, faults>>

\* Faulty variant: an error of the update is swallowed.
UpdateFailsUnseen(p) ==
    LET r == job[p].rule IN
    /\ pc[p] = "update"
    /\ Fault
    /\ GivenUp(p)
    /\ Insert(p, r, Synced(job[p].ip, job[p].seen, job[p].now))
    /\ UNCHANGED <<clock, world, disk, op, timing, overtaken>>

\* The provider refuses, or cannot be reached, or its answer is lost or does
\* not come within the timeout.
UpdateFails(p) ==
    LET r == job[p].rule IN
    /\ pc[p] = "update"
    /\ Fault
    /\ GivenUp(p)
    /\ Insert(p, r, Failed(Prior(p, r), job[p].now))
    /\ UNCHANGED <<clock, world, disk, op, timing, overtaken>>

-----------------------------------------------------------------------------
(* Writing runtime.state and daemon.status *)

\* Where write_runtime_state stands in the code of p.
Saving(p) == pc[p] = "boot" \/ (pc[p] = "run" /\ todo[p] = {})
Marking(p) == pc[p] \in {"bootmark", "mark"}

\* What p does once runtime.state is written; qddnsctl answers and ends.
AfterSave(p) ==
    CASE pc[p] = "boot" -> "bootmark"
      [] pc[p] = "run" /\ p = Daemon -> "mark"
      [] pc[p] = "run" /\ p # Daemon /\ op[p] = "once" -> "unmark"
      [] OTHER -> "down"

\* The daemon has used the time of its poll for the last time.
Proceed(p) ==
    /\ Goto(p, AfterSave(p))
    /\ pollNow' = IF p = Daemon THEN 0 ELSE pollNow
    /\ UNCHANGED <<op, mem, todo, job, wake, history>>

\* The whole file is replaced by the memory of p.  The lock file may stay
\* behind: StateLock::drop ignores a failure to delete it.
Save(p) ==
    /\ Saving(p)
    /\ ~wedged
    /\ file' = mem[p]
    /\ \/ UNCHANGED <<wedged, faults>>
       \/ wedged' = TRUE /\ Fault
    /\ IF AfterSave(p) = "down" THEN Exit(p) ELSE Proceed(p)
    /\ UNCHANGED <<clock, world, provider, marker>>

\* An orphan lock, the wait for a busy lock, or an error of the file system;
\* the sync of the directory fails after the rename.  The ? ends the process.
SaveFails(p) ==
    /\ Saving(p)
    /\ \/ wedged /\ UNCHANGED <<file, wedged, faults>>
       \/ ~wedged /\ Fault /\ file' \in {file, mem[p]} /\ wedged' \in BOOLEAN
    /\ Exit(p)
    /\ UNCHANGED <<clock, world, provider, marker>>

\* write_daemon_marker, and after it the sleep or the first poll.
Mark(p) ==
    /\ Marking(p)
    /\ ~wedged
    /\ marker' = TRUE
    /\ \/ UNCHANGED <<wedged, faults>>
       \/ wedged' = TRUE /\ Fault
    /\ \/ pc[p] = "bootmark" /\ Goto(p, "poll") /\ UNCHANGED wake
       \/ pc[p] = "mark" /\ Goto(p, "asleep") /\ wake' = Later(clock, Poll)
    /\ UNCHANGED <<clock, world, provider, file, op, mem, todo, job, pollNow, history>>

\* write_daemon_marker fails, or the log line "daemon started" after it.
MarkFails(p) ==
    /\ Marking(p)
    /\ \/ wedged /\ UNCHANGED <<marker, wedged, faults>>
       \/ ~wedged /\ Fault /\ marker' \in {marker, TRUE} /\ wedged' \in BOOLEAN
    /\ Exit(p)
    /\ UNCHANGED <<clock, world, provider, file>>

\* remove_daemon_marker, the last step of --once; it takes no lock.
Unmark(p) ==
    /\ pc[p] = "unmark"
    /\ \/ marker' = FALSE /\ UNCHANGED faults
       \/ UNCHANGED marker /\ Fault
    /\ Exit(p)
    /\ UNCHANGED <<clock, world, provider, file, wedged>>

-----------------------------------------------------------------------------
(* The daemon *)

\* procd starts qddnsd; an invalid configuration ends it at once.
Start ==
    /\ pc[Daemon] = "down"
    /\ valid
    /\ Begin(Daemon, "daemon", [Pruned(Loaded) EXCEPT !.running = TRUE], {}, "boot")
    /\ UNCHANGED <<clock, world, provider, disk, timing, history, faults>>

PollTime == pc[Daemon] = "poll" \/ (pc[Daemon] = "asleep" /\ clock >= wake)

\* Faulty variant: a poll keeps the entries of rules that were removed.
BeginPollUnpruned ==
    /\ PollTime
    /\ valid
    /\ Begin(Daemon, "daemon", [mem[Daemon] EXCEPT !.running = TRUE], Enabled, "run")
    /\ pollNow' = clock
    /\ wake' = 0
    /\ UNCHANGED <<clock, world, provider, disk, history, faults>>

\* The configuration is read anew, runtime.state is not.
BeginPoll ==
    /\ PollTime
    /\ valid
    /\ Begin(Daemon, "daemon", [Pruned(mem[Daemon]) EXCEPT !.running = TRUE], Enabled, "run")
    /\ pollNow' = clock
    /\ wake' = 0
    /\ UNCHANGED <<clock, world, provider, disk, history, faults>>

\* The configuration became invalid: the daemon ends.
PollRefused ==
    /\ PollTime
    /\ ~valid
    /\ Exit(Daemon)
    /\ UNCHANGED <<clock, world, provider, disk, faults>>

-----------------------------------------------------------------------------
(* qddnsctl and qddnsd --once; with an invalid configuration they do nothing *)

\* rules run and rules test: the rule is run whether enabled or not, due or not.
CliRun(p, r) ==
    /\ pc[p] = "down"
    /\ valid
    /\ Event
    /\ "run" \in CliOps
    /\ config[r] # "absent"
    /\ Begin(p, "run", Pruned(Loaded), {r}, "run")
    /\ UNCHANGED <<clock, setting, provider, disk, timing, history, faults>>

\* status, rules status, and rules run of a rule that does not exist: the file
\* is written back only if an entry was pruned.
CliLoad(p) ==
    /\ pc[p] = "down"
    /\ valid
    /\ Event
    /\ "load" \in CliOps
    /\ Pruned(Loaded) # Loaded
    /\ Begin(p, "load", Pruned(Loaded), {}, "run")
    /\ UNCHANGED <<clock, setting, provider, disk, timing, history, faults>>

CliOnce(p) ==
    /\ pc[p] = "down"
    /\ valid
    /\ Event
    /\ "once" \in CliOps
    /\ Begin(p, "once", [Pruned(Loaded) EXCEPT !.running = FALSE], Enabled, "run")
    /\ UNCHANGED <<clock, setting, provider, disk, timing, history, faults>>

-----------------------------------------------------------------------------
(* The environment *)

Tick ==
    /\ clock < MaxTime
    /\ clock' = clock + 1
    /\ UNCHANGED <<world, provider, disk, pc, op, mem, todo, job, timing, history, faults>>

\* The process is killed.  A write in progress has or has not replaced its
\* file and leaves the lock file if it had created it; an update in progress
\* has reached the provider, does so later, or never.
Kill(p) ==
    /\ pc[p] # "down"
    /\ file' \in IF Saving(p) /\ ~wedged THEN {file, mem[p]} ELSE {file}
    /\ marker' \in IF Marking(p) /\ ~wedged THEN {marker, TRUE}
                   ELSE IF pc[p] = "unmark" THEN {marker, FALSE} ELSE {marker}
    /\ wedged' \in IF Saving(p) \/ Marking(p) THEN {wedged, TRUE} ELSE {wedged}
    /\ IF pc[p] = "update" THEN GivenUp(p) ELSE UNCHANGED provider
    /\ Exit(p)

Crash(p) ==
    /\ Kill(p)
    /\ Fault
    /\ UNCHANGED <<clock, world>>

\* The processes whose lookup found no record of r, about to create one.
Creating(r) == {p \in Proc : pc[p] = "update" /\ job[p].rule = r /\ job[p].seen = None}

\* An update reaches the provider after its run has ended, whatever runs have
\* looked up or pushed since.
Arrive(u) ==
    /\ late[u] > 0
    /\ late' = [late EXCEPT ![u] = @ - 1]
    /\ records' = Applied(u)
    /\ overtaken' = overtaken \cup {u.rule}
    /\ strays' = IF u.create /\ (records[u.rule] # <<>> \/ Creating(u.rule) # {})
                 THEN [strays EXCEPT ![u.rule] = @ + 1] ELSE strays
    /\ UNCHANGED <<clock, world, disk, pc, op, mem, todo, job, timing, ran, faults>>

\* The address of the interface or of the host changes.
ChangeAddr(a) ==
    /\ Event
    /\ a # addr
    /\ addr' = a
    /\ UNCHANGED <<clock, config, valid, provider, disk, pc, op, mem, todo, job, timing, history, faults>>

\* The configurations that differ from the present one in one rule.
Edited ==
    {[config EXCEPT ![r] = c] : r \in Rule, c \in {"absent", "disabled", "enabled"}} \ {config}

\* A rule is added, removed, enabled or disabled, or the file is spoilt or
\* repaired, by an editor that does not tell procd.
EditConfig ==
    /\ Event
    /\ \/ config' \in Edited /\ UNCHANGED valid
       \/ valid' = ~valid /\ UNCHANGED config
    /\ UNCHANGED <<clock, addr, provider, disk, pc, op, mem, todo, job, timing, history, faults>>

\* A rule is edited through uci: the reload trigger of procd restarts the
\* daemon, in whatever it was doing.
ApplyConfig ==
    /\ Event
    /\ valid
    /\ config' \in Edited
    /\ Kill(Daemon)
    /\ UNCHANGED <<clock, addr, valid, faults>>

\* runtime.state is damaged by something other than these processes.
Damage ==
    /\ Fault
    /\ file' = Corrupt
    /\ UNCHANGED <<clock, world, provider, marker, wedged, pc, op, mem, todo, job, timing, history>>

\* The router has stopped every process and restarts: /var/run is empty, the
\* lock file gone.
Reboot ==
    /\ \A p \in Proc : pc[p] = "down"
    /\ Fault
    /\ file' = Missing
    /\ marker' = FALSE
    /\ wedged' = FALSE
    /\ UNCHANGED <<clock, world, provider, pc, op, mem, todo, job, timing, history>>

\* The clock is set back; a sleep in progress is not affected.
StepBack ==
    /\ StepBacks
    /\ Fault
    /\ \E back \in 1 .. clock :
          /\ clock' = clock - back
          /\ wake' = IF wake > back THEN wake - back ELSE 0
    /\ UNCHANGED <<world, provider, disk, pc, op, mem, todo, job, pollNow, history>>

-----------------------------------------------------------------------------

\* What a process does by itself once it has been started.
Work(p) ==
    \/ \E r \in Rule : Skip(p, r) \/ Resolve(p, r) \/ ResolveFails(p, r)
    \/ FetchMatches(p) \/ FetchDiffers(p) \/ FetchFails(p)
    \/ Update(p) \/ UpdateFails(p)
    \/ Save(p) \/ SaveFails(p) \/ Mark(p) \/ MarkFails(p) \/ Unmark(p)

DaemonStep == Start \/ BeginPoll \/ PollRefused \/ Work(Daemon)

CliStep(p) == (\E r \in Rule : CliRun(p, r)) \/ CliLoad(p) \/ CliOnce(p) \/ Work(p)

Environment ==
    \/ Tick
    \/ \E p \in Proc : Crash(p)
    \/ \E u \in Request : Arrive(u)
    \/ \E a \in Addr : ChangeAddr(a)
    \/ EditConfig \/ ApplyConfig \/ Damage \/ Reboot \/ StepBack

Next == DaemonStep \/ (\E p \in Cli : CliStep(p)) \/ Environment

\* Time passes, procd starts the daemon again, and the daemon, whose requests
\* and waits all have a timeout, keeps working.  Nothing is assumed of
\* qddnsctl, which may stop half-way for good.
Fairness == WF_vars(Tick) /\ WF_vars(DaemonStep)

Spec == Init /\ [][Next]_vars /\ Fairness
-----------------------------------------------------------------------------
(* What holds of the states the processes exchange *)

\* The entry of rule r in the content f of runtime.state, if there is one.
EntryIn(f, r) == IF f \in {Missing, Corrupt} THEN None ELSE f.rules[r]

\* Every entry of a rule anywhere: in the file and in the memories.
Entries ==
    ({EntryIn(file, r) : r \in Rule} \cup {mem[p].rules[r] : p \in Proc, r \in Rule}) \ {None}

\* Wherever an entry is found, whichever process computed it and whatever was
\* lost in between, an error has been counted, a success has restarted the
\* count, and only the first retry_count failures in a row are retried after
\* retry_backoff; a rule is never scheduled for a time that has no limit.
RetryLaw ==
    \A e \in Entries :
        /\ e.status \in {"success", "error"}
        /\ e.status = "error" <=> e.retry_attempts > 0
        /\ e.status = "error" <=> e.last_result = "error"
        /\ e.last_check # None
        /\ e.next_run = Later(e.last_check, IF e.retry_attempts \in 1 .. RetryCount
                                            THEN RetryBackoff ELSE CheckInterval)

\* An entry that says synchronised and tells of a push was pushed less than
\* force_interval before its last check: force_interval is honoured across
\* restarts, failures, damaged files and the manual runs of other processes.
SuccessIsRecentlyPushed ==
    \A e \in Entries :
        e.status = "success" /\ e.last_update # None =>
            e.last_check - e.last_update < ForceInterval

\* The records of a rule that its runs did not find when they created another
\* one are accounted for: one per process, since the lookup and the creation
\* are apart, and one for each creation that was given up and reached the
\* provider only after the rule had a record or another run was creating one.
RecordsBounded == \A r \in Rule : Len(records[r]) <= Cardinality(Proc) + strays[r]

\* With the daemon alone: what it reports of a rule it has run since it started,
\* and is not just running, is what the provider answers, after any failures,
\* kills and lost answers, unless an update it had given up has come through
\* since its last lookup.
ReportedAddressIsPublished ==
    \A r \in ran \ (overtaken \cup {job[Daemon].rule}) :
        LET e == mem[Daemon].rules[r] IN
        e # None /\ e.status = "success" => Lookup(r) = e.current_ip

Reached(t) == IF t = None THEN -1 ELSE t

\* With the daemon alone and a clock that is not set back: as long as an entry
\* is in the file its last check and its last push never go back, so neither a
\* restart nor a write that failed replaces it by an older one.
ReportsNeverRegress ==
    [][\A r \in Rule :
          LET before == EntryIn(file, r)
              after  == EntryIn(file', r)
          IN  before # None /\ after # None =>
                  /\ Reached(before.last_check) <= Reached(after.last_check)
                  /\ Reached(before.last_update) <= Reached(after.last_update)]_vars

\* With a clock that is not set back: no rule waits longer than the longer of
\* its two delays, so whatever the file says when the daemon starts, an address
\* change is noticed within a bounded time.
NoRunPostponed ==
    \A e \in Entries :
        \/ e.next_run <= clock + CheckInterval
        \/ e.next_run <= clock + RetryBackoff

\* The service can work: no orphan lock file, a configuration that is accepted.
Healthy == ~wedged /\ valid

\* Once failures and changes have ceased, and if the service can work, the
\* record of every enabled rule holds the address of its source and keeps it,
\* even against manual runs that still hold an older address.
Converges ==
    <>[]Healthy => <>[](\A r \in Enabled : Lookup(r) = addr)

\* The entry of a rule that is no longer configured disappears for good, even
\* if a manual run or a status request that loaded it earlier writes it back.
DeletedRulesVanish ==
    \A r \in Rule :
        <>[](Healthy /\ config[r] = "absent") => <>[](EntryIn(file, r) = None)

-----------------------------------------------------------------------------
(* What a test or its message says of the program, and the code does not do *)

\* tests/runtime_persistence.rs: "manual run must not mark daemon stopped".
\* The state a manual run writes was loaded before the daemon wrote its own.
ManualRunKeepsDaemonRunning ==
    [][\A p \in Cli :
          /\ op[p] = "run" /\ Saving(p) /\ pc'[p] = "down"
          /\ file \notin {Missing, Corrupt} /\ file' \notin {Missing, Corrupt}
          => (file.running => file'.running)]_vars
=============================================================================
