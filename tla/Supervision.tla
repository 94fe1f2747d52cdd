------------------------------- MODULE Supervision -------------------------------
(***************************************************************************)
(* The service: the init script, procd, and what of the daemon depends on    *)
(* the configuration.  The script reads the file twice, by qddnsctl and by    *)
(* UCI, and again if it restarts; the daemon reads it when it starts and at    *)
(* every poll; LuCI and editors change it at any time.  procd is external:     *)
(* it serialises the script, forgets a stopped service with its trigger,      *)
(* starts a daemon that has exited anew, and gives up after Retry quick exits.*)
(***************************************************************************)
EXTENDS Config, FiniteSets

CONSTANTS
    Files,      \* what /etc/config/qddns may be
    NoFile,     \* the daemon holds no configuration
    Retry,      \* the respawn limit (5)
    MaxFaults,  \* bound on kills
    MaxEvents   \* bound on what users do

ASSUME SupervisionAssumption ==
    /\ NoFile \notin Files
    /\ Retry \in Nat
    /\ MaxFaults \in Nat
    /\ MaxEvents \in Nat

VARIABLES
    file,        \* /etc/config/qddns
    broken,      \* what is amiss: the binaries, the directories
    applied,     \* whether procd or a user has asked for the file as it is
    notice,      \* procd has to run the script's reload
    registered,  \* procd knows the service and its trigger
    task,        \* the command the init script runs
    at,          \* where it stands
    was,         \* was_running
    enabled,     \* main_enabled
    instance,    \* procd's instance
    quick,       \* quick exits in a row
    pc,          \* where the daemon stands
    conf,        \* the configuration of its poll
    overlooked,  \* history: the last command found no daemon while procd was to start one
    faults, events

\* The files qddnsctl validate accepts, with what they say.
Parsed == [f \in {g \in Files : Parses(g)} |-> ConfigOf(f)]
Acceptable == {f \in DOMAIN Parsed : Validate(Parsed[f])}

script == <<task, at, was, enabled>>
service == <<registered, instance, quick>>
daemon == <<pc, conf>>
setting == <<file, broken, applied, notice>>
vars == <<setting, script, service, daemon, overlooked, faults, events>>

\* Type invariant, with what the parts of the service know of each other: a
\* command of the script stands somewhere, procd's instance has a process.
TypeOK ==
    /\ file \in Files
    /\ broken \subseteq {"binary", "dir"}
    /\ applied \in BOOLEAN
    /\ notice \in BOOLEAN
    /\ registered \in BOOLEAN
    /\ task \in {"none", "reload", "start"}
    /\ at \in {"idle", "validate", "load", "dirs", "decide"}
    /\ was \in BOOLEAN
    /\ enabled \in BOOLEAN
    /\ instance \in {"none", "running", "waiting", "failed"}
    /\ quick \in 0 .. Retry + 1
    /\ pc \in {"down", "boot", "poll", "work"}
    /\ conf \in Files \cup {NoFile}
    /\ overlooked \in BOOLEAN
    /\ task = "none" <=> at = "idle"
    /\ was => task = "reload"
    /\ ~enabled => at = "decide"
    /\ instance = "running" <=> pc # "down"
    /\ conf # NoFile <=> pc = "work"
    /\ instance # "none" => registered
    /\ faults \in 0 .. MaxFaults
    /\ events \in 0 .. MaxEvents

\* The system boots: rc.d starts the service.
Init ==
    /\ file \in Files
    /\ broken = {}
    /\ applied = TRUE /\ notice = FALSE
    /\ registered = FALSE /\ instance = "none" /\ quick = 0
    /\ task = "start" /\ at = "validate" /\ was = FALSE /\ enabled = TRUE
    /\ pc = "down" /\ conf = NoFile
    /\ overlooked = FALSE
    /\ faults = 0 /\ events = 0

Event == events < MaxEvents /\ events' = events + 1

\* What config_get_bool of UCI finds: sections of one name are one section.
UciEnabled(f) ==
    LET s == Sections(f)
        main == {h \in DOMAIN s : s[h].name = "main"}
    IN ~Spells(LastSaid(s, main, "enabled", None), Falsehoods)

Loadable == {f \in Files : WellFormed(f)}
Enabled == {f \in Loadable : UciEnabled(f)}

-----------------------------------------------------------------------------
(* procd *)

Gone == pc' = "down" /\ conf' = NoFile
Spawned == instance' = "running" /\ pc' = "boot" /\ conf' = NoFile

\* procd_kill: the service goes, and its trigger.
Removed == instance' = "none" /\ quick' = 0 /\ registered' = FALSE /\ Gone

\* A service whose start opened no instance keeps its trigger.
Emptied == instance' = "none" /\ quick' = 0 /\ registered' = TRUE /\ Gone

\* The instance of a start.  One that runs is left alone or, if the file has
\* changed, restarted.
Opened ==
    /\ registered' = TRUE
    /\ quick' = quick
    /\ \/ Spawned
       \/ instance = "running" /\ UNCHANGED <<instance, daemon>>

\* The daemon has exited.  An exit soon after the start counts.
Exited ==
    /\ Gone
    /\ \/ quick' = IF quick > Retry THEN quick ELSE quick + 1
       \/ pc # "boot" /\ quick' = 0
    /\ instance' = IF quick' > Retry THEN "failed" ELSE "waiting"
    /\ UNCHANGED registered

Respawn ==
    /\ instance = "waiting"
    /\ Spawned
    /\ UNCHANGED <<setting, script, registered, quick, overlooked, faults, events>>

-----------------------------------------------------------------------------
(* The init script *)

Call(command) ==
    /\ task = "none"
    /\ task' = command
    /\ at' = "validate"
    /\ was' = (command = "reload" /\ instance = "running")
    /\ enabled' = TRUE

Back == task' = "none" /\ at' = "idle" /\ was' = FALSE /\ enabled' = TRUE

\* The reload trigger.
Triggered ==
    /\ notice
    /\ notice' = FALSE
    /\ Call("reload")
    /\ UNCHANGED <<file, broken, applied, service, daemon, overlooked, faults, events>>

\* prepare_runtime returns 1: a reload leaves the daemon alone, a start has
\* opened no instance.
Refuse ==
    /\ Back
    /\ IF task = "start" THEN Emptied ELSE UNCHANGED <<service, daemon>>
    /\ UNCHANGED <<setting, overlooked, faults, events>>

Go(to) ==
    /\ at' = to
    /\ UNCHANGED <<setting, task, was, service, daemon, overlooked, faults, events>>

\* ensure_binary and qddnsctl validate.
ValidateConfig ==
    /\ at = "validate"
    /\ IF "binary" \notin broken /\ file \in Acceptable
       THEN Go("load") /\ UNCHANGED enabled
       ELSE Refuse

LoadMainConfig ==
    /\ at = "load"
    /\ IF file \in Loadable
       THEN enabled' = (file \in Enabled) /\ Go(IF enabled' THEN "dirs" ELSE "decide")
       ELSE Refuse

EnsureRuntimeDirs ==
    /\ at = "dirs"
    /\ IF "dir" \notin broken THEN Go("decide") /\ UNCHANGED enabled ELSE Refuse

\* Faulty variant: a disabled service is left running.
ReloadIgnoringDisabled ==
    /\ at = "decide" /\ task = "reload"
    /\ overlooked' = (~enabled /\ ~was /\ instance \in {"running", "waiting"})
    /\ IF enabled /\ was THEN Removed ELSE UNCHANGED <<service, daemon>>
    /\ IF enabled
       THEN task' = "start" /\ at' = "validate" /\ was' = FALSE /\ UNCHANGED enabled
       ELSE Back
    /\ UNCHANGED <<setting, faults, events>>

\* Faulty variant: a reload only restarts what runs.
ReloadStartsNone ==
    /\ at = "decide" /\ task = "reload"
    /\ overlooked' = (~enabled /\ ~was /\ instance \in {"running", "waiting"})
    /\ IF was THEN Removed ELSE UNCHANGED <<service, daemon>>
    /\ IF enabled /\ was
       THEN task' = "start" /\ at' = "validate" /\ was' = FALSE /\ UNCHANGED enabled
       ELSE Back
    /\ UNCHANGED <<setting, faults, events>>

\* Faulty variant: the start of a restart takes itself for the reload.
ReloadKeepsWas ==
    /\ at = "decide" /\ task = "reload"
    /\ overlooked' = (~enabled /\ ~was /\ instance \in {"running", "waiting"})
    /\ IF was THEN Removed ELSE UNCHANGED <<service, daemon>>
    /\ IF enabled
       THEN task' = "start" /\ at' = "validate" /\ UNCHANGED <<was, enabled>>
       ELSE Back
    /\ UNCHANGED <<setting, faults, events>>

\* reload_service: stop, restart or start; a restart prepares again.
Reload ==
    /\ at = "decide" /\ task = "reload"
    /\ overlooked' = (~enabled /\ ~was /\ instance \in {"running", "waiting"})
    /\ IF was THEN Removed ELSE UNCHANGED <<service, daemon>>
    /\ IF enabled
       THEN task' = "start" /\ at' = "validate" /\ was' = FALSE /\ UNCHANGED enabled
       ELSE Back
    /\ UNCHANGED <<setting, faults, events>>

\* start_service.
StartService ==
    /\ at = "decide" /\ task = "start"
    /\ IF enabled THEN Opened ELSE Emptied
    /\ overlooked' = FALSE
    /\ Back
    /\ UNCHANGED <<setting, faults, events>>

Script == ValidateConfig \/ LoadMainConfig \/ EnsureRuntimeDirs \/ Reload \/ StartService

-----------------------------------------------------------------------------
(* The daemon *)

Exit ==
    /\ Exited
    /\ UNCHANGED <<setting, script, overlooked, faults, events>>

\* Until the first poll: load, validate, make the directories, save.
Boot ==
    /\ pc = "boot"
    /\ IF broken = {} /\ file \in Acceptable
       THEN /\ pc' = "poll"
            /\ UNCHANGED <<setting, script, service, conf, overlooked, faults, events>>
       ELSE Exit

\* Faulty variant: a poll does not validate what it loads.
PollParsedOnly ==
    /\ pc = "poll"
    /\ IF file \in DOMAIN Parsed
       THEN /\ pc' = "work" /\ conf' = file
            /\ UNCHANGED <<setting, script, service, overlooked, faults, events>>
       ELSE Exit

\* A poll begins: load and validate.  main.enabled is not looked at.
Poll ==
    /\ pc = "poll"
    /\ IF file \in Acceptable
       THEN /\ pc' = "work" /\ conf' = file
            /\ UNCHANGED <<setting, script, service, overlooked, faults, events>>
       ELSE Exit

\* The rules have run; the save ends the poll, or the daemon.
EndPoll ==
    /\ pc = "work"
    /\ IF "dir" \notin broken
       THEN /\ pc' = "poll" /\ conf' = NoFile
            /\ UNCHANGED <<setting, script, service, overlooked, faults, events>>
       ELSE Exit

Kill ==
    /\ pc # "down"
    /\ faults < MaxFaults
    /\ faults' = faults + 1
    /\ Exited
    /\ UNCHANGED <<setting, script, overlooked, events>>

-----------------------------------------------------------------------------
(* Users *)

\* LuCI or an editor writes the file.  A commit tells procd, which runs the
\* reload if it knows the service.
Edit ==
    /\ Event
    /\ file' \in Files \ {file}
    /\ \E committed \in BOOLEAN :
          /\ applied' = (committed /\ registered)
          /\ notice' = (notice \/ (committed /\ registered))
    /\ UNCHANGED <<broken, script, service, daemon, overlooked, faults>>

\* A directory or a binary is lost, as during an upgrade, or comes back.
Alter ==
    /\ Event
    /\ broken' \in {{}, {"binary"}, {"dir"}} \ {broken}
    /\ applied' = FALSE
    /\ UNCHANGED <<file, notice, script, service, daemon, overlooked, faults>>

Command ==
    /\ Event
    /\ \E command \in {"reload", "start"} : Call(command)
    /\ applied' = TRUE
    /\ UNCHANGED <<file, broken, notice, service, daemon, overlooked, faults>>

Stop ==
    /\ Event
    /\ task = "none"
    /\ Removed
    /\ applied' = FALSE
    /\ UNCHANGED <<file, broken, notice, script, overlooked, faults>>

Daemon == Boot \/ Poll \/ EndPoll
System == Triggered \/ Script \/ Respawn
Next == System \/ Daemon \/ Kill \/ Edit \/ Alter \/ Command \/ Stop

\* Commands of the script end, and each part of the system goes on.
Fairness == WF_vars(Triggered) /\ WF_vars(Script) /\ WF_vars(Respawn) /\ WF_vars(Daemon)

SafeSpec == Init /\ [][Next]_vars
Spec == SafeSpec /\ Fairness

-----------------------------------------------------------------------------
(* Properties *)

\* What run_rule checks again of a rule before it resolves an address: source and
\* provider exist, and the families of source and rule agree, with that of the
\* address itself where a local source has one that is an address.
Runnable(c, n) ==
    /\ Bound(c, n)
    /\ LET rule == c.rules[n]
           family == LocalFamily(c.sources[rule.source])
       IN family # None => Publishable(rule, family[1])

\* Its provider has the credentials its type requires; custom_http requires none.
Supplied(c, n) ==
    LET p == c.providers[c.rules[n].provider] IN
    \A k \in Credentials[p.type] : Filled(p, k)

\* Whatever was edited since the daemon started, what a poll works with has passed
\* the checks of the file: every enabled rule has a source and a provider, of its
\* family, and the provider its credentials, so that no run ends at
\* get_provider_and_source or validate_rule_family.  validate asks no more: a
\* local_addr without address, a script without path, a dhcpv6 source without duid
\* or mac and a custom_http without url are accepted, and such a rule fails at
\* every run.
PollsAreRunnable ==
    pc = "work" =>
        \A n \in EnabledRules(Parsed[conf]) :
            Runnable(Parsed[conf], n) /\ Supplied(Parsed[conf], n)

Sound == broken = {} /\ file \in Acceptable

\* An accepted, enabled configuration that was applied runs, whatever edits,
\* failed reloads, restarts and exits came before, unless procd has given up.
AppliedConfigRuns ==
    <>[](applied /\ Sound /\ file \in Enabled /\ instance # "failed")
        => []<>(pc = "work" /\ conf = file)

\* One that was applied and disables the service stops the daemon, unless the
\* reload fell between an exit and the respawn, where it saw no daemon.
DisabledStops ==
    <>[](applied /\ Sound /\ file \notin Enabled /\ ~overlooked) => <>[](pc = "down")
=============================================================================
