# A verification project for qddns

qddns keeps DNS records equal to the addresses of an OpenWrt router and of the
hosts behind it. `qddnsd` runs the configured rules at their intervals,
`qddnsctl` runs single rules and answers LuCI, an init script lets procd
supervise the daemon. This directory holds TLA+ specifications of that program,
the TLC configurations that check them on small instances, and proofs for every
value of the constants.

    tlc -config MCStateStore.cfg MCStateStore
    tlc -config MCQddnsDaemon.cfg MCQddns       # and the other MCQddns*.cfg
    tlc -config MCProviderRace.cfg MCProvider   # and MCProviderZone.cfg
    tlc -config MCSources.cfg MCSources
    tlc -config MCSupervision.cfg MCSupervision
    tlc -config MCHosts.cfg MCHosts
    tlc -config MCLogs.cfg MCLogs               # and MCLogsRead.cfg
    tlapm StateStoreProofs.tla                  # and QddnsProofs, ReportProofs,
                                                # ProviderProofs, SourcesProofs,
                                                # SupervisionProofs, HostsProofs,
                                                # LogsProofs

## Inventory

| Part | State it keeps | Operations | Talks to | What is hard |
|---|---|---|---|---|
| State store (`state.rs`) | `runtime.state`, `daemon.status`, `.runtime.state.lock`, temporary files | `read_runtime`, `write_runtime`, `write_daemon_marker`, `remove_daemon_marker` | the file system | several writers, kill and power loss between two system calls, errors ignored by a destructor |
| Daemon loop (`daemon.rs`, `bin/qddnsd.rs`) | the `RuntimeState` in memory | start, poll, run a due rule, save, mark, sleep, `--once` | store, runner, configuration | loads the file once and then only overwrites it; dies on the first failed save or invalid configuration |
| Rule runner (`runner.rs`, `run_rule_once_with_runtime`) | one `RuleState` per rule | resolve, fetch, decide, update, account for failures | sources, providers | time captured at the start, forced updates, retry accounting |
| `qddnsctl` (`cli.rs`) | none between commands | `rules run/test`, `status`, `rules status`, read-only commands | store, runner | writes back a whole file loaded before slow requests |
| Status view (`state.rs`) | none | `runtime_status_json`, `rule_recent_time` | LuCI | ordering and truncation of results |
| Providers and HTTP (`provider/`, `http.rs`) | the records at the provider | lookup with retries, update by id or creation | HTTP | lost answers, non-idempotent updates, two writers |
| Sources (`source.rs`) | none | resolve, select among DHCPv6 candidates and prefixes | kernel, lease file, scripts | tables read at different moments, commands that fail, block or leave processes behind |
| Hosts (`leases.rs`, `discover.rs`, `network.rs`) | none | `qddnsctl leases` | kernel, lease files of odhcpd and dnsmasq, `ping6` | four tables joined while hosts come and go, limits on entries and prefixes, concurrent pings |
| Configuration (`config.rs`) | `/etc/config/qddns` | parse, validate | UCI, everything above | edited while the daemon runs, duplicate sections, families that only disagree across sections |
| Log store (`logstore.rs`) | log files | append, tail | daemon, LuCI | several writers without a lock, an append cut off in the middle |
| Init script (`qddns.init`) | procd's instance | start, reload, stop | procd | reads the file twice, kills the daemon at any point, respawn limit, a trigger that goes with the service |
| rpcd bridge (`qddns.uc`) | temporary configuration drafts | LuCI methods | `qddnsctl` | cleanup on failure |
| LuCI (`rules.js`, ...) | form and probe state | wizard, probes, edits | rpcd bridge | late answers, half-saved wizards |

Correctness, part by part:

* store: readers find whole files; writers exclude each other; Ok means on disk; every call ends;
* runner and daemon: failures in a row are counted and retried as configured, a
  success was pushed recently enough, a reported address is the published one,
  no duplicate records, enabled rules converge, deleted ones disappear;
* daemon and `qddnsctl` together: what one overwrites of the other is repaired
  by later polls and never inconsistent in itself;
* providers: a lookup may be repeated, an update may not; at most one record per writer;
* sources: an address that is answered was right during the run, the preference
  among tables is kept, old prefixes are given up, every command is bounded;
* hosts: what the list says of a host was observed, and a lease is not crowded out;
* configuration: of what is accepted, references, families and credentials are
  right, whichever section a mistake is in;
* init script, procd and daemon: what was applied runs, what was disabled stops;
* log store: fragments cost no entry that is appended after them, a damaged log heals;
* status view: the overview leaves no result out that a rule's own page shows, but
  for newer ones;
* wizard and bridge: what is saved is what was probed; a failure leaves no half of it.

`PROJECT.json` lists the hazards at their lines with the properties that cover
them, and those that no module covers yet.

## Modules

**AtomicStore** is what the store promises: two files, each replaced as a whole
between a request and its answer; `Ok` only after the directory is on disk; a
failed or killed call has replaced its file completely or not at all.

**StateStore** is `state.rs`, one action per system call. `lock`, `visible`
and `tmp` are the files of the directory; `hard`, `durable` and `durableLock`
say what a power loss would leave, under the guarantees of `fsync` on files and
directories. `pc`, `call`, `tries` and `outcome` are the local state of each
process inside `write_runtime`, `write_daemon_marker` (the same steps) or
`remove_daemon_marker` (no lock). `IOError` is the `?` after each call,
`DropLock` is `StateLock::drop`, which ignores its own failure. A killed
process, a failed `drop` and a power loss can leave an `Orphan` lock file. Reads
are not actions: a reader sees `visible` at one moment. It implements
AtomicStore under the mapping at its end.

**RuleRun** holds the pure part of a run: the next `RuleState` after an
unchanged, a pushed and a failed run, `should_force_update`, the retry count
and delay, and when a rule is due.

**Qddns** composes the daemon (`Start`, the boot save and marker, `BeginPoll`,
`Skip`, the run of a rule, `Save`, `Mark`, sleep) and `qddnsctl` processes
(`CliRun`, `CliLoad`, `CliOnce`) over one file. Each process has a memory `mem`,
the rules it still has to visit `todo`, and a run in progress `job` with the
time, the address and the lookup it captured; resolve, fetch and update are
separate steps, so other processes, address changes, edits and kills happen
between them. A write is one step, which is sound by StateStore; what matters of
its failures is kept: the old or the new file, and an orphan lock (`wedged`)
after which every write fails. A run at the provider looks at the oldest
record, rewrites it by its id, or creates one if the lookup saw none. An update the
run gives up (`GivenUp`: an error, a timeout, a kill) has been applied, is refused,
or goes into the bag `late`, from which it reaches the provider at any later time
(`Arrive`), after other runs have looked up or pushed. Loading the configuration and loading the state are one step, since no step of another
process could tell the two apart but by an edit that falls exactly between.

The environment changes addresses, edits the configuration with or without a
reload by procd, kills processes, damages the file, restarts the router, and
may set the clock back. `ran`, `overtaken` (rules a late update has reached since the
daemon looked) and `strays` (late creations that found a rule served) are history
variables.

**DnsRecords** has the records of a zone, what a lookup shows of them and what an
update asks for. **RecordService** is what Qddns takes a run at the provider to
be: one look at the record, then at most one update, which may be applied without
the client learning it or arrive late.

**Provider** is one run request by request, for the four kinds of provider
(`cloudflare.rs`, `dnspod.rs`, `aliyun.rs`, `custom_http.rs`) over the retries of
`http.rs`. `stage` is the request a client is at (cloudflare looks the zone up,
then the record, then the zone again, the others need one lookup), `conn` what
became of it, `attempt` the attempt; `view` is the `RemoteRecord`. `Retry` and
`GiveUp` are the loop of `execute_with_interface`, which an update passes once.
`Listed` is what the provider is trusted to filter, `Extract` what the code
filters itself; aliyun's `Rr` stands for the conversion of "@" to the empty name,
under which the service is trusted to list the record again. Nothing but
NameAssumption keeps a rule with an empty name from meaning the same record:
`get_required_string` does not refuse one. An update that was given up stays in `late` and may arrive after
later runs. A 2xx answer without an error in it is trusted to mean that the
update was applied, and a custom_http provider to have a `lookup_url`: without
one, its lookups go to the URL of the update. Others add and remove records and
edit them in place, so that an id may come to name a record of another rule.
`sent`, `applied`, `extra` and `edited` are history. It implements RecordService: `zone` and an unanswered `list` are the
look, `zone2` belongs to what was seen, an update is asked, applied or dropped.
Qddns makes RecordService's steps its own, with one record per rule that a lookup
sees, and any number of late updates.

**Dhcpv6** is the selection in `source.rs` as operators. An address has three
parts, the network, the /64 in it and the interface identifier, and a prefix
fixes the first `len` of them; that is all the code distinguishes. A place in
the list of candidates is a place in the leases, then in the neighbours, then
in the prefixes from which an address is computed (EUI-64). The removal of
duplicates is left out: it never changes the first candidate that fits.

**Sources** is `resolve_source` for the kinds that read the router's tables, with
`command_output_with_timeout` inside. `stage` is the command it is at, `todo` the
interface; `child`, `held` and `due` are the process, whether something else
holds its output open, and whether five seconds are over. `leases`, `near`, `wan`
and `found` are the local variables of the functions. `Begin` reads the lease
file and starts the first command, `NextRoute` goes to the next interface, to
the neighbours, or to the selection, `Abort` is every `?`. The router (external)
changes its tables between any two steps. `during` is a history variable: the
states of the router since the run began.

**StatusView** is `runtime_status_json` and the page of a rule as operators over
the file, the configuration and the order of `rule_recent_time`, checked in every
state of Qddns: the file may be missing or corrupt, older than the configuration
or ahead of it. The place of an entry after `sort_by` is the number of entries
that precede it (`Rank`), of which there are finitely many. `OverviewState` is the
`unwrap_or_default` of `cli.rs:139`: with a configuration that is refused, or an
entry to prune and a write that fails (always, behind an orphan lock), the overview
is printed empty, where the page of a rule answers the error.

**Config** is `config.rs`: from the lines of a file to its sections
(`WellFormed`, `Sections`, `Options`), the checks of `parse_uci` (`SectionOK`), the
`Config` with its defaults and duplicates (`ConfigOf`), `Validate`, and the
checks the runner makes once more (`Bound`, `Publishable`). A file is a sequence
of token sequences, so the parser is modelled but for `split_uci_tokens`; which
texts are numerals, addresses or URLs are parameters.

**Supervision** uses Config for the service. `task` and `at` are the command of
the init script and its line: `prepare_runtime` is `ValidateConfig`,
`LoadMainConfig` and `EnsureRuntimeDirs`, which read the file again and fail
separately; `Reload` and `StartService` decide by `was` and `enabled`, the shell
variables. A reload that finds a running daemon stops it and goes through the
preparation a second time. `instance`, `quick`, `registered` and `notice` are
procd's (external): instance, exits in a row, whether the service and its trigger
exist, a pending trigger. Of the daemon it keeps what depends on the file, `Boot`,
`Poll` and `EndPoll`. Users edit the file with or without a commit, give
commands, and lose or restore directories and binaries between any two steps.

**Hosts** is `list_leases`. `entries` is the map by MAC that the functions
`add_*` extend, one action per table, each of which is read at its own moment;
`ReadRoutes`, `ReadTargets` and `PingEnds` are `discover_slaac` with a thread per
ping. `Push` is `push_prefix` with its limit, for all prefixes that a table offers
to a host, in the order of its rows and of the places within a row (`Before`):
those that are new and stand before the limit (`New`, `Fits`) are taken.
`AddOdhcpd` stops at MAX_ENTRIES (`Taken`) and takes the first eight public
prefixes of a line (`PublicOf`).

**Logs** is one log file under `append_log` and `read_logs`. `writeln!` on an
unbuffered file makes a write for each part of a line, so an append is three
actions (`Begin`, `WriteText`, `EndLine`) that interleave with those of another
process, and `Break` cuts it off anywhere. `whole` and `alone` are history: the
last appends that nobody disturbed. TailIntact says where these stand; `read_logs`
answers an error as long as a bad line is among the last it reads.

**StateStoreProofs**, **QddnsProofs**, **ReportProofs** (Qddns and StatusView),
**ProviderProofs**, **SourcesProofs**, **SupervisionProofs** (Config and Supervision),
**HostsProofs** and **LogsProofs** hold the theorems; the modules whose names begin
with **MC** are what the configurations instantiate. Definitions marked "Faulty
variant" are not part of a specification: each is a plausible bug, and the
property it is paired with in `PROJECT.json` fails if it replaces the original.

## Runs

| Run | Instance | Shows |
|---|---|---|
| store | 2 processes, 2 runtime documents, 1 marker, 2 attempts for the lock | exclusion, whole documents, durability, the effect of an orphan lock, termination of every call, refinement of AtomicStore |
| daemon | daemon alone, 1 rule, 2 addresses, 4 moments, 4 faults, 1 change | the retry law past `RetryCount` and up to saturation, honest reports, no regress of the file |
| shared | daemon and 1 other process with all commands, 2 rules, 1 address, 3 moments, 1 fault, 1 event | forced pushes, records bounded by processes and late creations, no postponed run, overview and pages agree |
| converge | daemon and 1 `qddnsctl`, 1 rule, 2 addresses, 2 moments, 1 fault, 2 events, clock may go back | convergence and disappearance of deleted rules |
| provider_race | 2 clients, 1 rule, cloudflare and custom_http, 1 retry, 2 events | an update is sent once, results are honest, duplicates are bounded, refinement of RecordService |
| provider_zone | 1 client, 3 rules that differ in name or type only, one for the zone itself, 4 kinds, 1 retry, 1 event | records of other rules are left alone, every run ends |
| sources | 12 sources, 3 interfaces, 7 states of a router that is renumbered, 2 changes | grounded answers, leases first, old prefixes given up, bounded commands |
| supervision | 15 files, respawn limit 2, 1 kill, 3 events | polls only have rules that passed the checks of the file, an applied configuration runs, a disabled service stops |
| hosts | 3 hosts, 5 lease holders, 4 states of the tables, 2 changes, limits of 3 | what is listed was observed, a lease is not crowded out |
| logs | 2 writers, a tail of 2 lines | undisturbed appends end the file in order, a damaged log heals |
| manual_run | violation | a manual run sets `daemon_running` to false in the file of a running daemon |
| log_unreadable | violation | an append makes the log unreadable |

*Bounds.* `MaxFaults` bounds the failures of the environment, `MaxEvents` what
users do (commands, edits, address changes), `MaxTime` the clock, `MaxTries` the
attempts for the lock (500 in the code), `MaxAttempts` the saturation of the
failure counter (`u32::MAX`). Two processes are enough for every race over the
file, because a step only concerns one process and the file; the theorems do
not depend on their number. Four faults allow three failures in a row, which
make the counter pass `RetryCount` (1) and saturate (at 2), with a kill, a damaged
file or a reboot in between, or a late update that overtakes a later push.
`MaxTime` is a horizon: the clock stops there and every deadline beyond it
counts as reached, so that the daemon polls for ever in a finite graph. The
intervals (1 to 3) are chosen so that a check, a retry and a forced update fall
on different moments and the force interval can elapse before the horizon. The
run with two rules shows that rules do not disturb each other and that the overview
has to choose; runs of one rule suffice where the question is about one entry. That
rules do not delay each other is not shown: the requests of a poll follow one
another, and each may take the whole timeout.

In Provider, `MaxEvents` bounds changes by others together with updates that
outlive their run, of which each client has at most one at a time; two events
allow a record to vanish between lookup and update while an old update is still
under way. One retry is enough to tell the first, a middle and the last attempt
apart. Cloudflare has the longest run and custom_http is the only one without
ids; the zone run adds the others, whose filters differ. In Sources, a run starts
in any of the seven states and two more changes fall anywhere in it, which is
one more than the tables that can disagree with a third. They hold what the
selection distinguishes: both prefixes at once, leases and neighbours of the old
one, a private prefix, subnets, leases of another IAID and of another host, no
lease file, an unreadable one, and a host that is gone.

In Supervision, three of the 15 files are accepted (one of them without a section
`main`, one with main.enabled off) and twelve are refused, each by another check,
all of which start from an acceptable one; three events are an edit, one more edit
during the reload that follows, and a stop, a lost directory or a command. The
respawn limit is 2 instead of 5 so that a kill and a refused file reach it. In Hosts
the limits are 3 instead of 64 entries and 8 prefixes, which the states of the
tables pass: leases of two DUIDs of one host, a DUID without a MAC, an address that
moves to another host, private and public addresses, a guest interface. In Logs a
line keeps its first three parts, as many as its readability depends on, and the
tail is 2 lines instead of 200; `read_logs` looks at no line before it.
`MaxShown` is 1 instead of 8 because the run has two rules.

*Deadlock* is not checked in the runs of Qddns and Supervision: with an invalid
configuration that nobody repairs, or after a stop, the service really stops.

*What preconditions exempt.* LeasesComeFirst supposes that every table could be read:
a failed `ip -6 neigh` or `ip -6 route` counts as an empty one, and a candidate of
lower rank is taken, which Grounded still bounds. Grounded permits the address
computed for a host that is not there. OthersUntouched permits a request to take
back a record others have turned into one of another rule. AppliedConfigRuns says
nothing of an instance procd has given up, DisabledStops nothing of a reload that
falls between an exit and the respawn. LeasedIsShown holds below the limit on
entries. SuccessIsRecentlyPushed says nothing of an entry without a push.

*Fairness.* StateStore: a process inside a call keeps executing it. Qddns: time
passes, and a daemon step that stays possible is taken: every request has a
timeout, the wait for the lock is bounded (EveryCallReturns), and procd starts a
stopped daemon again. procd gives up after five quick exits; the bounds on faults
stay below that, and the liveness properties ask for a valid configuration and no
orphan lock. Nothing is assumed of `qddnsctl`. Provider: a process goes on with
the answer it has, and every request ends because `timeout_global` ends it; kills,
late arrivals and others are not fair. Sources: the daemon resolves again, polls
its command, and time passes; no command has to end by itself. A script
source that leaves a process behind is not bounded (EndsUnlessHeld), so that
Converges supposes other sources. Supervision: procd runs a pending trigger,
the script and the daemon go on, a waiting instance is started; that procd may
have given up is a condition of AppliedConfigRuns, not an assumption. Logs: the
daemon goes on writing. Hosts has safety properties only.

*What only holds alone.* ReportedAddressIsPublished and ReportsNeverRegress are
checked without `qddnsctl`: a manual run that is overtaken can push an older
address and write an older file. Even alone, an update that was given up and comes
through later makes a report wrong until the next lookup, and may add a record:
the first is exempted by name in ReportedAddressIsPublished, the second counted in
RecordsBounded. Converges and DeletedRulesVanish say that this
is repaired. NoRunPostponed, ReportsNeverRegress and NewestAreShown need a clock that
is not set back.

## Proofs

The theorems are about `Init /\ [][Next]_vars`, for any sets of processes (of
`qddnsctl`: finite), rules, addresses and documents, and any bounds that satisfy
the assumptions named in their modules (`StoreAssumption`, `RuleAssumption`,
`QddnsAssumption`, `StatusAssumption`, `ProviderAssumption`, `SourcesAssumption`,
`ConfigAssumption`, `SupervisionAssumption`, `HostsAssumption`, `LogsAssumption`).

*StateStore.* StoreTypeCorrect, MutualExclusion, NoTornDocument, OkIsDurable and
OrphanSilence follow from one inductive invariant. LockHolderAlone is inductive
only together with the shape of each call; CompleteDocuments needs that a
temporary file that is about to be renamed has been synced; OkMeansDurable
needs that a renamed document stays visible until its writer has synced the
directory, which holds because the lock excludes other renames. Refinement maps
every step to a step of AtomicStore or to a stutter.

*Qddns.* QddnsTypeCorrect, RetryAccounting, ForcedPush and NoRecordFlood follow
from `QddnsInv`. Its first part says that every entry, in the file and in all
memories, is well formed, obeys the retry law and has a recent push if it is a
success that tells of one; the lemmas FailedGood, UnchangedGood and SyncedGood show that of
the three ways to compute an entry, and loading, pruning and saving only copy
entries. The bound on records is not inductive: `RoomOK` counts, with the records
of a rule, the processes whose lookup saw none and which may still create one, and
a creation that arrives late is a stray exactly if it would break this account.

*Qddns, what is reported.* Four theorems of ReportProofs add to `QddnsInv`. Each names
what it needs besides: a clock that is not set back (`StepBacks = FALSE`) or no
`qddnsctl` (`Cli = {}`), and without that the property is false, as said above.

* NothingAhead: no entry of the file or of a memory has a time after the clock,
  nor has a run in progress. RunsAreSoon (NoRunPostponed) follows, because every
  `next_run` is one of two delays after a `last_check`. It holds for any number
  of processes that overwrite each other's file.
* PublishedInv: reports are published, what the lookup of an update in progress
  saw is still the record unless a late one has come through (`Seen`), and a daemon that is
  down has run nothing (`NoneRun`), so that one that starts again answers only for
  the rules it has run since. ReportsArePublished follows.
* ForwardInv: between polls the file is what the daemon wrote last, or damaged
  (`Settled`); while it computes, its memory is nowhere behind the file, and a rule it
  has forgotten though the file has it is not run (`Ordered`); a run took its time
  after the entry it replaces was computed (`Working`). FileNeverRegresses
  (ReportsNeverRegress) follows, an action property.
* PushesAreChecks: no entry was pushed after its last check, nor will it be by the
  run that is in progress. A result is then as recent as its check, the order
  of the overview is a linear order of the checks, the ranks of n entries are
  0 to n - 1, each taken once, and NewestFirst (NewestAreShown) follows, with the
  case of a state that could not be read or written back apart.

*Provider.* `ProviderInv` says where each client stands (how many requests a stage
and an attempt account for) and that every id it holds, and every late update,
names a record of its own rule, one that is gone, because ids are never used
again, or one that others have edited. UpdateSentOnce, ResultIsHonest and OthersUntouched follow, and the
refinement of RecordService maps every step to a step or a stutter (the safety
part; its fairness is left to TLC). DuplicatesBounded needs the same counting
as in Qddns, here with late updates. `ProviderAssumption` asks for finitely many
clients and for rules that are told apart by name and type.

*Sources.* `SourcesInv` ties each local variable to one state of the router since
the run began: the lease lines are those of one moment, every prefix was an
interface's at some moment, and a prefix that all interfaces kept is missing only
if no routes were listed. Grounded and LeasesComeFirst follow from that and from
two lemmas about the selection (DuidSelection, MacSelection), the second of which
names the table an address comes from; the router, its tables and the filters are
arbitrary.

*Config and Supervision.* AcceptedConfigBinds is about every file, not about steps: a
rule of the `Config` comes from the latest section of its name (LatestIsSection),
which `parse_uci` has checked (RuleType, ProviderHasCredentials), and `Validate` has
compared it with the source and the provider the `Config` holds; the checks of
references and families that the runner makes once more cannot fail. That is not
all a run needs: `validate` accepts a local_addr without address, a script without
path, a dhcpv6 source without duid or mac and a custom_http without url, and such a
rule fails at every run. PollsOnlyRunnable follows with the invariant that the daemon
only holds a configuration it has validated in this poll (`Validated`).
SupervisionTypeCorrect includes that procd's instance and the daemon agree, and needs
no strengthening.

*Hosts.* The lemmas are about `Push` with any limit: it adds what is offered and
nothing else (PushGrows), does not pass the limit (PushBounded), is only short of
the limit if it has taken all that was offered (PushFull), and takes everything
if everything fits (PushAll). HostsTypeCorrect rests on `TypeInv`, which says of
both lists what TypeOK says of their entries and which local variables are still
empty at which step. ShownWasObserved is inductive as `Honest`: every part of
every entry was seen since the command began, every network is that of a route
then, every MAC that is pinged was a neighbour on the LAN, and every answer came
from an address that was up. The client of an entry is only known to have a
prefix that is shown, or the limit left no room. LeasesAreShown needs `Kept`: from
the first table on, a host whose leases have been within the limits holds them
all, and later tables only add. Its hypotheses hold of whole hosts, in every
state the tables have been in; the last of them (each lease line offers at most
eight prefixes, repeated ones counted) came out of the proof: `add_dhcpv6_entries`
counts the prefixes of a line before `push_prefix` removes the repeated ones
(`leases.rs:119`), so that a line which repeats a prefix can lose another one
although the host has no more than eight.

*Logs.* UndisturbedIsIntact is about a log with any tail, and whatever fragments
stand before the entries it is about. `TailInv` says where the entries of `whole` are: one after the other
at the end of the file, before the line of the append under way (`InPlace`). While
that one is undisturbed, the last line is what it has written and nobody else writes
(`Alone`); while another is under way, nothing is remembered (`Forgotten`); and lines
go only when the file is full (`Kept`).

*Model-checked only:* liveness, which is outside TLAPS: EveryCallReturns, Converges,
DeletedRulesVanish, EveryRunEnds, FollowsRenumbering, EndsUnlessHeld,
AppliedConfigRuns, DisabledStops and Heals, and the fairness in the refinements.
Every invariant that a run checks, every action property and the steps of both
refinements are proved. What `parse_uci` makes of a number or an address and the
like are parameters, with nothing to prove.

## Findings

1. `daemon.rs:182`: the run of a rule by `qddnsctl` writes back the
   `daemon_running` it loaded; a test message says a manual run must not do that.
2. `logstore.rs:32`: a message is written with its line breaks, and `read_logs` fails on
   a line that does not begin with a timestamp. The message of a failed run
   quotes the provider's answer as it came (`http.rs:165`), so one HTTP error page
   makes the log of that rule unreadable until 200 lines later. A test says that
   what is appended is read back.

Remarks, where nothing in the repository promises otherwise, or only in part:

* a corrupt `runtime.state` becomes the default state (`daemon.rs:63` and four
  other places). A test says that it "must not silently become default"
  (`tests/runtime_persistence.rs:656`); it calls `read_runtime`, which refuses the
  file, and whose error every caller replaces by the default state;
* the first run of a rule always pushes. A test
  (`initial_run_skips_update_when_remote_matches`, `tests/runner.rs:196-209`) says that
  an initial run whose record matches sends nothing; it hands `run_rule` no prior
  state, which turns `force` off (`runner.rs:68-70`), while `daemon.rs:280` always hands
  it one, at first the default state, for which `should_force_update` answers true.
  The model has what the program does; no property depends on it;
* an update that was given up can arrive after a later push, and the daemon reports
  the newer address until its next check;
* `qddnsctl status` prints an overview without results where the state could not be
  read or written back (`cli.rs:139`);
* a MAC source computes an address for a host that is in no table (`source.rs:214`);
* after a command has exited, its output is read without a deadline (`source.rs:860`),
  so a process that a script leaves behind holds up the daemon;
* a table larger than a pipe makes every DHCPv6 source time out (`Block`), and
  a failed `ip -6 route` with a status counts as an interface without prefixes;
* a reload with main.enabled off that falls between an exit of the daemon and its
  respawn sees no running daemon and stops nothing (`overlooked` in DisabledStops);
* procd drops the reload trigger with the service, so that a service disabled in
  LuCI does not notice that it is enabled again (`registered`, `applied`);
* with a LAN interface configured, `ip -6 neigh show dev` prints no device, and the
  list of hosts shows the MAC where it means the interface (`Third` in Hosts);
* once the list of hosts has 64 entries, all further lease lines are left out,
  those of hosts already listed included, and a lease line that repeats a prefix loses
  one of the others sooner than the limit says;
* a /64 whose last group is zero yields addresses that do not parse (`network.rs:116`),
  and `discover.rs:77` starts a thread and a ping per host and network at once.

## Not modelled, and the plan

The models leave out text (JSON, tokens of UCI, error messages), `updated_at`, file
modes, the width of `u64`, request signing and templates, the source
`public_probe` (one request), and the kind of a lease line: the
network of a prefix delegated to a host counts as an address like any other.
Of `qddnsctl`, the commands that print what one source, `discover_slaac` or a list of
interfaces gives are left out, as is the parsing of arguments. The rpcd bridge and
LuCI are not modelled; packaging and build files keep no state.

Still to come, in this order:

1. Theorems: the safety half of DisabledStops, AppliedConfigRuns and Heals (no step
   undoes the progress they are about), stated as action properties first.
2. `Wizard`: probes, late answers and staged sections of `rules.js`. Safety:
   what is saved is what was probed; a failed save leaves nothing staged. (A probe
   of a saved source is guarded by a token, one of a draft by a version.)
3. The drafts of the rpcd bridge: an error leaves no temporary file behind.
4. The width of `u64` in the times of the daemon.
