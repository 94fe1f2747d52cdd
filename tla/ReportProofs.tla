------------------------------ MODULE ReportProofs -----------------------------
(***************************************************************************)
(* Proofs about what runtime.state reports: that no entry is from the        *)
(* future and that the overview shows the newest ones, for any processes; and *)
(* for a daemon that is alone, that what it reports is what the provider      *)
(* holds and that the file never goes back.                                 *)
(***************************************************************************)
EXTENDS QddnsProofs, StatusView, WellFoundedInduction

-----------------------------------------------------------------------------
(* What a step does to the memories and the file *)

\* A set of rules has a least one.
LEMMA MinIsIn ==
    ASSUME NEW S \in SUBSET Rule, S # {}
    PROVE  Min(S) \in S
  <1> DEFINE Less == {ss \in Nat \X Nat : ss[1] < ss[2]}
  <1>1. S \subseteq Nat
    BY RuleAssumption
  <1>2. IsWellFoundedOn(Less, Nat)
    BY NatLessThanWellFounded, Zenon DEF OpToRel
  <1>3. PICK i \in S : \A j \in S : <<j, i>> \notin Less
    <2> HIDE DEF Less
    <2> QED
      BY <1>1, <1>2, WFMin
  <1>4. ASSUME NEW j \in S, j < i
        PROVE  FALSE
    <2>1. <<j, i>> \in Nat \X Nat /\ <<j, i>>[1] < <<j, i>>[2]
      BY <1>1, <1>4
    <2>2. <<j, i>> \in Less
      BY <2>1
    <2> QED
      BY <1>3, <2>2
  <1>5. \A j \in S : i <= j
    BY <1>1, <1>4
  <1> QED
    BY <1>5 DEF Min

\* The run of r ends with the entry e; now is the time it has taken.
Stored(p, r, e, now) ==
    /\ Insert(p, r, e)
    /\ GoodEntry(e)
    /\ \/ pc[p] = "run" /\ r \in todo[p] /\ now = clock
       \/ pc[p] \in {"fetch", "update"} /\ r = job[p].rule /\ now = job[p].now
    /\ e.last_check = now
    /\ e.last_update \in {now, Prior(p, r).last_update}
    /\ UNCHANGED <<clock, setting, disk>>

\* A run ends in one of five ways, all of which store an entry.
Ends(p) ==
    \/ \E r \in Rule : ResolveFails(p, r)
    \/ FetchMatches(p) \/ FetchFails(p) \/ Update(p) \/ UpdateFails(p)

LEMMA RunStores ==
    ASSUME QddnsInv, NEW p \in Proc, Ends(p)
    PROVE  \E r \in Rule, e \in RuleState, now \in Time : Stored(p, r, e, now)
  <1> USE DEF QddnsInv, world
  <1> DEFINE j == job[p].rule
  <1>1. ASSUME NEW r \in Rule, ResolveFails(p, r)
        PROVE  \E e \in RuleState : Stored(p, r, e, clock)
    <2> DEFINE e == Failed(Prior(p, r), clock)
    <2>1. GoodEntry(e) /\ e \in RuleState
      BY PriorOK, FailedGood DEF SharedOK, GoodEntry
    <2>2. r \in todo[p] /\ pc[p] = "run"
      <3>1. todo[p] \in SUBSET Rule
        BY DEF ProcOK
      <3> QED
        BY <1>1, <3>1, MinIsIn DEF ResolveFails, ToRun, Turn
    <2>3. e.last_check = clock /\ e.last_update = Prior(p, r).last_update
      BY DEF Failed
    <2> QED
      BY <1>1, <2>1, <2>2, <2>3 DEF ResolveFails, Stored
  <1>2. pc[p] \in {"fetch", "update"} => j \in Rule /\ job[p].ip \in Addr /\ job[p].now \in Time
    BY DEF ProcOK, JobOK, Job
  <1>3. ASSUME FetchFails(p) \/ UpdateFails(p)
        PROVE  \E e \in RuleState : Stored(p, j, e, job[p].now)
    <2> DEFINE e == Failed(Prior(p, j), job[p].now)
    <2>1. pc[p] \in {"fetch", "update"}
      BY <1>3 DEF FetchFails, UpdateFails
    <2>2. GoodEntry(e) /\ e \in RuleState
      BY <1>2, <2>1, PriorOK, FailedGood DEF GoodEntry
    <2>3. e.last_check = job[p].now /\ e.last_update = Prior(p, j).last_update
      BY DEF Failed
    <2> QED
      BY <1>3, <2>1, <2>2, <2>3 DEF FetchFails, UpdateFails, Stored
  <1>4. ASSUME FetchMatches(p)
        PROVE  \E e \in RuleState : Stored(p, j, e, job[p].now)
    <2> DEFINE e == Unchanged(Prior(p, j), job[p].ip, job[p].now)
    <2>1. GoodEntry(e) /\ e \in RuleState
      BY <1>2, <1>4, PriorOK, UnchangedGood DEF FetchMatches, GoodEntry
    <2>2. e.last_check = job[p].now /\ e.last_update = Prior(p, j).last_update
      BY DEF Unchanged
    <2> QED
      BY <1>4, <2>1, <2>2 DEF FetchMatches, Stored
  <1>5. ASSUME Update(p)
        PROVE  \E e \in RuleState : Stored(p, j, e, job[p].now)
    <2> DEFINE e == Synced(job[p].ip, job[p].seen, job[p].now)
    <2>1. GoodEntry(e) /\ e \in RuleState
      BY <1>2, <1>5, SyncedGood DEF Update, GoodEntry
    <2>2. e.last_check = job[p].now /\ e.last_update = job[p].now
      BY DEF Synced
    <2> QED
      BY <1>5, <2>1, <2>2 DEF Update, Stored
  <1>6. clock \in Time
    BY DEF SharedOK
  <1>7. ASSUME NEW r \in Rule, ResolveFails(p, r)
        PROVE  \E q \in Rule, e \in RuleState, now \in Time : Stored(p, q, e, now)
    BY <1>1, <1>6, <1>7
  <1>8. ASSUME FetchFails(p) \/ UpdateFails(p) \/ FetchMatches(p) \/ Update(p)
        PROVE  \E q \in Rule, e \in RuleState, now \in Time : Stored(p, q, e, now)
    <2>1. pc[p] \in {"fetch", "update"}
      BY <1>8 DEF FetchFails, UpdateFails, FetchMatches, Update
    <2> QED
      BY <1>2, <1>3, <1>4, <1>5, <1>8, <2>1
  <1> QED
    BY <1>7, <1>8 DEF Ends

\* The memory of the process holds the new entry, and the old ones of the others.
LEMMA StoredEntries ==
    ASSUME QddnsInv, NEW p \in Proc, NEW r \in Rule, NEW e, Insert(p, r, e)
    PROVE  /\ \A x \in Rule : mem'[p].rules[x] = IF x = r THEN e ELSE mem[p].rules[x]
           /\ \A q \in Proc : q # p => mem'[q] = mem[q]
  <1>1. mem \in [Proc -> Doc] /\ mem[p] \in Doc /\ mem[p].rules \in RuleMap
    BY DEF QddnsInv, ProcOK, Doc
  <1> DEFINE m == [mem[p].rules EXCEPT ![r] = e]
  <1>2. mem' = [mem EXCEPT ![p] = [mem[p] EXCEPT !.rules = m]]
    BY DEF Insert
  <1>3. [mem[p] EXCEPT !.rules = m].rules = m
    BY <1>1 DEF Doc
  <1>4. \A x \in Rule : m[x] = IF x = r THEN e ELSE mem[p].rules[x]
    BY <1>1 DEF RuleMap
  <1> HIDE DEF m
  <1> QED
    BY <1>1, <1>2, <1>3, <1>4

\* Pruning drops entries and changes none.
LEMMA PrunedEntries ==
    ASSUME NEW d \in Doc, NEW b \in BOOLEAN, NEW r \in Rule
    PROVE  /\ Pruned(d).rules[r] = IF config[r] = "absent" THEN None ELSE d.rules[r]
           /\ [Pruned(d) EXCEPT !.running = b].rules = Pruned(d).rules
  BY DEF Pruned, Doc

\* The entries of what is loaded are those of the file, or none.
LEMMA LoadedEntries ==
    ASSUME QddnsInv
    PROVE  Loaded \in Doc /\ \A r \in Rule : Loaded.rules[r] = EntryIn(file, r)
  <1>1. Loaded \in Doc
    BY LoadGood DEF GoodDoc, QddnsInv
  <1> QED
    BY <1>1 DEF Loaded, EntryIn, DefaultDoc, EmptyMap

\* A step leaves the memories alone, or one process exits, loads, or ends a run.
LEMMA StepKinds ==
    ASSUME QddnsInv, [Next]_vars
    PROVE  \/ mem' = mem
           \/ \E p \in Proc : Exit(p)
           \/ \E p \in Proc, d \in {Loaded} \cup {mem[q] : q \in Proc}, b \in BOOLEAN :
                 \/ mem' = [mem EXCEPT ![p] = Pruned(d)]
                 \/ mem' = [mem EXCEPT ![p] = [Pruned(d) EXCEPT !.running = b]]
           \/ \E p \in Proc, r \in Rule, e \in RuleState, now \in Time : Stored(p, r, e, now)
  <1> DEFINE Goal == \/ mem' = mem
                     \/ \E p \in Proc : Exit(p)
                     \/ \E p \in Proc, d \in {Loaded} \cup {mem[q] : q \in Proc}, b \in BOOLEAN :
                           \/ mem' = [mem EXCEPT ![p] = Pruned(d)]
                           \/ mem' = [mem EXCEPT ![p] = [Pruned(d) EXCEPT !.running = b]]
                     \/ \E p \in Proc, r \in Rule, e \in RuleState, now \in Time :
                           Stored(p, r, e, now)
  <1>1. Daemon \in Proc /\ Cli \subseteq Proc
    BY DEF Proc
  <1>2. ASSUME NEW p \in Proc, Work(p)
        PROVE  Goal
    <2>1. CASE Ends(p)
      BY <2>1, RunStores
    <2>2. CASE \E r \in Rule : Skip(p, r) \/ Resolve(p, r)
      BY <2>2 DEF Skip, Resolve
    <2>3. CASE FetchDiffers(p) \/ Mark(p)
      BY <2>3 DEF FetchDiffers, Mark
    <2>4. CASE Save(p)
      BY <2>4 DEF Save, Proceed
    <2>5. CASE SaveFails(p) \/ MarkFails(p) \/ Unmark(p)
      BY <2>5 DEF SaveFails, MarkFails, Unmark
    <2> QED
      BY <1>2, <2>1, <2>2, <2>3, <2>4, <2>5 DEF Work, Ends
  <1>3. CASE DaemonStep
    <2>1. CASE Start
      BY <1>1, <2>1 DEF Start, Begin
    <2>2. CASE BeginPoll
      BY <1>1, <2>2 DEF BeginPoll, Begin
    <2>3. CASE PollRefused
      BY <1>1, <2>3 DEF PollRefused
    <2> QED
      BY <1>1, <1>2, <1>3, <2>1, <2>2, <2>3 DEF DaemonStep
  <1>4. ASSUME NEW p \in Cli, CliStep(p)
        PROVE  Goal
    <2>1. CASE \E r \in Rule : CliRun(p, r)
      BY <1>1, <2>1 DEF CliRun, Begin
    <2>2. CASE CliLoad(p)
      BY <1>1, <2>2 DEF CliLoad, Begin
    <2>3. CASE CliOnce(p)
      BY <1>1, <2>3 DEF CliOnce, Begin
    <2> QED
      BY <1>1, <1>2, <1>4, <2>1, <2>2, <2>3 DEF CliStep
  <1>5. CASE Environment
    BY <1>1, <1>5 DEF Environment, Tick, Crash, Kill, Arrive, ChangeAddr, EditConfig,
                      ApplyConfig, Damage, Reboot, StepBack
  <1>6. CASE UNCHANGED vars
    BY <1>6 DEF vars
  <1> QED
    BY <1>3, <1>4, <1>5, <1>6 DEF Next

\* An entry in a memory was there before, is that of the file or of another
\* memory, or has just been computed.
LEMMA MemoryStep ==
    ASSUME QddnsInv, [Next]_vars, NEW p \in Proc, NEW r \in Rule,
           mem'[p].rules[r] # None
    PROVE  \/ mem'[p].rules[r] \in Entries
           \/ \E now \in Time : Stored(p, r, mem'[p].rules[r], now)
  <1>1. mem \in [Proc -> Doc]
    BY DEF QddnsInv, ProcOK
  <1>2. \A q \in Proc, x \in Rule : mem[q].rules[x] # None => mem[q].rules[x] \in Entries
    BY DEF Entries
  <1>3. CASE mem' = mem
    BY <1>2, <1>3
  <1>4. ASSUME NEW q \in Proc, Exit(q)
        PROVE  mem'[p].rules[r] \in Entries
    <2>1. DefaultDoc.rules[r] = None
      BY DEF DefaultDoc, EmptyMap
    <2> QED
      BY <1>1, <1>2, <1>4, <2>1 DEF Exit
  <1>5. ASSUME NEW q \in Proc, NEW d \in {Loaded} \cup {mem[x] : x \in Proc}, NEW b \in BOOLEAN,
               \/ mem' = [mem EXCEPT ![q] = Pruned(d)]
               \/ mem' = [mem EXCEPT ![q] = [Pruned(d) EXCEPT !.running = b]]
        PROVE  mem'[p].rules[r] \in Entries
    <2>1. d \in Doc
      BY <1>1, LoadedEntries
    <2>2. d.rules[r] # None => d.rules[r] \in Entries
      <3>1. EntryIn(file, r) # None => EntryIn(file, r) \in Entries
        BY DEF Entries
      <3> QED
        BY <1>2, <3>1, LoadedEntries
    <2>3. mem'[q].rules = Pruned(d).rules
      <3>1. [Pruned(d) EXCEPT !.running = b].rules = Pruned(d).rules
        BY <2>1, PrunedEntries
      <3> QED
        BY <1>1, <1>5, <3>1
    <2>4. \A x \in Proc : x # q => mem'[x] = mem[x]
      BY <1>1, <1>5
    <2>5. Pruned(d).rules[r] \in {None, d.rules[r]}
      BY <2>1, PrunedEntries
    <2>6. CASE p = q
      BY <2>2, <2>3, <2>5, <2>6
    <2>7. CASE p # q
      BY <1>2, <2>4, <2>7
    <2> QED
      BY <2>6, <2>7
  <1>6. ASSUME NEW q \in Proc, NEW x \in Rule, NEW e \in RuleState, NEW now \in Time,
               Stored(q, x, e, now)
        PROVE  \/ mem'[p].rules[r] \in Entries
               \/ Stored(p, r, mem'[p].rules[r], now)
    <2>1. /\ \A y \in Rule : mem'[q].rules[y] = IF y = x THEN e ELSE mem[q].rules[y]
          /\ \A y \in Proc : y # q => mem'[y] = mem[y]
      BY <1>6, StoredEntries DEF Stored
    <2>2. CASE p = q /\ r = x
      BY <1>6, <2>1, <2>2
    <2>3. CASE ~(p = q /\ r = x)
      BY <1>2, <2>1, <2>3
    <2> QED
      BY <2>2, <2>3
  <1> QED
    BY <1>3, <1>4, <1>5, <1>6, StepKinds

\* The file is left alone, lost, damaged, or replaced by a memory.
LEMMA FileStep ==
    ASSUME [Next]_vars
    PROVE  file' \in {file, Missing, Corrupt} \cup {mem[p] : p \in Proc}
  <1>1. Daemon \in Proc /\ Cli \subseteq Proc
    BY DEF Proc
  <1>2. ASSUME NEW p \in Proc, Work(p)
        PROVE  file' \in {file, mem[p]}
    BY <1>2 DEF Work, Skip, Resolve, ResolveFails, FetchMatches, FetchDiffers, FetchFails,
                Update, UpdateFails, Save, SaveFails, Mark, MarkFails, Unmark, disk
  <1>3. CASE DaemonStep
    BY <1>1, <1>2, <1>3 DEF DaemonStep, Start, BeginPoll, PollRefused, disk
  <1>4. ASSUME NEW p \in Cli, CliStep(p)
        PROVE  file' \in {file, mem[p]}
    BY <1>1, <1>2, <1>4 DEF CliStep, CliRun, CliLoad, CliOnce, disk
  <1>5. CASE Environment
    BY <1>1, <1>5 DEF Environment, Tick, Crash, Kill, Arrive, ChangeAddr, EditConfig,
                      ApplyConfig, Damage, Reboot, StepBack, disk
  <1>6. CASE UNCHANGED vars
    BY <1>6 DEF vars, disk
  <1> QED
    BY <1>1, <1>3, <1>4, <1>5, <1>6 DEF Next

-----------------------------------------------------------------------------
(* No entry is from the future *)

NotAfter(e, t) == e.last_check <= t /\ (e.last_update # None => e.last_update <= t)

\* Every entry and every run in progress took its times from the clock, which has
\* not gone back since.
NothingAhead ==
    /\ \A e \in Entries : NotAfter(e, clock)
    /\ \A p \in Proc : job[p].now <= clock

\* A run takes its time from the clock.
TimesTaken == \A p \in Proc : job'[p].now \in {0, clock, job[p].now}

\* The clock only advances, and a run takes its time from it.
LEMMA TimeStep ==
    ASSUME QddnsInv, [Next]_vars, StepBacks = FALSE
    PROVE  /\ clock' \in Time /\ clock <= clock'
           /\ TimesTaken
  <1>1. clock \in Time /\ job \in [Proc -> Job] /\ MaxTime \in Nat
    BY RuleAssumption DEF QddnsInv, SharedOK, ProcOK
  <1>2. \A p \in Proc : job[p] \in Job
    BY <1>1
  <1>3. NoJob.now = 0
    BY DEF NoJob
  <1>4. Daemon \in Proc /\ Cli \subseteq Proc
    BY DEF Proc
  <1>5. ASSUME NEW p \in Proc, Exit(p)
        PROVE  \A q \in Proc : job'[q].now \in {0, job[q].now}
    BY <1>1, <1>3, <1>5 DEF Exit
  <1>6. ASSUME NEW p \in Proc, NEW r \in Rule, NEW e, Insert(p, r, e)
        PROVE  \A q \in Proc : job'[q].now \in {0, job[q].now}
    BY <1>1, <1>3, <1>6 DEF Insert
  <1>7. ASSUME NEW p \in Proc, Work(p)
        PROVE  clock' = clock /\ \A q \in Proc : job'[q].now \in {0, clock, job[q].now}
    <2>1. CASE Ends(p)
      <3>1. PICK r \in Rule, e \in RuleState, now \in Time : Stored(p, r, e, now)
        BY <2>1, RunStores
      <3> QED
        BY <1>6, <3>1 DEF Stored
    <2>2. ASSUME NEW r \in Rule, Skip(p, r)
          PROVE  clock' = clock /\ job' = job
      BY <2>2 DEF Skip
    <2>3. ASSUME NEW r \in Rule, Resolve(p, r)
          PROVE  clock' = clock /\ \A q \in Proc : job'[q].now \in {clock, job[q].now}
      BY <1>1, <2>3 DEF Resolve
    <2>4. CASE FetchDiffers(p)
      <3>1. \A x : [job[p] EXCEPT !.seen = x].now = job[p].now
        BY <1>2 DEF Job
      <3>2. clock' = clock /\ job' = [job EXCEPT ![p] = [job[p] EXCEPT !.seen = Lookup(job[p].rule)]]
        BY <2>4 DEF FetchDiffers
      <3> QED
        BY <1>1, <3>1, <3>2
    <2>5. CASE Mark(p)
      BY <2>5 DEF Mark
    <2>6. CASE Save(p)
      BY <1>5, <2>6 DEF Save, Proceed
    <2>7. CASE SaveFails(p) \/ MarkFails(p) \/ Unmark(p)
      BY <1>5, <2>7 DEF SaveFails, MarkFails, Unmark
    <2> QED
      BY <1>7, <2>1, <2>2, <2>3, <2>4, <2>5, <2>6, <2>7 DEF Work, Ends
  <1>8. ASSUME DaemonStep
        PROVE  clock' = clock /\ TimesTaken
    <2>1. CASE Start
      BY <2>1 DEF Start, Begin, TimesTaken
    <2>2. CASE BeginPoll
      BY <2>2 DEF BeginPoll, Begin, TimesTaken
    <2>3. CASE PollRefused
      BY <1>4, <1>5, <2>3 DEF PollRefused, TimesTaken
    <2> QED
      BY <1>4, <1>7, <1>8, <2>1, <2>2, <2>3 DEF DaemonStep, TimesTaken
  <1>9. ASSUME NEW p \in Cli, CliStep(p)
        PROVE  clock' = clock /\ TimesTaken
    <2>1. CASE (\E r \in Rule : CliRun(p, r)) \/ CliLoad(p) \/ CliOnce(p)
      BY <2>1 DEF CliRun, CliLoad, CliOnce, Begin, TimesTaken
    <2> QED
      BY <1>4, <1>7, <1>9, <2>1 DEF CliStep, TimesTaken
  <1>10. ASSUME Environment
         PROVE  (clock' = clock \/ Tick) /\ TimesTaken
    <2>1. CASE Tick
      BY <2>1 DEF Tick, TimesTaken
    <2>2. ASSUME NEW p \in Proc, Crash(p)
          PROVE  clock' = clock /\ TimesTaken
      BY <1>5, <2>2 DEF Crash, Kill, TimesTaken
    <2>3. CASE ApplyConfig
      BY <1>4, <1>5, <2>3 DEF ApplyConfig, Kill, TimesTaken
    <2>4. CASE \/ (\E u \in Request : Arrive(u)) \/ (\E a \in Addr : ChangeAddr(a))
               \/ EditConfig \/ Damage \/ Reboot
      BY <2>4 DEF Arrive, ChangeAddr, EditConfig, Damage, Reboot, TimesTaken
    <2>5. ~StepBack
      BY DEF StepBack
    <2> QED
      BY <1>10, <2>1, <2>2, <2>3, <2>4, <2>5 DEF Environment
  <1>11. (clock' = clock \/ Tick) /\ TimesTaken
    <2>1. CASE UNCHANGED vars
      BY <2>1 DEF vars, TimesTaken
    <2> QED
      BY <1>8, <1>9, <1>10, <2>1 DEF Next
  <1>12. clock' \in Time /\ clock <= clock'
    <2>1. CASE clock' = clock
      BY <1>1, <2>1 DEF Time
    <2>2. CASE Tick
      BY <1>1, <2>2 DEF Time, Tick
    <2> QED
      BY <1>11, <2>1, <2>2
  <1> QED
    BY <1>11, <1>12

\* What is not after a moment is not after a later one.
LEMMA NotAfterLater ==
    ASSUME NEW e \in RuleState, e.last_check # None, NEW t \in Time, NEW u \in Time, t <= u,
           NotAfter(e, t)
    PROVE  NotAfter(e, u)
  <1>1. e.last_check \in Time /\ e.last_update \in Time \cup {None} /\ None \notin Nat
    BY RuleAssumption DEF RuleState
  <1> QED
    BY <1>1, RuleAssumption DEF NotAfter, Time

LEMMA AheadStep ==
    ASSUME QddnsInv, NothingAhead, [Next]_vars, StepBacks = FALSE
    PROVE  NothingAhead'
  <1>1. clock \in Time /\ clock' \in Time /\ clock <= clock' /\ MaxTime \in Nat
    BY TimeStep, RuleAssumption DEF QddnsInv, SharedOK
  <1>2. \A e \in Entries : e \in RuleState /\ e.last_check # None
    BY EntriesGood DEF GoodEntry, RetryOf
  <1>3. \A e \in Entries : NotAfter(e, clock')
    BY <1>1, <1>2, NotAfterLater DEF NothingAhead
  <1>4. \A p \in Proc : job'[p].now <= clock'
    <2> SUFFICES ASSUME NEW p \in Proc
                 PROVE  job'[p].now <= clock'
      OBVIOUS
    <2>1. job[p].now \in Time /\ job[p].now <= clock
      BY DEF QddnsInv, ProcOK, Job, NothingAhead
    <2>2. job'[p].now \in {0, clock, job[p].now}
      BY TimeStep DEF TimesTaken
    <2>3. clock \in Int /\ clock' \in Int /\ job[p].now \in Int /\ 0 <= clock'
      BY <1>1, <2>1 DEF Time
    <2> QED
      BY <1>1, <2>1, <2>2, <2>3
  <1>5. ASSUME NEW p \in Proc, NEW r \in Rule, mem'[p].rules[r] # None
        PROVE  NotAfter(mem'[p].rules[r], clock')
    <2> DEFINE e == mem'[p].rules[r]
    <2>1. CASE e \in Entries
      BY <1>3, <2>1
    <2>2. ASSUME NEW now \in Time, Stored(p, r, e, now)
          PROVE  NotAfter(e, clock')
      <3>1. now <= clock
        BY <1>1, <2>2 DEF Stored, NothingAhead, Time
      <3>2. e.last_check = now /\ e.last_update \in {now, Prior(p, r).last_update}
        BY <2>2 DEF Stored
      <3>3. Prior(p, r).last_update = None
            \/ (Prior(p, r) \in Entries /\ Prior(p, r).last_update <= clock)
        BY <1>2 DEF Prior, PriorOf, DefaultRule, Entries, NothingAhead, NotAfter
      <3>4. clock' = clock
        BY <2>2 DEF Stored
      <3> HIDE DEF e
      <3> QED
        BY <3>1, <3>2, <3>3, <3>4 DEF NotAfter
    <2> QED
      BY <1>5, <2>1, <2>2, MemoryStep
  <1>6. ASSUME NEW r \in Rule, EntryIn(file', r) # None
        PROVE  NotAfter(EntryIn(file', r), clock')
    <2>1. EntryIn(file', r) \in Entries
      BY <1>6, FileStep DEF EntryIn, Entries
    <2> QED
      BY <1>3, <2>1
  <1>7. \A e \in Entries' : NotAfter(e, clock')
    BY <1>5, <1>6 DEF Entries, EntryIn
  <1> QED
    BY <1>4, <1>7 DEF NothingAhead, NotAfter

\* Nobody has run a rule.
LEMMA AheadInit == Init => NothingAhead
  <1> SUFFICES ASSUME Init PROVE NothingAhead
    OBVIOUS
  <1>1. Entries = {}
    BY DEF Init, Entries, EntryIn, DefaultDoc, EmptyMap
  <1>2. \A p \in Proc : job[p].now = 0
    BY DEF Init, NoJob
  <1> QED
    BY <1>1, <1>2 DEF Init, NothingAhead

\* NoRunPostponed: with a clock that is not set back, and whatever daemon.rs and
\* qddnsctl overwrite of each other, no rule is scheduled for later than its
\* longer delay from now.
THEOREM RunsAreSoon ==
    ASSUME StepBacks = FALSE
    PROVE  SafeSpec => []NoRunPostponed
  <1>1. ASSUME QddnsInv, NothingAhead, NEW e \in Entries
        PROVE  e.next_run <= clock + CheckInterval \/ e.next_run <= clock + RetryBackoff
    <2>1. e \in RuleState /\ e.last_check # None
          /\ e.next_run = Later(e.last_check, IF e.retry_attempts \in 1 .. RetryCount
                                              THEN RetryBackoff ELSE CheckInterval)
      BY <1>1, EntriesGood DEF GoodEntry, RetryOf
    <2>2. e.last_check \in Time /\ clock \in Time /\ e.last_check <= clock
      BY <1>1, <2>1 DEF RuleState, QddnsInv, SharedOK, NothingAhead, NotAfter
    <2>3. \A d \in Nat : Later(e.last_check, d) <= clock + d
      BY <2>2, RuleAssumption DEF Later, Time
    <2> QED
      BY <2>1, <2>3, RuleAssumption
  <1>2. QddnsInv /\ NothingAhead => NoRunPostponed
    BY <1>1 DEF NoRunPostponed
  <1>3. QddnsInv /\ NothingAhead /\ [Next]_vars => QddnsInv' /\ NothingAhead'
    BY StepInv, AheadStep
  <1> QED
    BY <1>2, <1>3, InitInv, AheadInit, PTL DEF SafeSpec

-----------------------------------------------------------------------------
(* The daemon alone *)

\* What the daemon has in memory of rule r.
Held(r) == mem[Daemon].rules[r]

\* The daemon does nothing; the file may be damaged, or lost in a restart.
Resting ==
    /\ UNCHANGED <<records, pc, mem, todo, job, history>>
    /\ file' \in {file, Corrupt} \/ (pc[Daemon] = "down" /\ file' = Missing)

\* The daemon ends, perhaps within a write.
Leaving == Exit(Daemon) /\ (file' = file \/ (Saving(Daemon) /\ file' = mem[Daemon]))

Loading ==
    /\ pc[Daemon] = "down" /\ pc' = [pc EXCEPT ![Daemon] = "boot"]
    /\ \A r \in Rule : Held(r)' \in {None, EntryIn(file, r)}
    /\ todo'[Daemon] = {}
    /\ UNCHANGED <<records, file, job, history>>

Polling ==
    /\ pc[Daemon] \in {"poll", "asleep"} /\ pc' = [pc EXCEPT ![Daemon] = "run"]
    /\ \A r \in Rule : Held(r)' \in {None, Held(r)}
    /\ \A r \in todo'[Daemon] : Held(r)' = Held(r)
    /\ UNCHANGED <<records, file, job, history>>

Writing ==
    /\ Saving(Daemon) /\ \E to \in {"bootmark", "mark"} : pc' = [pc EXCEPT ![Daemon] = to]
    /\ file' = mem[Daemon]
    /\ UNCHANGED <<records, mem, job, history>>

MarkerWritten ==
    /\ Marking(Daemon) /\ \E to \in {"poll", "asleep"} : pc' = [pc EXCEPT ![Daemon] = to]
    /\ UNCHANGED <<records, file, mem, job, history>>

\* An update comes through after its run.
Arriving == \E u \in Request : Arrive(u)

\* Without qddnsctl every step is one of these.
LEMMA AloneStep ==
    ASSUME QddnsInv, Cli = {}, [Next]_vars
    PROVE  \/ Resting \/ Leaving \/ Loading \/ Polling \/ Writing \/ MarkerWritten
           \/ \E r \in Rule : Skip(Daemon, r) \/ Resolve(Daemon, r)
           \/ FetchDiffers(Daemon) \/ Ends(Daemon) \/ Arriving
  <1> DEFINE Goal == \/ Resting \/ Leaving \/ Loading \/ Polling \/ Writing \/ MarkerWritten
                     \/ \E r \in Rule : Skip(Daemon, r) \/ Resolve(Daemon, r)
                     \/ FetchDiffers(Daemon) \/ Ends(Daemon) \/ Arriving
  <1>1. Proc = {Daemon} /\ Daemon \in Proc /\ mem \in [Proc -> Doc] /\ mem[Daemon] \in Doc
    BY DEF Proc, QddnsInv, ProcOK
  <1>2. todo \in [Proc -> SUBSET Rule]
    BY DEF QddnsInv, ProcOK
  <1>3. CASE Start
    <2> DEFINE d == [Pruned(Loaded) EXCEPT !.running = TRUE]
    <2>1. \A r \in Rule : d.rules[r] \in {None, EntryIn(file, r)}
      BY LoadedEntries, PrunedEntries
    <2>2. mem'[Daemon] = d /\ todo'[Daemon] = {}
      BY <1>1, <1>2, <1>3 DEF Start, Begin
    <2> HIDE DEF d
    <2> QED
      BY <1>3, <2>1, <2>2 DEF Start, Begin, Goto, Loading, Held, disk, provider
  <1>4. CASE BeginPoll
    <2> DEFINE d == [Pruned(mem[Daemon]) EXCEPT !.running = TRUE]
    <2>1. \A r \in Rule : d.rules[r] = IF config[r] = "absent" THEN None ELSE Held(r)
      BY <1>1, PrunedEntries DEF Held
    <2>2. mem'[Daemon] = d /\ todo'[Daemon] = Enabled
      BY <1>1, <1>2, <1>4 DEF BeginPoll, Begin
    <2>3. \A r \in Enabled : r \in Rule /\ config[r] # "absent"
      BY DEF Enabled
    <2> HIDE DEF d
    <2> QED
      BY <1>4, <2>1, <2>2, <2>3 DEF BeginPoll, PollTime, Begin, Goto, Polling, Held, disk, provider
  <1>5. CASE PollRefused
    BY <1>5 DEF PollRefused, Leaving, disk
  <1>6. ASSUME Kill(Daemon)
        PROVE  Leaving
    BY <1>6 DEF Kill, Leaving
  <1>7. ASSUME Work(Daemon)
        PROVE  Goal
    <2>1. CASE Save(Daemon)
      <3>1. AfterSave(Daemon) \in {"bootmark", "mark"}
        <4>1. CASE pc[Daemon] = "boot"
          BY <4>1 DEF AfterSave
        <4>2. CASE pc[Daemon] = "run"
          BY <4>2 DEF AfterSave
        <4> QED
          BY <2>1, <4>1, <4>2 DEF Save, Saving
      <3> QED
        BY <2>1, <3>1 DEF Save, Proceed, Goto, provider, Writing
    <2>2. CASE SaveFails(Daemon)
      BY <2>2 DEF SaveFails, Leaving
    <2>3. CASE Mark(Daemon)
      BY <2>3 DEF Mark, Goto, provider, MarkerWritten
    <2>4. CASE MarkFails(Daemon) \/ Unmark(Daemon)
      BY <2>4 DEF MarkFails, Unmark, Leaving
    <2> QED
      BY <1>7, <2>1, <2>2, <2>3, <2>4 DEF Work, Ends
  <1>8. CASE Environment
    <2>1. CASE Tick \/ (\E a \in Addr : ChangeAddr(a)) \/ EditConfig \/ StepBack
      BY <2>1 DEF Tick, ChangeAddr, EditConfig, StepBack, disk, provider, Resting
    <2>2. CASE Damage
      BY <2>2 DEF Damage, provider, Resting
    <2>3. CASE Reboot
      BY <1>1, <2>3 DEF Reboot, provider, Resting
    <2>4. CASE (\E p \in Proc : Crash(p)) \/ ApplyConfig
      BY <1>1, <1>6, <2>4 DEF Crash, ApplyConfig
    <2>5. CASE \E u \in Request : Arrive(u)
      BY <2>5 DEF Arriving
    <2> QED
      BY <1>8, <2>1, <2>2, <2>3, <2>4, <2>5 DEF Environment
  <1>9. CASE UNCHANGED vars
    BY <1>9 DEF vars, disk, provider, Resting
  <1> QED
    BY <1>3, <1>4, <1>5, <1>7, <1>8, <1>9 DEF Next, DaemonStep

\* The address looked up for the update in progress is still what is published,
\* unless an earlier update has come through since: nobody else writes the records.
Seen ==
    pc[Daemon] = "update" =>
        \/ job[Daemon].seen = Lookup(job[Daemon].rule)
        \/ job[Daemon].rule \in overtaken

\* Outside its requests the daemon is running no rule.
Idle == pc[Daemon] \notin {"fetch", "update"} => job[Daemon].rule \notin Rule

\* A daemon that is down has run nothing.
NoneRun == pc[Daemon] = "down" => ran = {}

PublishedInv == Seen /\ Idle /\ NoneRun /\ ReportedAddressIsPublished

\* An update that reaches the provider leaves the address of the run as the first.
LEMMA PushedFirst ==
    ASSUME QddnsInv, Daemon \in Proc, pc[Daemon] = "update",
           job[Daemon].seen = Lookup(job[Daemon].rule)
    PROVE  LET r == job[Daemon].rule IN
           /\ Pushed(Daemon) \in [Rule -> Seq(Addr)]
           /\ \A x \in Rule : x # r => Pushed(Daemon)[x] = records[x]
           /\ Pushed(Daemon)[r] # <<>>
           /\ Head(Pushed(Daemon)[r]) = job[Daemon].ip
  <1> DEFINE r == job[Daemon].rule
             s == records[r]
             a == job[Daemon].ip
  <1>1. r \in Rule /\ a \in Addr /\ records \in [Rule -> Seq(Addr)] /\ s \in Seq(Addr)
    BY DEF QddnsInv, ProcOK, JobOK, SharedOK, ProviderOK
  <1>2. /\ Pushed(Daemon) \in [Rule -> Seq(Addr)]
        /\ \A x \in Rule : x # r => Pushed(Daemon)[x] = records[x]
        /\ Pushed(Daemon)[r] # <<>>
    BY PushedType DEF QddnsInv
  <1>3. CASE job[Daemon].seen = None
    <2>1. s = <<>>
      <3>1. s # <<>> => Head(s) \in Addr
        BY <1>1
      <3> QED
        BY <1>3, <3>1, RuleAssumption DEF Lookup
    <2>2. Pushed(Daemon)[r] = Append(s, a)
      BY <1>1, <1>3 DEF Pushed, Applied, Sent
    <2>3. Head(Append(<<>>, a)) = a
      OBVIOUS
    <2> QED
      BY <1>2, <2>1, <2>2, <2>3
  <1>4. CASE job[Daemon].seen # None
    <2>1. s # <<>>
      BY <1>4 DEF Lookup
    <2>2. Pushed(Daemon)[r] = <<a>> \o Tail(s)
      BY <1>1, <1>4 DEF Pushed, Applied, Sent
    <2>3. Tail(s) \in Seq(Addr)
      BY <1>1, <2>1
    <2>4. \A t \in Seq(Addr) : Head(<<a>> \o t) = a
      BY <1>1
    <2> QED
      BY <1>2, <2>2, <2>3, <2>4
  <1> QED
    BY <1>3, <1>4

\* A run that ends well has found or left its address at the provider, or it was
\* overtaken between its two requests; the records of the other rules are as they
\* were.
LEMMA EndPublishes ==
    ASSUME QddnsInv, Daemon \in Proc, Seen, Idle, Ends(Daemon)
    PROVE  \E r \in Rule, e \in RuleState :
              /\ Insert(Daemon, r, e)
              /\ \A x \in Rule : x # r => records'[x] = records[x]
              /\ job[Daemon].rule \in Rule => r = job[Daemon].rule
              /\ overtaken' \in {overtaken, overtaken \ {r}}
              /\ e.status = "success" /\ r \notin overtaken' => Lookup(r)' = e.current_ip
  <1> DEFINE r == job[Daemon].rule
             Stops(q, e) == /\ Insert(Daemon, q, e)
                            /\ \A x \in Rule : x # q => records'[x] = records[x]
                            /\ job[Daemon].rule \in Rule => q = job[Daemon].rule
                            /\ overtaken' \in {overtaken, overtaken \ {q}}
                            /\ e.status = "success" /\ q \notin overtaken'
                                 => Lookup(q)' = e.current_ip
  <1> USE DEF QddnsInv
  <1>1. pc[Daemon] \in {"fetch", "update"}
           => r \in Rule /\ job[Daemon].ip \in Addr /\ job[Daemon].now \in Time
    BY DEF ProcOK, JobOK, Job
  <1>2. pc[Daemon] = "update" =>
          /\ \A x \in Rule : x # r => Pushed(Daemon)[x] = records[x]
          /\ r \notin overtaken => /\ Pushed(Daemon)[r] # <<>>
                                  /\ Head(Pushed(Daemon)[r]) = job[Daemon].ip
    BY PushedFirst, PushedType DEF Seen
  <1>3. ASSUME NEW q \in Rule, NEW now \in Time, NEW e, e = Failed(Prior(Daemon, q), now),
               Insert(Daemon, q, e), \A x \in Rule : x # q => records'[x] = records[x],
               overtaken' = overtaken, job[Daemon].rule \in Rule => q = job[Daemon].rule
        PROVE  \E x \in Rule, y \in RuleState : Stops(x, y)
    <2>1. e \in RuleState
      BY <1>3, PriorOK, FailedGood DEF GoodEntry
    <2>2. e.status # "success"
      BY <1>3 DEF Failed
    <2> QED
      BY <1>3, <2>1, <2>2
  <1>4. ASSUME NEW q \in Rule, ResolveFails(Daemon, q)
        PROVE  \E x \in Rule, y \in RuleState : Stops(x, y)
    <2>1. job[Daemon].rule \notin Rule
      BY <1>4 DEF ResolveFails, ToRun, Turn, Idle
    <2> QED
      BY <1>3, <1>4, <2>1 DEF ResolveFails, SharedOK, provider
  <1>5. CASE FetchFails(Daemon)
    BY <1>1, <1>3, <1>5 DEF FetchFails, provider
  <1>6. CASE UpdateFails(Daemon)
    BY <1>1, <1>2, <1>3, <1>6 DEF UpdateFails, GivenUp
  <1>7. CASE FetchMatches(Daemon)
    <2> DEFINE e == Unchanged(Prior(Daemon, r), job[Daemon].ip, job[Daemon].now)
    <2>1. e \in RuleState
      BY <1>1, <1>7, PriorOK, UnchangedGood DEF FetchMatches, GoodEntry
    <2>2. e.current_ip = job[Daemon].ip
      BY DEF Unchanged
    <2>3. PICK q \in Rule : q = r /\ q = job[Daemon].rule
      BY <1>1, <1>7 DEF FetchMatches
    <2>4. /\ Insert(Daemon, q, e) /\ records' = records /\ Lookup(q) = job[Daemon].ip
          /\ overtaken' = overtaken \ {q}
      BY <1>7, <2>3 DEF FetchMatches, Looked, provider
    <2>5. Lookup(q)' = Lookup(q)
      BY <2>4 DEF Lookup
    <2> HIDE DEF e, r
    <2> QED
      BY <2>1, <2>2, <2>3, <2>4, <2>5
  <1>8. CASE Update(Daemon)
    <2> DEFINE e == Synced(job[Daemon].ip, job[Daemon].seen, job[Daemon].now)
    <2>1. e \in RuleState
      BY <1>1, <1>8, SyncedGood DEF Update, GoodEntry
    <2>2. e.current_ip = job[Daemon].ip
      BY DEF Synced
    <2>3. PICK q \in Rule : q = r /\ q = job[Daemon].rule
      BY <1>1, <1>8 DEF Update
    <2>4. /\ Insert(Daemon, q, e) /\ records' = Pushed(Daemon) /\ pc[Daemon] = "update"
          /\ overtaken' = overtaken
      BY <1>8, <2>3 DEF Update
    <2>5. q \notin overtaken => Lookup(q)' = job[Daemon].ip
      BY <1>2, <2>3, <2>4 DEF Lookup
    <2>6. \A x \in Rule : x # q => records'[x] = records[x]
      BY <1>2, <2>3, <2>4
    <2> HIDE DEF e, r
    <2> QED
      BY <2>1, <2>2, <2>3, <2>4, <2>5, <2>6
  <1> QED
    BY <1>4, <1>5, <1>6, <1>7, <1>8 DEF Ends

LEMMA PublishedStep ==
    ASSUME QddnsInv, PublishedInv, Cli = {}, [Next]_vars
    PROVE  PublishedInv'
  <1> USE DEF PublishedInv
  <1>1. /\ Daemon \in Proc /\ pc \in [Proc -> PC] /\ mem \in [Proc -> Doc]
        /\ job \in [Proc -> Job] /\ ran \subseteq Rule /\ NoJob.rule \notin Rule
    BY RuleAssumption DEF QddnsInv, ProcOK, Proc, NoJob
  <1>2. ASSUME records' = records
        PROVE  \A r : Lookup(r)' = Lookup(r)
    BY <1>2 DEF Lookup
  <1>3. ASSUME ran' = {}, pc'[Daemon] # "update", job'[Daemon].rule \notin Rule
        PROVE  PublishedInv'
    BY <1>3 DEF Seen, Idle, NoneRun, ReportedAddressIsPublished
  <1>4. ASSUME records' = records, history' = history, pc'[Daemon] \notin {"update", "down"},
               \A r \in Rule : Held(r)' \in {None, Held(r)},
               job[Daemon].rule \notin Rule,
               job'[Daemon].rule \notin Rule \/ pc'[Daemon] = "fetch"
        PROVE  PublishedInv'
    <2>1. Seen' /\ Idle' /\ NoneRun'
      BY <1>4 DEF Seen, Idle, NoneRun
    <2>2. ran' = ran /\ overtaken' = overtaken
      BY <1>4 DEF history
    <2>3. ASSUME NEW r \in (ran \ (overtaken \cup {job[Daemon].rule}))',
                 Held(r)' # None, Held(r)'.status = "success"
          PROVE  Lookup(r)' = Held(r)'.current_ip
      <3>1. r \in ran \ (overtaken \cup {job[Daemon].rule}) /\ r \in Rule
        BY <1>1, <1>4, <2>2
      <3> QED
        BY <1>2, <1>4, <2>3, <3>1 DEF ReportedAddressIsPublished, Held
    <2> QED
      BY <2>1, <2>3 DEF ReportedAddressIsPublished, Held
  <1>5. CASE Resting
    BY <1>5 DEF Resting, history, Seen, Idle, NoneRun, ReportedAddressIsPublished, Lookup
  <1>6. CASE Leaving
    <2>1. ran' = {} /\ pc'[Daemon] = "down" /\ job'[Daemon].rule \notin Rule
      BY <1>1, <1>6 DEF Leaving, Exit, Goto
    <2> QED
      BY <1>3, <2>1
  <1>7. CASE Loading
    <2>1. ran' = {} /\ pc'[Daemon] = "boot" /\ job'[Daemon].rule \notin Rule
      BY <1>1, <1>7 DEF Loading, NoneRun, Idle, history
    <2> QED
      BY <1>3, <2>1
  <1>8. CASE Polling
    BY <1>1, <1>4, <1>8 DEF Polling, Idle
  <1>9. CASE Writing \/ MarkerWritten
    <2>1. /\ pc[Daemon] \notin {"fetch", "update"}
          /\ pc'[Daemon] \in {"bootmark", "mark", "poll", "asleep"}
          /\ UNCHANGED <<records, mem, job, history>>
      BY <1>1, <1>9 DEF Writing, MarkerWritten, Saving, Marking
    <2> QED
      BY <1>4, <2>1 DEF Held, Idle
  <1>10. ASSUME NEW r \in Rule, Skip(Daemon, r) \/ Resolve(Daemon, r)
         PROVE  PublishedInv'
    <2>1. /\ pc[Daemon] = "run"
          /\ pc'[Daemon] = "fetch" \/ (pc'[Daemon] = "run" /\ job' = job)
      BY <1>1, <1>10 DEF Skip, Resolve, ToRun, Turn, Goto
    <2>2. records' = records /\ history' = history /\ mem' = mem
      BY <1>10 DEF Skip, Resolve, provider
    <2> QED
      BY <1>4, <2>1, <2>2 DEF Held, Idle
  <1>11. CASE FetchDiffers(Daemon)
    <2>1. /\ records' = records /\ ran' = ran /\ mem' = mem /\ pc'[Daemon] = "update"
          /\ overtaken' = overtaken \ {job[Daemon].rule}
          /\ job'[Daemon].rule = job[Daemon].rule
          /\ job'[Daemon].seen = Lookup(job[Daemon].rule)
      BY <1>1, <1>11 DEF FetchDiffers, Looked, Goto, Job, provider
    <2>2. (ran \ (overtaken \cup {job[Daemon].rule}))' = ran \ (overtaken \cup {job[Daemon].rule})
      BY <2>1
    <2>3. ReportedAddressIsPublished'
      BY <1>2, <2>1, <2>2 DEF ReportedAddressIsPublished
    <2>4. Seen' /\ Idle' /\ NoneRun'
      BY <2>1 DEF Seen, Idle, NoneRun, Lookup
    <2> QED
      BY <2>3, <2>4
  <1>12. CASE Ends(Daemon)
    <2>1. PICK r \in Rule, e \in RuleState :
             /\ Insert(Daemon, r, e)
             /\ \A x \in Rule : x # r => records'[x] = records[x]
             /\ job[Daemon].rule \in Rule => r = job[Daemon].rule
             /\ overtaken' \in {overtaken, overtaken \ {r}}
             /\ e.status = "success" /\ r \notin overtaken' => Lookup(r)' = e.current_ip
      BY <1>1, <1>12, EndPublishes
    <2>2. pc'[Daemon] = "run" /\ ran' = ran \cup {r} /\ job'[Daemon] = NoJob
      BY <1>1, <2>1 DEF Insert, Goto
    <2>3. \A x \in Rule : Held(x)' = IF x = r THEN e ELSE Held(x)
      BY <1>1, <2>1, StoredEntries DEF Held
    <2>4. \A x \in Rule : x # r => Lookup(x)' = Lookup(x)
      BY <2>1 DEF Lookup
    <2>5. job[Daemon].rule \in Rule => r = job[Daemon].rule
      BY <2>1
    <2>6. ASSUME NEW x \in (ran \ (overtaken \cup {job[Daemon].rule}))',
                 Held(x)' # None, Held(x)'.status = "success"
          PROVE  Lookup(x)' = Held(x)'.current_ip
      <3>1. CASE x = r
        BY <2>1, <2>3, <2>6, <3>1
      <3>2. CASE x # r
        <4>1. x \in Rule /\ x \in ran \ (overtaken \cup {job[Daemon].rule})
          BY <1>1, <2>1, <2>2, <2>5, <2>6, <3>2
        <4> QED
          BY <2>3, <2>4, <2>6, <3>2, <4>1 DEF ReportedAddressIsPublished, Held
      <3> QED
        BY <3>1, <3>2
    <2>7. ReportedAddressIsPublished'
      BY <2>6 DEF ReportedAddressIsPublished, Held
    <2>8. Seen' /\ Idle' /\ NoneRun'
      BY <1>1, <2>2 DEF Seen, Idle, NoneRun
    <2> QED
      BY <2>7, <2>8
  <1>13. CASE Arriving
    <2>1. PICK u \in Request : Arrive(u)
      BY <1>13 DEF Arriving
    <2>2. /\ overtaken' = overtaken \cup {u.rule} /\ records' = Applied(u)
          /\ UNCHANGED <<pc, mem, job, ran>>
      BY <2>1 DEF Arrive
    <2>3. \A x \in Rule : x # u.rule => records'[x] = records[x]
      <3>1. ProviderOK /\ (u.create \/ records[u.rule] # <<>>)
        BY <2>1 DEF QddnsInv, SharedOK, RoomOK, Arrive
      <3> QED
        BY <2>2, <3>1, AppliedType
    <2>4. ReportedAddressIsPublished'
      BY <1>1, <2>2, <2>3 DEF ReportedAddressIsPublished, Lookup
    <2>5. Seen'
      <3>1. pc[Daemon] = "update" => job[Daemon].rule \in Rule
        BY <1>1 DEF QddnsInv, ProcOK, JobOK
      <3> QED
        BY <2>2, <2>3, <3>1 DEF Seen, Lookup
    <2>6. Idle' /\ NoneRun'
      BY <2>2 DEF Idle, NoneRun
    <2> QED
      BY <2>4, <2>5, <2>6
  <1> QED
    BY <1>5, <1>6, <1>7, <1>8, <1>9, <1>10, <1>11, <1>12, <1>13, AloneStep

\* ReportedAddressIsPublished: what a daemon that is alone reports of a rule it
\* has run is what the provider answers, though answers are lost, writes fail
\* and the daemon is killed within an update, until an update that was given up
\* comes through, and again once the daemon has looked.
THEOREM ReportsArePublished ==
    ASSUME Cli = {}
    PROVE  SafeSpec => []ReportedAddressIsPublished
  <1>1. ASSUME Init
        PROVE  PublishedInv
    <2>1. pc[Daemon] = "down" /\ job[Daemon].rule = None /\ ran = {}
      BY <1>1 DEF Init, Proc, NoJob
    <2>2. None \notin Rule
      BY RuleAssumption
    <2> QED
      BY <2>1, <2>2 DEF PublishedInv, Seen, Idle, NoneRun, ReportedAddressIsPublished
  <1>2. QddnsInv /\ PublishedInv /\ [Next]_vars => QddnsInv' /\ PublishedInv'
    BY StepInv, PublishedStep
  <1>3. PublishedInv => ReportedAddressIsPublished
    BY DEF PublishedInv
  <1> QED
    BY <1>1, <1>2, <1>3, InitInv, PTL DEF SafeSpec

-----------------------------------------------------------------------------
(* The file of a daemon that is alone never goes back *)

\* f is at least as recent as e: its check and its push are not before those of e.
NotOlder(e, f) ==
    /\ Reached(e.last_check) <= Reached(f.last_check)
    /\ Reached(e.last_update) <= Reached(f.last_update)

\* What the daemon has written is in the file until it computes something new.
Settled ==
    pc[Daemon] \in {"bootmark", "mark", "poll", "asleep"} => file \in {Corrupt, mem[Daemon]}

\* While it computes, its memory is as recent as the file, and a rule of the file
\* that it has forgotten is not run.
Ordered ==
    pc[Daemon] \in {"boot", "run", "fetch", "update"} =>
        \A r \in Rule :
            EntryIn(file, r) # None =>
                IF Held(r) = None THEN r \notin todo[Daemon] ELSE NotOlder(EntryIn(file, r), Held(r))

\* A run took its time after the entry it is going to replace was computed.
Working ==
    pc[Daemon] \in {"fetch", "update"} =>
        LET j == job[Daemon] IN
        /\ j.rule \in todo[Daemon]
        /\ Held(j.rule) # None => NotAfter(Held(j.rule), j.now)

ForwardInv == Settled /\ Ordered /\ Working

\* The order of the times an entry has, None before all.
LEMMA ReachedOrder ==
    /\ \A t \in Time \cup {None} : Reached(t) <= Reached(t)
    /\ \A s, t \in Time \cup {None}, now \in Time :
           Reached(s) <= Reached(t) /\ (t # None => t <= now) => Reached(s) <= Reached(now)
  <1>1. None \notin Time /\ Time \subseteq Nat
    BY RuleAssumption DEF Time
  <1>2. \A t \in Time : Reached(t) = t
    BY <1>1 DEF Reached
  <1>3. Reached(None) = -1
    BY DEF Reached
  <1>4. \A t \in Time \cup {None} : Reached(t) \in Int /\ -1 <= Reached(t)
    BY <1>1, <1>2, <1>3
  <1>5. ASSUME NEW s \in Time \cup {None}, NEW t \in Time \cup {None}, NEW now \in Time,
               Reached(s) <= Reached(t), t # None => t <= now
        PROVE  Reached(s) <= Reached(now)
    <2>1. Reached(t) <= Reached(now)
      <3>1. CASE t = None
        BY <1>3, <1>4, <3>1
      <3>2. CASE t \in Time
        BY <1>1, <1>2, <1>5, <3>2
      <3> QED
        BY <3>1, <3>2
    <2> QED
      BY <1>4, <1>5, <2>1
  <1>6. \A t \in Time \cup {None} : Reached(t) <= Reached(t)
    BY <1>4
  <1> QED
    BY <1>5, <1>6

\* An entry computed later from a prior one is not older.
LEMMA LaterEntry ==
    ASSUME NEW e \in RuleState, NEW prior \in RuleState, NEW f \in RuleState, NEW now \in Time,
           NotOlder(e, prior), NotAfter(prior, now),
           f.last_check = now, f.last_update \in {now, prior.last_update}
    PROVE  NotOlder(e, f)
  <1>1. /\ e.last_check \in Time \cup {None} /\ e.last_update \in Time \cup {None}
        /\ prior.last_check \in Time \cup {None} /\ prior.last_update \in Time \cup {None}
    BY DEF RuleState
  <1>2. Reached(e.last_check) <= Reached(f.last_check)
    BY <1>1, ReachedOrder DEF NotOlder, NotAfter
  <1>3. Reached(e.last_update) <= Reached(f.last_update)
    BY <1>1, ReachedOrder DEF NotOlder, NotAfter
  <1> QED
    BY <1>2, <1>3 DEF NotOlder

\* An entry is as recent as itself.
LEMMA NotOlderSelf ==
    ASSUME NEW e \in RuleState
    PROVE  NotOlder(e, e)
  <1>1. e.last_check \in Time \cup {None} /\ e.last_update \in Time \cup {None}
    BY DEF RuleState
  <1> QED
    BY <1>1, ReachedOrder DEF NotOlder

\* The entries in the file and in the memory of the daemon are rule states.
LEMMA BothTyped ==
    ASSUME QddnsInv, Daemon \in Proc, NEW r \in Rule
    PROVE  /\ EntryIn(file, r) # None
                => EntryIn(file, r) \in RuleState /\ EntryIn(file, r).last_check # None
           /\ Held(r) # None => Held(r) \in Entries /\ Held(r) \in RuleState
                                /\ Held(r).last_check # None
  <1>1. EntryIn(file, r) # None => EntryIn(file, r) \in Entries
    BY DEF Entries
  <1>2. Held(r) # None => Held(r) \in Entries
    BY DEF Held, Entries
  <1> QED
    BY <1>1, <1>2, EntriesGood DEF GoodEntry, RetryOf

\* What a run of the daemon stores does not go back behind the file.
LEMMA StoredOrdered ==
    ASSUME QddnsInv, NothingAhead, ForwardInv, Daemon \in Proc,
           NEW r \in Rule, NEW e \in RuleState, NEW now \in Time, Stored(Daemon, r, e, now)
    PROVE  ForwardInv'
  <1> USE DEF ForwardInv
  <1>1. pc \in [Proc -> PC] /\ todo \in [Proc -> SUBSET Rule]
    BY DEF QddnsInv, ProcOK
  <1>2. pc'[Daemon] = "run" /\ todo'[Daemon] = todo[Daemon] \ {r} /\ file' = file
    BY <1>1 DEF Stored, Insert, Goto, disk
  <1>3. \A x \in Rule : Held(x)' = IF x = r THEN e ELSE Held(x)
    BY StoredEntries DEF Stored, Held
  <1>4. pc[Daemon] \in {"run", "fetch", "update"} /\ r \in todo[Daemon]
        /\ (Held(r) # None => NotAfter(Held(r), now))
    <2>1. CASE pc[Daemon] = "run" /\ r \in todo[Daemon] /\ now = clock
      BY <2>1, BothTyped DEF NothingAhead
    <2>2. CASE pc[Daemon] \in {"fetch", "update"} /\ r = job[Daemon].rule /\ now = job[Daemon].now
      BY <2>2 DEF Working
    <2> QED
      BY <2>1, <2>2 DEF Stored
  <1>5. ASSUME EntryIn(file, r) # None
        PROVE  NotOlder(EntryIn(file, r), e)
    <2>1. Held(r) # None /\ NotOlder(EntryIn(file, r), Held(r))
      BY <1>4, <1>5 DEF Ordered
    <2>2. Prior(Daemon, r) = Held(r)
      BY <2>1 DEF Prior, PriorOf, Held
    <2>3. e.last_check = now /\ e.last_update \in {now, Held(r).last_update}
      BY <2>2 DEF Stored
    <2> QED
      BY <1>4, <1>5, <2>1, <2>3, BothTyped, LaterEntry
  <1>6. ASSUME NEW x \in Rule, EntryIn(file, x) # None
        PROVE  IF Held(x)' = None THEN x \notin todo'[Daemon]
                                  ELSE NotOlder(EntryIn(file, x), Held(x)')
    <2>1. CASE x = r
      BY <1>2, <1>3, <1>5, <1>6, <2>1
    <2>2. CASE x # r
      BY <1>2, <1>3, <1>4, <1>6, <2>2 DEF Ordered
    <2> QED
      BY <2>1, <2>2
  <1>7. Ordered'
    BY <1>2, <1>6 DEF Ordered, EntryIn, NotOlder, Reached
  <1>8. Settled' /\ Working'
    BY <1>2 DEF Settled, Working
  <1> QED
    BY <1>7, <1>8

LEMMA ForwardStep ==
    ASSUME QddnsInv, NothingAhead, ForwardInv, Cli = {}, [Next]_vars
    PROVE  ForwardInv'
  <1> USE DEF ForwardInv
  <1>1. /\ Daemon \in Proc /\ pc \in [Proc -> PC] /\ job \in [Proc -> Job]
        /\ todo \in [Proc -> SUBSET Rule] /\ job[Daemon] \in Job
    BY DEF QddnsInv, ProcOK, Proc
  <1>2. ASSUME pc'[Daemon] \notin {"boot", "run", "fetch", "update"}, Settled'
        PROVE  ForwardInv'
    BY <1>2 DEF Ordered, Working
  <1>3. ASSUME pc'[Daemon] \in {"boot", "run"}, Ordered'
        PROVE  ForwardInv'
    BY <1>3 DEF Settled, Working
  <1>4. CASE Resting
    <2>1. Settled'
      BY <1>4 DEF Resting, Settled
    <2>2. \A r \in Rule : EntryIn(file', r) \in {None, EntryIn(file, r)}
      BY <1>4 DEF Resting, EntryIn
    <2>3. Ordered'
      BY <1>4, <2>2 DEF Resting, Ordered, Held, EntryIn, NotOlder, Reached
    <2>4. Working'
      BY <1>4 DEF Resting, Working, Held, NotAfter
    <2> QED
      BY <2>1, <2>3, <2>4
  <1>5. CASE Leaving
    <2>1. pc'[Daemon] = "down"
      BY <1>1, <1>5 DEF Leaving, Exit, Goto
    <2> QED
      BY <1>2, <2>1 DEF Settled
  <1>6. CASE Loading
    <2>1. pc'[Daemon] = "boot" /\ file' = file /\ todo'[Daemon] = {}
      BY <1>1, <1>6 DEF Loading
    <2>2. ASSUME NEW r \in Rule, EntryIn(file, r) # None, Held(r)' # None
          PROVE  NotOlder(EntryIn(file, r), Held(r)')
      <3>1. Held(r)' = EntryIn(file, r)
        BY <1>6, <2>2 DEF Loading
      <3>2. EntryIn(file, r) \in RuleState
        BY <1>1, <2>2, BothTyped
      <3> QED
        BY <3>1, <3>2, NotOlderSelf
    <2>3. Ordered'
      BY <2>1, <2>2 DEF Ordered, EntryIn, NotOlder, Reached
    <2> QED
      BY <1>3, <2>1, <2>3
  <1>7. CASE Polling
    <2>1. pc'[Daemon] = "run" /\ file' = file
      BY <1>1, <1>7 DEF Polling
    <2>2. \A r \in Rule : EntryIn(file, r) \in {None, Held(r)}
      BY <1>7 DEF Polling, Settled, EntryIn, Held
    <2>3. ASSUME NEW r \in Rule, EntryIn(file, r) # None
          PROVE  IF Held(r)' = None THEN r \notin todo'[Daemon]
                                    ELSE NotOlder(EntryIn(file, r), Held(r)')
      <3>1. EntryIn(file, r) = Held(r) /\ EntryIn(file, r) \in RuleState
        BY <1>1, <2>2, <2>3, BothTyped
      <3>2. Held(r)' \in {None, Held(r)} /\ (r \in todo'[Daemon] => Held(r)' = Held(r))
        BY <1>7 DEF Polling
      <3> QED
        BY <2>3, <3>1, <3>2, NotOlderSelf
    <2>4. Ordered'
      BY <2>1, <2>3 DEF Ordered, EntryIn, NotOlder, Reached
    <2> QED
      BY <1>3, <2>1, <2>4
  <1>8. CASE Writing
    <2>1. pc'[Daemon] \in {"bootmark", "mark"} /\ file' = mem'[Daemon]
      BY <1>1, <1>8 DEF Writing
    <2> QED
      BY <1>2, <2>1 DEF Settled
  <1>9. CASE MarkerWritten
    <2>1. pc'[Daemon] \in {"poll", "asleep"} /\ file' = file /\ mem' = mem
      BY <1>1, <1>9 DEF MarkerWritten
    <2>2. file \in {Corrupt, mem[Daemon]}
      BY <1>9 DEF MarkerWritten, Marking, Settled
    <2> QED
      BY <1>2, <2>1, <2>2 DEF Settled
  <1>10. ASSUME NEW r \in Rule, Skip(Daemon, r)
         PROVE  ForwardInv'
    <2>1. /\ pc[Daemon] = "run" /\ pc'[Daemon] = "run" /\ file' = file /\ mem' = mem
          /\ todo'[Daemon] \subseteq todo[Daemon]
      BY <1>1, <1>10 DEF Skip, Turn, disk
    <2>2. Ordered'
      BY <2>1 DEF Ordered, EntryIn, Held, NotOlder, Reached
    <2> QED
      BY <1>3, <2>1, <2>2
  <1>11. ASSUME NEW r \in Rule, Resolve(Daemon, r)
         PROVE  ForwardInv'
    <2>1. /\ pc[Daemon] = "run" /\ pc'[Daemon] = "fetch" /\ file' = file /\ mem' = mem
          /\ todo' = todo /\ job'[Daemon].rule = r /\ job'[Daemon].now = clock
      BY <1>1, <1>11 DEF Resolve, ToRun, Turn, Goto, disk
    <2>2. r \in todo[Daemon]
      <3>1. todo[Daemon] \in SUBSET Rule
        BY <1>1
      <3> QED
        BY <1>11, <3>1, MinIsIn DEF Resolve, ToRun, Turn
    <2>3. Held(r) # None => NotAfter(Held(r), clock)
      BY <1>1, BothTyped DEF NothingAhead
    <2>4. Ordered'
      BY <2>1 DEF Ordered, EntryIn, Held, NotOlder, Reached
    <2>5. Working'
      BY <2>1, <2>2, <2>3 DEF Working, Held, NotAfter
    <2> QED
      BY <2>1, <2>4, <2>5 DEF Settled
  <1>12. CASE FetchDiffers(Daemon)
    <2>1. /\ pc[Daemon] = "fetch" /\ pc'[Daemon] = "update" /\ file' = file /\ mem' = mem
          /\ todo' = todo /\ job'[Daemon].rule = job[Daemon].rule
          /\ job'[Daemon].now = job[Daemon].now
      BY <1>1, <1>12 DEF FetchDiffers, Goto, disk, Job
    <2>2. Ordered'
      BY <2>1 DEF Ordered, EntryIn, Held, NotOlder, Reached
    <2>3. Working'
      BY <2>1 DEF Working, Held, NotAfter
    <2> QED
      BY <2>1, <2>2, <2>3 DEF Settled
  <1>13. CASE Ends(Daemon)
    BY <1>1, <1>13, RunStores, StoredOrdered
  <1>14. CASE Arriving
    <2>1. UNCHANGED <<pc, mem, todo, job, file>>
      BY <1>14 DEF Arriving, Arrive, disk
    <2>2. Settled' /\ Working'
      BY <2>1 DEF Settled, Working, Held, NotAfter
    <2>3. Ordered'
      BY <2>1 DEF Ordered, Held, EntryIn, NotOlder, Reached
    <2> QED
      BY <2>2, <2>3
  <1> QED
    BY <1>4, <1>5, <1>6, <1>7, <1>8, <1>9, <1>10, <1>11, <1>12, <1>13, <1>14, AloneStep

\* No step replaces an entry of the file by an older one.
LEMMA FileForward ==
    ASSUME QddnsInv, ForwardInv, Cli = {}, [Next]_vars, NEW r \in Rule,
           EntryIn(file, r) # None, EntryIn(file', r) # None
    PROVE  NotOlder(EntryIn(file, r), EntryIn(file', r))
  <1> USE DEF ForwardInv
  <1>1. Daemon \in Proc
    BY DEF Proc
  <1>2. EntryIn(file, r) \in RuleState
    BY <1>1, BothTyped
  <1>3. EntryIn(file, r) = EntryIn(file', r) => NotOlder(EntryIn(file, r), EntryIn(file', r))
    BY <1>2, NotOlderSelf
  <1>4. ASSUME Saving(Daemon), file' = mem[Daemon]
        PROVE  NotOlder(EntryIn(file, r), EntryIn(file', r))
    <2>1. EntryIn(file', r) = Held(r) /\ Held(r) # None
      BY <1>4 DEF EntryIn, Held
    <2>2. pc[Daemon] \in {"boot", "run"}
      BY <1>4 DEF Saving
    <2> QED
      BY <2>1, <2>2 DEF Ordered
  <1>5. CASE Resting
    BY <1>3, <1>5 DEF Resting, EntryIn
  <1>6. CASE Leaving \/ Writing
    BY <1>3, <1>4, <1>6 DEF Leaving, Writing
  <1>7. CASE Loading \/ Polling \/ MarkerWritten
    BY <1>3, <1>7 DEF Loading, Polling, MarkerWritten
  <1>8. CASE (\E x \in Rule : Skip(Daemon, x) \/ Resolve(Daemon, x)) \/ FetchDiffers(Daemon)
    BY <1>3, <1>8 DEF Skip, Resolve, FetchDiffers, disk
  <1>9. CASE Ends(Daemon)
    BY <1>1, <1>3, <1>9, RunStores DEF Stored, disk
  <1>10. CASE Arriving
    BY <1>3, <1>10 DEF Arriving, Arrive, disk
  <1> QED
    BY <1>5, <1>6, <1>7, <1>8, <1>9, <1>10, AloneStep

\* ReportsNeverRegress: with a clock that is not set back, a daemon that is alone
\* never replaces an entry of runtime.state by one with an earlier check or push,
\* through restarts, damaged files, and writes that fail or are killed.
THEOREM FileNeverRegresses ==
    ASSUME Cli = {}, StepBacks = FALSE
    PROVE  SafeSpec => ReportsNeverRegress
  <1>1. Init => ForwardInv
    BY DEF Init, ForwardInv, Settled, Ordered, Working, Proc
  <1>2. QddnsInv /\ NothingAhead /\ ForwardInv /\ [Next]_vars
           => QddnsInv' /\ NothingAhead' /\ ForwardInv'
    BY StepInv, AheadStep, ForwardStep
  <1>3. QddnsInv /\ ForwardInv /\ [Next]_vars
           => [\A r \in Rule :
                  LET before == EntryIn(file, r)
                      after  == EntryIn(file', r)
                  IN  before # None /\ after # None =>
                          /\ Reached(before.last_check) <= Reached(after.last_check)
                          /\ Reached(before.last_update) <= Reached(after.last_update)]_vars
    BY FileForward DEF NotOlder
  <1> QED
    BY <1>1, <1>2, <1>3, InitInv, AheadInit, PTL DEF SafeSpec, ReportsNeverRegress

-----------------------------------------------------------------------------
(* The overview shows the newest results *)

\* What a step makes of one process: nothing; the beginning of a run, or the end
\* of its lookup; or it is in neither of the two requests of a run.
Same(p) == pc'[p] = pc[p] /\ mem'[p] = mem[p] /\ job'[p] = job[p]
Begun(p) == mem'[p] = mem[p] /\ job'[p].now = clock
Fetched(p) ==
    /\ pc[p] = "fetch" /\ mem'[p] = mem[p]
    /\ job'[p].now = job[p].now /\ job'[p].rule = job[p].rule
Outside(p) == pc'[p] \notin {"fetch", "update"}

LEMMA OneOfFour ==
    ASSUME QddnsInv, [Next]_vars
    PROVE  \A p \in Proc : Same(p) \/ Begun(p) \/ Fetched(p) \/ Outside(p)
  <1> DEFINE Goal == \A p \in Proc : Same(p) \/ Begun(p) \/ Fetched(p) \/ Outside(p)
  <1>1. /\ pc \in [Proc -> PC] /\ mem \in [Proc -> Doc] /\ job \in [Proc -> Job]
        /\ Daemon \in Proc /\ Cli \subseteq Proc
    BY DEF QddnsInv, ProcOK, Proc
  <1>2. ASSUME NEW q \in Proc, Outside(q), \A p \in Proc : p # q => Same(p)
        PROVE  Goal
    BY <1>2
  <1>3. ASSUME NEW q \in Proc, Exit(q)
        PROVE  Goal
    <2>1. Outside(q) /\ \A p \in Proc : p # q => Same(p)
      BY <1>1, <1>3 DEF Exit, Goto, Outside, Same
    <2> QED
      BY <1>2, <2>1
  <1>4. ASSUME UNCHANGED <<pc, mem, job>>
        PROVE  Goal
    BY <1>4 DEF Same
  <1>5. ASSUME NEW q \in Proc, Work(q)
        PROVE  Goal
    <2>1. CASE Ends(q)
      <3>1. PICK r \in Rule, e \in RuleState, now \in Time : Stored(q, r, e, now)
        BY <2>1, RunStores
      <3>2. Insert(q, r, e)
        BY <3>1 DEF Stored
      <3>3. Outside(q) /\ \A p \in Proc : p # q => Same(p)
        BY <1>1, <3>2 DEF Insert, Goto, Outside, Same
      <3> QED
        BY <1>2, <3>3
    <2>2. CASE \E r \in Rule : Skip(q, r)
      BY <1>4, <2>2 DEF Skip
    <2>3. ASSUME NEW r \in Rule, Resolve(q, r)
          PROVE  Goal
      <3>1. Begun(q) /\ \A p \in Proc : p # q => Same(p)
        BY <1>1, <2>3 DEF Resolve, Goto, Begun, Same
      <3> QED
        BY <3>1
    <2>4. CASE FetchDiffers(q)
      <3>1. \A x : [job[q] EXCEPT !.seen = x].now = job[q].now
                   /\ [job[q] EXCEPT !.seen = x].rule = job[q].rule
        BY <1>1 DEF Job
      <3>2. /\ Goto(q, "update") /\ mem' = mem /\ pc[q] = "fetch"
            /\ job' = [job EXCEPT ![q] = [job[q] EXCEPT !.seen = Lookup(job[q].rule)]]
        BY <2>4 DEF FetchDiffers
      <3>3. Fetched(q) /\ \A p \in Proc : p # q => Same(p)
        BY <1>1, <3>1, <3>2 DEF Goto, Fetched, Same
      <3> QED
        BY <3>3
    <2>5. CASE Save(q)
      <3>1. AfterSave(q) \notin {"fetch", "update"}
        BY DEF AfterSave
      <3>2. CASE Exit(q)
        BY <1>3, <3>2
      <3>3. CASE Proceed(q)
        <4>1. Outside(q) /\ \A p \in Proc : p # q => Same(p)
          BY <1>1, <3>1, <3>3 DEF Proceed, Goto, Outside, Same
        <4> QED
          BY <1>2, <4>1
      <3> QED
        BY <2>5, <3>2, <3>3 DEF Save
    <2>6. CASE Mark(q)
      <3>1. /\ mem' = mem /\ job' = job
            /\ Goto(q, "poll") \/ Goto(q, "asleep")
        BY <2>6 DEF Mark
      <3>2. Outside(q) /\ \A p \in Proc : p # q => Same(p)
        BY <1>1, <3>1 DEF Goto, Outside, Same
      <3> QED
        BY <1>2, <3>2
    <2>7. CASE SaveFails(q) \/ MarkFails(q) \/ Unmark(q)
      BY <1>3, <2>7 DEF SaveFails, MarkFails, Unmark
    <2> QED
      BY <1>5, <2>1, <2>2, <2>3, <2>4, <2>5, <2>6, <2>7 DEF Work, Ends
  <1>6. ASSUME NEW q \in Proc, NEW what, NEW doc, NEW ids, NEW at \in {"boot", "run"},
               Begin(q, what, doc, ids, at)
        PROVE  Goal
    <2>1. Outside(q) /\ \A p \in Proc : p # q => Same(p)
      BY <1>1, <1>6 DEF Begin, Goto, Outside, Same
    <2> QED
      BY <1>2, <2>1
  <1>7. CASE DaemonStep
    <2>1. CASE Start \/ BeginPoll
      BY <1>1, <1>6, <2>1 DEF Start, BeginPoll
    <2>2. CASE PollRefused
      BY <1>1, <1>3, <2>2 DEF PollRefused
    <2> QED
      BY <1>1, <1>5, <1>7, <2>1, <2>2 DEF DaemonStep
  <1>8. ASSUME NEW q \in Cli, CliStep(q)
        PROVE  Goal
    <2>1. CASE (\E r \in Rule : CliRun(q, r)) \/ CliLoad(q) \/ CliOnce(q)
      BY <1>1, <1>6, <2>1 DEF CliRun, CliLoad, CliOnce
    <2> QED
      BY <1>1, <1>5, <1>8, <2>1 DEF CliStep
  <1>9. CASE Environment
    <2>1. CASE \/ Tick \/ (\E a \in Addr : ChangeAddr(a)) \/ EditConfig \/ Damage \/ Reboot
               \/ StepBack \/ (\E u \in Request : Arrive(u))
      BY <1>4, <2>1 DEF Tick, Arrive, ChangeAddr, EditConfig, Damage, Reboot, StepBack
    <2>2. CASE (\E q \in Proc : Crash(q)) \/ ApplyConfig
      BY <1>1, <1>3, <2>2 DEF Crash, ApplyConfig, Kill
    <2> QED
      BY <1>9, <2>1, <2>2 DEF Environment
  <1>10. CASE UNCHANGED vars
    BY <1>4, <1>10 DEF vars
  <1> QED
    BY <1>7, <1>8, <1>9, <1>10 DEF Next

\* A push that is recorded came no later than the moment t.
PushedBy(e, t) == e.last_update # None => e.last_update <= t

\* The last push of a rule is not after its last check, and for a run that is
\* under way it will not be.
PushesAreChecks ==
    /\ \A e \in Entries : PushedBy(e, e.last_check)
    /\ \A p \in Proc :
          pc[p] \in {"fetch", "update"} => PushedBy(Prior(p, job[p].rule), job[p].now)

LEMMA PriorInTime ==
    ASSUME QddnsInv, NothingAhead, NEW p \in Proc, NEW r \in Rule
    PROVE  PushedBy(Prior(p, r), clock)
  BY DEF PushedBy, Prior, PriorOf, DefaultRule, Entries, NothingAhead, NotAfter

LEMMA PushesStep ==
    ASSUME QddnsInv, NothingAhead, PushesAreChecks, [Next]_vars
    PROVE  PushesAreChecks'
  <1>1. ASSUME NEW p \in Proc, NEW r \in Rule, mem'[p].rules[r] # None
        PROVE  PushedBy(mem'[p].rules[r], mem'[p].rules[r].last_check)
    <2> DEFINE e == mem'[p].rules[r]
    <2>1. CASE e \in Entries
      BY <2>1 DEF PushesAreChecks
    <2>2. ASSUME NEW now \in Time, Stored(p, r, e, now)
          PROVE  PushedBy(e, e.last_check)
      <3>1. PushedBy(Prior(p, r), now)
        <4>1. CASE pc[p] = "run" /\ now = clock
          BY <4>1, PriorInTime
        <4>2. CASE pc[p] \in {"fetch", "update"} /\ r = job[p].rule /\ now = job[p].now
          BY <4>2 DEF PushesAreChecks
        <4> QED
          BY <2>2, <4>1, <4>2 DEF Stored
      <3>2. e.last_check = now /\ e.last_update \in {now, Prior(p, r).last_update}
        BY <2>2 DEF Stored
      <3>3. now <= now
        BY RuleAssumption DEF Time
      <3> HIDE DEF e
      <3> QED
        BY <3>1, <3>2, <3>3 DEF PushedBy
    <2> QED
      BY <1>1, <2>1, <2>2, MemoryStep
  <1>2. ASSUME NEW r \in Rule, EntryIn(file', r) # None
        PROVE  PushedBy(EntryIn(file', r), EntryIn(file', r).last_check)
    <2>1. EntryIn(file', r) \in Entries
      BY <1>2, FileStep DEF EntryIn, Entries
    <2> QED
      BY <2>1 DEF PushesAreChecks
  <1>3. \A e \in Entries' : PushedBy(e, e.last_check)
    BY <1>1, <1>2 DEF Entries, EntryIn
  <1>4. ASSUME NEW p \in Proc, pc'[p] \in {"fetch", "update"}
        PROVE  PushedBy(PriorOf(mem'[p].rules, job'[p].rule), job'[p].now)
    <2>1. CASE Same(p)
      BY <1>4, <2>1 DEF Same, PushesAreChecks, Prior
    <2>2. CASE Begun(p)
      <3>1. job'[p].rule \in Rule
        BY <1>4, StepInv DEF QddnsInv, ProcOK, JobOK
      <3> QED
        BY <2>2, <3>1, PriorInTime DEF Begun, Prior
    <2>3. CASE Fetched(p)
      BY <2>3 DEF Fetched, PushesAreChecks, Prior
    <2> QED
      BY <1>4, <2>1, <2>2, <2>3, OneOfFour DEF Outside
  <1> QED
    BY <1>3, <1>4 DEF PushesAreChecks, Prior, PushedBy

LEMMA PushesInit == Init => PushesAreChecks
  <1> SUFFICES ASSUME Init PROVE PushesAreChecks
    OBVIOUS
  <1>1. Entries = {}
    BY DEF Init, Entries, EntryIn, DefaultDoc, EmptyMap
  <1> QED
    BY <1>1 DEF Init, PushesAreChecks

\* A document whose entries were checked no earlier than they were pushed; a
\* result is then as recent as its check.
ChecksLast(doc) ==
    /\ doc \in Doc
    /\ \A r \in Rule : doc.rules[r] # None =>
          /\ doc.rules[r].last_check # None
          /\ PushedBy(doc.rules[r], doc.rules[r].last_check)

LEMMA RecentIsCheck ==
    ASSUME NEW doc, ChecksLast(doc), NEW r \in Visible(doc)
    PROVE  /\ RecentTime(doc.rules[r]) = doc.rules[r].last_check
           /\ doc.rules[r].last_check \in Nat
           /\ Reached(doc.rules[r].last_check) = doc.rules[r].last_check
           /\ config[r] = "enabled" /\ r \in Rule
  <1> DEFINE e == doc.rules[r]
             c == e.last_check
             u == Reached(e.last_update)
  <1>1. r \in Rule /\ e # None /\ config[r] = "enabled"
    BY DEF Visible, Enabled
  <1>2. e \in RuleState /\ c # None /\ PushedBy(e, c)
    BY <1>1 DEF ChecksLast, Doc, RuleMap
  <1>3. c \in Nat /\ e.last_update \in Nat \cup {None}
    BY <1>2, RuleAssumption DEF RuleState, Time
  <1>4. Reached(c) = c
    BY <1>2 DEF Reached
  <1>5. u \in Int /\ u <= c
    BY <1>2, <1>3 DEF Reached, PushedBy
  <1>6. RecentTime(e) = Max({u, c})
    BY <1>4 DEF RecentTime
  <1>7. \A x \in {u, c} : c >= x
    BY <1>3, <1>5
  <1>8. Max({u, c}) = c
    <2> DEFINE m == Max({u, c})
    <2>1. m \in {u, c} /\ \A x \in {u, c} : m >= x
      BY <1>7, Zenon DEF Max
    <2> HIDE DEF m, c, u
    <2> QED
      BY <1>3, <1>5, <2>1 DEF m
  <1> QED
    BY <1>1, <1>3, <1>4, <1>6, <1>8

\* The sort is by a strict total order: later checks first, then names.
LEMMA SortOrder ==
    ASSUME NEW doc, ChecksLast(doc)
    PROVE  /\ \A q, r \in Visible(doc) :
                Precedes(doc, q, r) => doc.rules[q].last_check >= doc.rules[r].last_check
           /\ \A r \in Visible(doc) : ~Precedes(doc, r, r)
           /\ \A q, r \in Visible(doc) : q # r => Precedes(doc, q, r) \/ Precedes(doc, r, q)
           /\ \A p, q, r \in Visible(doc) :
                Precedes(doc, p, q) /\ Precedes(doc, q, r) => Precedes(doc, p, r)
  <1> DEFINE c(r) == doc.rules[r].last_check
  <1>1. \A r \in Visible(doc) : c(r) \in Nat /\ r \in Nat
    BY RecentIsCheck, RuleAssumption
  <1>2. \A q, r \in Visible(doc) : Precedes(doc, q, r) <=> (c(q) > c(r) \/ (c(q) = c(r) /\ q < r))
    BY RecentIsCheck DEF Precedes
  <1> HIDE DEF c
  <1>3. \A q, r \in Visible(doc) : Precedes(doc, q, r) => c(q) >= c(r)
    BY <1>1, <1>2
  <1> QED
    BY <1>1, <1>2, <1>3 DEF c

\* Each entry has a place of its own, the places are counted from 0, and what
\* precedes has the lower one.
LEMMA Ranks ==
    ASSUME NEW doc, ChecksLast(doc), IsFiniteSet(Visible(doc))
    PROVE  LET n == Cardinality(Visible(doc)) IN
           /\ n \in Nat
           /\ \A r \in Visible(doc) : Rank(doc, r) \in 0 .. n - 1
           /\ \A q, r \in Visible(doc) : Precedes(doc, q, r) => Rank(doc, q) < Rank(doc, r)
           /\ \A i \in 0 .. n - 1 : \E r \in Visible(doc) : Rank(doc, r) = i
  <1> DEFINE V == Visible(doc)
             n == Cardinality(V)
             B(r) == {q \in V : Precedes(doc, q, r)}
  <1>1. n \in Nat
    BY FS_CardinalityType
  <1>2. ASSUME NEW r \in V
        PROVE  IsFiniteSet(B(r)) /\ Rank(doc, r) = Cardinality(B(r)) /\ Rank(doc, r) \in 0 .. n - 1
    <2>1. B(r) \subseteq V /\ r \notin B(r)
      BY SortOrder
    <2>2. IsFiniteSet(B(r)) /\ Cardinality(B(r)) <= n /\ Cardinality(B(r)) # n
      BY <2>1, FS_Subset
    <2>3. Cardinality(B(r)) \in Nat
      BY <2>2, FS_CardinalityType
    <2>4. Rank(doc, r) = Cardinality(B(r))
      BY DEF Rank
    <2> HIDE DEF B, V, n
    <2> QED
      BY <1>1, <2>2, <2>3, <2>4
  <1>3. ASSUME NEW q \in V, NEW r \in V, Precedes(doc, q, r)
        PROVE  Rank(doc, q) < Rank(doc, r)
    <2>1. B(q) \cup {q} \subseteq B(r)
      BY <1>3, SortOrder
    <2>2. q \notin B(q)
      BY SortOrder
    <2>3. Cardinality(B(q) \cup {q}) = Cardinality(B(q)) + 1
      BY <1>2, <2>2, FS_AddElement
    <2>4. Cardinality(B(q) \cup {q}) <= Cardinality(B(r))
      BY <1>2, <2>1, FS_Subset
    <2>5. Cardinality(B(q)) \in Nat /\ Cardinality(B(r)) \in Nat
      BY <1>2, FS_CardinalityType
    <2> HIDE DEF B
    <2> QED
      BY <1>2, <2>3, <2>4, <2>5
  <1>4. ASSUME NEW i \in 0 .. n - 1
        PROVE  \E r \in V : Rank(doc, r) = i
    <2> DEFINE f == [r \in V |-> Rank(doc, r)]
    <2>1. \A q, r \in V : Rank(doc, q) = Rank(doc, r) => q = r
      <3>1. ASSUME NEW q \in V, NEW r \in V, q # r
            PROVE  Rank(doc, q) # Rank(doc, r)
        <4>1. Rank(doc, q) \in Int /\ Rank(doc, r) \in Int
          <5> HIDE DEF n, B, f, V
          <5> QED
            BY <1>1, <1>2
        <4>2. Precedes(doc, q, r) \/ Precedes(doc, r, q)
          BY <3>1, SortOrder
        <4> QED
          BY <1>3, <4>1, <4>2
      <3> QED
        BY <3>1
    <2>2. f \in Injection(V, 0 .. n - 1)
      BY <1>2, <2>1 DEF Injection, IsInjective
    <2>3. IsFiniteSet(0 .. n - 1) /\ Cardinality(0 .. n - 1) = n
      <3> HIDE DEF n
      <3> QED
        BY <1>1, FS_Interval
    <2>4. f \in Surjection(V, 0 .. n - 1)
      BY <2>2, <2>3, FS_Injection
    <2> QED
      BY <2>4 DEF Surjection
  <1> QED
    BY <1>1, <1>2, <1>3, <1>4

\* What the overview leaves out comes after all that it shows, which are then as
\* many as it can show.
LEMMA LeftOut ==
    ASSUME NEW doc, ChecksLast(doc), IsFiniteSet(Visible(doc)), NEW r \in Visible(doc),
           r \notin Range(RecentResults(doc))
    PROVE  /\ DOMAIN RecentResults(doc) = 1 .. MaxShown
           /\ \A i \in DOMAIN RecentResults(doc) :
                /\ RecentResults(doc)[i] \in Visible(doc)
                /\ doc.rules[RecentResults(doc)[i]].last_check >= doc.rules[r].last_check
  <1> DEFINE V == Visible(doc)
             n == Cardinality(V)
             len == Min({MaxShown, n})
             shown == RecentResults(doc)
             k == Rank(doc, r)
  <1>1. n \in Nat /\ MaxShown \in Nat /\ k \in 0 .. n - 1
    BY Ranks, StatusAssumption
  <1>2. len \in {MaxShown, n} /\ len <= MaxShown /\ len <= n
    <2>1. \E x \in {MaxShown, n} : \A y \in {MaxShown, n} : x <= y
      <3> HIDE DEF n
      <3> QED
        BY <1>1
    <2>2. len \in {MaxShown, n} /\ \A y \in {MaxShown, n} : len <= y
      BY <2>1, Zenon DEF Min
    <2> QED
      BY <2>2
  <1>3. DOMAIN shown = 1 .. len
    BY DEF RecentResults
  <1>4. ASSUME NEW i \in 1 .. len
        PROVE  shown[i] \in V /\ Rank(doc, shown[i]) = i - 1
    <2>1. i - 1 \in 0 .. n - 1
      <3> HIDE DEF n, len
      <3> QED
        BY <1>1, <1>2
    <2>2. \E q \in V : Rank(doc, q) = i - 1
      BY <2>1, Ranks
    <2>3. shown[i] = CHOOSE q \in V : Rank(doc, q) = i - 1
      BY DEF RecentResults
    <2> QED
      BY <2>2, <2>3, Zenon
  <1>5. ASSUME NEW q \in V, q # r
        PROVE  Rank(doc, q) # k
    <2>1. Precedes(doc, q, r) \/ Precedes(doc, r, q)
      BY <1>5, SortOrder
    <2>2. Rank(doc, q) < k \/ k < Rank(doc, q)
      BY <2>1, Ranks
    <2>3. Rank(doc, q) \in 0 .. n - 1
      BY Ranks
    <2> HIDE DEF k, n
    <2> QED
      BY <1>1, <2>2, <2>3
  <1>6. len <= k
    <2> SUFFICES ASSUME k < len
                 PROVE  FALSE
      <3> HIDE DEF k, len, n
      <3> QED
        BY <1>1, <1>2
    <2>1. k + 1 \in 1 .. len /\ (k + 1) - 1 = k
      <3> HIDE DEF k, len, n
      <3> QED
        BY <1>1, <1>2
    <2>2. shown[k + 1] \in V /\ Rank(doc, shown[k + 1]) = k
      BY <1>4, <2>1
    <2>3. shown[k + 1] = r
      BY <1>5, <2>2
    <2> QED
      BY <1>3, <2>1, <2>3 DEF Range
  <1>7. len = MaxShown
    <2> HIDE DEF k, len, n
    <2> QED
      BY <1>1, <1>2, <1>6
  <1>8. ASSUME NEW i \in 1 .. len
        PROVE  doc.rules[shown[i]].last_check >= doc.rules[r].last_check
    <2>1. shown[i] \in V /\ Rank(doc, shown[i]) < k
      <3>1. i - 1 < k
        <4> HIDE DEF k, len, n
        <4> QED
          BY <1>1, <1>2, <1>6
      <3> QED
        BY <1>4, <3>1
    <2>2. ~Precedes(doc, r, shown[i])
      <3>1. Precedes(doc, r, shown[i]) => k < Rank(doc, shown[i])
        BY <2>1, Ranks
      <3>2. Rank(doc, shown[i]) \in 0 .. n - 1
        BY <2>1, Ranks
      <3> HIDE DEF k, n
      <3> QED
        BY <1>1, <2>1, <3>1, <3>2
    <2>3. shown[i] # r
      BY <1>3 DEF Range
    <2> QED
      BY <2>1, <2>2, <2>3, SortOrder
  <1> QED
    BY <1>3, <1>4, <1>7, <1>8

\* A state without entries has nothing to show.
LEMMA NothingToShow == RecentResults(DefaultDoc) = <<>>
  <1>1. Visible(DefaultDoc) = {}
    BY DEF Visible, DefaultDoc, EmptyMap, Enabled
  <1>2. Cardinality(Visible(DefaultDoc)) = 0
    BY <1>1, FS_EmptySet
  <1>3. Min({MaxShown, 0}) = 0
    <2>1. \E x \in {MaxShown, 0} : \A y \in {MaxShown, 0} : x <= y
      BY StatusAssumption
    <2>2. Min({MaxShown, 0}) \in {MaxShown, 0} /\ \A y \in {MaxShown, 0} : Min({MaxShown, 0}) <= y
      BY <2>1, Zenon DEF Min
    <2> QED
      BY <2>2, StatusAssumption
  <1>4. 1 .. 0 = {}
    OBVIOUS
  <1>5. Min({MaxShown, Cardinality(Visible(DefaultDoc))}) = 0
    BY <1>2, <1>3, Zenon
  <1>6. RecentResults(DefaultDoc) =
          [i \in {} |-> CHOOSE r \in Visible(DefaultDoc) : Rank(DefaultDoc, r) = i - 1]
    BY <1>4, <1>5, Zenon DEF RecentResults
  <1> QED
    BY <1>6

\* NewestAreShown: with a clock that is not set back, and whatever the processes
\* overwrite of each other, are killed in or lose, the overview leaves a result
\* out only for as many that were checked no earlier, or is empty because the
\* configuration is refused or a pruned file cannot be written back.
THEOREM NewestFirst ==
    ASSUME StepBacks = FALSE
    PROVE  SafeSpec => []NewestAreShown
  <1>1. ASSUME QddnsInv, PushesAreChecks
        PROVE  NewestAreShown
    <2> SUFFICES ASSUME NEW written \in WriteBacks, StatusRead(written)
                 PROVE  \A r \in Rule \ Range(RecentResults(Pruned(Loaded))) :
                          config[r] # "absent" /\ Reached(RuleStatus(Pruned(Loaded), r).last_check) >= 0 =>
                            /\ Len(RecentResults(Pruned(Loaded))) = MaxShown
                            /\ \A i \in DOMAIN RecentResults(Pruned(Loaded)) :
                                 Reached(RuleStatus(Pruned(Loaded), RecentResults(Pruned(Loaded))[i]).last_check)
                                   >= Reached(RuleStatus(Pruned(Loaded), r).last_check)
      <3>1. ASSUME NEW written \in WriteBacks, ~StatusRead(written)
            PROVE  /\ RecentResults(OverviewState(written)) = <<>>
                   /\ ~valid \/ Pruned(Loaded) # Loaded
        <4>1. OverviewState(written) = DefaultDoc
          BY <3>1 DEF OverviewState
        <4>2. RecentResults(DefaultDoc) = <<>>
          BY NothingToShow
        <4> QED
          BY <3>1, <4>1, <4>2 DEF StatusRead
      <3>2. ASSUME NEW written \in WriteBacks, StatusRead(written)
            PROVE  OverviewState(written) = Pruned(Loaded)
        BY <3>2 DEF OverviewState
      <3> QED
        BY <3>1, <3>2 DEF NewestAreShown
    <2> DEFINE doc == Pruned(Loaded)
               shown == RecentResults(doc)
               When(r) == Reached(RuleStatus(doc, r).last_check)
    <2>1. Loaded \in Doc /\ \A r \in Rule : Loaded.rules[r] = EntryIn(file, r)
      BY <1>1, LoadedEntries
    <2>2. ChecksLast(doc)
      <3>1. doc \in Doc
        BY <1>1, <2>1, LoadGood, PrunedGood DEF GoodDoc, QddnsInv
      <3>2. ASSUME NEW r \in Rule, doc.rules[r] # None
            PROVE  doc.rules[r] \in Entries
        <4>1. doc.rules[r] = EntryIn(file, r)
          BY <2>1, <3>2, PrunedEntries
        <4> QED
          BY <3>2, <4>1 DEF Entries
      <3>3. \A e \in Entries : e.last_check # None /\ PushedBy(e, e.last_check)
        BY <1>1, EntriesGood DEF GoodEntry, RetryOf, PushesAreChecks
      <3> HIDE DEF doc
      <3> QED
        BY <3>1, <3>2, <3>3 DEF ChecksLast
    <2>3. IsFiniteSet(Visible(doc))
      BY StatusAssumption, FS_Subset DEF Visible, Enabled
    <2> HIDE DEF doc
    <2>4. ASSUME NEW r \in Visible(doc)
          PROVE  When(r) = doc.rules[r].last_check
      <3>1. config[r] = "enabled" /\ doc.rules[r] # None
        BY DEF Visible, Enabled
      <3> QED
        BY <2>2, <3>1, RecentIsCheck DEF RuleStatus, PriorOf
    <2>5. ASSUME NEW r \in Rule \ Range(shown), config[r] # "absent", When(r) >= 0
          PROVE  /\ Len(shown) = MaxShown
                 /\ \A i \in DOMAIN shown : When(shown[i]) >= When(r)
      <3>1. r \in Visible(doc)
        <4>1. config[r] \in {"absent", "disabled", "enabled"}
          BY <1>1 DEF QddnsInv, SharedOK
        <4>2. Reached(DefaultRule.last_check) = -1
          BY DEF Reached, DefaultRule
        <4>3. config[r] # "disabled" /\ doc.rules[r] # None
          <5>1. \A s : [DefaultRule EXCEPT !.status = s].last_check = DefaultRule.last_check
            BY DEF DefaultRule
          <5>2. ~(-1 >= 0)
            OBVIOUS
          <5> QED
            BY <2>5, <4>2, <5>1, <5>2 DEF RuleStatus, PriorOf
        <4> QED
          BY <2>5, <4>1, <4>3 DEF Visible, Enabled
      <3>2. /\ DOMAIN shown = 1 .. MaxShown
            /\ \A i \in DOMAIN shown :
                 /\ shown[i] \in Visible(doc)
                 /\ doc.rules[shown[i]].last_check >= doc.rules[r].last_check
        BY <2>2, <2>3, <2>5, <3>1, LeftOut
      <3>3. Len(shown) = MaxShown
        <4>1. shown \in [1 .. MaxShown -> Visible(doc)]
          BY <3>2 DEF RecentResults
        <4> HIDE DEF shown
        <4> QED
          BY <4>1, StatusAssumption
      <3> QED
        BY <2>4, <3>1, <3>2, <3>3
    <2> QED
      BY <2>5 DEF doc
  <1>2. QddnsInv /\ NothingAhead /\ PushesAreChecks /\ [Next]_vars
          => QddnsInv' /\ NothingAhead' /\ PushesAreChecks'
    BY StepInv, AheadStep, PushesStep
  <1> QED
    BY <1>1, <1>2, InitInv, AheadInit, PushesInit, PTL DEF SafeSpec

=============================================================================
