------------------------------ MODULE QddnsProofs ------------------------------
(***************************************************************************)
(* Proofs about Qddns: type correctness, what every stored entry says of    *)
(* the retries and of the last push, and the bound on the records of a      *)
(* rule.  They are proved of SafeSpec, which has no fairness.               *)
(***************************************************************************)
EXTENDS Qddns, FiniteSetTheorems, TLAPS

SafeSpec == Init /\ [][Next]_vars

-----------------------------------------------------------------------------
(* The entries *)

\* What RetryLaw says of one entry.
RetryOf(e) ==
    /\ e.status \in {"success", "error"}
    /\ e.status = "error" <=> e.retry_attempts > 0
    /\ e.status = "error" <=> e.last_result = "error"
    /\ e.last_check # None
    /\ e.next_run = Later(e.last_check, IF e.retry_attempts \in 1 .. RetryCount
                                        THEN RetryBackoff ELSE CheckInterval)

\* What SuccessIsRecentlyPushed says of one entry.
PushOf(e) ==
    e.status = "success" /\ e.last_update # None =>
        e.last_check - e.last_update < ForceInterval

GoodEntry(e) == e \in RuleState /\ RetryOf(e) /\ PushOf(e)

\* A moment within the horizon plus a delay is within the horizon.
LEMMA LaterType ==
    ASSUME NEW now \in Time, NEW delay \in Nat
    PROVE  Later(now, delay) \in Time
  BY RuleAssumption DEF Later, Time

\* Counting one more failure gives a count between 1 and its saturation.
LEMMA AttemptsType ==
    ASSUME NEW prior \in RuleState
    PROVE  Attempts(prior) \in 1 .. MaxAttempts
  <1>1. prior.retry_attempts \in 0 .. MaxAttempts
    BY DEF RuleState
  <1> QED
    BY <1>1, RuleAssumption DEF Attempts

\* A failed run stores an entry that obeys the retry law, whatever came before.
LEMMA FailedGood ==
    ASSUME NEW prior \in RuleState, NEW now \in Time
    PROVE  GoodEntry(Failed(prior, now))
  <1> DEFINE n == Attempts(prior)
             e == Failed(prior, now)
  <1>1. n \in 1 .. MaxAttempts
    BY AttemptsType
  <1>2. RetryDelay(n) \in Nat
    BY RuleAssumption DEF RetryDelay
  <1>3. Later(now, RetryDelay(n)) \in Time
    BY <1>2, LaterType
  <1>4. prior.last_update \in Time \cup {None}
    BY DEF RuleState
  <1>5. e \in RuleState
    BY <1>1, <1>3, <1>4, RuleAssumption DEF Failed, RuleState
  <1>6. e.status = "error" /\ e.last_result = "error" /\ e.last_check = now
        /\ e.retry_attempts = n /\ e.next_run = Later(now, RetryDelay(n))
    BY DEF Failed
  <1>7. now # None
    BY RuleAssumption DEF Time
  <1>8. RetryDelay(n) = IF n \in 1 .. RetryCount THEN RetryBackoff ELSE CheckInterval
    BY <1>1, RuleAssumption DEF RetryDelay
  <1>9. RetryOf(e)
    BY <1>1, <1>6, <1>7, <1>8, RuleAssumption DEF RetryOf
  <1>10. PushOf(e)
    BY <1>6 DEF PushOf
  <1> QED
    BY <1>5, <1>9, <1>10 DEF GoodEntry

\* A run that sends nothing stores a success whose push is recent: otherwise
\* the update would have been forced.
LEMMA UnchangedGood ==
    ASSUME NEW prior \in RuleState, NEW ip \in Addr, NEW now \in Time,
           ~ShouldForceUpdate(prior, now)
    PROVE  GoodEntry(Unchanged(prior, ip, now))
  <1> DEFINE e == Unchanged(prior, ip, now)
  <1>1. Later(now, CheckInterval) \in Time
    BY LaterType, RuleAssumption
  <1>2. prior.last_update \in Time /\ prior.last_update # None
        /\ now - prior.last_update < ForceInterval
    <2>1. prior.last_update \in Time \cup {None}
      BY DEF RuleState
    <2> QED
      BY <2>1, RuleAssumption DEF ShouldForceUpdate, Time
  <1>3. e \in RuleState
    BY <1>1, <1>2, RuleAssumption DEF Unchanged, RuleState
  <1>4. e.status = "success" /\ e.last_result = "unchanged" /\ e.last_check = now
        /\ e.retry_attempts = 0 /\ e.next_run = Later(now, CheckInterval)
        /\ e.last_update = prior.last_update
    BY DEF Unchanged
  <1>5. now # None
    BY RuleAssumption DEF Time
  <1>6. RetryOf(e)
    BY <1>4, <1>5, RuleAssumption DEF RetryOf
  <1>7. PushOf(e)
    BY <1>2, <1>4 DEF PushOf
  <1> QED
    BY <1>3, <1>6, <1>7 DEF GoodEntry

\* A run whose update was accepted stores a success pushed at that moment.
LEMMA SyncedGood ==
    ASSUME NEW ip \in Addr, NEW seen, NEW now \in Time
    PROVE  GoodEntry(Synced(ip, seen, now))
  <1> DEFINE e == Synced(ip, seen, now)
  <1>1. Later(now, CheckInterval) \in Time
    BY LaterType, RuleAssumption
  <1>2. e \in RuleState
    BY <1>1, RuleAssumption DEF Synced, RuleState
  <1>3. e.status = "success" /\ e.last_result \in {"updated", "unchanged"}
        /\ e.last_check = now /\ e.last_update = now
        /\ e.retry_attempts = 0 /\ e.next_run = Later(now, CheckInterval)
    BY DEF Synced
  <1>4. now # None /\ now \in Int
    BY RuleAssumption DEF Time
  <1>5. RetryOf(e)
    BY <1>3, <1>4, RuleAssumption DEF RetryOf
  <1>6. PushOf(e)
    BY <1>3, <1>4, RuleAssumption DEF PushOf
  <1> QED
    BY <1>2, <1>5, <1>6 DEF GoodEntry

\* A rule without an entry is run from the default state.
LEMMA PriorType ==
    ASSUME NEW rules \in RuleMap, NEW r \in Rule
    PROVE  PriorOf(rules, r) \in RuleState
  <1>1. DefaultRule \in RuleState
    BY RuleAssumption DEF DefaultRule, RuleState
  <1> QED
    BY <1>1 DEF PriorOf, RuleMap

-----------------------------------------------------------------------------
(* The inductive invariant *)

\* Every entry of a document is good.
GoodDoc(d) == d \in Doc /\ \A r \in Rule : d.rules[r] # None => GoodEntry(d.rules[r])

\* A run in progress knows its rule and its address.
JobOK ==
    \A p \in Proc :
        pc[p] \in {"fetch", "update"} => job[p].rule \in Rule /\ job[p].ip \in Addr

\* The processes: types, entries in memory, runs in progress.
ProcOK ==
    /\ pc \in [Proc -> PC]
    /\ op \in [Proc -> CliOps \cup {"none", "daemon"}]
    /\ mem \in [Proc -> Doc]
    /\ todo \in [Proc -> SUBSET Rule]
    /\ job \in [Proc -> Job]
    /\ pollNow \in Time
    /\ wake \in Time
    /\ ran \subseteq Rule
    /\ overtaken \subseteq Rule
    /\ \A p \in Proc : GoodDoc(mem[p])
    /\ JobOK

\* The types of what the provider holds and still receives.
ProviderOK ==
    /\ records \in [Rule -> Seq(Addr)]
    /\ late \in [Request -> Nat]
    /\ strays \in [Rule -> Nat]

\* What the processes share: types, entries in the file.
SharedOK ==
    /\ clock \in Time
    /\ addr \in Addr
    /\ config \in [Rule -> {"absent", "disabled", "enabled"}]
    /\ valid \in BOOLEAN
    /\ ProviderOK
    /\ file \in Doc \cup {Missing, Corrupt}
    /\ file \notin {Missing, Corrupt} => GoodDoc(file)
    /\ marker \in BOOLEAN
    /\ wedged \in BOOLEAN
    /\ faults \in 0 .. MaxFaults
    /\ events \in 0 .. MaxEvents

\* A record that was seen is there, also for the updates still under way, and
\* each record of a rule is accounted for by a process that has created it, or
\* may still do so, or as one that came too late.
RoomOK ==
    /\ \A p \in Proc : pc[p] = "update" /\ job[p].seen # None => records[job[p].rule] # <<>>
    /\ \A u \in Request : late[u] > 0 /\ ~u.create => records[u.rule] # <<>>
    /\ \A r \in Rule :
          Len(records[r]) + Cardinality(Creating(r)) <= Cardinality(Proc) + strays[r]

\* The inductive invariant: RetryLaw and SuccessIsRecentlyPushed of every copy,
\* and the records together with those about to be created.
QddnsInv == ProcOK /\ SharedOK /\ RoomOK

\* There are finitely many processes.
LEMMA ProcFinite == IsFiniteSet(Proc) /\ Cardinality(Proc) \in Nat
  <1>1. IsFiniteSet(Cli)
    BY QddnsAssumption
  <1>2. IsFiniteSet(Cli \cup {Daemon})
    BY <1>1, FS_AddElement
  <1> QED
    BY <1>2, FS_CardinalityType DEF Proc

\* The default state has no entry at all.
LEMMA DefaultGood == GoodDoc(DefaultDoc) /\ NoJob \in Job
  <1>1. EmptyMap \in RuleMap
    BY DEF EmptyMap, RuleMap
  <1>2. \A r \in Rule : DefaultDoc.rules[r] = None
    BY DEF DefaultDoc, EmptyMap
  <1>3. DefaultDoc \in Doc
    BY <1>1 DEF DefaultDoc, Doc
  <1>4. 0 \in Time
    BY RuleAssumption DEF Time
  <1>5. NoJob \in Job
    BY <1>4 DEF NoJob, Job
  <1> QED
    BY <1>2, <1>3, <1>5 DEF GoodDoc

\* Loading and pruning the file yields a good document.
LEMMA LoadGood ==
    ASSUME SharedOK
    PROVE  GoodDoc(Loaded)
  BY DefaultGood DEF SharedOK, Loaded

\* Pruning and setting the running flag keep a document good.
LEMMA PrunedGood ==
    ASSUME NEW d, GoodDoc(d), NEW b \in BOOLEAN
    PROVE  GoodDoc(Pruned(d)) /\ GoodDoc([Pruned(d) EXCEPT !.running = b])
  <1> DEFINE m == [r \in Rule |-> IF config[r] = "absent" THEN None ELSE d.rules[r]]
  <1>1. d \in Doc /\ d.rules \in RuleMap /\ d.running \in BOOLEAN
    BY DEF GoodDoc, Doc
  <1>2. m \in RuleMap
    BY <1>1 DEF RuleMap
  <1>3. Pruned(d) = [running |-> d.running, rules |-> m]
    BY <1>1 DEF Pruned, Doc
  <1>4. [Pruned(d) EXCEPT !.running = b] = [running |-> b, rules |-> m]
    <2>1. ASSUME NEW x, NEW y, NEW z, x = [running |-> y, rules |-> z]
          PROVE  [x EXCEPT !.running = b] = [running |-> b, rules |-> z]
      BY <2>1
    <2> HIDE DEF m
    <2> QED
      BY <1>3, <2>1
  <1>5. \A r \in Rule : m[r] # None => GoodEntry(m[r])
    BY DEF GoodDoc
  <1>6. \A x \in BOOLEAN : GoodDoc([running |-> x, rules |-> m])
    <2> SUFFICES ASSUME NEW x \in BOOLEAN
                 PROVE  GoodDoc([running |-> x, rules |-> m])
      OBVIOUS
    <2> DEFINE e == [running |-> x, rules |-> m]
    <2>1. e \in Doc
      BY <1>2 DEF Doc
    <2>2. e.rules = m
      OBVIOUS
    <2> HIDE DEF m
    <2> QED
      BY <2>1, <2>2, <1>5 DEF GoodDoc
  <1> QED
    BY <1>1, <1>3, <1>4, <1>6

\* The prior state of a rule is a rule state.
LEMMA PriorOK ==
    ASSUME ProcOK, NEW p \in Proc, NEW r \in Rule
    PROVE  Prior(p, r) \in RuleState
  <1>1. mem[p].rules \in RuleMap
    BY DEF ProcOK, Doc
  <1> QED
    BY <1>1, PriorType DEF Prior

\* A process that is gone leaves the others as they are.
LEMMA ExitOK ==
    ASSUME ProcOK, NEW p \in Proc, Exit(p)
    PROVE  /\ ProcOK'
           /\ \A q \in Proc : pc'[q] = "update" => pc[q] = "update" /\ job'[q] = job[q] /\ q # p
  <1>1. DefaultDoc \in Doc /\ GoodDoc(DefaultDoc) /\ NoJob \in Job
    BY DefaultGood DEF GoodDoc
  <1>2. 0 \in Time
    BY RuleAssumption DEF Time
  <1>3. pc' \in [Proc -> PC] /\ op' \in [Proc -> CliOps \cup {"none", "daemon"}]
        /\ mem' \in [Proc -> Doc] /\ todo' \in [Proc -> SUBSET Rule] /\ job' \in [Proc -> Job]
    BY <1>1 DEF ProcOK, Exit, Goto, PC
  <1>4. pollNow' \in Time /\ wake' \in Time /\ ran' \subseteq Rule /\ overtaken' \subseteq Rule
    BY <1>2 DEF ProcOK, Exit, timing, history
  <1>5. \A q \in Proc : GoodDoc(mem'[q])
    BY <1>1 DEF ProcOK, Exit
  <1>6. \A q \in Proc : q # p => pc'[q] = pc[q] /\ job'[q] = job[q]
    BY DEF ProcOK, Exit, Goto
  <1>7. pc'[p] = "down"
    BY DEF ProcOK, Exit, Goto
  <1>8. JobOK'
    BY <1>6, <1>7 DEF ProcOK, JobOK
  <1>9. (\A q \in Proc : GoodDoc(mem[q]))'
    BY <1>5 DEF GoodDoc, GoodEntry, RetryOf, PushOf
  <1> QED
    BY <1>3, <1>4, <1>6, <1>7, <1>8, <1>9 DEF ProcOK

\* A process that starts to work has good entries in memory and no run yet.
LEMMA BeginOK ==
    ASSUME ProcOK, NEW p \in Proc, NEW what \in CliOps \cup {"none", "daemon"}, NEW doc,
           GoodDoc(doc), NEW ids \in SUBSET Rule, NEW at \in {"boot", "run"},
           Begin(p, what, doc, ids, at), pollNow' \in Time, wake' \in Time,
           ran' \subseteq Rule, overtaken' \subseteq Rule
    PROVE  /\ ProcOK'
           /\ \A q \in Proc : pc'[q] = "update" => pc[q] = "update" /\ job'[q] = job[q] /\ q # p
  <1>1. doc \in Doc
    BY DEF GoodDoc
  <1>2. pc' \in [Proc -> PC] /\ op' \in [Proc -> CliOps \cup {"none", "daemon"}]
        /\ mem' \in [Proc -> Doc] /\ todo' \in [Proc -> SUBSET Rule] /\ job' \in [Proc -> Job]
    BY <1>1 DEF ProcOK, Begin, Goto, PC
  <1>3. \A q \in Proc : GoodDoc(mem'[q])
    BY DEF ProcOK, Begin
  <1>4. \A q \in Proc : q # p => pc'[q] = pc[q] /\ job'[q] = job[q]
    BY DEF ProcOK, Begin, Goto
  <1>5. pc'[p] = at
    BY DEF ProcOK, Begin, Goto
  <1>6. JobOK'
    BY <1>4, <1>5 DEF ProcOK, JobOK
  <1>7. (\A q \in Proc : GoodDoc(mem[q]))'
    BY <1>3 DEF GoodDoc, GoodEntry, RetryOf, PushOf
  <1> QED
    BY <1>2, <1>4, <1>5, <1>6, <1>7 DEF ProcOK

\* The end of a run stores its entry.
LEMMA InsertOK ==
    ASSUME ProcOK, NEW p \in Proc, NEW r \in Rule, NEW state, GoodEntry(state),
           Insert(p, r, state), UNCHANGED <<op, timing>>, overtaken' \subseteq Rule
    PROVE  /\ ProcOK'
           /\ \A q \in Proc : pc'[q] = "update" => pc[q] = "update" /\ job'[q] = job[q] /\ q # p
           /\ \A q \in Proc : q # p => pc'[q] = pc[q] /\ job'[q] = job[q]
  <1>1. state \in RuleState
    BY DEF GoodEntry
  <1> DEFINE m == [mem[p].rules EXCEPT ![r] = state]
             d == [running |-> mem[p].running, rules |-> m]
  <1>2. mem[p] \in Doc /\ mem[p].rules \in RuleMap /\ mem[p].running \in BOOLEAN
    BY DEF ProcOK, Doc
  <1>3. m \in RuleMap
    BY <1>1, <1>2 DEF RuleMap
  <1>4. [mem[p] EXCEPT !.rules = m] = d
    BY <1>2 DEF Doc
  <1>5. mem' = [mem EXCEPT ![p] = [mem[p] EXCEPT !.rules = m]]
    BY DEF Insert
  <1>6. d \in Doc
    BY <1>2, <1>3 DEF Doc
  <1>7. GoodDoc(d)
    <2> SUFFICES ASSUME NEW x \in Rule, d.rules[x] # None
                 PROVE  GoodEntry(d.rules[x])
      BY <1>6 DEF GoodDoc
    <2>1. d.rules[x] = IF x = r THEN state ELSE mem[p].rules[x]
      BY <1>2 DEF RuleMap
    <2>2. GoodDoc(mem[p])
      BY DEF ProcOK
    <2> QED
      BY <2>1, <2>2 DEF GoodDoc
  <1>8. mem' \in [Proc -> Doc] /\ mem'[p] = d /\ \A q \in Proc : q # p => mem'[q] = mem[q]
    <2> HIDE DEF d, m
    <2> QED
      BY <1>4, <1>5, <1>6 DEF ProcOK
  <1>9. \A q \in Proc : GoodDoc(mem'[q])
    <2> HIDE DEF d, m
    <2> QED
      BY <1>7, <1>8 DEF ProcOK
  <1>10. NoJob \in Job
    BY DefaultGood
  <1>11. pc' \in [Proc -> PC] /\ op' \in [Proc -> CliOps \cup {"none", "daemon"}]
         /\ todo' \in [Proc -> SUBSET Rule] /\ job' \in [Proc -> Job]
    BY <1>10 DEF ProcOK, Insert, Goto, PC
  <1>12. pollNow' \in Time /\ wake' \in Time /\ ran' \subseteq Rule /\ overtaken' \subseteq Rule
    BY DEF ProcOK, Insert, timing
  <1>13. \A q \in Proc : q # p => pc'[q] = pc[q] /\ job'[q] = job[q]
    BY DEF ProcOK, Insert, Goto
  <1>14. pc'[p] = "run"
    BY DEF ProcOK, Insert, Goto
  <1>15. JobOK'
    BY <1>13, <1>14 DEF ProcOK, JobOK
  <1>16. (\A q \in Proc : GoodDoc(mem[q]))'
    BY <1>9 DEF GoodDoc, GoodEntry, RetryOf, PushOf
  <1> QED
    BY <1>8, <1>11, <1>12, <1>13, <1>14, <1>15, <1>16 DEF ProcOK

\* The file holds what it held, the memory of a process, or nothing readable.
LEMMA SharedStep ==
    ASSUME ProcOK, SharedOK,
           file' \in {file, Missing, Corrupt} \cup {mem[q] : q \in Proc},
           clock' \in Time, addr' \in Addr,
           config' \in [Rule -> {"absent", "disabled", "enabled"}], valid' \in BOOLEAN,
           ProviderOK', marker' \in BOOLEAN, wedged' \in BOOLEAN,
           faults' \in 0 .. MaxFaults, events' \in 0 .. MaxEvents
    PROVE  SharedOK'
  <1>1. file' \in Doc \cup {Missing, Corrupt}
    BY DEF ProcOK, SharedOK
  <1>2. file' \notin {Missing, Corrupt} => GoodDoc(file')
    BY DEF ProcOK, SharedOK
  <1>3. (file \notin {Missing, Corrupt} => GoodDoc(file))'
    BY <1>2 DEF GoodDoc, GoodEntry, RetryOf, PushOf
  <1> QED
    BY <1>1, <1>3 DEF SharedOK, ProviderOK

\* The processes that may create a record are finitely many.
LEMMA CreatingFinite ==
    ASSUME NEW r \in Rule
    PROVE  IsFiniteSet(Creating(r)) /\ Cardinality(Creating(r)) \in Nat
           /\ Cardinality(Creating(r)) <= Cardinality(Proc)
  <1>1. Creating(r) \subseteq Proc
    BY DEF Creating
  <1> QED
    BY <1>1, ProcFinite, FS_Subset, FS_CardinalityType

\* What applying a request does to the records of its rule.
LEMMA AppliedType ==
    ASSUME ProviderOK, NEW u \in Request, u.create \/ records[u.rule] # <<>>
    PROVE  /\ Applied(u) \in [Rule -> Seq(Addr)]
           /\ \A r \in Rule : r # u.rule => Applied(u)[r] = records[r]
           /\ \A r \in Rule : records[r] # <<>> => Applied(u)[r] # <<>>
           /\ Applied(u)[u.rule] # <<>>
           /\ Len(Applied(u)[u.rule]) = Len(records[u.rule]) + (IF u.create THEN 1 ELSE 0)
  <1> DEFINE r == u.rule
             s == records[r]
  <1>1. r \in Rule /\ u.ip \in Addr
    BY DEF Request
  <1>2. s \in Seq(Addr) /\ records \in [Rule -> Seq(Addr)]
    BY <1>1 DEF ProviderOK
  <1>3. CASE u.create
    <2> DEFINE t == Append(s, u.ip)
    <2>1. Applied(u) = [records EXCEPT ![r] = t]
      BY <1>3 DEF Applied
    <2>2. t \in Seq(Addr) /\ Len(t) = Len(s) + 1
      BY <1>1, <1>2
    <2>3. t # <<>>
      <3>1. Len(s) \in Nat
        BY <1>2
      <3> HIDE DEF t
      <3> QED
        BY <2>2, <3>1
    <2> HIDE DEF t
    <2> QED
      BY <1>1, <1>2, <1>3, <2>1, <2>2, <2>3
  <1>4. CASE ~u.create
    <2> DEFINE t == <<u.ip>> \o Tail(s)
    <2>1. Applied(u) = [records EXCEPT ![r] = t]
      BY <1>4 DEF Applied
    <2>2. s # <<>>
      BY <1>4
    <2>3. Tail(s) \in Seq(Addr) /\ Len(Tail(s)) = Len(s) - 1
      BY <1>2, <2>2
    <2>4. t \in Seq(Addr) /\ Len(t) = Len(s)
      BY <1>1, <1>2, <2>2, <2>3
    <2>5. t # <<>>
      BY <1>2, <2>2, <2>4
    <2>6. Len(s) + 0 = Len(s)
      BY <1>2
    <2> HIDE DEF t
    <2> QED
      BY <1>1, <1>2, <1>4, <2>1, <2>4, <2>5, <2>6
  <1> QED
    BY <1>3, <1>4

\* The request of a process is one, and finds the record it is about.
LEMMA SentType ==
    ASSUME ProcOK, SharedOK, RoomOK, NEW p \in Proc, pc[p] = "update"
    PROVE  /\ Sent(p) \in Request
           /\ Sent(p).rule = job[p].rule
           /\ Sent(p).create = (job[p].seen = None)
           /\ Sent(p).create \/ records[Sent(p).rule] # <<>>
  <1>1. job[p].rule \in Rule /\ job[p].ip \in Addr
    BY DEF ProcOK, JobOK
  <1> QED
    BY <1>1 DEF Sent, Request, RoomOK

\* What an update does to the records of its rule.
LEMMA PushedType ==
    ASSUME ProcOK, SharedOK, RoomOK, NEW p \in Proc, pc[p] = "update"
    PROVE  /\ Pushed(p) \in [Rule -> Seq(Addr)]
           /\ \A r \in Rule : r # job[p].rule => Pushed(p)[r] = records[r]
           /\ \A r \in Rule : records[r] # <<>> => Pushed(p)[r] # <<>>
           /\ Pushed(p)[job[p].rule] # <<>>
           /\ Len(Pushed(p)[job[p].rule]) =
                Len(records[job[p].rule]) + (IF job[p].seen = None THEN 1 ELSE 0)
  <1>1. ProviderOK
    BY DEF SharedOK
  <1>2. /\ Sent(p) \in Request /\ Sent(p).rule = job[p].rule
        /\ Sent(p).create = (job[p].seen = None)
        /\ Sent(p).create \/ records[Sent(p).rule] # <<>>
    BY SentType
  <1>3. Len(Applied(Sent(p))[Sent(p).rule]) =
          Len(records[Sent(p).rule]) + (IF Sent(p).create THEN 1 ELSE 0)
    BY <1>1, <1>2, AppliedType
  <1>4. /\ Applied(Sent(p)) \in [Rule -> Seq(Addr)]
        /\ \A r \in Rule : r # Sent(p).rule => Applied(Sent(p))[r] = records[r]
        /\ \A r \in Rule : records[r] # <<>> => Applied(Sent(p))[r] # <<>>
        /\ Applied(Sent(p))[Sent(p).rule] # <<>>
    BY <1>1, <1>2, AppliedType
  <1> QED
    BY <1>2, <1>3, <1>4 DEF Pushed

\* What a step of process p may do to the provider: its update is applied, or
\* will be, or nothing happens.
ProviderStep(p) ==
    /\ strays' = strays
    /\ \/ records' = records /\ late' = late
       \/ pc[p] = "update" /\ records' = Pushed(p) /\ late' = late
       \/ /\ pc[p] = "update" /\ records' = records
          /\ late' = [late EXCEPT ![Sent(p)] = @ + 1]

\* A step after which no further process is about to create a record, and which
\* changes the provider only by the update of a process that leaves it.
LEMMA RoomStep ==
    ASSUME ProcOK, SharedOK, RoomOK, NEW p \in Proc, ProviderStep(p),
           \A q \in Proc : pc'[q] = "update" =>
                              pc[q] = "update" /\ job'[q] = job[q] /\ q # p
    PROVE  ProviderOK' /\ RoomOK'
  <1>1. ASSUME NEW r \in Rule
        PROVE  Creating(r)' \subseteq Creating(r) \ {p}
    BY DEF Creating
  <1>2. ASSUME NEW r \in Rule
        PROVE  /\ Cardinality(Creating(r)') \in Nat
               /\ Cardinality(Creating(r)') <= Cardinality(Creating(r))
               /\ p \in Creating(r) => Cardinality(Creating(r)') <= Cardinality(Creating(r)) - 1
    <2>1. IsFiniteSet(Creating(r)) /\ Cardinality(Creating(r)) \in Nat
      BY CreatingFinite
    <2>2. IsFiniteSet(Creating(r) \ {p})
          /\ Cardinality(Creating(r) \ {p}) =
                IF p \in Creating(r) THEN Cardinality(Creating(r)) - 1 ELSE Cardinality(Creating(r))
      BY <2>1, FS_RemoveElement
    <2>3. IsFiniteSet(Creating(r)') /\ Cardinality(Creating(r)') \in Nat
          /\ Cardinality(Creating(r)') <= Cardinality(Creating(r) \ {p})
      BY <1>1, <2>2, FS_Subset, FS_CardinalityType
    <2> QED
      BY <2>1, <2>2, <2>3
  <1>3. ProviderOK'
    <2>1. ProviderOK
      BY DEF SharedOK
    <2>2. records' \in [Rule -> Seq(Addr)]
      BY <2>1, PushedType DEF ProviderStep, ProviderOK
    <2>3. late' \in [Request -> Nat]
      BY <2>1, SentType DEF ProviderStep, ProviderOK
    <2> QED
      BY <2>1, <2>2, <2>3 DEF ProviderStep, ProviderOK
  <1>4. \A r \in Rule : records[r] # <<>> => records'[r] # <<>>
    BY PushedType DEF ProviderStep
  <1>5. ASSUME NEW q \in Proc, pc'[q] = "update", job'[q].seen # None
        PROVE  records'[job'[q].rule] # <<>>
    <2>1. pc[q] = "update" /\ job'[q] = job[q] /\ job[q].rule \in Rule
      BY <1>5 DEF ProcOK, JobOK
    <2> QED
      BY <1>4, <1>5, <2>1 DEF RoomOK
  <1>6. ASSUME NEW u \in Request, late'[u] > 0, ~u.create
        PROVE  records'[u.rule] # <<>>
    <2>1. u.rule \in Rule
      BY DEF Request
    <2>2. CASE late[u] > 0
      BY <1>4, <1>6, <2>1, <2>2 DEF RoomOK
    <2>3. CASE ~(late[u] > 0)
      <3>1. late'[u] # late[u]
        BY <1>6, <2>3
      <3>2. pc[p] = "update" /\ records' = records /\ u = Sent(p)
        <4>1. late \in [Request -> Nat]
          BY DEF SharedOK, ProviderOK
        <4> QED
          BY <3>1, <4>1 DEF ProviderStep
      <3> QED
        BY <1>6, <3>2, SentType
    <2> QED
      BY <2>2, <2>3
  <1>7. ASSUME NEW r \in Rule
        PROVE  Len(records'[r]) + Cardinality(Creating(r)') <= Cardinality(Proc) + strays'[r]
    <2>1. Len(records[r]) \in Nat /\ Len(records'[r]) \in Nat /\ strays[r] \in Nat
      BY <1>3 DEF SharedOK, ProviderOK
    <2>2. Len(records[r]) + Cardinality(Creating(r)) <= Cardinality(Proc) + strays[r]
      BY DEF RoomOK
    <2>3. strays'[r] = strays[r]
      BY DEF ProviderStep
    <2>4. CASE records' = Pushed(p) /\ pc[p] = "update" /\ r = job[p].rule /\ job[p].seen = None
      <3>1. p \in Creating(r)
        BY <2>4 DEF Creating
      <3>2. Len(records'[r]) = Len(records[r]) + 1
        BY <2>4, PushedType
      <3> QED
        BY <1>2, <2>1, <2>2, <2>3, <3>1, <3>2, ProcFinite, CreatingFinite
    <2>5. CASE ~(records' = Pushed(p) /\ pc[p] = "update" /\ r = job[p].rule
                   /\ job[p].seen = None)
      <3>1. Len(records'[r]) = Len(records[r])
        <4>1. CASE records' = records
          BY <4>1
        <4>2. CASE records' = Pushed(p) /\ pc[p] = "update" /\ r # job[p].rule
          BY <4>2, PushedType
        <4>3. CASE records' = Pushed(p) /\ pc[p] = "update" /\ r = job[p].rule
          <5>1. Len(Pushed(p)[r]) = Len(records[r]) + 0
            BY <2>5, <4>3, PushedType
          <5> QED
            BY <2>1, <4>3, <5>1
        <4> QED
          BY <4>1, <4>2, <4>3 DEF ProviderStep
      <3> QED
        BY <1>2, <2>1, <2>2, <2>3, <3>1, ProcFinite, CreatingFinite
    <2> QED
      BY <2>4, <2>5
  <1>8. RoomOK'
    BY <1>5, <1>6, <1>7 DEF RoomOK
  <1> QED
    BY <1>3, <1>8

-----------------------------------------------------------------------------
(* The invariant holds initially and is preserved by every step *)

\* At the beginning nobody works and nothing has been written.
LEMMA InitInv == Init => QddnsInv
  <1> SUFFICES ASSUME Init PROVE QddnsInv
    OBVIOUS
  <1>1. DefaultDoc \in Doc /\ GoodDoc(DefaultDoc) /\ NoJob \in Job
    BY DefaultGood DEF GoodDoc
  <1>2. 0 \in Time /\ MaxFaults \in Nat /\ MaxEvents \in Nat
    BY RuleAssumption, QddnsAssumption DEF Time
  <1>3. \A p \in Proc : pc[p] = "down"
    BY DEF Init
  <1>4. JobOK
    BY <1>3 DEF JobOK
  <1>5. ProcOK
    BY <1>1, <1>2, <1>4 DEF Init, ProcOK, PC
  <1>6. SharedOK
    <2>1. <<>> \in Seq(Addr)
      OBVIOUS
    <2>2. ProviderOK
      BY <2>1 DEF Init, ProviderOK
    <2>3. clock = 0 /\ file = Missing /\ faults = 0 /\ events = 0
      BY DEF Init
    <2>4. addr \in Addr /\ valid \in BOOLEAN /\ marker \in BOOLEAN /\ wedged \in BOOLEAN
          /\ config \in [Rule -> {"absent", "disabled", "enabled"}]
      BY DEF Init
    <2> QED
      BY <1>2, <2>2, <2>3, <2>4 DEF SharedOK
  <1>7. RoomOK
    <2>1. ASSUME NEW r \in Rule
          PROVE  Len(records[r]) + Cardinality(Creating(r)) <= Cardinality(Proc) + strays[r]
      <3>1. Creating(r) = {}
        BY <1>3 DEF Creating
      <3>2. Len(records[r]) = 0 /\ strays[r] = 0
        BY DEF Init
      <3> QED
        BY <3>1, <3>2, ProcFinite, FS_EmptySet
    <2>2. \A u \in Request : ~(late[u] > 0)
      BY DEF Init
    <2> QED
      BY <1>3, <2>1, <2>2 DEF RoomOK
  <1> QED
    BY <1>5, <1>6, <1>7 DEF QddnsInv

\* The two bounds grow by one at most.
LEMMA BoundTypes ==
    ASSUME SharedOK
    PROVE  /\ Fault => faults' \in 0 .. MaxFaults
           /\ Event => events' \in 0 .. MaxEvents
  BY QddnsAssumption DEF SharedOK, Fault, Event

\* A run that stores an entry.
LEMMA RunEnds ==
    ASSUME QddnsInv, NEW p \in Proc, NEW r \in Rule, NEW state, GoodEntry(state),
           Insert(p, r, state), UNCHANGED <<clock, world, disk, op, timing>>,
           faults' \in 0 .. MaxFaults, overtaken' \subseteq Rule, ProviderStep(p)
    PROVE  QddnsInv'
  <1> USE DEF QddnsInv
  <1>1. ProcOK' /\ \A q \in Proc : pc'[q] = "update"
                                      => pc[q] = "update" /\ job'[q] = job[q] /\ q # p
    BY InsertOK
  <1>2. ProviderOK' /\ RoomOK'
    BY <1>1, RoomStep
  <1>3. SharedOK'
    BY <1>2, SharedStep DEF SharedOK, world, setting, disk
  <1> QED
    BY <1>1, <1>2, <1>3

\* The steps of one run of a rule.
LEMMA RunStep ==
    ASSUME QddnsInv, NEW p \in Proc,
           \/ \E r \in Rule : Skip(p, r) \/ Resolve(p, r) \/ ResolveFails(p, r)
           \/ FetchMatches(p) \/ FetchDiffers(p) \/ FetchFails(p) \/ Update(p) \/ UpdateFails(p)
    PROVE  QddnsInv'
  <1> USE DEF QddnsInv
  <1> DEFINE j == job[p].rule
  <1>1. ASSUME NEW r \in Rule, Skip(p, r) PROVE QddnsInv'
    <2>1. /\ pc' = pc /\ op' = op /\ mem' = mem /\ job' = job /\ timing' = timing /\ history' = history
          /\ todo' \in [Proc -> SUBSET Rule] /\ provider' = provider
      BY <1>1 DEF Skip, ProcOK
    <2>2. ProcOK'
      BY <2>1 DEF ProcOK, JobOK, timing, history, GoodDoc, GoodEntry, RetryOf, PushOf
    <2>3. pc[p] # "update"
      BY <1>1 DEF Skip, Turn
    <2>4. ProviderOK' /\ RoomOK'
      BY <2>1, RoomStep, <2>3 DEF ProviderStep, provider
    <2>5. SharedOK'
      BY <1>1, <2>4, SharedStep DEF SharedOK, Skip, world, setting, disk
    <2> QED
      BY <2>2, <2>4, <2>5
  <1>2. ASSUME NEW r \in Rule, Resolve(p, r) PROVE QddnsInv'
    <2> DEFINE new == [rule |-> r, now |-> clock, ip |-> addr, seen |-> None]
    <2>1. new \in Job
      BY DEF Job, SharedOK
    <2>2. /\ pc' \in [Proc -> PC] /\ pc'[p] = "fetch"
          /\ job' \in [Proc -> Job] /\ job'[p] = new
          /\ \A q \in Proc : q # p => pc'[q] = pc[q] /\ job'[q] = job[q]
      BY <1>2, <2>1 DEF Resolve, Goto, ProcOK, PC
    <2>3. op' = op /\ mem' = mem /\ todo' = todo /\ timing' = timing /\ history' = history
          /\ provider' = provider
      BY <1>2 DEF Resolve
    <2>4. JobOK'
      BY <2>2 DEF ProcOK, JobOK, SharedOK
    <2>5. ProcOK'
      BY <2>2, <2>3, <2>4 DEF ProcOK, timing, history, GoodDoc, GoodEntry, RetryOf, PushOf
    <2>6. ProviderOK' /\ RoomOK'
      BY <2>2, <2>3, RoomStep DEF ProviderStep, provider
    <2>7. SharedOK'
      BY <1>2, <2>6, SharedStep DEF SharedOK, Resolve, world, setting, disk
    <2> QED
      BY <2>5, <2>6, <2>7
  <1>3. ASSUME NEW r \in Rule, ResolveFails(p, r) PROVE QddnsInv'
    <2>1. GoodEntry(Failed(Prior(p, r), clock))
      BY PriorOK, FailedGood DEF SharedOK
    <2>2. overtaken' \subseteq Rule /\ ProviderStep(p) /\ faults' \in 0 .. MaxFaults
      BY <1>3, BoundTypes DEF ResolveFails, ProviderStep, provider, ProcOK
    <2> QED
      BY <1>3, <2>1, <2>2, RunEnds DEF ResolveFails
  <1>4. pc[p] \in {"fetch", "update"} => j \in Rule /\ job[p].ip \in Addr /\ job[p].now \in Time
    BY DEF ProcOK, JobOK, Job
  <1>5. faults \in 0 .. MaxFaults
    BY DEF SharedOK
  <1>6. CASE FetchMatches(p)
    <2>1. GoodEntry(Unchanged(Prior(p, j), job[p].ip, job[p].now))
      BY <1>4, <1>6, PriorOK, UnchangedGood DEF FetchMatches
    <2>2. overtaken' \subseteq Rule /\ ProviderStep(p)
      BY <1>6 DEF FetchMatches, Looked, ProviderStep, provider, ProcOK
    <2> QED
      BY <1>4, <1>5, <1>6, <2>1, <2>2, RunEnds DEF FetchMatches
  <1>7. CASE FetchFails(p)
    <2>1. GoodEntry(Failed(Prior(p, j), job[p].now))
      BY <1>4, <1>7, PriorOK, FailedGood DEF FetchFails
    <2>2. overtaken' \subseteq Rule /\ ProviderStep(p) /\ faults' \in 0 .. MaxFaults
      BY <1>7, BoundTypes DEF FetchFails, ProviderStep, provider, ProcOK
    <2> QED
      BY <1>4, <1>7, <2>1, <2>2, RunEnds DEF FetchFails
  <1>8. CASE Update(p)
    <2>1. GoodEntry(Synced(job[p].ip, job[p].seen, job[p].now))
      BY <1>4, <1>8, SyncedGood DEF Update
    <2>2. overtaken' \subseteq Rule /\ ProviderStep(p)
      BY <1>8 DEF Update, ProviderStep, ProcOK
    <2> QED
      BY <1>4, <1>5, <1>8, <2>1, <2>2, RunEnds DEF Update
  <1>9. CASE UpdateFails(p)
    <2>1. GoodEntry(Failed(Prior(p, j), job[p].now))
      BY <1>4, <1>9, PriorOK, FailedGood DEF UpdateFails
    <2>2. overtaken' \subseteq Rule /\ ProviderStep(p) /\ faults' \in 0 .. MaxFaults
      BY <1>9, BoundTypes DEF UpdateFails, GivenUp, ProviderStep, ProcOK
    <2> QED
      BY <1>4, <1>9, <2>1, <2>2, RunEnds DEF UpdateFails
  <1>10. CASE FetchDiffers(p)
    <2>1. pc[p] = "fetch" /\ j \in Rule /\ job[p].ip \in Addr
      BY <1>4, <1>10 DEF FetchDiffers
    <2>2. records[j] \in Seq(Addr)
      BY <2>1 DEF SharedOK, ProviderOK
    <2>3. /\ Lookup(j) \in Addr \cup {None}
          /\ Lookup(j) = None <=> records[j] = <<>>
      BY <2>2, RuleAssumption DEF Lookup
    <2>4. [job[p] EXCEPT !.seen = Lookup(j)] \in Job
          /\ [job[p] EXCEPT !.seen = Lookup(j)].seen = Lookup(j)
          /\ [job[p] EXCEPT !.seen = Lookup(j)].rule = j
          /\ [job[p] EXCEPT !.seen = Lookup(j)].ip = job[p].ip
      BY <2>3 DEF ProcOK, Job
    <2>5. /\ pc' \in [Proc -> PC] /\ pc'[p] = "update"
          /\ job' \in [Proc -> Job] /\ job'[p].rule = j /\ job'[p].seen = Lookup(j)
          /\ job'[p].ip = job[p].ip
          /\ \A q \in Proc : q # p => pc'[q] = pc[q] /\ job'[q] = job[q]
      BY <1>10, <2>4 DEF FetchDiffers, Goto, ProcOK, PC
    <2>6. /\ op' = op /\ mem' = mem /\ todo' = todo /\ timing' = timing /\ ran' = ran
          /\ overtaken' \subseteq Rule /\ provider' = provider
          /\ records' = records /\ late' = late /\ strays' = strays
      BY <1>10 DEF FetchDiffers, Looked, provider, ProcOK
    <2>7. JobOK'
      BY <2>1, <2>5 DEF ProcOK, JobOK
    <2>8. ProcOK'
      BY <2>5, <2>6, <2>7 DEF ProcOK, timing, history, GoodDoc, GoodEntry, RetryOf, PushOf
    <2>9. ASSUME NEW r \in Rule
          PROVE  Len(records[r]) + Cardinality(Creating(r)') <= Cardinality(Proc) + strays[r]
      <3>1. Creating(r)' \subseteq Proc
        BY DEF Creating
      <3>2. IsFiniteSet(Creating(r)') /\ Cardinality(Creating(r)') \in Nat
            /\ Cardinality(Creating(r)') <= Cardinality(Proc)
        BY <3>1, ProcFinite, FS_Subset, FS_CardinalityType
      <3>5. strays[r] \in Nat
        BY DEF SharedOK, ProviderOK
      <3>3. CASE r = j /\ Lookup(j) = None
        <4>1. Len(records[r]) = 0
          BY <2>3, <3>3
        <4> QED
          BY <3>2, <3>5, <4>1, ProcFinite
      <3>4. CASE ~(r = j /\ Lookup(j) = None)
        <4>1. Creating(r)' \subseteq Creating(r)
          BY <2>5, <3>4 DEF Creating
        <4>2. Cardinality(Creating(r)') <= Cardinality(Creating(r))
          BY <4>1, CreatingFinite, FS_Subset
        <4>3. Len(records[r]) \in Nat
          BY DEF SharedOK, ProviderOK
        <4>4. Len(records[r]) + Cardinality(Creating(r)) <= Cardinality(Proc) + strays[r]
          BY DEF RoomOK
        <4> QED
          BY <3>2, <3>5, <4>2, <4>3, <4>4, CreatingFinite, ProcFinite
      <3> QED
        BY <3>3, <3>4
    <2>10. ASSUME NEW q \in Proc, pc'[q] = "update", job'[q].seen # None
           PROVE  records[job'[q].rule] # <<>>
      <3>1. CASE q = p
        BY <2>3, <2>5, <2>10, <3>1
      <3>2. CASE q # p
        BY <2>5, <2>10, <3>2 DEF RoomOK
      <3> QED
        BY <3>1, <3>2
    <2>11. RoomOK'
      BY <2>6, <2>9, <2>10 DEF RoomOK
    <2>12. SharedOK'
      BY <1>10, <2>6, SharedStep DEF SharedOK, ProviderOK, FetchDiffers, world, setting, disk
    <2> QED
      BY <2>8, <2>11, <2>12
  <1> QED
    BY <1>1, <1>2, <1>3, <1>6, <1>7, <1>8, <1>9, <1>10

\* A process is gone; an update it was sending has or has not been applied.
LEMMA ProcessEnds ==
    ASSUME QddnsInv, NEW p \in Proc, Exit(p),
           ProviderStep(p), file' \in {file, mem[p]}, clock' = clock, addr' = addr, valid' = valid,
           config' \in [Rule -> {"absent", "disabled", "enabled"}],
           marker' \in BOOLEAN, wedged' \in BOOLEAN,
           faults' \in 0 .. MaxFaults, events' \in 0 .. MaxEvents
    PROVE  QddnsInv'
  <1> USE DEF QddnsInv
  <1>1. ProcOK' /\ \A q \in Proc : pc'[q] = "update"
                                      => pc[q] = "update" /\ job'[q] = job[q] /\ q # p
    BY ExitOK
  <1>2. ProviderOK' /\ RoomOK'
    BY <1>1, RoomStep
  <1>3. clock' \in Time /\ addr' \in Addr /\ valid' \in BOOLEAN
    BY DEF SharedOK
  <1>4. file' \in {file, Missing, Corrupt} \cup {mem[q] : q \in Proc}
    OBVIOUS
  <1>5. SharedOK'
    BY <1>2, <1>3, <1>4, SharedStep
  <1> QED
    BY <1>1, <1>2, <1>5

\* A process starts to work on what it has loaded.
LEMMA ProcessBegins ==
    ASSUME QddnsInv, NEW p \in Proc, NEW what \in CliOps \cup {"none", "daemon"}, NEW doc,
           GoodDoc(doc), NEW ids \in SUBSET Rule, NEW at \in {"boot", "run"},
           Begin(p, what, doc, ids, at), pollNow' \in Time, wake' \in Time, UNCHANGED history,
           UNCHANGED <<clock, setting, provider, disk, faults>>, events' \in 0 .. MaxEvents
    PROVE  QddnsInv'
  <1> USE DEF QddnsInv
  <1>1. ran' \subseteq Rule /\ overtaken' \subseteq Rule
    BY DEF ProcOK, history
  <1>2. ProcOK' /\ \A q \in Proc : pc'[q] = "update"
                                      => pc[q] = "update" /\ job'[q] = job[q] /\ q # p
    BY <1>1, BeginOK
  <1>3. ProviderOK' /\ RoomOK'
    BY <1>2, RoomStep DEF ProviderStep, provider
  <1>4. SharedOK'
    BY <1>3, SharedStep DEF SharedOK, setting, disk
  <1> QED
    BY <1>2, <1>3, <1>4

\* A step that leaves the processes alone.
LEMMA WorldStep ==
    ASSUME QddnsInv, UNCHANGED <<pc, op, mem, todo, job, history, provider>>,
           pollNow' \in Time, wake' \in Time,
           file' \in {file, Missing, Corrupt}, clock' \in Time, addr' \in Addr,
           config' \in [Rule -> {"absent", "disabled", "enabled"}], valid' \in BOOLEAN,
           marker' \in BOOLEAN, wedged' \in BOOLEAN,
           faults' \in 0 .. MaxFaults, events' \in 0 .. MaxEvents
    PROVE  QddnsInv'
  <1> USE DEF QddnsInv
  <1>1. ProcOK'
    BY DEF ProcOK, JobOK, history, GoodDoc, GoodEntry, RetryOf, PushOf
  <1>2. RoomOK'
    BY DEF RoomOK, Creating, provider
  <1>3. ProviderOK'
    BY DEF SharedOK, ProviderOK, provider
  <1>4. SharedOK'
    BY <1>3, SharedStep
  <1> QED
    BY <1>1, <1>2, <1>4

\* The writes of runtime.state and daemon.status.
LEMMA WriteStep ==
    ASSUME QddnsInv, NEW p \in Proc,
           Save(p) \/ SaveFails(p) \/ Mark(p) \/ MarkFails(p) \/ Unmark(p)
    PROVE  QddnsInv'
  <1> USE DEF QddnsInv
  <1>1. /\ faults \in 0 .. MaxFaults /\ events \in 0 .. MaxEvents
        /\ config \in [Rule -> {"absent", "disabled", "enabled"}]
        /\ marker \in BOOLEAN /\ wedged \in BOOLEAN
    BY DEF SharedOK
  <1>2. CASE Save(p)
    <2>1. faults' \in 0 .. MaxFaults /\ wedged' \in BOOLEAN
      BY <1>1, <1>2, BoundTypes DEF Save
    <2>2. /\ file' = mem[p] /\ clock' = clock /\ addr' = addr /\ valid' = valid
          /\ config' = config /\ events' = events /\ marker' = marker /\ ProviderStep(p)
      BY <1>2 DEF Save, ProviderStep, provider, world, setting
    <2>3. CASE Exit(p)
      BY <1>1, <2>1, <2>2, <2>3, ProcessEnds
    <2>4. CASE Proceed(p) /\ AfterSave(p) # "down"
      <3>1. AfterSave(p) \in {"bootmark", "mark", "unmark"}
        BY <2>4 DEF AfterSave
      <3>2. /\ pc' \in [Proc -> PC] /\ pc'[p] = AfterSave(p)
            /\ \A q \in Proc : q # p => pc'[q] = pc[q]
        BY <2>4, <3>1 DEF Proceed, Goto, ProcOK, PC
      <3>3. pollNow' \in Time
        BY <2>4, RuleAssumption DEF Proceed, ProcOK, Time
      <3>4. op' = op /\ mem' = mem /\ todo' = todo /\ job' = job /\ wake' = wake /\ ran' = ran
            /\ overtaken' = overtaken
        BY <2>4 DEF Proceed, history
      <3>5. JobOK'
        BY <3>1, <3>2, <3>4 DEF ProcOK, JobOK
      <3>6. ProcOK'
        BY <3>2, <3>3, <3>4, <3>5 DEF ProcOK, GoodDoc, GoodEntry, RetryOf, PushOf
      <3>7. ProviderOK' /\ RoomOK'
        BY <2>2, <3>1, <3>2, <3>4, RoomStep
      <3>8. SharedOK'
        BY <2>1, <2>2, <3>7, SharedStep DEF SharedOK
      <3> QED
        BY <3>6, <3>7, <3>8
    <2> QED
      BY <1>2, <2>3, <2>4 DEF Save
  <1>3. CASE SaveFails(p)
    <2>1. faults' \in 0 .. MaxFaults /\ wedged' \in BOOLEAN /\ file' \in {file, mem[p]}
      BY <1>1, <1>3, BoundTypes DEF SaveFails
    <2> QED
      BY <1>1, <1>3, <2>1, ProcessEnds DEF SaveFails, ProviderStep, provider, world, setting
  <1>4. CASE MarkFails(p)
    <2>1. faults' \in 0 .. MaxFaults /\ wedged' \in BOOLEAN /\ marker' \in BOOLEAN
      BY <1>1, <1>4, BoundTypes DEF MarkFails
    <2> QED
      BY <1>1, <1>4, <2>1, ProcessEnds DEF MarkFails, ProviderStep, provider, world, setting
  <1>5. CASE Unmark(p)
    <2>1. faults' \in 0 .. MaxFaults /\ marker' \in BOOLEAN
      BY <1>1, <1>5, BoundTypes DEF Unmark
    <2> QED
      BY <1>1, <1>5, <2>1, ProcessEnds DEF Unmark, ProviderStep, provider, world, setting
  <1>6. CASE Mark(p)
    <2>1. faults' \in 0 .. MaxFaults /\ wedged' \in BOOLEAN /\ marker' \in BOOLEAN
      BY <1>1, <1>6, BoundTypes DEF Mark
    <2>2. wake' \in Time
      BY <1>6, LaterType, QddnsAssumption DEF Mark, ProcOK, SharedOK
    <2>3. /\ op' = op /\ mem' = mem /\ todo' = todo /\ job' = job /\ pollNow' = pollNow
          /\ ran' = ran /\ overtaken' = overtaken /\ ProviderStep(p) /\ file' = file
      BY <1>6 DEF Mark, history, ProviderStep, provider
    <2>4. /\ pc' \in [Proc -> PC] /\ pc'[p] \in {"poll", "asleep"}
          /\ \A q \in Proc : q # p => pc'[q] = pc[q]
      BY <1>6 DEF Mark, Goto, ProcOK, PC
    <2>5. JobOK'
      BY <2>3, <2>4 DEF ProcOK, JobOK
    <2>6. ProcOK'
      BY <2>2, <2>3, <2>4, <2>5 DEF ProcOK, GoodDoc, GoodEntry, RetryOf, PushOf
    <2>7. ProviderOK' /\ RoomOK'
      BY <2>3, <2>4, RoomStep
    <2>8. SharedOK'
      BY <1>6, <2>1, <2>3, <2>7, SharedStep DEF SharedOK, Mark, world, setting
    <2> QED
      BY <2>6, <2>7, <2>8
  <1> QED
    BY <1>2, <1>3, <1>4, <1>5, <1>6

\* The daemon and qddnsctl start, and the daemon polls.
LEMMA StartStep ==
    ASSUME QddnsInv,
           \/ Start \/ BeginPoll \/ PollRefused
           \/ \E p \in Cli : (\E r \in Rule : CliRun(p, r)) \/ CliLoad(p) \/ CliOnce(p)
    PROVE  QddnsInv'
  <1> USE DEF QddnsInv
  <1>1. GoodDoc(Loaded)
    BY LoadGood
  <1>2. GoodDoc(Pruned(Loaded)) /\ GoodDoc([Pruned(Loaded) EXCEPT !.running = TRUE])
        /\ GoodDoc([Pruned(Loaded) EXCEPT !.running = FALSE])
    BY <1>1, PrunedGood
  <1>3. Daemon \in Proc /\ Cli \subseteq Proc
    BY DEF Proc
  <1>4. /\ pollNow \in Time /\ wake \in Time /\ clock \in Time /\ 0 \in Time
        /\ events \in 0 .. MaxEvents /\ faults \in 0 .. MaxFaults
    BY RuleAssumption DEF ProcOK, SharedOK, Time
  <1>5. Enabled \in SUBSET Rule
    BY DEF Enabled
  <1>6. CASE Start
    BY <1>2, <1>3, <1>4, <1>6, ProcessBegins DEF Start, world, timing
  <1>7. CASE BeginPoll
    <2>1. GoodDoc([Pruned(mem[Daemon]) EXCEPT !.running = TRUE])
      BY <1>3, PrunedGood DEF ProcOK
    <2> QED
      BY <1>3, <1>4, <1>5, <1>7, <2>1, ProcessBegins DEF BeginPoll, world
  <1>8. CASE PollRefused
    <2>1. /\ UNCHANGED <<clock, addr, config, valid, events, file, marker, wedged, faults>>
          /\ ProviderStep(Daemon)
      BY <1>8 DEF PollRefused, ProviderStep, provider, world, setting, disk
    <2> QED
      BY <1>3, <1>8, <2>1, ProcessEnds DEF PollRefused, SharedOK
  <1>9. ASSUME NEW p \in Cli, NEW r \in Rule, CliRun(p, r) PROVE QddnsInv'
    <2>1. events' \in 0 .. MaxEvents /\ "run" \in CliOps
      BY <1>9, BoundTypes DEF CliRun
    <2> QED
      BY <1>2, <1>3, <1>4, <1>9, <2>1, ProcessBegins DEF CliRun, timing
  <1>10. ASSUME NEW p \in Cli, CliLoad(p) PROVE QddnsInv'
    <2>1. events' \in 0 .. MaxEvents /\ "load" \in CliOps
      BY <1>10, BoundTypes DEF CliLoad
    <2> QED
      BY <1>2, <1>3, <1>4, <1>10, <2>1, ProcessBegins DEF CliLoad, timing
  <1>11. ASSUME NEW p \in Cli, CliOnce(p) PROVE QddnsInv'
    <2>1. events' \in 0 .. MaxEvents /\ "once" \in CliOps
      BY <1>11, BoundTypes DEF CliOnce
    <2> QED
      BY <1>2, <1>3, <1>4, <1>5, <1>11, <2>1, ProcessBegins DEF CliOnce, timing
  <1> QED
    BY <1>6, <1>7, <1>8, <1>9, <1>10, <1>11

\* What killing a process leaves.
LEMMA KillLeaves ==
    ASSUME QddnsInv, NEW p \in Proc, Kill(p)
    PROVE  /\ Exit(p) /\ file' \in {file, mem[p]} /\ marker' \in BOOLEAN /\ wedged' \in BOOLEAN
           /\ ProviderStep(p)
  <1>1. ProviderStep(p)
    BY DEF Kill, GivenUp, ProviderStep, provider
  <1> QED
    BY <1>1 DEF QddnsInv, SharedOK, Kill

\* An update that arrives late takes no room, unless it creates the first record
\* of its rule or is counted as a stray.
LEMMA ArriveStep ==
    ASSUME QddnsInv, NEW u \in Request, Arrive(u)
    PROVE  QddnsInv'
  <1> USE DEF QddnsInv
  <1>1. /\ UNCHANGED <<pc, op, mem, todo, job, pollNow, wake, ran, faults>>
        /\ UNCHANGED <<clock, addr, config, valid, events, file, marker, wedged>>
        /\ late[u] > 0 /\ late' = [late EXCEPT ![u] = @ - 1] /\ records' = Applied(u)
        /\ overtaken' = overtaken \cup {u.rule}
    BY DEF Arrive, timing, world, setting, disk
  <1>2. u.rule \in Rule /\ ProviderOK /\ strays \in [Rule -> Nat]
    BY DEF Request, SharedOK, ProviderOK
  <1>3. u.create \/ records[u.rule] # <<>>
    BY <1>1 DEF RoomOK
  <1>4. ProviderOK'
    <2>1. records' \in [Rule -> Seq(Addr)]
      BY <1>1, <1>2, <1>3, AppliedType
    <2>2. late' \in [Request -> Nat]
      BY <1>1, <1>2 DEF ProviderOK
    <2>3. strays' \in [Rule -> Nat]
      BY <1>2 DEF Arrive
    <2> QED
      BY <2>1, <2>2, <2>3 DEF ProviderOK
  <1>5. ProcOK'
    BY <1>1, <1>2 DEF ProcOK, JobOK, GoodDoc, GoodEntry, RetryOf, PushOf
  <1>6. SharedOK'
    BY <1>1, <1>4, SharedStep DEF SharedOK
  <1>7. \A r \in Rule : records[r] # <<>> => records'[r] # <<>>
    BY <1>1, <1>2, <1>3, AppliedType
  <1>8. ASSUME NEW p \in Proc, pc[p] = "update", job[p].seen # None
        PROVE  records'[job[p].rule] # <<>>
    BY <1>7, <1>8 DEF RoomOK, ProcOK, JobOK
  <1>9. ASSUME NEW v \in Request, late'[v] > 0, ~v.create
        PROVE  records'[v.rule] # <<>>
    <2>1. late[v] > 0 /\ v.rule \in Rule
      BY <1>1, <1>2, <1>9 DEF ProviderOK, Request
    <2> QED
      BY <1>7, <1>9, <2>1 DEF RoomOK
  <1>10. ASSUME NEW r \in Rule
         PROVE  Len(records'[r]) + Cardinality(Creating(r)') <= Cardinality(Proc) + strays'[r]
    <2>1. Creating(r)' = Creating(r)
      BY <1>1 DEF Creating
    <2>2. /\ Len(records[r]) \in Nat /\ strays[r] \in Nat
          /\ Len(records[r]) + Cardinality(Creating(r)) <= Cardinality(Proc) + strays[r]
      BY <1>2 DEF RoomOK, ProviderOK
    <2>3. strays'[r] >= strays[r]
      BY <1>2, <2>2 DEF Arrive
    <2>4. strays'[r] \in Nat /\ Len(records'[r]) \in Nat
      BY <1>4 DEF ProviderOK
    <2>5. CASE r # u.rule \/ ~u.create
      <3>1. CASE r # u.rule
        <4>1. records'[r] = records[r]
          BY <1>1, <1>2, <1>3, <3>1, AppliedType
        <4> QED
          BY <2>1, <2>2, <2>3, <2>4, <4>1, CreatingFinite, ProcFinite
      <3>2. CASE r = u.rule /\ ~u.create
        <4>1. Len(records'[r]) = Len(records[r]) + 0
          BY <1>1, <1>2, <1>3, <3>2, AppliedType
        <4> QED
          BY <2>1, <2>2, <2>3, <2>4, <4>1, CreatingFinite, ProcFinite
      <3> QED
        BY <2>5, <3>1, <3>2
    <2>6. CASE r = u.rule /\ u.create
      <3>1. Len(records'[r]) = Len(records[r]) + 1
        BY <1>1, <1>2, <1>3, <2>6, AppliedType
      <3>2. CASE records[r] # <<>> \/ Creating(r) # {}
        <4>1. strays'[r] = strays[r] + 1
          BY <1>2, <2>6, <3>2 DEF Arrive
        <4> QED
          BY <2>1, <2>2, <2>4, <3>1, <4>1, CreatingFinite, ProcFinite
      <3>3. CASE records[r] = <<>> /\ Creating(r) = {}
        <4>1. Cardinality(Proc) >= 1
          <5>1. Daemon \in Proc
            BY DEF Proc
          <5>2. Cardinality(Proc) # 0
            BY <5>1, ProcFinite, FS_EmptySet
          <5> QED
            BY <5>2, ProcFinite
        <4>2. Cardinality(Creating(r)) = 0 /\ Len(records[r]) = 0
          BY <3>3, FS_EmptySet
        <4> QED
          BY <2>1, <2>4, <3>1, <4>1, <4>2, ProcFinite
      <3> QED
        BY <3>2, <3>3
    <2> QED
      BY <2>5, <2>6
  <1>11. RoomOK'
    <2>1. UNCHANGED <<pc, job>>
      BY <1>1
    <2> QED
      BY <1>8, <1>9, <1>10, <2>1 DEF RoomOK
  <1> QED
    BY <1>5, <1>6, <1>11

\* The steps of the environment.
LEMMA EnvironmentStep ==
    ASSUME QddnsInv, Environment
    PROVE  QddnsInv'
  <1> USE DEF QddnsInv
  <1>1. /\ clock \in Time /\ addr \in Addr /\ valid \in BOOLEAN
        /\ config \in [Rule -> {"absent", "disabled", "enabled"}]
        /\ marker \in BOOLEAN /\ wedged \in BOOLEAN
        /\ faults \in 0 .. MaxFaults /\ events \in 0 .. MaxEvents
        /\ pollNow \in Time /\ wake \in Time
    BY DEF SharedOK, ProcOK
  <1>2. MaxTime \in Nat
    BY RuleAssumption
  <1>3. Edited \subseteq [Rule -> {"absent", "disabled", "enabled"}]
    BY <1>1 DEF Edited
  <1>4. CASE Tick
    <2>1. clock' \in Time
      BY <1>1, <1>2, <1>4 DEF Tick, Time
    <2> QED
      BY <1>1, <1>4, <2>1, WorldStep DEF Tick, world, setting, disk, timing
  <1>5. ASSUME NEW p \in Proc, Crash(p) PROVE QddnsInv'
    <2>1. faults' \in 0 .. MaxFaults /\ Kill(p)
      BY <1>5, BoundTypes DEF Crash
    <2> QED
      BY <1>1, <1>5, <2>1, KillLeaves, ProcessEnds DEF Crash, world, setting
  <1>6. ASSUME NEW a \in Addr, ChangeAddr(a) PROVE QddnsInv'
    <2>1. events' \in 0 .. MaxEvents
      BY <1>6, BoundTypes DEF ChangeAddr
    <2> QED
      BY <1>1, <1>6, <2>1, WorldStep DEF ChangeAddr, disk, timing
  <1>7. CASE EditConfig
    <2>1. events' \in 0 .. MaxEvents
      BY <1>7, BoundTypes DEF EditConfig
    <2>2. config' \in [Rule -> {"absent", "disabled", "enabled"}] /\ valid' \in BOOLEAN
      BY <1>1, <1>3, <1>7 DEF EditConfig
    <2> QED
      BY <1>1, <1>7, <2>1, <2>2, WorldStep DEF EditConfig, disk, timing
  <1>8. CASE ApplyConfig
    <2>1. events' \in 0 .. MaxEvents /\ Kill(Daemon) /\ Daemon \in Proc
      BY <1>8, BoundTypes DEF ApplyConfig, Proc
    <2>2. config' \in [Rule -> {"absent", "disabled", "enabled"}]
      BY <1>3, <1>8 DEF ApplyConfig
    <2> QED
      BY <1>1, <1>8, <2>1, <2>2, KillLeaves, ProcessEnds DEF ApplyConfig
  <1>9. CASE Damage
    <2>1. faults' \in 0 .. MaxFaults
      BY <1>9, BoundTypes DEF Damage
    <2> QED
      BY <1>1, <1>9, <2>1, WorldStep DEF Damage, world, setting, timing
  <1>10. CASE Reboot
    <2>1. faults' \in 0 .. MaxFaults
      BY <1>10, BoundTypes DEF Reboot
    <2> QED
      BY <1>1, <1>10, <2>1, WorldStep DEF Reboot, world, setting, timing
  <1>11. CASE StepBack
    <2>1. faults' \in 0 .. MaxFaults
      BY <1>11, BoundTypes DEF StepBack
    <2>2. PICK back \in 1 .. clock : /\ clock' = clock - back
                                     /\ wake' = IF wake > back THEN wake - back ELSE 0
      BY <1>11 DEF StepBack
    <2>3. clock' \in Time /\ wake' \in Time
      BY <1>1, <1>2, <2>2 DEF Time
    <2> QED
      BY <1>1, <1>11, <2>1, <2>3, WorldStep DEF StepBack, world, setting, disk
  <1>12. ASSUME NEW u \in Request, Arrive(u) PROVE QddnsInv'
    BY <1>12, ArriveStep
  <1> QED
    BY <1>4, <1>5, <1>6, <1>7, <1>8, <1>9, <1>10, <1>11, <1>12 DEF Environment

\* No step of the daemon, of qddnsctl or of the environment breaks it.
LEMMA StepInv == QddnsInv /\ [Next]_vars => QddnsInv'
  <1> SUFFICES ASSUME QddnsInv, [Next]_vars PROVE QddnsInv'
    OBVIOUS
  <1>1. Daemon \in Proc /\ Cli \subseteq Proc
    BY DEF Proc
  <1>2. ASSUME NEW p \in Proc, Work(p) PROVE QddnsInv'
    BY <1>2, RunStep, WriteStep DEF Work
  <1>3. CASE DaemonStep
    BY <1>1, <1>2, <1>3, StartStep DEF DaemonStep
  <1>4. ASSUME NEW p \in Cli, CliStep(p) PROVE QddnsInv'
    BY <1>1, <1>2, <1>4, StartStep DEF CliStep
  <1>5. CASE Environment
    BY <1>5, EnvironmentStep
  <1>6. CASE UNCHANGED vars
    <2>1. UNCHANGED <<pc, op, mem, todo, job, history, provider, pollNow, wake, file, clock,
                      addr, config, valid, marker, wedged, faults, events>>
      BY <1>6 DEF vars, world, setting, disk, timing
    <2> QED
      BY <2>1, WorldStep DEF QddnsInv, ProcOK, SharedOK
  <1> QED
    BY <1>3, <1>4, <1>5, <1>6 DEF Next

\* Type correctness of Qddns.
THEOREM QddnsTypeCorrect == SafeSpec => []TypeOK
  <1>1. QddnsInv => TypeOK
    BY DEF QddnsInv, ProcOK, SharedOK, ProviderOK, TypeOK
  <1> QED
    BY <1>1, InitInv, StepInv, PTL DEF SafeSpec

\* Every entry, in the file and in every memory, is good.
LEMMA EntriesGood ==
    ASSUME QddnsInv, NEW e \in Entries
    PROVE  GoodEntry(e)
  BY DEF QddnsInv, ProcOK, SharedOK, Entries, EntryIn, GoodDoc

\* RetryLaw: the retry accounting of daemon.rs is consistent wherever an entry
\* is found, for any number of processes, rules, failures and restarts.
THEOREM RetryAccounting == SafeSpec => []RetryLaw
  <1>1. QddnsInv => RetryLaw
    BY EntriesGood DEF RetryLaw, GoodEntry, RetryOf
  <1> QED
    BY <1>1, InitInv, StepInv, PTL DEF SafeSpec

\* SuccessIsRecentlyPushed: force_interval is honoured by every success that
\* tells of a push.
THEOREM ForcedPush == SafeSpec => []SuccessIsRecentlyPushed
  <1>1. QddnsInv => SuccessIsRecentlyPushed
    BY EntriesGood DEF SuccessIsRecentlyPushed, GoodEntry, PushOf
  <1> QED
    BY <1>1, InitInv, StepInv, PTL DEF SafeSpec

\* RecordsBounded: a rule has at most one record per process and one per creation
\* that reached the provider after its run had ended and found the rule served.
THEOREM NoRecordFlood == SafeSpec => []RecordsBounded
  <1>1. ASSUME QddnsInv, NEW r \in Rule
        PROVE  Len(records[r]) <= Cardinality(Proc) + strays[r]
    <2>1. Len(records[r]) \in Nat /\ strays[r] \in Nat
      BY <1>1 DEF QddnsInv, SharedOK, ProviderOK
    <2>2. Len(records[r]) + Cardinality(Creating(r)) <= Cardinality(Proc) + strays[r]
      BY <1>1 DEF QddnsInv, RoomOK
    <2> QED
      BY <2>1, <2>2, CreatingFinite, ProcFinite
  <1>2. QddnsInv => RecordsBounded
    BY <1>1 DEF RecordsBounded
  <1> QED
    BY <1>2, InitInv, StepInv, PTL DEF SafeSpec
=============================================================================
