----------------------------- MODULE ProviderProofs -----------------------------
(***************************************************************************)
(* Proofs about Provider, for any clients, rules, addresses, kinds of       *)
(* provider and number of retries.  ProviderInv says where each client      *)
(* stands and that the ids it holds are those of records of its own rule.   *)
(***************************************************************************)
EXTENDS Provider, FiniteSetTheorems, TLAPS

USE DEF NoId

LEMMA NoJobType == NoJob \in [rule : Rule, addr : Addr]
  <1>1. PICK r \in Rule, a \in Addr : TRUE
    BY RecordAssumption
  <1>2. [rule |-> r, addr |-> a] \in [rule : Rule, addr : Addr]
    OBVIOUS
  <1> QED
    BY <1>2 DEF NoJob

LEMMA ViewType == NothingSeen \in View
  BY DEF NothingSeen, View

\* The attempts of a stage are between one and the retries and one more.
LEMMA AttemptsType ==
    ASSUME NEW s \in Stage
    PROVE  MaxAttempts(s) \in 1 .. RetryCount + 1
  BY ProviderAssumption DEF MaxAttempts

LEMMA RequestType ==
    ASSUME TypeOK, NEW c \in Client
    PROVE  Request(c) \in Update
  BY DEF TypeOK, Request, Update, View

\* What an update leaves of the zone.
LEMMA RewriteType ==
    ASSUME TypeOK, NEW u \in Update, Rewrite(u) \/ Create(u) \/ Upsert(u)
    PROVE  records' \subseteq Record /\ nextId' \in Nat \ {NoId}
  <1>1. u.rule \in Rule /\ u.addr \in Addr /\ u.id \in Nat
    BY DEF Update
  <1>2. records \subseteq Record /\ nextId \in Nat \ {NoId}
    BY DEF TypeOK
  <1>3. CASE Rewrite(u)
    BY <1>1, <1>2, <1>3 DEF Rewrite, Put, Record
  <1>4. CASE Create(u)
    BY <1>1, <1>2, <1>4 DEF Create, Add, Record
  <1>5. CASE Upsert(u)
    BY <1>1, <1>2, <1>5 DEF Upsert, Put, Of, Record
  <1> QED
    BY <1>3, <1>4, <1>5

\* The variables of the clients.
ClientTypes ==
    /\ stage \in [Client -> Stage \cup {"idle"}]
    /\ conn \in [Client -> Conn]
    /\ attempt \in [Client -> 0 .. RetryCount + 1]
    /\ sent \in [Client -> Nat]

LEMMA SendType ==
    ASSUME TypeOK, NEW c \in Client, NEW s \in Stage \cup {"idle"}, NEW n \in 0 .. RetryCount + 1,
           Send(c, s, n)
    PROVE  ClientTypes'
  BY DEF TypeOK, Send, ClientTypes, Conn

LEMMA EndType ==
    ASSUME TypeOK, NEW c \in Client, NEW answer \in Result, End(c, answer)
    PROVE  /\ ClientTypes'
           /\ job' \in [Client -> [rule : Rule, addr : Addr]]
           /\ view' \in [Client -> View]
           /\ result' \in [Client -> Result]
           /\ applied' \in [Client -> Nat]
  <1>1. NoJob \in [rule : Rule, addr : Addr]
    BY NoJobType DEF TypeOK
  <1>2. 0 \in 0 .. RetryCount + 1
    BY ProviderAssumption
  <1> QED
    BY <1>1, <1>2, ViewType DEF TypeOK, End, ClientTypes, Conn

LEMMA AbandonType ==
    ASSUME TypeOK, NEW c \in Client, Abandon(c)
    PROVE  late' \in [Client -> Update \cup {NoUpdate}] /\ events' \in 0 .. MaxEvents
  <1>1. Request(c) \in Update
    BY RequestType
  <1>2. MaxEvents \in Nat /\ events \in 0 .. MaxEvents /\ late \in [Client -> Update \cup {NoUpdate}]
    BY ProviderAssumption DEF TypeOK
  <1> QED
    BY <1>1, <1>2 DEF Abandon

\* Where the next request comes from.
LEMMA ProceedType ==
    ASSUME TypeOK, NEW c \in Client, Proceed(c)
    PROVE  TypeOK'
  <1>1. 1 \in 0 .. RetryCount + 1
    BY ProviderAssumption
  <1>2. CASE ZoneFound(c)
    <2>1. ClientTypes'
      BY <1>1, <1>2, SendType DEF ZoneFound, Stage
    <2> QED
      BY <1>2, <2>1 DEF ZoneFound, zone, TypeOK, ClientTypes
  <1>3. CASE Differs(c)
    <2>1. ClientTypes'
      BY <1>1, <1>3, SendType DEF Differs, Stage
    <2> QED
      BY <1>3, <2>1 DEF Differs, zone, TypeOK, ClientTypes
  <1>4. CASE Matches(c)
    BY <1>4, EndType DEF Matches, zone, TypeOK, ClientTypes, Result
  <1>5. CASE Updated(c)
    BY <1>5, EndType DEF Updated, zone, TypeOK, ClientTypes, Result
  <1>6. CASE GiveUp(c)
    BY <1>6, EndType DEF GiveUp, zone, TypeOK, ClientTypes, Result
  <1>7. CASE Retry(c)
    <2>1. attempt[c] + 1 \in 0 .. RetryCount + 1
      BY <1>7, ProviderAssumption DEF Retry, MaxAttempts, TypeOK
    <2>2. stage[c] \in Stage \cup {"idle"}
      BY DEF TypeOK
    <2>3. ClientTypes'
      BY <1>7, <2>1, <2>2, SendType DEF Retry
    <2> QED
      BY <1>7, <2>3 DEF Retry, zone, TypeOK, ClientTypes
  <1> QED
    BY <1>2, <1>3, <1>4, <1>5, <1>6, <1>7 DEF Proceed

\* What a provider answers, or the network does not deliver.
LEMMA AnswerType ==
    ASSUME TypeOK, NEW c \in Client, Answer(c)
    PROVE  TypeOK'
  <1>1. CASE AnswerZone(c)
    BY <1>1 DEF AnswerZone, Reply, zone, history, TypeOK, Conn
  <1>2. CASE AnswerList(c)
    <2>1. ASSUME NEW x \in records PROVE RemoteRecord(x) \in View
      <3>1. x.id \in Nat /\ x.addr \in Addr
        BY DEF TypeOK, Record
      <3> QED
        BY <3>1 DEF RemoteRecord, View
    <2>2. Extract(Listed(job[c].rule), job[c].rule) \subseteq records
      BY DEF Extract, Listed
    <2>3. view' \in [Client -> View]
      BY <1>2, <2>1, <2>2, ViewType DEF AnswerList, TypeOK
    <2> QED
      BY <1>2, <2>3 DEF AnswerList, Reply, zone, history, TypeOK, Conn
  <1>3. CASE AnswerUpdate(c)
    <2>1. records' \subseteq Record /\ nextId' \in Nat \ {NoId}
      BY <1>3, RequestType, RewriteType DEF AnswerUpdate
    <2> QED
      BY <1>3, <2>1 DEF AnswerUpdate, Reply, TypeOK, Conn
  <1>4. CASE Refuse(c)
    BY <1>4 DEF Refuse, Reply, zone, history, TypeOK, Conn
  <1>5. CASE Lose(c)
    <2>1. view' \in [Client -> View]
      BY <1>5, ViewType DEF Lose, TypeOK
    <2> QED
      BY <1>5, <2>1, AbandonType DEF Lose, Reply, zone, history, TypeOK, Conn
  <1> QED
    BY <1>1, <1>2, <1>3, <1>4, <1>5 DEF Answer

LEMMA StepType == TypeOK /\ [Next]_vars => TypeOK'
  <1> SUFFICES ASSUME TypeOK, [Next]_vars PROVE TypeOK'
    OBVIOUS
  <1>1. ASSUME NEW c \in Client, NEW r \in Rule, NEW a \in Addr, Begin(c, r, a)
        PROVE  TypeOK'
    <2>1. 1 \in 0 .. RetryCount + 1
      BY ProviderAssumption
    <2>2. ClientTypes'
      BY <1>1, <2>1, SendType DEF Begin, Stage
    <2> QED
      BY <1>1, <2>2 DEF Begin, zone, TypeOK, ClientTypes, Result
  <1>2. ASSUME NEW c \in Client, Kill(c) PROVE TypeOK'
    BY <1>2, EndType, AbandonType DEF Kill, zone, TypeOK, ClientTypes, Result
  <1>3. ASSUME NEW c \in Client, Arrive(c) PROVE TypeOK'
    <2>1. late[c] \in Update
      BY <1>3 DEF Arrive, TypeOK
    <2>2. records' \subseteq Record /\ nextId' \in Nat \ {NoId}
      BY <1>3, <2>1, RewriteType DEF Arrive
    <2>3. extra' \in [Rule -> Nat]
      BY <1>3, <2>1 DEF Arrive, TypeOK, Update
    <2> QED
      BY <1>3, <2>2, <2>3 DEF Arrive, history, TypeOK
  <1>4. ASSUME NEW c \in Client, Vanish(c) PROVE TypeOK'
    BY <1>4 DEF Vanish, zone, history, TypeOK
  <1>5. CASE Elsewhere
    <2>1. events' \in 0 .. MaxEvents
      BY <1>5, ProviderAssumption DEF Elsewhere, TypeOK
    <2>2. /\ records' \subseteq Record
          /\ nextId' \in Nat \ {NoId}
          /\ extra' \in [Rule -> Nat]
          /\ edited' \subseteq Nat
      <3>1. /\ records \subseteq Record /\ nextId \in Nat \ {NoId}
            /\ extra \in [Rule -> Nat] /\ edited \subseteq Nat
        BY DEF TypeOK
      <3>2. \A x \in records : x.id \in Nat \ {NoId}
        BY <3>1 DEF Record
      <3>3. CASE /\ \E x \in records : records' = records \ {x}
                 /\ UNCHANGED <<nextId, extra, edited>>
        BY <3>1, <3>3
      <3>4. ASSUME NEW r \in Rule, NEW a \in Addr,
                   records' = Add(records, nextId, r, a), nextId' = nextId + 1,
                   extra' = [extra EXCEPT ![r] = @ + 1], UNCHANGED edited
            PROVE  /\ records' \subseteq Record
                   /\ nextId' \in Nat \ {NoId}
                   /\ extra' \in [Rule -> Nat]
                   /\ edited' \subseteq Nat
        <4>1. records' \subseteq Record
          BY <3>1, <3>4 DEF Add, Record
        <4>2. nextId' \in Nat \ {NoId}
          BY <3>1, <3>4 DEF NoId
        <4>3. extra' \in [Rule -> Nat]
          BY <3>1, <3>4
        <4> QED
          BY <3>1, <3>4, <4>1, <4>2, <4>3
      <3>5. ASSUME NEW x \in records, NEW r \in Rule, NEW a \in Addr,
                   records' = Put(records, x.id, r, a),
                   edited' = IF r = x.rule THEN edited ELSE edited \cup {x.id},
                   UNCHANGED <<nextId, extra>>
            PROVE  /\ records' \subseteq Record
                   /\ nextId' \in Nat \ {NoId}
                   /\ extra' \in [Rule -> Nat]
                   /\ edited' \subseteq Nat
        <4>1. x.id \in Nat \ {NoId}
          BY <3>2
        <4>2. records' \subseteq Record
          BY <3>1, <3>5, <4>1 DEF Put, Record
        <4>3. edited' \subseteq Nat
          BY <3>1, <3>5, <4>1
        <4> QED
          BY <3>1, <3>5, <4>2, <4>3
      <3> QED
        BY <1>5, <3>3, <3>4, <3>5 DEF Elsewhere
    <2> QED
      BY <1>5, <2>1, <2>2 DEF Elsewhere, history, TypeOK
  <1>6. CASE UNCHANGED vars
    BY <1>6 DEF vars, TypeOK
  <1> QED
    BY <1>1, <1>2, <1>3, <1>4, <1>5, <1>6, ProceedType, AnswerType DEF Next

LEMMA InitType == Init => TypeOK
  <1> SUFFICES ASSUME Init PROVE TypeOK
    OBVIOUS
  <1>1. records \subseteq Record
    BY DEF Init, Record
  <1>2. job \in [Client -> [rule : Rule, addr : Addr]]
    BY NoJobType DEF Init
  <1>3. events \in 0 .. MaxEvents /\ 0 \in 0 .. RetryCount + 1
    BY ProviderAssumption DEF Init
  <1> QED
    BY <1>1, <1>2, <1>3, ViewType DEF Init, TypeOK, Conn, Result

\* Every variable keeps its type, whatever is lost, late or retried.
THEOREM ProviderTypeCorrect == SafeSpec => []TypeOK
  <1> QED
    BY InitType, StepType, PTL DEF SafeSpec

-----------------------------------------------------------------------------
(* Where a client stands *)

\* The request a client is at, what became of it, and what the run has seen,
\* sent and had applied so far.
ClientOK(c) ==
    /\ stage[c] = "idle" =>
          /\ conn[c] = "none"
          /\ view[c] = NothingSeen
    /\ stage[c] # "idle" =>
          /\ conn[c] # "none"
          /\ attempt[c] \in 1 .. MaxAttempts(stage[c])
    /\ stage[c] # "update" => applied[c] = 0 /\ sent[c] = 0
    /\ stage[c] = "update" =>
          /\ sent[c] = 1
          /\ applied[c] \in {0, 1}
          /\ conn[c] = "sent" => applied[c] = 0
          /\ conn[c] = "ok" => applied[c] = 1
    /\ stage[c] = "zone" \/ (stage[c] = "list" /\ conn[c] # "ok") => view[c] = NothingSeen

ClientsOK == \A c \in Client : ClientOK(c)

\* Only the client c has moved.
OnlyMoves(c) ==
    \A d \in Client \ {c} :
        /\ stage'[d] = stage[d]
        /\ conn'[d] = conn[d]
        /\ attempt'[d] = attempt[d]
        /\ view'[d] = view[d]
        /\ sent'[d] = sent[d]
        /\ applied'[d] = applied[d]

LEMMA OneClient ==
    ASSUME ClientsOK, NEW c \in Client, OnlyMoves(c), ClientOK(c)'
    PROVE  ClientsOK'
  <1> SUFFICES ASSUME NEW d \in Client PROVE ClientOK(d)'
    BY DEF ClientsOK
  <1>1. CASE d = c
    BY <1>1
  <1>2. CASE d # c
    BY <1>2 DEF ClientsOK, OnlyMoves, ClientOK
  <1> QED
    BY <1>1, <1>2

\* The end of a run clears what it knew.
LEMMA EndOK ==
    ASSUME TypeOK, ClientsOK, NEW c \in Client, NEW answer, End(c, answer)
    PROVE  ClientsOK'
  <1>1. OnlyMoves(c)
    BY DEF End, OnlyMoves, TypeOK
  <1>2. ClientOK(c)'
    BY DEF End, ClientOK, TypeOK
  <1> QED
    BY <1>1, <1>2, OneClient

\* A request of a stage before the update leaves.
LEMMA SendLookup ==
    ASSUME TypeOK, ClientsOK, NEW c \in Client,
           NEW s \in {"zone", "list", "zone2"}, NEW n \in 1 .. MaxAttempts(s), Send(c, s, n),
           UNCHANGED <<view, applied>>,
           stage[c] # "update", s # "zone2" => view[c] = NothingSeen
    PROVE  ClientsOK'
  <1>1. OnlyMoves(c)
    BY DEF Send, OnlyMoves, TypeOK
  <1>2. stage'[c] = s /\ conn'[c] = "sent" /\ attempt'[c] = n
    BY DEF Send, TypeOK
  <1>3. applied'[c] = 0 /\ view'[c] = view[c]
    BY DEF ClientsOK, ClientOK
  <1>4. sent'[c] = 0
    <2>1. sent'[c] = sent[c] + 0 /\ sent[c] = 0
      BY DEF Send, ClientsOK, ClientOK, TypeOK
    <2> QED
      BY <2>1
  <1>5. ClientOK(c)'
    BY <1>2, <1>3, <1>4 DEF ClientOK
  <1> QED
    BY <1>1, <1>5, OneClient

\* The update leaves, after a lookup that was answered.
LEMMA SendUpdate ==
    ASSUME TypeOK, ClientsOK, NEW c \in Client, Send(c, "update", 1),
           UNCHANGED <<view, applied>>, stage[c] # "update"
    PROVE  ClientsOK'
  <1>1. OnlyMoves(c)
    BY DEF Send, OnlyMoves, TypeOK
  <1>2. stage'[c] = "update" /\ conn'[c] = "sent" /\ attempt'[c] = 1
    BY DEF Send, TypeOK
  <1>3. applied'[c] = 0
    BY DEF ClientsOK, ClientOK
  <1>4. sent'[c] = 1
    <2>1. sent'[c] = sent[c] + 1 /\ sent[c] = 0
      BY DEF Send, ClientsOK, ClientOK, TypeOK
    <2> QED
      BY <2>1
  <1>5. 1 \in 1 .. MaxAttempts("update")
    BY DEF MaxAttempts
  <1>6. ClientOK(c)'
    BY <1>2, <1>3, <1>4, <1>5 DEF ClientOK
  <1> QED
    BY <1>1, <1>6, OneClient

\* Every stage has a first attempt.
LEMMA FirstAttempt == \A s \in Stage : 1 \in 1 .. MaxAttempts(s)
  BY AttemptsType, ProviderAssumption

LEMMA ProceedOK ==
    ASSUME TypeOK, ClientsOK, NEW c \in Client, Proceed(c)
    PROVE  ClientsOK'
  <1>0. ClientOK(c)
    BY DEF ClientsOK
  <1>1. CASE ZoneFound(c)
    <2>1. CASE stage[c] = "zone"
      BY <1>0, <1>1, <2>1, FirstAttempt, SendLookup DEF ZoneFound, Stage, ClientOK
    <2>2. CASE stage[c] = "zone2"
      BY <1>1, <2>2, SendUpdate DEF ZoneFound
    <2> QED
      BY <1>1, <2>1, <2>2 DEF ZoneFound
  <1>2. CASE Differs(c)
    <2>1. CASE kind = "cloudflare"
      BY <1>2, <2>1, FirstAttempt, SendLookup DEF Differs, Stage
    <2>2. CASE kind # "cloudflare"
      BY <1>2, <2>2, SendUpdate DEF Differs
    <2> QED
      BY <2>1, <2>2
  <1>3. CASE Matches(c) \/ Updated(c) \/ GiveUp(c)
    BY <1>3, EndOK DEF Matches, Updated, GiveUp
  <1>4. CASE Retry(c)
    <2>1. stage[c] \in Stage /\ attempt[c] \in 1 .. MaxAttempts(stage[c])
      BY <1>0, <1>4 DEF Retry, ClientOK, TypeOK
    <2>2. stage[c] # "update"
      BY <1>4, <2>1 DEF Retry, MaxAttempts
    <2>3. attempt[c] + 1 \in 1 .. MaxAttempts(stage[c])
      BY <1>4, <2>1, AttemptsType DEF Retry
    <2>4. stage[c] # "zone2" => view[c] = NothingSeen
      BY <1>0, <1>4, <2>1, <2>2 DEF Retry, ClientOK, Stage
    <2> QED
      BY <1>4, <2>1, <2>2, <2>3, <2>4, SendLookup DEF Retry, Stage
  <1> QED
    BY <1>1, <1>2, <1>3, <1>4 DEF Proceed

LEMMA AnswerOK ==
    ASSUME TypeOK, ClientsOK, NEW c \in Client, Answer(c)
    PROVE  ClientsOK'
  <1>0. ClientOK(c)
    BY DEF ClientsOK
  <1>1. OnlyMoves(c)
    BY DEF Answer, AnswerZone, AnswerList, AnswerUpdate, Refuse, Lose, Reply, OnlyMoves,
           history, TypeOK
  <1>2. ClientOK(c)'
    <2>1. CASE AnswerZone(c)
      BY <1>0, <2>1 DEF AnswerZone, Reply, history, ClientOK, TypeOK
    <2>2. CASE AnswerList(c)
      BY <1>0, <2>2 DEF AnswerList, Reply, history, ClientOK, TypeOK
    <2>3. CASE AnswerUpdate(c)
      <3>1. applied'[c] = applied[c] + 1 /\ applied[c] = 0
        BY <1>0, <2>3 DEF AnswerUpdate, ClientOK, TypeOK
      <3>2. conn'[c] \in {"ok", "retry", "fail"}
        BY <2>3 DEF AnswerUpdate, Reply, TypeOK
      <3> QED
        BY <1>0, <2>3, <3>1, <3>2 DEF AnswerUpdate, ClientOK
    <2>4. CASE Refuse(c)
      BY <1>0, <2>4 DEF Refuse, Reply, history, ClientOK, TypeOK
    <2>5. CASE Lose(c)
      BY <1>0, <2>5 DEF Lose, Reply, history, ClientOK, TypeOK
    <2> QED
      BY <2>1, <2>2, <2>3, <2>4, <2>5 DEF Answer
  <1> QED
    BY <1>1, <1>2, OneClient

LEMMA StepClients == TypeOK /\ ClientsOK /\ [Next]_vars => ClientsOK'
  <1> SUFFICES ASSUME TypeOK, ClientsOK, [Next]_vars PROVE ClientsOK'
    OBVIOUS
  <1>1. ASSUME NEW c \in Client, NEW r \in Rule, NEW a \in Addr, Begin(c, r, a)
        PROVE  ClientsOK'
    <2>1. stage[c] = "idle" /\ view[c] = NothingSeen
      BY <1>1 DEF Begin, ClientsOK, ClientOK
    <2> QED
      BY <1>1, <2>1, FirstAttempt, SendLookup DEF Begin, Stage
  <1>2. ASSUME NEW c \in Client, Kill(c) PROVE ClientsOK'
    BY <1>2, EndOK DEF Kill
  <1>3. ASSUME NEW c \in Client, Arrive(c) \/ Vanish(c) PROVE ClientsOK'
    BY <1>3 DEF Arrive, Vanish, history, ClientsOK, ClientOK
  <1>4. CASE Elsewhere
    BY <1>4 DEF Elsewhere, history, ClientsOK, ClientOK
  <1>5. CASE UNCHANGED vars
    BY <1>5 DEF vars, ClientsOK, ClientOK
  <1> QED
    BY <1>1, <1>2, <1>3, <1>4, <1>5, ProceedOK, AnswerOK DEF Next

LEMMA InitClients == Init => ClientsOK
  BY DEF Init, ClientsOK, ClientOK

LEMMA ClientsInvariant == SafeSpec => [](TypeOK /\ ClientsOK)
  <1>1. Init => TypeOK /\ ClientsOK
    BY InitType, InitClients
  <1>2. TypeOK /\ ClientsOK /\ [Next]_vars => TypeOK' /\ ClientsOK'
    BY StepType, StepClients
  <1> QED
    BY <1>1, <1>2, PTL DEF SafeSpec

\* A run sends the request of its update at most once, however many attempts
\* its lookups take and whatever becomes of the update.
THEOREM OneUpdatePerRun == SafeSpec => []UpdateSentOnce
  <1>1. ASSUME TypeOK, ClientsOK PROVE UpdateSentOnce
    <2> SUFFICES ASSUME NEW c \in Client PROVE sent[c] <= 1
      BY DEF UpdateSentOnce
    <2>1. sent[c] \in {0, 1}
      BY <1>1 DEF ClientsOK, ClientOK
    <2> QED
      BY <2>1
  <1> QED
    BY <1>1, ClientsInvariant, PTL

\* The answer of a run tells what the provider has applied of it.
THEOREM HonestResults == SafeSpec => ResultIsHonest
  <1> DEFINE Honest(c) ==
        stage[c] # "idle" /\ stage'[c] = "idle" =>
            /\ result'[c] = "pushed" => applied[c] = 1
            /\ result'[c] = "unchanged" => applied[c] = 0 /\ view[c].addr = job[c].addr
  <1>1. ASSUME TypeOK, ClientsOK, Next, NEW c \in Client, stage[c] # "idle", stage'[c] = "idle"
        PROVE  Honest(c)
    <2>1. ASSUME NEW d \in Client, NEW s \in Stage, NEW n, Send(d, s, n)
          PROVE  FALSE
      BY <1>1, <2>1 DEF Send, TypeOK, Stage
    <2>2. ASSUME NEW d \in Client, NEW answer, End(d, answer)
          PROVE  d = c /\ result'[c] = answer
      BY <1>1, <2>2 DEF End, TypeOK
    <2>3. ClientOK(c)
      BY <1>1 DEF ClientsOK
    <2>4. ASSUME NEW d \in Client, Proceed(d) PROVE Honest(c)
      <3>1. CASE Matches(d)
        BY <2>2, <2>3, <3>1 DEF Matches, ClientOK
      <3>2. CASE Updated(d)
        BY <2>2, <2>3, <3>2 DEF Updated, ClientOK
      <3>3. CASE GiveUp(d)
        BY <2>2, <3>3 DEF GiveUp
      <3>4. CASE ZoneFound(d) \/ Differs(d)
        BY <2>1, <3>4 DEF ZoneFound, Differs, Stage
      <3>5. CASE Retry(d)
        <4>1. stage[d] \in Stage
          BY <1>1, <3>5 DEF Retry, ClientsOK, ClientOK, TypeOK
        <4> QED
          BY <2>1, <3>5, <4>1 DEF Retry
      <3> QED
        BY <2>4, <3>1, <3>2, <3>3, <3>4, <3>5 DEF Proceed
    <2>5. ASSUME NEW d \in Client, Kill(d) PROVE Honest(c)
      BY <2>2, <2>5 DEF Kill
    <2>6. ASSUME NEW d \in Client, Answer(d) \/ Arrive(d) \/ Vanish(d) PROVE FALSE
      BY <1>1, <2>6 DEF Answer, AnswerZone, AnswerList, AnswerUpdate, Refuse, Lose, Arrive,
         Vanish, history
    <2>7. CASE Elsewhere
      BY <1>1, <2>7 DEF Elsewhere
    <2>8. ASSUME NEW d \in Client, NEW r \in Rule, NEW a \in Addr, Begin(d, r, a) PROVE FALSE
      BY <2>1, <2>8 DEF Begin, Stage
    <2> HIDE DEF Honest
    <2> QED
      BY <1>1, <2>4, <2>5, <2>6, <2>7, <2>8 DEF Next
  <1>2. TypeOK /\ ClientsOK /\ [Next]_vars => [\A c \in Client : Honest(c)]_vars
    BY <1>1
  <1> QED
    BY <1>2, ClientsInvariant, PTL DEF SafeSpec, ResultIsHonest

-----------------------------------------------------------------------------
(* The ids a client holds *)

\* The update u names no record of another rule, and never will, unless others
\* edit the record.
OwnId(u) ==
    /\ u.id < nextId
    /\ \A x \in records : x.id = u.id => x.rule = u.rule \/ x.id \in edited

\* What the step leaves of the records of r: all, or all but edited ones.
Spared(r) ==
    /\ Of(records', r) \subseteq Of(records, r)
    /\ \A x \in Of(records, r) \ Of(records', r) : x.id \in edited

IdsOK ==
    /\ \A i \in edited : i < nextId
    /\ \A x \in records : x.id < nextId
    /\ \A x, y \in records : x.id = y.id => x = y
    /\ \A c \in Client : OwnId(Request(c))
    /\ \A c \in Client : late[c] # NoUpdate => OwnId(late[c])

\* The filters of the provider and those of the code together select the
\* records of the rule.
LEMMA FiltersSelect ==
    ASSUME TypeOK, NEW r \in Rule
    PROVE  Extract(Listed(r), r) = Of(records, r)
  <1>1. kind \in AllKinds
    BY ProviderAssumption DEF TypeOK
  <1>2. \A x \in records : x.rule \in Rule
    BY DEF TypeOK, Record
  <1>3. \A x \in records : x.rule.name = r.name /\ x.rule.type = r.type => x.rule = r
    BY <1>2, ProviderAssumption
  <1>4. \A x \in records : Rr(x.rule.name) = Rr(r.name) <=> x.rule.name = r.name
    BY <1>2, NameAssumption DEF Rr
  <1> HIDE DEF Rr
  <1> QED
    BY <1>1, <1>3, <1>4 DEF Extract, Listed, Of, AllKinds

\* What the three ways to apply an update have in common.
LEMMA RewriteIds ==
    ASSUME TypeOK, IdsOK, NEW u \in Update, OwnId(u), Rewrite(u) \/ Create(u) \/ Upsert(u),
           edited' = edited
    PROVE  /\ \A i \in edited' : i < nextId'
           /\ \A x \in records' : x.id < nextId'
           /\ \A x, y \in records' : x.id = y.id => x = y
           /\ \A w \in Update : OwnId(w) => OwnId(w)'
           /\ \A r \in Rule : r # u.rule => Spared(r)
  <1>1. /\ nextId \in Nat
        /\ \A x \in records : x.id \in Nat \ {0} /\ x.id < nextId
        /\ \A x, y \in records : x.id = y.id => x = y
        /\ \A i \in edited : i \in Nat /\ i < nextId
    BY DEF TypeOK, IdsOK, Record
  <1>2. ASSUME NEW z \in records, z.rule = u.rule \/ z.id \in edited,
               records' = Put(records, z.id, u.rule, u.addr),
               nextId' = nextId
        PROVE  /\ \A x \in records' : x.id < nextId'
               /\ \A x, y \in records' : x.id = y.id => x = y
               /\ \A w \in Update : OwnId(w) => OwnId(w)'
               /\ \A r \in Rule : r # u.rule => Spared(r)
    <2>1. \A x \in records' : (x \in records /\ x.id # z.id) \/ (x.id = z.id /\ x.rule = u.rule
                                /\ x = [id |-> z.id, rule |-> u.rule, addr |-> u.addr])
      BY <1>2 DEF Put
    <2>2. \A x \in records : x.id # z.id => x \in records'
      BY <1>2 DEF Put
    <2>3. \A x \in records : x.id = z.id => x = z
      BY <1>1, <1>2
    <2>4. \A x \in records' : x.id < nextId'
      BY <1>1, <1>2, <2>1
    <2>5. \A x, y \in records' : x.id = y.id => x = y
      BY <1>1, <2>1
    <2>6. ASSUME NEW w \in Update, OwnId(w) PROVE OwnId(w)'
      <3>1. ASSUME NEW x \in records', x.id = w.id PROVE x.rule = w.rule \/ x.id \in edited
        <4>1. CASE x \in records
          BY <2>6, <3>1, <4>1 DEF OwnId
        <4>2. CASE x.id = z.id /\ x.rule = u.rule
          BY <1>2, <2>6, <3>1, <4>2 DEF OwnId
        <4> QED
          BY <2>1, <4>1, <4>2
      <3> QED
        BY <1>2, <2>6, <3>1 DEF OwnId
    <2>7. ASSUME NEW r \in Rule, r # u.rule PROVE Spared(r)
      <3>1. Of(records', r) \subseteq Of(records, r)
        BY <2>1, <2>7 DEF Of
      <3>2. ASSUME NEW x \in Of(records, r) \ Of(records', r) PROVE x.id \in edited
        <4>1. x \in records /\ x.rule = r /\ x \notin records'
          BY <3>2 DEF Of
        <4>2. x = z
          BY <2>2, <2>3, <4>1
        <4> QED
          BY <1>2, <2>7, <4>1, <4>2
      <3> QED
        BY <3>1, <3>2 DEF Spared
    <2> QED
      BY <2>4, <2>5, <2>6, <2>7
  <1>3. CASE Create(u)
    <2>1. nextId' = nextId + 1
          /\ records' = records \cup {[id |-> nextId, rule |-> u.rule, addr |-> u.addr]}
      BY <1>3 DEF Create, Add
    <2>2. \A x \in records' : x \in records
                \/ (x = [id |-> nextId, rule |-> u.rule, addr |-> u.addr]
                    /\ x.id = nextId /\ x.rule = u.rule)
      BY <2>1
    <2>3. \A x \in records' : x.id < nextId'
      BY <1>1, <2>1, <2>2
    <2>4. \A x, y \in records' : x.id = y.id => x = y
      BY <1>1, <2>2
    <2>5. ASSUME NEW w \in Update, OwnId(w) PROVE OwnId(w)'
      BY <1>1, <2>1, <2>2, <2>5 DEF OwnId, Update
    <2>6. ASSUME NEW r \in Rule, r # u.rule PROVE Spared(r)
      BY <2>1, <2>2, <2>6 DEF Of, Spared
    <2>7. \A i \in edited' : i < nextId'
      BY <1>1, <2>1
    <2> QED
      BY <2>3, <2>4, <2>5, <2>6, <2>7
  <1>4. CASE Rewrite(u)
    <2>1. PICK z \in records : z.id = u.id
      BY <1>4 DEF Rewrite, Exists
    <2>2. z.rule = u.rule \/ z.id \in edited
      BY <2>1 DEF OwnId
    <2> QED
      BY <1>1, <1>2, <1>4, <2>1, <2>2 DEF Rewrite
  <1>5. CASE Upsert(u)
    BY <1>1, <1>2, <1>5 DEF Upsert, Of
  <1> QED
    BY <1>3, <1>4, <1>5

LEMMA NamesNone ==
    ASSUME TypeOK, NEW u \in Update, u.id = NoId
    PROVE  OwnId(u)
  BY DEF TypeOK, OwnId, Record

\* A record a lookup has found is of the rule, and no other record has its id.
LEMMA FoundIds ==
    ASSUME TypeOK, IdsOK, NEW c \in Client, NEW x \in Of(records, job[c].rule)
    PROVE  OwnId([rule |-> job[c].rule, addr |-> job[c].addr, id |-> RemoteRecord(x).id])
  <1>1. x \in records /\ x.rule = job[c].rule
    BY DEF Of
  <1>2. x.id < nextId /\ \A y \in records : y.id = x.id => y = x
    BY <1>1 DEF IdsOK
  <1>3. 0 < nextId /\ \A y \in records : y.id # 0
    BY DEF TypeOK, Record
  <1> QED
    BY <1>1, <1>2, <1>3 DEF OwnId, RemoteRecord

\* Steps that leave the zone alone.
LEMMA KeepIds ==
    ASSUME TypeOK, IdsOK, UNCHANGED <<records, nextId, edited>>,
           \A d \in Client : \E u \in Update : Request(d)' = u /\ OwnId(u),
           \A d \in Client : late'[d] \in {late[d], NoUpdate, Request(d)}
    PROVE  IdsOK'
  <1>1. \A u \in Update : OwnId(u) => OwnId(u)'
    BY DEF OwnId
  <1>2. \A d \in Client : OwnId(Request(d))'
    <2> SUFFICES ASSUME NEW d \in Client PROVE OwnId(Request(d))'
      OBVIOUS
    <2>1. PICK u \in Update : Request(d)' = u /\ OwnId(u)
      OBVIOUS
    <2>2. OwnId(u)'
      BY <1>1, <2>1
    <2> QED
      BY <2>1, <2>2 DEF OwnId
  <1>3. \A d \in Client : late'[d] # NoUpdate => OwnId(late[d])'
    <2> SUFFICES ASSUME NEW d \in Client, late'[d] # NoUpdate PROVE OwnId(late[d])'
      OBVIOUS
    <2>1. CASE late'[d] = late[d]
      BY <2>1 DEF IdsOK, OwnId
    <2>2. CASE late'[d] = Request(d)
      BY <2>2 DEF IdsOK, OwnId
    <2> QED
      BY <2>1, <2>2
  <1> QED
    BY <1>2, <1>3 DEF IdsOK

\* Steps that change the zone.
LEMMA ChangeIds ==
    ASSUME TypeOK, IdsOK,
           \A i \in edited' : i < nextId',
           \A x \in records' : x.id < nextId',
           \A x, y \in records' : x.id = y.id => x = y,
           \A w \in Update : OwnId(w) => OwnId(w)',
           UNCHANGED <<view, job>>,
           \A d \in Client : late'[d] \in {late[d], NoUpdate}
    PROVE  IdsOK'
  <1>1. ASSUME NEW d \in Client PROVE OwnId(Request(d))'
    <2>1. Request(d)' = Request(d) /\ Request(d) \in Update /\ OwnId(Request(d))
      BY RequestType DEF Request, IdsOK
    <2>2. \A w \in Update : w = Request(d) => OwnId(w)'
      BY <2>1
    <2> QED
      BY <2>1, <2>2 DEF OwnId
  <1>2. ASSUME NEW d \in Client, late'[d] # NoUpdate PROVE OwnId(late[d])'
    <2>1. late'[d] = late[d] /\ late[d] \in Update /\ OwnId(late[d])
      BY <1>2 DEF IdsOK, TypeOK
    <2>2. \A w \in Update : w = late[d] => OwnId(w)'
      BY <2>1
    <2> QED
      BY <2>1, <2>2 DEF OwnId
  <1> QED
    BY <1>1, <1>2 DEF IdsOK

\* A step that leaves the view of c as it is or clears it.
LEMMA ClearIds ==
    ASSUME TypeOK, TypeOK', IdsOK, UNCHANGED <<records, nextId, edited>>, NEW c \in Client,
           \A d \in Client \ {c} : view'[d] = view[d] /\ job'[d] = job[d],
           view'[c] = NothingSeen \/ (view'[c] = view[c] /\ job'[c] = job[c]),
           \A d \in Client : late'[d] \in {late[d], NoUpdate, Request(d)}
    PROVE  IdsOK'
  <1>1. ASSUME NEW d \in Client PROVE \E u \in Update : Request(d)' = u /\ OwnId(u)
    <2>1. Request(d)' \in Update
      BY DEF TypeOK, Request, Update, View
    <2>2. CASE view'[d] = view[d] /\ job'[d] = job[d]
      BY <2>1, <2>2 DEF Request, IdsOK
    <2>3. CASE view'[d] = NothingSeen
      <3>1. Request(d)'.id = 0
        BY <2>3 DEF Request, NothingSeen
      <3> QED
        BY <2>1, <3>1, NamesNone
    <2> QED
      BY <2>2, <2>3
  <1> QED
    BY <1>1, KeepIds

LEMMA StepIds == TypeOK /\ TypeOK' /\ ClientsOK /\ IdsOK /\ [Next]_vars => IdsOK'
  <1> SUFFICES ASSUME TypeOK, TypeOK', ClientsOK, IdsOK, [Next]_vars PROVE IdsOK'
    OBVIOUS
  <1>1. ASSUME NEW c \in Client, NEW r \in Rule, NEW a \in Addr, Begin(c, r, a) PROVE IdsOK'
    <2>1. view'[c] = NothingSeen
      BY <1>1 DEF Begin, ClientsOK, ClientOK
    <2> QED
      BY <1>1, <2>1, ClearIds DEF Begin, zone, TypeOK
  <1>2. ASSUME NEW c \in Client, NEW answer, End(c, answer), UNCHANGED zone,
               \A d \in Client : late'[d] \in {late[d], NoUpdate, Request(d)}
        PROVE  IdsOK'
    BY <1>2, ClearIds DEF End, zone, TypeOK
  <1>3. ASSUME NEW c \in Client, Abandon(c)
        PROVE  \A d \in Client : late'[d] \in {late[d], NoUpdate, Request(d)}
    BY <1>3 DEF Abandon, TypeOK
  <1>4. ASSUME NEW c \in Client, Proceed(c) PROVE IdsOK'
    <2>1. CASE Matches(c) \/ Updated(c) \/ GiveUp(c)
      BY <1>2, <2>1 DEF Matches, Updated, GiveUp
    <2>2. CASE ZoneFound(c) \/ Differs(c) \/ Retry(c)
      BY <2>2, ClearIds DEF ZoneFound, Differs, Retry, zone
    <2> QED
      BY <1>4, <2>1, <2>2 DEF Proceed
  <1>5. ASSUME NEW c \in Client, Kill(c) PROVE IdsOK'
    BY <1>2, <1>3, <1>5 DEF Kill
  <1>6. ASSUME NEW c \in Client, AnswerZone(c) \/ Refuse(c) \/ Vanish(c) PROVE IdsOK'
    BY <1>6, ClearIds DEF AnswerZone, Refuse, Vanish, zone, history, TypeOK
  <1>7. ASSUME NEW c \in Client, Lose(c) PROVE IdsOK'
    BY <1>3, <1>7, ClearIds DEF Lose, zone, history, TypeOK
  <1>8. ASSUME NEW c \in Client, AnswerList(c) PROVE IdsOK'
    <2>1. CASE view' = [view EXCEPT ![c] = NothingSeen]
      BY <1>8, <2>1, ClearIds DEF AnswerList, zone, history, TypeOK
    <2>2. CASE \E x \in Extract(Listed(job[c].rule), job[c].rule) :
                  view' = [view EXCEPT ![c] = RemoteRecord(x)]
      <3>1. job[c].rule \in Rule
        BY DEF TypeOK
      <3>2. PICK x \in Of(records, job[c].rule) : view' = [view EXCEPT ![c] = RemoteRecord(x)]
        BY <2>2, <3>1, FiltersSelect
      <3>3. ASSUME NEW d \in Client PROVE \E u \in Update : Request(d)' = u /\ OwnId(u)
        <4>1. Request(d)' \in Update
          BY DEF TypeOK, Request, Update, View
        <4>2. CASE d # c
          BY <1>8, <3>2, <4>1, <4>2 DEF AnswerList, Request, IdsOK, TypeOK
        <4>3. CASE d = c
          <5>1. view'[c] = RemoteRecord(x) /\ job'[c] = job[c]
            BY <1>8, <3>2 DEF AnswerList, TypeOK
          <5>2. Request(c)' =
                  [rule |-> job[c].rule, addr |-> job[c].addr, id |-> RemoteRecord(x).id]
            BY <5>1 DEF Request
          <5> QED
            BY <3>2, <4>1, <4>3, <5>2, FoundIds
        <4> QED
          BY <4>2, <4>3
      <3> QED
        BY <1>8, <3>3, KeepIds DEF AnswerList, zone
    <2> QED
      BY <1>8, <2>1, <2>2 DEF AnswerList
  <1>9. ASSUME NEW c \in Client, AnswerUpdate(c) PROVE IdsOK'
    <2>1. Request(c) \in Update /\ OwnId(Request(c))
      BY RequestType DEF IdsOK
    <2> QED
      BY <1>9, <2>1, RewriteIds, ChangeIds DEF AnswerUpdate
  <1>10. ASSUME NEW c \in Client, Arrive(c) PROVE IdsOK'
    <2>1. late[c] \in Update /\ OwnId(late[c])
      BY <1>10 DEF Arrive, IdsOK, TypeOK
    <2>2. \A d \in Client : late'[d] \in {late[d], NoUpdate}
      BY <1>10 DEF Arrive, TypeOK
    <2> QED
      BY <1>10, <2>1, <2>2, RewriteIds, ChangeIds DEF Arrive
  <1>11. CASE Elsewhere
    <2>1. CASE /\ \E x \in records : records' = records \ {x}
               /\ UNCHANGED <<nextId, edited>>
      <3>1. \A w \in Update : OwnId(w) => OwnId(w)'
        BY <2>1 DEF OwnId
      <3> QED
        BY <1>11, <2>1, <3>1, ChangeIds DEF Elsewhere, IdsOK
    <2>2. CASE \E r \in Rule, a \in Addr : /\ records' = Add(records, nextId, r, a)
                                           /\ nextId' = nextId + 1
                                           /\ edited' = edited
      <3>1. PICK r \in Rule, a \in Addr : /\ records' = Add(records, nextId, r, a)
                                          /\ nextId' = nextId + 1
                                          /\ edited' = edited
        BY <2>2
      <3>2. \A x \in records' : x \in records \/ x = [id |-> nextId, rule |-> r, addr |-> a]
        BY <3>1 DEF Add
      <3>3. nextId \in Nat /\ \A x \in records : x.id \in Nat /\ x.id < nextId
        BY DEF TypeOK, IdsOK, Record
      <3>4. \A x \in records' : x.id < nextId'
        BY <3>1, <3>2, <3>3
      <3>5. \A x, y \in records' : x.id = y.id => x = y
        BY <3>2, <3>3 DEF IdsOK
      <3>6. \A w \in Update : OwnId(w) => OwnId(w)'
        BY <3>1, <3>2, <3>3 DEF OwnId, Update
      <3>7. \A i \in edited' : i < nextId'
        BY <3>1, <3>3 DEF TypeOK, IdsOK
      <3> QED
        BY <1>11, <3>4, <3>5, <3>6, <3>7, ChangeIds DEF Elsewhere
    <2>3. CASE /\ \E x \in records, r \in Rule, a \in Addr :
                     /\ records' = Put(records, x.id, r, a)
                     /\ edited' = IF r = x.rule THEN edited ELSE edited \cup {x.id}
               /\ nextId' = nextId
      <3>1. PICK z \in records, r \in Rule, a \in Addr :
                     /\ records' = Put(records, z.id, r, a)
                     /\ edited' = IF r = z.rule THEN edited ELSE edited \cup {z.id}
        BY <2>3
      <3>2. \A x \in records' : (x \in records /\ x.id # z.id)
                                \/ x = [id |-> z.id, rule |-> r, addr |-> a]
        BY <3>1 DEF Put
      <3>3. \A x \in records' : x.id < nextId'
        BY <2>3, <3>2 DEF IdsOK
      <3>4. \A x, y \in records' : x.id = y.id => x = y
        BY <3>2 DEF IdsOK
      <3>5. \A i \in edited' : i < nextId'
        BY <2>3, <3>1 DEF IdsOK
      <3>6. ASSUME NEW w \in Update, OwnId(w) PROVE OwnId(w)'
        <4>1. ASSUME NEW x \in records', x.id = w.id PROVE x.rule = w.rule \/ x.id \in edited'
          <5>1. CASE x \in records /\ x.id # z.id
            BY <3>1, <3>6, <4>1, <5>1 DEF OwnId
          <5>2. CASE x = [id |-> z.id, rule |-> r, addr |-> a]
            BY <3>1, <3>6, <4>1, <5>2 DEF OwnId
          <5> QED
            BY <3>2, <5>1, <5>2
        <4> QED
          BY <2>3, <3>6, <4>1 DEF OwnId
      <3> QED
        BY <1>11, <3>3, <3>4, <3>5, <3>6, ChangeIds DEF Elsewhere
    <2> QED
      BY <1>11, <2>1, <2>2, <2>3 DEF Elsewhere
  <1>12. CASE UNCHANGED vars
    BY <1>12 DEF vars, IdsOK, OwnId, Request
  <1> QED
    BY <1>1, <1>4, <1>5, <1>6, <1>7, <1>8, <1>9, <1>10, <1>11, <1>12 DEF Next, Answer

LEMMA InitIds == Init => IdsOK
  BY DEF Init, IdsOK, OwnId, Request, NothingSeen

\* The inductive invariant.
ProviderInv == TypeOK /\ ClientsOK /\ IdsOK

LEMMA StepInv == ProviderInv /\ [Next]_vars => ProviderInv'
  BY StepType, StepClients, StepIds DEF ProviderInv

LEMMA Invariant == SafeSpec => []ProviderInv
  <1>1. Init => ProviderInv
    BY InitType, InitClients, InitIds DEF ProviderInv
  <1> QED
    BY <1>1, StepInv, PTL DEF SafeSpec

\* The records of a rule change only by a request for that rule, by somebody
\* else, or because they had been taken from another rule, whatever ids the
\* clients hold and however late their requests are.
THEOREM ZoneShared == SafeSpec => OthersUntouched
  <1> DEFINE Mine(r) ==
        Of(records', r) # Of(records, r) =>
          \/ events' # events
          \/ \E c \in Client : job[c].rule = r /\ applied'[c] > applied[c]
          \/ \E c \in Client : /\ late[c] \in Update
                               /\ late[c].rule = r
                               /\ late'[c] = NoUpdate
          \/ /\ Of(records', r) \subseteq Of(records, r)
             /\ \A x \in Of(records, r) \ Of(records', r) : x.id \in edited
  <1>1. ASSUME ProviderInv, Next, NEW r \in Rule PROVE Mine(r)
    <2>1. CASE records' = records
      BY <2>1
    <2>2. ASSUME NEW c \in Client, AnswerUpdate(c) PROVE Mine(r)
      <3>1. Request(c) \in Update /\ OwnId(Request(c)) /\ Request(c).rule = job[c].rule
        BY <1>1, RequestType DEF ProviderInv, IdsOK, Request
      <3>2. r # job[c].rule => Spared(r)
        BY <1>1, <2>2, <3>1, RewriteIds DEF AnswerUpdate, ProviderInv
      <3>3. applied'[c] > applied[c]
        BY <1>1, <2>2 DEF AnswerUpdate, ProviderInv, TypeOK
      <3> QED
        BY <3>2, <3>3 DEF Spared
    <2>3. ASSUME NEW c \in Client, Arrive(c) PROVE Mine(r)
      <3>1. late[c] \in Update /\ OwnId(late[c])
        BY <1>1, <2>3 DEF ProviderInv, IdsOK, TypeOK, Arrive
      <3>2. r # late[c].rule => Spared(r)
        BY <1>1, <2>3, <3>1, RewriteIds DEF Arrive, ProviderInv
      <3>3. late'[c] = NoUpdate
        BY <1>1, <2>3 DEF Arrive, ProviderInv, TypeOK
      <3> QED
        BY <3>1, <3>2, <3>3 DEF Spared
    <2>4. CASE Elsewhere
      BY <1>1, <2>4 DEF Elsewhere, ProviderInv, TypeOK
    <2>5. ASSUME NEW c \in Client, Proceed(c) \/ Kill(c) \/ Vanish(c) PROVE records' = records
      BY <2>5 DEF Proceed, ZoneFound, Matches, Differs, Updated, Retry, GiveUp, Kill, Vanish, zone
    <2>6. ASSUME NEW c \in Client, AnswerZone(c) \/ AnswerList(c) \/ Refuse(c) \/ Lose(c)
          PROVE  records' = records
      BY <2>6 DEF AnswerZone, AnswerList, Refuse, Lose, zone
    <2>7. ASSUME NEW c \in Client, NEW x \in Rule, NEW a \in Addr, Begin(c, x, a)
          PROVE  records' = records
      BY <2>7 DEF Begin, zone
    <2> HIDE DEF Mine
    <2> QED
      BY <1>1, <2>1, <2>2, <2>3, <2>4, <2>5, <2>6, <2>7 DEF Next, Answer
  <1>2. ProviderInv /\ [Next]_vars => [\A r \in Rule : Mine(r)]_vars
    BY <1>1
  <1> QED
    BY <1>2, Invariant, PTL DEF SafeSpec, OthersUntouched

-----------------------------------------------------------------------------
(* Refinement *)

USE DEF Service!NoId

\* The phases of the abstract runs, as one function.
Phases == [c \in Client |-> Phase(c)]

\* A step that moves only the client c moves only its phase.
LEMMA PhaseMoves ==
    ASSUME NEW c \in Client, OnlyMoves(c), NEW p, Phase(c)' = p
    PROVE  Phases' = [Phases EXCEPT ![c] = p]
  <1>1. \A d \in Client \ {c} : Phase(d)' = Phase(d)
    BY DEF Phase, OnlyMoves
  <1>2. Phases' = [d \in Client |-> Phase(d)']
    BY DEF Phases
  <1> HIDE DEF Phase
  <1> QED
    BY <1>1, <1>2 DEF Phases

\* A step that does not change the phase of c does not change any.
LEMMA PhaseStays ==
    ASSUME NEW c \in Client, OnlyMoves(c), Phase(c)' = Phase(c)
    PROVE  Phases' = Phases
  <1>1. Phases' = [Phases EXCEPT ![c] = Phase(c)]
    BY PhaseMoves
  <1> QED
    BY <1>1 DEF Phases

LEMMA InitRefines == Init => Service!Init
  BY DEF Init, Service!Init, Phase, NoJob, Service!NoJob, NothingSeen, Service!NothingSeen

LEMMA AppliesMaps ==
    ASSUME NEW u, Rewrite(u) \/ Create(u) \/ Upsert(u)
    PROVE  Service!Applies(u)
  BY DEF Rewrite, Create, Upsert, Service!Applies, Exists, Service!Exists, Put, Service!Put,
     Add, Service!Add, Of, Service!Of

LEMMA EndMaps ==
    ASSUME TypeOK, NEW c \in Client, NEW answer, End(c, answer), UNCHANGED zone
    PROVE  Service!End(c, answer)
  <1>1. OnlyMoves(c) /\ Phase(c)' = "idle"
    BY DEF End, OnlyMoves, Phase, TypeOK
  <1>2. Phases' = [Phases EXCEPT ![c] = "idle"]
    BY <1>1, PhaseMoves
  <1> QED
    BY <1>2 DEF End, zone, Service!End, Phases, NoJob, Service!NoJob, NothingSeen,
       Service!NothingSeen

LEMMA RequestMaps == \A c \in Client : Service!Request(c) = Request(c)
  BY DEF Request, Service!Request

\* A run proceeds: the abstract run ends, asks for the update, or does nothing.
LEMMA ProceedRefines ==
    ASSUME ProviderInv, NEW c \in Client, Proceed(c)
    PROVE  [Service!Next]_(Service!vars)
  <1>0. TypeOK /\ ClientOK(c)
    BY DEF ProviderInv, ClientsOK
  <1>1. ASSUME NEW s \in Stage, NEW n, Send(c, s, n), UNCHANGED <<view, applied>>
        PROVE  /\ OnlyMoves(c)
               /\ stage'[c] = s /\ conn'[c] = "sent" /\ applied'[c] = applied[c]
    BY <1>0, <1>1 DEF Send, OnlyMoves, TypeOK
  <1>2. ASSUME NEW n, Send(c, "update", n), Phase(c) = "seen", stage[c] # "update",
               UNCHANGED <<zone, job, view, late, result, applied>>
        PROVE  Service!Ask(c)
    <2>1. OnlyMoves(c) /\ Phase(c)' = "asked"
      BY <1>0, <1>1, <1>2 DEF Stage, Phase, ClientOK
    <2>2. Phases' = [Phases EXCEPT ![c] = "asked"]
      BY <2>1, PhaseMoves
    <2> QED
      BY <1>2, <2>2 DEF Service!Ask, Phases, zone
  <1>3. ASSUME NEW s \in Stage, NEW n, Send(c, s, n), s # "update",
               Phase(c) = (IF s = "zone2" THEN "seen" ELSE "look"),
               UNCHANGED <<zone, job, view, late, result, applied>>
        PROVE  UNCHANGED Service!vars
    <2>1. OnlyMoves(c) /\ Phase(c)' = Phase(c)
      BY <1>1, <1>3 DEF Phase, Stage
    <2>2. Phases' = Phases
      BY <2>1, PhaseStays
    <2> QED
      BY <1>3, <2>2 DEF Service!vars, Phases, zone
  <1>4. CASE ZoneFound(c)
    <2>1. CASE stage[c] = "zone"
      BY <1>3, <1>4, <2>1 DEF ZoneFound, Stage, Phase
    <2>2. CASE stage[c] = "zone2"
      BY <1>2, <1>4, <2>2 DEF ZoneFound, Phase, Service!Next
    <2> QED
      BY <1>4, <2>1, <2>2 DEF ZoneFound
  <1>5. CASE Differs(c)
    <2>1. Phase(c) = "seen"
      BY <1>5 DEF Differs, Phase
    <2>2. CASE kind = "cloudflare"
      BY <1>3, <1>5, <2>1, <2>2 DEF Differs, Stage
    <2>3. CASE kind # "cloudflare"
      BY <1>2, <1>5, <2>1, <2>3 DEF Differs, Service!Next
    <2> QED
      BY <2>2, <2>3
  <1>6. CASE Matches(c)
    <2>1. Phase(c) = "seen" /\ Service!End(c, "unchanged")
      BY <1>0, <1>6, EndMaps DEF Matches, Phase
    <2> QED
      BY <1>6, <2>1 DEF Matches, Service!Unchanged, Service!Next
  <1>7. CASE Updated(c)
    <2>1. Phase(c) = "applied" /\ Service!End(c, "pushed")
      BY <1>0, <1>7, EndMaps DEF Updated, Phase, ClientOK
    <2> QED
      BY <1>7, <2>1 DEF Updated, Service!Pushed, Service!Next
  <1>8. CASE GiveUp(c)
    <2>1. stage[c] # "idle"
      BY <1>0, <1>8 DEF GiveUp, ClientOK
    <2>2. Phase(c) # "idle" /\ Service!End(c, "failed")
      BY <1>0, <1>8, <2>1, EndMaps DEF GiveUp, Phase, TypeOK, Stage
    <2> QED
      BY <1>8, <2>2 DEF GiveUp, Service!Failed, Service!Abandon, Service!Next
  <1>9. CASE Retry(c)
    <2>1. stage[c] \in Stage /\ attempt[c] \in 1 .. MaxAttempts(stage[c])
      BY <1>0, <1>9 DEF Retry, ClientOK, TypeOK
    <2>2. stage[c] # "update"
      BY <1>9, <2>1 DEF Retry, MaxAttempts
    <2>3. Phase(c) = (IF stage[c] = "zone2" THEN "seen" ELSE "look")
      BY <1>9, <2>1, <2>2 DEF Retry, Phase, Stage
    <2> QED
      BY <1>3, <1>9, <2>1, <2>2, <2>3 DEF Retry
  <1> QED
    BY <1>4, <1>5, <1>6, <1>7, <1>8, <1>9 DEF Proceed

\* What a client leaves on its way when it stops waiting, in the abstract run.
LEMMA AbandonMaps ==
    ASSUME NEW c \in Client, ClientOK(c), Abandon(c)
    PROVE  Service!Abandon(c)
  BY RequestMaps DEF Abandon, Service!Abandon, Phase, ClientOK, Phases

\* A request ends: the abstract run looks, has its update applied or drops it,
\* forgets what it saw, or does nothing.
LEMMA AnswerRefines ==
    ASSUME ProviderInv, NEW c \in Client, Answer(c)
    PROVE  [Service!Next]_(Service!vars)
  <1>0. TypeOK /\ ClientOK(c)
    BY DEF ProviderInv, ClientsOK
  <1>1. ASSUME OnlyMoves(c), Phase(c)' = Phase(c), UNCHANGED <<zone, job, view, late, result>>
        PROVE  UNCHANGED Service!vars
    <2>1. Phases' = Phases
      BY <1>1, PhaseStays
    <2> QED
      BY <1>1, <2>1 DEF Service!vars, Phases, zone
  <1>2. CASE AnswerZone(c)
    <2>1. OnlyMoves(c) /\ Phase(c)' = Phase(c)
      BY <1>0, <1>2 DEF AnswerZone, Reply, OnlyMoves, Phase, TypeOK, history
    <2> QED
      BY <1>1, <1>2, <2>1 DEF AnswerZone
  <1>3. CASE AnswerList(c)
    <2>1. OnlyMoves(c) /\ Phase(c) = "look" /\ Phase(c)' = "seen"
      BY <1>0, <1>3 DEF AnswerList, Reply, OnlyMoves, Phase, TypeOK, history
    <2>2. Phases' = [Phases EXCEPT ![c] = "seen"]
      BY <2>1, PhaseMoves
    <2>3. Extract(Listed(job[c].rule), job[c].rule) = Service!Of(records, job[c].rule)
      BY <1>0, FiltersSelect DEF TypeOK, Of, Service!Of
    <2>4. \A x : RemoteRecord(x) \in {[id |-> i, addr |-> x.addr] : i \in {NoId, x.id}}
      BY DEF RemoteRecord
    <2>5. Service!Look(c)
      BY <1>3, <2>1, <2>2, <2>3, <2>4 DEF AnswerList, Service!Look, Phases, zone,
         NothingSeen, Service!NothingSeen
    <2> QED
      BY <2>5 DEF Service!Next
  <1>4. CASE AnswerUpdate(c)
    <2>1. OnlyMoves(c) /\ Phase(c) = "asked" /\ Phase(c)' = "applied"
      BY <1>0, <1>4 DEF AnswerUpdate, Reply, OnlyMoves, Phase, ClientOK, TypeOK
    <2>2. Phases' = [Phases EXCEPT ![c] = "applied"]
      BY <2>1, PhaseMoves
    <2>3. Service!Applies(Service!Request(c))
      BY <1>4, AppliesMaps, RequestMaps DEF AnswerUpdate
    <2>4. Service!Apply(c)
      BY <1>4, <2>1, <2>2, <2>3 DEF AnswerUpdate, Service!Apply, Phases
    <2> QED
      BY <2>4 DEF Service!Next
  <1>5. ASSUME NEW how \in {"retry", "fail"}, Reply(c, how), conn[c] \in {"sent", "ok"},
               UNCHANGED <<stage, attempt, sent, applied>>,
               \A d \in Client \ {c} : view'[d] = view[d]
        PROVE  /\ OnlyMoves(c)
               /\ conn'[c] = how
               /\ stage'[c] = stage[c] /\ applied'[c] = applied[c]
    BY <1>0, <1>5 DEF Reply, OnlyMoves, TypeOK
  <1>6. ASSUME NEW how \in {"retry", "fail"}, Reply(c, how), conn[c] = "sent",
               stage[c] = "update", Abandon(c),
               UNCHANGED <<zone, stage, attempt, job, view, result, history>>
        PROVE  Service!Next
    <2>1. OnlyMoves(c) /\ Phase(c) = "asked" /\ Phase(c)' = "dropped"
      BY <1>0, <1>5, <1>6 DEF Phase, ClientOK, history
    <2>2. Phases' = [Phases EXCEPT ![c] = "dropped"]
      BY <2>1, PhaseMoves
    <2>3. Service!Drop(c)
      BY <1>0, <1>6, <2>1, <2>2, AbandonMaps DEF Service!Drop, Phases, zone
    <2> QED
      BY <2>3 DEF Service!Next
  <1>7. CASE Refuse(c)
    <2>1. PICK how \in {"retry", "fail"} : Reply(c, how)
      BY <1>7 DEF Refuse
    <2>2. CASE stage[c] = "update"
      BY <1>6, <1>7, <2>1, <2>2 DEF Refuse, Abandon
    <2>3. CASE stage[c] # "update"
      <3>1. OnlyMoves(c) /\ Phase(c)' = Phase(c)
        BY <1>0, <1>5, <1>7, <2>1, <2>3 DEF Refuse, Phase, history, ClientOK
      <3> QED
        BY <1>1, <1>7, <3>1 DEF Refuse
    <2> QED
      BY <2>2, <2>3
  <1>8. CASE Lose(c)
    <2>1. PICK how \in {"retry", "fail"} : Reply(c, how)
      BY <1>8 DEF Lose
    <2>2. CASE stage[c] = "update" /\ conn[c] = "sent"
      BY <1>6, <1>8, <2>1, <2>2 DEF Lose
    <2>3. CASE stage[c] = "list" /\ conn[c] = "ok"
      <3>1. OnlyMoves(c) /\ Phase(c) = "seen" /\ Phase(c)' = "look"
        BY <1>0, <1>5, <1>8, <2>1, <2>3 DEF Lose, Phase, history, TypeOK
      <3>2. Phases' = [Phases EXCEPT ![c] = "look"]
        BY <3>1, PhaseMoves
      <3>3. Service!Forget(c)
        BY <1>8, <2>3, <3>1, <3>2 DEF Lose, Service!Forget, Phases, Abandon, zone,
           NothingSeen, Service!NothingSeen
      <3> QED
        BY <3>3 DEF Service!Next
    <2>4. CASE /\ ~(stage[c] = "update" /\ conn[c] = "sent")
               /\ ~(stage[c] = "list" /\ conn[c] = "ok")
      <3>1. view' = view
        BY <1>0, <1>8, <2>4 DEF Lose, ClientOK, TypeOK
      <3>2. OnlyMoves(c) /\ Phase(c)' = Phase(c)
        BY <1>0, <1>5, <1>8, <2>1, <2>4, <3>1 DEF Lose, Phase, history, ClientOK
      <3> QED
        BY <1>1, <1>8, <2>4, <3>1, <3>2 DEF Lose, Abandon
    <2> QED
      BY <2>2, <2>3, <2>4
  <1> QED
    BY <1>2, <1>3, <1>4, <1>7, <1>8 DEF Answer

\* Every step is a step of RecordService or changes nothing of it.
LEMMA NextRefines == ProviderInv /\ [Next]_vars => [Service!Next]_(Service!vars)
  <1> SUFFICES ASSUME ProviderInv, [Next]_vars
               PROVE  [Service!Next]_(Service!vars)
    OBVIOUS
  <1>0. TypeOK /\ \A c \in Client : ClientOK(c)
    BY DEF ProviderInv, ClientsOK
  <1>1. CASE UNCHANGED vars
    BY <1>1 DEF vars, zone, history, Service!vars, Phase
  <1>2. ASSUME NEW c \in Client, NEW r \in Rule, NEW a \in Addr, Begin(c, r, a)
        PROVE  Service!Next
    <2>1. OnlyMoves(c) /\ Phase(c) = "idle" /\ Phase(c)' = "look"
      BY <1>0, <1>2 DEF Begin, Send, OnlyMoves, Phase, TypeOK
    <2>2. Phases' = [Phases EXCEPT ![c] = "look"]
      BY <2>1, PhaseMoves
    <2>3. Service!Begin(c, r, a)
      BY <1>2, <2>1, <2>2 DEF Begin, Service!Begin, Phases, zone
    <2> QED
      BY <2>3 DEF Service!Next
  <1>3. ASSUME NEW c \in Client, Kill(c)
        PROVE  Service!Next
    <2>1. Phase(c) # "idle" /\ Service!End(c, "none")
      BY <1>0, <1>3, EndMaps DEF Kill, Phase, TypeOK, Stage
    <2>2. Service!Failed(c)
      BY <1>0, <1>3, <2>1, AbandonMaps DEF Kill, Service!Failed
    <2> QED
      BY <2>2 DEF Service!Next
  <1>4. ASSUME UNCHANGED <<stage, conn, applied>>
        PROVE  Phases' = Phases
    BY <1>4 DEF Phases, Phase
  <1>5. ASSUME NEW c \in Client, Arrive(c)
        PROVE  Service!Next
    <2>1. Service!Applies(late[c])
      BY <1>5, AppliesMaps DEF Arrive
    <2>2. Service!Arrive(c)
      BY <1>4, <1>5, <2>1 DEF Arrive, Service!Arrive, Phases, history
    <2> QED
      BY <2>2 DEF Service!Next
  <1>6. ASSUME NEW c \in Client, Vanish(c)
        PROVE  Service!Next
    <2>1. Service!Vanish(c)
      BY <1>4, <1>6 DEF Vanish, Service!Vanish, Phases, history, zone
    <2> QED
      BY <2>1 DEF Service!Next
  <1>7. CASE Elsewhere
    <2>1. Service!Elsewhere
      BY <1>4, <1>7 DEF Elsewhere, Service!Elsewhere, Phases, history, Add, Service!Add,
         Put, Service!Put
    <2> QED
      BY <2>1 DEF Service!Next
  <1> QED
    BY <1>1, <1>2, <1>3, <1>5, <1>6, <1>7, ProceedRefines, AnswerRefines DEF Next

\* A run with its zones, attempts, late and lost requests is one look at a
\* record of its rule and at most one update (fetch_record and update_record of
\* every provider).
THEOREM RunsImplementRecordService == SafeSpec => ImplementsRecordService
  <1>1. ProviderInv /\ [Next]_vars => [Service!Next]_(Service!vars)
    BY NextRefines
  <1> QED
    BY <1>1, InitRefines, Invariant, PTL DEF SafeSpec, ImplementsRecordService, Service!Spec

-----------------------------------------------------------------------------
(* The number of records of a rule *)

\* The clients whose lookup saw no record of r and whose update may still reach
\* the provider.  A custom_http service creates no second record.
Creating(r) ==
    {c \in Client : /\ kind # "custom_http"
                    /\ job[c].rule = r
                    /\ view[c].id = NoId
                    /\ \/ stage[c] = "list" /\ conn[c] = "ok"
                       \/ stage[c] = "zone2"
                       \/ stage[c] = "update" /\ conn[c] = "sent"}

\* There is room for the records that are still to be created.
Room(r) == Cardinality(Own(r)) + Cardinality(Creating(r)) <= Cardinality(Client) + extra[r]

RoomOK == IsFiniteSet(records) /\ \A r \in Rule : Room(r)

LEMMA CreatingFinite ==
    ASSUME NEW r
    PROVE  /\ IsFiniteSet(Creating(r))
           /\ Cardinality(Creating(r)) \in Nat
           /\ Cardinality(Creating(r)) <= Cardinality(Client)
  <1>1. Creating(r) \in SUBSET Client
    BY DEF Creating
  <1> QED
    BY <1>1, ProviderAssumption, FS_Subset, FS_CardinalityType

LEMMA CreatingFiniteNext ==
    ASSUME NEW r
    PROVE  /\ IsFiniteSet(Creating(r)')
           /\ Cardinality(Creating(r)') \in Nat
           /\ Cardinality(Creating(r)') <= Cardinality(Client)
  <1>1. Creating(r)' \in SUBSET Client
    BY DEF Creating
  <1> QED
    BY <1>1, ProviderAssumption, FS_Subset, FS_CardinalityType

LEMMA ClientsCount == Cardinality(Client) \in Nat /\ Cardinality(Client) >= 1
  <1>1. IsFiniteSet(Client) /\ Client # {}
    BY ProviderAssumption
  <1>2. Cardinality(Client) \in Nat /\ Cardinality(Client) # 0
    BY <1>1, FS_CardinalityType, FS_EmptySet
  <1> QED
    BY <1>2

LEMMA OwnFinite ==
    ASSUME IsFiniteSet(records), NEW r
    PROVE  IsFiniteSet(Own(r)) /\ Cardinality(Own(r)) \in Nat
  <1>1. Own(r) \in SUBSET records
    BY DEF Own, Of
  <1> QED
    BY <1>1, FS_Subset, FS_CardinalityType

LEMMA OwnFiniteNext ==
    ASSUME IsFiniteSet(records'), NEW r
    PROVE  IsFiniteSet(Own(r)') /\ Cardinality(Own(r)') \in Nat
  <1>1. Own(r)' \in SUBSET records'
    BY DEF Own, Of
  <1> QED
    BY <1>1, FS_Subset, FS_CardinalityType

\* A step that leaves the records alone leaves those of a rule alone.
LEMMA OwnKept ==
    ASSUME UNCHANGED zone, NEW r
    PROVE  Own(r)' = Own(r)
  BY DEF zone, Own, Of

\* The ways in which a step keeps room for r.
LEMMA RoomStep ==
    ASSUME NEW r \in Rule, TypeOK, TypeOK', RoomOK, IsFiniteSet(records'),
           \/ /\ Creating(r)' \subseteq Creating(r)
              /\ Cardinality(Own(r)') + extra[r] <= Cardinality(Own(r)) + extra'[r]
           \/ /\ \E c \in Creating(r) : Creating(r)' \subseteq Creating(r) \ {c}
              /\ Cardinality(Own(r)') <= Cardinality(Own(r)) + 1
              /\ extra'[r] = extra[r]
           \/ Own(r)' = {}
           \/ Cardinality(Own(r)') <= 1 /\ Creating(r)' = {}
    PROVE  Room(r)'
  <1> DEFINE n == Cardinality(Own(r))
             m == Cardinality(Own(r)')
             k == Cardinality(Creating(r))
             j == Cardinality(Creating(r)')
             cl == Cardinality(Client)
  <1>1. n \in Nat /\ m \in Nat /\ k \in Nat /\ j \in Nat /\ cl \in Nat /\ cl >= 1
        /\ j <= cl /\ extra[r] \in Nat /\ extra'[r] \in Nat
    BY OwnFinite, OwnFiniteNext, CreatingFinite, CreatingFiniteNext, ClientsCount DEF RoomOK, TypeOK
  <1>2. n + k <= cl + extra[r]
    BY DEF RoomOK, Room
  <1>3. SUFFICES m + j <= cl + extra'[r]
    BY DEF Room
  <1>4. CASE /\ Creating(r)' \subseteq Creating(r)
             /\ m + extra[r] <= n + extra'[r]
    <2>1. j <= k
      BY <1>4, CreatingFinite, FS_Subset
    <2> QED
      BY <1>1, <1>2, <1>4, <2>1
  <1>5. CASE /\ \E c \in Creating(r) : Creating(r)' \subseteq Creating(r) \ {c}
             /\ m <= n + 1
             /\ extra'[r] = extra[r]
    <2>1. PICK c \in Creating(r) : Creating(r)' \subseteq Creating(r) \ {c}
      BY <1>5
    <2>2. IsFiniteSet(Creating(r) \ {c}) /\ Cardinality(Creating(r) \ {c}) = k - 1
      BY CreatingFinite, FS_RemoveElement
    <2>3. j <= k - 1
      BY <2>1, <2>2, FS_Subset
    <2> QED
      BY <1>1, <1>2, <1>5, <2>3
  <1>6. CASE Own(r)' = {}
    <2>1. m = 0
      BY <1>6, FS_EmptySet
    <2> QED
      BY <1>1, <2>1
  <1>7. CASE m <= 1 /\ Creating(r)' = {}
    <2>1. j = 0
      BY <1>7, FS_EmptySet
    <2> QED
      BY <1>1, <1>7, <2>1
  <1> QED
    BY <1>4, <1>5, <1>6, <1>7

\* Only the creation of a record makes the records of a rule more.
LEMMA AppliedRoom ==
    ASSUME TypeOK, IdsOK, IsFiniteSet(records), NEW u \in Update, OwnId(u),
           Rewrite(u) \/ Create(u) \/ Upsert(u), edited' = edited
    PROVE  /\ IsFiniteSet(records')
           /\ \A r \in Rule : r # u.rule => Own(r)' = Own(r)
           /\ \A r \in Rule : r = u.rule =>
                /\ Cardinality(Own(r)') <= Cardinality(Own(r)) + 1
                /\ Rewrite(u) \/ Upsert(u) => Cardinality(Own(r)') <= Cardinality(Own(r))
  <1>1. ASSUME NEW r \in Rule, r # u.rule PROVE Own(r)' = Own(r)
    <2>1. Spared(r)
      BY <1>1, RewriteIds
    <2> QED
      BY <2>1 DEF Spared, Own
  <1>2. u.rule \in Rule
    BY DEF Update
  <1> DEFINE own == Own(u.rule)
  <1>3. IsFiniteSet(own) /\ Cardinality(own) \in Nat
    BY OwnFinite
  <1>4. ASSUME Create(u)
        PROVE  /\ IsFiniteSet(records')
               /\ Cardinality(Own(u.rule)') <= Cardinality(Own(u.rule)) + 1
    <2> DEFINE new == [id |-> nextId, rule |-> u.rule, addr |-> u.addr]
    <2>1. records' = records \cup {new}
      BY <1>4 DEF Create, Add
    <2>2. nextId \notin edited
      BY DEF IdsOK, TypeOK
    <2>3. Own(u.rule)' = own \cup {new}
      BY <2>1, <2>2 DEF Own, Of
    <2>4. IsFiniteSet(records')
      BY <2>1, FS_AddElement
    <2> HIDE DEF own, new
    <2>5. Cardinality(own \cup {new}) <= Cardinality(own) + 1
      <3>1. Cardinality(own \cup {new}) =
              IF new \in own THEN Cardinality(own) ELSE Cardinality(own) + 1
        BY <1>3, FS_AddElement
      <3> QED
        BY <1>3, <3>1
    <2>6. Cardinality(Own(u.rule)') <= Cardinality(Own(u.rule)) + 1
      BY <2>3, <2>5 DEF own
    <2> QED
      BY <2>4, <2>6
  <1>5. ASSUME NEW z \in records, z.rule = u.rule \/ z.id \in edited,
               records' = Put(records, z.id, u.rule, u.addr)
        PROVE  /\ IsFiniteSet(records')
               /\ Cardinality(Own(u.rule)') \in Nat
               /\ Cardinality(Own(u.rule)') <= Cardinality(own)
    <2> DEFINE new == [id |-> z.id, rule |-> u.rule, addr |-> u.addr]
    <2>1. {x \in records : x.id # z.id} = records \ {z}
      BY DEF IdsOK
    <2>2. records' = (records \ {z}) \cup {new}
      BY <1>5, <2>1 DEF Put
    <2>3. IsFiniteSet(records \ {z})
      BY FS_RemoveElement
    <2>4. IsFiniteSet(records')
      BY <2>2, <2>3, FS_AddElement
    <2>5. Cardinality(Own(u.rule)') \in Nat
      BY <2>4, OwnFiniteNext
    <2>6. CASE z.id \in edited
      <3>1. Own(u.rule)' = own
        BY <2>2, <2>6 DEF Own, Of
      <3> QED
        BY <1>3, <2>4, <2>5, <3>1
    <2>7. CASE z.id \notin edited
      <3>1. Own(u.rule)' = (own \ {z}) \cup {new}
        BY <2>2, <2>7 DEF Own, Of
      <3>2. z \in own
        BY <1>5, <2>7 DEF Own, Of
      <3> DEFINE rest == own \ {z}
      <3>3. IsFiniteSet(rest) /\ Cardinality(rest) = Cardinality(own) - 1
        BY <1>3, <3>2, FS_RemoveElement
      <3> HIDE DEF own, new, rest
      <3>4. Cardinality(rest \cup {new}) =
              IF new \in rest THEN Cardinality(rest) ELSE Cardinality(rest) + 1
        BY <3>3, FS_AddElement
      <3>5. Cardinality(rest \cup {new}) <= Cardinality(own)
        BY <1>3, <3>3, <3>4
      <3>6. Cardinality(Own(u.rule)') <= Cardinality(own)
        BY <3>1, <3>5 DEF rest
      <3> QED
        BY <2>4, <2>5, <3>6
    <2> QED
      BY <2>6, <2>7
  <1>6. ASSUME Rewrite(u) \/ Upsert(u)
        PROVE  \E z \in records : /\ z.rule = u.rule \/ z.id \in edited
                                  /\ records' = Put(records, z.id, u.rule, u.addr)
    <2>1. CASE Rewrite(u)
      <3>1. PICK z \in records : z.id = u.id
        BY <2>1 DEF Rewrite, Exists
      <3>2. z.rule = u.rule \/ z.id \in edited
        BY <3>1 DEF OwnId
      <3> QED
        BY <2>1, <3>1, <3>2 DEF Rewrite
    <2>2. CASE Upsert(u)
      BY <2>2 DEF Upsert, Of
    <2> QED
      BY <1>6, <2>1, <2>2
  <1>7. ASSUME Rewrite(u) \/ Upsert(u)
        PROVE  /\ IsFiniteSet(records')
               /\ Cardinality(Own(u.rule)') \in Nat
               /\ Cardinality(Own(u.rule)') <= Cardinality(own)
    BY <1>5, <1>6, <1>7
  <1>8. Cardinality(Own(u.rule)') <= Cardinality(Own(u.rule)) + 1
    BY <1>3, <1>4, <1>7
  <1>9. Rewrite(u) \/ Upsert(u) => Cardinality(Own(u.rule)') <= Cardinality(Own(u.rule))
    BY <1>7
  <1> QED
    BY <1>1, <1>4, <1>7, <1>8, <1>9

\* c is about to create a record of its rule.
Creates(c) == c \in Creating(job[c].rule)

\* Steps of c that make no client a creator, or keep it one.
LEMMA CreatingShrinks ==
    ASSUME NEW c \in Client, UNCHANGED kind, OnlyMoves(c),
           \A d \in Client \ {c} : job'[d] = job[d],
           Creates(c)' => Creates(c) /\ job'[c] = job[c],
           NEW r \in Rule
    PROVE  Creating(r)' \subseteq Creating(r)
  BY DEF Creating, Creates, OnlyMoves

\* A step that leaves the records alone and makes no client a creator.
LEMMA RoomKept ==
    ASSUME TypeOK, TypeOK', RoomOK, UNCHANGED zone,
           \A r \in Rule : Creating(r)' \subseteq Creating(r)
    PROVE  RoomOK'
  <1>1. IsFiniteSet(records')
    BY DEF RoomOK, zone
  <1>2. ASSUME NEW r \in Rule PROVE Room(r)'
    <2>1. Cardinality(Own(r)') + extra[r] <= Cardinality(Own(r)) + extra'[r]
      BY OwnFinite, OwnKept DEF TypeOK, RoomOK, zone
    <2> QED
      BY <1>1, <2>1, RoomStep
  <1> QED
    BY <1>1, <1>2 DEF RoomOK

LEMMA ProceedRoom ==
    ASSUME TypeOK, TypeOK', ClientsOK, RoomOK, NEW c \in Client,
           Proceed(c) \/ Kill(c) \/ \E r \in Rule, a \in Addr : Begin(c, r, a)
    PROVE  RoomOK'
  <1>1. OnlyMoves(c) /\ UNCHANGED <<kind, zone>> /\ \A d \in Client \ {c} : job'[d] = job[d]
    BY DEF Proceed, ZoneFound, Matches, Differs, Updated, Retry, GiveUp, Kill, Begin, Send, End,
       OnlyMoves, TypeOK
  <1>2. Creates(c)' => Creates(c) /\ job'[c] = job[c]
    <2>1. ASSUME NEW answer, End(c, answer) PROVE ~Creates(c)'
      BY <2>1 DEF End, Creates, Creating, TypeOK
    <2>2. ASSUME NEW s \in {"zone", "list"}, NEW n, Send(c, s, n) PROVE ~Creates(c)'
      BY <2>2 DEF Send, Creates, Creating, TypeOK
    <2>3. ASSUME NEW s \in {"zone2", "update"}, NEW n, Send(c, s, n),
                 UNCHANGED <<kind, job, view>>,
                 stage[c] = "zone2" \/ (stage[c] = "list" /\ conn[c] = "ok")
          PROVE  Creates(c)' => Creates(c) /\ job'[c] = job[c]
      BY <2>3 DEF Creates, Creating
    <2>4. CASE Kill(c) \/ Matches(c) \/ Updated(c) \/ GiveUp(c)
      BY <2>1, <2>4 DEF Kill, Matches, Updated, GiveUp
    <2>5. CASE \E r \in Rule, a \in Addr : Begin(c, r, a)
      BY <2>2, <2>5 DEF Begin
    <2>6. CASE ZoneFound(c)
      BY <2>2, <2>3, <2>6 DEF ZoneFound
    <2>7. CASE Differs(c)
      BY <2>3, <2>7 DEF Differs
    <2>8. CASE Retry(c)
      <3>1. stage[c] \in Stage /\ attempt[c] \in 1 .. MaxAttempts(stage[c])
        BY <2>8 DEF Retry, ClientsOK, ClientOK, TypeOK
      <3>2. stage[c] # "update"
        BY <2>8, <3>1 DEF Retry, MaxAttempts
      <3> QED
        BY <2>2, <2>3, <2>8, <3>1, <3>2 DEF Retry, Stage
    <2> QED
      BY <2>4, <2>5, <2>6, <2>7, <2>8 DEF Proceed
  <1> QED
    BY <1>1, <1>2, CreatingShrinks, RoomKept

LEMMA AnswerRoom ==
    ASSUME TypeOK, TypeOK', ClientsOK, IdsOK, RoomOK, NEW c \in Client, Answer(c)
    PROVE  RoomOK'
  <1>1. OnlyMoves(c) /\ UNCHANGED <<kind, job>>
    BY DEF Answer, AnswerZone, AnswerList, AnswerUpdate, Refuse, Lose, Reply, OnlyMoves, TypeOK,
       history
  <1>2. CASE AnswerZone(c) \/ Refuse(c) \/ Lose(c)
    <2>1. Creates(c)' => Creates(c)
      BY <1>1, <1>2 DEF AnswerZone, Refuse, Lose, Reply, Creates, Creating, TypeOK
    <2> QED
      BY <1>1, <1>2, <2>1, CreatingShrinks, RoomKept DEF AnswerZone, Refuse, Lose
  <1>3. CASE AnswerList(c)
    <2> DEFINE rule == job[c].rule
    <2>1. rule \in Rule
      BY DEF TypeOK
    <2>2. IsFiniteSet(records') /\ UNCHANGED zone
      BY <1>3 DEF AnswerList, RoomOK, zone
    <2>3. ASSUME NEW r \in Rule, r # rule PROVE Creating(r)' \subseteq Creating(r)
      BY <1>1, <2>3 DEF Creating, OnlyMoves
    <2>4. CASE Of(records, rule) = {}
      <3>1. ASSUME NEW r \in Rule PROVE Room(r)'
        <4>1. CASE r = rule
          <5>1. Own(r)' = {}
            BY <2>2, <2>4, <4>1, OwnKept DEF Own
          <5> QED
            BY <2>2, <5>1, RoomStep
        <4>2. CASE r # rule
          <5>1. Cardinality(Own(r)') + extra[r] <= Cardinality(Own(r)) + extra'[r]
            BY <2>2, OwnFinite, OwnKept DEF TypeOK, RoomOK, zone
          <5> QED
            BY <2>2, <2>3, <4>2, <5>1, RoomStep
        <4> QED
          BY <4>1, <4>2
      <3> QED
        BY <2>2, <3>1 DEF RoomOK
    <2>5. CASE Of(records, rule) # {}
      <3>1. PICK x \in Of(records, rule) : view' = [view EXCEPT ![c] = RemoteRecord(x)]
        BY <1>3, <2>1, <2>5, FiltersSelect DEF AnswerList
      <3>2. x.id # NoId
        BY <3>1 DEF Of, TypeOK, Record
      <3>3. ~Creates(c)'
        BY <1>1, <3>1, <3>2 DEF Creates, Creating, RemoteRecord, TypeOK
      <3> QED
        BY <1>1, <2>2, <3>3, CreatingShrinks, RoomKept
    <2> QED
      BY <2>4, <2>5
  <1>4. CASE AnswerUpdate(c)
    <2> DEFINE u == Request(c)
    <2>1. u \in Update /\ OwnId(u) /\ u.rule = job[c].rule /\ u.id = view[c].id
      BY RequestType DEF IdsOK, Request
    <2>2. Rewrite(u) \/ Create(u) \/ Upsert(u)
      BY <1>4 DEF AnswerUpdate
    <2> HIDE DEF u
    <2>3. /\ IsFiniteSet(records')
          /\ \A r \in Rule : r # u.rule => Own(r)' = Own(r)
          /\ \A r \in Rule : r = u.rule =>
               /\ Cardinality(Own(r)') <= Cardinality(Own(r)) + 1
               /\ Rewrite(u) \/ Upsert(u) => Cardinality(Own(r)') <= Cardinality(Own(r))
      BY <1>4, <2>1, <2>2, AppliedRoom DEF RoomOK, AnswerUpdate
    <2>4. ~Creates(c)' /\ extra' = extra
      BY <1>4 DEF AnswerUpdate, Reply, Creates, Creating, TypeOK
    <2>5. \A r \in Rule : Creating(r)' \subseteq Creating(r) \ {c}
      BY <1>1, <2>4 DEF Creating, Creates, OnlyMoves
    <2>6. ASSUME NEW r \in Rule PROVE Room(r)'
      <3>1. /\ Cardinality(Own(r)) \in Nat
            /\ Cardinality(Own(r)') \in Nat
            /\ extra[r] \in Nat
        BY <2>3, OwnFinite, OwnFiniteNext DEF RoomOK, TypeOK
      <3>2. CASE r # u.rule \/ ~Create(u)
        <4>1. Cardinality(Own(r)') + extra[r] <= Cardinality(Own(r)) + extra'[r]
          BY <2>2, <2>3, <2>4, <3>1, <3>2
        <4> QED
          BY <2>3, <2>5, <4>1, RoomStep
      <3>3. CASE r = u.rule /\ Create(u) /\ kind # "custom_http"
        <4>1. c \in Creating(r)
          BY <1>4, <2>1, <3>3 DEF Creating, Create, AnswerUpdate
        <4> QED
          BY <2>3, <2>4, <2>5, <3>3, <4>1, RoomStep
      <3>4. CASE r = u.rule /\ Create(u) /\ kind = "custom_http"
        <4>1. Creating(r)' = {} /\ Own(r) = {}
          BY <1>1, <3>4 DEF Creating, Create, Own
        <4>2. Cardinality(Own(r)') <= 1
          BY <2>3, <3>1, <3>4, <4>1, FS_EmptySet
        <4> QED
          BY <2>3, <4>1, <4>2, RoomStep
      <3> QED
        BY <3>2, <3>3, <3>4
    <2> QED
      BY <2>3, <2>6 DEF RoomOK
  <1> QED
    BY <1>2, <1>3, <1>4 DEF Answer

\* Late updates and others: what they add is counted by extra.
LEMMA OutsideRoom ==
    ASSUME TypeOK, TypeOK', IdsOK, RoomOK,
           Elsewhere \/ \E c \in Client : Arrive(c) \/ Vanish(c)
    PROVE  RoomOK'
  <1>1. \A r \in Rule : Creating(r)' = Creating(r)
    BY DEF Elsewhere, Arrive, Vanish, history, Creating
  <1>2. ASSUME NEW c \in Client, Vanish(c) PROVE RoomOK'
    BY <1>1, <1>2, RoomKept DEF Vanish
  <1>3. ASSUME IsFiniteSet(records'),
               \A r \in Rule : Cardinality(Own(r)') + extra[r]
                                  <= Cardinality(Own(r)) + extra'[r]
        PROVE  RoomOK'
    BY <1>1, <1>3, RoomStep DEF RoomOK
  <1>4. ASSUME NEW c \in Client, Arrive(c) PROVE RoomOK'
    <2>1. late[c] \in Update /\ OwnId(late[c]) /\ late[c].rule \in Rule
      BY <1>4 DEF Arrive, IdsOK, TypeOK, Update
    <2>2. /\ IsFiniteSet(records')
          /\ \A r \in Rule : r # late[c].rule => Own(r)' = Own(r)
          /\ \A r \in Rule : r = late[c].rule =>
               /\ Cardinality(Own(r)') <= Cardinality(Own(r)) + 1
               /\ Rewrite(late[c]) \/ Upsert(late[c]) => Cardinality(Own(r)') <= Cardinality(Own(r))
      BY <1>4, <2>1, AppliedRoom DEF Arrive, RoomOK
    <2>3. ASSUME NEW r \in Rule
          PROVE  Cardinality(Own(r)') + extra[r] <= Cardinality(Own(r)) + extra'[r]
      <3>1. /\ Cardinality(Own(r)) \in Nat
            /\ Cardinality(Own(r)') \in Nat
            /\ extra[r] \in Nat
        BY <2>2, OwnFinite, OwnFiniteNext DEF RoomOK, TypeOK
      <3>2. CASE UNCHANGED extra /\ (Rewrite(late[c]) \/ Upsert(late[c]))
        <4>1. r = late[c].rule => Cardinality(Own(r)') <= Cardinality(Own(r))
          BY <2>2, <3>2
        <4> QED
          BY <2>2, <3>1, <3>2, <4>1
      <3>3. CASE extra' = [extra EXCEPT ![late[c].rule] = @ + 1]
        <4>1. extra'[r] = IF r = late[c].rule THEN extra[r] + 1 ELSE extra[r]
          BY <3>3 DEF TypeOK
        <4> QED
          BY <2>2, <3>1, <4>1
      <3> QED
        BY <1>4, <3>2, <3>3 DEF Arrive
    <2> QED
      BY <1>3, <2>2, <2>3
  <1>5. CASE Elsewhere
    <2>1. CASE UNCHANGED <<extra, edited>> /\ \E x \in records : records' = records \ {x}
      <3>1. records' \in SUBSET records
        BY <2>1
      <3>2. IsFiniteSet(records')
        BY <3>1, FS_Subset DEF RoomOK
      <3>3. ASSUME NEW r \in Rule
            PROVE  Cardinality(Own(r)') + extra[r] <= Cardinality(Own(r)) + extra'[r]
        <4>1. Own(r)' \in SUBSET Own(r)
          BY <2>1, <3>1 DEF Own, Of
        <4>2. IsFiniteSet(Own(r)) /\ Cardinality(Own(r)) \in Nat
              /\ Cardinality(Own(r)') \in Nat /\ extra[r] \in Nat
          BY <3>2, OwnFinite, OwnFiniteNext DEF RoomOK, TypeOK
        <4>3. Cardinality(Own(r)') <= Cardinality(Own(r))
          BY <4>1, <4>2, FS_Subset
        <4> QED
          BY <2>1, <4>2, <4>3
      <3> QED
        BY <1>3, <3>2, <3>3
    <2>2. CASE \E r \in Rule, a \in Addr :
                  /\ records' = Add(records, nextId, r, a)
                  /\ extra' = [extra EXCEPT ![r] = @ + 1]
                  /\ edited' = edited
      <3>1. PICK q \in Rule, a \in Addr :
                  /\ records' = Add(records, nextId, q, a)
                  /\ extra' = [extra EXCEPT ![q] = @ + 1]
                  /\ edited' = edited
        BY <2>2
      <3> DEFINE new == [id |-> nextId, rule |-> q, addr |-> a]
      <3>2. records' = records \cup {new} /\ new.rule = q
        BY <3>1 DEF Add
      <3>0. new.id \notin edited
        BY DEF IdsOK, TypeOK
      <3> HIDE DEF new
      <3>3. IsFiniteSet(records')
        BY <3>2, FS_AddElement DEF RoomOK
      <3>4. ASSUME NEW r \in Rule
            PROVE  Cardinality(Own(r)') + extra[r] <= Cardinality(Own(r)) + extra'[r]
        <4> DEFINE own == Own(r)
        <4>1. Own(r)' = IF r = q THEN own \cup {new} ELSE own
          BY <3>0, <3>1, <3>2 DEF Own, Of
        <4>2. IsFiniteSet(own) /\ Cardinality(own) \in Nat /\ extra[r] \in Nat
          BY OwnFinite, OwnFiniteNext DEF RoomOK, TypeOK
        <4>3. extra'[r] = IF r = q THEN extra[r] + 1 ELSE extra[r]
          BY <3>1 DEF TypeOK
        <4> HIDE DEF own
        <4>4. Cardinality(own \cup {new}) =
                IF new \in own THEN Cardinality(own) ELSE Cardinality(own) + 1
          BY <4>2, FS_AddElement
        <4>5. Cardinality(Own(r)') + extra[r] <= Cardinality(own) + extra'[r]
          BY <4>1, <4>2, <4>3, <4>4
        <4> QED
          BY <4>5 DEF own
      <3> QED
        BY <1>3, <3>3, <3>4
    <2>3. CASE /\ \E x \in records, r \in Rule, a \in Addr :
                     /\ records' = Put(records, x.id, r, a)
                     /\ edited' = IF r = x.rule THEN edited ELSE edited \cup {x.id}
               /\ UNCHANGED extra
      <3>1. PICK z \in records, q \in Rule, a \in Addr :
                     /\ records' = Put(records, z.id, q, a)
                     /\ edited' = IF q = z.rule THEN edited ELSE edited \cup {z.id}
        BY <2>3
      <3> DEFINE new == [id |-> z.id, rule |-> q, addr |-> a]
      <3>2. {x \in records : x.id # z.id} = records \ {z}
        BY DEF IdsOK
      <3>3. records' = (records \ {z}) \cup {new} /\ new.rule = q /\ new.id = z.id
        BY <3>1, <3>2 DEF Put
      <3> HIDE DEF new
      <3>4. IsFiniteSet(records \ {z})
        BY FS_RemoveElement DEF RoomOK
      <3>5. IsFiniteSet(records')
        BY <3>3, <3>4, FS_AddElement
      <3>6. ASSUME NEW r \in Rule
            PROVE  Cardinality(Own(r)') + extra[r] <= Cardinality(Own(r)) + extra'[r]
        <4> DEFINE own == Own(r)
        <4>1. IsFiniteSet(own) /\ Cardinality(own) \in Nat /\ extra[r] \in Nat
          BY OwnFinite DEF RoomOK, TypeOK
        <4>2. CASE q = z.rule /\ r = q /\ z.id \notin edited
          <5>1. z \in own /\ Own(r)' = (own \ {z}) \cup {new}
            BY <3>1, <3>3, <4>2 DEF Own, Of
          <5> DEFINE rest == own \ {z}
          <5>2. IsFiniteSet(rest) /\ Cardinality(rest) = Cardinality(own) - 1
            BY <4>1, <5>1, FS_RemoveElement
          <5> HIDE DEF own, rest
          <5>3. Cardinality(rest \cup {new}) =
                  IF new \in rest THEN Cardinality(rest) ELSE Cardinality(rest) + 1
            BY <5>2, FS_AddElement
          <5>4. Cardinality(rest \cup {new}) <= Cardinality(own)
            BY <4>1, <5>2, <5>3
          <5>5. Cardinality(Own(r)') <= Cardinality(own) /\ Cardinality(Own(r)') \in Nat
            BY <3>5, <5>1, <5>4, OwnFiniteNext DEF rest
          <5>6. Cardinality(Own(r)') + extra[r] <= Cardinality(own) + extra[r]
            BY <4>1, <5>5
          <5> QED
            BY <2>3, <5>6 DEF own
        <4>3. CASE ~(q = z.rule /\ r = q /\ z.id \notin edited)
          <5>1. Own(r)' \in SUBSET own
            BY <3>1, <3>3, <4>3 DEF Own, Of
          <5>2. Cardinality(Own(r)') <= Cardinality(own) /\ Cardinality(Own(r)') \in Nat
            BY <3>5, <4>1, <5>1, FS_Subset, OwnFiniteNext
          <5> HIDE DEF own
          <5>3. Cardinality(Own(r)') + extra[r] <= Cardinality(own) + extra[r]
            BY <4>1, <5>2
          <5> QED
            BY <2>3, <5>3 DEF own
        <4> QED
          BY <4>2, <4>3
      <3> QED
        BY <1>3, <3>5, <3>6
    <2> QED
      BY <1>5, <2>1, <2>2, <2>3 DEF Elsewhere
  <1> QED
    BY <1>2, <1>4, <1>5

LEMMA StepRoom ==
    TypeOK /\ TypeOK' /\ ClientsOK /\ IdsOK /\ RoomOK /\ [Next]_vars => RoomOK'
  <1> SUFFICES ASSUME TypeOK, TypeOK', ClientsOK, IdsOK, RoomOK, [Next]_vars
               PROVE  RoomOK'
    OBVIOUS
  <1>1. CASE UNCHANGED vars
    BY <1>1, RoomKept DEF vars, zone, Creating
  <1> QED
    BY <1>1, ProceedRoom, AnswerRoom, OutsideRoom DEF Next

LEMMA InitRoom == Init => RoomOK
  <1> SUFFICES ASSUME Init PROVE RoomOK
    OBVIOUS
  <1>1. records = {} \/ \E x : records = {x}
    <2>1. records = {} \/ \E r \in Rule, a \in Addr :
                             records = {[id |-> 1, rule |-> r, addr |-> a]}
      BY DEF Init
    <2>2. ASSUME NEW r \in Rule, NEW a \in Addr, records = {[id |-> 1, rule |-> r, addr |-> a]}
          PROVE  \E x : records = {x}
      BY <2>2
    <2> QED
      BY <2>1, <2>2
  <1>2. IsFiniteSet(records) /\ Cardinality(records) \in {0, 1}
    BY <1>1, FS_EmptySet, FS_Singleton
  <1>3. ASSUME NEW r \in Rule PROVE Room(r)
    <2>1. Own(r) \in SUBSET records
      BY DEF Own, Of
    <2>2. Cardinality(Own(r)) \in Nat /\ Cardinality(Own(r)) <= 1
      BY <1>2, <2>1, FS_Subset, OwnFinite, OwnFiniteNext
    <2>3. Creating(r) = {} /\ extra[r] = 0
      BY DEF Init, Creating
    <2>4. Cardinality(Creating(r)) = 0
      BY <2>3, FS_EmptySet
    <2> QED
      BY <2>2, <2>3, <2>4, ClientsCount DEF Room
  <1> QED
    BY <1>2, <1>3 DEF RoomOK

\* A rule has no more records of its own than clients, late arrivals and others
\* account for, however many answers are lost and runs repeated (the choice between PUT
\* and POST by record_id, and no retry of an update).
THEOREM FewDuplicates == SafeSpec => []DuplicatesBounded
  <1>1. Init => RoomOK
    BY InitRoom
  <1>2. ProviderInv /\ ProviderInv' /\ RoomOK /\ [Next]_vars => RoomOK'
    BY StepRoom DEF ProviderInv
  <1>3. ProviderInv /\ RoomOK => DuplicatesBounded
    <2> SUFFICES ASSUME ProviderInv, RoomOK, NEW r \in Rule
                 PROVE  Cardinality(Own(r)) <= Cardinality(Client) + extra[r]
      BY DEF DuplicatesBounded
    <2>1. Cardinality(Own(r)) \in Nat /\ extra[r] \in Nat
      BY OwnFinite, OwnFiniteNext DEF RoomOK, ProviderInv, TypeOK
    <2> QED
      BY <2>1, CreatingFinite, ClientsCount DEF RoomOK, Room
  <1> QED
    BY <1>1, <1>2, <1>3, Invariant, PTL DEF SafeSpec
=============================================================================
