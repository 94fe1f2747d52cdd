-------------------------------- MODULE Provider --------------------------------
(***************************************************************************)
(* One run of a rule against its provider, request by request: the lookups  *)
(* of zone and record with their retries, the decision of run_rule, and the *)
(* update, which has one attempt.  Each request can be answered, refused,   *)
(* or lost before or after the provider has acted on it; a request that was *)
(* given up after its timeout may still arrive.  Several processes run      *)
(* rules in the same zone, and others change the zone too.                  *)
(*                                                                         *)
(* The four providers differ in the requests they need and in what they     *)
(* filter themselves; `kind' is chosen at the start.  A request that        *)
(* belongs to no attempt any more matters only if it is an update.          *)
(* A custom_http provider has a lookup_url: without one its lookups go to   *)
(* the URL of the update, and what they do there is the user's business.    *)
(***************************************************************************)
EXTENDS DnsRecords, FiniteSets

CONSTANTS
    Client,      \* processes that run rules
    Kinds,       \* kinds of provider: a subset of AllKinds
    RetryCount,  \* retry_count of the rules
    NoUpdate,    \* no update is on its way
    MaxEvents    \* bound on what comes from outside the runs: changes made to
                 \* the zone by others, and updates that outlive their run

AllKinds == {"cloudflare", "dnspod", "aliyun", "custom_http"}

ASSUME ProviderAssumption ==
    /\ IsFiniteSet(Client) /\ Client # {}
    /\ Kinds \subseteq AllKinds
    /\ RetryCount \in Nat
    /\ NoUpdate \notin Update
    /\ MaxEvents \in Nat
    /\ \A r \in Rule : r = [name |-> r.name, type |-> r.type]

\* No rule names its record with the empty string.
ASSUME NameAssumption == \A r \in Rule : r.name # ""

VARIABLES
    kind,        \* ProviderKind
    records,     \* the records of the zone
    nextId,      \* the id of the next record
    stage,       \* the request each client is at, or "idle"
    conn,        \* what became of that request
    attempt,     \* the attempt it is
    job,         \* the rule and the address of the run
    view,        \* the RemoteRecord of the run
    late,        \* the update a client gave up and that may still arrive
    result,      \* how the last run of each client ended
    sent,        \* history: requests of the run that carried the update
    applied,     \* history: updates of the run that the provider has applied
    extra,       \* history: records of each rule not added by a run in progress
    edited,      \* history: ids of records others have turned into a record of
                 \* another rule
    events

vars == <<kind, records, nextId, stage, conn, attempt, job, view, late, result,
          sent, applied, extra, edited, events>>
zone == <<records, nextId, extra, edited>>
history == <<sent, applied>>

\* zone and zone2 are the zone lookups of cloudflare's fetch_record and
\* update_record.
Stage == {"zone", "list", "zone2", "update"}

\* sent: under way; ok: answered as wanted; retry: an error that execute takes
\* for retryable; fail: any other.
Conn == {"none", "sent", "ok", "retry", "fail"}
Result == {"none", "unchanged", "pushed", "failed"}
NoJob == CHOOSE j \in [rule : Rule, addr : Addr] : TRUE

TypeOK ==
    /\ kind \in Kinds
    /\ records \subseteq Record
    /\ nextId \in Nat \ {NoId}
    /\ stage \in [Client -> Stage \cup {"idle"}]
    /\ conn \in [Client -> Conn]
    /\ attempt \in [Client -> 0 .. RetryCount + 1]
    /\ job \in [Client -> [rule : Rule, addr : Addr]]
    /\ view \in [Client -> View]
    /\ late \in [Client -> Update \cup {NoUpdate}]
    /\ result \in [Client -> Result]
    /\ sent \in [Client -> Nat]
    /\ applied \in [Client -> Nat]
    /\ extra \in [Rule -> Nat]
    /\ edited \subseteq Nat
    /\ events \in 0 .. MaxEvents

Init ==
    /\ kind \in Kinds
    /\ records \in {{}} \cup {{[id |-> 1, rule |-> r, addr |-> a]} : r \in Rule, a \in Addr}
    /\ nextId = 2
    /\ stage = [c \in Client |-> "idle"]
    /\ conn = [c \in Client |-> "none"]
    /\ attempt = [c \in Client |-> 0]
    /\ job = [c \in Client |-> NoJob]
    /\ view = [c \in Client |-> NothingSeen]
    /\ late = [c \in Client |-> NoUpdate]
    /\ result = [c \in Client |-> "none"]
    /\ sent = [c \in Client |-> 0]
    /\ applied = [c \in Client |-> 0]
    /\ extra = [r \in Rule |-> 0]
    /\ edited = {}
    /\ events = 0

-----------------------------------------------------------------------------
(* Requests *)

\* Faulty variant: the update is retried like a lookup.
MaxAttemptsEverywhere(s) == RetryCount + 1

\* lookup_retry_policy for every request but the update itself.
MaxAttempts(s) == IF s = "update" THEN 1 ELSE RetryCount + 1

\* execute_once: attempt n of the request of stage s leaves.
Send(c, s, n) ==
    /\ stage' = [stage EXCEPT ![c] = s]
    /\ conn' = [conn EXCEPT ![c] = "sent"]
    /\ attempt' = [attempt EXCEPT ![c] = n]
    /\ sent' = [sent EXCEPT ![c] = @ + IF s = "update" THEN 1 ELSE 0]

Reply(c, how) == conn' = [conn EXCEPT ![c] = how]

End(c, answer) ==
    /\ stage' = [stage EXCEPT ![c] = "idle"]
    /\ conn' = [conn EXCEPT ![c] = "none"]
    /\ attempt' = [attempt EXCEPT ![c] = 0]
    /\ job' = [job EXCEPT ![c] = NoJob]
    /\ view' = [view EXCEPT ![c] = NothingSeen]
    /\ result' = [result EXCEPT ![c] = answer]
    /\ sent' = [sent EXCEPT ![c] = 0]
    /\ applied' = [applied EXCEPT ![c] = 0]

-----------------------------------------------------------------------------
(* The run: fetch_record, the decision of run_rule, update_record *)

\* The address is resolved: the first request of fetch_record leaves.
Begin(c, r, a) ==
    /\ stage[c] = "idle"
    /\ Send(c, IF kind = "cloudflare" THEN "zone" ELSE "list", 1)
    /\ job' = [job EXCEPT ![c] = [rule |-> r, addr |-> a]]
    /\ result' = [result EXCEPT ![c] = "none"]
    /\ UNCHANGED <<kind, zone, events, view, late, applied>>

\* extract_zone_id: on to the records, or to the update.
ZoneFound(c) ==
    /\ stage[c] \in {"zone", "zone2"}
    /\ conn[c] = "ok"
    /\ Send(c, IF stage[c] = "zone" THEN "list" ELSE "update", 1)
    /\ UNCHANGED <<kind, zone, events, job, view, late, result, applied>>

\* The remote record matches and nothing forces an update.
Matches(c) ==
    /\ stage[c] = "list"
    /\ conn[c] = "ok"
    /\ view[c].addr = job[c].addr
    /\ End(c, "unchanged")
    /\ UNCHANGED <<kind, zone, events, late>>

\* The remote record differs, or the update is forced (RuleRun says when).
Differs(c) ==
    /\ stage[c] = "list"
    /\ conn[c] = "ok"
    /\ Send(c, IF kind = "cloudflare" THEN "zone2" ELSE "update", 1)
    /\ UNCHANGED <<kind, zone, events, job, view, late, result, applied>>

\* Faulty variant: an answer is taken for a success whatever its status.
UpdatedAnyStatus(c) ==
    /\ stage[c] = "update"
    /\ conn[c] \in {"ok", "fail"}
    /\ End(c, "pushed")
    /\ UNCHANGED <<kind, zone, events, late>>

\* update_record is Ok.
Updated(c) ==
    /\ stage[c] = "update"
    /\ conn[c] = "ok"
    /\ End(c, "pushed")
    /\ UNCHANGED <<kind, zone, events, late>>

\* Faulty variant: the attempts start again at one.
RetryUncounted(c) ==
    /\ conn[c] = "retry"
    /\ attempt[c] < MaxAttempts(stage[c])
    /\ Send(c, stage[c], 1)
    /\ UNCHANGED <<kind, zone, events, job, view, late, result, applied>>

\* Faulty variant: one attempt too many.
RetryOnceMore(c) ==
    /\ conn[c] = "retry"
    /\ attempt[c] <= MaxAttempts(stage[c])
    /\ Send(c, stage[c], attempt[c] + 1)
    /\ UNCHANGED <<kind, zone, events, job, view, late, result, applied>>

\* A retryable error, and attempts are left.
Retry(c) ==
    /\ conn[c] = "retry"
    /\ attempt[c] < MaxAttempts(stage[c])
    /\ Send(c, stage[c], attempt[c] + 1)
    /\ UNCHANGED <<kind, zone, events, job, view, late, result, applied>>

\* The last attempt failed, or the error is not retryable.
GiveUp(c) ==
    /\ \/ conn[c] = "fail"
       \/ conn[c] = "retry" /\ attempt[c] >= MaxAttempts(stage[c])
    /\ End(c, "failed")
    /\ UNCHANGED <<kind, zone, events, late>>

-----------------------------------------------------------------------------
(* The provider *)

\* The RR of a name at aliyun: the name of the zone itself, "@", is sent and
\* looked for as the empty name.  The service is trusted to list a record under
\* the RR it was sent.
Rr(name) == IF name = "@" THEN "" ELSE name

\* The records a provider lists for a rule.  Each is trusted to apply the
\* filters of the query that the code does not apply again.
Listed(r) ==
    {x \in records : /\ kind \in {"cloudflare", "aliyun", "custom_http"} => x.rule.type = r.type
                     /\ kind \in {"cloudflare", "custom_http"} => x.rule.name = r.name}

\* Faulty variant: aliyun takes the first record of the answer.
ExtractAny(listed, r) ==
    {x \in listed : kind = "dnspod" => x.rule.name = r.name /\ x.rule.type = r.type}

\* The records extract_record may return the first of.
Extract(listed, r) ==
    {x \in listed : /\ kind = "aliyun" => Rr(x.rule.name) = Rr(r.name)
                    /\ kind = "dnspod" => x.rule.name = r.name /\ x.rule.type = r.type}

\* custom_http finds an address and never an id.
RemoteRecord(x) == [id |-> IF kind = "custom_http" THEN NoId ELSE x.id, addr |-> x.addr]

\* A lookup is answered.  The order of a list is the provider's.
AnswerZone(c) ==
    /\ conn[c] = "sent"
    /\ stage[c] \in {"zone", "zone2"}
    /\ Reply(c, "ok")
    /\ UNCHANGED <<kind, zone, events, stage, attempt, job, view, late, result, history>>

AnswerList(c) ==
    LET found == Extract(Listed(job[c].rule), job[c].rule) IN
    /\ conn[c] = "sent"
    /\ stage[c] = "list"
    /\ Reply(c, "ok")
    /\ IF found = {}
       THEN view' = [view EXCEPT ![c] = NothingSeen]
       ELSE \E x \in found : view' = [view EXCEPT ![c] = RemoteRecord(x)]
    /\ UNCHANGED <<kind, zone, events, stage, attempt, job, late, result, history>>

\* Faulty variant: the id of the record is not sent.
RequestWithoutId(c) == [rule |-> job[c].rule, addr |-> job[c].addr, id |-> NoId]

\* The request of update_record.
Request(c) == [rule |-> job[c].rule, addr |-> job[c].addr, id |-> view[c].id]

\* PUT, ModifyRecord, UpdateDomainRecord: the record with this id.
Rewrite(u) ==
    /\ u.id # NoId
    /\ Exists(records, u.id)
    /\ records' = Put(records, u.id, u.rule, u.addr)
    /\ UNCHANGED nextId

\* POST, CreateRecord, AddDomainRecord; for custom_http if there is no record.
Create(u) ==
    /\ u.id = NoId
    /\ kind = "custom_http" => Of(records, u.rule) = {}
    /\ records' = Add(records, nextId, u.rule, u.addr)
    /\ nextId' = nextId + 1

\* A custom_http service finds the record itself.
Upsert(u) ==
    /\ u.id = NoId
    /\ kind = "custom_http"
    /\ \E x \in Of(records, u.rule) : records' = Put(records, x.id, u.rule, u.addr)
    /\ UNCHANGED nextId

\* The update is applied; the answer may say so, or be an error all the same
\* (5xx after the fact, a body that does not parse, no success marker).
AnswerUpdate(c) ==
    LET u == Request(c) IN
    /\ conn[c] = "sent"
    /\ stage[c] = "update"
    /\ Rewrite(u) \/ Create(u) \/ Upsert(u)
    /\ \E how \in {"ok", "retry", "fail"} : Reply(c, how)
    /\ applied' = [applied EXCEPT ![c] = @ + 1]
    /\ UNCHANGED <<kind, extra, edited, events, stage, attempt, job, view, late, result, sent>>

\* The provider does nothing: 5xx, 4xx, success: false, unknown id or zone.
Refuse(c) ==
    /\ conn[c] = "sent"
    /\ \E how \in {"retry", "fail"} : Reply(c, how)
    /\ UNCHANGED <<kind, zone, events, stage, attempt, job, view, late, result, history>>

\* What is on its way when a client stops waiting.  At most one update of each
\* client is still on its way (a bound: an older one is taken for lost).
Abandon(c) ==
    \/ UNCHANGED <<late, events>>
    \/ /\ stage[c] = "update"
       /\ conn[c] = "sent"
       /\ late[c] = NoUpdate
       /\ late' = [late EXCEPT ![c] = Request(c)]
       /\ events < MaxEvents
       /\ events' = events + 1

\* No answer: refused connection, timeout (both retryable), or a transport
\* error of another wording, which is not.
Lose(c) ==
    /\ conn[c] \in {"sent", "ok"}
    /\ \E how \in {"retry", "fail"} : Reply(c, how)
    /\ view' = IF stage[c] = "list" THEN [view EXCEPT ![c] = NothingSeen] ELSE view
    /\ Abandon(c)
    /\ UNCHANGED <<kind, zone, stage, attempt, job, result, history>>

\* The process of the client is killed.
Kill(c) ==
    /\ stage[c] # "idle"
    /\ End(c, "none")
    /\ Abandon(c)
    /\ UNCHANGED <<kind, zone>>

\* An update that was given up reaches the provider after all.
Arrive(c) ==
    LET u == late[c] IN
    /\ late[c] # NoUpdate
    /\ \/ (Rewrite(u) \/ Upsert(u)) /\ UNCHANGED extra
       \/ Create(u) /\ extra' = [extra EXCEPT ![u.rule] = @ + 1]
    /\ late' = [late EXCEPT ![c] = NoUpdate]
    /\ UNCHANGED <<kind, edited, events, stage, conn, attempt, job, view, result, history>>

\* ... or never.
Vanish(c) ==
    /\ late[c] # NoUpdate
    /\ late' = [late EXCEPT ![c] = NoUpdate]
    /\ UNCHANGED <<kind, zone, events, stage, conn, attempt, job, view, result, history>>

\* Somebody else removes a record, adds one, or edits one in place: its id then
\* names a record of another name or type, whoever still holds it.
Elsewhere ==
    /\ events < MaxEvents
    /\ events' = events + 1
    /\ \/ /\ \E x \in records : records' = records \ {x}
          /\ UNCHANGED <<nextId, extra, edited>>
       \/ \E r \in Rule, a \in Addr :
             /\ records' = Add(records, nextId, r, a)
             /\ nextId' = nextId + 1
             /\ extra' = [extra EXCEPT ![r] = @ + 1]
             /\ UNCHANGED edited
       \/ /\ \E x \in records, r \in Rule, a \in Addr :
                /\ records' = Put(records, x.id, r, a)
                /\ edited' = IF r = x.rule THEN edited ELSE edited \cup {x.id}
          /\ UNCHANGED <<nextId, extra>>
    /\ UNCHANGED <<kind, stage, conn, attempt, job, view, late, result, history>>

-----------------------------------------------------------------------------
(* What a client does with an answer, and how a request ends. *)
Proceed(c) ==
    \/ ZoneFound(c) \/ Matches(c) \/ Differs(c) \/ Updated(c) \/ Retry(c) \/ GiveUp(c)
Answer(c) ==
    \/ AnswerZone(c) \/ AnswerList(c) \/ AnswerUpdate(c) \/ Refuse(c) \/ Lose(c)

Next ==
    \/ \E c \in Client :
          \/ \E r \in Rule, a \in Addr : Begin(c, r, a)
          \/ Proceed(c) \/ Answer(c) \/ Kill(c) \/ Arrive(c) \/ Vanish(c)
    \/ Elsewhere

\* A process goes on with what it has, and timeout_global ends every request.
Fairness == \A c \in Client : WF_vars(Proceed(c)) /\ WF_vars(Answer(c))

SafeSpec == Init /\ [][Next]_vars
Spec == SafeSpec /\ Fairness

-----------------------------------------------------------------------------
(* Properties *)

\* A run sends the request of its update at most once: an update is not
\* idempotent where it adds a record, so neither a timeout nor an HTTP error
\* may repeat it (RetryPolicy::none in every update_record).
UpdateSentOnce == \A c \in Client : sent[c] <= 1

\* A run that ends as pushed has had its update applied, exactly once, and one
\* that ends as unchanged has had none, for every order of lost, late and
\* refused requests (ensure_success and the status check of response_to_http).
ResultIsHonest ==
    [][\A c \in Client : stage[c] # "idle" /\ stage'[c] = "idle" =>
          /\ result'[c] = "pushed" => applied[c] = 1
          /\ result'[c] = "unchanged" => applied[c] = 0 /\ view[c].addr = job[c].addr]_vars

\* Runs leave the records of other rules alone, whatever else is in the zone
\* and however old the id is that they use: the records of r change only by a
\* request for r, by somebody else, or because a request takes back a record
\* that somebody else had turned into one of r (the filters of extract_record;
\* the id of a PUT says nothing of what the record has become).
OthersUntouched ==
    [][\A r \in Rule : Of(records', r) # Of(records, r) =>
          \/ events' # events
          \/ \E c \in Client : job[c].rule = r /\ applied'[c] > applied[c]
          \/ \E c \in Client : /\ late[c] \in Update
                               /\ late[c].rule = r
                               /\ late'[c] = NoUpdate
          \/ /\ Of(records', r) \subseteq Of(records, r)
             /\ \A x \in Of(records, r) \ Of(records', r) : x.id \in edited]_vars

\* The records of a rule that have always been records of that rule.
Own(r) == {x \in Of(records, r) : x.id \notin edited}

\* A rule has no more records of its own than processes that ran it at once,
\* late arrivals and records added by others account for: lost answers alone
\* never add a second record (record_id decides between PUT and POST).
DuplicatesBounded ==
    \A r \in Rule : Cardinality(Own(r)) <= Cardinality(Client) + extra[r]

\* Every run ends, whatever the provider answers or does not answer (the
\* attempts of execute_with_interface are bounded).
EveryRunEnds == \A c \in Client : stage[c] # "idle" ~> stage[c] = "idle"

\* What the requests of a run amount to.
Phase(c) ==
    CASE stage[c] = "idle" -> "idle"
      [] stage[c] = "zone" \/ (stage[c] = "list" /\ conn[c] # "ok") -> "look"
      [] (stage[c] = "list" /\ conn[c] = "ok") \/ stage[c] = "zone2" -> "seen"
      [] stage[c] = "update" /\ applied[c] > 0 -> "applied"
      [] stage[c] = "update" /\ applied[c] = 0 ->
            IF conn[c] = "sent" THEN "asked" ELSE "dropped"

Service == INSTANCE RecordService WITH phase <- [c \in Client |-> Phase(c)]

\* A run with its zones, attempts and lost answers implements one look at the
\* record and at most one update.
ImplementsRecordService == Service!Spec
=============================================================================
