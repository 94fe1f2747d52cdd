----------------------------- MODULE RecordService ------------------------------
(***************************************************************************)
(* What a run of a rule promises about the records of the provider, whoever *)
(* the provider is: it looks at a record of its rule at one moment, then    *)
(* either sees the address it wants and leaves the records alone, or asks   *)
(* once for one update of the record it saw; that update happens at most    *)
(* once, before the run ends or, if the run gives it up, later.  A run that *)
(* answers "pushed" has had its update applied.  Zones, HTTP, attempts and  *)
(* lost answers are the business of Provider.                               *)
(***************************************************************************)
EXTENDS DnsRecords

CONSTANTS
    Client,      \* processes that run rules
    NoUpdate     \* no update is on its way

VARIABLES
    records,     \* the records of the zone
    nextId,      \* the id of the next record
    phase,       \* how far the run of each client has come
    job,         \* the rule and the address of the run
    view,        \* what the run has seen
    late,        \* the update a client gave up and that may still arrive
    result       \* how the last run of each client ended

vars == <<records, nextId, phase, job, view, late, result>>

Phase == {"idle", "look", "seen", "asked", "applied", "dropped"}
NoJob == CHOOSE j \in [rule : Rule, addr : Addr] : TRUE
Request(c) == [rule |-> job[c].rule, addr |-> job[c].addr, id |-> view[c].id]

Init ==
    /\ records \in {{}} \cup {{[id |-> 1, rule |-> r, addr |-> a]} : r \in Rule, a \in Addr}
    /\ nextId = 2
    /\ phase = [c \in Client |-> "idle"]
    /\ job = [c \in Client |-> NoJob]
    /\ view = [c \in Client |-> NothingSeen]
    /\ late = [c \in Client |-> NoUpdate]
    /\ result = [c \in Client |-> "none"]

Begin(c, r, a) ==
    /\ phase[c] = "idle"
    /\ phase' = [phase EXCEPT ![c] = "look"]
    /\ job' = [job EXCEPT ![c] = [rule |-> r, addr |-> a]]
    /\ result' = [result EXCEPT ![c] = "none"]
    /\ UNCHANGED <<records, nextId, view, late>>

\* The moment at which the run sees a record of its rule, or none.
Look(c) ==
    /\ phase[c] = "look"
    /\ phase' = [phase EXCEPT ![c] = "seen"]
    /\ IF Of(records, job[c].rule) = {}
       THEN view' = [view EXCEPT ![c] = NothingSeen]
       ELSE \E x \in Of(records, job[c].rule) : \E i \in {NoId, x.id} :
               view' = [view EXCEPT ![c] = [id |-> i, addr |-> x.addr]]
    /\ UNCHANGED <<records, nextId, job, late, result>>

\* What was seen is forgotten and looked for again.
Forget(c) ==
    /\ phase[c] = "seen"
    /\ phase' = [phase EXCEPT ![c] = "look"]
    /\ view' = [view EXCEPT ![c] = NothingSeen]
    /\ UNCHANGED <<records, nextId, job, late, result>>

Ask(c) ==
    /\ phase[c] = "seen"
    /\ phase' = [phase EXCEPT ![c] = "asked"]
    /\ UNCHANGED <<records, nextId, job, view, late, result>>

\* The update u at the provider: it rewrites the record it names, and one that
\* names none adds a record or rewrites any record of its rule.
Applies(u) ==
    \/ /\ u.id # NoId
       /\ Exists(records, u.id)
       /\ records' = Put(records, u.id, u.rule, u.addr)
       /\ UNCHANGED nextId
    \/ /\ u.id = NoId
       /\ records' = Add(records, nextId, u.rule, u.addr)
       /\ nextId' = nextId + 1
    \/ /\ u.id = NoId
       /\ \E x \in Of(records, u.rule) : records' = Put(records, x.id, u.rule, u.addr)
       /\ UNCHANGED nextId

Apply(c) ==
    /\ phase[c] = "asked"
    /\ Applies(Request(c))
    /\ phase' = [phase EXCEPT ![c] = "applied"]
    /\ UNCHANGED <<job, view, late, result>>

Arrive(c) ==
    /\ late[c] # NoUpdate
    /\ Applies(late[c])
    /\ late' = [late EXCEPT ![c] = NoUpdate]
    /\ UNCHANGED <<phase, job, view, result>>

Vanish(c) ==
    /\ late[c] # NoUpdate
    /\ late' = [late EXCEPT ![c] = NoUpdate]
    /\ UNCHANGED <<records, nextId, phase, job, view, result>>

End(c, answer) ==
    /\ phase' = [phase EXCEPT ![c] = "idle"]
    /\ view' = [view EXCEPT ![c] = NothingSeen]
    /\ job' = [job EXCEPT ![c] = NoJob]
    /\ result' = [result EXCEPT ![c] = answer]
    /\ UNCHANGED <<records, nextId>>

Unchanged(c) ==
    /\ phase[c] = "seen"
    /\ view[c].addr = job[c].addr
    /\ End(c, "unchanged")
    /\ UNCHANGED late

Pushed(c) ==
    /\ phase[c] = "applied"
    /\ End(c, "pushed")
    /\ UNCHANGED late

\* An update that was asked for and not applied may still be on its way when
\* the run stops waiting for it.
Abandon(c) ==
    \/ UNCHANGED late
    \/ phase[c] = "asked" /\ late' = [late EXCEPT ![c] = Request(c)]

Drop(c) ==
    /\ phase[c] = "asked"
    /\ phase' = [phase EXCEPT ![c] = "dropped"]
    /\ Abandon(c)
    /\ UNCHANGED <<records, nextId, job, view, result>>

\* The run fails, or its process is killed.
Failed(c) ==
    /\ phase[c] # "idle"
    /\ \E answer \in {"failed", "none"} : End(c, answer)
    /\ Abandon(c)

\* Somebody else changes the zone.
Elsewhere ==
    /\ \/ /\ \E x \in records : records' = records \ {x}
          /\ UNCHANGED nextId
       \/ /\ \E r \in Rule, a \in Addr : records' = Add(records, nextId, r, a)
          /\ nextId' = nextId + 1
       \/ /\ \E x \in records, r \in Rule, a \in Addr : records' = Put(records, x.id, r, a)
          /\ UNCHANGED nextId
    /\ UNCHANGED <<phase, job, view, late, result>>

Next ==
    \/ \E c \in Client :
          \/ \E r \in Rule, a \in Addr : Begin(c, r, a)
          \/ Look(c) \/ Forget(c) \/ Ask(c) \/ Apply(c) \/ Arrive(c) \/ Vanish(c)
          \/ Unchanged(c) \/ Pushed(c) \/ Drop(c) \/ Failed(c)
    \/ Elsewhere

Spec == Init /\ [][Next]_vars
=============================================================================
