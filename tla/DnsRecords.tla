------------------------------- MODULE DnsRecords -------------------------------
(***************************************************************************)
(* The records of a zone at a provider, and what a run sees of them.  A     *)
(* record has an id that is never given twice, the name and the type it     *)
(* answers for, and an address.                                             *)
(***************************************************************************)
EXTENDS Naturals

CONSTANTS
    Rule,        \* rules: records with a name and a record type
    Addr,        \* addresses
    NoAddr       \* RemoteRecord.address is None

NoId == 0        \* RemoteRecord.record_id is None

ASSUME RecordAssumption ==
    /\ Rule # {}
    /\ Addr # {}
    /\ NoAddr \notin Addr

Record == [id : Nat \ {NoId}, rule : Rule, addr : Addr]

\* RemoteRecord: what fetch_record returns.
View == [id : Nat, addr : Addr \cup {NoAddr}]
NothingSeen == [id |-> NoId, addr |-> NoAddr]

\* What update_record sends: for which rule, which address, to which record.
Update == [rule : Rule, addr : Addr, id : Nat]

\* The records that answer for a rule.
Of(recs, r) == {x \in recs : x.rule = r}

Exists(recs, i) == \E x \in recs : x.id = i

\* The record with this id becomes the record of the rule.
Put(recs, i, r, a) ==
    {x \in recs : x.id # i} \cup {[id |-> i, rule |-> r, addr |-> a]}

Add(recs, i, r, a) == recs \cup {[id |-> i, rule |-> r, addr |-> a]}
=============================================================================
