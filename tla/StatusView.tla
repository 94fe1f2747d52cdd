------------------------------- MODULE StatusView -------------------------------
(***************************************************************************)
(* What "qddnsctl status" and "qddnsctl rules status" make of the file and   *)
(* the configuration, and LuCI shows: pure operators over a RuntimeState.    *)
(***************************************************************************)
EXTENDS Qddns, Functions

CONSTANT MaxShown   \* how many results the overview lists (8)

ASSUME StatusAssumption == MaxShown \in Nat /\ IsFiniteSet(Rule)

\* The entries of rules that are enabled now.
Visible(doc) == {r \in Enabled : doc.rules[r] # None}

\* Faulty variant: a check that pushed nothing does not count.
RecentTimeOfUpdate(state) == Reached(state.last_update)

\* rule_recent_time, where no time at all sorts like a time before all others.
RecentTime(state) == Max({Reached(state.last_update), Reached(state.last_check)})

\* Newest first, then by name.
Precedes(doc, q, r) ==
    LET left == RecentTime(doc.rules[q])
        right == RecentTime(doc.rules[r])
    IN left > right \/ (left = right /\ q < r)

\* How many entries the sort puts before that of r.
Rank(doc, r) == Cardinality({q \in Visible(doc) : Precedes(doc, q, r)})

\* What the write-back of a pruned state may come to; behind an orphan lock it
\* always fails.
WriteBacks == IF wedged THEN {FALSE} ELSE BOOLEAN

\* Whether read_runtime_status yields a state: the configuration is accepted and,
\* if an entry had to be pruned, the file has been written back.
StatusRead(written) == valid /\ (Pruned(Loaded) = Loaded \/ written)

\* The state the overview is made of: read_runtime_status(..).unwrap_or_default().
OverviewState(written) == IF StatusRead(written) THEN Pruned(Loaded) ELSE DefaultDoc

\* recent_results of the overview: the first entries of the sorted ones.
RecentResults(doc) ==
    [i \in 1 .. Min({MaxShown, Cardinality(Visible(doc))}) |->
        CHOOSE r \in Visible(doc) : Rank(doc, r) = i - 1]

\* The page of one configured rule: an entry that a disabled rule still has is
\* kept back, and a rule that has none gets the default state.  Where the
\* overview falls back to an empty state this command answers the error.
RuleStatus(doc, r) ==
    IF config[r] = "disabled" THEN [DefaultRule EXCEPT !.status = "disabled"]
    ELSE PriorOf(doc.rules, r)

\* The overview and the pages of the rules agree, whatever the file holds by now
\* and however the configuration was edited since it was written: a rule whose
\* page shows a result is left out of the overview only for as many others as
\* there is room for, each of them checked no earlier.  A failure, which has a
\* check and no push, counts like any other.  The one exception is an overview
\* without any result: it is printed when the configuration is not accepted, or
\* the file holds an entry to prune and cannot be written back.
NewestAreShown ==
    \A written \in WriteBacks :
        LET doc == Pruned(Loaded)
            shown == RecentResults(OverviewState(written))
            Checked(r) == Reached(RuleStatus(doc, r).last_check)
        IN  \/ shown = <<>> /\ (~valid \/ doc # Loaded)
            \/ \A r \in Rule \ Range(shown) :
                  config[r] # "absent" /\ Checked(r) >= 0 =>
                      /\ Len(shown) = MaxShown
                      /\ \A i \in DOMAIN shown : Checked(shown[i]) >= Checked(r)
=============================================================================
