-------------------------------- MODULE RuleRun --------------------------------
(***************************************************************************)
(* The arithmetic of one rule: the state that runner.rs and daemon.rs       *)
(* compute from the prior state of the rule, the time and the outcome of    *)
(* the run.  Pure operators; Qddns decides when they are applied.           *)
(*                                                                         *)
(* Times are natural numbers up to MaxTime, the horizon of a finite model:  *)
(* MaxTime stands for every later moment, so a deadline beyond it is due    *)
(* when the clock has reached it.                                           *)
(***************************************************************************)
EXTENDS Integers

CONSTANTS
    Rule,            \* rule identifiers, 1 .. n in the order of the BTreeMap
    Addr,            \* addresses a source may yield
    None,            \* Option::None
    CheckInterval,   \* check_interval of every rule
    ForceInterval,   \* force_interval
    RetryCount,      \* retry_count
    RetryBackoff,    \* retry_backoff
    MaxAttempts,     \* where retry_attempts saturates (u32::MAX in the code)
    MaxTime          \* the horizon

ASSUME RuleAssumption ==
    /\ Rule \subseteq Nat \ {0}
    /\ None \notin Addr \cup Nat
    /\ CheckInterval \in Nat \ {0}
    /\ ForceInterval \in Nat \ {0}
    /\ RetryBackoff \in Nat \ {0}
    /\ RetryCount \in Nat
    /\ MaxAttempts \in Nat \ {0}
    /\ RetryCount <= MaxAttempts
    /\ MaxTime \in Nat

Time == 0 .. MaxTime

RuleState ==
    [status         : {"idle", "success", "error"},
     current_ip     : Addr \cup {None},
     remote_ip      : Addr \cup {None},
     last_result    : {"updated", "unchanged", "error", None},
     last_update    : Time \cup {None},
     last_check     : Time \cup {None},
     next_run       : Time \cup {None},
     retry_attempts : 0 .. MaxAttempts]

\* RuleState::default()
DefaultRule ==
    [status |-> "idle", current_ip |-> None, remote_ip |-> None, last_result |-> None,
     last_update |-> None, last_check |-> None, next_run |-> None, retry_attempts |-> 0]

\* A map from rules to states: None where the BTreeMap has no entry.
RuleMap == [Rule -> RuleState \cup {None}]
EmptyMap == [r \in Rule |-> None]

\* runtime.rules.get(id).cloned().unwrap_or_default()
PriorOf(rules, r) == IF rules[r] = None THEN DefaultRule ELSE rules[r]

\* now + delay, as far as the horizon.
Later(now, delay) == IF now + delay < MaxTime THEN now + delay ELSE MaxTime

\* Faulty variant: an interval that has just elapsed does not count.
ShouldForceUpdateLate(prior, now) ==
    prior.last_update # None => now - prior.last_update > ForceInterval

\* A rule that was never pushed, or not for force_interval, is pushed again
\* even if the provider already has the address.
ShouldForceUpdate(prior, now) ==
    prior.last_update # None => now - prior.last_update >= ForceInterval

\* The record already holds the address: nothing is sent.
Unchanged(prior, ip, now) ==
    [status |-> "success", current_ip |-> ip, remote_ip |-> ip, last_result |-> "unchanged",
     last_update |-> prior.last_update, last_check |-> now,
     next_run |-> Later(now, CheckInterval), retry_attempts |-> 0]

\* Faulty variant: after a push the next check waits for force_interval.
SyncedLate(ip, seen, now) ==
    [status |-> "success", current_ip |-> ip, remote_ip |-> ip,
     last_result |-> IF seen # ip THEN "updated" ELSE "unchanged",
     last_update |-> now, last_check |-> now,
     next_run |-> Later(now, ForceInterval), retry_attempts |-> 0]

\* The provider accepted an update; seen is the address fetched before it.
Synced(ip, seen, now) ==
    [status |-> "success", current_ip |-> ip, remote_ip |-> ip,
     last_result |-> IF seen # ip THEN "updated" ELSE "unchanged",
     last_update |-> now, last_check |-> now,
     next_run |-> Later(now, CheckInterval), retry_attempts |-> 0]

\* Faulty variant: the counter does not saturate.
AttemptsUnbounded(prior) == IF prior.last_result = "error" THEN prior.retry_attempts + 1 ELSE 1

\* One more failure in a row; the count restarts after anything but an error.
Attempts(prior) ==
    LET before == IF prior.last_result = "error" THEN prior.retry_attempts ELSE 0
    IN  IF before < MaxAttempts THEN before + 1 ELSE MaxAttempts

\* Faulty variant: one failure too many is retried after retry_backoff.
RetryDelayOnceMore(attempts) ==
    IF attempts <= RetryCount + 1 THEN RetryBackoff ELSE CheckInterval

\* The first retry_count failures in a row are retried after retry_backoff.
RetryDelay(attempts) == IF attempts <= RetryCount THEN RetryBackoff ELSE CheckInterval

\* Faulty variant: a failure forgets when the record was last pushed.
FailedForgetful(prior, now) ==
    [DefaultRule EXCEPT !.status = "error", !.last_result = "error", !.last_check = now,
                        !.next_run = Later(now, RetryDelay(Attempts(prior))),
                        !.retry_attempts = Attempts(prior)]

\* Any error of the run, from the source to the provider's answer.
Failed(prior, now) ==
    [status |-> "error", current_ip |-> None, remote_ip |-> None, last_result |-> "error",
     last_update |-> prior.last_update, last_check |-> now,
     next_run |-> Later(now, RetryDelay(Attempts(prior))),
     retry_attempts |-> Attempts(prior)]

\* Faulty variant: a run whose moment is now has to wait for the next poll.
DueLate(rules, r, now) ==
    LET next == PriorOf(rules, r).next_run IN next # None => next < now

\* The daemon runs a rule without an entry, without a next_run, or whose
\* next_run has come.
Due(rules, r, now) ==
    LET next == PriorOf(rules, r).next_run IN next # None => next <= now
=============================================================================
