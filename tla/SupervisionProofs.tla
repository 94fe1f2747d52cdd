---------------------------- MODULE SupervisionProofs ---------------------------
(***************************************************************************)
(* Proofs about Config and Supervision: for any files, any spelling of       *)
(* numbers, addresses and names, any respawn limit and any bounds.           *)
(***************************************************************************)
EXTENDS Supervision, TLAPS

-----------------------------------------------------------------------------
(* What an accepted file says *)

\* Every entry of a Config comes from a section of its kind.
LEMMA LatestIsSection ==
    ASSUME NEW s, NEW kind, NEW n \in DOMAIN Latest(s, kind)
    PROVE  \E h \in DOMAIN s : s[h].kind = kind /\ Latest(s, kind)[n] = s[h]
<1>. DEFINE latest == {h \in DOMAIN s :
                          /\ s[h].kind = kind
                          /\ \A g \in DOMAIN s :
                                s[g].kind = kind /\ s[g].name = s[h].name => g <= h}
            names == {<<s[h].name>> : h \in latest}
            chosen == CHOOSE h \in latest : <<s[h].name>> = n
<1>1. n \in names /\ Latest(s, kind)[n] = s[chosen]
  BY DEF Latest
<1>2. \E h \in latest : <<s[h].name>> = n
  BY <1>1
<1>3. chosen \in latest
  BY <1>2
<1>. QED BY <1>1, <1>3

\* Of a section that parses, what the Config keeps has passed the checks.
LEMMA SectionParses ==
    ASSUME NEW f, Parses(f), NEW h \in DOMAIN Sections(f)
    PROVE  SectionOK(Sections(f)[h])
BY DEF Parses

LEMMA RuleType ==
    ASSUME NEW s, RuleOK(s)
    PROVE  RuleOf(s).record_type \in {"A", "AAAA"}
<1>1. PICK t \in {"A", "AAAA"} : s.options["record_type"] = <<t>>
  BY DEF RuleOK, In
<1>2. RuleOf(s).record_type = s.options["record_type"][1]
  BY DEF RuleOf
<1>. QED BY <1>1, <1>2

LEMMA ProviderHasCredentials ==
    ASSUME NEW s, ProviderOK(s)
    PROVE  \A k \in Credentials[ProviderOf(s).type] : Filled(ProviderOf(s), k)
<1>1. PICK t \in DOMAIN Credentials :
          In(s, "type", {t}) /\ \A k \in Credentials[t] : Filled(s, k)
  BY DEF ProviderOK
<1>2. s.options["type"] = <<t>>
  BY <1>1 DEF In
<1>3. ProviderOf(s).type = t /\ ProviderOf(s).options = s.options
  BY <1>2 DEF ProviderOf
<1>. QED BY <1>1, <1>3 DEF Filled, Has, In

LEMMA ConfigRules ==
    ASSUME NEW f, Parses(f), NEW n \in DOMAIN ConfigOf(f).rules
    PROVE  ConfigOf(f).rules[n].record_type \in {"A", "AAAA"}
<1>. DEFINE s == Sections(f)
            rules == Latest(s, "rule")
<1>1. n \in DOMAIN rules /\ ConfigOf(f).rules[n] = RuleOf(rules[n])
  BY DEF ConfigOf
<1>2. PICK h \in DOMAIN s : s[h].kind = "rule" /\ rules[n] = s[h]
  BY <1>1, LatestIsSection
<1>3. RuleOK(rules[n])
  BY <1>2, SectionParses DEF SectionOK
<1>. QED BY <1>1, <1>3, RuleType

LEMMA ConfigProviders ==
    ASSUME NEW f, Parses(f), NEW n \in DOMAIN ConfigOf(f).providers
    PROVE  LET p == ConfigOf(f).providers[n] IN \A k \in Credentials[p.type] : Filled(p, k)
<1>. DEFINE s == Sections(f)
            providers == Latest(s, "provider")
<1>1. n \in DOMAIN providers /\ ConfigOf(f).providers[n] = ProviderOf(providers[n])
  BY DEF ConfigOf
<1>2. PICK h \in DOMAIN s : s[h].kind = "provider" /\ providers[n] = s[h]
  BY <1>1, LatestIsSection
<1>3. ProviderOK(providers[n])
  BY <1>2, SectionParses DEF SectionOK
<1>. QED BY <1>1, <1>3, ProviderHasCredentials

\* Whatever file validate accepts, each of its rules has a source and a provider that
\* exist and agree with it in family, and the provider its credentials.  The checks
\* of parse_uci look at one section at a time, those of validate at the latest
\* section of each name; together they cover what get_provider_and_source and
\* validate_rule_family check again, and the family of the address of local_addr.
\* The other options of a source, and the url of custom_http, may be missing.
THEOREM AcceptedConfigBinds ==
    ASSUME NEW f \in Acceptable, NEW n \in DOMAIN Parsed[f].rules
    PROVE  Runnable(Parsed[f], n) /\ Supplied(Parsed[f], n)
<1>. DEFINE c == ConfigOf(f)
            rule == c.rules[n]
            source == c.sources[rule.source]
<1>1. f \in Files /\ Parses(f) /\ Parsed[f] = c /\ Validate(c) /\ n \in DOMAIN c.rules
  BY DEF Acceptable, Parsed
<1>2. rule.source \in DOMAIN c.sources /\ rule.provider \in DOMAIN c.providers
      /\ Fits(rule, source)
  BY <1>1 DEF Validate
<1>3. rule.record_type \in {"A", "AAAA"}
  BY <1>1, ConfigRules
<1>4. Bound(c, n)
  <2>1. <<rule.record_type, Family(source)>>
            \notin {<<"AAAA", <<"ipv4">>>>, <<"A", <<"ipv6">>>>}
    BY <1>2 DEF Fits
  <2>. QED BY <1>1, <1>2, <2>1 DEF Bound
<1>5. LocalFamily(source) # None => Publishable(rule, LocalFamily(source)[1])
  <2>1. CASE Spells(Address(source), V4)
    <3>1. LocalFamily(source)[1] = "ipv4"
      BY <2>1 DEF LocalFamily
    <3>2. rule.record_type = "A"
      BY <2>1, <1>2, <1>3 DEF Fits
    <3>. QED BY <3>1, <3>2 DEF Publishable
  <2>2. CASE ~Spells(Address(source), V4) /\ Spells(Address(source), V6)
    <3>1. LocalFamily(source)[1] = "ipv6"
      BY <2>2 DEF LocalFamily
    <3>2. rule.record_type = "AAAA"
      BY <2>2, <1>2, <1>3 DEF Fits
    <3>. QED BY <3>1, <3>2 DEF Publishable
  <2>3. CASE ~Spells(Address(source), V4) /\ ~Spells(Address(source), V6)
    BY <2>3 DEF LocalFamily
  <2>. QED BY <2>1, <2>2, <2>3
<1>6. Runnable(c, n)
  BY <1>4, <1>5 DEF Runnable
<1>7. Supplied(c, n)
  BY <1>1, <1>2, ConfigProviders DEF Supplied
<1>. QED BY <1>1, <1>6, <1>7

-----------------------------------------------------------------------------
(* Types *)

LEMMA ZeroIsInBounds == 0 \in 0 .. Retry + 1 /\ 0 \in 0 .. MaxFaults /\ 0 \in 0 .. MaxEvents
BY SupervisionAssumption

LEMMA InitType == Init => TypeOK
<1>. SUFFICES ASSUME Init PROVE TypeOK
  OBVIOUS
<1>1. broken \subseteq {"binary", "dir"}
  BY DEF Init
<1>. QED BY <1>1, ZeroIsInBounds DEF Init, TypeOK

LEMMA ExitedType ==
    ASSUME TypeOK, pc # "down", Exited
    PROVE  /\ registered' = registered /\ registered
           /\ pc' = "down" /\ conf' = NoFile
           /\ instance' \in {"failed", "waiting"} /\ quick' \in 0 .. Retry + 1
BY SupervisionAssumption DEF TypeOK, Exited, Gone

LEMMA StopsType ==
    ASSUME TypeOK, Removed \/ Emptied
    PROVE  /\ registered' \in BOOLEAN /\ quick' = 0 /\ 0 \in 0 .. Retry + 1
           /\ instance' = "none" /\ pc' = "down" /\ conf' = NoFile
<1>1. CASE Removed
  BY <1>1, ZeroIsInBounds DEF Removed, Gone
<1>2. CASE Emptied
  BY <1>2, ZeroIsInBounds DEF Emptied, Gone
<1>. QED BY <1>1, <1>2

LEMMA PreparationType ==
    ASSUME TypeOK, ValidateConfig \/ LoadMainConfig \/ EnsureRuntimeDirs
    PROVE  TypeOK'
<1>. USE DEF setting, service, daemon
<1>1. CASE Refuse
  <2>1. CASE Emptied
    BY <1>1, <2>1, StopsType DEF Refuse, Back, TypeOK
  <2>2. CASE UNCHANGED <<service, daemon>>
    BY <1>1, <2>2 DEF Refuse, Back, TypeOK
  <2>. QED BY <1>1, <2>1, <2>2 DEF Refuse
<1>2. CASE at = "validate" /\ Go("load") /\ UNCHANGED enabled
  BY <1>2 DEF Go, TypeOK
<1>3. CASE at = "load" /\ enabled' = (file \in Enabled)
           /\ Go(IF enabled' THEN "dirs" ELSE "decide")
  BY <1>3 DEF Go, TypeOK
<1>4. CASE at = "dirs" /\ Go("decide") /\ UNCHANGED enabled
  BY <1>4 DEF Go, TypeOK
<1>. QED BY <1>1, <1>2, <1>3, <1>4 DEF ValidateConfig, LoadMainConfig, EnsureRuntimeDirs

LEMMA ReloadType ==
    ASSUME TypeOK, Reload
    PROVE  TypeOK'
<1>. USE DEF setting, service, daemon
<1>1. overlooked' \in BOOLEAN
  BY DEF Reload
<1>2. CASE Removed
  BY <1>1, <1>2, StopsType DEF Reload, Back, TypeOK
<1>3. CASE UNCHANGED <<service, daemon>>
  BY <1>1, <1>3 DEF Reload, Back, TypeOK
<1>. QED BY <1>2, <1>3 DEF Reload

LEMMA StartType ==
    ASSUME TypeOK, StartService
    PROVE  TypeOK'
<1>. USE DEF setting, service, daemon
<1>1. CASE Opened
  BY <1>1 DEF StartService, Opened, Spawned, Back, TypeOK
<1>2. CASE Emptied
  BY <1>2, StopsType DEF StartService, Back, TypeOK
<1>. QED BY <1>1, <1>2 DEF StartService

LEMMA DaemonType ==
    ASSUME TypeOK, Boot \/ Poll \/ EndPoll \/ Kill
    PROVE  TypeOK'
<1>. USE DEF setting, script, service, daemon
<1>1. CASE pc # "down" /\ Exit
  BY <1>1, ExitedType DEF Exit, TypeOK
<1>2. CASE Kill
  BY <1>2, ExitedType, SupervisionAssumption DEF Kill, TypeOK
<1>3. CASE Boot /\ ~Exit
  BY <1>3 DEF Boot, TypeOK
<1>4. CASE Poll /\ ~Exit
  BY <1>4, SupervisionAssumption DEF Poll, TypeOK
<1>5. CASE EndPoll /\ ~Exit
  BY <1>5 DEF EndPoll, TypeOK
<1>6. Boot \/ Poll \/ EndPoll => pc # "down"
  BY DEF Boot, Poll, EndPoll
<1>. QED BY <1>1, <1>2, <1>3, <1>4, <1>5, <1>6

LEMMA UsersType ==
    ASSUME TypeOK, Edit \/ Alter \/ Command \/ Stop
    PROVE  TypeOK'
<1>. USE SupervisionAssumption DEF Event, script, service, daemon
<1>1. CASE Edit
  BY <1>1 DEF Edit, TypeOK
<1>2. CASE Alter
  <2>1. broken' \subseteq {"binary", "dir"}
    BY <1>2 DEF Alter
  <2>2. events' \in 0 .. MaxEvents
    BY <1>2 DEF Alter, TypeOK
  <2>. QED BY <1>2, <2>1, <2>2 DEF Alter, TypeOK
<1>3. CASE Command
  BY <1>3 DEF Command, Call, TypeOK
<1>4. CASE Stop
  <2>1. events' \in 0 .. MaxEvents
    BY <1>4 DEF Stop, TypeOK
  <2>. QED BY <1>4, <2>1, StopsType DEF Stop, TypeOK
<1>. QED BY <1>1, <1>2, <1>3, <1>4

LEMMA NextType ==
    ASSUME TypeOK, [Next]_vars
    PROVE  TypeOK'
<1>1. CASE Triggered
  BY <1>1 DEF Triggered, Call, service, daemon, TypeOK
<1>2. CASE Respawn
  BY <1>2 DEF Respawn, Spawned, setting, script, TypeOK
<1>3. CASE UNCHANGED vars
  BY <1>3 DEF vars, setting, script, service, daemon, TypeOK
<1>. QED BY <1>1, <1>2, <1>3, PreparationType, ReloadType, StartType, DaemonType, UsersType
         DEF Next, System, Script, Daemon

\* At every moment the script, procd and the daemon are where the code can be, and
\* agree: procd's instance has a process exactly if the daemon runs, and only a
\* registered service has an instance.
THEOREM SupervisionTypeCorrect == SafeSpec => []TypeOK
<1>. QED BY InitType, NextType, PTL DEF SafeSpec

-----------------------------------------------------------------------------
(* What the daemon works with *)

\* The daemon holds a configuration it has validated itself, in this poll.
Validated == conf \in Acceptable \cup {NoFile}

LEMMA ValidatedStep ==
    ASSUME Validated, [Next]_vars
    PROVE  Validated'
<1>. USE DEF Validated, setting, script, service, daemon
<1>1. CASE Triggered \/ Edit \/ Alter \/ Command \/ UNCHANGED vars
  BY <1>1 DEF Triggered, Edit, Alter, Command, vars
<1>2. CASE Stop \/ Respawn \/ Kill
  BY <1>2 DEF Stop, Removed, Respawn, Spawned, Kill, Exited, Gone
<1>3. CASE ValidateConfig \/ LoadMainConfig \/ EnsureRuntimeDirs
  BY <1>3 DEF ValidateConfig, LoadMainConfig, EnsureRuntimeDirs, Refuse, Go, Emptied, Gone
<1>4. CASE Reload \/ StartService
  BY <1>4 DEF Reload, StartService, Removed, Opened, Emptied, Spawned, Gone
<1>5. CASE Boot \/ Poll \/ EndPoll
  BY <1>5 DEF Boot, Poll, EndPoll, Exit, Exited, Gone
<1>. QED BY <1>1, <1>2, <1>3, <1>4, <1>5 DEF Next, System, Script, Daemon

\* PollsAreRunnable: whatever was edited since the daemon started, at a poll every
\* enabled rule has a source and a provider that exist and agree with it in family,
\* and the provider its credentials.
THEOREM PollsOnlyRunnable == SafeSpec => []PollsAreRunnable
<1>1. Init => Validated
  BY DEF Init, Validated
<1>2. TypeOK /\ Validated => PollsAreRunnable
  <2>. SUFFICES ASSUME TypeOK, Validated, pc = "work", NEW n \in EnabledRules(Parsed[conf])
                PROVE  Runnable(Parsed[conf], n) /\ Supplied(Parsed[conf], n)
    BY DEF PollsAreRunnable
  <2>1. conf \in Acceptable
    BY DEF TypeOK, Validated
  <2>2. n \in DOMAIN Parsed[conf].rules
    BY DEF EnabledRules
  <2>. QED BY <2>1, <2>2, AcceptedConfigBinds
<1>. QED BY <1>1, <1>2, ValidatedStep, SupervisionTypeCorrect, PTL DEF SafeSpec
=============================================================================
