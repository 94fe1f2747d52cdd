------------------------------ MODULE SourcesProofs -----------------------------
(***************************************************************************)
(* Proofs about Sources for any router, any sources and any bounds.         *)
(***************************************************************************)
EXTENDS Sources, SequenceTheorems, WellFoundedInduction, TLAPS

-----------------------------------------------------------------------------
(* Selection *)

LEMMA FirstIsIn ==
    ASSUME NEW I \in SUBSET Nat, I # {}
    PROVE  First(I) \in I
<1>. DEFINE Less == {ss \in Nat \X Nat : ss[1] < ss[2]}
<1>0. IsWellFoundedOn(Less, Nat)
  BY NatLessThanWellFounded, Zenon DEF OpToRel
<1>1. PICK i \in I : \A j \in I : <<j, i>> \notin Less
  <2>. HIDE DEF Less
  <2>. QED BY <1>0, WFMin
<1>2. ASSUME NEW j \in I, j < i
      PROVE  FALSE
  <2>1. <<j, i>> \in Nat \X Nat /\ <<j, i>>[1] < <<j, i>>[2]
    BY <1>2
  <2>2. <<j, i>> \in Less
    BY <2>1
  <2>. QED BY <1>1, <2>2
<1>3. \A j \in I : i <= j
  BY <1>2
<1>. QED BY <1>3 DEF First

LEMMA DomainIsNat ==
    ASSUME NEW S, NEW s \in Seq(S)
    PROVE  DOMAIN s \subseteq Nat /\ \A i \in DOMAIN s : s[i] \in S
BY LenProperties, ElementOfSeq

LEMMA DelegatedType ==
    ASSUME NEW w \in Seq(Prefix)
    PROVE  Delegated(w) \subseteq Prefix
BY DomainIsNat DEF Delegated

LEMMA DelegatedConcat ==
    ASSUME NEW v \in Seq(Prefix), NEW w \in Seq(Prefix)
    PROVE  Delegated(v \o w) = Delegated(v) \cup Delegated(w)
<1>. DEFINE vw == v \o w
<1>1. /\ vw \in Seq(Prefix)
      /\ Len(vw) = Len(v) + Len(w)
      /\ \A i \in 1 .. Len(v) + Len(w) : vw[i] = IF i <= Len(v) THEN v[i] ELSE w[i - Len(v)]
  BY ConcatProperties
<1>2. /\ DOMAIN v = 1 .. Len(v) /\ Len(v) \in Nat
      /\ DOMAIN w = 1 .. Len(w) /\ Len(w) \in Nat
      /\ DOMAIN vw = 1 .. Len(v) + Len(w)
  BY <1>1, LenProperties
<1>. HIDE DEF vw
<1>3. {vw[i] : i \in DOMAIN vw} \subseteq {v[i] : i \in DOMAIN v} \cup {w[i] : i \in DOMAIN w}
  <2>. SUFFICES ASSUME NEW i \in DOMAIN vw
                PROVE  vw[i] \in {v[j] : j \in DOMAIN v} \cup {w[j] : j \in DOMAIN w}
    OBVIOUS
  <2>1. CASE i <= Len(v)
    BY <1>1, <1>2, <2>1
  <2>2. CASE ~(i <= Len(v))
    <3>1. i - Len(v) \in DOMAIN w /\ vw[i] = w[i - Len(v)]
      BY <1>1, <1>2, <2>2
    <3>. QED BY <3>1
  <2>. QED BY <2>1, <2>2
<1>4. {v[i] : i \in DOMAIN v} \subseteq {vw[i] : i \in DOMAIN vw}
  <2>. SUFFICES ASSUME NEW i \in DOMAIN v
                PROVE  v[i] \in {vw[j] : j \in DOMAIN vw}
    OBVIOUS
  <2>1. i \in DOMAIN vw /\ vw[i] = v[i]
    BY <1>1, <1>2
  <2>. QED BY <2>1
<1>5. {w[i] : i \in DOMAIN w} \subseteq {vw[i] : i \in DOMAIN vw}
  <2>. SUFFICES ASSUME NEW i \in DOMAIN w
                PROVE  w[i] \in {vw[j] : j \in DOMAIN vw}
    OBVIOUS
  <2>1. Len(v) + i \in DOMAIN vw /\ vw[Len(v) + i] = w[i]
    BY <1>1, <1>2
  <2>. QED BY <2>1
<1>6. {vw[i] : i \in DOMAIN vw} = {v[i] : i \in DOMAIN v} \cup {w[i] : i \in DOMAIN w}
  BY <1>3, <1>4, <1>5
<1>7. Delegated(vw) = Delegated(v) \cup Delegated(w)
  BY <1>6 DEF Delegated
<1>. QED BY <1>7 DEF vw

LEMMA EuiIsAddr ==
    ASSUME NEW p \in Prefix, NEW filter \in Prefix \cup {NoFilter, BadFilter}
    PROVE  Eui64(p, filter) \in Addr
<1>1. p.address \in Addr
  BY DEF Prefix
<1>2. filter \notin {NoFilter, BadFilter} => filter.address \in Addr
  BY DEF Prefix
<1>3. PICK b \in Addr : Eui64(p, filter) = <<b[1], b[2], EuiIid>>
  BY <1>1, <1>2 DEF Eui64
<1>. QED BY <1>3, Dhcpv6Assumption DEF Addr

\* What the selection for a DUID returns.
LEMMA DuidSelection ==
    ASSUME NEW ls \in Seq(Lease), NEW mine, NEW w, NEW filter,
           NEW r, r = SelectByDuid(ls, mine, w, filter, NoAddr), r # NoAddr
    PROVE  \E i \in DOMAIN ls : /\ ls[i].client \in mine
                                /\ r = ls[i].addr
                                /\ Fits(r, w, filter)
<1>1. FromLeases(ls, mine, w, filter) # {}
  BY DEF SelectByDuid
<1>2. FromLeases(ls, mine, w, filter) \in SUBSET Nat
  BY DomainIsNat DEF FromLeases
<1>3. First(FromLeases(ls, mine, w, filter)) \in FromLeases(ls, mine, w, filter)
  BY <1>1, <1>2, FirstIsIn
<1>4. r = ls[First(FromLeases(ls, mine, w, filter))].addr
  BY <1>1 DEF SelectByDuid
<1>. QED BY <1>3, <1>4 DEF FromLeases

\* What the selection for a MAC returns: an address that fits, from one of the
\* three tables, and one of the leases if any of them fits.
LEMMA MacSelection ==
    ASSUME NEW ls \in Seq(Lease), NEW mine, NEW ns \in Seq(Addr), NEW w \in Seq(Prefix),
           NEW filter \in Prefix \cup {NoFilter, BadFilter},
           NEW r, r = SelectByMac(ls, mine, ns, w, filter, NoAddr), r # NoAddr
    PROVE  /\ r \in Addr
           /\ Fits(r, w, filter)
           /\ FromLeases(ls, mine, w, filter) # {} =>
                 \E i \in DOMAIN ls : ls[i].client \in mine /\ r = ls[i].addr
<1>. DEFINE L == FromLeases(ls, mine, w, filter)
            N == FromNeighbours(ns, w, filter)
            E == FromMac(w, filter)
<1>1. L \in SUBSET Nat /\ N \in SUBSET Nat /\ E \in SUBSET Nat
  BY DomainIsNat DEF FromLeases, FromNeighbours, FromMac
<1>2. CASE L # {}
  <2>1. First(L) \in L
    BY <1>1, <1>2, FirstIsIn
  <2>2. r = ls[First(L)].addr
    BY <1>2 DEF SelectByMac
  <2>3. ls[First(L)] \in Lease
    BY <2>1, DomainIsNat DEF FromLeases
  <2>. QED BY <2>1, <2>2, <2>3 DEF FromLeases, Lease
<1>3. CASE L = {} /\ N # {}
  <2>1. First(N) \in N
    BY <1>1, <1>3, FirstIsIn
  <2>2. r = ns[First(N)]
    BY <1>3 DEF SelectByMac
  <2>3. ns[First(N)] \in Addr
    BY <2>1, DomainIsNat DEF FromNeighbours
  <2>4. First(N) \in DOMAIN ns /\ Fits(ns[First(N)], w, filter)
    BY <2>1 DEF FromNeighbours
  <2>. QED BY <1>3, <2>2, <2>3, <2>4
<1>4. CASE L = {} /\ N = {} /\ E # {}
  <2>1. First(E) \in E
    BY <1>1, <1>4, FirstIsIn
  <2>2. r = Eui64(w[First(E)], filter)
    BY <1>4 DEF SelectByMac
  <2>3. w[First(E)] \in Prefix
    BY <2>1, DomainIsNat DEF FromMac
  <2>4. w[First(E)] \in Delegated(w) /\ Fits(r, w, filter)
    BY <2>1, <2>2 DEF FromMac
  <2>5. r \in Addr
    BY <2>2, <2>3, EuiIsAddr
  <2>. QED BY <1>4, <2>2, <2>4, <2>5
<1>5. CASE L = {} /\ N = {} /\ E = {}
  BY <1>5 DEF SelectByMac
<1>. QED BY <1>2, <1>3, <1>4, <1>5

\* Without such a lease it is a neighbour, or computed for one of the prefixes.
LEMMA MacOtherwise ==
    ASSUME NEW ls \in Seq(Lease), NEW mine, NEW ns \in Seq(Addr), NEW w \in Seq(Prefix),
           NEW filter, FromLeases(ls, mine, w, filter) = {},
           NEW r, r = SelectByMac(ls, mine, ns, w, filter, NoAddr), r # NoAddr
    PROVE  (\E i \in DOMAIN ns : r = ns[i]) \/ (\E p \in Delegated(w) : r = Eui64(p, filter))
<1>. DEFINE N == FromNeighbours(ns, w, filter)
            E == FromMac(w, filter)
<1>1. N \in SUBSET Nat /\ E \in SUBSET Nat
  BY DomainIsNat DEF FromNeighbours, FromMac
<1>2. CASE N # {}
  <2>1. First(N) \in N
    BY <1>1, <1>2, FirstIsIn
  <2>2. r = ns[First(N)]
    BY <1>2 DEF SelectByMac
  <2>. QED BY <2>1, <2>2 DEF FromNeighbours
<1>3. CASE N = {} /\ E # {}
  <2>1. First(E) \in E
    BY <1>1, <1>3, FirstIsIn
  <2>2. r = Eui64(w[First(E)], filter)
    BY <1>3 DEF SelectByMac
  <2>. QED BY <2>1, <2>2 DEF FromMac
<1>4. CASE N = {} /\ E = {}
  BY <1>4 DEF SelectByMac
<1>. QED BY <1>2, <1>3, <1>4

-----------------------------------------------------------------------------
(* The inductive invariant *)

\* Which source is at which stage, and that nothing is remembered between runs.
StageOK ==
    /\ stage = "route" => source.kind \in {"dhcpv6_duid", "dhcpv6_mac"} /\ todo # 0
    /\ stage = "neigh" => source.kind = "dhcpv6_mac" /\ Delegated(wan) # {}
    /\ stage = "addr" => /\ source.kind = "interface" /\ todo # 0
                         /\ source.ifaces[todo] # Lo
    /\ stage = "script" => source.kind = "script"
    /\ stage = "idle" => wan = <<>> /\ found = NoAddr /\ child = "none"
    /\ stage # "idle" => result = NoAddr /\ router \in during

\* The lines in memory are those of the file at one moment of the run.
LeasesRead ==
    stage \in {"route", "neigh"} =>
        \E t \in during :
            /\ leases = IF t.file = "ok" THEN t.leases ELSE <<>>
            /\ source.kind = "dhcpv6_duid" => t.file = "ok"
            /\ source.leaseFile # "unset" => t.file # "unreadable"

\* A prefix every configured interface has all the time.
Lasting(p) ==
    \A t \in during : \A i \in DOMAIN source.ifaces : p \in Delegated(t.routes[source.ifaces[i]])

\* The prefixes in memory are prefixes of the run, and a lasting one is missing
\* only if no routes were listed.
WanRead ==
    stage \in {"route", "neigh"} =>
        /\ \A p \in Delegated(wan) : \E t \in during : p \in WanPrefixes(t)
        /\ \A p \in Prefix : Lasting(p) => wan = <<>> \/ p \in Delegated(wan)

\* The neighbours in memory were neighbours at one moment of the run.
NearRead ==
    IF stage = "neigh"
    THEN \A i \in DOMAIN near : \E t \in during : near[i] \in Heard(t)
    ELSE near = <<>>

\* The address in memory is one of the interface that was asked for it.
FoundRead ==
    stage = "addr" /\ found # NoAddr =>
        \E t \in during : found = t.links[source.ifaces[todo]]

SourcesInv ==
    /\ TypeOK
    /\ StageOK
    /\ LeasesRead
    /\ WanRead
    /\ NearRead
    /\ FoundRead
    /\ Grounded
    /\ LeasesComeFirst
-----------------------------------------------------------------------------
(* Types *)

LEMMA ConstantTypes ==
    ASSUME TypeOK
    PROVE  /\ source \in Source
           /\ source.ifaces \in Seq(Iface) /\ Len(source.ifaces) \in Nat \ {0}
           /\ DOMAIN source.ifaces = 1 .. Len(source.ifaces)
           /\ \A i \in 1 .. Len(source.ifaces) : source.ifaces[i] \in Iface
           /\ source.filter \in Prefix \cup {NoFilter, BadFilter}
           /\ source.kind \in Kind
           /\ router \in Router
           /\ during \subseteq Router
<1>1. source \in Source /\ router \in Router /\ during \subseteq Router
  BY SourcesAssumption DEF TypeOK
<1>2. /\ source.ifaces \in Seq(Iface) \ {<<>>}
      /\ source.filter \in Prefix \cup {NoFilter, BadFilter}
      /\ source.kind \in Kind
  BY <1>1 DEF Source
<1>3. Len(source.ifaces) \in Nat \ {0}
  BY <1>2, EmptySeq
<1>4. /\ DOMAIN source.ifaces = 1 .. Len(source.ifaces)
      /\ \A i \in 1 .. Len(source.ifaces) : source.ifaces[i] \in Iface
  BY <1>2, LenProperties, ElementOfSeq
<1>. QED BY <1>1, <1>2, <1>3, <1>4

LEMMA RouterTypes ==
    ASSUME NEW t \in Router
    PROVE  /\ t.leases \in Seq(Lease)
           /\ t.near \in Seq(Addr)
           /\ \A i \in Iface : t.routes[i] \in Seq(Prefix) /\ t.links[i] \in Addr \cup {NoAddr}
BY DEF Router

LEMMA SelectionTypes ==
    ASSUME TypeOK
    PROVE  /\ SelectByDuid(leases, Mine, wan, source.filter, NoAddr) \in Addr \cup {NoAddr}
           /\ SelectByMac(leases, MyMac, near, wan, source.filter, NoAddr) \in Addr \cup {NoAddr}
<1>1. /\ leases \in Seq(Lease) /\ near \in Seq(Addr) /\ wan \in Seq(Prefix)
      /\ source.filter \in Prefix \cup {NoFilter, BadFilter}
  BY ConstantTypes DEF TypeOK
<1>2. SelectByDuid(leases, Mine, wan, source.filter, NoAddr) \in Addr \cup {NoAddr}
  <2>1. \A i \in DOMAIN leases : leases[i].addr \in Addr
    <3>1. \A i \in DOMAIN leases : leases[i] \in Lease
      BY <1>1, DomainIsNat
    <3>. QED BY <3>1 DEF Lease
  <2>. QED BY <1>1, <2>1, DuidSelection
<1>3. SelectByMac(leases, MyMac, near, wan, source.filter, NoAddr) \in Addr \cup {NoAddr}
  BY <1>1, MacSelection
<1>. QED BY <1>2, <1>3

LEMMA EndType ==
    ASSUME TypeOK, NEW a \in Addr \cup {NoAddr}, End(a)
    PROVE  TypeOK'
<1>1. 0 \in 0 .. Len(source.ifaces)
  BY ConstantTypes
<1>2. <<>> \in Seq(Lease) /\ <<>> \in Seq(Addr) /\ <<>> \in Seq(Prefix)
  BY EmptySeq
<1>. QED BY <1>1, <1>2 DEF TypeOK, End, Child, Stage

LEMMA StartType ==
    ASSUME TypeOK, NEW s \in Stage, NEW i \in 0 .. Len(source.ifaces), Start(s, i),
           UNCHANGED <<source, router, memory, result, during, events>>
    PROVE  TypeOK'
BY DEF TypeOK, Start, Child, Stage, memory

\* The initial states and every step keep the types.
LEMMA InitType == Init => TypeOK
<1>. SUFFICES ASSUME Init
              PROVE  TypeOK
  OBVIOUS
<1>1. source \in Source
  BY SourcesAssumption DEF Init
<1>2. Len(source.ifaces) \in Nat
  BY <1>1, LenProperties DEF Source
<1>3. <<>> \in Seq(Lease) /\ <<>> \in Seq(Addr) /\ <<>> \in Seq(Prefix)
  BY EmptySeq
<1>4. 0 \in 0 .. Len(source.ifaces) /\ 0 \in 0 .. MaxEvents
  BY <1>2, SourcesAssumption
<1>. QED BY <1>3, <1>4 DEF Init, TypeOK, Child, Stage

LEMMA NextType ==
    ASSUME TypeOK, StageOK, [Next]_vars
    PROVE  TypeOK'
<1>. USE ConstantTypes
<1>1. CASE Begin
  <2>1. 1 \in 0 .. Len(source.ifaces) /\ 0 \in 0 .. Len(source.ifaces)
    OBVIOUS
  <2>2. <<>> \in Seq(Lease) /\ router.leases \in Seq(Lease)
    BY EmptySeq, RouterTypes
  <2>. QED BY <1>1, <2>1, <2>2, SourcesAssumption
           DEF TypeOK, Begin, Start, Child, Stage, memory, command
<1>2. CASE NextRoute
  <2>1. todo \in 0 .. Len(source.ifaces) /\ (todo < Len(source.ifaces) => todo + 1 \in 0 .. Len(source.ifaces))
    BY DEF TypeOK
  <2>. QED BY <1>2, <2>1, SelectionTypes, EndType, StartType DEF NextRoute, Stage
<1>3. CASE AfterNeighbours
  BY <1>3, SelectionTypes, EndType DEF AfterNeighbours
<1>4. CASE NextLink
  <2>1. todo \in 0 .. Len(source.ifaces) /\ (todo < Len(source.ifaces) => todo + 1 \in 0 .. Len(source.ifaces))
    BY DEF TypeOK
  <2>2. found \in Addr \cup {NoAddr} /\ Loopback \in Addr \cup {NoAddr}
    BY SourcesAssumption DEF TypeOK
  <2>. QED BY <1>4, <2>1, <2>2, EndType, StartType DEF NextLink, Inspect, Stage
<1>5. CASE AfterScript \/ Abort
  <2>1. found \in Addr \cup {NoAddr}
    BY DEF TypeOK
  <2>. QED BY <1>5, <2>1, EndType DEF AfterScript, Abort
<1>6. CASE TimedOut \/ Elapse \/ Fail \/ Block \/ Release
  BY <1>6 DEF TypeOK, TimedOut, Elapse, Fail, Block, Release, Child, memory
<1>7. CASE Exit
  <2>1. wan' \in Seq(Prefix)
    <3>1. CASE stage = "route"
      <4>1. source.ifaces[todo] \in Iface
        BY <3>1 DEF TypeOK, StageOK
      <4>2. router.routes[source.ifaces[todo]] \in Seq(Prefix)
        BY <4>1, RouterTypes
      <4>. QED BY <1>7, <3>1, <4>2, ConcatProperties DEF Exit, TypeOK
    <3>2. CASE stage # "route"
      BY <1>7, <3>2 DEF Exit, TypeOK
    <3>. QED BY <3>1, <3>2
  <2>2. near' \in Seq(Addr)
    BY <1>7, RouterTypes DEF Exit, TypeOK
  <2>3. found' \in Addr \cup {NoAddr}
    <3>1. CASE stage = "addr"
      <4>1. source.ifaces[todo] \in Iface
        BY <3>1 DEF TypeOK, StageOK
      <4>. QED BY <1>7, <3>1, <4>1, RouterTypes DEF Exit
    <3>2. CASE stage = "script"
      BY <1>7, <3>2 DEF Exit
    <3>3. CASE stage \notin {"addr", "script"}
      BY <1>7, <3>3 DEF Exit, TypeOK
    <3>. QED BY <3>1, <3>2, <3>3
  <2>. QED BY <1>7, <2>1, <2>2, <2>3 DEF Exit, TypeOK, Child
<1>8. CASE Change
  BY <1>8, SourcesAssumption DEF Change, TypeOK, command, memory
<1>9. CASE UNCHANGED vars
  BY <1>9 DEF TypeOK, vars
<1>. QED BY <1>1, <1>2, <1>3, <1>4, <1>5, <1>6, <1>7, <1>8, <1>9 DEF Next, Resolver, Process
-----------------------------------------------------------------------------
(* Stages *)

LEMMA EndStage ==
    ASSUME NEW a, End(a)
    PROVE  StageOK'
BY DEF StageOK, End

LEMMA NextStage ==
    ASSUME TypeOK, StageOK, [Next]_vars
    PROVE  StageOK'
<1>1. CASE Begin
  BY <1>1 DEF Begin, StageOK, Start, Readable, memory, command
<1>2. CASE NextRoute
  <2>1. CASE Start("route", todo + 1) /\ UNCHANGED <<source, router, memory, result, during>>
    <3>1. todo + 1 # 0
      BY <2>1, ConstantTypes DEF TypeOK
    <3>. QED BY <1>2, <2>1, <3>1 DEF NextRoute, StageOK, Start, memory
  <2>2. CASE /\ Start("neigh", todo)
             /\ UNCHANGED <<source, router, memory, result, during>>
             /\ source.kind # "dhcpv6_duid"
             /\ Delegated(wan) # {}
    BY <1>2, <2>2 DEF NextRoute, StageOK, Start, memory, Delegated
  <2>. QED BY <1>2, <2>1, <2>2, EndStage DEF NextRoute
<1>3. CASE AfterNeighbours \/ AfterScript \/ Abort
  BY <1>3, EndStage DEF AfterNeighbours, AfterScript, Abort
<1>4. CASE NextLink
  <2>1. todo \in Nat
    BY ConstantTypes DEF TypeOK
  <2>2. CASE /\ Start("addr", todo + 1)
             /\ source.ifaces[todo + 1] # Lo
             /\ UNCHANGED <<source, router, memory, result, during>>
    <3>1. /\ stage' = "addr" /\ todo' = todo + 1 /\ todo + 1 # 0
          /\ source' = source /\ result' = result /\ router' = router /\ during' = during
          /\ source.kind = "interface" /\ result = NoAddr /\ router \in during
      BY <1>4, <2>1, <2>2 DEF NextLink, StageOK, Start
    <3>. QED BY <2>2, <3>1 DEF StageOK
  <2>. QED BY <1>4, <2>2, EndStage DEF NextLink, Inspect
<1>5. CASE TimedOut \/ Elapse \/ Fail \/ Block \/ Release
  BY <1>5 DEF TimedOut, Elapse, Fail, Block, Release, StageOK, Delegated, memory
<1>6. CASE Exit
  <2>1. stage = "neigh" => wan' = wan
    BY <1>6 DEF Exit
  <2>2. stage # "idle"
    BY <1>6 DEF Exit, StageOK
  <2>. QED BY <1>6, <2>1, <2>2 DEF Exit, StageOK, Delegated
<1>7. CASE Change
  BY <1>7 DEF Change, StageOK, Delegated, memory, command
<1>8. CASE UNCHANGED vars
  BY <1>8 DEF vars, StageOK, Delegated
<1>. QED BY <1>1, <1>2, <1>3, <1>4, <1>5, <1>6, <1>7, <1>8 DEF Next, Resolver, Process

-----------------------------------------------------------------------------
(* What is read, and what is answered *)

Read == LeasesRead /\ WanRead /\ NearRead /\ FoundRead
Answer == Grounded /\ LeasesComeFirst

\* At the end of a run nothing is in memory.
LEMMA EndRead ==
    ASSUME NEW a, End(a)
    PROVE  Read'
BY DEF Read, LeasesRead, WanRead, NearRead, FoundRead, End

\* An error is no answer, and neither is a run in progress.
LEMMA NoAnswer ==
    ASSUME stage' # "idle" \/ result' = NoAddr
    PROVE  Answer'
BY DEF Answer, Grounded, LeasesComeFirst, Answered

\* Steps that leave memory, stage and answer alone.
LEMMA QuietStep ==
    ASSUME Read, Answer, UNCHANGED <<source, router, stage, todo, memory, result, during>>
    PROVE  Read' /\ Answer'
<1>1. \A t : Leased(t, Mine)' = Leased(t, Mine) /\ Leased(t, MyMac)' = Leased(t, MyMac)
  BY DEF Leased
<1>2. \A t : WanPrefixes(t)' = WanPrefixes(t) /\ Computed(t)' = Computed(t) /\ Heard(t)' = Heard(t)
  BY DEF WanPrefixes, Computed, Heard
<1>3. \A p : Lasting(p)' <=> Lasting(p)
  BY DEF Lasting
<1>4. Delegated(wan)' = Delegated(wan)
  BY DEF Delegated, memory
<1>5. Read'
  BY <1>2, <1>3, <1>4 DEF Read, LeasesRead, WanRead, NearRead, FoundRead, memory
<1>6. Grounded'
  BY <1>1, <1>2 DEF Answer, Grounded, Answered
<1>7. LeasesComeFirst'
  BY <1>1 DEF Answer, LeasesComeFirst, Answered
<1>. QED BY <1>5, <1>6, <1>7 DEF Answer

LEMMA BeginRead ==
    ASSUME TypeOK, StageOK, Read, Begin
    PROVE  Read' /\ Answer'
<1>1. stage' = "route" => Read' /\ Answer'
  <2>. SUFFICES ASSUME stage' = "route"
                PROVE  Read' /\ Answer'
    OBVIOUS
  <2>1. /\ stage = "idle" /\ during' = {router} /\ UNCHANGED <<source, wan>>
        /\ source.kind \in {"dhcpv6_duid", "dhcpv6_mac"}
        /\ Readable
        /\ near' = near
        /\ leases' = IF router.file = "ok" THEN router.leases ELSE <<>>
    BY DEF Begin, Start, StageOK
  <2>2. LeasesRead'
    BY <2>1 DEF LeasesRead, Readable
  <2>3. wan' = <<>>
    BY <2>1 DEF StageOK
  <2>4. Delegated(wan') = {}
    BY <2>3 DEF Delegated
  <2>5. WanRead'
    BY <2>3, <2>4 DEF WanRead
  <2>6. FoundRead'
    BY DEF FoundRead
  <2>7. Answer'
    BY NoAnswer
  <2>8. NearRead'
    BY <2>1 DEF Read, NearRead
  <2>. QED BY <2>2, <2>5, <2>6, <2>7, <2>8 DEF Read
<1>2. stage' \in {"script", "addr"} => Read' /\ Answer'
  <2>. SUFFICES ASSUME stage' \in {"script", "addr"}
                PROVE  Read' /\ Answer'
    OBVIOUS
  <2>1. found' = NoAddr /\ near' = <<>>
    BY DEF Begin, StageOK, Start, memory, Read, NearRead
  <2>. QED BY <2>1, NoAnswer DEF Read, LeasesRead, WanRead, NearRead, FoundRead
<1>3. stage' = "idle" => Read' /\ Answer'
  <2>. SUFFICES ASSUME stage' = "idle"
                PROVE  Read' /\ Answer'
    OBVIOUS
  <2>1. /\ UNCHANGED <<source, near>>
        /\ \/ result' = NoAddr
           \/ /\ source.kind = "interface" /\ result' = Loopback
              /\ source.ifaces[1] = Lo
    BY DEF Begin, Start, Readable, memory
  <2>2. Answer'
    <3>1. CASE result' = NoAddr
      BY <3>1, NoAnswer
    <3>2. CASE source.kind = "interface" /\ result' = Loopback /\ source.ifaces[1] = Lo
      <4>1. 1 \in DOMAIN source.ifaces
        BY ConstantTypes
      <4>2. Grounded'
        BY <2>1, <3>2, <4>1 DEF Grounded
      <4>. QED BY <2>1, <3>2, <4>2 DEF Answer, LeasesComeFirst
    <3>. QED BY <2>1, <3>1, <3>2
  <2>3. near' = <<>>
    BY <2>1 DEF Read, NearRead, Begin
  <2>. QED BY <2>2, <2>3 DEF Read, LeasesRead, WanRead, NearRead, FoundRead
<1>4. stage' \in {"route", "script", "addr", "idle"}
  BY DEF Begin, Start
<1>. QED BY <1>1, <1>2, <1>3, <1>4

\* A command has listed the prefixes of an interface, the neighbours, or an
\* address.
LEMMA ExitRead ==
    ASSUME TypeOK, StageOK, Read, Exit
    PROVE  Read' /\ Answer'
<1>1. /\ stage # "idle" /\ stage' = stage /\ router \in during
      /\ UNCHANGED <<source, router, leases, during>>
  BY DEF Exit, StageOK
<1>2. Answer'
  BY <1>1, NoAnswer
<1>3. LeasesRead'
  BY <1>1 DEF Read, LeasesRead
<1>4. FoundRead'
  <2>. SUFFICES ASSUME stage = "addr"
                PROVE  found' = router.links[source.ifaces[todo]]
    BY <1>1 DEF FoundRead, Exit
  <2>. QED BY DEF Exit
<1>5. WanRead'
  <2>1. CASE stage = "route"
    <3>. DEFINE i == source.ifaces[todo]
                R == router.routes[i]
    <3>1. todo \in DOMAIN source.ifaces /\ i \in Iface /\ R \in Seq(Prefix) /\ wan \in Seq(Prefix)
      BY <2>1, ConstantTypes, RouterTypes DEF TypeOK, StageOK
    <3>2. wan' = wan \o R
      BY <2>1 DEF Exit
    <3>3. Delegated(wan') = Delegated(wan) \cup Delegated(R)
      BY <3>1, <3>2, DelegatedConcat
    <3>4. \A p \in Delegated(R) : p \in WanPrefixes(router)
      BY <3>1 DEF WanPrefixes
    <3>5. \A t : WanPrefixes(t)' = WanPrefixes(t)
      BY <1>1 DEF WanPrefixes
    <3>6. \A p : Lasting(p)' => p \in Delegated(R)
      BY <1>1, <3>1 DEF Lasting
    <3>7. (\A p \in Delegated(wan) : \E t \in during : p \in WanPrefixes(t))
      BY <2>1 DEF Read, WanRead
    <3>8. \A p \in Delegated(wan') : \E t \in during' : p \in WanPrefixes(t)'
      BY <1>1, <3>3, <3>4, <3>5, <3>7
    <3>. QED BY <3>3, <3>6, <3>8 DEF WanRead
  <2>2. CASE stage = "neigh"
    <3>1. wan' = wan
      BY <2>2 DEF Exit
    <3>2. \A t : WanPrefixes(t)' = WanPrefixes(t)
      BY <1>1 DEF WanPrefixes
    <3>3. \A p : Lasting(p)' <=> Lasting(p)
      BY <1>1 DEF Lasting
    <3>. QED BY <1>1, <2>2, <3>1, <3>2, <3>3 DEF Read, WanRead
  <2>. QED BY <1>1, <2>1, <2>2 DEF WanRead
<1>6. NearRead'
  <2>1. CASE stage = "neigh"
    <3>1. near' = router.near
      BY <2>1 DEF Exit
    <3>. QED BY <1>1, <2>1, <3>1 DEF NearRead, Heard
  <2>2. CASE stage # "neigh"
    BY <1>1, <2>2 DEF Exit, Read, NearRead
  <2>. QED BY <2>1, <2>2
<1>. QED BY <1>2, <1>3, <1>4, <1>5, <1>6 DEF Read

\* While a run is in progress more states of the router belong to it.
LEMMA ChangeRead ==
    ASSUME StageOK, Read, Answer, Change
    PROVE  Read' /\ Answer'
<1>1. UNCHANGED <<source, stage, todo, memory, result>> /\ during \subseteq during'
  BY DEF Change
<1>2. \A t : WanPrefixes(t)' = WanPrefixes(t)
  BY <1>1 DEF WanPrefixes
<1>3. \A p : Lasting(p)' => Lasting(p)
  BY <1>1 DEF Lasting
<1>4. Delegated(wan)' = Delegated(wan)
  BY <1>1 DEF Delegated, memory
<1>5. LeasesRead'
  BY <1>1 DEF Read, LeasesRead, memory
<1>6. WanRead'
  BY <1>1, <1>2, <1>3, <1>4 DEF Read, WanRead, memory
<1>7. FoundRead' /\ NearRead'
  BY <1>1 DEF Read, FoundRead, NearRead, Heard, memory
<1>8. Answer'
  <2>1. CASE stage = "idle"
    <3>1. UNCHANGED <<source, stage, result, during>>
      BY <2>1 DEF Change
    <3>2. \A t : Leased(t, Mine)' = Leased(t, Mine) /\ Leased(t, MyMac)' = Leased(t, MyMac)
      BY DEF Leased
    <3>3. \A t : Heard(t)' = Heard(t) /\ Computed(t)' = Computed(t)
      BY <1>2, <3>1 DEF Heard, Computed
    <3>4. Grounded'
      BY <1>2, <3>1, <3>2, <3>3 DEF Answer, Grounded, Answered
    <3>5. LeasesComeFirst'
      BY <3>1, <3>2 DEF Answer, LeasesComeFirst, Answered
    <3>. QED BY <3>4, <3>5 DEF Answer
  <2>2. CASE stage # "idle"
    BY <1>1, <2>2, NoAnswer
  <2>. QED BY <2>1, <2>2
<1>. QED BY <1>5, <1>6, <1>7, <1>8 DEF Read

\* TypeOK: every variable keeps its type, whatever the commands return.
THEOREM SourcesTypeCorrect == SafeSpec => []TypeOK
<1>1. Init => TypeOK /\ StageOK
  BY InitType DEF Init, StageOK
<1>2. TypeOK /\ StageOK /\ [Next]_vars => TypeOK' /\ StageOK'
  BY NextType, NextStage
<1>. QED BY <1>1, <1>2, PTL DEF SafeSpec
\* The answer for a DUID.
LEMMA DuidAnswer ==
    ASSUME TypeOK, StageOK, Read, stage = "route", source.kind = "dhcpv6_duid",
           End(SelectByDuid(leases, Mine, wan, source.filter, NoAddr))
    PROVE  Answer'
<1>. DEFINE r == SelectByDuid(leases, Mine, wan, source.filter, NoAddr)
<1>1. CASE r = NoAddr
  BY <1>1, NoAnswer DEF End
<1>2. CASE r # NoAddr
  <2>1. leases \in Seq(Lease)
    BY DEF TypeOK
  <2>2. PICK i \in DOMAIN leases : /\ leases[i].client \in Mine
                                   /\ r = leases[i].addr
                                   /\ Fits(r, wan, source.filter)
    BY <1>2, <2>1, DuidSelection
  <2>3. UNCHANGED <<source, during>> /\ result' = r
    BY DEF End
  <2>4. PICK t \in during : t.file = "ok" /\ leases = t.leases
    BY DEF Read, LeasesRead
  <2>5. r \in Leased(t, Mine)
    BY <2>2, <2>4 DEF Leased
  <2>6. \E s \in during : \E p \in WanPrefixes(s) : Contains(p, r)
    BY <2>2 DEF Fits, Read, WanRead
  <2>7. IsPublic(r) /\ Within(source.filter, r)
    BY <2>2 DEF Fits
  <2>8. \A s : WanPrefixes(s)' = WanPrefixes(s) /\ Leased(s, Mine)' = Leased(s, Mine)
    BY <2>3 DEF WanPrefixes, Leased
  <2>. HIDE DEF r
  <2>9. Grounded'
    <3>1. \E s \in during' : \E p \in WanPrefixes(s)' : Contains(p, result')
      BY <2>3, <2>6, <2>8
    <3>2. IsPublic(result') /\ Within(source'.filter, result')
      BY <2>3, <2>7
    <3>3. \E s \in during' : s.file = "ok" /\ result' \in Leased(s, Mine)'
      BY <2>3, <2>4, <2>5, <2>8
    <3>4. \E s \in during' : s.file # "unreadable"
      BY <2>3, <2>4
    <3>. QED BY <2>3, <3>1, <3>2, <3>3, <3>4 DEF Grounded, Answered
  <2>10. LeasesComeFirst'
    BY <2>3 DEF LeasesComeFirst
  <2>. QED BY <2>9, <2>10 DEF Answer
<1>. QED BY <1>1, <1>2

\* The answer for a MAC.
LEMMA MacAnswer ==
    ASSUME TypeOK, StageOK, Read, stage = "neigh",
           NEW r, r = SelectByMac(leases, MyMac, near, wan, source.filter, NoAddr),
           End(r)
    PROVE  Answer'
<1>1. CASE r = NoAddr
  BY <1>1, NoAnswer DEF End
<1>2. CASE r # NoAddr
  <2>1. /\ leases \in Seq(Lease) /\ near \in Seq(Addr) /\ wan \in Seq(Prefix)
        /\ source.filter \in Prefix \cup {NoFilter, BadFilter}
        /\ source.kind = "dhcpv6_mac"
    BY ConstantTypes DEF TypeOK, StageOK
  <2>2. /\ Fits(r, wan, source.filter)
        /\ \/ \E i \in DOMAIN leases : leases[i].client \in MyMac /\ r = leases[i].addr
           \/ /\ FromLeases(leases, MyMac, wan, source.filter) = {}
              /\ \/ \E i \in DOMAIN near : r = near[i]
                 \/ \E p \in Delegated(wan) : r = Eui64(p, source.filter)
    <3>1. Fits(r, wan, source.filter)
      BY <1>2, <2>1, MacSelection
    <3> DEFINE own == FromLeases(leases, MyMac, wan, source.filter)
    <3>2. ASSUME own # {}
          PROVE  \E i \in DOMAIN leases : leases[i].client \in MyMac /\ r = leases[i].addr
      BY <1>2, <2>1, <3>2, MacSelection
    <3>3. ASSUME own = {}
          PROVE  \/ \E i \in DOMAIN near : r = near[i]
                 \/ \E p \in Delegated(wan) : r = Eui64(p, source.filter)
      BY <1>2, <2>1, <3>3, MacOtherwise
    <3>. QED BY <3>1, <3>2, <3>3
  <2>3. UNCHANGED <<source, during>> /\ result' = r
    BY DEF End
  <2>4. PICK t \in during : /\ leases = IF t.file = "ok" THEN t.leases ELSE <<>>
                            /\ source.leaseFile # "unset" => t.file # "unreadable"
    BY DEF Read, LeasesRead
  <2>5. \E s \in during : \E p \in WanPrefixes(s) : Contains(p, r)
    BY <2>2 DEF Fits, Read, WanRead
  <2>6. IsPublic(r) /\ Within(source.filter, r)
    BY <2>2 DEF Fits
  <2>7. \A s : /\ WanPrefixes(s)' = WanPrefixes(s) /\ Leased(s, MyMac)' = Leased(s, MyMac)
              /\ Heard(s)' = Heard(s) /\ Computed(s)' = Computed(s)
    BY <2>3 DEF WanPrefixes, Leased, Heard, Computed
  <2>10. \E s \in during : \/ s.file = "ok" /\ r \in Leased(s, MyMac)
                           \/ r \in Heard(s) \cup Computed(s)
    <3>1. CASE \E i \in DOMAIN leases : leases[i].client \in MyMac /\ r = leases[i].addr
      <4>1. leases = t.leases /\ t.file = "ok"
        <5>1. leases # <<>>
          BY <3>1
        <5>. QED BY <2>4, <5>1
      <4>. QED BY <3>1, <4>1 DEF Leased
    <3>2. CASE \E i \in DOMAIN near : r = near[i]
      BY <3>2 DEF Read, NearRead
    <3>3. CASE \E p \in Delegated(wan) : r = Eui64(p, source.filter)
      <4>1. PICK p \in Delegated(wan) : r = Eui64(p, source.filter)
        BY <3>3
      <4>2. PICK s \in during : p \in WanPrefixes(s)
        BY DEF Read, WanRead
      <4>3. r \in Computed(s)
        BY <4>1, <4>2 DEF Computed
      <4>. QED BY <4>3
    <3>. QED BY <2>2, <3>1, <3>2, <3>3
  <2>8. Grounded'
    <3>1. \E s \in during' : \E p \in WanPrefixes(s)' : Contains(p, result')
      BY <2>3, <2>5, <2>7
    <3>2. IsPublic(result') /\ Within(source'.filter, result')
      BY <2>3, <2>6
    <3>3. source'.leaseFile # "unset" => \E s \in during' : s.file # "unreadable"
      BY <2>3, <2>4
    <3>4. \E s \in during' : \/ s.file = "ok" /\ result' \in Leased(s, MyMac)'
                             \/ result' \in Heard(s)' \cup Computed(s)'
      BY <2>3, <2>7, <2>10
    <3>. QED BY <2>1, <2>3, <3>1, <3>2, <3>3, <3>4 DEF Grounded, Answered
  <2>9. LeasesComeFirst'
    <3>. SUFFICES ASSUME NEW a \in Addr, NEW p \in Prefix,
                         IsPublic(a), Contains(p, a), Within(source.filter, a),
                         \A s \in during :
                            /\ s.file = "ok"
                            /\ a \in Leased(s, MyMac)
                            /\ \A i \in DOMAIN source.ifaces :
                                  p \in Delegated(s.routes[source.ifaces[i]])
                  PROVE  r \in Leased(t, MyMac)
      <4>1. source' = source /\ during' = during /\ result' = r
        BY <2>3
      <4>. QED BY <2>4, <2>7, <4>1 DEF LeasesComeFirst
    <3>1. Lasting(p)
      BY DEF Lasting
    <3>2. wan # <<>>
      <4>1. Delegated(<<>>) = {}
        BY DEF Delegated
      <4>. QED BY <4>1 DEF StageOK
    <3>3. Fits(a, wan, source.filter)
      BY <3>1, <3>2 DEF Read, WanRead, Fits
    <3>4. leases = t.leases /\ a \in Leased(t, MyMac)
      BY <2>4
    <3>5. PICK i \in DOMAIN leases : leases[i].client \in MyMac /\ a = leases[i].addr
      BY <3>4 DEF Leased
    <3>6. i \in FromLeases(leases, MyMac, wan, source.filter)
      BY <3>3, <3>5 DEF FromLeases
    <3>7. PICK j \in DOMAIN leases : leases[j].client \in MyMac /\ r = leases[j].addr
      BY <2>2, <3>6
    <3>. QED BY <3>4, <3>7 DEF Leased
  <2>. QED BY <2>8, <2>9 DEF Answer
<1>. QED BY <1>1, <1>2

\* The answer for an interface is the address that was found, or that of lo.
LEMMA LinkAnswer ==
    ASSUME TypeOK, StageOK, Read, stage = "addr", NEW a, End(a),
           \/ a \in {found, NoAddr}
           \/ a = Loopback /\ \E i \in DOMAIN source.ifaces : source.ifaces[i] = Lo
    PROVE  Answer'
<1>1. UNCHANGED <<source, during>> /\ result' = a /\ source.kind = "interface"
  BY DEF End, StageOK
<1>2. LeasesComeFirst'
  BY <1>1 DEF LeasesComeFirst
<1>3. CASE a = NoAddr
  BY <1>1, <1>3, NoAnswer
<1>4. CASE a = found /\ found # NoAddr
  <2>1. todo \in DOMAIN source.ifaces /\ source.ifaces[todo] # Lo
    BY ConstantTypes DEF TypeOK, StageOK
  <2>2. \E t \in during : a = t.links[source.ifaces[todo]]
    BY <1>4 DEF Read, FoundRead
  <2>3. Grounded'
    BY <1>1, <2>1, <2>2 DEF Grounded
  <2>. QED BY <1>2, <2>3 DEF Answer
<1>5. CASE a = Loopback /\ \E i \in DOMAIN source.ifaces : source.ifaces[i] = Lo
  <2>1. Grounded'
    BY <1>1, <1>5 DEF Grounded
  <2>. QED BY <1>2, <2>1 DEF Answer
<1>. QED BY <1>3, <1>4, <1>5

-----------------------------------------------------------------------------
(* Theorems *)

LEMMA InitInv == Init => SourcesInv
<1>1. Init => TypeOK
  BY InitType
<1>. QED BY <1>1 DEF Init, SourcesInv, StageOK, LeasesRead, WanRead, NearRead, FoundRead,
                     Grounded, LeasesComeFirst, Answered

LEMMA NextInv == SourcesInv /\ [Next]_vars => SourcesInv'
<1>. SUFFICES ASSUME SourcesInv, [Next]_vars
              PROVE  SourcesInv'
  OBVIOUS
<1>1. TypeOK /\ StageOK /\ Read /\ Answer
  BY DEF SourcesInv, Read, Answer
<1>2. TypeOK' /\ StageOK'
  BY <1>1, NextType, NextStage
<1>3. Read' /\ Answer'
  <2>1. CASE Begin
    BY <1>1, <2>1, BeginRead
  <2>2. CASE NextRoute
    <3>1. CASE Start("route", todo + 1) /\ UNCHANGED <<source, router, memory, result, during>>
      <4>1. stage' = "route" /\ stage = "route"
        BY <2>2, <3>1 DEF Start, NextRoute
      <4>2. Answer'
        BY <4>1, NoAnswer
      <4>3. (\A t : WanPrefixes(t)' = WanPrefixes(t)) /\ (\A p : Lasting(p)' <=> Lasting(p))
        BY <3>1 DEF WanPrefixes, Lasting
      <4>4. Read'
        BY <1>1, <3>1, <4>1, <4>3 DEF Read, LeasesRead, WanRead, NearRead, FoundRead, memory, Delegated
      <4>. QED BY <4>2, <4>4
    <3>2. CASE Start("neigh", todo) /\ UNCHANGED <<source, router, memory, result, during>>
      <4>1. stage' = "neigh" /\ stage = "route"
        BY <2>2, <3>2 DEF Start, NextRoute
      <4>2. Answer'
        BY <4>1, NoAnswer
      <4>3. (\A t : WanPrefixes(t)' = WanPrefixes(t)) /\ (\A p : Lasting(p)' <=> Lasting(p))
        BY <3>2 DEF WanPrefixes, Lasting
      <4>4. Read'
        BY <1>1, <3>2, <4>1, <4>3 DEF Read, LeasesRead, WanRead, NearRead, FoundRead, memory, Delegated
      <4>. QED BY <4>2, <4>4
    <3>3. CASE End(NoAddr)
      BY <3>3, EndRead, NoAnswer DEF End
    <3>4. CASE /\ source.kind = "dhcpv6_duid"
               /\ End(SelectByDuid(leases, Mine, wan, source.filter, NoAddr))
      BY <1>1, <2>2, <3>4, EndRead, DuidAnswer DEF NextRoute
    <3>. QED BY <2>2, <3>1, <3>2, <3>3, <3>4 DEF NextRoute
  <2>3. CASE AfterNeighbours
    BY <1>1, <2>3, EndRead, MacAnswer DEF AfterNeighbours
  <2>4. CASE NextLink
    <3>1. CASE \/ End(found) \/ End(NoAddr)
               \/ /\ End(Loopback)
                  /\ todo < Len(source.ifaces)
                  /\ source.ifaces[todo + 1] = Lo
      <4>1. todo < Len(source.ifaces) => todo + 1 \in DOMAIN source.ifaces
        BY <1>1, ConstantTypes DEF TypeOK
      <4>2. stage = "addr"
        BY <2>4 DEF NextLink
      <4>3. CASE End(found) \/ End(NoAddr)
        BY <1>1, <4>2, <4>3, EndRead, LinkAnswer
      <4>4. CASE /\ End(Loopback)
                 /\ \E i \in DOMAIN source.ifaces : source.ifaces[i] = Lo
        BY <1>1, <4>2, <4>4, EndRead, LinkAnswer
      <4>. QED BY <3>1, <4>1, <4>3, <4>4
    <3>2. CASE found = NoAddr /\ Start("addr", todo + 1) /\ UNCHANGED memory
      <4>1. stage' = "addr" /\ found' = NoAddr /\ near' = <<>>
        BY <1>1, <2>4, <3>2 DEF Start, memory, NextLink, Read, NearRead
      <4>. QED BY <4>1, NoAnswer DEF Read, LeasesRead, WanRead, NearRead, FoundRead
    <3>. QED BY <2>4, <3>1, <3>2 DEF NextLink, Inspect
  <2>5. CASE AfterScript
    <3>1. /\ End(found) /\ UNCHANGED source
          /\ source.kind = "script"
      BY <1>1, <2>5 DEF AfterScript, StageOK, End
    <3>2. Answer'
      BY <3>1 DEF Answer, Grounded, LeasesComeFirst
    <3>. QED BY <3>1, <3>2, EndRead
  <2>6. CASE Abort
    BY <2>6, EndRead, NoAnswer DEF Abort, End
  <2>7. CASE TimedOut \/ Elapse \/ Fail \/ Block \/ Release
    <3>1. UNCHANGED <<source, router, stage, todo, memory, result, during>>
      BY <2>7 DEF TimedOut, Elapse, Fail, Block, Release
    <3>. QED BY <1>1, <3>1, QuietStep
  <2>8. CASE Exit
    BY <1>1, <2>8, ExitRead
  <2>9. CASE Change
    BY <1>1, <2>9, ChangeRead
  <2>10. CASE UNCHANGED vars
    <3>1. UNCHANGED <<source, router, stage, todo, memory, result, during>>
      BY <2>10 DEF vars, memory
    <3>. QED BY <1>1, <3>1, QuietStep
  <2>. QED BY <2>1, <2>2, <2>3, <2>4, <2>5, <2>6, <2>7, <2>8, <2>9, <2>10
           DEF Next, Resolver, Process
<1>. QED BY <1>2, <1>3 DEF SourcesInv, Read, Answer

\* Grounded: an address that is answered was the host's, inside a delegated
\* prefix and the filter, at moments of the run, however the tables changed
\* between the commands and whatever commands failed.
THEOREM AnswersGrounded == SafeSpec => []Grounded
<1>1. SourcesInv => Grounded
  BY DEF SourcesInv
<1>. QED BY <1>1, InitInv, NextInv, PTL DEF SafeSpec

\* LeasesComeFirst: a lease that qualifies throughout a run is preferred to
\* neighbours and computed addresses.
THEOREM LeasesPreferred == SafeSpec => []LeasesComeFirst
<1>1. SourcesInv => LeasesComeFirst
  BY DEF SourcesInv
<1>. QED BY <1>1, InitInv, NextInv, PTL DEF SafeSpec
=============================================================================
