------------------------------ MODULE HostsProofs ------------------------------
(***************************************************************************)
(* Proofs about Hosts: type correctness, that what is shown of a host was    *)
(* observed, and that its leases are not crowded out.                        *)
(***************************************************************************)
EXTENDS Hosts, FiniteSetTheorems, WellFoundedInduction, TLAPS

-----------------------------------------------------------------------------
(* Least and greatest *)

\* A set of naturals has a least one.
LEMMA Least ==
    ASSUME NEW S \in SUBSET Nat, S # {}
    PROVE  \E i \in S : \A j \in S : i <= j
  <1> DEFINE Less == {ss \in Nat \X Nat : ss[1] < ss[2]}
  <1>1. IsWellFoundedOn(Less, Nat)
    BY NatLessThanWellFounded, Zenon DEF OpToRel
  <1>2. PICK i \in S : \A j \in S : <<j, i>> \notin Less
    <2> HIDE DEF Less
    <2> QED
      BY <1>1, WFMin
  <1>3. ASSUME NEW j \in S, j < i
        PROVE  FALSE
    <2>1. <<j, i>> \in Nat \X Nat /\ <<j, i>>[1] < <<j, i>>[2]
      BY <1>3
    <2>2. <<j, i>> \in Less
      BY <2>1
    <2> QED
      BY <1>2, <2>2
  <1> QED
    BY <1>3

\* One that is bounded has a greatest one.
LEMMA Greatest ==
    ASSUME NEW S \in SUBSET Nat, S # {}, NEW n \in Nat, \A i \in S : i <= n
    PROVE  \E i \in S : \A j \in S : j <= i
  <1> DEFINE T == {n - i : i \in S}
  <1>1. T \in SUBSET Nat /\ T # {}
    <2>1. \A i \in S : n - i \in Nat
      OBVIOUS
    <2>2. T \subseteq Nat
      BY ONLY <2>1, Zenon
    <2> QED
      BY <2>2
  <1>2. PICK t \in T : \A u \in T : t <= u
    BY <1>1, Least
  <1>3. PICK i \in S : t = n - i
    OBVIOUS
  <1>4. ASSUME NEW j \in S
        PROVE  j <= i
    <2>1. t <= n - j
      BY <1>2
    <2> QED
      BY <1>3, <2>1
  <1> QED
    BY <1>4

-----------------------------------------------------------------------------
(* push_prefix *)

\* What a table offers a host: finitely many prefixes, each at its place.
Offered(T) ==
    /\ T \subseteq Nat \X Nat \X Prefix
    /\ IsFiniteSet(T)
    /\ \A x, y \in T : x[1] = y[1] /\ x[2] = y[2] => x = y

\* Of some of them one stands before all others.
LEMMA FirstOffer ==
    ASSUME NEW T, T \subseteq Nat \X Nat \X Prefix, T # {}
    PROVE  \E x \in T : \A y \in T : ~Before(y, x)
  <1>1. \A x \in T : x[1] \in Nat /\ x[2] \in Nat
    OBVIOUS
  <1> DEFINE R == {x[1] : x \in T}
  <1>2. PICK i \in R : \A j \in R : i <= j
    <2>1. R \in SUBSET Nat /\ R # {}
      BY <1>1
    <2> QED
      BY <2>1, Least
  <1> DEFINE P == {x[2] : x \in {y \in T : y[1] = i}}
  <1>3. PICK k \in P : \A j \in P : k <= j
    <2>1. P \in SUBSET Nat /\ P # {}
      BY <1>1, <1>2
    <2> QED
      BY <2>1, Least
  <1>4. PICK x \in T : x[1] = i /\ x[2] = k
    BY <1>3
  <1>5. ASSUME NEW y \in T, Before(y, x)
        PROVE  FALSE
    <2>1. i <= y[1] /\ i \in Nat
      BY <1>1, <1>2
    <2>2. y[1] = i => k <= y[2] /\ k \in Nat
      BY <1>1, <1>3
    <2> QED
      BY <1>1, <1>4, <1>5, <2>1, <2>2 DEF Before
  <1> QED
    BY <1>5

\* Before is a strict total order.
LEMMA BeforeOrder ==
    ASSUME NEW T, Offered(T)
    PROVE  /\ \A x \in T : ~Before(x, x)
           /\ \A x, y \in T : x # y => Before(x, y) \/ Before(y, x)
           /\ \A x, y, z \in T : Before(x, y) /\ Before(y, z) => Before(x, z)
  <1>1. \A x \in T : x[1] \in Nat /\ x[2] \in Nat
    BY DEF Offered
  <1>2. \A x, y \in T : x[1] = y[1] /\ x[2] = y[2] => x = y
    BY DEF Offered
  <1> QED
    BY <1>1, <1>2 DEF Before

LEMMA FiniteImage ==
    ASSUME NEW T, IsFiniteSet(T)
    PROVE  IsFiniteSet(PrefixesIn(T)) /\ Cardinality(PrefixesIn(T)) <= Cardinality(T)
  <1> DEFINE f == [x \in T |-> x[3]]
  <1>1. f \in Surjection(T, PrefixesIn(T))
    BY DEF Surjection, PrefixesIn
  <1> QED
    BY <1>1, FS_Surjection

\* Offers that are new are of different prefixes, none of which the host has.
LEMMA NewFacts ==
    ASSUME NEW have, NEW T, Offered(T)
    PROVE  /\ New(have, T) \subseteq T /\ Fits(have, T) \subseteq New(have, T)
           /\ IsFiniteSet(New(have, T)) /\ IsFiniteSet(Fits(have, T))
           /\ \A x \in New(have, T) : x[3] \notin have
           /\ \A x, y \in New(have, T) : x[3] = y[3] => x = y
  <1>1. New(have, T) \subseteq T /\ Fits(have, T) \subseteq New(have, T)
    BY DEF New, Fits
  <1>2. IsFiniteSet(New(have, T)) /\ IsFiniteSet(Fits(have, T))
    <2>1. IsFiniteSet(New(have, T))
      BY <1>1, FS_Subset DEF Offered
    <2> QED
      BY <1>1, <2>1, FS_Subset
  <1>3. \A x \in New(have, T) : x[3] \notin have
    BY DEF New
  <1>4. ASSUME NEW x \in New(have, T), NEW y \in New(have, T), x[3] = y[3], x # y
        PROVE  FALSE
    <2>1. ~Before(x, y) /\ ~Before(y, x)
      BY <1>4 DEF New
    <2> QED
      BY <1>1, <1>4, <2>1, BeforeOrder
  <1> QED
    BY <1>1, <1>2, <1>3, <1>4

\* The offers among the new ones that stand before one.
Earlier(have, T, x) == {y \in New(have, T) : Before(y, x)}

LEMMA EarlierFacts ==
    ASSUME NEW have, NEW T, Offered(T), NEW x \in New(have, T)
    PROVE  /\ IsFiniteSet(Earlier(have, T, x)) /\ Cardinality(Earlier(have, T, x)) \in Nat
           /\ \A y \in New(have, T) :
                 Before(x, y) => Cardinality(Earlier(have, T, x)) < Cardinality(Earlier(have, T, y))
  <1> DEFINE E(z) == Earlier(have, T, z)
  <1>1. \A z : IsFiniteSet(E(z)) /\ Cardinality(E(z)) \in Nat
    <2>1. \A z : E(z) \subseteq New(have, T)
      BY DEF Earlier
    <2> QED
      BY <2>1, NewFacts, FS_Subset, FS_CardinalityType
  <1>2. ASSUME NEW y \in New(have, T), Before(x, y)
        PROVE  Cardinality(E(x)) < Cardinality(E(y))
    <2>1. E(x) \cup {x} \subseteq E(y)
      <3>1. \A z \in E(x) : Before(z, y) /\ z \in New(have, T)
        BY <1>2, NewFacts, BeforeOrder DEF Earlier
      <3> QED
        BY <1>2, <3>1 DEF Earlier
    <2>2. x \notin E(x)
      BY NewFacts, BeforeOrder DEF Earlier
    <2>3. Cardinality(E(x) \cup {x}) = Cardinality(E(x)) + 1
      BY <1>1, <2>2, FS_AddElement
    <2>4. Cardinality(E(x) \cup {x}) <= Cardinality(E(y))
      BY <1>1, <2>1, FS_Subset
    <2> HIDE DEF E
    <2> QED
      BY <1>1, <2>3, <2>4
  <1> QED
    BY <1>1, <1>2

\* push_prefix keeps what a host has and adds nothing but what is offered.
LEMMA PushGrows ==
    ASSUME NEW have, IsFiniteSet(have), NEW T, Offered(T)
    PROVE  /\ have \subseteq Push(have, T)
           /\ Push(have, T) \subseteq have \cup PrefixesIn(T)
           /\ IsFiniteSet(Push(have, T))
  <1>1. PrefixesIn(Fits(have, T)) \subseteq PrefixesIn(T)
    BY NewFacts DEF PrefixesIn
  <1>2. IsFiniteSet(PrefixesIn(Fits(have, T)))
    BY NewFacts, FiniteImage
  <1> QED
    BY <1>1, <1>2, FS_Union DEF Push

\* push_prefix keeps the limit.
LEMMA PushBounded ==
    ASSUME NEW have, IsFiniteSet(have), Cardinality(have) <= MaxPrefixes, NEW T, Offered(T)
    PROVE  Cardinality(Push(have, T)) <= MaxPrefixes
  <1> DEFINE F == Fits(have, T)
             E(z) == Earlier(have, T, z)
  <1>1. Cardinality(have) \in Nat /\ MaxPrefixes \in Nat /\ IsFiniteSet(F) /\ Cardinality(F) \in Nat
    BY NewFacts, FS_CardinalityType, HostsAssumption
  <1>2. F \subseteq New(have, T)
    BY NewFacts
  <1>3. \A x \in F : Cardinality(E(x)) \in Nat /\ Cardinality(have) + Cardinality(E(x)) < MaxPrefixes
    BY <1>2, EarlierFacts DEF Fits, Earlier
  <1>4. Cardinality(have) + Cardinality(F) <= MaxPrefixes
    <2>1. CASE F = {}
      BY <1>1, <2>1, FS_EmptySet
    <2>2. CASE F # {}
      <3> DEFINE C == {Cardinality(E(x)) : x \in F}
      <3>1. C \in SUBSET Nat /\ C # {} /\ \A c \in C : c <= MaxPrefixes
        <4>1. \A x \in F : Cardinality(E(x)) \in Nat /\ Cardinality(E(x)) <= MaxPrefixes
          <5> HIDE DEF E, F
          <5> QED
            BY <1>1, <1>3
        <4> HIDE DEF E, F
        <4> QED
          BY <2>2, <4>1
      <3>2. PICK c \in C : \A d \in C : d <= c
        <4> HIDE DEF C
        <4> QED
          BY <1>1, <3>1, Greatest
      <3>3. PICK x \in F : c = Cardinality(E(x))
        OBVIOUS
      <3>4. F \subseteq E(x) \cup {x}
        <4>1. ASSUME NEW y \in F, y # x, ~Before(y, x)
              PROVE  FALSE
          <5>1. Before(x, y)
            BY <1>2, <4>1, NewFacts, BeforeOrder
          <5>2. Cardinality(E(x)) < Cardinality(E(y))
            BY <1>2, <5>1, EarlierFacts
          <5>3. Cardinality(E(y)) <= Cardinality(E(x))
            BY <3>2, <3>3
          <5> HIDE DEF E, F
          <5> QED
            BY <1>3, <5>2, <5>3
        <4> QED
          BY <1>2, <4>1 DEF Earlier
      <3>5. IsFiniteSet(E(x))
        BY <1>2, EarlierFacts
      <3>6. Cardinality(F) <= Cardinality(E(x) \cup {x}) /\ Cardinality(E(x) \cup {x}) <= Cardinality(E(x)) + 1
        <4> HIDE DEF E, F
        <4>1. Cardinality(E(x)) \in Nat
          BY <1>3
        <4> QED
          BY <3>4, <3>5, <4>1, FS_AddElement, FS_Subset
      <3> HIDE DEF E, F
      <3>7. Cardinality(E(x) \cup {x}) \in Nat
        BY <3>5, FS_AddElement, FS_CardinalityType
      <3> QED
        BY <1>1, <1>3, <3>6, <3>7
    <2> QED
      BY <2>1, <2>2
  <1>5. IsFiniteSet(PrefixesIn(F)) /\ Cardinality(PrefixesIn(F)) <= Cardinality(F)
        /\ Cardinality(PrefixesIn(F)) \in Nat
    BY <1>1, FiniteImage, FS_CardinalityType
  <1>6. Cardinality(have \cup PrefixesIn(F)) <= Cardinality(have) + Cardinality(PrefixesIn(F))
    <2>1. Cardinality(have \cap PrefixesIn(F)) \in Nat
      BY FS_Intersection, FS_CardinalityType
    <2>2. Cardinality(have \cup PrefixesIn(F)) =
            Cardinality(have) + Cardinality(PrefixesIn(F)) - Cardinality(have \cap PrefixesIn(F))
      BY <1>5, FS_Union
    <2> HIDE DEF F
    <2> QED
      BY <1>1, <1>5, <2>1, <2>2
  <1>7. Cardinality(have \cup PrefixesIn(F)) \in Nat
    BY <1>5, FS_Union, FS_CardinalityType
  <1>8. Push(have, T) = have \cup PrefixesIn(F)
    BY DEF Push
  <1> HIDE DEF F
  <1> QED
    BY <1>1, <1>4, <1>5, <1>6, <1>7, <1>8

\* What push_prefix leaves out finds the list full.
LEMMA PushFull ==
    ASSUME NEW have, IsFiniteSet(have), NEW T, Offered(T), NEW x \in T, x[3] \notin Push(have, T)
    PROVE  Cardinality(Push(have, T)) >= MaxPrefixes
  <1> DEFINE N == New(have, T)
             F == Fits(have, T)
  <1>1. PICK y \in T : y[3] = x[3] /\ \A z \in T : z[3] = x[3] => ~Before(z, y)
    <2> DEFINE S == {z \in T : z[3] = x[3]}
    <2>1. S \subseteq Nat \X Nat \X Prefix /\ S # {}
      BY DEF Offered
    <2>2. PICK y \in S : \A z \in S : ~Before(z, y)
      <3> HIDE DEF S
      <3> QED
        BY <2>1, FirstOffer
    <2> QED
      BY <2>2
  <1>2. y \in N \ F
    BY <1>1 DEF New, Push, PrefixesIn
  <1>3. PICK z \in N \ F : \A w \in N \ F : ~Before(w, z)
    <2>1. N \ F \subseteq Nat \X Nat \X Prefix /\ N \ F # {}
      BY <1>2, NewFacts DEF Offered
    <2> HIDE DEF N, F
    <2> QED
      BY <2>1, FirstOffer
  <1> DEFINE E == Earlier(have, T, z)
  <1>4. E \subseteq F /\ E \subseteq N /\ IsFiniteSet(E) /\ Cardinality(E) \in Nat
    BY <1>3, EarlierFacts DEF Earlier
  <1>5. ~(Cardinality(have) + Cardinality(E) < MaxPrefixes)
    BY <1>3 DEF Fits, Earlier
  <1> DEFINE Q == PrefixesIn(E)
             f == [w \in E |-> w[3]]
  <1>6. IsFiniteSet(Q) /\ Cardinality(Q) = Cardinality(E)
    <2>1. f \in Surjection(E, Q)
      BY DEF Surjection, PrefixesIn
    <2>2. f \in Injection(E, Q)
      <3>1. \A v, w \in E : v[3] = w[3] => v = w
        BY <1>4, NewFacts
      <3> QED
        BY <2>1, <3>1 DEF Surjection, Injection, IsInjective
    <2> HIDE DEF E, Q, f
    <2> QED
      BY <1>4, <2>1, <2>2, FS_Surjection
  <1>7. have \cap Q = {}
    BY <1>4, NewFacts DEF PrefixesIn
  <1>8. have \cup Q \subseteq Push(have, T)
    BY <1>4 DEF Push, PrefixesIn
  <1>9. Cardinality(have \cup Q) = Cardinality(have) + Cardinality(E)
    <2> HIDE DEF E, Q
    <2>1. Cardinality(have \cap Q) = 0
      BY <1>7, FS_EmptySet
    <2>2. Cardinality(have) \in Nat
      BY FS_CardinalityType
    <2>3. Cardinality(have \cup Q) =
            Cardinality(have) + Cardinality(Q) - Cardinality(have \cap Q)
      BY <1>6, FS_Union
    <2> QED
      BY <1>4, <1>6, <2>1, <2>2, <2>3
  <1>10. IsFiniteSet(Push(have, T)) /\ Cardinality(Push(have, T)) \in Nat /\ Cardinality(have) \in Nat
    BY PushGrows, FS_CardinalityType
  <1>11. Cardinality(have \cup Q) <= Cardinality(Push(have, T))
    BY <1>8, <1>10, FS_Subset
  <1> HIDE DEF E, Q
  <1> QED
    BY <1>4, <1>5, <1>9, <1>10, <1>11, HostsAssumption

\* If there is room for all that is offered, all of it is added.
LEMMA PushAll ==
    ASSUME NEW have, IsFiniteSet(have), NEW T, Offered(T),
           NEW all, IsFiniteSet(all), have \cup PrefixesIn(T) \subseteq all,
           Cardinality(all) <= MaxPrefixes
    PROVE  Push(have, T) = have \cup PrefixesIn(T)
  <1>1. SUFFICES ASSUME NEW x \in T, x[3] \notin Push(have, T)
                 PROVE  FALSE
    BY PushGrows DEF PrefixesIn
  <1>2. Push(have, T) \subseteq all /\ x[3] \in all
    BY PushGrows DEF PrefixesIn
  <1>3. Push(have, T) # all
    BY <1>1, <1>2
  <1>4. Cardinality(Push(have, T)) <= Cardinality(all) /\ Cardinality(Push(have, T)) # Cardinality(all)
    BY <1>2, <1>3, FS_Subset
  <1>5. Cardinality(Push(have, T)) >= MaxPrefixes
    BY <1>1, PushFull
  <1>6. Cardinality(Push(have, T)) \in Nat /\ Cardinality(all) \in Nat /\ MaxPrefixes \in Nat
    BY PushGrows, FS_CardinalityType, HostsAssumption
  <1> QED
    BY <1>4, <1>5, <1>6

-----------------------------------------------------------------------------
(* What the tables offer *)

\* The images of finitely many elements are finitely many.
LEMMA FiniteRange ==
    ASSUME NEW f, IsFiniteSet(DOMAIN f)
    PROVE  IsFiniteSet({f[x] : x \in DOMAIN f})
  <1> DEFINE R == {f[x] : x \in DOMAIN f}
             g == [x \in DOMAIN f |-> f[x]]
  <1>1. g \in Surjection(DOMAIN f, R)
    BY DEF Surjection
  <1> QED
    BY <1>1, FS_Surjection

\* The rows of the tables of odhcpd, of dnsmasq, and of both neighbour tables.
Line == [client : Client, iface : Iface, name : Name \cup {NoName}, prefixes : Seq(Prefix)]
Lease4 == [mac : Mac \cup {NoMac}, name : Name \cup {NoName}, addr : V4]
Near6 == [mac : Mac \cup {NoMac}, iface : Iface, addr : Addr]
Near4 == [mac : Mac \cup {NoMac}, addr : V4]

LEMMA RouterFacts ==
    ASSUME NEW t \in RouterStates
    PROVE  /\ t.odhcpd \in Seq(Line) /\ t.dnsmasq \in Seq(Lease4)
           /\ t.near6 \in Seq(Near6) /\ t.near4 \in Seq(Near4)
           /\ t.routes \in Seq(Net) /\ t.up \subseteq Addr
  BY HostsAssumption DEF Router, Line, Lease4, Near6, Near4

\* Finitely many places in a sequence, each a positive number with an element.
LEMMA Places ==
    ASSUME NEW S, NEW s \in Seq(S)
    PROVE  /\ IsFiniteSet(DOMAIN s) /\ DOMAIN s \subseteq Nat
           /\ \A i \in DOMAIN s : s[i] \in S /\ i <= Len(s)
           /\ Len(s) \in Nat
  <1>1. DOMAIN s = 1 .. Len(s) /\ Len(s) \in Nat
    OBVIOUS
  <1>2. IsFiniteSet(1 .. Len(s))
    BY <1>1, FS_Interval
  <1> QED
    BY <1>1, <1>2

\* Leases are offered row by row, and in a row prefix by prefix.
LEMMA LeasesOffered ==
    ASSUME NEW lines \in Seq(Line), NEW I \in SUBSET DOMAIN lines
    PROVE  Offered(Leases(lines, I))
  <1>1. IsFiniteSet(I) /\ I \subseteq Nat /\ \A i \in I : lines[i] \in Line
    BY Places, FS_Subset
  <1>2. ASSUME NEW i \in I
        PROVE  /\ PublicOf(lines[i]) \subseteq DOMAIN lines[i].prefixes
               /\ IsFiniteSet(PublicOf(lines[i])) /\ PublicOf(lines[i]) \subseteq Nat
               /\ \A k \in PublicOf(lines[i]) : lines[i].prefixes[k] \in Prefix
    <2>1. PublicOf(lines[i]) \subseteq DOMAIN lines[i].prefixes
      BY DEF PublicOf, PublicIn
    <2>2. lines[i].prefixes \in Seq(Prefix)
      BY <1>1 DEF Line
    <2> QED
      BY <2>1, <2>2, Places, FS_Subset
  <1> DEFINE Of(i) == {<<i, k, lines[i].prefixes[k]>> : k \in PublicOf(lines[i])}
             F == [i \in I |-> Of(i)]
  <1>3. \A i \in I : IsFiniteSet(Of(i))
    <2> SUFFICES ASSUME NEW i \in I
                 PROVE  IsFiniteSet(Of(i))
      OBVIOUS
    <2> DEFINE g == [k \in PublicOf(lines[i]) |-> <<i, k, lines[i].prefixes[k]>>]
    <2>1. IsFiniteSet({g[k] : k \in DOMAIN g})
      BY <1>2, FiniteRange
    <2>2. {g[k] : k \in DOMAIN g} = Of(i)
      OBVIOUS
    <2> QED
      BY <2>1, <2>2
  <1>4. IsFiniteSet({F[i] : i \in DOMAIN F})
    BY <1>1, FiniteRange
  <1>5. {F[i] : i \in DOMAIN F} = {Of(i) : i \in I}
    BY Zenon
  <1>6. \A T \in {Of(i) : i \in I} : IsFiniteSet(T)
    BY <1>3
  <1>7. IsFiniteSet(UNION {Of(i) : i \in I})
    BY <1>4, <1>5, <1>6, FS_UNION
  <1>8. Leases(lines, I) = UNION {Of(i) : i \in I}
    BY DEF Leases
  <1>9. \A x \in Leases(lines, I) :
          \E i \in I : \E k \in PublicOf(lines[i]) : x = <<i, k, lines[i].prefixes[k]>>
    BY DEF Leases
  <1>10. Leases(lines, I) \subseteq Nat \X Nat \X Prefix
    BY <1>1, <1>2, <1>9
  <1>11. \A x, y \in Leases(lines, I) : x[1] = y[1] /\ x[2] = y[2] => x = y
    BY <1>9
  <1> QED
    BY <1>7, <1>8, <1>10, <1>11 DEF Offered

LEMMA HostIsPrefix ==
    ASSUME NEW a \in Addr
    PROVE  Host(a) \in Prefix
  BY DEF Host, Prefix

\* Neighbours offer their addresses in the order of the table.
LEMMA NearOffered ==
    ASSUME NEW rows \in Seq(Near6), NEW I \in SUBSET DOMAIN rows
    PROVE  Offered(NearPrefixes(rows, I))
  <1>1. IsFiniteSet(I) /\ I \subseteq Nat /\ \A i \in I : rows[i] \in Near6
    BY Places, FS_Subset
  <1> DEFINE f == [i \in I |-> <<i, 1, Host(rows[i].addr)>>]
  <1>2. IsFiniteSet({f[i] : i \in DOMAIN f})
    BY <1>1, FiniteRange
  <1>3. {f[i] : i \in DOMAIN f} = NearPrefixes(rows, I)
    BY DEF NearPrefixes
  <1>4. \A i \in I : Host(rows[i].addr) \in Prefix
    BY <1>1, HostIsPrefix DEF Near6
  <1>5. NearPrefixes(rows, I) \subseteq Nat \X Nat \X Prefix
    BY <1>1, <1>4 DEF NearPrefixes
  <1>6. \A x, y \in NearPrefixes(rows, I) : x[1] = y[1] /\ x[2] = y[2] => x = y
    BY DEF NearPrefixes
  <1> QED
    BY <1>2, <1>3, <1>5, <1>6 DEF Offered

\* Guessed addresses are offered in the order of the networks.
LEMMA GuessesOffered ==
    ASSUME nets \in Seq(Net), NEW m \in Mac, NEW pinged
    PROVE  Offered(Guesses(m, pinged))
  <1> DEFINE I == {j \in DOMAIN nets : <<m, j>> \in pinged}
             a == [k \in I |-> Host(Eui[<<m, nets[k]>>])]
             f == [k \in I |-> <<k, 1, a[k]>>]
  <1>1. IsFiniteSet(I) /\ I \subseteq Nat /\ \A k \in I : nets[k] \in Net
    BY Places, FS_Subset
  <1>2. IsFiniteSet({f[i] : i \in DOMAIN f})
    BY <1>1, FiniteRange
  <1>3. Guesses(m, pinged) = {<<k, 1, a[k]>> : k \in I}
    BY DEF Guesses
  <1>4. \A k \in I : a[k] \in Prefix
    <2>1. \A k \in I : Eui[<<m, nets[k]>>] \in Addr
      BY <1>1, HostsAssumption
    <2> QED
      BY <2>1, HostIsPrefix
  <1> HIDE DEF I, a
  <1>5. {f[i] : i \in DOMAIN f} = {<<k, 1, a[k]>> : k \in I}
    OBVIOUS
  <1>6. Guesses(m, pinged) \subseteq Nat \X Nat \X Prefix
    BY <1>1, <1>3, <1>4
  <1>7. \A x, y \in Guesses(m, pinged) : x[1] = y[1] /\ x[2] = y[2] => x = y
    BY <1>3
  <1> QED
    BY <1>2, <1>3, <1>5, <1>6, <1>7 DEF Offered

-----------------------------------------------------------------------------
(* What an entry holds, and how the tables change it *)

\* A well-formed entry: typed, with few prefixes; and a list of such entries.
EntryOK(e) == e \in Entry /\ IsFiniteSet(e.prefixes) /\ Cardinality(e.prefixes) <= MaxPrefixes
ListOK(list) == DOMAIN list \subseteq Mac /\ \A m \in DOMAIN list : EntryOK(list[m])

\* The entry of a host before a table is added.
Base(list, m) == IF m \in DOMAIN list THEN list[m] ELSE Blank

LEMMA BaseOK ==
    ASSUME NEW list, ListOK(list), NEW m
    PROVE  EntryOK(Base(list, m))
  <1>1. EntryOK(Blank)
    BY FS_EmptySet, HostsAssumption DEF EntryOK, Blank, Entry
  <1> QED
    BY <1>1 DEF Base, ListOK

LEMMA WithIs ==
    ASSUME NEW list, NEW macs
    PROVE  /\ DOMAIN With(list, macs) = DOMAIN list \cup macs
           /\ \A m \in DOMAIN list \cup macs : With(list, macs)[m] = Base(list, m)
  BY DEF With, Base

\* Min and Max of a set of places are among them.
LEMMA MinMax ==
    ASSUME NEW S \in SUBSET Nat, S # {}
    PROVE  /\ Min(S) \in S
           /\ \A n \in Nat : (\A i \in S : i <= n) => Max(S) \in S
  <1>1. \E i \in S : \A j \in S : i <= j
    BY Least
  <1>2. ASSUME NEW n \in Nat, \A i \in S : i <= n
        PROVE  \E i \in S : \A j \in S : i >= j
    <2>1. PICK i \in S : \A j \in S : j <= i
      BY <1>2, Greatest
    <2>2. \A j \in S : i >= j
      BY <2>1
    <2> QED
      BY <2>2
  <1> QED
    BY <1>1, <1>2 DEF Min, Max

LEMMA NamedIsName ==
    ASSUME NEW name \in Name \cup {NoName}, NEW rows, NEW I \in SUBSET Nat,
           \A i \in I : rows[i].name \in Name \cup {NoName}
    PROVE  Named(name, rows, I) \in Name \cup {NoName}
  <1> DEFINE named == {i \in I : rows[i].name # NoName}
  <1>1. named # {} => Min(named) \in I
    <2>1. named \subseteq Nat /\ named \subseteq I
      OBVIOUS
    <2> HIDE DEF named
    <2> QED
      BY <2>1, MinMax
  <1>2. Named(name, rows, I) =
          IF name # NoName \/ named = {} THEN name ELSE rows[Min(named)].name
    BY DEF Named
  <1> HIDE DEF named
  <1> QED
    BY <1>1, <1>2

\* An entry with what the lines of the host say.
Leaseholder(b, lines, mine) ==
    [b EXCEPT !.client = lines[Max(mine)].client,
              !.name = Named(b.name, lines, mine),
              !.ifaces = b.ifaces \cup {lines[i].iface : i \in mine},
              !.prefixes = Push(b.prefixes, Leases(lines, mine))]

\* add_dhcpv6_entries leaves alone the hosts that have no line, and gives the
\* others what their lines say.
LEMMA OdhcpdIs ==
    ASSUME NEW list, ListOK(list), NEW lines \in Seq(Line)
    PROVE  /\ DOMAIN AddOdhcpd(list, lines) \subseteq Mac
           /\ \A i \in Taken(lines) : MacOf[lines[i].client] \in DOMAIN AddOdhcpd(list, lines)
           /\ \A m \in DOMAIN AddOdhcpd(list, lines) :
                \/ /\ LinesOf(lines, m) = {}
                   /\ AddOdhcpd(list, lines)[m] = Base(list, m)
                \/ /\ Max(LinesOf(lines, m)) \in LinesOf(lines, m)
                   /\ AddOdhcpd(list, lines)[m] =
                        Leaseholder(Base(list, m), lines, LinesOf(lines, m))
  <1> DEFINE macs == {MacOf[lines[i].client] : i \in Taken(lines)}
             all == With(list, macs)
  <1>1. macs \subseteq Mac
    <2> SUFFICES ASSUME NEW i \in Taken(lines)
                 PROVE  MacOf[lines[i].client] \in Mac
      OBVIOUS
    <2>1. i \in DOMAIN lines /\ MacOf[lines[i].client] # NoMac
      BY DEF Taken, Usable
    <2>2. lines[i].client \in Client
      <3>1. lines[i] \in Line
        BY <2>1, Places
      <3> QED
        BY <3>1 DEF Line
    <2> QED
      BY <2>1, <2>2, HostsAssumption
  <1>2. DOMAIN all = DOMAIN list \cup macs /\ \A m \in DOMAIN all : all[m] = Base(list, m)
    BY WithIs
  <1>3. DOMAIN AddOdhcpd(list, lines) = DOMAIN all
    BY DEF AddOdhcpd
  <1>4. ASSUME NEW m \in DOMAIN all, LinesOf(lines, m) # {}
        PROVE  Max(LinesOf(lines, m)) \in LinesOf(lines, m)
    <2>1. LinesOf(lines, m) \subseteq DOMAIN lines
      BY DEF LinesOf, Taken, Usable
    <2>2. LinesOf(lines, m) \in SUBSET Nat /\ Len(lines) \in Nat
          /\ \A i \in LinesOf(lines, m) : i <= Len(lines)
      BY <2>1, Places
    <2> QED
      BY <1>4, <2>2, MinMax
  <1>5. \A m \in DOMAIN all :
          AddOdhcpd(list, lines)[m] =
            IF LinesOf(lines, m) = {} THEN all[m]
            ELSE Leaseholder(all[m], lines, LinesOf(lines, m))
    BY DEF AddOdhcpd, Leaseholder
  <1>6. macs \subseteq DOMAIN all
    BY <1>2
  <1>7. DOMAIN all \subseteq Mac
    BY <1>1, <1>2 DEF ListOK
  <1> HIDE DEF all
  <1> QED
    BY <1>2, <1>3, <1>4, <1>5, <1>6, <1>7

LEMMA OdhcpdOK ==
    ASSUME NEW list, ListOK(list), NEW lines \in Seq(Line)
    PROVE  ListOK(AddOdhcpd(list, lines))
  <1> SUFFICES ASSUME NEW m \in DOMAIN AddOdhcpd(list, lines)
               PROVE  EntryOK(AddOdhcpd(list, lines)[m])
    BY OdhcpdIs DEF ListOK
  <1> DEFINE e == AddOdhcpd(list, lines)[m]
             b == Base(list, m)
             mine == LinesOf(lines, m)
  <1>1. EntryOK(b)
    BY BaseOK
  <1>2. CASE mine = {}
    BY <1>1, <1>2, OdhcpdIs
  <1>3. CASE mine # {}
    <2>1. mine \subseteq DOMAIN lines
      BY DEF LinesOf, Taken, Usable
    <2>2. \A i \in mine : lines[i] \in Line /\ i \in Nat
      BY <2>1, Places
    <2>3. Max(mine) \in mine /\ e = Leaseholder(b, lines, mine)
      BY <1>3, OdhcpdIs
    <2>4. b \in Entry /\ IsFiniteSet(b.prefixes) /\ Cardinality(b.prefixes) <= MaxPrefixes
      BY <1>1 DEF EntryOK
    <2>5. Named(b.name, lines, mine) \in Name \cup {NoName}
      BY <2>2, <2>4, NamedIsName DEF Line, Entry
    <2> DEFINE pushed == Push(b.prefixes, Leases(lines, mine))
    <2>6. pushed \subseteq Prefix /\ IsFiniteSet(pushed) /\ Cardinality(pushed) <= MaxPrefixes
      <3>1. Offered(Leases(lines, mine))
        BY <2>1, LeasesOffered
      <3>2. PrefixesIn(Leases(lines, mine)) \subseteq Prefix
        BY <3>1 DEF Offered, PrefixesIn
      <3> QED
        BY <2>4, <3>1, <3>2, PushGrows, PushBounded DEF Entry
    <2>7. lines[Max(mine)].client \in Client /\ {lines[i].iface : i \in mine} \subseteq Iface
      BY <2>2, <2>3 DEF Line
    <2> HIDE DEF b, mine, pushed
    <2>8. e \in Entry /\ e.prefixes = pushed
      BY <2>3, <2>4, <2>5, <2>6, <2>7 DEF Entry, pushed, Leaseholder
    <2> QED
      BY <2>6, <2>8 DEF EntryOK
  <1> QED
    BY <1>2, <1>3

\* add_dhcpv4_entries touches neither prefixes nor leases.
LEMMA DnsmasqIs ==
    ASSUME NEW list, ListOK(list), NEW rows \in Seq(Lease4)
    PROVE  /\ ListOK(AddDnsmasq(list, rows))
           /\ DOMAIN list \subseteq DOMAIN AddDnsmasq(list, rows)
           /\ \A m \in DOMAIN AddDnsmasq(list, rows) :
                /\ AddDnsmasq(list, rows)[m].client = Base(list, m).client
                /\ AddDnsmasq(list, rows)[m].prefixes = Base(list, m).prefixes
                /\ \A a \in AddDnsmasq(list, rows)[m].ipv4 :
                     a \in Base(list, m).ipv4 \/ \E i \in RowsOf(rows, m) : rows[i].addr = a
  <1> DEFINE all == With(list, MacsOf(rows))
             new == AddDnsmasq(list, rows)
  <1>1. \A i \in DOMAIN rows : i \in Nat /\ rows[i] \in Lease4
    BY Places
  <1>2. MacsOf(rows) \subseteq Mac
    BY <1>1 DEF MacsOf, Lease4
  <1>3. DOMAIN all = DOMAIN list \cup MacsOf(rows) /\ \A m \in DOMAIN all : all[m] = Base(list, m)
    BY WithIs
  <1>4. DOMAIN new = DOMAIN all /\ DOMAIN all \subseteq Mac
    BY <1>2, <1>3 DEF AddDnsmasq, ListOK
  <1>5. ASSUME NEW m \in DOMAIN new
        PROVE  /\ EntryOK(new[m])
               /\ new[m].client = Base(list, m).client
               /\ new[m].prefixes = Base(list, m).prefixes
               /\ \A a \in new[m].ipv4 :
                    a \in Base(list, m).ipv4 \/ \E i \in RowsOf(rows, m) : rows[i].addr = a
    <2> DEFINE b == Base(list, m)
               name == Named(b.name, rows, RowsOf(rows, m))
               addrs == {rows[i].addr : i \in RowsOf(rows, m)} \cap Private
    <2>1. new[m] = [b EXCEPT !.name = name, !.ipv4 = b.ipv4 \cup addrs]
      <3>1. new[m] = [all[m] EXCEPT !.name = Named(@, rows, RowsOf(rows, m)),
                                    !.ipv4 = @ \cup addrs]
        BY <1>4 DEF AddDnsmasq
      <3>2. all[m] = b
        BY <1>3, <1>4
      <3> QED
        BY <3>1, <3>2
    <2>2. EntryOK(b)
      BY BaseOK
    <2>3. name \in Name \cup {NoName}
      <3>1. RowsOf(rows, m) \subseteq Nat
            /\ \A i \in RowsOf(rows, m) : rows[i].name \in Name \cup {NoName}
        BY <1>1 DEF RowsOf, Lease4
      <3> QED
        BY <2>2, <3>1, NamedIsName DEF EntryOK, Entry
    <2>4. addrs \subseteq V4 /\ \A a \in addrs : \E i \in RowsOf(rows, m) : rows[i].addr = a
      BY HostsAssumption
    <2> HIDE DEF b, name, addrs, new
    <2>5. b \in Entry
      BY <2>2 DEF EntryOK
    <2>6. /\ new[m] \in Entry /\ new[m].prefixes = b.prefixes /\ new[m].client = b.client
          /\ new[m].ipv4 = b.ipv4 \cup addrs
      BY <2>1, <2>3, <2>4, <2>5 DEF Entry
    <2>7. EntryOK(new[m])
      BY <2>2, <2>6 DEF EntryOK
    <2> QED
      BY <2>4, <2>6, <2>7 DEF b
  <1> QED
    BY <1>3, <1>4, <1>5 DEF ListOK

\* An entry that is offered prefixes, and interfaces; it stays well formed.
Offer(b, T, ifaces) ==
    [b EXCEPT !.ifaces = b.ifaces \cup ifaces, !.prefixes = Push(b.prefixes, T)]

LEMMA PushedOK ==
    ASSUME NEW b, EntryOK(b), NEW T, Offered(T), NEW ifaces \in SUBSET (Iface \cup Mac)
    PROVE  EntryOK(Offer(b, T, ifaces))
  <1> DEFINE pushed == Push(b.prefixes, T)
             e == Offer(b, T, ifaces)
  <1>1. b \in Entry /\ IsFiniteSet(b.prefixes) /\ Cardinality(b.prefixes) <= MaxPrefixes
    BY DEF EntryOK
  <1>2. pushed \subseteq Prefix /\ IsFiniteSet(pushed) /\ Cardinality(pushed) <= MaxPrefixes
    <2>1. PrefixesIn(T) \subseteq Prefix
      BY DEF Offered, PrefixesIn
    <2> QED
      BY <1>1, <2>1, PushGrows, PushBounded DEF Entry
  <1> HIDE DEF pushed
  <1>3. e \in Entry /\ e.prefixes = pushed
    BY <1>1, <1>2 DEF Entry, Offer, pushed
  <1> QED
    BY <1>2, <1>3 DEF EntryOK, pushed

\* The neighbours that count and are of one host.
NearBy(rows, m) == {i \in Near(rows) : rows[i].mac = m}

\* add_ndp_entries offers to each host its addresses.
LEMMA NeighboursAre ==
    ASSUME NEW list, ListOK(list), NEW rows \in Seq(Near6)
    PROVE  /\ ListOK(AddNeighbours(list, rows))
           /\ DOMAIN list \subseteq DOMAIN AddNeighbours(list, rows)
           /\ \A m \in DOMAIN AddNeighbours(list, rows) :
                /\ AddNeighbours(list, rows)[m].client = Base(list, m).client
                /\ AddNeighbours(list, rows)[m].ipv4 = Base(list, m).ipv4
                /\ AddNeighbours(list, rows)[m].prefixes =
                     Push(Base(list, m).prefixes, NearPrefixes(rows, NearBy(rows, m)))
  <1> DEFINE macs == {rows[i].mac : i \in Near(rows)}
             all == With(list, macs)
             new == AddNeighbours(list, rows)
  <1>1. Near(rows) \subseteq DOMAIN rows /\ \A i \in Near(rows) : rows[i] \in Near6 /\ rows[i].mac # NoMac
    BY Places DEF Near, OnDevice
  <1>2. macs \subseteq Mac
    BY <1>1 DEF Near6
  <1>3. DOMAIN all = DOMAIN list \cup macs /\ \A m \in DOMAIN all : all[m] = Base(list, m)
    BY WithIs
  <1>4. DOMAIN new = DOMAIN all /\ DOMAIN all \subseteq Mac
    BY <1>2, <1>3 DEF AddNeighbours, ListOK
  <1>5. ASSUME NEW m \in DOMAIN new
        PROVE  /\ EntryOK(new[m])
               /\ new[m].client = Base(list, m).client
               /\ new[m].ipv4 = Base(list, m).ipv4
               /\ new[m].prefixes =
                    Push(Base(list, m).prefixes, NearPrefixes(rows, NearBy(rows, m)))
    <2> DEFINE b == Base(list, m)
               T == NearPrefixes(rows, NearBy(rows, m))
               ifaces == {IF lan = NoIface THEN rows[i].iface ELSE rows[i].mac : i \in NearBy(rows, m)}
    <2>1. new[m] = Offer(b, T, ifaces)
      <3>1. new[m] = [all[m] EXCEPT !.ifaces = @ \cup ifaces, !.prefixes = Push(@, T)]
        BY <1>4 DEF AddNeighbours, NearBy
      <3>2. all[m] = b
        BY <1>3, <1>4
      <3> QED
        BY <3>1, <3>2 DEF Offer
    <2>2. EntryOK(b)
      BY BaseOK
    <2>3. NearBy(rows, m) \subseteq Near(rows)
      BY DEF NearBy
    <2>4. Offered(T)
      BY <1>1, <2>3, NearOffered
    <2>5. ifaces \subseteq Iface \cup Mac
      BY <1>1, <2>3 DEF Near6
    <2> HIDE DEF b, T, ifaces, new
    <2>6. EntryOK(new[m])
      BY <2>1, <2>2, <2>4, <2>5, PushedOK
    <2>7. /\ new[m].prefixes = Push(b.prefixes, T) /\ new[m].client = b.client
          /\ new[m].ipv4 = b.ipv4
      BY <2>1, <2>2 DEF EntryOK, Entry, Offer
    <2> QED
      BY <2>6, <2>7 DEF b, T
  <1> QED
    BY <1>3, <1>4, <1>5 DEF ListOK

\* add_ipv4_entries touches neither prefixes nor leases.
LEMMA Ipv4Is ==
    ASSUME NEW list, ListOK(list), NEW rows \in Seq(Near4)
    PROVE  /\ ListOK(AddIpv4(list, rows))
           /\ DOMAIN AddIpv4(list, rows) = DOMAIN list
           /\ \A m \in DOMAIN list :
                /\ AddIpv4(list, rows)[m].client = list[m].client
                /\ AddIpv4(list, rows)[m].prefixes = list[m].prefixes
                /\ \A a \in AddIpv4(list, rows)[m].ipv4 :
                     a \in list[m].ipv4 \/ \E i \in RowsOf(rows, m) : rows[i].addr = a
  <1> DEFINE new == AddIpv4(list, rows)
  <1>1. DOMAIN new = DOMAIN list
    BY DEF AddIpv4
  <1>2. ASSUME NEW m \in DOMAIN list
        PROVE  /\ EntryOK(new[m])
               /\ new[m].client = list[m].client
               /\ new[m].prefixes = list[m].prefixes
               /\ \A a \in new[m].ipv4 :
                    a \in list[m].ipv4 \/ \E i \in RowsOf(rows, m) : rows[i].addr = a
    <2> DEFINE b == list[m]
               addrs == {rows[i].addr : i \in RowsOf(rows, m)} \cap Private
    <2>1. new[m] = [b EXCEPT !.ipv4 = b.ipv4 \cup addrs]
      BY DEF AddIpv4
    <2>2. EntryOK(b)
      BY DEF ListOK
    <2>3. addrs \subseteq V4 /\ \A a \in addrs : \E i \in RowsOf(rows, m) : rows[i].addr = a
      BY HostsAssumption
    <2> HIDE DEF b, addrs, new
    <2>4. b \in Entry
      BY <2>2 DEF EntryOK
    <2>5. /\ new[m] \in Entry /\ new[m].prefixes = b.prefixes /\ new[m].client = b.client
          /\ new[m].ipv4 = b.ipv4 \cup addrs
      BY <2>1, <2>3, <2>4 DEF Entry
    <2>6. EntryOK(new[m])
      BY <2>2, <2>5 DEF EntryOK
    <2> QED
      BY <2>3, <2>5, <2>6 DEF b
  <1> QED
    BY <1>1, <1>2 DEF ListOK

\* add_slaac_entries offers to each host the addresses that answered.
LEMMA SlaacIs ==
    ASSUME NEW list, ListOK(list), nets \in Seq(Net), NEW pinged
    PROVE  /\ ListOK(AddSlaac(list, pinged))
           /\ DOMAIN AddSlaac(list, pinged) = DOMAIN list
           /\ \A m \in DOMAIN list :
                /\ AddSlaac(list, pinged)[m].client = list[m].client
                /\ AddSlaac(list, pinged)[m].ipv4 = list[m].ipv4
                /\ AddSlaac(list, pinged)[m].prefixes = Push(list[m].prefixes, Guesses(m, pinged))
                /\ Offered(Guesses(m, pinged))
  <1> DEFINE new == AddSlaac(list, pinged)
  <1>1. DOMAIN new = DOMAIN list
    BY DEF AddSlaac
  <1>2. ASSUME NEW m \in DOMAIN list
        PROVE  /\ EntryOK(new[m])
               /\ new[m].client = list[m].client
               /\ new[m].ipv4 = list[m].ipv4
               /\ new[m].prefixes = Push(list[m].prefixes, Guesses(m, pinged))
               /\ Offered(Guesses(m, pinged))
    <2> DEFINE b == list[m]
               T == Guesses(m, pinged)
    <2>1. new[m] = [b EXCEPT !.prefixes = Push(b.prefixes, T)]
      BY DEF AddSlaac
    <2>2. EntryOK(b) /\ m \in Mac
      BY DEF ListOK
    <2>3. Offered(T)
      BY <2>2, GuessesOffered
    <2> HIDE DEF b, T, new
    <2>4. new[m] = Offer(b, T, {})
      BY <2>1, <2>2 DEF EntryOK, Entry, Offer
    <2>5. EntryOK(new[m])
      BY <2>2, <2>3, <2>4, PushedOK
    <2>6. /\ new[m].prefixes = Push(b.prefixes, T) /\ new[m].client = b.client
          /\ new[m].ipv4 = b.ipv4
      BY <2>1, <2>2 DEF EntryOK, Entry
    <2> QED
      BY <2>3, <2>5, <2>6 DEF b, T
  <1> QED
    BY <1>1, <1>2 DEF ListOK

\* What is shown is well formed and a part of what was put together.
LEMMA ListingIs ==
    ASSUME NEW list, ListOK(list)
    PROVE  /\ ListOK(Listing(list))
           /\ DOMAIN Listing(list) \subseteq DOMAIN list
           /\ \A m \in DOMAIN list : list[m].prefixes # {} => m \in DOMAIN Listing(list)
           /\ \A m \in DOMAIN Listing(list) :
                /\ Listing(list)[m].prefixes # {}
                /\ Listing(list)[m].prefixes = list[m].prefixes
                /\ Listing(list)[m].ipv4 = list[m].ipv4
                /\ Listing(list)[m].client \in {NoClient, list[m].client}
  <1> DEFINE new == Listing(list)
  <1>1. DOMAIN new = {n \in DOMAIN list : list[n].prefixes # {}}
    BY DEF Listing
  <1>2. ASSUME NEW m \in DOMAIN new
        PROVE  /\ EntryOK(new[m])
               /\ new[m].prefixes = list[m].prefixes
               /\ new[m].ipv4 = list[m].ipv4
               /\ new[m].client \in {NoClient, list[m].client}
    <2>1. new[m] = IF mode = "mac" THEN [list[m] EXCEPT !.client = NoClient] ELSE list[m]
      BY <1>1 DEF Listing
    <2>2. EntryOK(list[m])
      BY <1>1 DEF ListOK
    <2> HIDE DEF new
    <2>3. /\ new[m] \in Entry
          /\ new[m].prefixes = list[m].prefixes
          /\ new[m].ipv4 = list[m].ipv4
          /\ new[m].client \in {NoClient, list[m].client}
      BY <2>1, <2>2 DEF EntryOK, Entry
    <2>4. EntryOK(new[m])
      BY <2>2, <2>3 DEF EntryOK
    <2> QED
      BY <2>3, <2>4
  <1> QED
    BY <1>1, <1>2 DEF ListOK

-----------------------------------------------------------------------------
(* Type correctness *)

\* Nothing is put together before the first table, nothing pinged before the
\* last but one; networks are looked for only on a LAN interface.
InOrder ==
    /\ step \in {"idle", "odhcpd"} => entries = Empty
    /\ step \notin {"again", "ping"} => nets = <<>>
    /\ step # "ping" => asked = {} /\ answered = {}
    /\ step \in {"routes", "again", "ping"} => lan = Lan

TypeInv == TypeOK /\ ListOK(entries) /\ ListOK(shown) /\ InOrder

LEMMA EmptyOK == ListOK(Empty) /\ DOMAIN Empty = {}
  BY DEF ListOK, Empty

\* The two lists of TypeOK, one by one.
LEMMA TwoLists ==
    ASSUME NEW one, NEW two, ListOK(one), ListOK(two)
    PROVE  \A list \in {one, two} :
              /\ DOMAIN list \subseteq Mac
              /\ \A m \in DOMAIN list :
                    list[m] \in Entry /\ Cardinality(list[m].prefixes) <= MaxPrefixes
  BY DEF ListOK, EntryOK

LEMMA InitTypeInv == Init => TypeInv
  <1> SUFFICES ASSUME Init
               PROVE  TypeInv
    OBVIOUS
  <1>1. entries = Empty /\ shown = Empty /\ ListOK(Empty) /\ DOMAIN shown = {}
    BY EmptyOK DEF Init
  <1>2. 0 \in 0 .. MaxEvents /\ <<>> \in Seq(Net)
    BY HostsAssumption
  <1>3. router \in RouterStates /\ during \subseteq RouterStates
    BY DEF Init
  <1> QED
    BY <1>1, <1>2, <1>3, TwoLists DEF Init, TypeInv, TypeOK, InOrder, Step

\* A read that adds to the list.
LEMMA ReadTypeInv ==
    ASSUME TypeInv, NEW to \in {"dnsmasq", "near6", "near4", "routes"},
           step \in {"odhcpd", "dnsmasq", "near6", "near4"}, to = "routes" => lan = Lan,
           ListOK(entries'), Goto(to), UNCHANGED slaac
    PROVE  TypeInv'
  <1>1. ListOK(shown') /\ ListOK(entries')
    BY DEF TypeInv, Goto
  <1>2. asked = {} /\ answered = {} /\ nets = <<>>
    BY DEF TypeInv, InOrder
  <1>3. TypeOK'
    <2>1. \A m \in DOMAIN shown' : shown'[m].prefixes # {}
      BY DEF TypeInv, TypeOK, Goto
    <2> QED
      BY <1>1, <2>1, TwoLists DEF TypeInv, TypeOK, Goto, slaac, Step
  <1>4. InOrder'
    BY <1>2 DEF InOrder, Goto, slaac
  <1> QED
    BY <1>1, <1>3, <1>4 DEF TypeInv

\* The end of the command.
LEMMA FinishTypeInv ==
    ASSUME TypeInv, NEW list, ListOK(list), Finish(list)
    PROVE  TypeInv'
  <1>1. ListOK(shown') /\ ListOK(entries') /\ entries' = Empty
    BY ListingIs, EmptyOK DEF Finish
  <1>2. \A m \in DOMAIN shown' : shown'[m].prefixes # {}
    BY ListingIs DEF Finish
  <1>3. <<>> \in Seq(Net)
    OBVIOUS
  <1>4. TypeOK'
    BY <1>1, <1>2, <1>3, TwoLists DEF TypeInv, TypeOK, Finish, Step
  <1>5. InOrder'
    BY DEF InOrder, Finish
  <1> QED
    BY <1>1, <1>4, <1>5 DEF TypeInv

LEMMA NextTypeInv == TypeInv /\ [Next]_vars => TypeInv'
  <1> SUFFICES ASSUME TypeInv, [Next]_vars
               PROVE  TypeInv'
    OBVIOUS
  <1> USE DEF TypeInv
  <1>1. ListOK(entries) /\ ListOK(shown) /\ router \in RouterStates /\ nets \in Seq(Net)
    BY DEF TypeOK
  <1>2. /\ router.odhcpd \in Seq(Line) /\ router.dnsmasq \in Seq(Lease4)
        /\ \A rows \in Rows(router.near6) : rows \in Seq(Near6)
        /\ \A rows \in Rows(router.near4) : rows \in Seq(Near4)
        /\ \A rows \in Rows(router.routes) : rows \in Seq(Net)
    BY <1>1, RouterFacts DEF Rows
  <1>3. CASE Begin
    <2>1. ListOK(shown') /\ ListOK(entries') /\ DOMAIN shown' = {}
      BY <1>3, EmptyOK DEF Begin
    <2>2. TypeOK'
      BY <1>3, <2>1, TwoLists DEF Begin, TypeOK, slaac, Step
    <2>3. InOrder'
      BY <1>3 DEF Begin, InOrder, slaac
    <2> QED
      BY <2>1, <2>2, <2>3
  <1>4. CASE ReadOdhcpd
    <2>1. ListOK(entries')
      BY <1>1, <1>2, <1>4, OdhcpdOK DEF ReadOdhcpd
    <2> QED
      BY <1>4, <2>1, ReadTypeInv DEF ReadOdhcpd
  <1>5. CASE ReadDnsmasq
    <2>1. ListOK(entries')
      BY <1>1, <1>2, <1>5, DnsmasqIs DEF ReadDnsmasq
    <2> QED
      BY <1>5, <2>1, ReadTypeInv DEF ReadDnsmasq
  <1>6. CASE ReadNeighbours
    <2>1. ListOK(entries')
      BY <1>1, <1>2, <1>6, NeighboursAre DEF ReadNeighbours
    <2> QED
      BY <1>6, <2>1, ReadTypeInv DEF ReadNeighbours
  <1>7. CASE ReadIpv4
    <2>1. PICK rows \in Rows(router.near4) :
            IF lan = NoIface
            THEN Finish(AddIpv4(entries, rows))
            ELSE entries' = AddIpv4(entries, rows) /\ Goto("routes") /\ UNCHANGED slaac
      BY <1>7 DEF ReadIpv4
    <2>2. ListOK(AddIpv4(entries, rows))
      BY <1>1, <1>2, Ipv4Is
    <2>3. CASE lan = NoIface
      BY <2>1, <2>2, <2>3, FinishTypeInv
    <2>4. CASE lan # NoIface
      <3>1. lan = Lan
        BY <2>4 DEF TypeOK
      <3> QED
        BY <1>7, <2>1, <2>2, <2>4, <3>1, ReadTypeInv DEF ReadIpv4
    <2> QED
      BY <2>3, <2>4
  <1>8. CASE ReadRoutes
    <2>1. PICK rows \in Rows(router.routes) :
            IF rows = <<>>
            THEN Finish(entries)
            ELSE nets' = rows /\ Goto("again") /\ UNCHANGED <<entries, asked, answered>>
      BY <1>8 DEF ReadRoutes
    <2>2. CASE rows = <<>>
      BY <1>1, <2>1, <2>2, FinishTypeInv
    <2>3. CASE rows # <<>>
      <3>1. nets' \in Seq(Net) /\ Goto("again") /\ UNCHANGED <<entries, asked, answered>>
        BY <1>2, <2>1, <2>3
      <3>2. asked' = {} /\ answered' = {} /\ lan = Lan
        BY <1>8, <3>1 DEF InOrder, ReadRoutes
      <3>3. TypeOK'
        BY <3>1, <3>2 DEF TypeOK, Goto, Step
      <3>4. InOrder'
        BY <3>1, <3>2 DEF InOrder, Goto
      <3> QED
        BY <1>1, <3>1, <3>3, <3>4 DEF Goto
    <2> QED
      BY <2>2, <2>3
  <1>9. CASE ReadTargets
    <2>1. PICK rows \in Rows(router.near6) :
            asked' = ({rows[i].mac : i \in OnDevice(rows)} \ {NoMac}) \X DOMAIN nets
      BY <1>9 DEF ReadTargets
    <2>2. \A i \in OnDevice(rows) : rows[i] \in Near6
      BY <1>2, Places DEF OnDevice
    <2>3. asked' \subseteq Mac \X DOMAIN nets
      BY <2>1, <2>2 DEF Near6
    <2>4. Goto("ping") /\ UNCHANGED <<entries, nets, answered>> /\ lan = Lan
      BY <1>9 DEF ReadTargets, InOrder
    <2>5. TypeOK'
      BY <2>3, <2>4 DEF TypeOK, Goto, Step
    <2>6. InOrder'
      BY <2>4 DEF InOrder, Goto
    <2> QED
      BY <1>1, <2>4, <2>5, <2>6 DEF Goto
  <1>10. CASE PingEnds
    <2>1. /\ step = "ping" /\ asked' \subseteq asked /\ answered' \subseteq answered \cup asked
          /\ UNCHANGED <<router, step, mode, lan, entries, nets, shown, during, events>>
      BY <1>10 DEF PingEnds
    <2>2. TypeOK'
      BY <2>1 DEF TypeOK
    <2>3. InOrder'
      BY <2>1 DEF InOrder
    <2> QED
      BY <1>1, <2>1, <2>2, <2>3
  <1>11. CASE Complete
    BY <1>1, <1>11, SlaacIs, FinishTypeInv DEF Complete
  <1>12. CASE Change
    <2>1. router' \in RouterStates /\ during' \subseteq RouterStates /\ events' \in 0 .. MaxEvents
      BY <1>12, HostsAssumption DEF Change, TypeOK
    <2>2. UNCHANGED <<step, mode, lan, entries, slaac, shown>>
      BY <1>12 DEF Change
    <2>3. TypeOK'
      BY <2>1, <2>2 DEF TypeOK, slaac
    <2>4. InOrder'
      BY <2>2 DEF InOrder, slaac
    <2> QED
      BY <1>1, <2>2, <2>3, <2>4
  <1>13. CASE UNCHANGED vars
    <2>1. TypeOK'
      BY <1>13 DEF vars, TypeOK
    <2>2. InOrder'
      BY <1>13 DEF vars, InOrder
    <2> QED
      BY <1>1, <1>13, <2>1, <2>2 DEF vars
  <1> QED
    BY <1>3, <1>4, <1>5, <1>6, <1>7, <1>8, <1>9, <1>10, <1>11, <1>12, <1>13 DEF Next, Command

LEMMA HostsTypeInv == Spec => []TypeInv
  BY InitTypeInv, NextTypeInv, PTL DEF Spec

\* The entries hold what their fields are for, however many tables they come
\* from, and never more than MAX_PREFIXES_PER_ENTRY prefixes; no host without a
\* prefix is shown; and only neighbours are pinged, in networks that were read.
THEOREM HostsTypeCorrect == Spec => []TypeOK
  BY HostsTypeInv, PTL DEF TypeInv

-----------------------------------------------------------------------------
(* What is shown was observed *)

\* The three ways a prefix is observed, in the states d of the tables and with
\* the LAN interface l.
NearWith(t, m, l) ==
    {i \in DOMAIN t.near6 : t.near6[i].mac = m /\ l \in {NoIface, t.near6[i].iface}}
SeenPrefix(m, p, d, l) ==
    \/ \E t \in d : \E i \in Leased(t, m) : p \in ToSet(t.odhcpd[i].prefixes)
    \/ \E t \in d : \E i \in NearWith(t, m, l) : p = Host(t.near6[i].addr)
    \/ /\ l = Lan
       /\ \E t \in d : NearWith(t, m, l) # {}
       /\ \E t \in d : p.addr \in t.up
       /\ \E t \in d : \E n \in ToSet(t.routes) : p = Host(Eui[<<m, n>>])

\* A lease of the client with one of the prefixes, or one there is no room for.
SeenClient(m, c, prefixes, d) ==
    \E t \in d : \E i \in Leased(t, m) :
        /\ t.odhcpd[i].client = c
        /\ \/ ToSet(t.odhcpd[i].prefixes) \cap prefixes # {}
           \/ Cardinality(prefixes) = MaxPrefixes

SeenIpv4(m, a, d) ==
    \E t \in d :
        \/ \E i \in RowsOf(t.dnsmasq, m) : t.dnsmasq[i].addr = a
        \/ \E i \in RowsOf(t.near4, m) : t.near4[i].addr = a

TrueOf(m, e, d, l) ==
    /\ \A p \in e.prefixes : SeenPrefix(m, p, d, l)
    /\ e.client # NoClient => SeenClient(m, e.client, e.prefixes, d)
    /\ \A a \in e.ipv4 : SeenIpv4(m, a, d)

AllTrue(list, d, l) == \A m \in DOMAIN list : TrueOf(m, list[m], d, l)

\* An address that is pinged, and one that has answered.
Tried(m, d, l) == \E t \in d : NearWith(t, m, l) # {}
Answered(m, k, d, ns) == \E t \in d : Eui[<<m, ns[k]>>] \in t.up
Routed(n, d) == \E t \in d : n \in ToSet(t.routes)

\* The tables are in a state of the history, and all that has been put together
\* was seen in one.
Honest ==
    /\ step # "idle" => router \in during
    /\ AllTrue(entries, during, lan)
    /\ step = "idle" => AllTrue(shown, during, lan)
    /\ \A k \in DOMAIN nets : Routed(nets[k], during)
    /\ \A x \in asked \cup answered : Tried(x[1], during, lan)
    /\ \A x \in answered : Answered(x[1], x[2], during, nets)

\* What was seen stays seen.
LEMMA SeenStays ==
    ASSUME NEW d, NEW d2, d \subseteq d2, NEW l
    PROVE  /\ \A list : AllTrue(list, d, l) => AllTrue(list, d2, l)
           /\ \A n : Routed(n, d) => Routed(n, d2)
           /\ \A m : Tried(m, d, l) => Tried(m, d2, l)
           /\ \A m, k, ns : Answered(m, k, d, ns) => Answered(m, k, d2, ns)
  <1>1. \A m, p : SeenPrefix(m, p, d, l) => SeenPrefix(m, p, d2, l)
    BY DEF SeenPrefix
  <1>2. \A m, c, prefixes : SeenClient(m, c, prefixes, d) => SeenClient(m, c, prefixes, d2)
    BY DEF SeenClient
  <1>3. \A m, a : SeenIpv4(m, a, d) => SeenIpv4(m, a, d2)
    BY DEF SeenIpv4
  <1>4. \A list : AllTrue(list, d, l) => AllTrue(list, d2, l)
    BY <1>1, <1>2, <1>3 DEF AllTrue, TrueOf
  <1> QED
    BY <1>4 DEF Routed, Tried, Answered

LEMMA BlankTrue ==
    ASSUME NEW m, NEW d, NEW l
    PROVE  TrueOf(m, Blank, d, l)
  BY DEF TrueOf, Blank

LEMMA BaseTrue ==
    ASSUME NEW list, NEW d, NEW l, AllTrue(list, d, l), NEW m
    PROVE  TrueOf(m, Base(list, m), d, l)
  BY BlankTrue DEF AllTrue, Base

\* More prefixes that were seen, more addresses that were seen, and the client
\* as before: as long as the prefixes come from push_prefix, that stays true.
LEMMA PushedTrue ==
    ASSUME NEW m, NEW d, NEW l, NEW b, EntryOK(b), TrueOf(m, b, d, l),
           NEW T, Offered(T), \A x \in T : SeenPrefix(m, x[3], d, l),
           NEW e, e.prefixes = Push(b.prefixes, T), e.client = b.client, e.ipv4 = b.ipv4
    PROVE  TrueOf(m, e, d, l)
  <1>1. IsFiniteSet(b.prefixes) /\ Cardinality(b.prefixes) <= MaxPrefixes
    BY DEF EntryOK
  <1>2. /\ b.prefixes \subseteq e.prefixes /\ e.prefixes \subseteq b.prefixes \cup PrefixesIn(T)
        /\ IsFiniteSet(e.prefixes) /\ Cardinality(e.prefixes) <= MaxPrefixes
    BY <1>1, PushGrows, PushBounded
  <1>3. \A p \in e.prefixes : SeenPrefix(m, p, d, l)
    BY <1>2 DEF PrefixesIn, TrueOf
  <1>4. Cardinality(b.prefixes) = MaxPrefixes => Cardinality(e.prefixes) = MaxPrefixes
    <2>1. Cardinality(b.prefixes) <= Cardinality(e.prefixes)
      BY <1>2, FS_Subset
    <2>2. Cardinality(b.prefixes) \in Nat /\ Cardinality(e.prefixes) \in Nat
      BY <1>1, <1>2, FS_CardinalityType
    <2> QED
      BY <1>2, <2>1, <2>2, HostsAssumption
  <1>5. e.client # NoClient => SeenClient(m, e.client, e.prefixes, d)
    BY <1>2, <1>4 DEF TrueOf, SeenClient
  <1> QED
    BY <1>3, <1>5 DEF TrueOf

\* The lines of odhcpd are of the host, and its last one has a prefix that is
\* added or finds the list full.
LEMMA LeaseholderTrue ==
    ASSUME NEW t \in RouterStates, NEW d, t \in d, NEW l, NEW m, NEW b, EntryOK(b),
           TrueOf(m, b, d, l), Max(LinesOf(t.odhcpd, m)) \in LinesOf(t.odhcpd, m)
    PROVE  TrueOf(m, Leaseholder(b, t.odhcpd, LinesOf(t.odhcpd, m)), d, l)
  <1> DEFINE lines == t.odhcpd
             mine == LinesOf(lines, m)
             T == Leases(lines, mine)
             e == Leaseholder(b, lines, mine)
  <1>1. lines \in Seq(Line) /\ mine \subseteq DOMAIN lines /\ mine \subseteq Leased(t, m)
        /\ \A i \in mine : PublicOf(lines[i]) # {}
    BY RouterFacts DEF LinesOf, Taken, Usable, Leased
  <1>2. Offered(T)
    BY <1>1, LeasesOffered
  <1>3. b \in Entry /\ IsFiniteSet(b.prefixes) /\ Cardinality(b.prefixes) <= MaxPrefixes
    BY DEF EntryOK
  <1>4. e.prefixes = Push(b.prefixes, T) /\ e.client = lines[Max(mine)].client /\ e.ipv4 = b.ipv4
    BY <1>3 DEF Entry, Leaseholder
  <1>5. /\ e.prefixes \subseteq b.prefixes \cup PrefixesIn(T)
        /\ IsFiniteSet(e.prefixes) /\ Cardinality(e.prefixes) <= MaxPrefixes
    BY <1>2, <1>3, <1>4, PushGrows, PushBounded
  <1>6. \A i \in mine : \A k \in PublicOf(lines[i]) :
           <<i, k, lines[i].prefixes[k]>> \in T /\ lines[i].prefixes[k] \in ToSet(lines[i].prefixes)
    <2> SUFFICES ASSUME NEW i \in mine, NEW k \in PublicOf(lines[i])
                 PROVE  /\ <<i, k, lines[i].prefixes[k]>> \in T
                        /\ lines[i].prefixes[k] \in ToSet(lines[i].prefixes)
      OBVIOUS
    <2>1. k \in DOMAIN lines[i].prefixes
      BY DEF PublicOf, PublicIn
    <2>2. lines[i].prefixes[k] \in ToSet(lines[i].prefixes)
      BY <2>1 DEF ToSet
    <2>3. <<i, k, lines[i].prefixes[k]>> \in T
      <3> HIDE DEF lines, mine
      <3> QED
        BY DEF Leases
    <2> QED
      BY <2>2, <2>3
  <1>7. \A x \in T : \E i \in mine : x[3] \in ToSet(lines[i].prefixes)
    BY <1>6 DEF Leases
  <1>8. \A p \in e.prefixes : SeenPrefix(m, p, d, l)
    <2>1. \A x \in T : SeenPrefix(m, x[3], d, l)
      BY <1>1, <1>7 DEF SeenPrefix
    <2> QED
      BY <1>5, <2>1 DEF PrefixesIn, TrueOf
  <1>9. SeenClient(m, e.client, e.prefixes, d)
    <2> DEFINE i == Max(mine)
    <2>1. i \in mine /\ i \in Leased(t, m)
      BY <1>1
    <2>2. PICK k \in PublicOf(lines[i]) : TRUE
      BY <1>1, <2>1
    <2> DEFINE p == lines[i].prefixes[k]
    <2>3. <<i, k, p>> \in T /\ p \in ToSet(lines[i].prefixes)
      BY <1>6, <2>1, <2>2
    <2>4. CASE p \in e.prefixes
      BY <1>4, <2>1, <2>3, <2>4 DEF SeenClient
    <2>5. CASE p \notin e.prefixes
      <3>1. <<i, k, p>>[3] = p
        OBVIOUS
      <3>2. Cardinality(e.prefixes) >= MaxPrefixes
        <4> HIDE DEF p, T, e, i
        <4> QED
          BY <1>2, <1>3, <1>4, <2>3, <2>5, <3>1, PushFull
      <3>3. Cardinality(e.prefixes) \in Nat
        BY <1>5, FS_CardinalityType
      <3>4. Cardinality(e.prefixes) = MaxPrefixes
        <4> HIDE DEF e
        <4> QED
          BY <1>5, <3>2, <3>3, HostsAssumption
      <3> QED
        BY <1>4, <2>1, <3>4 DEF SeenClient
    <2> QED
      BY <2>4, <2>5
  <1>10. \A a \in e.ipv4 : SeenIpv4(m, a, d)
    BY <1>4 DEF TrueOf
  <1> QED
    BY <1>8, <1>9, <1>10 DEF TrueOf

\* Only addresses are added, and they were seen.
LEMMA SameTrue ==
    ASSUME NEW m, NEW d, NEW l, NEW b, TrueOf(m, b, d, l),
           NEW e, e.prefixes = b.prefixes, e.client = b.client,
           \A a \in e.ipv4 : a \in b.ipv4 \/ SeenIpv4(m, a, d)
    PROVE  TrueOf(m, e, d, l)
  BY DEF TrueOf

\* A command that fails lists nothing.
LEMMA NoRows ==
    ASSUME NEW S, NEW table \in Seq(S), NEW rows \in Rows(table)
    PROVE  rows \in Seq(S) /\ (rows = table \/ DOMAIN rows = {})
  <1>1. <<>> \in Seq(S) /\ DOMAIN <<>> = {}
    OBVIOUS
  <1> QED
    BY <1>1 DEF Rows

LEMMA EmptyTrue ==
    ASSUME NEW d, NEW l
    PROVE  AllTrue(Empty, d, l)
  BY EmptyOK DEF AllTrue

\* At the end of the command.
LEMMA FinishHonest ==
    ASSUME TypeInv, Honest, NEW list, ListOK(list), AllTrue(list, during, lan), Finish(list)
    PROVE  Honest'
  <1>1. AllTrue(Listing(list), during, lan)
    <2> SUFFICES ASSUME NEW m \in DOMAIN Listing(list)
                 PROVE  TrueOf(m, Listing(list)[m], during, lan)
      BY DEF AllTrue
    <2>1. /\ Listing(list)[m].prefixes = list[m].prefixes
          /\ Listing(list)[m].ipv4 = list[m].ipv4
          /\ Listing(list)[m].client \in {NoClient, list[m].client}
          /\ m \in DOMAIN list
      BY ListingIs
    <2>2. TrueOf(m, list[m], during, lan)
      BY <2>1 DEF AllTrue
    <2> QED
      BY <2>1, <2>2 DEF TrueOf
  <1>2. /\ step' = "idle" /\ entries' = Empty /\ shown' = Listing(list)
        /\ nets' = <<>> /\ asked' = {} /\ answered' = {} /\ UNCHANGED <<router, during, lan>>
    BY DEF Finish
  <1>3. AllTrue(entries', during', lan') /\ AllTrue(shown', during', lan')
    BY <1>1, <1>2, EmptyTrue
  <1>4. DOMAIN nets' = {}
    BY <1>2
  <1> QED
    BY <1>2, <1>3, <1>4 DEF Honest

\* After a read that adds to the list.
LEMMA ReadHonest ==
    ASSUME TypeInv, Honest, NEW to, Goto(to), to # "idle", step # "idle", UNCHANGED slaac,
           AllTrue(entries', during, lan)
    PROVE  Honest'
  <1>1. /\ step' # "idle" /\ router \in during
        /\ UNCHANGED <<router, during, lan, nets, asked, answered>>
    BY DEF Goto, Honest, slaac
  <1> QED
    BY <1>1 DEF Honest

LEMMA InitHonest == Init => Honest
  <1> SUFFICES ASSUME Init
               PROVE  Honest
    OBVIOUS
  <1>1. DOMAIN nets = {}
    BY DEF Init
  <1> QED
    BY <1>1, EmptyTrue DEF Init, Honest

LEMMA NextHonest == TypeInv /\ Honest /\ [Next]_vars => Honest'
  <1> SUFFICES ASSUME TypeInv, Honest, [Next]_vars
               PROVE  Honest'
    OBVIOUS
  <1>1. /\ ListOK(entries) /\ ListOK(shown) /\ router \in RouterStates /\ nets \in Seq(Net)
        /\ AllTrue(entries, during, lan)
    BY DEF TypeInv, TypeOK, Honest
  <1>2. /\ router.odhcpd \in Seq(Line) /\ router.dnsmasq \in Seq(Lease4)
        /\ router.near6 \in Seq(Near6) /\ router.near4 \in Seq(Near4) /\ router.routes \in Seq(Net)
    BY <1>1, RouterFacts
  <1>3. CASE Begin
    <2>1. /\ entries' = Empty /\ step' # "idle" /\ during' = {router} /\ router' = router
          /\ UNCHANGED slaac /\ asked = {} /\ answered = {} /\ step = "idle"
      BY <1>3 DEF Begin, TypeInv, InOrder
    <2> QED
      \* The networks of the last command are gone.
      <3>1. nets = <<>>
        BY <1>3 DEF Begin, TypeInv, InOrder
      <3>2. DOMAIN nets' = {} /\ asked' = {} /\ answered' = {}
        BY <2>1, <3>1 DEF slaac
      <3>3. AllTrue(entries', during', lan')
        BY <2>1, EmptyTrue
      <3> QED
        BY <2>1, <3>2, <3>3 DEF Honest
  <1>4. CASE ReadOdhcpd
    <2>1. /\ step = "odhcpd" /\ entries' = AddOdhcpd(entries, router.odhcpd) /\ router \in during
          /\ Goto("dnsmasq") /\ UNCHANGED slaac
      BY <1>4 DEF ReadOdhcpd, Honest
    <2>2. AllTrue(entries', during, lan)
      <3> SUFFICES ASSUME NEW m \in DOMAIN entries'
                   PROVE  TrueOf(m, entries'[m], during, lan)
        BY DEF AllTrue
      <3>1. EntryOK(Base(entries, m)) /\ TrueOf(m, Base(entries, m), during, lan)
        BY <1>1, BaseOK, BaseTrue
      <3>2. \/ entries'[m] = Base(entries, m)
            \/ /\ Max(LinesOf(router.odhcpd, m)) \in LinesOf(router.odhcpd, m)
               /\ entries'[m] = Leaseholder(Base(entries, m), router.odhcpd, LinesOf(router.odhcpd, m))
        BY <1>1, <1>2, <2>1, OdhcpdIs
      <3> QED
        BY <1>1, <2>1, <3>1, <3>2, LeaseholderTrue
    <2> QED
      BY <2>1, <2>2, ReadHonest
  <1>5. CASE ReadDnsmasq
    <2>1. PICK rows \in Seq(Lease4) : rows = router.dnsmasq
      BY <1>2
    <2> DEFINE new == AddDnsmasq(entries, rows)
    <2>2. /\ step = "dnsmasq" /\ router \in during /\ entries' = new
          /\ Goto("near6") /\ UNCHANGED slaac
      BY <1>5, <2>1 DEF ReadDnsmasq, Honest
    <2>3. AllTrue(new, during, lan)
      <3> SUFFICES ASSUME NEW m \in DOMAIN new
                   PROVE  TrueOf(m, new[m], during, lan)
        BY DEF AllTrue
      <3>1. TrueOf(m, Base(entries, m), during, lan)
        BY <1>1, BaseTrue
      <3>2. /\ new[m].client = Base(entries, m).client
            /\ new[m].prefixes = Base(entries, m).prefixes
            /\ \A a \in new[m].ipv4 :
                 a \in Base(entries, m).ipv4 \/ \E i \in RowsOf(rows, m) : rows[i].addr = a
        BY <1>1, DnsmasqIs
      <3>3. \A a \in new[m].ipv4 : a \in Base(entries, m).ipv4 \/ SeenIpv4(m, a, during)
        BY <2>1, <2>2, <3>2 DEF SeenIpv4
      <3> QED
        BY <3>1, <3>2, <3>3, SameTrue
    <2> QED
      BY <2>2, <2>3, ReadHonest
  <1>6. CASE ReadNeighbours
    <2>1. PICK rows \in Rows(router.near6) : entries' = AddNeighbours(entries, rows)
      BY <1>6 DEF ReadNeighbours
    <2>2. /\ step = "near6" /\ router \in during /\ Goto("near4") /\ UNCHANGED slaac
      BY <1>6 DEF ReadNeighbours, Honest
    <2>3. rows \in Seq(Near6) /\ (rows = router.near6 \/ DOMAIN rows = {})
      BY <1>2, NoRows
    <2>4. AllTrue(entries', during, lan)
      <3> SUFFICES ASSUME NEW m \in DOMAIN entries'
                   PROVE  TrueOf(m, entries'[m], during, lan)
        BY DEF AllTrue
      <3> DEFINE T == NearPrefixes(rows, NearBy(rows, m))
      <3>1. EntryOK(Base(entries, m)) /\ TrueOf(m, Base(entries, m), during, lan)
        BY <1>1, BaseOK, BaseTrue
      <3>2. /\ entries'[m].client = Base(entries, m).client
            /\ entries'[m].ipv4 = Base(entries, m).ipv4
            /\ entries'[m].prefixes = Push(Base(entries, m).prefixes, T)
        BY <1>1, <2>1, <2>3, NeighboursAre
      <3>3. NearBy(rows, m) \subseteq DOMAIN rows
            /\ NearBy(rows, m) \subseteq NearWith(router, m, lan)
        BY <2>3 DEF NearBy, Near, OnDevice, NearWith
      <3>4. Offered(T)
        BY <2>3, <3>3, NearOffered
      <3>5. \A x \in T : SeenPrefix(m, x[3], during, lan)
        <4> SUFFICES ASSUME NEW i \in NearBy(rows, m)
                     PROVE  SeenPrefix(m, Host(rows[i].addr), during, lan)
          BY DEF NearPrefixes
        <4>1. i \in NearWith(router, m, lan) /\ rows = router.near6
          BY <2>3, <3>3
        <4> QED
          BY <2>2, <4>1 DEF SeenPrefix
      <3> QED
        BY <3>1, <3>2, <3>4, <3>5, PushedTrue
    <2> QED
      BY <2>2, <2>4, ReadHonest
  <1>7. CASE ReadIpv4
    <2>1. PICK rows \in Rows(router.near4) :
            IF lan = NoIface
            THEN Finish(AddIpv4(entries, rows))
            ELSE entries' = AddIpv4(entries, rows) /\ Goto("routes") /\ UNCHANGED slaac
      BY <1>7 DEF ReadIpv4
    <2>2. step = "near4" /\ router \in during
      BY <1>7 DEF ReadIpv4, Honest
    <2>3. rows \in Seq(Near4) /\ (rows = router.near4 \/ DOMAIN rows = {})
      BY <1>2, NoRows
    <2> DEFINE new == AddIpv4(entries, rows)
    <2>4. ListOK(new)
      BY <1>1, <2>3, Ipv4Is
    <2>5. AllTrue(new, during, lan)
      <3> SUFFICES ASSUME NEW m \in DOMAIN new
                   PROVE  TrueOf(m, new[m], during, lan)
        BY DEF AllTrue
      <3>1. m \in DOMAIN entries
        BY <1>1, <2>3, Ipv4Is
      <3>2. /\ new[m].client = entries[m].client
            /\ new[m].prefixes = entries[m].prefixes
            /\ \A a \in new[m].ipv4 :
                 a \in entries[m].ipv4 \/ \E i \in RowsOf(rows, m) : rows[i].addr = a
        BY <1>1, <2>3, <3>1, Ipv4Is
      <3>3. \A a \in new[m].ipv4 : a \in entries[m].ipv4 \/ SeenIpv4(m, a, during)
        <4>1. \A i \in RowsOf(rows, m) : i \in RowsOf(router.near4, m) /\ rows = router.near4
          BY <2>3 DEF RowsOf
        <4> QED
          BY <2>2, <3>2, <4>1 DEF SeenIpv4
      <3>4. TrueOf(m, entries[m], during, lan)
        BY <1>1, <3>1 DEF AllTrue
      <3> QED
        BY <3>2, <3>3, <3>4, SameTrue
    <2>6. CASE lan = NoIface
      BY <2>1, <2>4, <2>5, <2>6, FinishHonest
    <2>7. CASE lan # NoIface
      BY <2>1, <2>2, <2>5, <2>7, ReadHonest
    <2> QED
      BY <2>6, <2>7
  <1>8. CASE ReadRoutes
    <2>1. PICK rows \in Rows(router.routes) :
            IF rows = <<>>
            THEN Finish(entries)
            ELSE nets' = rows /\ Goto("again") /\ UNCHANGED <<entries, asked, answered>>
      BY <1>8 DEF ReadRoutes
    <2>2. CASE rows = <<>>
      BY <1>1, <2>1, <2>2, FinishHonest
    <2>3. CASE rows # <<>>
      <3>1. /\ nets' = router.routes /\ Goto("again") /\ UNCHANGED <<entries, asked, answered>>
            /\ router \in during /\ asked = {} /\ answered = {}
        BY <1>8, <2>1, <2>3 DEF Rows, ReadRoutes, Honest, TypeInv, InOrder
      <3>2. \A k \in DOMAIN nets' : Routed(nets'[k], during)
        BY <3>1 DEF Routed, ToSet
      <3>3. UNCHANGED <<router, during, lan>> /\ step' # "idle"
        BY <3>1 DEF Goto
      <3> QED
        BY <1>1, <3>1, <3>2, <3>3 DEF Honest
    <2> QED
      BY <2>2, <2>3
  <1>9. CASE ReadTargets
    <2>1. PICK rows \in Rows(router.near6) :
            asked' = ({rows[i].mac : i \in OnDevice(rows)} \ {NoMac}) \X DOMAIN nets
      BY <1>9 DEF ReadTargets
    <2>2. /\ Goto("ping") /\ UNCHANGED <<entries, nets, answered>> /\ router \in during
          /\ answered = {} /\ (rows = router.near6 \/ DOMAIN rows = {})
      BY <1>2, <1>9, NoRows DEF ReadTargets, Honest, TypeInv, InOrder
    <2>3. \A x \in asked' : Tried(x[1], during, lan)
      <3> SUFFICES ASSUME NEW i \in OnDevice(rows)
                   PROVE  Tried(rows[i].mac, during, lan)
        BY <2>1
      <3>1. rows = router.near6 /\ i \in NearWith(router, rows[i].mac, lan)
        BY <2>2 DEF OnDevice, NearWith
      <3> QED
        BY <2>2, <3>1 DEF Tried
    <2>4. UNCHANGED <<router, during, lan>> /\ step' # "idle" /\ answered' = {}
      BY <1>9, <2>2 DEF Goto, TypeInv, InOrder, ReadTargets
    <2> QED
      BY <1>1, <2>2, <2>3, <2>4 DEF Honest
  <1>10. CASE PingEnds
    <2>1. PICK x \in asked :
            /\ asked' = asked \ {x}
            /\ \/ Eui[<<x[1], nets[x[2]]>>] \in router.up /\ answered' = answered \cup {x}
               \/ UNCHANGED answered
      BY <1>10 DEF PingEnds
    <2>2. /\ UNCHANGED <<router, step, lan, entries, nets, shown, during>>
          /\ step = "ping" /\ router \in during
      BY <1>10 DEF PingEnds, Honest
    <2>3. \A y \in answered' : Answered(y[1], y[2], during, nets)
      BY <2>1, <2>2 DEF Honest, Answered
    <2>4. \A y \in asked' \cup answered' : Tried(y[1], during, lan)
      BY <2>1 DEF Honest
    <2> QED
      BY <2>2, <2>3, <2>4 DEF Honest
  <1>11. CASE Complete
    <2> DEFINE new == AddSlaac(entries, answered)
    <2>1. Finish(new) /\ lan = Lan
      BY <1>11 DEF Complete, TypeInv, InOrder
    <2>2. ListOK(new)
      BY <1>1, SlaacIs
    <2>3. AllTrue(new, during, lan)
      <3> SUFFICES ASSUME NEW m \in DOMAIN new
                   PROVE  TrueOf(m, new[m], during, lan)
        BY DEF AllTrue
      <3> DEFINE T == Guesses(m, answered)
      <3>1. m \in DOMAIN entries
        BY <1>1, SlaacIs
      <3>2. /\ new[m].client = entries[m].client /\ new[m].ipv4 = entries[m].ipv4
            /\ new[m].prefixes = Push(entries[m].prefixes, T) /\ Offered(T)
        BY <1>1, <3>1, SlaacIs
      <3>3. \A x \in T : SeenPrefix(m, x[3], during, lan)
        <4>0. \A x \in T : \E k \in DOMAIN nets :
                 <<m, k>> \in answered /\ x[3] = Host(Eui[<<m, nets[k]>>])
          BY DEF Guesses
        <4> SUFFICES ASSUME NEW k \in DOMAIN nets, <<m, k>> \in answered
                     PROVE  SeenPrefix(m, Host(Eui[<<m, nets[k]>>]), during, lan)
          BY <4>0
        <4>1. Tried(m, during, lan) /\ Answered(m, k, during, nets) /\ Routed(nets[k], during)
          BY DEF Honest
        <4>2. Host(Eui[<<m, nets[k]>>]).addr = Eui[<<m, nets[k]>>]
          BY DEF Host
        <4> QED
          BY <2>1, <4>1, <4>2 DEF SeenPrefix, Tried, Answered, Routed
      <3>4. EntryOK(entries[m]) /\ TrueOf(m, entries[m], during, lan)
        BY <1>1, <3>1 DEF AllTrue, ListOK
      <3> HIDE DEF new, T
      <3> QED
        BY <3>2, <3>3, <3>4, PushedTrue
    <2> HIDE DEF new
    <2> QED
      BY <2>1, <2>2, <2>3, FinishHonest
  <1>12. CASE Change
    <2>1. /\ UNCHANGED <<step, lan, entries, shown, nets, asked, answered>>
          /\ during \subseteq during' /\ (step = "idle" => during' = during)
          /\ step # "idle" => router' \in during'
      BY <1>12 DEF Change, slaac
    <2> QED
      BY <2>1, SeenStays DEF Honest
  <1>13. CASE UNCHANGED vars
    BY <1>13 DEF vars, Honest
  <1> QED
    BY <1>3, <1>4, <1>5, <1>6, <1>7, <1>8, <1>9, <1>10, <1>11, <1>12, <1>13 DEF Next, Command

\* Whatever changes between the reads, what the list says of a host was true of
\* that host while the command ran.
THEOREM ShownWasObserved == Spec => []ShownIsObserved
  <1>1. Spec => []Honest
    BY InitHonest, NextHonest, HostsTypeInv, PTL DEF Spec
  <1>2. Honest => ShownIsObserved
    BY DEF Honest, AllTrue, TrueOf, SeenPrefix, SeenClient, SeenIpv4, ShownIsObserved,
           NearOn, NearWith
  <1> QED
    BY <1>1, <1>2, PTL

-----------------------------------------------------------------------------
(* Leases are not crowded out *)

\* A state of the tables in which there is room for a lease of a host.
Room(t, m, p) ==
    /\ Cardinality({n \in Mac : Leased(t, n) # {}}) < MaxEntries
    /\ p \in LeasedTo(t, m)
    /\ Cardinality(LeasedTo(t, m)) <= MaxPrefixes
    /\ \A i \in Leased(t, m) : Cardinality(PublicIn(t.odhcpd[i])) <= MaxPrefixes

PublicPrefix == [addr : Public, len : {64, 128}]

\* A list has the leases there was room for all the time.
Holds(list, d) ==
    \A m \in Mac, p \in PublicPrefix :
        (\A t \in d : Room(t, m, p)) => m \in DOMAIN list /\ p \in list[m].prefixes

Kept ==
    /\ step \notin {"idle", "odhcpd"} => Holds(entries, during)
    /\ step = "idle" /\ shown # Empty => Holds(shown, during)

LEMMA HoldsStays ==
    ASSUME NEW d, NEW d2, d \subseteq d2
    PROVE  \A list : Holds(list, d) => Holds(list, d2)
  BY DEF Holds

LEMMA HoldsGrows ==
    ASSUME NEW d, NEW list, Holds(list, d),
           NEW new, \A m \in DOMAIN list : m \in DOMAIN new /\ list[m].prefixes \subseteq new[m].prefixes
    PROVE  Holds(new, d)
  BY DEF Holds

\* The hosts with leases are finitely many.
LEMMA OwnersFinite ==
    ASSUME NEW t \in RouterStates
    PROVE  IsFiniteSet({n \in Mac : Leased(t, n) # {}})
  <1> DEFINE f == [i \in DOMAIN t.odhcpd |-> MacOf[t.odhcpd[i].client]]
  <1>1. IsFiniteSet(DOMAIN f)
    BY RouterFacts, Places
  <1>2. IsFiniteSet({f[i] : i \in DOMAIN f})
    BY <1>1, FiniteRange
  <1>3. {n \in Mac : Leased(t, n) # {}} \subseteq {f[i] : i \in DOMAIN f}
    BY DEF Leased
  <1> QED
    BY <1>2, <1>3, FS_Subset

\* If they are fewer than MAX_ENTRIES, all lines that can be used are.
LEMMA AllTaken ==
    ASSUME NEW t \in RouterStates, Cardinality({n \in Mac : Leased(t, n) # {}}) < MaxEntries
    PROVE  Taken(t.odhcpd) = Usable(t.odhcpd)
  <1> DEFINE lines == t.odhcpd
             owners == {n \in Mac : Leased(t, n) # {}}
             Sofar(i) == {MacOf[lines[j].client] : j \in {k \in Usable(lines) : k < i}}
  <1>1. \A j \in Usable(lines) : MacOf[lines[j].client] \in owners
    <2> SUFFICES ASSUME NEW j \in Usable(lines)
                 PROVE  MacOf[lines[j].client] \in owners
      OBVIOUS
    <2>1. j \in DOMAIN lines /\ MacOf[lines[j].client] # NoMac
      BY DEF Usable
    <2>2. lines[j] \in Line
      BY <2>1, RouterFacts, Places
    <2>3. MacOf[lines[j].client] \in Mac
      BY <2>1, <2>2, HostsAssumption DEF Line
    <2> QED
      BY <2>1, <2>3 DEF Leased
  <1>2. ASSUME NEW i \in Usable(lines)
        PROVE  Cardinality(Sofar(i)) < MaxEntries
    <2>1. Sofar(i) \subseteq owners
      BY <1>1
    <2>2. IsFiniteSet(owners)
      BY OwnersFinite
    <2>3. Cardinality(Sofar(i)) <= Cardinality(owners) /\ IsFiniteSet(Sofar(i))
      BY <2>1, <2>2, FS_Subset
    <2>4. Cardinality(Sofar(i)) \in Nat /\ Cardinality(owners) \in Nat
      BY <2>2, <2>3, FS_CardinalityType
    <2> HIDE DEF Sofar
    <2> QED
      BY <2>3, <2>4, HostsAssumption
  <1> QED
    BY <1>2 DEF Taken

\* If a line has no more public prefixes than an entry, all of them are read.
LEMMA AllPublic ==
    ASSUME NEW line \in Line, Cardinality(PublicIn(line)) <= MaxPrefixes
    PROVE  PublicOf(line) = PublicIn(line)
  <1> SUFFICES ASSUME NEW k \in PublicIn(line)
               PROVE  Cardinality({j \in PublicIn(line) : j < k}) < MaxPrefixes
    BY DEF PublicOf
  <1> DEFINE S == {j \in PublicIn(line) : j < k}
  <1>1. IsFiniteSet(PublicIn(line)) /\ PublicIn(line) \subseteq Nat
    <2>1. PublicIn(line) \subseteq DOMAIN line.prefixes /\ line.prefixes \in Seq(Prefix)
      BY DEF PublicIn, Line
    <2> QED
      BY <2>1, Places, FS_Subset
  <1>2. S \subseteq PublicIn(line) /\ k \notin S
    BY <1>1
  <1>3. IsFiniteSet(S) /\ Cardinality(S) <= Cardinality(PublicIn(line))
        /\ Cardinality(S) # Cardinality(PublicIn(line))
    BY <1>1, <1>2, FS_Subset
  <1>4. Cardinality(S) \in Nat /\ Cardinality(PublicIn(line)) \in Nat
    BY <1>1, <1>3, FS_CardinalityType
  <1> HIDE DEF S
  <1> QED
    BY <1>3, <1>4, HostsAssumption DEF S

\* The list begins with the leases of odhcpd, so all of them find room.
LEMMA OdhcpdHolds ==
    ASSUME NEW t \in RouterStates, NEW d, t \in d
    PROVE  Holds(AddOdhcpd(Empty, t.odhcpd), d)
  <1> SUFFICES ASSUME NEW m \in Mac, NEW p \in PublicPrefix, Room(t, m, p)
               PROVE  /\ m \in DOMAIN AddOdhcpd(Empty, t.odhcpd)
                      /\ p \in AddOdhcpd(Empty, t.odhcpd)[m].prefixes
    BY DEF Holds
  <1> DEFINE lines == t.odhcpd
             mine == LinesOf(lines, m)
             T == Leases(lines, mine)
  <1>1. lines \in Seq(Line) /\ \A i \in DOMAIN lines : lines[i] \in Line
    BY RouterFacts, Places
  <1>2. Taken(lines) = Usable(lines)
    BY AllTaken DEF Room
  <1>3. \A i \in Leased(t, m) : PublicOf(lines[i]) = PublicIn(lines[i]) /\ i \in DOMAIN lines
    BY <1>1, AllPublic DEF Room, Leased
  <1>4. \A i \in Leased(t, m) : PublicIn(lines[i]) # {} => i \in mine
    BY <1>2, <1>3, HostsAssumption DEF Leased, LinesOf, Usable
  <1>5. mine \subseteq Leased(t, m) /\ mine \subseteq DOMAIN lines
    BY <1>2 DEF Leased, LinesOf, Usable
  <1>6. \A q : q \in LeasedTo(t, m) <=>
            \E i \in Leased(t, m) : \E k \in PublicIn(lines[i]) : q = lines[i].prefixes[k]
    BY DEF LeasedTo, PublicIn, ToSet
  <1>7. \A x : x \in T <=>
            \E i \in mine : \E k \in PublicIn(lines[i]) : x = <<i, k, lines[i].prefixes[k]>>
    <2>1. \A i \in mine : PublicOf(lines[i]) = PublicIn(lines[i])
      BY <1>3, <1>5
    <2>2. \A x : x \in T <=>
            \E i \in mine : \E k \in PublicOf(lines[i]) : x = <<i, k, lines[i].prefixes[k]>>
      BY DEF Leases
    <2> QED
      BY <2>1, <2>2
  <1>8. PrefixesIn(T) = LeasedTo(t, m)
    <2>1. ASSUME NEW x \in T
          PROVE  x[3] \in LeasedTo(t, m)
      <3>1. PICK i \in mine : \E k \in PublicIn(lines[i]) : x = <<i, k, lines[i].prefixes[k]>>
        BY <1>7
      <3>2. i \in Leased(t, m) /\ \E k \in PublicIn(lines[i]) : x[3] = lines[i].prefixes[k]
        BY <1>5, <3>1
      <3> QED
        BY <1>6, <3>2
    <2>2. ASSUME NEW q \in LeasedTo(t, m)
          PROVE  \E x \in T : q = x[3]
      <3>1. PICK i \in Leased(t, m) : \E k \in PublicIn(lines[i]) : q = lines[i].prefixes[k]
        BY <1>6
      <3>2. PICK k \in PublicIn(lines[i]) : q = lines[i].prefixes[k]
        BY <3>1
      <3>3. <<i, k, q>> \in T /\ <<i, k, q>>[3] = q
        BY <1>4, <1>7, <3>1, <3>2
      <3> QED
        BY <3>3
    <2> QED
      BY <2>1, <2>2 DEF PrefixesIn
  <1>9. Offered(T)
    BY <1>1, <1>5, LeasesOffered
  <1>10. Push({}, T) = PrefixesIn(T)
    <2>1. IsFiniteSet(PrefixesIn(T)) /\ Cardinality(PrefixesIn(T)) <= MaxPrefixes
      BY <1>8, <1>9, FiniteImage DEF Offered, Room
    <2>2. Push({}, T) = {} \cup PrefixesIn(T)
      BY <1>9, <2>1, FS_EmptySet, PushAll
    <2> QED
      BY <2>2
  <1>11. mine # {} /\ m \in DOMAIN AddOdhcpd(Empty, lines)
    <2>1. PICK i \in mine : TRUE
      BY <1>4, <1>6 DEF Room
    <2>2. i \in Taken(lines) /\ MacOf[lines[i].client] = m
      BY DEF LinesOf
    <2> QED
      BY <1>1, <2>1, <2>2, OdhcpdIs, EmptyOK
  <1>12. AddOdhcpd(Empty, lines)[m] = Leaseholder(Blank, lines, mine)
    <2>1. Base(Empty, m) = Blank
      BY EmptyOK DEF Base
    <2> QED
      BY <1>1, <1>11, <2>1, OdhcpdIs, EmptyOK
  <1>13. Leaseholder(Blank, lines, mine).prefixes = Push({}, T)
    BY DEF Leaseholder, Blank
  <1> QED
    BY <1>8, <1>10, <1>11, <1>12, <1>13 DEF Room

LEMMA NextKept == TypeInv /\ Honest /\ Kept /\ [Next]_vars => Kept'
  <1> SUFFICES ASSUME TypeInv, Honest, Kept, [Next]_vars
               PROVE  Kept'
    OBVIOUS
  <1>1. /\ ListOK(entries) /\ router \in RouterStates /\ nets \in Seq(Net)
        /\ step # "idle" => router \in during
    BY DEF TypeInv, TypeOK, Honest
  <1>2. /\ router.dnsmasq \in Seq(Lease4) /\ router.near6 \in Seq(Near6)
        /\ router.near4 \in Seq(Near4)
    BY <1>1, RouterFacts
  <1>3. ASSUME NEW list, ListOK(list), Holds(list, during), Finish(list)
        PROVE  Kept'
    <2>1. \A m \in DOMAIN list : \A p \in list[m].prefixes :
            m \in DOMAIN Listing(list) /\ p \in Listing(list)[m].prefixes
      BY <1>3, ListingIs
    <2>2. Holds(Listing(list), during)
      BY <1>3, <2>1 DEF Holds
    <2> QED
      BY <1>3, <2>2 DEF Kept, Finish
  <1>4. ASSUME step # "idle", NEW to \in Step, Goto(to), Holds(entries', during)
        PROVE  Kept'
    BY <1>4 DEF Kept, Goto, Step
  <1>5. ASSUME NEW b, EntryOK(b), NEW T, Offered(T)
        PROVE  b.prefixes \subseteq Push(b.prefixes, T)
    BY <1>5, PushGrows DEF EntryOK
  <1>6. \A m \in DOMAIN entries : Base(entries, m) = entries[m] /\ EntryOK(entries[m])
    BY <1>1 DEF Base, ListOK
  <1>7. CASE Begin
    BY <1>7 DEF Begin, Kept
  <1>8. CASE ReadOdhcpd
    <2>1. entries' = AddOdhcpd(Empty, router.odhcpd) /\ step = "odhcpd" /\ Goto("dnsmasq")
      BY <1>8 DEF ReadOdhcpd, TypeInv, InOrder
    <2>2. Holds(entries', during)
      BY <1>1, <2>1, OdhcpdHolds
    <2> QED
      BY <1>4, <2>1, <2>2 DEF Step
  <1>9. CASE ReadDnsmasq
    <2> DEFINE new == AddDnsmasq(entries, router.dnsmasq)
    <2>1. \A m \in DOMAIN entries : m \in DOMAIN new /\ new[m].prefixes = entries[m].prefixes
      BY <1>1, <1>2, <1>6, DnsmasqIs
    <2>2. entries' = new /\ step = "dnsmasq" /\ Goto("near6") /\ Holds(entries, during)
      BY <1>9 DEF ReadDnsmasq, Kept
    <2>3. Holds(new, during)
      BY <2>1, <2>2, HoldsGrows
    <2> QED
      BY <1>4, <2>2, <2>3 DEF Step
  <1>10. CASE ReadNeighbours
    <2>1. PICK rows \in Rows(router.near6) : entries' = AddNeighbours(entries, rows)
      BY <1>10 DEF ReadNeighbours
    <2>2. rows \in Seq(Near6)
      BY <1>2, NoRows
    <2> DEFINE new == AddNeighbours(entries, rows)
    <2>3. ASSUME NEW m \in DOMAIN entries
          PROVE  m \in DOMAIN new /\ entries[m].prefixes \subseteq new[m].prefixes
      <3>1. m \in DOMAIN new /\ new[m].prefixes =
              Push(entries[m].prefixes, NearPrefixes(rows, NearBy(rows, m)))
        BY <1>1, <1>6, <2>2, NeighboursAre
      <3>2. Offered(NearPrefixes(rows, NearBy(rows, m)))
        <4>1. NearBy(rows, m) \subseteq DOMAIN rows
          BY DEF NearBy, Near, OnDevice
        <4> QED
          BY <2>2, <4>1, NearOffered
      <3> QED
        BY <1>5, <1>6, <3>1, <3>2
    <2>4. step = "near6" /\ Goto("near4") /\ Holds(entries, during)
      BY <1>10 DEF ReadNeighbours, Kept
    <2>5. Holds(new, during)
      BY <2>3, <2>4, HoldsGrows
    <2> QED
      BY <1>4, <2>1, <2>4, <2>5 DEF Step
  <1>11. CASE ReadIpv4
    <2>1. PICK rows \in Rows(router.near4) :
            IF lan = NoIface
            THEN Finish(AddIpv4(entries, rows))
            ELSE entries' = AddIpv4(entries, rows) /\ Goto("routes") /\ UNCHANGED slaac
      BY <1>11 DEF ReadIpv4
    <2>2. rows \in Seq(Near4)
      BY <1>2, NoRows
    <2> DEFINE new == AddIpv4(entries, rows)
    <2>3. /\ ListOK(new)
          /\ \A m \in DOMAIN entries : m \in DOMAIN new /\ new[m].prefixes = entries[m].prefixes
      BY <1>1, <2>2, Ipv4Is
    <2>4. step = "near4" /\ Holds(entries, during)
      BY <1>11 DEF ReadIpv4, Kept
    <2>5. Holds(new, during)
      BY <2>3, <2>4, HoldsGrows
    <2>6. CASE lan = NoIface
      BY <1>3, <2>1, <2>3, <2>5, <2>6
    <2>7. CASE lan # NoIface
      BY <1>4, <2>1, <2>4, <2>5, <2>7 DEF Step
    <2> QED
      BY <2>6, <2>7
  <1>12. CASE ReadRoutes
    <2>1. step = "routes" /\ Holds(entries, during)
      BY <1>12 DEF ReadRoutes, Kept
    <2>2. Finish(entries) \/ (Goto("again") /\ entries' = entries)
      BY <1>12 DEF ReadRoutes
    <2> QED
      BY <1>1, <1>3, <1>4, <2>1, <2>2 DEF Step
  <1>13. CASE ReadTargets
    <2>1. step = "again" /\ Holds(entries, during) /\ Goto("ping") /\ entries' = entries
      BY <1>13 DEF ReadTargets, Kept
    <2> QED
      BY <1>4, <2>1 DEF Step
  <1>14. CASE PingEnds
    BY <1>14 DEF PingEnds, Kept
  <1>15. CASE Complete
    <2> DEFINE new == AddSlaac(entries, answered)
    <2>1. ListOK(new)
      BY <1>1, SlaacIs
    <2>2. ASSUME NEW m \in DOMAIN entries
          PROVE  m \in DOMAIN new /\ entries[m].prefixes \subseteq new[m].prefixes
      <3>1. /\ m \in DOMAIN new /\ new[m].prefixes = Push(entries[m].prefixes, Guesses(m, answered))
            /\ Offered(Guesses(m, answered))
        BY <1>1, SlaacIs
      <3> QED
        BY <1>5, <1>6, <3>1
    <2>3. Finish(new) /\ Holds(entries, during)
      BY <1>15 DEF Complete, Kept
    <2>4. Holds(new, during)
      BY <2>2, <2>3, HoldsGrows
    <2> QED
      BY <1>3, <2>1, <2>3, <2>4
  <1>16. CASE Change
    <2>1. /\ UNCHANGED <<step, entries, shown>> /\ during \subseteq during'
          /\ step = "idle" => during' = during
      BY <1>16 DEF Change
    <2> QED
      BY <2>1, HoldsStays DEF Kept
  <1>17. CASE UNCHANGED vars
    BY <1>17 DEF vars, Kept
  <1> QED
    BY <1>7, <1>8, <1>9, <1>10, <1>11, <1>12, <1>13, <1>14, <1>15, <1>16, <1>17 DEF Next, Command

\* A prefix a host has leased all the time is offered, whatever fails and whatever
\* else is on the network, as long as the hosts with leases, the prefixes of the
\* host and those of each of its leases keep within the limits.
THEOREM LeasesAreShown == Spec => []LeasedIsShown
  <1>1. Init => Kept
    BY DEF Init, Kept
  <1>2. Spec => []Kept
    BY <1>1, InitHonest, NextHonest, NextKept, HostsTypeInv, PTL DEF Spec
  <1>3. Kept => LeasedIsShown
    BY DEF Kept, Holds, Room, PublicPrefix, LeasedIsShown
  <1> QED
    BY <1>2, <1>3, PTL

=============================================================================
