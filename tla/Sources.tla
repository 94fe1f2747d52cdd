--------------------------------- MODULE Sources --------------------------------
(***************************************************************************)
(* The sources that read the tables of the router: dhcpv6_duid, dhcpv6_mac, *)
(* interface and script.  Each table is read at a moment of its own, by a   *)
(* command that may fail, hang or outlive its output, while leases,         *)
(* neighbours and prefixes change.                                          *)
(*                                                                         *)
(* `child' is the process of command_output_with_timeout.  What it prints   *)
(* is taken when it exits.  The parent polls and reads nothing before that, *)
(* so that a child with more output than its pipe holds is "blocked".       *)
(***************************************************************************)
EXTENDS Dhcpv6

CONSTANTS
    Iface,          \* interfaces, lo among them
    Lo,             \* lo
    Loopback,       \* its address
    Configured,     \* the sources that may be configured
    RouterStates,   \* the states of the router that may occur
    NoAddr,         \* no address
    Mine,           \* lease holders with the DUID and the IAID of a source
    MyMac,          \* lease holders whose DUID ends in the MAC of a source
    MaxEvents       \* bound on changes of the router

Kind == {"dhcpv6_duid", "dhcpv6_mac", "interface", "script"}

\* leaseFile: not configured, the path of odhcpd, or another path.
Source == [kind : Kind,
           ifaces : Seq(Iface) \ {<<>>},
           filter : Prefix \cup {NoFilter, BadFilter},
           leaseFile : {"unset", "odhcpd", "other"}]

Router == [leases : Seq(Lease),
           file : {"ok", "missing", "unreadable"},
           routes : [Iface -> Seq(Prefix)],
           near : Seq(Addr),
           links : [Iface -> Addr \cup {NoAddr}]]

ASSUME SourcesAssumption ==
    /\ Lo \in Iface
    /\ Loopback \in Addr
    /\ Configured \subseteq Source
    /\ RouterStates \subseteq Router
    /\ NoAddr \notin Addr
    /\ Mine \subseteq MyMac /\ MyMac \subseteq Client
    /\ MaxEvents \in Nat

VARIABLES
    source,    \* the SourceConfig
    router,    \* what the commands and the lease file would show
    stage,     \* the command resolve_source is at, or "idle"
    todo,      \* the place of the interface it is at
    child,     \* what became of the command
    held,      \* a process the script left behind holds the pipe open
    due,       \* SOURCE_COMMAND_TIMEOUT has elapsed
    leases,    \* the lines of the lease file
    near,      \* the neighbours with the MAC
    wan,       \* the source prefixes of the interfaces so far
    found,     \* the address a script or an interface has shown
    result,    \* the last answer; NoAddr for an error, or while there is none
    during,    \* history: the states of the router since the run began
    events

vars == <<source, router, stage, todo, child, held, due, leases, near, wan, found,
          result, during, events>>
command == <<child, held, due>>
memory == <<leases, near, wan, found>>

Stage == {"route", "neigh", "addr", "script"}
Child == {"none", "running", "blocked", "exited", "nonzero", "error"}

TypeOK ==
    /\ source \in Configured
    /\ router \in RouterStates
    /\ stage \in Stage \cup {"idle"}
    /\ todo \in 0 .. Len(source.ifaces)
    /\ child \in Child
    /\ held \in BOOLEAN
    /\ due \in BOOLEAN
    /\ leases \in Seq(Lease)
    /\ near \in Seq(Addr)
    /\ wan \in Seq(Prefix)
    /\ found \in Addr \cup {NoAddr}
    /\ result \in Addr \cup {NoAddr}
    /\ during \subseteq RouterStates
    /\ events \in 0 .. MaxEvents

Init ==
    /\ source \in Configured
    /\ router \in RouterStates
    /\ stage = "idle" /\ todo = 0
    /\ child = "none" /\ held = FALSE /\ due = FALSE
    /\ leases = <<>> /\ near = <<>> /\ wan = <<>> /\ found = NoAddr
    /\ result = NoAddr
    /\ during = {router}
    /\ events = 0

-----------------------------------------------------------------------------
(* command_output_with_timeout *)

\* The command of stage s is spawned, or cannot be.
Start(s, i) ==
    /\ stage' = s
    /\ todo' = i
    /\ child' \in {"running", "error"}
    /\ held' = FALSE
    /\ due' = FALSE

\* Faulty variant: only a child that still runs is killed.
TimedOutRunning ==
    /\ child = "running"
    /\ due
    /\ child' = "error"
    /\ UNCHANGED <<source, router, stage, todo, held, due, memory, result, during, events>>

\* The poll after the deadline finds that the child has not exited and kills it.
TimedOut ==
    /\ child \in {"running", "blocked"}
    /\ due
    /\ child' = "error"
    /\ UNCHANGED <<source, router, stage, todo, held, due, memory, result, during, events>>

\* wait_with_output returns when nobody holds the pipe any more.
Output == child = "exited" /\ ~held
BadStatus == child = "nonzero" /\ ~held
NoOutput == child = "error"

Elapse ==
    /\ child \in {"running", "blocked"}
    /\ ~due
    /\ due' = TRUE
    /\ UNCHANGED <<source, router, stage, todo, child, held, memory, result, during, events>>

-----------------------------------------------------------------------------
(* The child *)

\* Its status is 0.  A script prints what it wants and may leave a process
\* behind that has inherited its output.
Exit ==
    /\ child = "running"
    /\ child' = "exited"
    /\ held' \in IF stage = "script" THEN BOOLEAN ELSE {FALSE}
    /\ wan' = IF stage = "route" THEN wan \o router.routes[source.ifaces[todo]] ELSE wan
    /\ near' = IF stage = "neigh" THEN router.near ELSE near
    /\ found' \in IF stage = "script" THEN Addr \cup {NoAddr}
                 ELSE IF stage = "addr" THEN {router.links[source.ifaces[todo]]}
                 ELSE {found}
    /\ UNCHANGED <<source, router, stage, todo, due, leases, result, during, events>>

\* Another status, or its output cannot be read.
Fail ==
    /\ child = "running"
    /\ child' \in {"nonzero", "error"}
    /\ held' \in IF stage = "script" THEN BOOLEAN ELSE {FALSE}
    /\ UNCHANGED <<source, router, stage, todo, due, memory, result, during, events>>

\* Its output fills the pipe.
Block ==
    /\ child = "running"
    /\ child' = "blocked"
    /\ UNCHANGED <<source, router, stage, todo, held, due, memory, result, during, events>>

\* The process a script left behind ends.
Release ==
    /\ held
    /\ held' = FALSE
    /\ UNCHANGED <<source, router, stage, todo, child, due, memory, result, during, events>>

-----------------------------------------------------------------------------
(* resolve_source *)

End(answer) ==
    /\ stage' = "idle"
    /\ todo' = 0
    /\ child' = "none" /\ held' = FALSE /\ due' = FALSE
    /\ leases' = <<>> /\ near' = <<>> /\ wan' = <<>> /\ found' = NoAddr
    /\ result' = answer
    /\ UNCHANGED <<source, router, during, events>>

\* An address of the interface at place i: lo needs no command.
Inspect(i) ==
    IF source.ifaces[i] = Lo
    THEN End(Loopback)
    ELSE /\ Start("addr", i)
         /\ UNCHANGED <<source, router, memory, result, during, events>>

\* The lease file is read at once.  For a MAC it is one table among several: it
\* may be missing at the path of odhcpd, and if no path is configured no error
\* matters.
Readable ==
    CASE source.kind = "dhcpv6_duid" -> router.file = "ok"
      [] source.kind = "dhcpv6_mac" ->
            \/ router.file = "ok"
            \/ router.file = "missing" /\ source.leaseFile # "other"
            \/ source.leaseFile = "unset"
      [] OTHER -> TRUE

Begin ==
    /\ stage = "idle"
    /\ during' = {router}
    /\ \/ /\ source.kind \in {"dhcpv6_duid", "dhcpv6_mac"}
          /\ Readable
          /\ leases' = IF router.file = "ok" THEN router.leases ELSE <<>>
          /\ Start("route", 1)
          /\ result' = NoAddr
          /\ UNCHANGED <<near, wan, found>>
       \/ /\ source.kind = "script"
          /\ Start("script", 0)
          /\ result' = NoAddr
          /\ UNCHANGED memory
       \/ /\ source.kind = "interface"
          /\ source.ifaces[1] # Lo
          /\ Start("addr", 1)
          /\ result' = NoAddr
          /\ UNCHANGED memory
       \/ /\ ~Readable \/ (source.kind = "interface" /\ source.ifaces[1] = Lo)
          /\ result' = IF Readable THEN Loopback ELSE NoAddr
          /\ UNCHANGED <<stage, todo, command, memory>>
    /\ UNCHANGED <<source, router, events>>

\* Faulty variant: one interface too many.
NextRouteOffByOne ==
    /\ stage = "route"
    /\ Output \/ BadStatus
    /\ IF todo <= Len(source.ifaces)
       THEN /\ Start("route", todo + 1)
            /\ UNCHANGED <<source, router, memory, result, during, events>>
       ELSE IF Delegated(wan) = {}
       THEN End(NoAddr)
       ELSE IF source.kind = "dhcpv6_duid"
       THEN End(SelectByDuid(leases, Mine, wan, source.filter, NoAddr))
       ELSE /\ Start("neigh", todo)
            /\ UNCHANGED <<source, router, memory, result, during, events>>

\* The routes of one interface are read; another status is taken for no routes.
NextRoute ==
    /\ stage = "route"
    /\ Output \/ BadStatus
    /\ IF todo < Len(source.ifaces)
       THEN /\ Start("route", todo + 1)
            /\ UNCHANGED <<source, router, memory, result, during, events>>
       ELSE IF Delegated(wan) = {}
       THEN End(NoAddr)
       ELSE IF source.kind = "dhcpv6_duid"
       THEN End(SelectByDuid(leases, Mine, wan, source.filter, NoAddr))
       ELSE /\ Start("neigh", todo)
            /\ UNCHANGED <<source, router, memory, result, during, events>>

\* The neighbours are read; without them the other candidates have to do.
AfterNeighbours ==
    /\ stage = "neigh"
    /\ Output \/ BadStatus \/ NoOutput
    /\ End(SelectByMac(leases, MyMac, near, wan, source.filter, NoAddr))

NextLink ==
    /\ stage = "addr"
    /\ Output
    /\ \/ found # NoAddr /\ End(found)
       \/ found = NoAddr /\ todo < Len(source.ifaces) /\ Inspect(todo + 1)
       \/ found = NoAddr /\ todo = Len(source.ifaces) /\ End(NoAddr)

AfterScript ==
    /\ stage = "script"
    /\ Output
    /\ End(found)

\* The `?' after a command, and the check of its status.
Abort ==
    /\ \/ NoOutput /\ stage # "neigh"
       \/ BadStatus /\ stage \in {"addr", "script"}
    /\ End(NoAddr)

-----------------------------------------------------------------------------
(* The router *)

\* Leases, routes, neighbours and addresses change.
Change ==
    /\ events < MaxEvents
    /\ events' = events + 1
    /\ router' \in RouterStates \ {router}
    /\ during' = IF stage = "idle" THEN during ELSE during \cup {router'}
    /\ UNCHANGED <<source, stage, todo, command, memory, result>>

Resolver ==
    \/ Begin \/ NextRoute \/ AfterNeighbours \/ NextLink \/ AfterScript \/ Abort
    \/ TimedOut
Process == Exit \/ Fail \/ Block \/ Release

Next == Resolver \/ Elapse \/ Process \/ Change

\* The daemon resolves again and again, and time passes.  No command has to end.
Fairness == WF_vars(Resolver) /\ WF_vars(Elapse)

SafeSpec == Init /\ [][Next]_vars
Spec == SafeSpec /\ Fairness

-----------------------------------------------------------------------------
(* Properties *)

\* What a state of the router shows: the addresses leased to some clients, the
\* neighbours, the prefixes, and the addresses the host would give itself there.
Leased(t, clients) ==
    {t.leases[i].addr : i \in {j \in DOMAIN t.leases : t.leases[j].client \in clients}}
Heard(t) == {t.near[i] : i \in DOMAIN t.near}
WanPrefixes(t) ==
    UNION {Delegated(t.routes[source.ifaces[i]]) : i \in DOMAIN source.ifaces}
Computed(t) == {Eui64(p, source.filter) : p \in WanPrefixes(t)}

Answered == stage = "idle" /\ result # NoAddr

\* What a source answers has been true during the run.  An address of a host
\* lies in a public prefix that one of the configured interfaces had, whatever
\* the filter says, and in the filter; a lease file that is configured could be
\* read; for a DUID it is in a lease of that DUID and IAID, for a MAC in a lease
\* of that MAC, or it is one of its neighbours, or computed for a prefix of the
\* run (nobody asks whether the host is there).  The answer for an interface is
\* the address of a configured interface.  Tables that change between the
\* reads, failed commands and stale leases never add up to anything else.
Grounded ==
    Answered =>
        /\ source.kind \in {"dhcpv6_duid", "dhcpv6_mac"} =>
              /\ \E t \in during : \E p \in WanPrefixes(t) : Contains(p, result)
              /\ IsPublic(result)
              /\ Within(source.filter, result)
              /\ source.leaseFile # "unset" => \E t \in during : t.file # "unreadable"
        /\ source.kind = "dhcpv6_duid" =>
              \E t \in during : t.file = "ok" /\ result \in Leased(t, Mine)
        /\ source.kind = "dhcpv6_mac" =>
              \E t \in during : \/ t.file = "ok" /\ result \in Leased(t, MyMac)
                                \/ result \in Heard(t) \cup Computed(t)
        /\ source.kind = "interface" =>
              \E i \in DOMAIN source.ifaces :
                 IF source.ifaces[i] = Lo
                 THEN result = Loopback
                 ELSE \E t \in during : result = t.links[source.ifaces[i]]

\* A lease of the host that qualifies during the whole run is not passed over:
\* the answer is one of its leases, not a neighbour nor a computed address,
\* though these are tried when the leases do not qualify.  The prefix is one of
\* every configured interface, because an interface whose routes cannot be
\* listed is taken for one without prefixes.
LeasesComeFirst ==
    /\ Answered
    /\ source.kind = "dhcpv6_mac"
    /\ \E a \in Addr, p \in Prefix :
          /\ IsPublic(a) /\ Contains(p, a) /\ Within(source.filter, a)
          /\ \A t \in during :
                /\ t.file = "ok"
                /\ a \in Leased(t, MyMac)
                /\ \A i \in DOMAIN source.ifaces : p \in Delegated(t.routes[source.ifaces[i]])
    => \E t \in during : result \in Leased(t, MyMac)

\* When the router changes its prefixes, no source goes on answering an address
\* of the old ones, though leases and neighbours with such addresses remain.
FollowsRenumbering ==
    <>[](Answered /\ source.kind \in {"dhcpv6_duid", "dhcpv6_mac"} =>
            \E p \in WanPrefixes(router) : Contains(p, result))

\* Every command is bounded, also one that blocks on its own output, except that
\* a process a script left behind holds up the run as long as it likes.
EndsUnlessHeld == stage # "idle" ~> stage = "idle" \/ held
=============================================================================
