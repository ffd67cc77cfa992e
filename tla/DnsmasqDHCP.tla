----------------------------- MODULE DnsmasqDHCP -----------------------------
(***************************************************************************)
(* The dnsmasq DHCP collector, src/modules/dnsmasq_dhcp/collect.go.        *)
(* collect stats the leases file and, when its modification time equals    *)
(* the one cached, returns the cached metrics; otherwise it reads the IPs  *)
(* of the lease lines (findIPs), counts each IP in the first configured    *)
(* range containing it, and computes each range's utilization in 1/1000    *)
(* percent.                                                                *)
(*                                                                         *)
(* An IP is a model value; a range is its set of hosts, its family and    *)
(* whether its host count overflows int64 (big IPv6 ranges); r.String() is *)
(* the range itself, so two equal ranges share their metric names.  A     *)
(* leases line that findIPs skips (a duid line, a line of other shape) is  *)
(* Junk.  The charts (charts.go) are built once from the ranges; the job   *)
(* writes data[dim.ID] for every dimension of them.                        *)
(***************************************************************************)
EXTENDS Naturals, Sequences, SequencesExt, FiniteSets, Functions

CONSTANTS
    IPs,        \* the addresses
    Junk,       \* a leases line without a lease
    Ranges,     \* d.ranges, in order: a sequence of [hosts, family, big]
    MaxLines,   \* bound on the lines of the leases file
    MaxWrites   \* bound on the rewrites of the leases file

ASSUME Junk \notin IPs /\ \A k \in DOMAIN Ranges : Ranges[k].hosts \subseteq IPs

RangeNames == Range(Ranges)

\* A leases file: each IP leased at most once.
LeaseFiles == {s \in BoundedSeq(IPs \cup {Junk}, MaxLines) :
                 \A i, k \in DOMAIN s : i # k /\ s[i] # Junk => s[i] # s[k]}

NoMetrics == [count |-> <<>>, pct |-> <<>>]

VARIABLES
    leases,   \* the content of the leases file
    mtime,    \* its modification time
    modTime,  \* d.modTime (0: never read)
    mx,       \* d.mx, the cached metrics
    last,     \* what the last collect returned
    seenAt,   \* the file's modification time when that collect ran
    writes    \* rewrites of the leases file so far

vars == <<leases, mtime, modTime, mx, last, seenAt, writes>>

-----------------------------------------------------------------------------
\* findIPs: the IPs of the lines that have one, in file order.
FindIPs(lines) == SelectSeq(lines, LAMBDA l : l \in IPs)

\* The index of the first range that contains ip, 0 if none.
FirstRange(ip) ==
    LET ks == {k \in DOMAIN Ranges : ip \in Ranges[k].hosts}
    IN IF ks = {} THEN 0 ELSE CHOOSE k \in ks : \A m \in ks : k <= m

\* Mutant: the inner loop without "break": an IP counts in every range
\* containing it.
TallyNoBreak(ips, cnt) ==
    FoldLeft(LAMBDA c, ip :
               [n \in DOMAIN c |-> c[n] + Cardinality({k \in DOMAIN Ranges :
                                      Ranges[k] = n /\ ip \in Ranges[k].hosts})],
             cnt, ips)

\* The first loop of collectRangesStats: mx[r.String()]++ for the first
\* range r that contains the IP, then break.  Every name starts at 0, as
\* the second loop leaves it.
Tally(ips, cnt) ==
    FoldLeft(LAMBDA c, ip :
               IF FirstRange(ip) = 0 THEN c
               ELSE [c EXCEPT ![Ranges[FirstRange(ip)]] = @ + 1],
             cnt, ips)

\* Mutant: the percent over the hosts less the network address.
CalcPercentOffByOne(n, hosts) ==
    IF n = 0 \/ hosts = 0 THEN 0 ELSE (n * 100 * 1000) \div (hosts - 1)

\* calcPercent(ips, hosts) * 1000 truncated to int64: 0 when either is 0.
CalcPercent(n, hosts) == IF n = 0 \/ hosts = 0 THEN 0 ELSE (n * 100 * 1000) \div hosts

\* collectRangesStats: the counts, and the percent of every range whose
\* host count fits int64 (hosts.IsInt64()).
CollectRangesStats(ips) ==
    LET cnt == Tally(ips, [n \in RangeNames |-> 0])
    IN [count |-> cnt,
        pct |-> [n \in {r \in RangeNames : ~r.big} |->
                   CalcPercent(cnt[n], Cardinality(n.hosts))]]

\* A metric of collect's map: <<"count", r>> is mx[r.String()],
\* <<"pct", r>> is mx[r.String()+"_percent"].
MetricKeys(m) ==
    {<<"count", r>> : r \in DOMAIN m.count} \cup {<<"pct", r>> : r \in DOMAIN m.pct}

\* Mutant: the utilization dimension given the range's name as its ID,
\* without the "_percent" suffix.
AddRangeToChartsNoSuffix(cs, r) ==
    IF r.family \notin {"v4", "v6"} THEN [cs EXCEPT !.ok = FALSE]
    ELSE LET fam == IF r.family = "v4" THEN "ipv4" ELSE "ipv6"
             a   == [chart |-> <<fam, "active_leases">>, id |-> <<"count", r>>]
             u   == [chart |-> <<fam, "utilization">>, id |-> <<"count", r>>]
         IN IF a \in cs.dims \/ u \in cs.dims THEN [cs EXCEPT !.ok = FALSE]
            ELSE [cs EXCEPT !.dims = @ \cup {a, u}]

\* addRangeToCharts: the chart family from r.Family() (an error for any
\* other), then AddDim of r.String() to <prefix>_active_leases and of
\* r.String()+"_percent" to <prefix>_utilization; AddDim fails on an ID
\* the chart already has.  A dimension is its chart and its ID.
AddRangeToCharts(cs, r) ==
    IF r.family \notin {"v4", "v6"} THEN [cs EXCEPT !.ok = FALSE]
    ELSE LET fam == IF r.family = "v4" THEN "ipv4" ELSE "ipv6"
             a   == [chart |-> <<fam, "active_leases">>, id |-> <<"count", r>>]
             u   == [chart |-> <<fam, "utilization">>, id |-> <<"pct", r>>]
         IN IF a \in cs.dims \/ u \in cs.dims THEN [cs EXCEPT !.ok = FALSE]
            ELSE [cs EXCEPT !.dims = @ \cup {a, u}]

\* The chart templates the collector copies: active leases and utilization
\* of each family.
ChartTemplates == {"ipv4", "ipv6"} \X {"active_leases", "utilization"}

\* DnsmasqDHCP.charts: every range added in order to a copy of the
\* templates, nil (ok = FALSE) at the first error; of the four charts only
\* those with dimensions are kept.
DHCPCharts ==
    LET cs == FoldLeft(LAMBDA acc, r : IF acc.ok THEN AddRangeToCharts(acc, r) ELSE acc,
                       [ok |-> TRUE, dims |-> {}], Ranges)
    IN [ok     |-> cs.ok,
        dims   |-> cs.dims,
        charts |-> {c \in ChartTemplates : \E d \in cs.dims : d.chart = c}]

-----------------------------------------------------------------------------
Init ==
    /\ leases \in LeaseFiles
    /\ mtime = 1
    /\ modTime = 0
    /\ mx = NoMetrics
    /\ last = NoMetrics
    /\ seenAt = 0
    /\ writes = 0

\* dnsmasq rewrites the leases file; the file system gives it a newer
\* modification time.
WriteLeases ==
    /\ writes < MaxWrites
    /\ leases' \in LeaseFiles
    /\ mtime' = mtime + 1
    /\ writes' = writes + 1
    /\ UNCHANGED <<modTime, mx, last, seenAt>>

\* Mutant: any cached metrics taken as current (notChanged := d.mx != nil).
CollectCachedForever ==
    /\ IF modTime # 0 THEN UNCHANGED <<modTime, mx>>
       ELSE modTime' = mtime /\ mx' = CollectRangesStats(FindIPs(leases))
    /\ last' = mx'
    /\ seenAt' = mtime
    /\ UNCHANGED <<leases, mtime, writes>>

\* DnsmasqDHCP.collect: unchanged modification time returns d.mx; else
\* d.modTime and d.mx are replaced by the file's and its statistics.
Collect ==
    /\ IF modTime = mtime THEN UNCHANGED <<modTime, mx>>
       ELSE modTime' = mtime /\ mx' = CollectRangesStats(FindIPs(leases))
    /\ last' = mx'
    /\ seenAt' = mtime
    /\ UNCHANGED <<leases, mtime, writes>>

Next == WriteLeases \/ Collect

Spec == Init /\ [][Next]_vars

-----------------------------------------------------------------------------
TypeOK ==
    /\ leases \in LeaseFiles
    /\ modTime \in 0..mtime
    /\ mx = NoMetrics \/
       /\ mx.count \in [RangeNames -> Nat]
       /\ mx.pct \in [{r \in RangeNames : ~r.big} -> 0..100000]
    /\ seenAt \in 0..mtime
    /\ writes \in 0..MaxWrites

\* Every metric collect returns has a dimension in the charts built from
\* the same ranges, so PopulateMetrics writes every value collected.
CollectedCharted ==
    (last # NoMetrics /\ DHCPCharts.ok) =>
        MetricKeys(last) \subseteq
            {d.id : d \in {e \in DHCPCharts.dims : e.chart \in DHCPCharts.charts}}

\* Overlapping ranges: the active leases of all ranges, as collect returns
\* them, add up to the leased IPs that some range contains; no IP is
\* counted twice.
CountsPartitionLeases ==
    (seenAt = mtime /\ last # NoMetrics) =>
        SumFunction(last.count) =
            Len(SelectSeq(FindIPs(leases), LAMBDA ip : FirstRange(ip) # 0))
====
