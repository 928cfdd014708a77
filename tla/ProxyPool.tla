----------------------------- MODULE ProxyPool -----------------------------
(***************************************************************************)
(* stealth.ProxyPool (internal/stealth/proxy.go): a list of SOCKS5 proxies *)
(* that a background goroutine replaces, while callers take the next one   *)
(* and report how it did.  Reports name an address, not an entry, so one   *)
(* about a proxy of an earlier list falls on the entry that has its        *)
(* address now.  StrictGeo and GeoVerify restrict the pool to US proxies   *)
(* and are meant to fail closed.                                           *)
(***************************************************************************)
EXTENDS Naturals, Sequences, FiniteSets

CONSTANTS Hosts, Callers,
          MaxFailures,     \* 3, written out in Next and MarkFailure
          MaxRefreshes     \* bound: refreshes

ASSUME ProxyAssumption == MaxFailures \in Nat \ {0} /\ IsFiniteSet(Hosts)

VARIABLES mode,       \* the configuration: Off until Start
          proxies,    \* p.proxies
          cursor,     \* p.current
          refresh,    \* the goroutine of Start
          refreshes,
          holding,    \* the host each caller was given, or "none"
          confirmed   \* hosts whose last lookup found them in the US

proxyVars == <<mode, proxies, cursor, refresh, refreshes, holding, confirmed>>

ProxyEntry == [host : Hosts, alive : BOOLEAN, failures : Nat]
Off == [strict |-> FALSE, verify |-> FALSE, on |-> FALSE]
Sleeping == [pc |-> "sleep"]
Countries == {"US", "other", "unknown"}

ProxyTyped ==
    /\ mode \in [strict : BOOLEAN, verify : BOOLEAN, on : BOOLEAN]
    /\ Len(proxies) <= Cardinality(Hosts)
    /\ \A i \in 1..Len(proxies) : proxies[i] \in ProxyEntry
    /\ cursor \in Nat /\ (cursor = 0 \/ cursor < Len(proxies))
    /\ refresh = Sleeping \/ refresh.pc \in {"listed", "verified", "checked"}
    /\ holding \in [Callers -> Hosts \union {"none"}]
    /\ confirmed \subseteq Hosts

ProxyInit ==
    /\ mode = Off
    /\ proxies = << >> /\ cursor = 0
    /\ refresh = Sleeping /\ refreshes = 0
    /\ holding = [c \in Callers |-> "none"]
    /\ confirmed = {}

StartPool ==
    /\ mode = Off
    /\ mode' \in [strict : BOOLEAN, verify : BOOLEAN, on : {TRUE}]
    /\ UNCHANGED <<proxies, cursor, refresh, refreshes, holding, confirmed>>

\* parseProxyList: what a list says of the country of each host it names.
ParsedLists == UNION {[listed -> Countries] : listed \in SUBSET Hosts \ {{}}}

\* A failed download and an empty list end the refresh.
FetchList ==
    /\ mode.on /\ refresh = Sleeping /\ refreshes < MaxRefreshes
    /\ refreshes' = refreshes + 1
    /\ \E says \in ParsedLists :
          refresh' = [pc |-> "listed", hosts |-> DOMAIN says, says |-> says]
    /\ UNCHANGED <<mode, proxies, cursor, holding, confirmed>>

\* Mutant: hosts the lookup does not know stay on the list.
GeoVerifiedOpen(listed, found) == IF found = {} THEN listed ELSE listed \intersect found

\* geoVerifyProxies: the hosts a lookup found in the US, or none when it failed.
GeoVerified(listed, found) == listed \intersect found

Verify ==
    /\ refresh.pc = "listed"
    /\ IF mode.strict /\ mode.verify
         THEN \E found \in SUBSET refresh.hosts :
                 LET kept == GeoVerified(refresh.hosts, found)
                 IN  /\ confirmed' = (confirmed \ refresh.hosts) \union found
                     /\ refresh' = IF kept = {} THEN Sleeping
                                   ELSE [pc |-> "verified", hosts |-> kept,
                                         says |-> [h \in kept |-> "US"]]
         ELSE refresh' = [refresh EXCEPT !.pc = "verified"] /\ UNCHANGED confirmed
    /\ UNCHANGED <<mode, proxies, cursor, refreshes, holding>>

\* healthCheck: the hosts that accept a connection within five seconds.
Reachable(hosts) == SUBSET hosts

\* The loop of health checks, which skips what the list says is elsewhere.
HealthChecks ==
    /\ refresh.pc = "verified"
    /\ \E up \in Reachable(refresh.hosts) :
          LET healthy == {h \in up : ~(mode.strict /\ refresh.says[h] = "other")}
          IN  refresh' = IF healthy = {} /\ mode.strict THEN Sleeping
                         ELSE [pc |-> "checked", alive |-> healthy # {},
                               hosts |-> IF healthy = {} THEN refresh.hosts ELSE healthy]
    /\ UNCHANGED <<mode, proxies, cursor, refreshes, holding, confirmed>>

\* Sorted by latency, which may be any order.
Orders(S) == {s \in [1..Cardinality(S) -> S] : \A h \in S : \E i \in DOMAIN s : s[i] = h}

Install ==
    /\ refresh.pc = "checked"
    /\ \E s \in Orders(refresh.hosts) :
          proxies' = [i \in DOMAIN s |-> [host |-> s[i], alive |-> refresh.alive, failures |-> 0]]
    /\ cursor' = 0
    /\ refresh' = Sleeping
    /\ UNCHANGED <<mode, refreshes, holding, confirmed>>

Usable(e) == e.alive /\ e.failures < MaxFailures

\* The loop reads at the cursor and then advances it, round the end.
Slot(k) == IF k = 0 THEN cursor + 1 ELSE ((cursor + k) % Len(proxies)) + 1

\* The first usable entry from the cursor on; there may be none, then the caller
\* gets nil.
NextProxy(c) ==
    /\ holding[c] = "none"
    /\ \E k \in 0..Len(proxies) - 1 :
          /\ Usable(proxies[Slot(k)])
          /\ \A j \in 0..k - 1 : ~Usable(proxies[Slot(j)])
          /\ cursor' = (cursor + k + 1) % Len(proxies)
          /\ holding' = [holding EXCEPT ![c] = proxies[Slot(k)].host]
    /\ UNCHANGED <<mode, proxies, refresh, refreshes, confirmed>>

ForHost(h, Change(_)) ==
    proxies' = [i \in DOMAIN proxies |-> IF proxies[i].host = h THEN Change(proxies[i]) ELSE proxies[i]]

Struck(e) == [e EXCEPT !.failures = @ + 1, !.alive = @ /\ e.failures + 1 < MaxFailures]
Cleared(e) == [e EXCEPT !.failures = 0, !.alive = TRUE]

Done(c) == holding' = [holding EXCEPT ![c] = "none"]

MarkFailure(c) ==
    /\ holding[c] # "none"
    /\ ForHost(holding[c], Struck)
    /\ Done(c)
    /\ UNCHANGED <<mode, cursor, refresh, refreshes, confirmed>>

MarkSuccess(c) ==
    /\ holding[c] # "none"
    /\ ForHost(holding[c], Cleared)
    /\ Done(c)
    /\ UNCHANGED <<mode, cursor, refresh, refreshes, confirmed>>

ProxyNext ==
    \/ StartPool \/ FetchList \/ Verify \/ HealthChecks \/ Install
    \/ \E c \in Callers : NextProxy(c) \/ MarkFailure(c) \/ MarkSuccess(c)

ProxySpec == ProxyInit /\ [][ProxyNext]_proxyVars

\* Strict geography fails closed: a proxy that enters the pool has been confirmed in
\* the US by the lookup of that very refresh, whatever the list claims, and however
\* downloads, lookups and health checks fail (proxy.go:135-206, 395-456).
StrictFailsClosed ==
    [][LET installs == refresh' # refresh /\ (proxies' # proxies \/ refresh.pc = "checked")
       IN  mode.strict /\ mode.verify /\ installs =>
             \A i \in DOMAIN proxies' : proxies'[i].host \in confirmed]_proxyVars
=============================================================================
