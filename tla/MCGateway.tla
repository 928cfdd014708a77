----------------------------- MODULE MCGateway -----------------------------
(***************************************************************************)
(* The components of the gateway that keep their own state, checked in one *)
(* run: "part" picks the one that moves, the others stay where they begin. *)
(***************************************************************************)
EXTENDS TokenPool, RunCache, RateLimit, Credentials, SearchCache, ConfigReload,
        Dashboard, ProxyPool, Refresher, UpstreamClient, Research, Relay, StatusCache

VARIABLE part

\* Requests per minute of each tier.
Rates == [tier \in {"global", "account", "client"} |->
            CASE tier = "global" -> 4 [] tier = "account" -> 3 [] OTHER -> 1]
ConfiguredProxies == <<"e1">>
SearchOrder == <<"parallel", "searxng">>

gatewayVars ==
    <<part, poolVars, runVars, rateVars, credVars, searchVars,
      reloadVars, dashVars, proxyVars, refresherVars, upstreamVars,
      researchVars, relayVars, statusVars>>

Parts == {"tokens", "runs", "limits", "login", "search", "reload", "dashboard", "proxies", "egress", "upstream", "research", "relay", "status"}

GatewayInit ==
    /\ part \in Parts
    /\ PoolInit /\ RunInit /\ RateInit /\ CredInit
    /\ SearchInit /\ ReloadInit /\ DashInit /\ ProxyInit
    /\ RefresherInit /\ UpstreamInit /\ ResearchInit /\ RelayInit
    /\ StatusInit

PoolMoves ==
    /\ part = "tokens" /\ PoolNext
    /\ UNCHANGED <<part, runVars, rateVars, credVars, searchVars, reloadVars, dashVars,
                   proxyVars, refresherVars, upstreamVars, researchVars, relayVars, statusVars>>

RunMoves ==
    /\ part = "runs" /\ RunNext
    /\ UNCHANGED <<part, poolVars, rateVars, credVars, searchVars, reloadVars, dashVars,
                   proxyVars, refresherVars, upstreamVars, researchVars, relayVars, statusVars>>

RateMoves ==
    /\ part = "limits" /\ RateNext
    /\ UNCHANGED <<part, poolVars, runVars, credVars, searchVars, reloadVars, dashVars,
                   proxyVars, refresherVars, upstreamVars, researchVars, relayVars, statusVars>>

CredMoves ==
    /\ part = "login" /\ CredNext
    /\ UNCHANGED <<part, poolVars, runVars, rateVars, searchVars, reloadVars, dashVars,
                   proxyVars, refresherVars, upstreamVars, researchVars, relayVars, statusVars>>

SearchMoves ==
    /\ part = "search" /\ SearchNext
    /\ UNCHANGED <<part, poolVars, runVars, rateVars, credVars, reloadVars, dashVars,
                   proxyVars, refresherVars, upstreamVars, researchVars, relayVars, statusVars>>

ReloadMoves ==
    /\ part = "reload" /\ ReloadNext
    /\ UNCHANGED <<part, poolVars, runVars, rateVars, credVars, searchVars, dashVars,
                   proxyVars, refresherVars, upstreamVars, researchVars, relayVars, statusVars>>

DashMoves ==
    /\ part = "dashboard" /\ DashNext
    /\ UNCHANGED <<part, poolVars, runVars, rateVars, credVars, searchVars, reloadVars,
                   proxyVars, refresherVars, upstreamVars, researchVars, relayVars, statusVars>>

ProxyMoves ==
    /\ part = "proxies" /\ ProxyNext
    /\ UNCHANGED <<part, poolVars, runVars, rateVars, credVars, searchVars, reloadVars,
                   dashVars, refresherVars, upstreamVars, researchVars, relayVars, statusVars>>

RefresherMoves ==
    /\ part = "egress" /\ RefresherNext
    /\ UNCHANGED <<part, poolVars, runVars, rateVars, credVars, searchVars, reloadVars,
                   dashVars, proxyVars, upstreamVars, researchVars, relayVars, statusVars>>

UpstreamMoves ==
    /\ part = "upstream" /\ UpstreamNext
    /\ UNCHANGED <<part, poolVars, runVars, rateVars, credVars, searchVars, reloadVars,
                   dashVars, proxyVars, refresherVars, researchVars, relayVars, statusVars>>

ResearchMoves ==
    /\ part = "research" /\ ResearchNext
    /\ UNCHANGED <<part, poolVars, runVars, rateVars, credVars, searchVars, reloadVars,
                   dashVars, proxyVars, refresherVars, upstreamVars, relayVars, statusVars>>

RelayMoves ==
    /\ part = "relay" /\ RelayNext
    /\ UNCHANGED <<part, poolVars, runVars, rateVars, credVars, searchVars, reloadVars,
                   dashVars, proxyVars, refresherVars, upstreamVars, researchVars, statusVars>>

StatusMoves ==
    /\ part = "status" /\ StatusNext
    /\ UNCHANGED <<part, poolVars, runVars, rateVars, credVars, searchVars, reloadVars,
                   dashVars, proxyVars, refresherVars, upstreamVars, researchVars, relayVars>>

GatewayNext ==
    \/ PoolMoves \/ RunMoves \/ RateMoves \/ CredMoves
    \/ SearchMoves \/ ReloadMoves \/ DashMoves \/ ProxyMoves
    \/ RefresherMoves \/ UpstreamMoves \/ ResearchMoves \/ RelayMoves
    \/ StatusMoves

GatewaySpec ==
    /\ GatewayInit /\ [][GatewayNext]_gatewayVars
    /\ ReloadFair /\ UpstreamFair /\ RelayFair

\* The type invariants of the components (those of the modules named in Parts).
AllTyped ==
    /\ PoolTyped /\ RunTyped /\ RateTyped /\ CredTyped
    /\ SearchTyped /\ ReloadTyped /\ DashTyped /\ ProxyTyped
    /\ RefresherTyped /\ UpstreamTyped /\ ResearchTyped /\ RelayTyped
    /\ StatusTyped
=============================================================================
