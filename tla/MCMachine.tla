----------------------------- MODULE MCMachine -----------------------------
(* The services a command uses outside the project: the facet cache, the    *)
(* placement of an adapter, the polling of a login and the retries of a     *)
(* request.  They share nothing, so a behaviour is one of any one of them,  *)
(* and the others rest in one of their initial states.                      *)
EXTENDS FacetCache, AdapterPlacement, DevicePoll, HttpRetry, TLC

MCClockSettings == {-2, 2}

VARIABLE service  \* the one this behaviour is of

Init ==
    /\ CacheInit /\ PlacementInit /\ PollInit /\ CallInit
    /\ service \in {"cache", "adapter", "device", "request"}
    /\ service # "adapter" => ~ legacy
    /\ service # "device" => poll = StartOf(1, MinPollInterval)
    /\ service # "request" => call.method = "GET"

Next ==
    \/ /\ service = "cache" /\ CacheNext
       /\ UNCHANGED <<service, placementVars, pollVars, callVars>>
    \/ /\ service = "adapter" /\ PlacementNext
       /\ UNCHANGED <<service, cacheVars, pollVars, callVars>>
    \/ /\ service = "device" /\ PollNext
       /\ UNCHANGED <<service, cacheVars, placementVars, callVars>>
    \/ /\ service = "request" /\ CallNext
       /\ UNCHANGED <<service, cacheVars, placementVars, pollVars>>

Spec == Init /\ [][Next]_<<service, cacheVars, placementVars, pollVars, callVars>>

Symmetry == Permutations(Fetcher) \cup Permutations(Placer) \cup Permutations(Generation)
=============================================================================
