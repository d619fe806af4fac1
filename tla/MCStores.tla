------------------------------ MODULE MCStores ------------------------------
(***************************************************************************)
(* What must survive a crash at any point: the embedding store of the       *)
(* daemon, small, and, of longctx-svc, the store of evicted spans on two    *)
(* sessions and the scope registry with its disk cache on two scopes.  They *)
(* share no state: a behaviour is one of one of them, the others standing   *)
(* at one initial state.                                                    *)
(***************************************************************************)
EXTENDS MemmapEmbedStore, EvictionStore, ScopeRegistry

CONSTANTS sc1, sc2    \* scopes: the files of sc1 change and fail

(* sc1 has as many chunks as before until an edit leaves none; sc2 has none *)
(* any more.                                                                *)
MCChunkCount(s, v) == IF v = 3 \/ (s = sc2 /\ v = 2) THEN 0 ELSE 1

Request(s, others, async) == [primary |-> s, others |-> others, async |-> async]
MCRequests == {Request(sc1, {}, TRUE), Request(sc2, {sc1}, FALSE), Request(NoScope, {sc1}, TRUE)}

(* Both have a cache of what they held before. *)
MCEarlierCaches == {[s \in {sc1, sc2} |-> [emb |-> 1, chunks |-> 1, meta |-> TRUE]]}

VARIABLE part

mcvars == <<part, vars, evars, rvars>>

FirstSha == CHOOSE sha \in Shas : TRUE

MCInit ==
    /\ part \in {"memmap", "evict", "scopes"}
    /\ Init /\ (part = "memmap" \/ st.sha = FirstSha)
    /\ EvictInit
    /\ RegistryInit

Embeds == part = "memmap" /\ UNCHANGED <<part, evars, rvars>>
Evicts == part = "evict" /\ UNCHANGED <<part, vars, rvars>>
Registers == part = "scopes" /\ UNCHANGED <<part, vars, evars>>

MCNext ==
    \/ Embeds /\ Next
    \/ Evicts /\ EvictNext
    \/ Registers /\ RegistryNext

(* What began goes on while the process lives: the write inside the embedding *)
(* store, the handler of the evictions, the request on the scopes' loop.      *)
GoesOn ==
    \/ Embeds /\ Step
    \/ Evicts /\ Continue
    \/ Registers /\ Loop

(* So do the scopes' threads, and a timer that is due gets its turn between *)
(* requests however many of them come.                                      *)
MCSpec ==
    /\ MCInit /\ [][MCNext]_mcvars
    /\ WF_mcvars(GoesOn)
    /\ SF_mcvars(Evicts /\ evict_idle)
    /\ \A s \in Scopes : WF_mcvars(Registers /\ Worker(s))
=============================================================================
