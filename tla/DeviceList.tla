----------------------------- MODULE DeviceList -----------------------------
(* device.list (main/api_devices.cpp): the P4 returns its devices in pages,  *)
(* which devlist_fetch_all splices into one list; api_device_list keeps the  *)
(* last one for a second.  A page is one round trip and the pool of the P4   *)
(* is not locked between two of them.                                        *)
EXTENDS Naturals, Sequences, SequencesExt, FiniteSets

CONSTANTS
    ListTasks,      \* tasks that serve device.list (httpd, task_remote)
    Device,
    PageSize,       \* devices that fit one frame of the P4
    MaxPages        \* kDevListMaxPages

ASSUME ListAssumption ==
    /\ IsFiniteSet(Device)
    /\ PageSize \in Nat \ {0} /\ MaxPages \in Nat \ {0}

VARIABLES
    pool,       \* the devices of the P4, in the order of its table
    version,    \* counts the changes of the pool
    fetch,      \* what each task has spliced so far, and since which version
    cache       \* s_devlist_cache_buf, and whether it is younger than kDevListCacheMs

listVars == <<pool, version, fetch, cache>>

NoFetch == [pc |-> "idle", start |-> 0, pages |-> 0, got |-> <<>>,
            steady |-> {}, since |-> 0]

ListTypeOK ==
    /\ pool \in Seq(Device) /\ IsInjective(pool)
    /\ version \in Nat
    /\ fetch \in [ListTasks -> [pc : {"idle", "page", "store"}, start : Nat,
                                pages : 0..MaxPages, got : Seq(Device),
                                steady : SUBSET Device, since : 0..version]]
    /\ cache \in [fresh : BOOLEAN, list : Seq(Device), since : 0..version]

ListInit ==
    /\ pool = SetToSeq(Device)
    /\ version = 0
    /\ fetch = [c \in ListTasks |-> NoFetch]
    /\ cache = [fresh |-> FALSE, list |-> <<>>, since |-> 0]

(* api_device_list: within the second the cache answers, under its mutex.    *)
FromCache(c) ==
    /\ fetch[c].pc = "idle" /\ cache.fresh
    /\ UNCHANGED <<pool, version, fetch, cache>>

StartFetch(c) ==
    /\ fetch[c].pc = "idle" /\ ~ cache.fresh
    /\ fetch' = [fetch EXCEPT ![c] =
                    [NoFetch EXCEPT !.pc = "page", !.steady = ToSet(pool), !.since = version]]
    /\ UNCHANGED <<pool, version, cache>>

(* The P4: the devices from `start' on that fit a frame, and where to go on; *)
(* the last page leads to an empty one that leads nowhere.                   *)
PageEnd(start) == IF start + PageSize < Len(pool) THEN start + PageSize ELSE Len(pool)
Splice(f, next) ==
    [f EXCEPT !.got = @ \o SubSeq(pool, f.start + 1, PageEnd(f.start)),
              !.pages = @ + 1, !.start = next,
              !.pc = IF next <= f.start THEN "store" ELSE "page"]

(* Mutant: the cursor is taken for a one-based index. *)
PageSkips(c) ==
    LET f == fetch[c]
        next == IF PageEnd(f.start) > f.start THEN PageEnd(f.start) + 1 ELSE f.start IN
    /\ f.pc = "page" /\ f.pages < MaxPages
    /\ fetch' = [fetch EXCEPT ![c] = Splice(f, next)]
    /\ UNCHANGED <<pool, version, cache>>

Page(c) ==
    LET f == fetch[c] IN
    /\ f.pc = "page" /\ f.pages < MaxPages
    /\ fetch' = [fetch EXCEPT ![c] = Splice(f, PageEnd(f.start))]
    /\ UNCHANGED <<pool, version, cache>>

(* Both tries of a page fail, the answer does not parse or fit, the budget   *)
(* of eight seconds is used up, or the pages are: an error, no partial list. *)
FetchFails(c) ==
    /\ fetch[c].pc = "page"
    /\ fetch' = [fetch EXCEPT ![c] = NoFetch]
    /\ UNCHANGED <<pool, version, cache>>

StoreList(c) ==
    /\ fetch[c].pc = "store"
    /\ cache' = [fresh |-> TRUE, list |-> fetch[c].got, since |-> fetch[c].since]
    /\ fetch' = [fetch EXCEPT ![c] = NoFetch]
    /\ UNCHANGED <<pool, version>>

(* The second is over. *)
CacheExpires ==
    /\ cache.fresh
    /\ cache' = [cache EXCEPT !.fresh = FALSE]
    /\ UNCHANGED <<pool, version, fetch>>

(* The pool changes: a device is entered anywhere; one that leaves either    *)
(* moves those behind it up or has the last one take its place.              *)
PoolChange(new) ==
    /\ pool' = new /\ version' = version + 1
    /\ fetch' = [c \in ListTasks |-> [fetch[c] EXCEPT !.steady = @ \cap ToSet(new)]]
    /\ UNCHANGED cache

DeviceJoins ==
    \E d \in Device \ ToSet(pool), i \in 1..(Len(pool) + 1) : PoolChange(InsertAt(pool, i, d))
DeviceLeaves == \E i \in DOMAIN pool :
    \/ PoolChange(RemoveAt(pool, i))
    \/ i < Len(pool) /\ PoolChange(Front(ReplaceAt(pool, i, Last(pool))))

(* The cache is in RAM. *)
ListRestart ==
    /\ fetch' = [c \in ListTasks |-> NoFetch]
    /\ cache' = [fresh |-> FALSE, list |-> <<>>, since |-> 0]
    /\ UNCHANGED <<pool, version>>

ListStep(c) == Page(c) \/ FetchFails(c) \/ StoreList(c)
ListRequest(c) == FromCache(c) \/ StartFetch(c)
ListEvent == DeviceJoins \/ DeviceLeaves

-----------------------------------------------------------------------------
Times(f, d) == Cardinality({i \in DOMAIN f.got : f.got[i] = d})

(* A change of the pool while a list is spliced costs that list at most one  *)
(* of the devices that were there all the time, dropped or doubled; with no  *)
(* change the list is the pool (the comment above devlist_fetch_all).        *)
GapsBounded ==
    \A c \in ListTasks :
        LET f == fetch[c] IN
        f.pc = "store" =>
            /\ Cardinality({d \in f.steady : Times(f, d) # 1}) <= version - f.since
            /\ version = f.since => f.got = pool

(* "push events (device.added/removed) refresh the cache out-of-band": a     *)
(* list that is served from the cache knows of every change of the pool.     *)
(* Does not hold (MCStores_claims.cfg): api_device_list reads no event, and  *)
(* serves the list for its lifetime.                                         *)
CacheFollowsPool == cache.fresh => cache.since = version
=============================================================================
