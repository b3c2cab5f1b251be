--------------------------- MODULE PublishedCache ---------------------------
(***************************************************************************)
(* The in-process cache of published definitions (internal/catalog/        *)
(* cache.go), one per server instance, over the version chain of one       *)
(* report: publish and rollback handlers commit a new version and then     *)
(* invalidate their own instance, readers look a version up, read the      *)
(* store without the lock on a miss and fill the cache, and a TTL          *)
(* refresher, where one runs, polls the store.                             *)
(*                                                                         *)
(* A published version never changes (DefinitionStore!PublishedStay), so   *)
(* the number of a version stands for its payload, 0 for none.             *)
(***************************************************************************)
EXTENDS Naturals

CONSTANTS
    Instances,    \* the server processes
    Handlers,     \* the goroutines that serve publish and rollback requests
    Readers,      \* the goroutines that call GetPublished
    Home,         \* Home[g]: the instance goroutine g runs in
    TTLRunning,   \* whether StartTTLRefresh was called
    MaxVersion    \* bound on the published versions

ASSUME PublishedCacheAssumption ==
    /\ Home \in [Handlers \cup Readers -> Instances]
    /\ TTLRunning \in BOOLEAN
    /\ MaxVersion \in Nat

VARIABLES
    latest,       \* the newest published version in the store
    cache,        \* cache[i]: the version in c.items of instance i
    committed,    \* the handlers that have committed and not yet invalidated
    pc,           \* pc[r]: how far reader r is in GetPublished
    meta,         \* meta[r]: the version reader r has read
    polled        \* polled[i]: what the refresher of i read and has not filled

vars == <<latest, cache, committed, pc, meta, polled>>

Versions == 0..MaxVersion
Idle == MaxVersion + 1      \* the refresher waits for its ticker

TypeOK ==
    /\ latest \in Versions
    /\ cache \in [Instances -> Versions]
    /\ committed \subseteq Handlers
    /\ pc \in [Readers -> {"idle", "missed", "read"}]
    /\ meta \in [Readers -> Versions]
    /\ polled \in [Instances -> Versions \cup {Idle}]

Init ==
    /\ latest = 0
    /\ cache = [i \in Instances |-> 0]
    /\ committed = {}
    /\ pc = [r \in Readers |-> "idle"]
    /\ meta = [r \in Readers |-> 0]
    /\ polled = [i \in Instances |-> Idle]
-----------------------------------------------------------------------------
(* The handlers of publish and rollback *)

Commit(h) ==
    /\ h \notin committed
    /\ latest < MaxVersion
    /\ latest' = latest + 1
    /\ committed' = committed \cup {h}
    /\ UNCHANGED <<cache, pc, meta, polled>>

(* NotifyChanged follows, with no subscriber. *)
Invalidate(h) ==
    /\ h \in committed
    /\ cache' = [cache EXCEPT ![Home[h]] = 0]
    /\ committed' = committed \ {h}
    /\ UNCHANGED <<latest, pc, meta, polled>>
-----------------------------------------------------------------------------
(* GetPublished *)

(* A hit answers with the cached version at once. *)
Lookup(r) ==
    /\ pc[r] = "idle"
    /\ IF cache[Home[r]] = 0
       THEN pc' = [pc EXCEPT ![r] = "missed"] /\ meta' = [meta EXCEPT ![r] = 0]
       ELSE pc' = pc /\ meta' = [meta EXCEPT ![r] = cache[Home[r]]]
    /\ UNCHANGED <<latest, cache, committed, polled>>

(* Fault: the nil answer of the store is not looked at. *)
ReadStoreUnchecked(r) ==
    /\ pc[r] = "missed"
    /\ meta' = [meta EXCEPT ![r] = latest]
    /\ pc' = [pc EXCEPT ![r] = "read"]
    /\ UNCHANGED <<latest, cache, committed, polled>>

(* Nothing published: the answer is empty and nothing is cached. *)
ReadStore(r) ==
    /\ pc[r] = "missed"
    /\ meta' = [meta EXCEPT ![r] = latest]
    /\ pc' = [pc EXCEPT ![r] = IF latest = 0 THEN "idle" ELSE "read"]
    /\ UNCHANGED <<latest, cache, committed, polled>>

(* Fault: the entry is inserted whatever is there. *)
Overwritten(i, v) == [cache EXCEPT ![i] = v]

(* Fault: the entry is inserted only when there is none. *)
FilledIfAbsent(i, v) == [cache EXCEPT ![i] = IF @ = 0 THEN v ELSE @]

(* Insert unless an entry at least as new is there; an absent one is 0. *)
Filled(i, v) == [cache EXCEPT ![i] = IF @ < v THEN v ELSE @]

Fill(r) ==
    /\ pc[r] = "read"
    /\ cache' = Filled(Home[r], meta[r])
    /\ pc' = [pc EXCEPT ![r] = "idle"]
    /\ UNCHANGED <<latest, committed, meta, polled>>
-----------------------------------------------------------------------------
(* StartTTLRefresh *)

Poll(i) ==
    /\ TTLRunning
    /\ polled[i] = Idle
    /\ latest # 0
    /\ polled' = [polled EXCEPT ![i] = latest]
    /\ UNCHANGED <<latest, cache, committed, pc, meta>>

Refresh(i) ==
    /\ polled[i] # Idle
    /\ cache' = Filled(i, polled[i])
    /\ polled' = [polled EXCEPT ![i] = Idle]
    /\ UNCHANGED <<latest, committed, pc, meta>>

Next ==
    \/ \E h \in Handlers : Commit(h) \/ Invalidate(h)
    \/ \E r \in Readers : Lookup(r) \/ ReadStore(r) \/ Fill(r)
    \/ \E i \in Instances : Poll(i) \/ Refresh(i)

Spec == Init /\ [][Next]_vars

(* A handler and a reader that began finish, and the ticker keeps ticking.   *)
(* Nothing makes a client publish or read.                                   *)
Fairness ==
    /\ \A h \in Handlers : WF_vars(Invalidate(h))
    /\ \A r \in Readers : WF_vars(ReadStore(r) \/ Fill(r))
    /\ \A i \in Instances : WF_vars(Poll(i) \/ Refresh(i))

FairSpec == Spec /\ Fairness
-----------------------------------------------------------------------------
(* Properties *)

(* Whatever is cached, or on its way into a cache, is a version that was     *)
(* published: no reader fills the cache from an empty answer of the store,   *)
(* however lookups, store reads and fills interleave with publications.      *)
CacheSound ==
    /\ \A i \in Instances : cache[i] <= latest
    /\ \A r \in Readers : pc[r] = "read" => meta[r] \in 1..latest
    /\ \A i \in Instances : polled[i] # Idle => polled[i] \in 1..latest

(* A late fill never replaces a newer entry by an older one; only an         *)
(* invalidation in between can bring an old version back.                    *)
NeverBackwards ==
    [][\A i \in Instances :
         cache[i] # 0 /\ cache'[i] # 0 => cache[i] <= cache'[i]]_vars

(* Once publishing stops, every instance stops serving old versions: events  *)
(* invalidate the instance that published, polling covers the other          *)
(* instances and the fills that raced with an invalidation.                  *)
Converges == \A i \in Instances : <>[](cache[i] \in {0, latest})
=============================================================================
