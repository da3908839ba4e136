----------------------------- MODULE ExpertCache -----------------------------
(***************************************************************************)
(* The streaming expert cache of src/src/cache/k3_cache.c: an LRU cache    *)
(* with pinning over the routed experts, whose batch entry point           *)
(* cache_getmany works in three phases: reserve slots serially, read them  *)
(* concurrently (an OpenMP parallel for), publish serially.                *)
(*                                                                         *)
(* The client here is the most general one: any get, getmany or pin, in    *)
(* any order.  Module MoeServe replaces it by the MoE layer.               *)
(***************************************************************************)
EXTENDS Integers, Sequences, FiniteSets

CONSTANTS
  NLayers, NExperts,  \* the grid of routed experts
  NSlot,              \* slots the budget pays for
  TopK,               \* experts a token routes to
  MaxTopK,            \* K3_MAX_TOPK, the size of getmany's work array
  BadKeys,            \* experts k3_expert_ref refuses, or larger than a slot
  MaxBatch,           \* bound on the length of a getmany call
  ReadsFail           \* may a read come back short?

ASSUME CacheAssumption ==
  /\ NLayers \in Nat \ {0} /\ NExperts \in Nat \ {0}
  /\ TopK \in Nat \ {0} /\ MaxTopK \in Nat /\ TopK <= MaxTopK
  /\ NSlot \in Nat /\ NSlot >= TopK + 1       \* k3_cache_init refuses less
  /\ BadKeys \subseteq 0..(NLayers * NExperts - 1)
  /\ MaxBatch \in Nat
  /\ ReadsFail \in BOOLEAN

Key(layer, e) == layer * NExperts + e
Keys == 0..(NLayers * NExperts - 1)
Slots == 0..(NSlot - 1)

EMPTY == -1      \* K3_SLOT_EMPTY
INFLIGHT == -2   \* K3_SLOT_INFLIGHT
None == -1
Torn == -1       \* bytes that are no expert's

VARIABLES
  slot_of,   \* [Keys -> slot or None]
  key_of,    \* [Slots -> key, EMPTY or INFLIGHT]
  used_at,   \* [Slots -> rank]: the order of the LRU stamps, oldest lowest
  pinned,    \* slots never to evict
  arena,     \* [Slots -> the key whose bytes the slot holds, or Torn]
  cpc,       \* "idle", or getmany's phase: "reserve", "read", "publish"
  ids, ip,   \* getmany's argument and its position in phase 1
  wslot, wgot,   \* getmany's Work array, by key: the slot and the read's state
  served     \* what the last get returned: a slot, or -1

cacheVars == <<slot_of, key_of, used_at, pinned, arena, cpc, ids, ip, wslot, wgot, served>>
workVars == <<cpc, ids, ip, wslot, wgot>>

(* k3_cache_init. *)
CacheInit ==
  /\ slot_of = [k \in Keys |-> None]
  /\ key_of = [s \in Slots |-> EMPTY]
  /\ used_at = [s \in Slots |-> s + 1]
  /\ pinned = {}
  /\ arena = [s \in Slots |-> Torn]
  /\ cpc = "idle" /\ ids = <<>> /\ ip = 1
  /\ wslot = [k \in Keys |-> None]
  /\ wgot = [k \in Keys |-> "none"]
  /\ served = -1

-----------------------------------------------------------------------------

(* used_at[s] = ++clock makes s the newest.  Only the order of the stamps  *)
(* is ever looked at, so the stamps are kept as ranks 1..NSlot.            *)
Touch(s) ==
  used_at' = [i \in Slots |->
                IF i = s THEN NSlot
                ELSE IF used_at[i] > used_at[s] THEN used_at[i] - 1
                ELSE used_at[i]]

(* pick_victim: the first empty slot, else the oldest unpinned one; never  *)
(* a slot that is being read into.                                         *)
Victim(s) ==
  \/ /\ key_of[s] = EMPTY
     /\ \A i \in Slots : key_of[i] = EMPTY => s <= i
  \/ /\ \A i \in Slots : key_of[i] # EMPTY
     /\ key_of[s] # INFLIGHT
     /\ s \notin pinned
     /\ \A i \in Slots \ pinned : key_of[i] # INFLIGHT => used_at[s] <= used_at[i]

(* slot_of once the expert in slot s, if any, has been evicted. *)
Evicted(s) ==
  IF key_of[s] >= 0 THEN [slot_of EXCEPT ![key_of[s]] = None] ELSE slot_of

(* cache_get and k3_cache_prefetch, both through admit. *)
GetHit(k) ==
  /\ slot_of[k] # None
  /\ Touch(slot_of[k])
  /\ served' = slot_of[k]
  /\ UNCHANGED <<slot_of, key_of, pinned, arena, workVars>>

GetRefused(k) ==
  /\ slot_of[k] = None
  /\ k \in BadKeys \/ \A s \in Slots : ~Victim(s)
  /\ served' = -1
  /\ UNCHANGED <<slot_of, key_of, used_at, pinned, arena, workVars>>

GetLoads(k) ==
  /\ slot_of[k] = None
  /\ k \notin BadKeys
  /\ \E s \in Slots :
       /\ Victim(s)
       /\ slot_of' = [Evicted(s) EXCEPT ![k] = s]
       /\ key_of' = [key_of EXCEPT ![s] = k]
       /\ arena' = [arena EXCEPT ![s] = k]
       /\ Touch(s)
       /\ served' = s
  /\ UNCHANGED <<pinned, workVars>>

GetShort(k) ==
  /\ ReadsFail
  /\ slot_of[k] = None
  /\ k \notin BadKeys
  /\ \E s \in Slots :
       /\ Victim(s)
       /\ slot_of' = Evicted(s)
       /\ key_of' = [key_of EXCEPT ![s] = EMPTY]
       /\ arena' = [arena EXCEPT ![s] = Torn]
  /\ served' = -1
  /\ UNCHANGED <<used_at, pinned, workVars>>

Get(k) ==
  /\ cpc = "idle"
  /\ GetHit(k) \/ GetRefused(k) \/ GetLoads(k) \/ GetShort(k)

(* k3_cache_pin: only a resident expert can be pinned. *)
Pin(k, on) ==
  /\ cpc = "idle"
  /\ slot_of[k] # None
  /\ pinned' = IF on THEN pinned \cup {slot_of[k]} ELSE pinned \ {slot_of[k]}
  /\ UNCHANGED <<slot_of, key_of, used_at, arena, workVars, served>>

-----------------------------------------------------------------------------
(* cache_getmany. *)

GetMany(ks) ==
  /\ cpc = "idle"
  /\ cpc' = "reserve"
  /\ ids' = ks
  /\ ip' = 1
  /\ UNCHANGED <<slot_of, key_of, used_at, pinned, arena, wslot, wgot, served>>

Work == {k \in Keys : wgot[k] # "none"}

(* Phase 1 goes on while there are ids and room in the work array. *)
Reserving ==
  /\ cpc = "reserve"
  /\ ip <= Len(ids)
  /\ Cardinality(Work) < MaxTopK

(* An id that is resident, already in this batch, or unreadable. *)
PassOver(k) == slot_of[k] # None \/ wgot[k] # "none" \/ k \in BadKeys

(* Mutant: an id that is passed over is looked at again. *)
ReserveSkip_Stuck ==
  /\ Reserving
  /\ PassOver(ids[ip])
  /\ UNCHANGED cacheVars

ReserveSkip ==
  /\ Reserving
  /\ PassOver(ids[ip])
  /\ ip' = ip + 1
  /\ UNCHANGED <<slot_of, key_of, used_at, pinned, arena, cpc, ids, wslot, wgot, served>>

(* A reserved slot is INFLIGHT until phase 3, so that the next id of this  *)
(* very batch cannot be given the same slot.                               *)
ReserveTake ==
  /\ Reserving
  /\ ~PassOver(ids[ip])
  /\ \E s \in Slots :
       /\ Victim(s)
       /\ slot_of' = Evicted(s)
       /\ key_of' = [key_of EXCEPT ![s] = INFLIGHT]
       /\ Touch(s)
       /\ wslot' = [wslot EXCEPT ![ids[ip]] = s]
       /\ wgot' = [wgot EXCEPT ![ids[ip]] = "todo"]
  /\ ip' = ip + 1
  /\ UNCHANGED <<pinned, arena, cpc, ids, served>>

ReserveEnd ==
  /\ cpc = "reserve"
  /\ \/ ~Reserving
     \/ Reserving /\ ~PassOver(ids[ip]) /\ \A s \in Slots : ~Victim(s)
  /\ cpc' = (IF Work = {} THEN "idle" ELSE "read")
  /\ ids' = <<>>
  /\ ip' = 1
  /\ UNCHANGED <<slot_of, key_of, used_at, pinned, arena, wslot, wgot, served>>

(* Phase 2: the reads run concurrently, each into its reserved slot. *)
ReadStart(k) ==
  /\ cpc = "read"
  /\ wgot[k] = "todo"
  /\ wgot' = [wgot EXCEPT ![k] = "reading"]
  /\ arena' = [arena EXCEPT ![wslot[k]] = Torn]
  /\ UNCHANGED <<slot_of, key_of, used_at, pinned, cpc, ids, ip, wslot, served>>

ReadOk(k) ==
  /\ cpc = "read"
  /\ wgot[k] = "reading"
  /\ wgot' = [wgot EXCEPT ![k] = "ok"]
  /\ arena' = [arena EXCEPT ![wslot[k]] = k]
  /\ UNCHANGED <<slot_of, key_of, used_at, pinned, cpc, ids, ip, wslot, served>>

ReadShort(k) ==
  /\ ReadsFail
  /\ cpc = "read"
  /\ wgot[k] = "reading"
  /\ wgot' = [wgot EXCEPT ![k] = "short"]
  /\ UNCHANGED <<slot_of, key_of, used_at, pinned, arena, cpc, ids, ip, wslot, served>>

ReadsEnd ==
  /\ cpc = "read"
  /\ \A k \in Work : wgot[k] \in {"ok", "short"}
  /\ cpc' = "publish"
  /\ UNCHANGED <<slot_of, key_of, used_at, pinned, arena, ids, ip, wslot, wgot, served>>

(* Phase 3, in the disk order the work was sorted into.  "Experts are not  *)
(* stored id-ordered inside a shard": any expert may be the next on disk.  *)
NextWork(k) == k \in Work

PublishOk(k) ==
  /\ cpc = "publish"
  /\ NextWork(k)
  /\ wgot[k] = "ok"
  /\ key_of' = [key_of EXCEPT ![wslot[k]] = k]
  /\ slot_of' = [slot_of EXCEPT ![k] = wslot[k]]
  /\ Touch(wslot[k])
  /\ wgot' = [wgot EXCEPT ![k] = "none"]
  /\ wslot' = [wslot EXCEPT ![k] = None]
  /\ UNCHANGED <<pinned, arena, cpc, ids, ip, served>>

(* Mutant: a short read is registered all the same. *)
PublishShort_Registers(k) ==
  /\ cpc = "publish"
  /\ NextWork(k)
  /\ wgot[k] = "short"
  /\ key_of' = [key_of EXCEPT ![wslot[k]] = k]
  /\ slot_of' = [slot_of EXCEPT ![k] = wslot[k]]
  /\ wgot' = [wgot EXCEPT ![k] = "none"]
  /\ wslot' = [wslot EXCEPT ![k] = None]
  /\ UNCHANGED <<used_at, pinned, arena, cpc, ids, ip, served>>

PublishShort(k) ==
  /\ cpc = "publish"
  /\ NextWork(k)
  /\ wgot[k] = "short"
  /\ key_of' = [key_of EXCEPT ![wslot[k]] = EMPTY]
  /\ wgot' = [wgot EXCEPT ![k] = "none"]
  /\ wslot' = [wslot EXCEPT ![k] = None]
  /\ UNCHANGED <<slot_of, used_at, pinned, arena, cpc, ids, ip, served>>

PublishEnd ==
  /\ cpc = "publish"
  /\ Work = {}
  /\ cpc' = "idle"
  /\ UNCHANGED <<slot_of, key_of, used_at, pinned, arena, ids, ip, wslot, wgot, served>>

BatchStep ==
  \/ ReserveSkip \/ ReserveTake \/ ReserveEnd
  \/ \E k \in Keys : ReadStart(k) \/ ReadOk(k) \/ ReadShort(k)
  \/ ReadsEnd
  \/ \E k \in Keys : PublishOk(k) \/ PublishShort(k)
  \/ PublishEnd

-----------------------------------------------------------------------------
Batches ==
  {[i \in 1..n |-> Key(layer, es[i])] :
     n \in 1..MaxBatch, layer \in 0..(NLayers - 1), es \in [1..MaxBatch -> 0..(NExperts - 1)]}

Init == CacheInit

Next ==
  \/ \E k \in Keys : Get(k)
  \/ \E k \in Keys, on \in BOOLEAN : Pin(k, on)
  \/ \E ks \in Batches : GetMany(ks)
  \/ BatchStep

Spec == Init /\ [][Next]_cacheVars

FairSpec == Spec /\ WF_cacheVars(BatchStep)

-----------------------------------------------------------------------------
TypeOK ==
  /\ slot_of \in [Keys -> Slots \cup {None}]
  /\ key_of \in [Slots -> Keys \cup {EMPTY, INFLIGHT}]
  /\ used_at \in [Slots -> 1..NSlot]
  /\ pinned \in SUBSET Slots
  /\ arena \in [Slots -> Keys \cup {Torn}]
  /\ cpc \in {"idle", "reserve", "read", "publish"}
  /\ ids \in Seq(Keys) /\ ip \in Nat \ {0}
  /\ wslot \in [Keys -> Slots \cup {None}]
  /\ wgot \in [Keys -> {"none", "todo", "reading", "ok", "short"}]
  /\ served \in Slots \cup {-1}

(* slot_of and key_of are inverse to one another, in every phase of a      *)
(* batch: no expert is in two slots, no slot is found under a stale key.   *)
MapsInverse ==
  /\ \A s \in Slots : key_of[s] >= 0 => slot_of[key_of[s]] = s
  /\ \A k \in Keys : slot_of[k] # None => key_of[slot_of[k]] = k

(* A slot registered to an expert holds that expert: neither a short read  *)
(* nor a neighbour's read in the same batch can be served as a hit.        *)
ServedBytes ==
  \A s \in Slots : key_of[s] >= 0 => arena[s] = key_of[s]

(* k3_cache.c: "Every read targets a distinct, already-assigned buffer":   *)
(* the concurrent reads share no slot, and none lands in a slot that is    *)
(* registered or pinned.                                                   *)
ReadsDisjoint ==
  /\ \A j, k \in Work : wslot[j] = wslot[k] => j = k
  /\ \A k \in Work : key_of[wslot[k]] = INFLIGHT /\ wslot[k] \notin pinned

(* A batch gives every slot it reserved back, registered or empty: none    *)
(* stays INFLIGHT, which no later call could ever take again.              *)
NoSlotLost ==
  \A s \in Slots : key_of[s] = INFLIGHT => \E k \in Work : wslot[k] = s

(* While a slot stays pinned its expert stays in it. *)
PinnedStays ==
  [][\A s \in pinned \cap pinned' : key_of'[s] = key_of[s] /\ arena'[s] = arena[s]]_cacheVars

(* A batch comes to an end. *)
BatchEnds == cpc # "idle" ~> cpc = "idle"
=============================================================================
