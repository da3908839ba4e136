----------------------------- MODULE CacheProof -----------------------------
(***************************************************************************)
(* The safety of the expert cache for every grid of experts, every budget  *)
(* and every batch, by one inductive invariant: the maps are inverse, a    *)
(* registered slot holds its expert, a reserved slot belongs to one        *)
(* expert of the batch, and a pinned slot is registered.                   *)
(*                                                                         *)
(* Then the exactness of the MoE layer that is the cache's client: a term  *)
(* of a sum that is not there yet belongs to an expert the loop has still  *)
(* to get, or its loss is counted.                                         *)
(***************************************************************************)
EXTENDS MoeServe, WellFoundedInduction, TLAPS

(* The work array: a reserved expert has a slot of its own, INFLIGHT and   *)
(* unpinned, is not registered anywhere, and once its read is complete the *)
(* slot holds its bytes.                                                   *)
WorkInv ==
  /\ \A k \in Keys : wgot[k] # "none" =>
       /\ wslot[k] \in Slots
       /\ key_of[wslot[k]] = INFLIGHT
       /\ slot_of[k] = None
       /\ wgot[k] = "ok" => arena[wslot[k]] = k
  /\ \A j, k \in Keys : wgot[j] # "none" /\ wgot[k] # "none" /\ wslot[j] = wslot[k] => j = k

(* A pinned slot is registered: admit and getmany empty or reserve only    *)
(* what pick_victim returns, and that is never pinned.                     *)
PinInv == \A s \in pinned : key_of[s] \in Keys

(* Between two calls the work array is empty. *)
PhaseInv == cpc = "idle" => \A k \in Keys : wgot[k] = "none"

CacheInv ==
  TypeOK /\ MapsInverse /\ ServedBytes /\ WorkInv /\ PinInv /\ NoSlotLost /\ PhaseInv

-----------------------------------------------------------------------------
(* Key numbers are naturals, so none is EMPTY, INFLIGHT, None or Torn. *)
LEMMA KeysNat ==
  /\ \A k \in Keys : k \in Int /\ k >= 0
  /\ \A s \in Slots : s \in Int /\ s >= 0 /\ s < NSlot
  /\ NSlot \in Nat /\ NSlot >= 1
  BY CacheAssumption DEF CacheAssumption, Keys, Slots

(* A registered slot's key is a key. *)
LEMMA Registered ==
  ASSUME TypeOK, NEW s \in Slots
  PROVE  /\ key_of[s] \in Keys \/ key_of[s] = EMPTY \/ key_of[s] = INFLIGHT
         /\ key_of[s] >= 0 <=> key_of[s] \in Keys
         /\ EMPTY = -1 /\ INFLIGHT = -2 /\ None = -1 /\ Torn = -1
  BY KeysNat DEF TypeOK, EMPTY, INFLIGHT, None, Torn

(* What pick_victim returns is neither being read into nor pinned, and     *)
(* evicting it takes exactly its own expert out of slot_of.                *)
LEMMA VictimFacts ==
  ASSUME CacheInv, NEW s \in Slots, Victim(s)
  PROVE  /\ key_of[s] # INFLIGHT
         /\ s \notin pinned
         /\ \A k \in Keys : wgot[k] # "none" => wslot[k] # s
         /\ Evicted(s) \in [Keys -> Slots \cup {None}]
         /\ \A k \in Keys : Evicted(s)[k] = IF slot_of[k] = s THEN None ELSE slot_of[k]
  <1>1. key_of[s] # INFLIGHT
    BY DEF Victim, EMPTY, INFLIGHT
  <1>2. s \notin pinned
    BY Registered, KeysNat DEF Victim, CacheInv, PinInv, EMPTY
  <1>3. \A k \in Keys : wgot[k] # "none" => wslot[k] # s
    BY Zenon, <1>1 DEF CacheInv, WorkInv
  <1>4. Evicted(s) \in [Keys -> Slots \cup {None}]
    BY Zenon DEF Evicted, CacheInv, TypeOK
  <1>5. \A k \in Keys : Evicted(s)[k] = IF slot_of[k] = s THEN None ELSE slot_of[k]
    <2>1. s # None
      BY KeysNat DEF None
    <2>2. CASE key_of[s] >= 0
      <3>1. key_of[s] \in Keys /\ slot_of[key_of[s]] = s
        BY Zenon, <2>2, Registered DEF CacheInv, MapsInverse
      <3>2. \A k \in Keys : slot_of[k] = s => key_of[s] = k
        BY Zenon, <2>1 DEF CacheInv, MapsInverse
      <3>3. slot_of \in [Keys -> Slots \cup {None}]
        BY Zenon DEF CacheInv, TypeOK
      <3> QED BY Zenon, <2>2, <3>1, <3>2, <3>3 DEF Evicted
    <2>3. CASE ~(key_of[s] >= 0)
      <3>1. \A k \in Keys : slot_of[k] # s
        BY Zenon, <2>1, <2>3, KeysNat DEF CacheInv, MapsInverse
      <3> QED BY Zenon, <2>3, <3>1 DEF Evicted
    <2> QED BY Zenon, <2>2, <2>3
  <1> QED BY Zenon, <1>1, <1>2, <1>3, <1>4, <1>5

(* Stamping a slot keeps the ranks within 1..NSlot. *)
LEMMA TouchType ==
  ASSUME TypeOK, NEW s \in Slots, Touch(s)
  PROVE  used_at' \in [Slots -> 1..NSlot]
  <1>1. \A i \in Slots : used_at[i] \in 1..NSlot
    BY Zenon DEF TypeOK
  <1>2. \A i \in Slots : (IF i = s THEN NSlot
                          ELSE IF used_at[i] > used_at[s] THEN used_at[i] - 1
                          ELSE used_at[i]) \in 1..NSlot
    BY <1>1, KeysNat
  <1> QED BY Zenon, <1>2 DEF Touch
-----------------------------------------------------------------------------
(* The initial state: everything empty. *)
LEMMA InitInv == Init => CacheInv
  <1> SUFFICES ASSUME Init PROVE CacheInv
    OBVIOUS
  <1> USE DEF Init, CacheInit
  <1>1. TypeOK
    BY KeysNat DEF TypeOK, Slots, None, EMPTY, Torn
  <1>2. MapsInverse /\ ServedBytes /\ NoSlotLost
    BY KeysNat DEF MapsInverse, ServedBytes, NoSlotLost, EMPTY, INFLIGHT
  <1>3. WorkInv /\ PinInv /\ PhaseInv
    BY Zenon DEF WorkInv, PinInv, PhaseInv
  <1> QED BY Zenon, <1>1, <1>2, <1>3 DEF CacheInv

(* admit: a hit only moves the LRU stamp. *)
LEMMA GetHitKeeps ==
  ASSUME CacheInv, NEW k \in Keys, GetHit(k)
  PROVE  CacheInv'
  <1>1. slot_of[k] \in Slots
    BY Zenon DEF GetHit, CacheInv, TypeOK
  <1>2. UNCHANGED <<slot_of, key_of, pinned, arena, cpc, ids, ip, wslot, wgot>>
    BY Zenon DEF GetHit, workVars
  <1>3. TypeOK'
    BY Zenon, <1>1, <1>2, TouchType DEF GetHit, CacheInv, TypeOK
  <1> QED BY Zenon, <1>2, <1>3 DEF CacheInv, MapsInverse, ServedBytes, WorkInv, PinInv,
                            NoSlotLost, PhaseInv, Work

(* admit: an eviction and a complete load. *)
LEMMA GetLoadsKeeps ==
  ASSUME CacheInv, cpc = "idle", NEW k \in Keys, GetLoads(k)
  PROVE  CacheInv'
  <1>1. PICK s \in Slots :
          /\ Victim(s)
          /\ slot_of' = [Evicted(s) EXCEPT ![k] = s]
          /\ key_of' = [key_of EXCEPT ![s] = k]
          /\ arena' = [arena EXCEPT ![s] = k]
          /\ Touch(s)
          /\ served' = s
    BY Zenon DEF GetLoads
  <1>2. UNCHANGED <<pinned, cpc, ids, ip, wslot, wgot>> /\ slot_of[k] = None
    BY Zenon DEF GetLoads, workVars
  <1>3. /\ key_of[s] # INFLIGHT /\ s \notin pinned
        /\ Evicted(s) \in [Keys -> Slots \cup {None}]
        /\ \A j \in Keys : Evicted(s)[j] = IF slot_of[j] = s THEN None ELSE slot_of[j]
    BY Zenon, <1>1, VictimFacts
  <1>4. /\ \A j \in Keys : slot_of'[j] = IF j = k THEN s
                                         ELSE IF slot_of[j] = s THEN None ELSE slot_of[j]
        /\ \A i \in Slots : key_of'[i] = IF i = s THEN k ELSE key_of[i]
        /\ \A i \in Slots : arena'[i] = IF i = s THEN k ELSE arena[i]
    BY Zenon, <1>1, <1>3 DEF CacheInv, TypeOK
  <1>5. \A j \in Keys : wgot[j] = "none"
    BY Zenon DEF CacheInv, PhaseInv
  <1>6. TypeOK'
    BY Zenon, <1>1, <1>2, <1>3, TouchType DEF CacheInv, TypeOK
  <1>7. MapsInverse'
    <2>1. \A i \in Slots : key_of'[i] >= 0 => slot_of'[key_of'[i]] = i
      BY <1>2, <1>4, Registered, KeysNat DEF CacheInv, MapsInverse, None
    <2>2. \A j \in Keys : slot_of'[j] # None => key_of'[slot_of'[j]] = j
      BY <1>4 DEF CacheInv, MapsInverse, TypeOK
    <2> QED BY Zenon, <2>1, <2>2 DEF MapsInverse
  <1>8. ServedBytes'
    BY Zenon, <1>4 DEF CacheInv, ServedBytes
  <1>9. WorkInv' /\ PhaseInv'
    BY Zenon, <1>2, <1>5 DEF WorkInv, PhaseInv
  <1>10. PinInv'
    BY Zenon, <1>2, <1>3, <1>4 DEF CacheInv, PinInv, TypeOK
  <1>11. NoSlotLost'
    BY <1>2, <1>4, KeysNat DEF CacheInv, NoSlotLost, Work, INFLIGHT
  <1> QED BY Zenon, <1>6, <1>7, <1>8, <1>9, <1>10, <1>11 DEF CacheInv

(* admit: an eviction and a short load, which leaves the slot empty. *)
LEMMA GetShortKeeps ==
  ASSUME CacheInv, cpc = "idle", NEW k \in Keys, GetShort(k)
  PROVE  CacheInv'
  <1>1. PICK s \in Slots :
          /\ Victim(s)
          /\ slot_of' = Evicted(s)
          /\ key_of' = [key_of EXCEPT ![s] = EMPTY]
          /\ arena' = [arena EXCEPT ![s] = Torn]
    BY Zenon DEF GetShort
  <1>2. UNCHANGED <<used_at, pinned, cpc, ids, ip, wslot, wgot>> /\ served' = -1
    BY Zenon DEF GetShort, workVars
  <1>3. /\ key_of[s] # INFLIGHT /\ s \notin pinned
        /\ Evicted(s) \in [Keys -> Slots \cup {None}]
        /\ \A j \in Keys : Evicted(s)[j] = IF slot_of[j] = s THEN None ELSE slot_of[j]
    BY Zenon, <1>1, VictimFacts
  <1>4. /\ \A j \in Keys : slot_of'[j] = IF slot_of[j] = s THEN None ELSE slot_of[j]
        /\ \A i \in Slots : key_of'[i] = IF i = s THEN EMPTY ELSE key_of[i]
        /\ \A i \in Slots : arena'[i] = IF i = s THEN Torn ELSE arena[i]
    BY Zenon, <1>1, <1>3 DEF CacheInv, TypeOK
  <1>5. \A j \in Keys : wgot[j] = "none"
    BY Zenon DEF CacheInv, PhaseInv
  <1>6. TypeOK'
    BY Zenon, <1>1, <1>2, <1>3 DEF CacheInv, TypeOK
  <1>7. MapsInverse'
    <2>1. \A i \in Slots : key_of'[i] >= 0 => slot_of'[key_of'[i]] = i
      BY <1>4, Registered, KeysNat DEF CacheInv, MapsInverse, EMPTY
    <2>2. \A j \in Keys : slot_of'[j] # None => key_of'[slot_of'[j]] = j
      BY <1>4 DEF CacheInv, MapsInverse, TypeOK
    <2> QED BY Zenon, <2>1, <2>2 DEF MapsInverse
  <1>8. ServedBytes'
    BY <1>4 DEF CacheInv, ServedBytes, EMPTY
  <1>9. WorkInv' /\ PhaseInv'
    BY Zenon, <1>2, <1>5 DEF WorkInv, PhaseInv
  <1>10. PinInv'
    BY Zenon, <1>2, <1>3, <1>4 DEF CacheInv, PinInv, TypeOK
  <1>11. NoSlotLost'
    BY <1>2, <1>4 DEF CacheInv, NoSlotLost, Work, INFLIGHT, EMPTY
  <1> QED BY Zenon, <1>6, <1>7, <1>8, <1>9, <1>10, <1>11 DEF CacheInv

(* k3_cache_pin pins a slot that is registered. *)
LEMMA PinKeeps ==
  ASSUME CacheInv, NEW k \in Keys, NEW on \in BOOLEAN, Pin(k, on)
  PROVE  CacheInv'
  <1>1. UNCHANGED <<slot_of, key_of, used_at, arena, cpc, ids, ip, wslot, wgot, served>>
    BY Zenon DEF Pin, workVars
  <1>2. slot_of[k] \in Slots /\ key_of[slot_of[k]] = k
    BY Zenon DEF Pin, CacheInv, TypeOK, MapsInverse
  <1>3. pinned' \subseteq pinned \cup {slot_of[k]}
    BY Zenon DEF Pin
  <1>4. TypeOK'
    BY Zenon, <1>1, <1>2, <1>3 DEF CacheInv, TypeOK
  <1>5. PinInv'
    BY Zenon, <1>1, <1>2, <1>3 DEF CacheInv, PinInv
  <1> QED BY Zenon, <1>1, <1>4, <1>5 DEF CacheInv, MapsInverse, ServedBytes, WorkInv,
                                  NoSlotLost, PhaseInv, Work
-----------------------------------------------------------------------------
(* The keys of a layer's experts are keys. *)
LEMMA KeyInGrid ==
  ASSUME NEW l \in 0..(NLayers - 1), NEW e \in 0..(NExperts - 1)
  PROVE  Key(l, e) \in Keys
  <1>1. l \in Nat /\ e \in Nat /\ NLayers \in Nat /\ NExperts \in Nat
    BY CacheAssumption DEF CacheAssumption
  <1>2. l + 1 <= NLayers /\ e + 1 <= NExperts
    BY <1>1
  <1>3. l * NExperts \in Nat /\ NLayers * NExperts \in Nat /\ (NLayers - (l + 1)) * NExperts \in Nat
    BY <1>1, <1>2
  <1>4. NLayers * NExperts = l * NExperts + NExperts + (NLayers - (l + 1)) * NExperts
    BY <1>1, <1>2
  <1> QED BY <1>1, <1>2, <1>3, <1>4 DEF Key, Keys

(* So a batch is a sequence of keys. *)
LEMMA BatchOfKeys == Batches \subseteq Seq(Keys)
  <1> SUFFICES ASSUME NEW n \in 1..MaxBatch, NEW l \in 0..(NLayers - 1),
                      NEW es \in [1..MaxBatch -> 0..(NExperts - 1)]
               PROVE  [i \in 1..n |-> Key(l, es[i])] \in Seq(Keys)
    BY DEF Batches
  <1>1. n \in Nat /\ \A i \in 1..n : i \in 1..MaxBatch
    BY CacheAssumption DEF CacheAssumption
  <1>2. \A i \in 1..n : Key(l, es[i]) \in Keys
    BY Zenon, <1>1, KeyInGrid
  <1> QED BY <1>1, <1>2

(* The steps of a batch that touch neither the maps nor the slots. *)
LEMMA BookkeepingKeeps ==
  ASSUME CacheInv,
         UNCHANGED <<slot_of, key_of, used_at, pinned, arena, wslot, wgot>>,
         cpc' \in {"idle", "reserve", "read", "publish"},
         cpc' = "idle" => \A k \in Keys : wgot[k] = "none",
         ids' \in Seq(Keys), ip' \in Nat \ {0}, served' \in Slots \cup {-1}
  PROVE  CacheInv'
  <1>1. TypeOK'
    BY Zenon DEF CacheInv, TypeOK
  <1> QED BY Zenon, <1>1 DEF CacheInv, MapsInverse, ServedBytes, WorkInv, PinInv,
                      NoSlotLost, PhaseInv, Work

LEMMA QuietStepKeeps ==
  ASSUME CacheInv,
         \/ \E k \in Keys : GetRefused(k)
         \/ \E ks \in Seq(Keys) : GetMany(ks)
         \/ ReserveSkip \/ ReserveEnd \/ ReadsEnd \/ PublishEnd
  PROVE  CacheInv'
  <1>0. /\ cpc \in {"idle", "reserve", "read", "publish"}
        /\ ids \in Seq(Keys) /\ ip \in Nat \ {0} /\ served \in Slots \cup {-1}
        /\ <<>> \in Seq(Keys)
    BY DEF CacheInv, TypeOK
  <1>1. ASSUME NEW k \in Keys, GetRefused(k) PROVE CacheInv'
    BY Zenon, <1>0, <1>1, BookkeepingKeeps DEF GetRefused, workVars, CacheInv, PhaseInv
  <1>2. ASSUME NEW ks \in Seq(Keys), GetMany(ks) PROVE CacheInv'
    BY <1>0, <1>2, BookkeepingKeeps DEF GetMany
  <1>3. CASE ReserveSkip
    BY <1>0, <1>3, BookkeepingKeeps DEF ReserveSkip, Reserving
  <1>4. CASE ReserveEnd
    <2>1. cpc' \in {"idle", "read"} /\ (cpc' = "idle" => Work = {})
      BY Zenon, <1>4 DEF ReserveEnd
    <2> QED BY <1>0, <1>4, <2>1, BookkeepingKeeps DEF ReserveEnd, Work
  <1>5. CASE ReadsEnd
    BY Zenon, <1>0, <1>5, BookkeepingKeeps DEF ReadsEnd
  <1>6. CASE PublishEnd
    BY Zenon, <1>0, <1>6, BookkeepingKeeps DEF PublishEnd, Work
  <1> QED BY Zenon, <1>1, <1>2, <1>3, <1>4, <1>5, <1>6

(* Phase 1 gives an expert a slot: nobody else's, and INFLIGHT from now on. *)
LEMMA ReserveTakeKeeps ==
  ASSUME CacheInv, ReserveTake
  PROVE  CacheInv'
  <1> DEFINE k == ids[ip]
  <1>0. k \in Keys /\ wgot[k] = "none" /\ slot_of[k] = None /\ cpc = "reserve"
    BY DEF ReserveTake, Reserving, PassOver, CacheInv, TypeOK
  <1>1. PICK s \in Slots :
          /\ Victim(s)
          /\ slot_of' = Evicted(s)
          /\ key_of' = [key_of EXCEPT ![s] = INFLIGHT]
          /\ Touch(s)
          /\ wslot' = [wslot EXCEPT ![k] = s]
          /\ wgot' = [wgot EXCEPT ![k] = "todo"]
    BY Zenon DEF ReserveTake
  <1>2. UNCHANGED <<pinned, arena, cpc, ids, served>> /\ ip' = ip + 1
    BY Zenon DEF ReserveTake
  <1> HIDE DEF k
  <1>3. /\ s \notin pinned
        /\ \A j \in Keys : wgot[j] # "none" => wslot[j] # s
        /\ Evicted(s) \in [Keys -> Slots \cup {None}]
        /\ \A j \in Keys : Evicted(s)[j] = IF slot_of[j] = s THEN None ELSE slot_of[j]
    BY Zenon, <1>1, VictimFacts
  <1>4. /\ \A j \in Keys : slot_of'[j] = IF slot_of[j] = s THEN None ELSE slot_of[j]
        /\ \A i \in Slots : key_of'[i] = IF i = s THEN INFLIGHT ELSE key_of[i]
        /\ \A j \in Keys : wslot'[j] = IF j = k THEN s ELSE wslot[j]
        /\ \A j \in Keys : wgot'[j] = IF j = k THEN "todo" ELSE wgot[j]
    BY Zenon, <1>0, <1>1, <1>3 DEF CacheInv, TypeOK
  <1>5. TypeOK'
    <2>1. used_at' \in [Slots -> 1..NSlot]
      BY Zenon, <1>1, TouchType DEF CacheInv
    <2>2. key_of' \in [Slots -> Keys \cup {EMPTY, INFLIGHT}]
      BY Zenon, <1>1 DEF CacheInv, TypeOK
    <2>3. wslot' \in [Keys -> Slots \cup {None}]
      BY Zenon, <1>1 DEF CacheInv, TypeOK
    <2>4. wgot' \in [Keys -> {"none", "todo", "reading", "ok", "short"}]
      BY Zenon, <1>1 DEF CacheInv, TypeOK
    <2>5. ip' \in Nat \ {0}
      BY <1>2 DEF CacheInv, TypeOK
    <2> QED BY Zenon, <1>1, <1>2, <1>3, <2>1, <2>2, <2>3, <2>4, <2>5 DEF CacheInv, TypeOK
  <1>6. MapsInverse'
    <2>1. \A i \in Slots : key_of'[i] >= 0 => slot_of'[key_of'[i]] = i
      BY <1>4, Registered, KeysNat DEF CacheInv, MapsInverse, INFLIGHT
    <2>2. \A j \in Keys : slot_of'[j] # None => key_of'[slot_of'[j]] = j
      BY <1>4 DEF CacheInv, MapsInverse, TypeOK
    <2> QED BY Zenon, <2>1, <2>2 DEF MapsInverse
  <1>7. ServedBytes'
    BY <1>2, <1>4 DEF CacheInv, ServedBytes, INFLIGHT
  <1>8. WorkInv'
    BY <1>0, <1>2, <1>3, <1>4 DEF CacheInv, WorkInv
  <1>9. PinInv' /\ PhaseInv'
    <2>1. PinInv'
      BY Zenon, <1>2, <1>3, <1>4 DEF CacheInv, PinInv, TypeOK
    <2>2. PhaseInv'
      BY Zenon, <1>0, <1>2 DEF PhaseInv
    <2> QED BY Zenon, <2>1, <2>2
  <1>10. NoSlotLost'
    BY <1>0, <1>2, <1>3, <1>4 DEF CacheInv, NoSlotLost, Work
  <1> QED BY Zenon, <1>5, <1>6, <1>7, <1>8, <1>9, <1>10 DEF CacheInv

(* Phase 2: each read writes only the slot of its own expert. *)
LEMMA ReadKeeps ==
  ASSUME CacheInv, NEW k \in Keys, ReadStart(k) \/ ReadOk(k) \/ ReadShort(k)
  PROVE  CacheInv'
  <1>1. /\ UNCHANGED <<slot_of, key_of, used_at, pinned, cpc, ids, ip, wslot, served>>
        /\ cpc = "read" /\ wgot[k] # "none"
        /\ wgot' \in [Keys -> {"none", "todo", "reading", "ok", "short"}]
        /\ arena' \in [Slots -> Keys \cup {Torn}]
    <2>1. CASE ReadStart(k)
      BY Zenon, <2>1 DEF ReadStart, CacheInv, TypeOK
    <2>2. CASE ReadOk(k)
      BY Zenon, <2>2 DEF ReadOk, CacheInv, TypeOK
    <2>3. CASE ReadShort(k)
      BY Zenon, <2>3 DEF ReadShort, CacheInv, TypeOK
    <2> QED BY Zenon, <2>1, <2>2, <2>3
  <1>2. /\ \A j \in Keys \ {k} : wgot'[j] = wgot[j]
        /\ wgot'[k] # "none"
        /\ wgot'[k] = "ok" => arena'[wslot[k]] = k
        /\ \A i \in Slots \ {wslot[k]} : arena'[i] = arena[i]
    BY <1>1 DEF ReadStart, ReadOk, ReadShort, CacheInv, TypeOK, WorkInv
  <1>3. wslot[k] \in Slots /\ key_of[wslot[k]] = INFLIGHT
    BY Zenon, <1>1 DEF CacheInv, WorkInv
  <1>4. TypeOK'
    BY Zenon, <1>1 DEF CacheInv, TypeOK
  <1>5. MapsInverse' /\ PinInv' /\ PhaseInv'
    BY Zenon, <1>1 DEF CacheInv, MapsInverse, PinInv, PhaseInv
  <1>6. ServedBytes'
    BY <1>1, <1>2, <1>3 DEF CacheInv, ServedBytes, INFLIGHT
  <1>7. WorkInv'
    BY <1>1, <1>2 DEF CacheInv, WorkInv
  <1>8. NoSlotLost'
    BY <1>1, <1>2 DEF CacheInv, NoSlotLost, Work
  <1> QED BY Zenon, <1>4, <1>5, <1>6, <1>7, <1>8 DEF CacheInv

(* Phase 3 registers a slot whose read was complete. *)
LEMMA PublishOkKeeps ==
  ASSUME CacheInv, NEW k \in Keys, PublishOk(k)
  PROVE  CacheInv'
  <1> DEFINE s == wslot[k]
  <1>1. /\ s \in Slots /\ key_of[s] = INFLIGHT /\ arena[s] = k /\ slot_of[k] = None
        /\ \A j \in Keys : wgot[j] # "none" /\ wslot[j] = s => j = k
    BY Zenon DEF PublishOk, CacheInv, WorkInv
  <1>2. /\ UNCHANGED <<pinned, arena, cpc, ids, ip, served>> /\ cpc = "publish"
        /\ Touch(s)
        /\ slot_of' = [slot_of EXCEPT ![k] = s]
        /\ key_of' = [key_of EXCEPT ![s] = k]
        /\ wgot' = [wgot EXCEPT ![k] = "none"]
        /\ wslot' = [wslot EXCEPT ![k] = None]
    BY Zenon DEF PublishOk
  <1> HIDE DEF s
  <1>3. TypeOK'
    BY Zenon, <1>1, <1>2, TouchType DEF CacheInv, TypeOK
  <1>4. /\ \A j \in Keys : slot_of'[j] = IF j = k THEN s ELSE slot_of[j]
        /\ \A i \in Slots : key_of'[i] = IF i = s THEN k ELSE key_of[i]
        /\ \A j \in Keys : wgot'[j] = IF j = k THEN "none" ELSE wgot[j]
        /\ \A j \in Keys \ {k} : wslot'[j] = wslot[j]
    BY Zenon, <1>1, <1>2 DEF CacheInv, TypeOK
  <1>5. MapsInverse'
    <2>1. \A i \in Slots : key_of'[i] >= 0 => slot_of'[key_of'[i]] = i
      BY <1>1, <1>4, Registered, KeysNat DEF CacheInv, MapsInverse, None
    <2>2. \A j \in Keys : slot_of'[j] # None => key_of'[slot_of'[j]] = j
      BY <1>1, <1>4, KeysNat DEF CacheInv, MapsInverse, TypeOK, INFLIGHT
    <2> QED BY Zenon, <2>1, <2>2 DEF MapsInverse
  <1>6. ServedBytes'
    BY <1>1, <1>2, <1>4 DEF CacheInv, ServedBytes
  <1>7. WorkInv'
    BY <1>1, <1>2, <1>4 DEF CacheInv, WorkInv
  <1>8. PinInv' /\ PhaseInv'
    BY Zenon, <1>1, <1>2, <1>4 DEF CacheInv, PinInv, PhaseInv, TypeOK
  <1>9. NoSlotLost'
    BY <1>1, <1>2, <1>4, KeysNat DEF CacheInv, NoSlotLost, Work, INFLIGHT
  <1> QED BY Zenon, <1>3, <1>5, <1>6, <1>7, <1>8, <1>9 DEF CacheInv

(* Phase 3 releases a slot whose read was short. *)
LEMMA PublishShortKeeps ==
  ASSUME CacheInv, NEW k \in Keys, PublishShort(k)
  PROVE  CacheInv'
  <1> DEFINE s == wslot[k]
  <1>1. /\ s \in Slots /\ key_of[s] = INFLIGHT
        /\ \A j \in Keys : wgot[j] # "none" /\ wslot[j] = s => j = k
    BY Zenon DEF PublishShort, CacheInv, WorkInv
  <1>2. /\ UNCHANGED <<slot_of, used_at, pinned, arena, cpc, ids, ip, served>> /\ cpc = "publish"
        /\ key_of' = [key_of EXCEPT ![s] = EMPTY]
        /\ wgot' = [wgot EXCEPT ![k] = "none"]
        /\ wslot' = [wslot EXCEPT ![k] = None]
    BY Zenon DEF PublishShort
  <1> HIDE DEF s
  <1>3. TypeOK'
    BY Zenon, <1>1, <1>2 DEF CacheInv, TypeOK
  <1>4. /\ \A i \in Slots : key_of'[i] = IF i = s THEN EMPTY ELSE key_of[i]
        /\ \A j \in Keys : wgot'[j] = IF j = k THEN "none" ELSE wgot[j]
        /\ \A j \in Keys \ {k} : wslot'[j] = wslot[j]
    BY Zenon, <1>1, <1>2 DEF CacheInv, TypeOK
  <1>5. MapsInverse'
    <2>1. \A i \in Slots : key_of'[i] >= 0 => slot_of'[key_of'[i]] = i
      BY <1>2, <1>4 DEF CacheInv, MapsInverse, EMPTY
    <2>2. \A j \in Keys : slot_of'[j] # None => key_of'[slot_of'[j]] = j
      BY <1>1, <1>2, <1>4, KeysNat DEF CacheInv, MapsInverse, TypeOK, INFLIGHT
    <2> QED BY Zenon, <2>1, <2>2 DEF MapsInverse
  <1>6. ServedBytes'
    BY <1>2, <1>4 DEF CacheInv, ServedBytes, EMPTY
  <1>7. WorkInv'
    BY <1>1, <1>2, <1>4 DEF CacheInv, WorkInv
  <1>8. PinInv' /\ PhaseInv'
    BY <1>1, <1>2, <1>4, KeysNat DEF CacheInv, PinInv, PhaseInv, TypeOK, INFLIGHT
  <1>9. NoSlotLost'
    BY <1>1, <1>2, <1>4 DEF CacheInv, NoSlotLost, Work, INFLIGHT, EMPTY
  <1> QED BY Zenon, <1>3, <1>5, <1>6, <1>7, <1>8, <1>9 DEF CacheInv
-----------------------------------------------------------------------------
LEMMA StepInv == CacheInv /\ [Next]_cacheVars => CacheInv'
  <1> SUFFICES ASSUME CacheInv, [Next]_cacheVars PROVE CacheInv'
    OBVIOUS
  <1>1. ASSUME NEW k \in Keys, Get(k) PROVE CacheInv'
    BY Zenon, <1>1, GetHitKeeps, QuietStepKeeps, GetLoadsKeeps, GetShortKeeps DEF Get
  <1>2. ASSUME NEW k \in Keys, NEW on \in BOOLEAN, Pin(k, on) PROVE CacheInv'
    BY Zenon, <1>2, PinKeeps
  <1>3. ASSUME NEW ks \in Batches, GetMany(ks) PROVE CacheInv'
    BY Zenon, <1>3, BatchOfKeys, QuietStepKeeps
  <1>4. CASE BatchStep
    BY Zenon, <1>4, QuietStepKeeps, ReserveTakeKeeps, ReadKeeps, PublishOkKeeps, PublishShortKeeps
       DEF BatchStep
  <1>5. CASE UNCHANGED cacheVars
    BY Zenon, <1>5 DEF cacheVars, CacheInv, TypeOK, MapsInverse, ServedBytes, WorkInv, PinInv,
                NoSlotLost, PhaseInv, Work
  <1> QED BY Zenon, <1>1, <1>2, <1>3, <1>4, <1>5 DEF Next

LEMMA AlwaysInv == Spec => []CacheInv
  BY InitInv, StepInv, PTL DEF Spec

(* The cache's state keeps its type: indices stay in range through every   *)
(* eviction, reservation and stamp (admit, cache_getmany, k3_cache_pin).   *)
THEOREM TypeCorrect == Spec => []TypeOK
  <1>1. CacheInv => TypeOK
    BY Zenon DEF CacheInv
  <1> QED BY <1>1, AlwaysInv, PTL

(* slot_of and key_of stay inverse through admit and all three phases of   *)
(* cache_getmany.                                                          *)
THEOREM MapsSafe == Spec => []MapsInverse
  <1>1. CacheInv => MapsInverse
    BY Zenon DEF CacheInv
  <1> QED BY <1>1, AlwaysInv, PTL

(* A hit of cache_get or cache_resident serves the expert asked for.       *)
THEOREM HitsSafe == Spec => []ServedBytes
  <1>1. CacheInv => ServedBytes
    BY Zenon DEF CacheInv
  <1> QED BY <1>1, AlwaysInv, PTL

(* The reads that phase 2 of cache_getmany runs concurrently never share a *)
(* buffer, nor hit a registered or pinned one.                             *)
THEOREM ReadsSafe == Spec => []ReadsDisjoint
  <1>1. CacheInv => ReadsDisjoint
    <2> SUFFICES ASSUME CacheInv PROVE ReadsDisjoint
      OBVIOUS
    <2>1. INFLIGHT \notin Keys
      BY KeysNat DEF INFLIGHT
    <2> QED BY Zenon, <2>1 DEF CacheInv, WorkInv, PinInv, ReadsDisjoint, Work
  <1> QED BY <1>1, AlwaysInv, PTL

(* No slot stays INFLIGHT after the batch that reserved it.                *)
THEOREM SlotsSafe == Spec => []NoSlotLost
  <1>1. CacheInv => NoSlotLost
    BY Zenon DEF CacheInv
  <1> QED BY <1>1, AlwaysInv, PTL

(* A step that leaves s pinned leaves its expert in it: the slots a step   *)
(* may rewrite are victims or reserved, and neither is pinned.             *)
THEOREM PinsSafe == Spec => PinnedStays
  <1> DEFINE Kept == \A s \in pinned \cap pinned' : key_of'[s] = key_of[s] /\ arena'[s] = arena[s]
  <1>1. CacheInv /\ Next => Kept
    <2> SUFFICES ASSUME CacheInv, Next, NEW s \in pinned
                 PROVE  key_of'[s] = key_of[s] /\ arena'[s] = arena[s]
      OBVIOUS
    <2>0. /\ s \in Slots
          /\ key_of \in [Slots -> Keys \cup {EMPTY, INFLIGHT}]
          /\ arena \in [Slots -> Keys \cup {Torn}]
          /\ \A i \in Slots : Victim(i) => s # i
          /\ \A k \in Keys : wgot[k] # "none" => wslot[k] # s
      BY VictimFacts, KeysNat DEF CacheInv, TypeOK, WorkInv, PinInv, INFLIGHT
    <2>1. ASSUME NEW k \in Keys, Get(k) PROVE key_of'[s] = key_of[s] /\ arena'[s] = arena[s]
      BY Zenon, <2>0, <2>1 DEF Get, GetHit, GetRefused, GetLoads, GetShort
    <2>2. ASSUME NEW k \in Keys, NEW on \in BOOLEAN, Pin(k, on)
          PROVE  key_of'[s] = key_of[s] /\ arena'[s] = arena[s]
      BY Zenon, <2>2 DEF Pin
    <2>3. CASE ReserveSkip \/ ReserveTake \/ ReserveEnd \/ ReadsEnd \/ PublishEnd
      BY Zenon, <2>0, <2>3 DEF ReserveSkip, ReserveTake, ReserveEnd, ReadsEnd, PublishEnd
    <2>4. ASSUME NEW k \in Keys, ReadStart(k) \/ ReadOk(k) \/ ReadShort(k)
          PROVE  key_of'[s] = key_of[s] /\ arena'[s] = arena[s]
      BY Zenon, <2>0, <2>4 DEF ReadStart, ReadOk, ReadShort
    <2>5. ASSUME NEW k \in Keys, PublishOk(k) \/ PublishShort(k)
          PROVE  key_of'[s] = key_of[s] /\ arena'[s] = arena[s]
      BY Zenon, <2>0, <2>5 DEF PublishOk, PublishShort
    <2>6. CASE \E ks \in Batches : GetMany(ks)
      BY Zenon, <2>6 DEF GetMany
    <2> QED BY Zenon, <2>1, <2>2, <2>3, <2>4, <2>5, <2>6 DEF Next, BatchStep
  <1>2. CacheInv /\ [Next]_cacheVars => [Kept]_cacheVars
    BY Zenon, <1>1
  <1> QED BY <1>2, AlwaysInv, PTL DEF Spec, PinnedStays

-----------------------------------------------------------------------------
(*                       Lists of experts                                 *)
-----------------------------------------------------------------------------
(* A set of natural numbers that is not empty has a least element. *)
LEMMA LeastNumber ==
  ASSUME NEW S \in SUBSET Nat, S # {}
  PROVE  \E x \in S : \A y \in S : x <= y
<1> DEFINE R == OpToRel(<, Nat)
<1>1. IsWellFoundedOn(R, Nat)
  BY NatLessThanWellFounded
<1>2. PICK x \in S : \A y \in S : <<y, x>> \notin R
  BY Zenon, <1>1, WFMin
<1>3. \A y \in S : ~(y < x)
  BY Zenon, <1>2 DEF OpToRel
<1> QED BY <1>3

(* Induction up to N, for a set. *)
LEMMA UpTo ==
  ASSUME NEW N \in Nat, NEW S, 0 \in S, \A n \in 1..N : n - 1 \in S => n \in S
  PROVE  \A n \in 0..N : n \in S
<1> DEFINE Rest == {n \in 0..N : n \notin S}
<1> SUFFICES ASSUME Rest # {} PROVE FALSE
  BY Zenon
<1>1. PICK x \in Rest : \A y \in Rest : x <= y
  <2>1. Rest \in SUBSET Nat
    OBVIOUS
  <2> HIDE DEF Rest
  <2> QED BY Zenon, <2>1, LeastNumber
<1>2. x \in 1..N /\ x - 1 \in 0..N /\ x - 1 < x
  BY <1>1
<1>3. x - 1 \in S
  BY <1>1, <1>2
<1> QED BY <1>1, <1>2, <1>3

(* Lists that grow step by step: by the experts of a chunk, each once, as  *)
(* in moe_prefill_chunk; by the resident experts of a route, as in k3_moe. *)
Collected(u, f, N) == u = [n \in 0..N |-> IF n = 0 THEN <<>> ELSE AddUnique(u[n - 1], f[n])]

Filtered(u, l, r, N) == u = [n \in 0..N |-> IF n = 0 THEN <<>> ELSE AddResident(u[n - 1], l, r[n])]

(* There are such lists. *)
LEMMA CollectedExists ==
  ASSUME NEW f, NEW N \in Nat
  PROVE  \E u : Collected(u, f, N)
<1> DEFINE S == {n \in 0..N : \E u : Collected(u, f, n)}
<1>1. 0 \in S
  <2>1. Collected([n \in 0..0 |-> <<>>], f, 0)
    BY DEF Collected
  <2> QED BY <2>1
<1>2. ASSUME NEW n \in 1..N, n - 1 \in S PROVE n \in S
  <2>1. PICK u : Collected(u, f, n - 1)
    BY <1>2
  <2> DEFINE v == [m \in 0..n |-> IF m = n THEN AddUnique(u[n - 1], f[n]) ELSE u[m]]
  <2>2. \A m \in 0..(n - 1) : u[m] = IF m = 0 THEN <<>> ELSE AddUnique(u[m - 1], f[m])
    BY Zenon, <2>1 DEF Collected
  <2>3. ASSUME NEW m \in 0..n PROVE v[m] = IF m = 0 THEN <<>> ELSE AddUnique(v[m - 1], f[m])
    BY <2>2
  <2>4. v = [m \in 0..n |-> IF m = 0 THEN <<>> ELSE AddUnique(v[m - 1], f[m])]
    BY <2>3
  <2>5. \E w : Collected(w, f, n)
    BY Zenon, <2>4 DEF Collected
  <2> QED BY <2>5
<1> HIDE DEF S
<1>3. N \in S
  BY <1>1, <1>2, UpTo
<1> QED BY Zenon, <1>3 DEF S

LEMMA FilteredExists ==
  ASSUME NEW l, NEW r, NEW N \in Nat
  PROVE  \E u : Filtered(u, l, r, N)
<1> DEFINE S == {n \in 0..N : \E u : Filtered(u, l, r, n)}
<1>1. 0 \in S
  <2>1. Filtered([n \in 0..0 |-> <<>>], l, r, 0)
    BY DEF Filtered
  <2> QED BY <2>1
<1>2. ASSUME NEW n \in 1..N, n - 1 \in S PROVE n \in S
  <2>1. PICK u : Filtered(u, l, r, n - 1)
    BY <1>2
  <2> DEFINE v == [m \in 0..n |-> IF m = n THEN AddResident(u[n - 1], l, r[n]) ELSE u[m]]
  <2>2. \A m \in 0..(n - 1) : u[m] = IF m = 0 THEN <<>> ELSE AddResident(u[m - 1], l, r[m])
    BY Zenon, <2>1 DEF Filtered
  <2>3. ASSUME NEW m \in 0..n PROVE v[m] = IF m = 0 THEN <<>> ELSE AddResident(v[m - 1], l, r[m])
    BY <2>2
  <2>4. v = [m \in 0..n |-> IF m = 0 THEN <<>> ELSE AddResident(v[m - 1], l, r[m])]
    BY <2>3
  <2>5. \E w : Filtered(w, l, r, n)
    BY Zenon, <2>4 DEF Filtered
  <2> QED BY <2>5
<1> HIDE DEF S
<1>3. N \in S
  BY <1>1, <1>2, UpTo
<1> QED BY Zenon, <1>3 DEF S

(* The list has e in it. *)
Holds(seq, e) == \E i \in 1..Len(seq) : seq[i] = e

LEMMA AppendHolds ==
  ASSUME NEW seq \in Seq(Experts), NEW e \in Experts
  PROVE  /\ Append(seq, e) \in Seq(Experts) /\ Holds(Append(seq, e), e)
         /\ \A x : Holds(seq, x) => Holds(Append(seq, e), x)
<1>1. /\ Append(seq, e) \in Seq(Experts) /\ Len(Append(seq, e)) = Len(seq) + 1
      /\ Append(seq, e)[Len(seq) + 1] = e /\ Len(seq) + 1 \in 1..(Len(seq) + 1)
      /\ \A i \in 1..Len(seq) : Append(seq, e)[i] = seq[i] /\ i \in 1..(Len(seq) + 1)
  OBVIOUS
<1> QED BY Zenon, <1>1 DEF Holds

LEMMA AddUniqueHolds ==
  ASSUME NEW seq \in Seq(Experts), NEW e \in Experts
  PROVE  /\ AddUnique(seq, e) \in Seq(Experts) /\ Holds(AddUnique(seq, e), e)
         /\ \A x : Holds(seq, x) => Holds(AddUnique(seq, e), x)
<1>1. CASE Holds(seq, e)
  BY Zenon, <1>1 DEF AddUnique, Holds
<1>2. CASE ~Holds(seq, e)
  <2>1. AddUnique(seq, e) = Append(seq, e)
    BY Zenon, <1>2 DEF AddUnique, Holds
  <2> QED BY Zenon, <2>1, AppendHolds
<1> QED BY Zenon, <1>1, <1>2

(* The list of a chunk has every entry so far. *)
LEMMA CollectedHolds ==
  ASSUME NEW N \in Nat, NEW f, \A n \in 1..N : f[n] \in Experts, NEW u, Collected(u, f, N)
  PROVE  u[N] \in Seq(Experts) /\ \A i \in 1..N : Holds(u[N], f[i])
<1> DEFINE S == {n \in 0..N : u[n] \in Seq(Experts) /\ \A i \in 1..n : Holds(u[n], f[i])}
<1>0. \A n \in 0..N : u[n] = IF n = 0 THEN <<>> ELSE AddUnique(u[n - 1], f[n])
  BY Zenon DEF Collected
<1>1. 0 \in S
  <2>1. u[0] = <<>> /\ 0 \in 0..N
    BY <1>0
  <2>2. <<>> \in Seq(Experts) /\ \A i \in 1..0 : FALSE
    OBVIOUS
  <2> QED BY Zenon, <2>1, <2>2
<1>2. ASSUME NEW n \in 1..N, n - 1 \in S PROVE n \in S
  <2>1. u[n] = AddUnique(u[n - 1], f[n]) /\ f[n] \in Experts /\ n \in 0..N
    BY <1>0
  <2>2. u[n - 1] \in Seq(Experts) /\ \A i \in 1..(n - 1) : Holds(u[n - 1], f[i])
    BY <1>2
  <2>3. /\ u[n] \in Seq(Experts) /\ Holds(u[n], f[n])
        /\ \A i \in 1..(n - 1) : Holds(u[n], f[i])
    BY Zenon, <2>1, <2>2, AddUniqueHolds
  <2>4. \A i \in 1..n : i = n \/ i \in 1..(n - 1)
    OBVIOUS
  <2>5. \A i \in 1..n : Holds(u[n], f[i])
    BY Zenon, <2>3, <2>4
  <2> QED BY Zenon, <2>1, <2>3, <2>5
<1> HIDE DEF S
<1>3. N \in S
  BY <1>1, <1>2, UpTo
<1> QED BY Zenon, <1>3 DEF S

(* The list of a draft has every expert so far that is resident. *)
LEMMA FilteredHolds ==
  ASSUME NEW N \in Nat, NEW l, NEW r, \A n \in 1..N : r[n] \in Experts, NEW u, Filtered(u, l, r, N)
  PROVE  u[N] \in Seq(Experts) /\ \A i \in 1..N : slot_of[Key(l, r[i])] # None => Holds(u[N], r[i])
<1> DEFINE S == {n \in 0..N : u[n] \in Seq(Experts)
                  /\ \A i \in 1..n : slot_of[Key(l, r[i])] # None => Holds(u[n], r[i])}
<1>0. \A n \in 0..N : u[n] = IF n = 0 THEN <<>> ELSE AddResident(u[n - 1], l, r[n])
  BY Zenon DEF Filtered
<1>1. 0 \in S
  <2>1. u[0] = <<>> /\ 0 \in 0..N
    BY <1>0
  <2>2. <<>> \in Seq(Experts) /\ \A i \in 1..0 : FALSE
    OBVIOUS
  <2> QED BY Zenon, <2>1, <2>2
<1>2. ASSUME NEW n \in 1..N, n - 1 \in S PROVE n \in S
  <2>1. u[n] = AddResident(u[n - 1], l, r[n]) /\ r[n] \in Experts /\ n \in 0..N
    BY <1>0
  <2>2. /\ u[n - 1] \in Seq(Experts)
        /\ \A i \in 1..(n - 1) : slot_of[Key(l, r[i])] # None => Holds(u[n - 1], r[i])
    BY <1>2
  <2>3. /\ u[n] \in Seq(Experts) /\ (slot_of[Key(l, r[n])] # None => Holds(u[n], r[n]))
        /\ \A i \in 1..(n - 1) : slot_of[Key(l, r[i])] # None => Holds(u[n], r[i])
    BY Zenon, <2>1, <2>2, AppendHolds DEF AddResident
  <2>4. \A i \in 1..n : i = n \/ i \in 1..(n - 1)
    OBVIOUS
  <2>5. \A i \in 1..n : slot_of[Key(l, r[i])] # None => Holds(u[n], r[i])
    BY Zenon, <2>3, <2>4
  <2> QED BY Zenon, <2>1, <2>3, <2>5
<1> HIDE DEF S
<1>3. N \in S
  BY <1>1, <1>2, UpTo
<1> QED BY Zenon, <1>3 DEF S

(* Where Flat finds the j-th expert of token t, and what it finds at i. *)
LEMMA FlatIndex ==
  /\ TopK * NTokens \in Nat
  /\ \A i \in 1..(TopK * NTokens) :
       ((i - 1) \div TopK) + 1 \in 1..NTokens /\ ((i - 1) % TopK) + 1 \in Terms
  /\ \A t \in 1..NTokens, j \in Terms :
       \E i \in 1..(TopK * NTokens) : ((i - 1) \div TopK) + 1 = t /\ ((i - 1) % TopK) + 1 = j
<1> USE CacheAssumption, MoeAssumption
<1>1. TopK * NTokens \in Nat
  OBVIOUS
<1>2. ASSUME NEW i \in 1..(TopK * NTokens)
      PROVE  ((i - 1) \div TopK) + 1 \in 1..NTokens /\ ((i - 1) % TopK) + 1 \in Terms
  BY <1>1 DEF Terms
<1>3. ASSUME NEW t \in 1..NTokens, NEW j \in Terms
      PROVE  \E i \in 1..(TopK * NTokens) : ((i - 1) \div TopK) + 1 = t /\ ((i - 1) % TopK) + 1 = j
  <2> DEFINE i == TopK * (t - 1) + j
  <2>1. i \in 1..(TopK * NTokens)
    BY <1>1 DEF Terms
  <2>2. (i - 1) \div TopK = t - 1 /\ (i - 1) % TopK = j - 1
    BY DEF Terms
  <2> HIDE DEF i
  <2> QED BY <2>1, <2>2 DEF Terms
<1> QED BY Zenon, <1>1, <1>2, <1>3

(* The experts of a chunk: each that a token asks for is in the list. *)
LEMMA UniqueHolds ==
  ASSUME NEW rs \in [1..NTokens -> Routes]
  PROVE  /\ Unique(rs) \in Seq(Experts)
         /\ \A t \in 1..NTokens, j \in Terms : Holds(Unique(rs), rs[t][j])
<1> DEFINE N == TopK * NTokens
           f == Flat(rs)
           u == CHOOSE u : u = [n \in 0..N |-> IF n = 0 THEN <<>> ELSE AddUnique(u[n - 1], f[n])]
<1>1. N \in Nat
  BY Zenon, FlatIndex
<1>2. Unique(rs) = u[N]
  BY Zenon DEF Unique
<1>3. \A n \in 1..N : f[n] = rs[((n - 1) \div TopK) + 1][((n - 1) % TopK) + 1]
  BY Zenon DEF Flat
<1>4. \A n \in 1..N : f[n] \in Experts
  <2>1. \A t \in 1..NTokens, j \in Terms : rs[t][j] \in Experts
    BY DEF Routes
  <2>2. \A n \in 1..N : ((n - 1) \div TopK) + 1 \in 1..NTokens /\ ((n - 1) % TopK) + 1 \in Terms
    BY Zenon, FlatIndex
  <2> HIDE DEF f, N
  <2> QED BY Zenon, <1>3, <2>1, <2>2
<1>5. Collected(u, f, N)
  <2>1. \E v : v = [n \in 0..N |-> IF n = 0 THEN <<>> ELSE AddUnique(v[n - 1], f[n])]
    BY Zenon, <1>1, CollectedExists DEF Collected
  <2> QED BY Zenon, <2>1 DEF Collected
<1> HIDE DEF f, N, u
<1>6. u[N] \in Seq(Experts) /\ \A n \in 1..N : Holds(u[N], f[n])
  BY Zenon, <1>1, <1>4, <1>5, CollectedHolds
<1>7. ASSUME NEW t \in 1..NTokens, NEW j \in Terms PROVE Holds(u[N], rs[t][j])
  <2>1. PICK n \in 1..N : ((n - 1) \div TopK) + 1 = t /\ ((n - 1) % TopK) + 1 = j
    <3>1. \A x \in 1..NTokens, y \in Terms :
            \E n \in 1..N : ((n - 1) \div TopK) + 1 = x /\ ((n - 1) % TopK) + 1 = y
      BY Zenon, FlatIndex DEF N
    <3> QED BY Zenon, <3>1
  <2> QED BY Zenon, <1>3, <1>6, <2>1
<1> QED BY Zenon, <1>2, <1>6, <1>7

(* The experts a draft keeps: all of its route that are resident. *)
LEMMA ResidentHolds ==
  ASSUME NEW l, NEW r \in Routes
  PROVE  /\ Resident(l, r) \in Seq(Experts)
         /\ \A j \in Terms : slot_of[Key(l, r[j])] # None => Holds(Resident(l, r), r[j])
<1> DEFINE u == CHOOSE u : u = [n \in 0..TopK |->
                  IF n = 0 THEN <<>> ELSE AddResident(u[n - 1], l, r[n])]
<1>0. TopK \in Nat
  BY CacheAssumption
<1>1. \A n \in 1..TopK : r[n] \in Experts
  BY DEF Routes, Terms
<1>2. Resident(l, r) = u[TopK]
  BY Zenon DEF Resident
<1>3. Filtered(u, l, r, TopK)
  <2>0. PICK v : Filtered(v, l, r, TopK)
    BY Zenon, <1>0, FilteredExists
  <2>1. v = [n \in 0..TopK |-> IF n = 0 THEN <<>> ELSE AddResident(v[n - 1], l, r[n])]
    BY Zenon, <2>0 DEF Filtered
  <2> QED BY Zenon, <2>1 DEF Filtered
<1> HIDE DEF u
<1>4. /\ u[TopK] \in Seq(Experts)
      /\ \A i \in 1..TopK : slot_of[Key(l, r[i])] # None => Holds(u[TopK], r[i])
  BY Zenon, <1>0, <1>1, <1>3, FilteredHolds
<1> QED BY Zenon, <1>2, <1>4 DEF Terms

-----------------------------------------------------------------------------
(*                            The MoE layer                                *)
-----------------------------------------------------------------------------
(* The routes and sums of a call. *)
ShapeInv ==
  /\ mode \in {"idle", "fetch", "use"} /\ kind \in {"moe", "chunk", "draft"}
  /\ layer \in 0..(NLayers - 1) /\ drops \in {0, 1}
  /\ todo \in Seq(Experts)
  /\ mode # "fetch" => cpc = "idle"
  /\ mode = "fetch" => kind # "draft"
  /\ mode # "idle" =>
       /\ route \in Seq(Routes) /\ DOMAIN contrib = 1..Len(route)
       /\ \A t \in DOMAIN contrib : DOMAIN contrib[t] = Terms
  /\ mode # "idle" /\ kind = "draft" => Len(route) = 1

(* A term that is not there yet is still to come, or its loss is counted. *)
ExactInv ==
  mode # "idle" /\ kind # "draft" =>
    \/ drops > 0
    \/ \A t \in 1..Len(route), j \in Terms :
         contrib[t][j] = Key(layer, route[t][j]) \/ Holds(todo, route[t][j])

(* A draft: a term is there if its expert is, or is still to come. *)
DraftInv ==
  mode # "idle" /\ kind = "draft" =>
    \A j \in Terms :
      LET k == Key(layer, route[1][j])
      IN  IF slot_of[k] = None THEN contrib[1][j] = Skipped
          ELSE contrib[1][j] = k \/ (contrib[1][j] = Skipped /\ Holds(todo, route[1][j]))

(* The inductive invariant of the layer and its cache. *)
MoeInv == CacheInv /\ ShapeInv /\ ExactInv /\ DraftInv

(* A route, and the keys of a list of experts. *)
LEMMA RouteFacts ==
  ASSUME NEW r \in Routes
  PROVE  /\ r \in Seq(Experts) /\ Len(r) = TopK
         /\ <<r>> \in Seq(Routes) /\ Len(<<r>>) = 1 /\ <<r>>[1] = r
         /\ \A j \in Terms : r[j] \in Experts /\ Holds(r, r[j])
<1>1. r \in [1..TopK -> Experts] /\ TopK \in Nat
  BY CacheAssumption DEF Routes, Terms
<1>2. r \in Seq(Experts) /\ Len(r) = TopK
  BY <1>1
<1>3. <<r>> \in Seq(Routes) /\ Len(<<r>>) = 1 /\ <<r>>[1] = r
  OBVIOUS
<1>4. \A j \in Terms : r[j] \in Experts /\ Holds(r, r[j])
  BY <1>1, <1>2 DEF Terms, Holds
<1> QED BY <1>2, <1>3, <1>4

LEMMA KeysOfFacts ==
  ASSUME NEW l \in 0..(NLayers - 1), NEW es \in Seq(Experts)
  PROVE  KeysOf(l, es) \in Seq(Keys)
<1>1. \A i \in 1..Len(es) : es[i] \in Experts
  OBVIOUS
<1>2. \A i \in 1..Len(es) : Key(l, es[i]) \in Keys
  BY Zenon, <1>1, KeyInGrid DEF Experts
<1> QED BY <1>2 DEF KeysOf

(* What the cache finds under a key are the bytes of the expert. *)
LEMMA FoundBytes ==
  ASSUME CacheInv, NEW k \in Keys, slot_of[k] # None
  PROVE  arena[slot_of[k]] = k
<1>1. slot_of[k] \in Slots
  BY Zenon DEF CacheInv, TypeOK
<1>2. key_of[slot_of[k]] = k /\ k >= 0
  BY Zenon, KeysNat DEF CacheInv, MapsInverse
<1> QED BY Zenon, <1>1, <1>2 DEF CacheInv, ServedBytes

(* So are those of the slot that cache_get returns. *)
LEMMA GetBytes ==
  ASSUME CacheInv, NEW k \in Keys, Get(k), served' >= 0
  PROVE  arena'[served'] = k
<1>1. CASE GetHit(k)
  BY Zenon, <1>1, FoundBytes DEF GetHit
<1>2. CASE GetLoads(k)
  <2>1. PICK s \in Slots : arena' = [arena EXCEPT ![s] = k] /\ served' = s
    BY Zenon, <1>2 DEF GetLoads
  <2> QED BY Zenon, <2>1 DEF CacheInv, TypeOK
<1>3. CASE GetRefused(k) \/ GetShort(k)
  <2>1. served' = -1
    BY Zenon, <1>3 DEF GetRefused, GetShort
  <2> QED BY <2>1
<1> QED BY Zenon, <1>1, <1>2, <1>3 DEF Get

(* The head of a list is its first entry; the others are in its tail. *)
LEMMA HoldsTail ==
  ASSUME NEW s \in Seq(Experts), s # <<>>
  PROVE  /\ Head(s) \in Experts /\ Tail(s) \in Seq(Experts)
         /\ \A e : Holds(s, e) => e = Head(s) \/ Holds(Tail(s), e)
<1>1. Head(s) \in Experts /\ Tail(s) \in Seq(Experts) /\ Len(Tail(s)) = Len(s) - 1
      /\ Len(s) \in Nat
  OBVIOUS
<1>2. ASSUME NEW e, Holds(s, e) PROVE e = Head(s) \/ Holds(Tail(s), e)
  <2>1. PICK i \in 1..Len(s) : s[i] = e
    BY Zenon, <1>2 DEF Holds
  <2>2. CASE i = 1
    BY <2>1, <2>2
  <2>3. CASE i # 1
    <3>1. i - 1 \in 1..Len(Tail(s)) /\ Tail(s)[i - 1] = e
      BY <1>1, <2>1, <2>3
    <3> QED BY Zenon, <3>1 DEF Holds
  <2> QED BY <2>2, <2>3
<1> QED BY Zenon, <1>1, <1>2

(* k3_moe starts on a token. *)
LEMMA StartMoeKeeps ==
  ASSUME MoeInv, NEW l \in 0..(NLayers - 1), NEW r \in Routes, StartMoe(l, r)
  PROVE  MoeInv'
<1>1. /\ GetMany(KeysOf(l, r)) /\ mode' = "fetch" /\ kind' = "moe" /\ layer' = l /\ route' = <<r>>
      /\ contrib' = <<[j \in Terms |-> Skipped]>> /\ todo' = r /\ drops' = drops
  BY Zenon DEF StartMoe
<1>2. CacheInv'
  BY Zenon, <1>1, RouteFacts, KeysOfFacts, QuietStepKeeps DEF MoeInv
<1>3. ShapeInv'
  <2>1. drops \in {0, 1} /\ r \in Seq(Experts) /\ <<r>> \in Seq(Routes) /\ Len(<<r>>) = 1
    BY Zenon, RouteFacts DEF MoeInv, ShapeInv
  <2>2. DOMAIN contrib' = 1..1 /\ \A t \in DOMAIN contrib' : DOMAIN contrib'[t] = Terms
    BY <1>1
  <2> QED BY <1>1, <2>1, <2>2 DEF ShapeInv
<1>4. ExactInv'
  <2>1. \A t \in 1..Len(route'), j \in Terms : Holds(todo', route'[t][j])
    BY <1>1, RouteFacts
  <2> QED BY Zenon, <2>1 DEF ExactInv
<1>5. DraftInv'
  BY <1>1 DEF DraftInv
<1> QED BY Zenon, <1>2, <1>3, <1>4, <1>5 DEF MoeInv

(* moe_prefill_chunk starts on its tokens. *)
LEMMA StartChunkKeeps ==
  ASSUME MoeInv, NEW l \in 0..(NLayers - 1), NEW rs \in [1..NTokens -> Routes], StartChunk(l, rs)
  PROVE  MoeInv'
<1>1. /\ GetMany(KeysOf(l, Unique(rs))) /\ mode' = "fetch" /\ kind' = "chunk" /\ layer' = l
      /\ contrib' = [t \in 1..NTokens |-> [j \in Terms |-> Garbage]]
      /\ route' = rs /\ todo' = Unique(rs) /\ drops' = drops
  BY Zenon DEF StartChunk
<1>2. CacheInv'
  BY Zenon, <1>1, UniqueHolds, KeysOfFacts, QuietStepKeeps DEF MoeInv
<1>3. rs \in Seq(Routes) /\ Len(rs) = NTokens
  BY MoeAssumption
<1>4. ShapeInv'
  <2>1. drops \in {0, 1} /\ Unique(rs) \in Seq(Experts)
    BY Zenon, UniqueHolds DEF MoeInv, ShapeInv
  <2>2. DOMAIN contrib' = 1..NTokens /\ \A t \in DOMAIN contrib' : DOMAIN contrib'[t] = Terms
    BY <1>1
  <2> QED BY <1>1, <1>3, <2>1, <2>2 DEF ShapeInv
<1>5. ExactInv'
  <2>1. \A t \in 1..Len(route'), j \in Terms : Holds(todo', route'[t][j])
    BY Zenon, <1>1, <1>3, UniqueHolds
  <2> QED BY Zenon, <2>1 DEF ExactInv
<1>6. DraftInv'
  BY <1>1 DEF DraftInv
<1> QED BY Zenon, <1>2, <1>4, <1>5, <1>6 DEF MoeInv

(* A draft token starts: every resident expert of its route is to come. *)
LEMMA StartDraftKeeps ==
  ASSUME MoeInv, NEW l \in 0..(NLayers - 1), NEW r \in Routes, StartDraft(l, r)
  PROVE  MoeInv'
<1>1. /\ UNCHANGED cacheVars /\ mode' = "use" /\ kind' = "draft" /\ layer' = l /\ route' = <<r>>
      /\ contrib' = <<[j \in Terms |-> Skipped]>> /\ todo' = Resident(l, r) /\ drops' = drops
      /\ slot_of' = slot_of /\ cpc' = "idle"
  BY Zenon DEF StartDraft, cacheVars
<1>2. CacheInv'
  BY Zenon, <1>1, StepInv DEF MoeInv
<1>3. ShapeInv'
  <2>1. /\ drops \in {0, 1} /\ Resident(l, r) \in Seq(Experts)
        /\ <<r>> \in Seq(Routes) /\ Len(<<r>>) = 1
    BY Zenon, RouteFacts, ResidentHolds DEF MoeInv, ShapeInv
  <2>2. DOMAIN contrib' = 1..1 /\ \A t \in DOMAIN contrib' : DOMAIN contrib'[t] = Terms
    BY <1>1
  <2> QED BY <1>1, <2>1, <2>2 DEF ShapeInv
<1>4. ExactInv'
  BY <1>1 DEF ExactInv
<1>5. DraftInv'
  <2>1. route'[1] = r /\ \A j \in Terms : contrib'[1][j] = Skipped
    BY <1>1
  <2>2. \A j \in Terms : slot_of'[Key(l, r[j])] # None => Holds(todo', r[j])
    BY Zenon, <1>1, ResidentHolds
  <2> QED BY Zenon, <1>1, <2>1, <2>2 DEF DraftInv
<1> QED BY Zenon, <1>2, <1>3, <1>4, <1>5 DEF MoeInv

(* A step of getmany, and its end. *)
LEMMA FetchKeeps ==
  ASSUME MoeInv, Fetch \/ FetchEnds
  PROVE  MoeInv'
<1>1. /\ mode = "fetch" /\ (BatchStep \/ UNCHANGED cacheVars)
      /\ UNCHANGED <<kind, layer, route, todo, contrib, drops>>
      /\ mode' = "fetch" \/ (mode' = "use" /\ cpc' = "idle")
  BY Zenon DEF Fetch, FetchEnds, moeVars, cacheVars
<1>2. CacheInv'
  BY Zenon, <1>1, StepInv DEF MoeInv, Next
<1>3. kind # "draft" /\ mode # "idle"
  BY <1>1 DEF MoeInv, ShapeInv
<1>4. mode' \in {"fetch", "use"} /\ mode' # "idle" /\ (mode' # "fetch" => cpc' = "idle")
  BY <1>1
<1>5. ShapeInv'
  BY Zenon, <1>1, <1>3, <1>4 DEF MoeInv, ShapeInv
<1>6. ExactInv' /\ DraftInv'
  BY Zenon, <1>1, <1>3 DEF MoeInv, ExactInv, DraftInv
<1> QED BY Zenon, <1>2, <1>5, <1>6 DEF MoeInv

(* What Apply does to the sums. *)
Applied(e, bytes) ==
  /\ DOMAIN contrib' = 1..Len(route) /\ \A t \in 1..Len(route) : DOMAIN contrib'[t] = Terms
  /\ \A t \in 1..Len(route), j \in Terms :
       contrib'[t][j] = IF route[t][j] = e THEN bytes ELSE contrib[t][j]

LEMMA ApplyFacts ==
  ASSUME NEW e, NEW s, Apply(e, s), DOMAIN contrib = 1..Len(route)
  PROVE  Applied(e, arena'[s])
  BY Zenon DEF Apply, Applied

(* The loop of k3_moe and moe_prefill_chunk gets an expert and applies it  *)
(* to every term that asked for it, or counts a drop.                      *)
LEMMA UseExactKeeps ==
  ASSUME MoeInv, UseExact
  PROVE  MoeInv'
<1> DEFINE e == Head(todo)
<1>1. /\ mode = "use" /\ kind # "draft" /\ todo # <<>> /\ Get(Key(layer, e)) /\ todo' = Tail(todo)
      /\ UNCHANGED <<mode, kind, layer, route>> /\ cpc' = "idle"
      /\ \/ served' >= 0 /\ Apply(e, served') /\ drops' = drops
         \/ drops' = 1 /\ contrib' = contrib
  BY Zenon DEF UseExact, Get, GetHit, GetRefused, GetLoads, GetShort, workVars
<1>2. /\ layer \in 0..(NLayers - 1) /\ todo \in Seq(Experts) /\ drops \in {0, 1}
      /\ route \in Seq(Routes) /\ DOMAIN contrib = 1..Len(route)
      /\ \A t \in DOMAIN contrib : DOMAIN contrib[t] = Terms
      /\ kind \in {"moe", "chunk", "draft"}
  BY <1>1 DEF MoeInv, ShapeInv
<1>3. /\ e \in Experts /\ Tail(todo) \in Seq(Experts)
      /\ \A x : Holds(todo, x) => x = e \/ Holds(Tail(todo), x)
  BY Zenon, <1>1, <1>2, HoldsTail
<1>4. Key(layer, e) \in Keys
  BY Zenon, <1>2, <1>3, KeyInGrid DEF Experts
<1> HIDE DEF e
<1>5. CacheInv'
  BY Zenon, <1>1, <1>4, StepInv DEF MoeInv, Next
<1>6. mode' = "use" /\ mode # "idle" /\ mode' # "idle" /\ mode' # "fetch" /\ kind' # "draft"
  BY <1>1
<1>7. CASE served' >= 0 /\ Apply(e, served') /\ drops' = drops
  <2>1. arena'[served'] = Key(layer, e)
    BY Zenon, <1>1, <1>4, <1>7, GetBytes DEF MoeInv
  <2>2. /\ DOMAIN contrib' = 1..Len(route) /\ \A t \in 1..Len(route) : DOMAIN contrib'[t] = Terms
        /\ \A t \in 1..Len(route), j \in Terms :
             contrib'[t][j] = IF route[t][j] = e THEN Key(layer, e) ELSE contrib[t][j]
    <3>1. Applied(e, Key(layer, e))
      BY Zenon, <1>2, <1>7, <2>1, ApplyFacts
    <3> QED BY Zenon, <3>1 DEF Applied
  <2>3. ShapeInv'
    BY Zenon, <1>1, <1>2, <1>3, <1>6, <1>7, <2>2 DEF ShapeInv
  <2>4. CASE drops > 0
    BY Zenon, <1>7, <2>3, <2>4, <1>5, <1>6 DEF MoeInv, ExactInv, DraftInv
  <2>5. CASE ~(drops > 0)
    <3>1. ASSUME NEW t \in 1..Len(route), NEW j \in Terms
          PROVE  contrib'[t][j] = Key(layer, route[t][j]) \/ Holds(Tail(todo), route[t][j])
      <4>1. contrib[t][j] = Key(layer, route[t][j]) \/ Holds(todo, route[t][j])
        BY Zenon, <1>1, <1>6, <2>5 DEF MoeInv, ExactInv
      <4> QED BY Zenon, <1>3, <2>2, <4>1
    <3>2. ExactInv'
      BY Zenon, <1>1, <3>1 DEF ExactInv
    <3> QED BY Zenon, <1>5, <1>6, <2>3, <3>2 DEF MoeInv, DraftInv
  <2> QED BY Zenon, <2>4, <2>5
<1>8. CASE drops' = 1 /\ contrib' = contrib
  <2>1. ShapeInv'
    BY Zenon, <1>1, <1>2, <1>3, <1>6, <1>8 DEF ShapeInv
  <2>2. drops' > 0
    BY <1>8
  <2> QED BY Zenon, <1>5, <1>6, <2>1, <2>2 DEF MoeInv, ExactInv, DraftInv
<1> QED BY Zenon, <1>1, <1>7, <1>8

(* A draft applies a resident expert to its term. *)
LEMMA UseDraftKeeps ==
  ASSUME MoeInv, UseDraft
  PROVE  MoeInv'
<1> DEFINE e == Head(todo)
           s == slot_of[Key(layer, e)]
<1>1. /\ mode = "use" /\ kind = "draft" /\ todo # <<>> /\ UNCHANGED cacheVars /\ todo' = Tail(todo)
      /\ UNCHANGED <<mode, kind, layer, route, drops>>
      /\ slot_of' = slot_of /\ arena' = arena /\ cpc' = cpc
      /\ \/ s # None /\ Apply(e, s)
         \/ s = None /\ contrib' = contrib
  BY Zenon DEF UseDraft, cacheVars
<1>2. /\ layer \in 0..(NLayers - 1) /\ todo \in Seq(Experts) /\ drops \in {0, 1} /\ cpc = "idle"
      /\ route \in Seq(Routes) /\ DOMAIN contrib = 1..Len(route) /\ Len(route) = 1
      /\ \A t \in DOMAIN contrib : DOMAIN contrib[t] = Terms
  BY <1>1 DEF MoeInv, ShapeInv
<1>3. /\ e \in Experts /\ Tail(todo) \in Seq(Experts)
      /\ \A x : Holds(todo, x) => x = e \/ Holds(Tail(todo), x)
  BY Zenon, <1>1, <1>2, HoldsTail
<1>4. Key(layer, e) \in Keys
  BY Zenon, <1>2, <1>3, KeyInGrid DEF Experts
<1>5. CacheInv'
  BY Zenon, <1>1, StepInv DEF MoeInv
<1>6. mode' = "use" /\ mode # "idle" /\ mode' # "idle" /\ mode' # "fetch" /\ kind' = "draft"
      /\ 1 \in 1..Len(route)
  BY <1>1, <1>2
<1>7. /\ DOMAIN contrib' = 1..Len(route) /\ \A t \in 1..Len(route) : DOMAIN contrib'[t] = Terms
      /\ \A j \in Terms : contrib'[1][j] = IF route[1][j] = e /\ s # None THEN Key(layer, e)
                                           ELSE contrib[1][j]
  <2>1. CASE s # None /\ Apply(e, s)
    <3>1. arena'[s] = Key(layer, e)
      BY Zenon, <1>1, <1>4, <2>1, FoundBytes DEF MoeInv
    <3>2. Applied(e, Key(layer, e))
      BY Zenon, <1>2, <2>1, <3>1, ApplyFacts
    <3> QED BY Zenon, <1>6, <2>1, <3>2 DEF Applied
  <2>2. CASE s = None /\ contrib' = contrib
    BY Zenon, <1>2, <2>2
  <2> QED BY Zenon, <1>1, <2>1, <2>2
<1> HIDE DEF e
<1>8. ShapeInv'
  BY Zenon, <1>1, <1>2, <1>3, <1>6, <1>7 DEF ShapeInv
<1>9. ASSUME NEW j \in Terms
      PROVE  IF slot_of[Key(layer, route[1][j])] = None THEN contrib'[1][j] = Skipped
             ELSE \/ contrib'[1][j] = Key(layer, route[1][j])
                  \/ contrib'[1][j] = Skipped /\ Holds(Tail(todo), route[1][j])
  <2>1. IF slot_of[Key(layer, route[1][j])] = None THEN contrib[1][j] = Skipped
        ELSE \/ contrib[1][j] = Key(layer, route[1][j])
             \/ contrib[1][j] = Skipped /\ Holds(todo, route[1][j])
    BY Zenon, <1>1, <1>6 DEF MoeInv, DraftInv
  <2>2. CASE route[1][j] = e
    BY Zenon, <1>7, <2>1, <2>2
  <2>3. CASE route[1][j] # e
    BY Zenon, <1>3, <1>7, <2>1, <2>3
  <2> QED BY Zenon, <2>2, <2>3
<1>10. DraftInv'
  BY Zenon, <1>1, <1>9 DEF DraftInv
<1>11. ExactInv'
  BY Zenon, <1>6 DEF ExactInv
<1> QED BY Zenon, <1>5, <1>8, <1>10, <1>11 DEF MoeInv

(* The initial state, and the end of a call. *)
LEMMA IdleKeeps ==
  /\ MoeInit => MoeInv
  /\ MoeInv /\ Finish => MoeInv'
<1>0. 0 \in 0..(NLayers - 1) /\ <<>> \in Seq(Experts)
  BY CacheAssumption
<1>1. ASSUME MoeInit PROVE MoeInv
  <2>1. CacheInv /\ cpc = "idle"
    BY Zenon, <1>1, InitInv DEF MoeInit, Init, CacheInit
  <2>2. mode = "idle" /\ kind = "moe" /\ layer = 0 /\ todo = <<>> /\ drops = 0
    BY Zenon, <1>1 DEF MoeInit
  <2>3. ShapeInv /\ ExactInv /\ DraftInv
    BY <1>0, <2>1, <2>2 DEF ShapeInv, ExactInv, DraftInv
  <2> QED BY Zenon, <2>1, <2>3 DEF MoeInv
<1>2. ASSUME MoeInv, Finish PROVE MoeInv'
  <2>1. /\ mode' = "idle" /\ kind' = "moe" /\ layer' = 0 /\ todo' = todo /\ drops' = drops
        /\ UNCHANGED cacheVars /\ mode = "use" /\ cpc' = cpc
    BY Zenon, <1>2 DEF Finish, cacheVars
  <2>2. CacheInv'
    BY Zenon, <1>2, <2>1, StepInv DEF MoeInv
  <2>3. ShapeInv' /\ ExactInv' /\ DraftInv'
    BY <1>0, <1>2, <2>1 DEF MoeInv, ShapeInv, ExactInv, DraftInv
  <2> QED BY Zenon, <2>2, <2>3 DEF MoeInv
<1> QED BY Zenon, <1>1, <1>2

(* The layer and its cache keep their invariant: the loop gets every       *)
(* expert its routes name, and what it applies are that expert's bytes.    *)
THEOREM MoeInvariant == MoeSpec => []MoeInv
<1>1. MoeInv /\ UNCHANGED vars => MoeInv'
  <2> SUFFICES ASSUME MoeInv, UNCHANGED vars PROVE MoeInv'
    OBVIOUS
  <2>1. UNCHANGED cacheVars /\ UNCHANGED <<mode, kind, layer, route, todo, contrib, drops>>
    BY Zenon DEF vars, moeVars
  <2>2. CacheInv'
    BY Zenon, <2>1, StepInv DEF MoeInv
  <2>3. slot_of' = slot_of /\ cpc' = cpc
    BY Zenon, <2>1 DEF cacheVars
  <2> QED BY Zenon, <2>1, <2>2, <2>3 DEF MoeInv, ShapeInv, ExactInv, DraftInv
<1>2. MoeInv /\ MoeNext => MoeInv'
  BY Zenon, StartMoeKeeps, StartDraftKeeps, StartChunkKeeps, FetchKeeps, UseExactKeeps,
     UseDraftKeeps, IdleKeeps DEF MoeNext
<1>3. MoeInv /\ [MoeNext]_vars => MoeInv'
  BY Zenon, <1>1, <1>2
<1> QED BY <1>3, IdleKeeps, PTL DEF MoeSpec

(* k3_moe and the batched prefill, for every number of experts, slots and  *)
(* tokens, every route and every failing read: when the expert loop ends,  *)
(* each term came from the bytes of the expert the router chose, or a drop *)
(* is counted.                                                             *)
THEOREM AlwaysExactOrCounted == MoeSpec => []ExactOrCounted
<1>1. MoeInv => ExactOrCounted
  <2> SUFFICES ASSUME MoeInv, Done, kind # "draft", ~(drops > 0),
                      NEW t \in 1..Len(route), NEW j \in Terms
               PROVE  contrib[t][j] = Key(layer, route[t][j])
    BY Zenon DEF ExactOrCounted
  <2>1. mode # "idle" /\ todo = <<>>
    BY DEF Done
  <2>2. ~Holds(todo, route[t][j])
    BY <2>1 DEF Holds
  <2> QED BY Zenon, <2>1, <2>2 DEF MoeInv, ExactInv
<1> QED BY <1>1, MoeInvariant, PTL

(* A cache-only draft token sums exactly the resident part of its top-k,   *)
(* each term from its own expert's bytes.                                  *)
THEOREM DraftAlwaysUsesResident == MoeSpec => []DraftUsesResident
<1>1. MoeInv => DraftUsesResident
  <2> SUFFICES ASSUME MoeInv, Done, kind = "draft", NEW j \in Terms
               PROVE  contrib[1][j] = IF slot_of[Key(layer, route[1][j])] # None
                                      THEN Key(layer, route[1][j]) ELSE Skipped
    BY Zenon DEF DraftUsesResident
  <2>1. mode # "idle" /\ todo = <<>>
    BY DEF Done
  <2>2. ~Holds(todo, route[1][j])
    BY <2>1 DEF Holds
  <2> QED BY Zenon, <2>1, <2>2 DEF MoeInv, DraftInv
<1> QED BY <1>1, MoeInvariant, PTL
=============================================================================
