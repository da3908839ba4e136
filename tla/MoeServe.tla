------------------------------ MODULE MoeServe ------------------------------
(***************************************************************************)
(* The MoE layer as the client of the expert cache: k3_moe and             *)
(* moe_prefill_chunk of src/src/core/k3_ops.c.  A token is routed to TopK  *)
(* experts; the layer asks the cache for all of them at once, then gets    *)
(* and applies them one at a time.  A chunk of prompt tokens does it once  *)
(* for the union of their experts; a cache-only draft token uses what is   *)
(* resident and reads nothing.                                             *)
(*                                                                         *)
(* The arithmetic is abstracted to which expert's bytes entered which term *)
(* of which token's sum.                                                   *)
(***************************************************************************)
EXTENDS ExpertCache

CONSTANT NTokens      \* tokens of a prefill chunk (CHUNK in k3_moe_prefill)

ASSUME MoeAssumption == NTokens \in Nat \ {0, 1}

Experts == 0..(NExperts - 1)
Terms == 1..TopK
Garbage == -3         \* a malloc'ed term nothing was ever written to
Skipped == -4         \* a term left out of the sum

(* k3_router: TopK distinct experts, in the order of their scores. *)
Routes == {r \in [Terms -> Experts] : \A i, j \in Terms : r[i] = r[j] => i = j}

VARIABLES
  mode,     \* "idle", "fetch" (inside getmany), "use" (the loop after it)
  kind,     \* which code path: "moe", "chunk" or "draft"
  layer,    \* w->layer
  route,    \* [token -> Routes], the router's decisions
  todo,     \* experts the loop has still to get, in order
  contrib,  \* [token -> [Terms -> the key whose bytes were applied, ...]]
  drops     \* k3_expert_drops, saturating at 1

moeVars == <<mode, kind, layer, route, todo, contrib, drops>>
vars == <<cacheVars, moeVars>>

(* The unique experts of a chunk, in the order the tokens first ask. *)
AddUnique(seq, e) == IF \E i \in 1..Len(seq) : seq[i] = e THEN seq ELSE Append(seq, e)

Flat(r) == [i \in 1..(TopK * NTokens) |-> r[((i - 1) \div TopK) + 1][((i - 1) % TopK) + 1]]

Unique(r) ==
  LET f == Flat(r)
      u[n \in 0..(TopK * NTokens)] ==
        IF n = 0 THEN <<>> ELSE AddUnique(u[n - 1], f[n])
  IN  u[TopK * NTokens]

KeysOf(l, es) == [i \in 1..Len(es) |-> Key(l, es[i])]

MoeInit ==
  /\ CacheInit
  /\ mode = "idle" /\ kind = "moe" /\ layer = 0
  /\ route = <<>> /\ contrib = <<>>
  /\ todo = <<>>
  /\ drops = 0

(* k3_moe on one token: the whole top-k to getmany, then the loop. *)
StartMoe(l, r) ==
  /\ mode = "idle"
  /\ kind' = "moe"
  /\ layer' = l
  /\ route' = <<r>>
  /\ contrib' = <<[j \in Terms |-> Skipped]>>
  /\ todo' = r
  /\ mode' = "fetch"
  /\ GetMany(KeysOf(l, r))
  /\ UNCHANGED drops

(* moe_prefill_chunk: route every token, collect the unique experts. *)
StartChunk(l, rs) ==
  /\ mode = "idle"
  /\ kind' = "chunk"
  /\ layer' = l
  /\ route' = rs
  /\ contrib' = [t \in 1..NTokens |-> [j \in Terms |-> Garbage]]
  /\ todo' = Unique(rs)
  /\ mode' = "fetch"
  /\ GetMany(KeysOf(l, Unique(rs)))
  /\ UNCHANGED drops

(* The experts of a route that are resident, in its order. *)
AddResident(seq, l, e) == IF slot_of[Key(l, e)] # None THEN Append(seq, e) ELSE seq

Resident(l, r) ==
  LET kept[n \in 0..TopK] ==
        IF n = 0 THEN <<>> ELSE AddResident(kept[n - 1], l, r[n])
  IN  kept[TopK]

(* Mutant: the draft's filter stops at the first expert that is missing. *)
StartDraft_StopsAtMiss(l, r) ==
  /\ mode = "idle"
  /\ cpc = "idle"
  /\ kind' = "draft"
  /\ layer' = l
  /\ route' = <<r>>
  /\ contrib' = <<[j \in Terms |-> Skipped]>>
  /\ todo' = IF slot_of[Key(l, r[1])] = None THEN <<>>
             ELSE Resident(l, r)
  /\ mode' = "use"
  /\ UNCHANGED <<cacheVars, drops>>

(* k3_moe with cache_only: keep the resident experts, no getmany. *)
StartDraft(l, r) ==
  /\ mode = "idle"
  /\ cpc = "idle"
  /\ kind' = "draft"
  /\ layer' = l
  /\ route' = <<r>>
  /\ contrib' = <<[j \in Terms |-> Skipped]>>
  /\ todo' = Resident(l, r)
  /\ mode' = "use"
  /\ UNCHANGED <<cacheVars, drops>>

Fetch ==
  /\ mode = "fetch"
  /\ BatchStep
  /\ UNCHANGED moeVars

FetchEnds ==
  /\ mode = "fetch"
  /\ cpc = "idle"
  /\ mode' = "use"
  /\ UNCHANGED <<cacheVars, kind, layer, route, todo, contrib, drops>>

(* Apply the bytes of slot s to every term that selected expert e. *)
Apply(e, s) ==
  contrib' = [t \in DOMAIN contrib |->
                [j \in Terms |-> IF route[t][j] = e THEN arena'[s] ELSE contrib[t][j]]]

(* Mutant: a dropped expert is not counted. *)
UseExact_Silent ==
  /\ mode = "use"
  /\ kind # "draft"
  /\ todo # <<>>
  /\ Get(Key(layer, Head(todo)))
  /\ todo' = Tail(todo)
  /\ IF served' >= 0 THEN Apply(Head(todo), served') ELSE UNCHANGED contrib
  /\ UNCHANGED <<mode, kind, layer, route, drops>>

UseExact ==
  /\ mode = "use"
  /\ kind # "draft"
  /\ todo # <<>>
  /\ Get(Key(layer, Head(todo)))
  /\ todo' = Tail(todo)
  /\ \/ /\ served' >= 0
        /\ Apply(Head(todo), served')
        /\ UNCHANGED drops
     \/ /\ served' < 0
        /\ drops' = 1
        /\ UNCHANGED contrib
  /\ UNCHANGED <<mode, kind, layer, route>>

(* cache_resident: no admission, no LRU update. *)
UseDraft ==
  /\ mode = "use"
  /\ kind = "draft"
  /\ todo # <<>>
  /\ UNCHANGED cacheVars
  /\ todo' = Tail(todo)
  /\ LET s == slot_of[Key(layer, Head(todo))]
     IN  IF s # None THEN Apply(Head(todo), s) ELSE UNCHANGED contrib
  /\ UNCHANGED <<mode, kind, layer, route, drops>>

Finish ==
  /\ mode = "use"
  /\ todo = <<>>
  /\ mode' = "idle"
  /\ route' = <<>> /\ contrib' = <<>>
  /\ kind' = "moe" /\ layer' = 0
  /\ UNCHANGED <<cacheVars, todo, drops>>

MoeNext ==
  \/ \E l \in 0..(NLayers - 1), r \in Routes : StartMoe(l, r) \/ StartDraft(l, r)
  \/ \E l \in 0..(NLayers - 1), rs \in [1..NTokens -> Routes] : StartChunk(l, rs)
  \/ Fetch
  \/ FetchEnds
  \/ UseExact
  \/ UseDraft
  \/ Finish

MoeSpec == MoeInit /\ [][MoeNext]_vars

-----------------------------------------------------------------------------

Done == mode = "use" /\ todo = <<>>

(* k3_moe and the batched prefill: "Exactness is preserved to the last bit".  *)
(* When the expert loop is over, every term of every token's sum was computed *)
(* from the bytes of the expert the router chose for it, or a drop has been   *)
(* counted, on which the caller fails the run: no wrong term goes unreported. *)
ExactOrCounted ==
  Done /\ kind # "draft" =>
    \/ drops > 0
    \/ \A t \in 1..Len(route), j \in Terms : contrib[t][j] = Key(layer, route[t][j])

(* A draft token uses exactly the resident part of its top-k, each term from  *)
(* its own expert's bytes: the filter's answer is still true in the loop that *)
(* relies on it.                                                              *)
DraftUsesResident ==
  Done /\ kind = "draft" =>
    \A j \in Terms :
      LET k == Key(layer, route[1][j])
      IN  contrib[1][j] = IF slot_of[k] # None THEN k ELSE Skipped
=============================================================================
