---------------------------- MODULE MemoryProof ----------------------------
(***************************************************************************)
(* Memory.  NothingLeaks for every number of layers, every vocabulary and  *)
(* every size of the text buffer: at every point of opening, generating    *)
(* and closing each allocation has one owner, and a failure hands back     *)
(* exactly what was owned.  And ScratchFits for every model, request and   *)
(* pass: the regions grow with the number of tokens, and the buffer is     *)
(* sized for the largest number.                                           *)
(***************************************************************************)
EXTENDS EngineSession, MemoryPlan, TLAPS

-----------------------------------------------------------------------------
(*                      What a session allocates                           *)
-----------------------------------------------------------------------------
(* The steps of k3_engine_open, in the order in which parts are acquired. *)
Opens == {"calloc", "cfg", "st", "lay", "trunk", "bind", "model", "cache", "opened"}
LayersUp == {"trunk", "bind", "model", "cache", "opened"}

(* Who holds a resource: an engine that is open or that far on its way, a  *)
(* generation in its loop, or the caller, a text.                          *)
Owns(r) ==
  \/ r[1] = "e" /\ (engine \/ pc \in Opens \ {"calloc"})
  \/ r[1] = "st" /\ (engine \/ pc \in LayersUp \cup {"lay"})
  \/ r[1] = "lay" /\ (engine \/ pc \in LayersUp)
  \/ r[1] = "trunk" /\ opts.streamed /\ (engine \/ pc \in {"model", "cache", "opened"})
  \/ r[1] = "layer" /\ ~opts.streamed /\ r[2] <= n_bound
  \/ r[1] = "model" /\ (engine \/ pc \in {"cache", "opened"})
  \/ r[1] = "cache" /\ (engine \/ pc = "opened")
  \/ r[1] \in {"bufs", "seq", "prompt", "ids"} /\ pc = "loop"
  \/ r[1] = "text" /\ (result.ok \/ (pc = "loop" /\ call.cap # 0))

HeldInv == \A r \in Resources : held[r] = IF Owns(r) THEN 1 ELSE 0

(* How far the engine is. *)
OpenInv ==
  /\ opts \in [streamed : BOOLEAN, tok : BOOLEAN] /\ engine \in BOOLEAN
  /\ pc \in Opens \cup {"idle", "start", "loop"}
  /\ pc \in Opens => ~engine
  /\ pc \in {"start", "loop"} => engine
  /\ pc = "trunk" => opts.streamed
  /\ pc = "bind" => ~opts.streamed /\ n_bound < NL
  /\ n_bound \in 0..NL
  /\ engine \/ pc \in {"model", "cache", "opened"} => n_bound = NL
  /\ ~engine /\ pc \notin {"bind", "model", "cache", "opened"} => n_bound = 0

(* A request. *)
IsCall(k) ==
  /\ {"gen", "ids", "cap"} \subseteq DOMAIN k
  /\ k.gen # 0 /\ k.ids \in Seq(DOMAIN Bytes) /\ k.cap \in Nat

(* A request is worked on only when the caller has freed the last text,    *)
(* and has a text of its own only in the loop.                             *)
CallInv ==
  /\ result.ok \in BOOLEAN
  /\ call = NoCall \/ (IsCall(call) /\ ~result.ok)
  /\ pc \in {"start", "loop"} => IsCall(call)
  /\ pc # "loop" /\ IsCall(call) => call.cap = 0
  /\ pc = "idle" => call = NoCall

(* The inductive invariant. *)
SessionInv == OpenInv /\ CallInv /\ HeldInv

-----------------------------------------------------------------------------
(* A resource is told by its name, a layer by its number too. *)
LEMMA NameFacts ==
  ASSUME NEW r \in Resources
  PROVE  /\ \A p \in {"e", "st", "lay", "trunk", "model", "cache", "bufs", "seq", "prompt",
                      "ids", "text"} : r = R(p) <=> r[1] = p
         /\ \A L \in Nat : r = Layer(L) <=> r[1] = "layer" /\ r[2] = L
         /\ r[1] = "layer" => r[2] \in 1..NL
         /\ r \in Buffers <=> r[1] \in {"bufs", "seq", "prompt"}
<1>1. CASE \E L \in 1..NL : r = Layer(L)
  BY <1>1 DEF R, Layer, Buffers
<1>2. CASE \E p \in {"e", "st", "lay", "trunk", "model", "cache", "bufs", "seq", "prompt",
                     "ids", "text"} : r = R(p)
  BY <1>2 DEF R, Layer, Buffers
<1> QED BY <1>1, <1>2 DEF Resources, Parts, Buffers, Output, R

(* Allocating what nobody holds. *)
LEMMA AllocKeeps ==
  ASSUME HeldInv, NEW S, Alloc(S),
         \A r \in Resources : (r \in S => ~Owns(r)) /\ (Owns(r)' <=> Owns(r) \/ r \in S)
  PROVE  HeldInv'
<1>1. ASSUME NEW r \in Resources PROVE held'[r] = IF Owns(r)' THEN 1 ELSE 0
  <2>1. held'[r] = (IF r \in S THEN held[r] + 1 ELSE held[r]) /\ held[r] = (IF Owns(r) THEN 1 ELSE 0)
    BY Zenon DEF Alloc, HeldInv
  <2>2. (r \in S => ~Owns(r)) /\ (Owns(r)' <=> Owns(r) \/ r \in S)
    BY Zenon
  <2> QED BY <2>1, <2>2
<1> QED BY Zenon, <1>1 DEF HeldInv

(* Freeing what is held. *)
LEMMA FreeKeeps ==
  ASSUME HeldInv, NEW S, Free(S),
         \A r \in Resources : (r \in S => Owns(r)) /\ (Owns(r)' <=> Owns(r) /\ r \notin S)
  PROVE  HeldInv'
<1>1. ASSUME NEW r \in Resources PROVE held'[r] = IF Owns(r)' THEN 1 ELSE 0
  <2>1. held'[r] = (IF r \in S THEN held[r] - 1 ELSE held[r]) /\ held[r] = (IF Owns(r) THEN 1 ELSE 0)
    BY Zenon DEF Free, HeldInv
  <2>2. (r \in S => Owns(r)) /\ (Owns(r)' <=> Owns(r) /\ r \notin S)
    BY Zenon
  <2> QED BY <2>1, <2>2
<1> QED BY Zenon, <1>1 DEF HeldInv

(* Nothing is allocated or freed. *)
LEMMA HeldSame ==
  ASSUME HeldInv, held' = held, \A r \in Resources : Owns(r)' <=> Owns(r)
  PROVE  HeldInv'
<1>1. ASSUME NEW r \in Resources PROVE held'[r] = IF Owns(r)' THEN 1 ELSE 0
  <2>1. held[r] = (IF Owns(r) THEN 1 ELSE 0) /\ (Owns(r)' <=> Owns(r))
    BY Zenon DEF HeldInv
  <2> QED BY <2>1
<1> QED BY Zenon, <1>1 DEF HeldInv

(* A step of k3_engine_open: what it acquires, releases and leads to. *)
Row(p, gets, undo, next) ==
  Opening[p].gets = gets /\ Opening[p].undo = undo /\ Opening[p].next = next

(* The steps, one by one. *)
LEMMA OpeningFacts ==
  /\ DOMAIN Opening = {"calloc", "cfg", "st", "lay", "trunk", "bind", "model", "cache"}
  /\ Row("calloc", {R("e")}, {}, "cfg")
  /\ Row("cfg", {}, {R("e")}, "st")
  /\ Row("st", {R("st")}, {R("e")}, "lay")
  /\ Row("lay", {R("lay")}, fail_st, IF opts.streamed THEN "trunk" ELSE "bind")
  /\ Row("trunk", {R("trunk")}, fail_lay, "model")
  /\ Row("bind", {Layer(n_bound + 1)}, fail_bound, IF n_bound + 1 < NL THEN "bind" ELSE "model")
  /\ Row("model", {R("model")}, fail_bound, "cache")
  /\ Row("cache", {R("cache")}, {R("model")} \cup fail_bound, "opened")
<1>1. DOMAIN Opening = {"calloc", "cfg", "st", "lay", "trunk", "bind", "model", "cache"}
  BY DEF Opening
<1>2. Row("calloc", {R("e")}, {}, "cfg")
  BY DEF Row, Opening
<1>3. Row("cfg", {}, {R("e")}, "st")
  BY DEF Row, Opening
<1>4. Row("st", {R("st")}, {R("e")}, "lay")
  BY DEF Row, Opening
<1>5. Row("lay", {R("lay")}, fail_st, IF opts.streamed THEN "trunk" ELSE "bind")
  BY DEF Row, Opening
<1>6. Row("trunk", {R("trunk")}, fail_lay, "model")
  BY DEF Row, Opening
<1>7. Row("bind", {Layer(n_bound + 1)}, fail_bound, IF n_bound + 1 < NL THEN "bind" ELSE "model")
  BY DEF Row, Opening
<1>8. Row("model", {R("model")}, fail_bound, "cache")
  BY DEF Row, Opening
<1>9. Row("cache", {R("cache")}, {R("model")} \cup fail_bound, "opened")
  BY DEF Row, Opening
<1> QED BY Zenon, <1>1, <1>2, <1>3, <1>4, <1>5, <1>6, <1>7, <1>8, <1>9

-----------------------------------------------------------------------------
(* A step that acquires: k3_engine_open goes on. *)
LEMMA OpenStepKeeps == ASSUME SessionInv, OpenStep PROVE SessionInv'
<1> USE EngineAssumption
<1>1. /\ Alloc(Opening[pc].gets) /\ pc' = Opening[pc].next
      /\ n_bound' = (IF pc = "bind" THEN n_bound + 1 ELSE IF pc = "trunk" THEN NL ELSE n_bound)
      /\ opts' = opts /\ engine' = engine /\ call' = call /\ result' = result
      /\ pc \in {"calloc", "cfg", "st", "lay", "trunk", "bind", "model", "cache"}
  BY Zenon, OpeningFacts DEF OpenStep
<1>2. OpenInv /\ CallInv /\ HeldInv
  BY DEF SessionInv
<1>3. pc # "idle" /\ pc' \notin {"idle", "start", "loop"}
  BY <1>1, OpeningFacts DEF Row
<1>4. CallInv'
  BY <1>1, <1>2, <1>3 DEF CallInv, IsCall
<1>5. OpenInv' /\ HeldInv'
  <2>1. CASE pc = "calloc"
    <3>1. pc' = "cfg" /\ Alloc({R("e")}) /\ n_bound' = n_bound
      BY Zenon, <1>1, <2>1, OpeningFacts DEF Row
    <3>2. ASSUME NEW r \in Resources
          PROVE  (r \in {R("e")} => ~Owns(r)) /\ (Owns(r)' <=> Owns(r) \/ r \in {R("e")})
      BY <1>1, <1>2, <2>1, <3>1, NameFacts DEF Owns, OpenInv, Opens, LayersUp
    <3>3. HeldInv'
      BY Zenon, <1>2, <3>1, <3>2, AllocKeeps
    <3> QED BY <1>1, <1>2, <2>1, <3>1, <3>3 DEF OpenInv, Opens
  <2>2. CASE pc = "cfg"
    <3>1. pc' = "st" /\ Alloc({}) /\ n_bound' = n_bound
      BY Zenon, <1>1, <2>2, OpeningFacts DEF Row
    <3>2. ASSUME NEW r \in Resources
          PROVE  (r \in {} => ~Owns(r)) /\ (Owns(r)' <=> Owns(r) \/ r \in {})
      BY <1>1, <1>2, <2>2, <3>1, NameFacts DEF Owns, OpenInv, Opens, LayersUp
    <3>3. HeldInv'
      BY Zenon, <1>2, <3>1, <3>2, AllocKeeps
    <3> QED BY <1>1, <1>2, <2>2, <3>1, <3>3 DEF OpenInv, Opens
  <2>3. CASE pc = "st"
    <3>1. pc' = "lay" /\ Alloc({R("st")}) /\ n_bound' = n_bound
      BY Zenon, <1>1, <2>3, OpeningFacts DEF Row
    <3>2. ASSUME NEW r \in Resources
          PROVE  (r \in {R("st")} => ~Owns(r)) /\ (Owns(r)' <=> Owns(r) \/ r \in {R("st")})
      BY <1>1, <1>2, <2>3, <3>1, NameFacts DEF Owns, OpenInv, Opens, LayersUp
    <3>3. HeldInv'
      BY Zenon, <1>2, <3>1, <3>2, AllocKeeps
    <3> QED BY <1>1, <1>2, <2>3, <3>1, <3>3 DEF OpenInv, Opens
  <2>4. CASE pc = "lay"
    <3>1. pc' = (IF opts.streamed THEN "trunk" ELSE "bind") /\ Alloc({R("lay")}) /\ n_bound' = n_bound
      BY Zenon, <1>1, <2>4, OpeningFacts DEF Row
    <3>2. ASSUME NEW r \in Resources
          PROVE  (r \in {R("lay")} => ~Owns(r)) /\ (Owns(r)' <=> Owns(r) \/ r \in {R("lay")})
      BY <1>1, <1>2, <2>4, <3>1, NameFacts DEF Owns, OpenInv, Opens, LayersUp
    <3>3. HeldInv'
      BY Zenon, <1>2, <3>1, <3>2, AllocKeeps
    <3> QED BY <1>1, <1>2, <2>4, <3>1, <3>3 DEF OpenInv, Opens
  <2>5. CASE pc = "trunk"
    <3>1. pc' = "model" /\ Alloc({R("trunk")}) /\ n_bound' = NL
      BY Zenon, <1>1, <2>5, OpeningFacts DEF Row
    <3>2. ASSUME NEW r \in Resources
          PROVE  (r \in {R("trunk")} => ~Owns(r)) /\ (Owns(r)' <=> Owns(r) \/ r \in {R("trunk")})
      BY <1>1, <1>2, <2>5, <3>1, NameFacts DEF Owns, OpenInv, Opens, LayersUp
    <3>3. HeldInv'
      BY Zenon, <1>2, <3>1, <3>2, AllocKeeps
    <3> QED BY <1>1, <1>2, <2>5, <3>1, <3>3 DEF OpenInv, Opens
  <2>6. CASE pc = "bind"
    <3>1. pc' = (IF n_bound + 1 < NL THEN "bind" ELSE "model") /\ Alloc({Layer(n_bound + 1)}) /\ n_bound' = n_bound + 1
      BY Zenon, <1>1, <2>6, OpeningFacts DEF Row
    <3>2. ASSUME NEW r \in Resources
          PROVE  (r \in {Layer(n_bound + 1)} => ~Owns(r)) /\ (Owns(r)' <=> Owns(r) \/ r \in {Layer(n_bound + 1)})
      BY <1>1, <1>2, <2>6, <3>1, NameFacts DEF Owns, OpenInv, Opens, LayersUp
    <3>3. HeldInv'
      BY Zenon, <1>2, <3>1, <3>2, AllocKeeps
    <3> QED BY <1>1, <1>2, <2>6, <3>1, <3>3 DEF OpenInv, Opens
  <2>7. CASE pc = "model"
    <3>1. pc' = "cache" /\ Alloc({R("model")}) /\ n_bound' = n_bound
      BY Zenon, <1>1, <2>7, OpeningFacts DEF Row
    <3>2. ASSUME NEW r \in Resources
          PROVE  (r \in {R("model")} => ~Owns(r)) /\ (Owns(r)' <=> Owns(r) \/ r \in {R("model")})
      BY <1>1, <1>2, <2>7, <3>1, NameFacts DEF Owns, OpenInv, Opens, LayersUp
    <3>3. HeldInv'
      BY Zenon, <1>2, <3>1, <3>2, AllocKeeps
    <3> QED BY <1>1, <1>2, <2>7, <3>1, <3>3 DEF OpenInv, Opens
  <2>8. CASE pc = "cache"
    <3>1. pc' = "opened" /\ Alloc({R("cache")}) /\ n_bound' = n_bound
      BY Zenon, <1>1, <2>8, OpeningFacts DEF Row
    <3>2. ASSUME NEW r \in Resources
          PROVE  (r \in {R("cache")} => ~Owns(r)) /\ (Owns(r)' <=> Owns(r) \/ r \in {R("cache")})
      BY <1>1, <1>2, <2>8, <3>1, NameFacts DEF Owns, OpenInv, Opens, LayersUp
    <3>3. HeldInv'
      BY Zenon, <1>2, <3>1, <3>2, AllocKeeps
    <3> QED BY <1>1, <1>2, <2>8, <3>1, <3>3 DEF OpenInv, Opens
  <2> QED BY Zenon, <1>1, <2>1, <2>2, <2>3, <2>4, <2>5, <2>6, <2>7, <2>8
<1> QED BY <1>4, <1>5 DEF SessionInv

(* What fail_bound and the labels below it release. *)
LEMMA LabelFacts ==
  ASSUME NEW r \in Resources, n_bound \in Nat
  PROVE  /\ r \in fail_st <=> r[1] \in {"st", "e"}
         /\ r \in fail_lay <=> r[1] \in {"lay", "st", "e"}
         /\ r \in Bound <=> IF opts.streamed THEN r[1] = "trunk" ELSE r[1] = "layer" /\ r[2] <= n_bound
         /\ r \in fail_bound <=> r \in Bound \/ r \in fail_lay
<1> USE EngineAssumption
<1>1. r \in fail_st <=> r[1] \in {"st", "e"}
  BY NameFacts DEF fail_st
<1>2. r \in fail_lay <=> r[1] \in {"lay", "st", "e"}
  BY <1>1, NameFacts DEF fail_lay
<1>3. r \in Bound <=> IF opts.streamed THEN r[1] = "trunk" ELSE r[1] = "layer" /\ r[2] <= n_bound
  BY NameFacts DEF Bound
<1> QED BY Zenon, <1>1, <1>2, <1>3 DEF fail_bound

(* A step that fails: what was acquired is released, and nothing else. *)
LEMMA OpenFailsKeeps == ASSUME SessionInv, OpenFails PROVE SessionInv'
<1> USE EngineAssumption
<1>1. /\ Free(Opening[pc].undo) /\ pc' = "idle" /\ n_bound' = 0 /\ call' = NoCall
      /\ opts' = opts /\ engine' = engine /\ result' = result
      /\ pc \in {"calloc", "cfg", "st", "lay", "trunk", "bind", "model", "cache"}
  BY Zenon, OpeningFacts DEF OpenFails
<1>2. OpenInv /\ CallInv /\ HeldInv
  BY DEF SessionInv
<1>3. OpenInv' /\ CallInv'
  <2>1. OpenInv'
    BY <1>1, <1>2 DEF OpenInv, Opens
  <2>2. CallInv'
    BY <1>1, <1>2 DEF CallInv, IsCall, NoCall
  <2> QED BY <2>1, <2>2
<1>4. PICK S : Free(S) /\ \A r \in Resources : r \in S <=> Owns(r) /\ r[1] # "text"
  <2>1. CASE pc = "calloc"
    <3>1. Free({})
      BY Zenon, <1>1, <2>1, OpeningFacts DEF Row
    <3>2. ASSUME NEW r \in Resources
          PROVE  r \in {} <=> Owns(r) /\ r[1] # "text"
      BY <1>1, <1>2, <2>1, NameFacts, LabelFacts DEF Owns, OpenInv, Opens, LayersUp
    <3> QED BY Zenon, <3>1, <3>2
  <2>2. CASE pc = "cfg"
    <3>1. Free({R("e")})
      BY Zenon, <1>1, <2>2, OpeningFacts DEF Row
    <3>2. ASSUME NEW r \in Resources
          PROVE  r \in {R("e")} <=> Owns(r) /\ r[1] # "text"
      BY <1>1, <1>2, <2>2, NameFacts, LabelFacts DEF Owns, OpenInv, Opens, LayersUp
    <3> QED BY Zenon, <3>1, <3>2
  <2>3. CASE pc = "st"
    <3>1. Free({R("e")})
      BY Zenon, <1>1, <2>3, OpeningFacts DEF Row
    <3>2. ASSUME NEW r \in Resources
          PROVE  r \in {R("e")} <=> Owns(r) /\ r[1] # "text"
      BY <1>1, <1>2, <2>3, NameFacts, LabelFacts DEF Owns, OpenInv, Opens, LayersUp
    <3> QED BY Zenon, <3>1, <3>2
  <2>4. CASE pc = "lay"
    <3>1. Free(fail_st)
      BY Zenon, <1>1, <2>4, OpeningFacts DEF Row
    <3>2. ASSUME NEW r \in Resources
          PROVE  r \in fail_st <=> Owns(r) /\ r[1] # "text"
      BY <1>1, <1>2, <2>4, NameFacts, LabelFacts DEF Owns, OpenInv, Opens, LayersUp
    <3> QED BY Zenon, <3>1, <3>2
  <2>5. CASE pc = "trunk"
    <3>1. Free(fail_lay)
      BY Zenon, <1>1, <2>5, OpeningFacts DEF Row
    <3>2. ASSUME NEW r \in Resources
          PROVE  r \in fail_lay <=> Owns(r) /\ r[1] # "text"
      BY <1>1, <1>2, <2>5, NameFacts, LabelFacts DEF Owns, OpenInv, Opens, LayersUp
    <3> QED BY Zenon, <3>1, <3>2
  <2>6. CASE pc = "bind"
    <3>1. Free(fail_bound)
      BY Zenon, <1>1, <2>6, OpeningFacts DEF Row
    <3>2. ASSUME NEW r \in Resources
          PROVE  r \in fail_bound <=> Owns(r) /\ r[1] # "text"
      BY <1>1, <1>2, <2>6, NameFacts, LabelFacts DEF Owns, OpenInv, Opens, LayersUp
    <3> QED BY Zenon, <3>1, <3>2
  <2>7. CASE pc = "model"
    <3>1. Free(fail_bound)
      BY Zenon, <1>1, <2>7, OpeningFacts DEF Row
    <3>2. ASSUME NEW r \in Resources
          PROVE  r \in fail_bound <=> Owns(r) /\ r[1] # "text"
      BY <1>1, <1>2, <2>7, NameFacts, LabelFacts DEF Owns, OpenInv, Opens, LayersUp
    <3> QED BY Zenon, <3>1, <3>2
  <2>8. CASE pc = "cache"
    <3>1. Free({R("model")} \cup fail_bound)
      BY Zenon, <1>1, <2>8, OpeningFacts DEF Row
    <3>2. ASSUME NEW r \in Resources
          PROVE  r \in {R("model")} \cup fail_bound <=> Owns(r) /\ r[1] # "text"
      BY <1>1, <1>2, <2>8, NameFacts, LabelFacts DEF Owns, OpenInv, Opens, LayersUp
    <3> QED BY Zenon, <3>1, <3>2
  <2> QED BY Zenon, <1>1, <2>1, <2>2, <2>3, <2>4, <2>5, <2>6, <2>7, <2>8
<1>5. ASSUME NEW r \in Resources PROVE Owns(r)' <=> Owns(r) /\ r \notin S
  <2>1. r \in S <=> Owns(r) /\ r[1] # "text"
    BY Zenon, <1>4
  <2>2. r[1] = "layer" => r[2] \in 1..NL
    BY Zenon, NameFacts
  <2> QED BY <1>1, <1>2, <2>1, <2>2 DEF Owns, OpenInv, Opens, LayersUp
<1>6. HeldInv'
  BY Zenon, <1>2, <1>4, <1>5, FreeKeeps
<1> QED BY Zenon, <1>3, <1>6 DEF SessionInv

(* The engine opens and closes: k3b_init, the end of k3_engine_open, k3b_shutdown. *)
LEMMA InitializeKeeps == ASSUME SessionInv, Initialize PROVE SessionInv'
<1>1. /\ pc = "idle" /\ ~engine /\ pc' = "calloc" /\ opts' = opts /\ held' = held
      /\ n_bound' = n_bound /\ engine' = engine /\ call' = call /\ result' = result
  BY DEF Initialize
<1>2. OpenInv /\ CallInv /\ HeldInv
  BY DEF SessionInv
<1>3. OpenInv' /\ CallInv'
  BY <1>1, <1>2 DEF OpenInv, CallInv, Opens, IsCall
<1>4. \A r \in Resources : Owns(r)' <=> Owns(r)
  BY <1>1 DEF Owns, Opens, LayersUp
<1> QED BY Zenon, <1>1, <1>2, <1>3, <1>4, HeldSame DEF SessionInv

LEMMA OpenedKeeps == ASSUME SessionInv, Opened PROVE SessionInv'
<1>1. /\ pc = "opened" /\ engine' = TRUE /\ pc' = (IF call = NoCall THEN "idle" ELSE "start")
      /\ opts' = opts /\ held' = held /\ n_bound' = n_bound /\ call' = call /\ result' = result
  BY DEF Opened
<1>2. OpenInv /\ CallInv /\ HeldInv
  BY DEF SessionInv
<1>3. OpenInv' /\ CallInv'
  BY <1>1, <1>2 DEF OpenInv, CallInv, Opens, IsCall
<1>4. \A r \in Resources : Owns(r)' <=> Owns(r)
  BY <1>1 DEF Owns, Opens, LayersUp
<1> QED BY Zenon, <1>1, <1>2, <1>3, <1>4, HeldSame DEF SessionInv

LEMMA ShutdownKeeps == ASSUME SessionInv, Shutdown PROVE SessionInv'
<1> USE EngineAssumption
<1> DEFINE S == {R("cache"), R("model")} \cup Bound \cup fail_lay
<1>1. /\ pc = "idle" /\ engine /\ Free(S) /\ engine' = FALSE /\ n_bound' = 0
      /\ opts' = opts /\ pc' = pc /\ call' = call /\ result' = result
  BY DEF Shutdown
<1>2. OpenInv /\ CallInv /\ HeldInv
  BY DEF SessionInv
<1>3. OpenInv' /\ CallInv'
  <2>1. 0 \in 0..NL /\ ~engine'
    BY <1>1
  <2>2. OpenInv'
    BY Zenon, <1>1, <1>2, <2>1 DEF OpenInv, Opens
  <2>3. CallInv'
    BY Zenon, <1>1, <1>2 DEF CallInv, IsCall
  <2> QED BY <2>2, <2>3
<1>4. ASSUME NEW r \in Resources
      PROVE  (r \in S => Owns(r)) /\ (Owns(r)' <=> Owns(r) /\ r \notin S)
  <2>1. n_bound = NL /\ n_bound \in Nat
    BY <1>1, <1>2 DEF OpenInv
  <2>2. r[1] = "layer" => r[2] \in 1..NL
    BY Zenon, NameFacts
  <2>3. r \in S <=> r[1] \in {"cache", "model", "lay", "st", "e"} \/ r \in Bound
    BY <2>1, NameFacts, LabelFacts
  <2>4. r \in Bound <=> IF opts.streamed THEN r[1] = "trunk" ELSE r[1] = "layer" /\ r[2] <= n_bound
    BY Zenon, <2>1, LabelFacts
  <2> QED BY <1>1, <1>2, <2>1, <2>2, <2>3, <2>4 DEF Owns, Opens, LayersUp
<1> HIDE DEF S
<1>5. HeldInv'
  BY Zenon, <1>1, <1>2, <1>4, FreeKeeps
<1> QED BY Zenon, <1>3, <1>5 DEF SessionInv

-----------------------------------------------------------------------------
(* A request comes in, is refused, or gets its buffers. *)
LEMMA GenerateKeeps ==
  ASSUME SessionInv, NEW gen \in Gens, NEW stop, NEW stream, Generate(gen, stop, stream)
  PROVE  SessionInv'
<1>1. /\ pc = "idle" /\ ~result.ok /\ pc' = (IF engine THEN "start" ELSE "calloc")
      /\ opts' = opts /\ held' = held /\ n_bound' = n_bound /\ engine' = engine /\ result' = result
      /\ IsCall(call') /\ call'.cap = 0
  BY EngineAssumption DEF Generate, NoResult, IsCall
<1>2. OpenInv /\ CallInv /\ HeldInv
  BY DEF SessionInv
<1>3. OpenInv'
  BY <1>1, <1>2 DEF OpenInv, Opens
<1>4. CallInv'
  BY Zenon, <1>1, <1>2 DEF CallInv, IsCall
<1>5. \A r \in Resources : Owns(r)' <=> Owns(r)
  BY <1>1 DEF Owns, Opens, LayersUp
<1> QED BY Zenon, <1>1, <1>2, <1>3, <1>4, <1>5, HeldSame DEF SessionInv

LEMMA RefuseKeeps == ASSUME SessionInv, Refuse PROVE SessionInv'
<1>1. /\ pc = "start" /\ pc' = "idle" /\ call' = NoCall /\ opts' = opts /\ held' = held
      /\ n_bound' = n_bound /\ engine' = engine /\ result' = result
  BY DEF Refuse
<1>2. OpenInv /\ CallInv /\ HeldInv
  BY DEF SessionInv
<1>3. OpenInv'
  BY <1>1, <1>2 DEF OpenInv, Opens
<1>4. CallInv'
  BY <1>1, <1>2 DEF CallInv, IsCall, NoCall
<1>5. \A r \in Resources : Owns(r)' <=> Owns(r)
  BY <1>1, <1>2 DEF Owns, Opens, LayersUp, OpenInv
<1> QED BY Zenon, <1>1, <1>2, <1>3, <1>4, <1>5, HeldSame DEF SessionInv

LEMMA StartKeeps == ASSUME SessionInv, Start PROVE SessionInv'
<1> DEFINE S == Buffers \cup {R("ids")}
<1>1. /\ pc = "start" /\ pc' = "loop" /\ Alloc(S) /\ opts' = opts
      /\ n_bound' = n_bound /\ engine' = engine /\ result' = result /\ call' = call
  BY DEF Start
<1>2. OpenInv /\ CallInv /\ HeldInv
  BY DEF SessionInv
<1>3. OpenInv'
  BY <1>1, <1>2 DEF OpenInv, Opens
<1>4. CallInv'
  BY <1>1, <1>2 DEF CallInv, IsCall
<1>5. call.cap = 0
  BY <1>1, <1>2 DEF CallInv
<1>6. ASSUME NEW r \in Resources
      PROVE  (r \in S => ~Owns(r)) /\ (Owns(r)' <=> Owns(r) \/ r \in S)
  <2>1. r \in S <=> r[1] \in {"bufs", "seq", "prompt", "ids"}
    BY NameFacts
  <2> HIDE DEF S
  <2> QED BY <1>1, <1>2, <1>5, <2>1 DEF Owns, Opens, LayersUp, OpenInv
<1> HIDE DEF S
<1>7. HeldInv'
  BY Zenon, <1>1, <1>2, <1>6, AllocKeeps
<1> QED BY Zenon, <1>3, <1>4, <1>7 DEF SessionInv

(* What the end of a generation releases: the buffers and ids, and a text if there is one. *)
LEMMA GivenUp ==
  ASSUME NEW r \in Resources
  PROVE  r \in Buffers \cup {R("ids")} \cup Text(call)
           <=> r[1] \in {"bufs", "seq", "prompt", "ids"} \/ (r[1] = "text" /\ call.cap # 0)
  BY NameFacts DEF Text

(* The loop ends without a result: a forward pass or an expert failed. *)
LEMMA AbandonKeeps ==
  ASSUME SessionInv, pc = "loop", pc' = "idle", call' = NoCall, opts' = opts, n_bound' = n_bound,
         engine' = engine, result' = result, Free(Buffers \cup {R("ids")} \cup Text(call))
  PROVE  SessionInv'
<1> DEFINE S == Buffers \cup {R("ids")} \cup Text(call)
<1>1. OpenInv /\ CallInv /\ HeldInv /\ Free(S)
  BY DEF SessionInv
<1>2. OpenInv'
  BY <1>1 DEF OpenInv, Opens
<1>3. CallInv'
  BY <1>1 DEF CallInv, IsCall, NoCall
<1>4. ASSUME NEW r \in Resources
      PROVE  (r \in S => Owns(r)) /\ (Owns(r)' <=> Owns(r) /\ r \notin S)
  <2>1. r \in S <=> r[1] \in {"bufs", "seq", "prompt", "ids"} \/ (r[1] = "text" /\ call.cap # 0)
    BY Zenon, GivenUp
  <2>2. ~result.ok
    BY <1>1 DEF CallInv, IsCall, NoCall
  <2> HIDE DEF S
  <2> QED BY <1>1, <2>1, <2>2 DEF Owns, Opens, LayersUp, OpenInv
<1> HIDE DEF S
<1>5. HeldInv'
  BY Zenon, <1>1, <1>4, FreeKeeps
<1> QED BY Zenon, <1>2, <1>3, <1>5 DEF SessionInv

(* The loop goes on, or its last token is seen: the request changes, and   *)
(* with the first text its buffer is allocated.                            *)
LEMMA LoopKeeps ==
  ASSUME SessionInv, pc = "loop", pc' = pc, opts' = opts, n_bound' = n_bound,
         engine' = engine, result' = result, IsCall(call'),
         \/ held' = held /\ call'.cap = call.cap
         \/ call'.cap # 0 /\ Alloc(IF call.cap = 0 THEN {R("text")} ELSE {})
  PROVE  SessionInv'
<1>1. OpenInv /\ CallInv /\ HeldInv
  BY DEF SessionInv
<1>2. OpenInv'
  BY <1>1 DEF OpenInv, Opens
<1>3. ~result.ok
  BY <1>1 DEF CallInv, IsCall, NoCall
<1>4. CallInv'
  <2>1. pc' = "loop" /\ "loop" # "idle"
    OBVIOUS
  <2> QED BY Zenon, <1>1, <1>3, <2>1 DEF CallInv, IsCall
<1>5. CASE held' = held /\ call'.cap = call.cap
  <2>1. \A r \in Resources : Owns(r)' <=> Owns(r)
    BY <1>5 DEF Owns, Opens, LayersUp
  <2> QED BY Zenon, <1>1, <1>2, <1>4, <1>5, <2>1, HeldSame DEF SessionInv
<1>6. CASE call'.cap # 0 /\ Alloc(IF call.cap = 0 THEN {R("text")} ELSE {})
  <2> DEFINE S == IF call.cap = 0 THEN {R("text")} ELSE {}
  <2>1. ASSUME NEW r \in Resources
        PROVE  (r \in S => ~Owns(r)) /\ (Owns(r)' <=> Owns(r) \/ r \in S)
    <3>1. r \in S <=> r[1] = "text" /\ call.cap = 0
      BY NameFacts
    <3> HIDE DEF S
    <3> QED BY <1>3, <1>6, <3>1 DEF Owns, Opens, LayersUp
  <2>2. Alloc(S)
    BY <1>6
  <2> HIDE DEF S
  <2>3. HeldInv'
    BY Zenon, <1>1, <2>1, <2>2, AllocKeeps
  <2> QED BY Zenon, <1>2, <1>4, <2>3 DEF SessionInv
<1> QED BY Zenon, <1>5, <1>6

(* The text buffer is never of size 0 once it is there. *)
LEMMA GrownPositive ==
  ASSUME NEW n \in Nat, call.cap \in Nat
  PROVE  Grown(n) \in Nat \ {0}
<1> DEFINE m == n * PER
<1>1. m \in Nat
  BY EngineAssumption
<1> HIDE DEF m
<1>2. need(n) = m + BASE
  BY DEF need, m
<1> QED BY <1>1, <1>2, EngineAssumption DEF Grown

(* In the loop there is a request. *)
LEMMA LoopHasCall == ASSUME SessionInv, Going PROVE pc = "loop" /\ IsCall(call)
  BY DEF SessionInv, CallInv, Going

(* The steps of the loop: the end of the text, a token, a token whose text *)
(* finds no memory, a forward pass that fails.                             *)
LEMMA EndOfTextKeeps ==
  ASSUME SessionInv, NEW dropped \in BOOLEAN, EndOfText(dropped) PROVE SessionInv'
<1>1. /\ Going /\ pc' = pc /\ opts' = opts /\ n_bound' = n_bound
      /\ engine' = engine /\ result' = result /\ held' = held
      /\ call' = [call EXCEPT !.stopped_by = "eos", !.drops = @ \/ dropped, !.done = TRUE]
  BY Zenon DEF EndOfText
<1>2. pc = "loop" /\ IsCall(call)
  BY Zenon, <1>1, LoopHasCall
<1>3. IsCall(call') /\ call'.cap = call.cap
  BY <1>1, <1>2 DEF IsCall
<1> QED BY Zenon, <1>1, <1>2, <1>3, LoopKeeps

LEMMA TokenKeeps ==
  ASSUME SessionInv, NEW nxt \in DOMAIN Bytes, NEW cancel \in BOOLEAN, NEW dropped \in BOOLEAN,
         Token(nxt, cancel, dropped)
  PROVE  SessionInv'
<1>1. /\ Going /\ pc' = pc /\ opts' = opts /\ n_bound' = n_bound
      /\ engine' = engine /\ result' = result
      /\ call' = WithToken(nxt, cancel, dropped) /\ Alloc(IF call.cap = 0 THEN {R("text")} ELSE {})
  BY Zenon DEF Token
<1>2. pc = "loop" /\ IsCall(call)
  BY Zenon, <1>1, LoopHasCall
<1>3. Append(call.ids, nxt) \in Seq(DOMAIN Bytes)
  BY <1>2 DEF IsCall
<1>4. Grown(Len(Append(call.ids, nxt))) \in Nat \ {0}
  <2>1. Len(Append(call.ids, nxt)) \in Nat
    BY <1>3
  <2> QED BY Zenon, <1>2, <2>1, GrownPositive DEF IsCall
<1>5. IsCall(call') /\ call'.cap # 0
  BY <1>1, <1>2, <1>3, <1>4 DEF IsCall, WithToken
<1> QED BY Zenon, <1>1, <1>2, <1>5, LoopKeeps

LEMMA TextStarvedKeeps ==
  ASSUME SessionInv, NEW nxt \in DOMAIN Bytes, NEW dropped \in BOOLEAN, TextStarved(nxt, dropped)
  PROVE  SessionInv'
<1>1. /\ Going /\ pc' = pc /\ opts' = opts /\ n_bound' = n_bound
      /\ engine' = engine /\ result' = result /\ held' = held
      /\ call' = [call EXCEPT !.ids = Append(@, nxt), !.drops = @ \/ dropped,
                             !.done = TRUE, !.starved = TRUE]
  BY Zenon DEF TextStarved
<1>2. pc = "loop" /\ IsCall(call)
  BY Zenon, <1>1, LoopHasCall
<1>3. Append(call.ids, nxt) \in Seq(DOMAIN Bytes)
  BY <1>2 DEF IsCall
<1>4. IsCall(call') /\ call'.cap = call.cap
  BY <1>1, <1>2, <1>3 DEF IsCall
<1> QED BY Zenon, <1>1, <1>2, <1>4, LoopKeeps

LEMMA ForwardFailsKeeps == ASSUME SessionInv, ForwardFails PROVE SessionInv'
<1>1. /\ Going /\ pc' = "idle" /\ call' = NoCall /\ opts' = opts /\ n_bound' = n_bound
      /\ engine' = engine /\ result' = result /\ Free(Buffers \cup {R("ids")} \cup Text(call))
  BY Zenon DEF ForwardFails
<1>2. pc = "loop"
  BY Zenon, <1>1, LoopHasCall
<1> QED BY Zenon, <1>1, <1>2, AbandonKeeps

(* The end of a generation: given up after a dropped expert, or returned. *)
LEMMA ReturnKeeps == ASSUME SessionInv, Return PROVE SessionInv'
<1>1. /\ pc = "loop" /\ pc' = "idle" /\ call' = NoCall /\ opts' = opts /\ n_bound' = n_bound
      /\ engine' = engine
  BY Zenon DEF Return
<1>2. CASE call.drops
  <2>1. Free(Buffers \cup {R("ids")} \cup Text(call)) /\ result' = result
    BY Zenon, <1>2 DEF Return
  <2> QED BY Zenon, <1>1, <2>1, AbandonKeeps
<1>3. CASE ~call.drops
  <2>1. /\ held' = [r \in Resources |->
                     IF r = R("text") THEN 1
                     ELSE IF r \in Buffers \cup {R("ids")} THEN held[r] - 1 ELSE held[r]]
        /\ result'.ok = TRUE
    BY <1>3 DEF Return
  <2>2. OpenInv /\ CallInv /\ HeldInv
    BY DEF SessionInv
  <2>3. OpenInv'
    BY <1>1, <2>2 DEF OpenInv, Opens
  <2>4. CallInv'
    <3>1. ~IsCall(NoCall) /\ pc' \notin {"start", "loop"}
      BY <1>1 DEF IsCall, NoCall
    <3>2. result'.ok \in BOOLEAN
      BY Zenon, <2>1
    <3> QED BY Zenon, <1>1, <3>1, <3>2 DEF CallInv, IsCall
  <2>5. ASSUME NEW r \in Resources PROVE held'[r] = IF Owns(r)' THEN 1 ELSE 0
    <3>1. held[r] = IF Owns(r) THEN 1 ELSE 0
      BY Zenon, <2>2 DEF HeldInv
    <3>2. held'[r] = IF r[1] = "text" THEN 1
                     ELSE IF r[1] \in {"bufs", "seq", "prompt", "ids"} THEN held[r] - 1 ELSE held[r]
      BY <2>1, NameFacts
    <3>3. engine
      BY <1>1, <2>2 DEF OpenInv
    <3> QED BY <1>1, <2>1, <3>1, <3>2, <3>3 DEF Owns, Opens, LayersUp
  <2>6. HeldInv'
    BY Zenon, <2>5 DEF HeldInv
  <2> QED BY Zenon, <2>3, <2>4, <2>6 DEF SessionInv
<1> QED BY Zenon, <1>2, <1>3

(* The caller frees the text. *)
LEMMA ResultFreeKeeps == ASSUME SessionInv, ResultFree PROVE SessionInv'
<1>1. /\ result.ok /\ Free({R("text")}) /\ ~result'.ok /\ result'.ok \in BOOLEAN
      /\ opts' = opts /\ pc' = pc /\ n_bound' = n_bound /\ engine' = engine /\ call' = call
  BY DEF ResultFree, NoResult
<1>2. OpenInv /\ CallInv /\ HeldInv
  BY DEF SessionInv
<1>3. OpenInv'
  BY Zenon, <1>1, <1>2 DEF OpenInv
<1>4. CallInv'
  BY Zenon, <1>1, <1>2 DEF CallInv, IsCall
<1>5. call = NoCall /\ pc # "loop"
  BY <1>1, <1>2 DEF CallInv, IsCall, NoCall
<1>6. ASSUME NEW r \in Resources
      PROVE  (r \in {R("text")} => Owns(r)) /\ (Owns(r)' <=> Owns(r) /\ r \notin {R("text")})
  <2>1. r = R("text") <=> r[1] = "text"
    BY Zenon, NameFacts
  <2> QED BY <1>1, <1>5, <2>1 DEF Owns
<1>7. HeldInv'
  BY Zenon, <1>1, <1>2, <1>6, FreeKeeps
<1> QED BY Zenon, <1>3, <1>4, <1>7 DEF SessionInv

-----------------------------------------------------------------------------
(* k3_backend.c starts without an engine. *)
LEMMA SessionInit == ASSUME EngineInit PROVE SessionInv
<1> USE EngineAssumption
<1>1. OpenInv /\ CallInv
  <2>1. 0 \in 0..NL /\ "idle" \notin Opens \cup {"start", "loop", "trunk", "bind", "model", "cache", "opened"}
        /\ ~IsCall(NoCall) /\ ~NoResult.ok /\ NoResult.ok \in BOOLEAN
    BY DEF Opens, NoResult, NoCall, IsCall
  <2>2. OpenInv
    BY Zenon, <2>1 DEF EngineInit, OpenInv
  <2>3. CallInv
    BY Zenon, <2>1 DEF EngineInit, CallInv
  <2> QED BY <2>2, <2>3
<1>2. ASSUME NEW r \in Resources PROVE held[r] = IF Owns(r) THEN 1 ELSE 0
  <2>1. r[1] = "layer" => r[2] \in 1..NL
    BY Zenon, NameFacts
  <2> QED BY <2>1 DEF EngineInit, Owns, Opens, LayersUp, NoResult
<1> QED BY Zenon, <1>1, <1>2 DEF SessionInv, HeldInv

(* Every step of a session keeps count. *)
LEMMA SessionNext == ASSUME SessionInv, [EngineNext]_engineVars PROVE SessionInv'
<1>1. CASE UNCHANGED engineVars
  <2>1. /\ held' = held /\ pc' = pc /\ opts' = opts /\ n_bound' = n_bound /\ engine' = engine
        /\ result' = result /\ call' = call
    BY Zenon, <1>1 DEF engineVars
  <2>2. OpenInv' /\ CallInv'
    BY Zenon, <2>1 DEF SessionInv, OpenInv, CallInv, IsCall
  <2>3. \A r \in Resources : Owns(r)' <=> Owns(r)
    BY <2>1 DEF Owns
  <2> QED BY Zenon, <2>1, <2>2, <2>3, HeldSame DEF SessionInv
<1>2. CASE EngineNext
  BY Zenon, <1>2, InitializeKeeps, OpenStepKeeps, OpenFailsKeeps, OpenedKeeps, ShutdownKeeps,
     GenerateKeeps, RefuseKeeps, StartKeeps, ForwardFailsKeeps, EndOfTextKeeps, TokenKeeps,
     TextStarvedKeeps, ReturnKeeps, ResultFreeKeeps DEF EngineNext
<1> QED BY Zenon, <1>1, <1>2

(* Between calls that is what NothingLeaks says. *)
LEMMA SessionIdle == ASSUME SessionInv PROVE NothingLeaks
<1> USE EngineAssumption
<1> SUFFICES ASSUME pc = "idle" PROVE NothingLeaks
  BY Zenon DEF NothingLeaks
<1> DEFINE parts == IF engine THEN {R("cache"), R("model")} \cup Bound \cup fail_lay ELSE {}
           text == IF result.ok THEN {R("text")} ELSE {}
<1>1. OpenInv /\ CallInv /\ HeldInv
  BY DEF SessionInv
<1>2. ASSUME NEW r \in Resources PROVE held[r] = IF r \in parts \cup text THEN 1 ELSE 0
  <2>1. r[1] = "layer" => r[2] \in 1..NL
    BY Zenon, NameFacts
  <2>2. n_bound \in Nat /\ (~engine => n_bound = 0)
    BY <1>1 DEF OpenInv
  <2>3. r \in parts \cup text <=>
          \/ engine /\ (r[1] \in {"cache", "model", "lay", "st", "e"} \/ r \in Bound)
          \/ result.ok /\ r[1] = "text"
    BY <2>2, NameFacts, LabelFacts
  <2>4. r \in Bound <=> IF opts.streamed THEN r[1] = "trunk" ELSE r[1] = "layer" /\ r[2] <= n_bound
    BY Zenon, <2>2, LabelFacts
  <2>5. held[r] = IF Owns(r) THEN 1 ELSE 0
    BY Zenon, <1>1 DEF HeldInv
  <2> HIDE DEF parts, text
  <2> QED BY <2>1, <2>2, <2>3, <2>4, <2>5 DEF Owns, Opens, LayersUp
<1>3. engine => n_bound = NL
  BY <1>1 DEF OpenInv
<1> QED BY Zenon, <1>2, <1>3 DEF NothingLeaks

(* Whatever fails, and in whatever order requests, openings and closings   *)
(* come: every part of the engine, every buffer and every text has just    *)
(* the owner the code gives it at that point, and is allocated once.       *)
THEOREM SessionInvariant == EngineSpec => []SessionInv
<1>1. EngineInit => SessionInv
  BY SessionInit
<1>2. SessionInv /\ [EngineNext]_engineVars => SessionInv'
  BY SessionNext
<1> QED BY <1>1, <1>2, PTL DEF EngineSpec

(* So nothing leaks, be any number of layers bound and any text generated. *)
THEOREM NeverLeaks == EngineSpec => []NothingLeaks
<1>1. SessionInv => NothingLeaks
  BY SessionIdle
<1> QED BY <1>1, SessionInvariant, PTL

-----------------------------------------------------------------------------
(*                          The scratch buffer                             *)
-----------------------------------------------------------------------------
(* What the scratch depends on: the pass stays in the sequence it was      *)
(* sized for (k3_run.c, Tmax), and one without a cache has none cached.    *)
ForwardInv ==
  /\ c \in Cfgs /\ req \in Requests
  /\ fwd.T \in Nat /\ fwd.cached \in Nat
  /\ fwd.T > 0 => fwd.cached + fwd.T <= Tmax

(* Multiplying preserves the order of natural numbers. *)
LEMMA MulMono ==
  ASSUME NEW a \in Nat, NEW b \in Nat, NEW x \in Nat, a <= b
  PROVE  a * x <= b * x /\ a * x \in Nat /\ b * x \in Nat
OBVIOUS

(* So does dividing. *)
LEMMA DivMono ==
  ASSUME NEW a \in Nat, NEW b \in Nat, NEW k \in Nat \ {0}, a <= b
  PROVE  a \div k <= b \div k /\ a \div k \in Nat /\ b \div k \in Nat
OBVIOUS

(* A quotient is a natural number. *)
LEMMA DivNat ==
  ASSUME NEW a \in Nat, NEW k \in Nat \ {0}
  PROVE  a \div k \in Nat
OBVIOUS

(* What a buffer sized for the largest of three sub-blocks holds. *)
LEMMA LargestHolds ==
  ASSUME NEW s \in Nat, NEW x \in Nat, NEW y \in Nat, NEW z \in Nat, NEW d \in Nat
  PROVE  /\ s + x <= Larger(s + Larger(Larger(x, y), z), d)
         /\ s + y <= Larger(s + Larger(Larger(x, y), z), d)
         /\ s + z <= Larger(s + Larger(Larger(x, y), z), d)
         /\ s <= Larger(s + Larger(Larger(x, y), z), d)
         /\ Larger(s + Larger(Larger(x, y), z), d) \in Nat
BY DEF Larger

(* A region inside a sub-block, behind a shorter prefix, is inside too. *)
LEMMA InsideHolds ==
  ASSUME NEW s \in Nat, NEW r \in Nat, NEW x \in Nat, NEW y \in Nat, NEW n \in Nat,
         s <= r, x <= y, r + y <= n
  PROVE  s + x <= n
OBVIOUS

(* One more row. *)
LEMMA OneMore ==
  ASSUME NEW n \in Nat, NEW h \in Nat
  PROVE  (1 + n) * h = h + n * h
OBVIOUS

(* Adding preserves the order of natural numbers. *)
LEMMA AddMono ==
  ASSUME NEW x \in Nat, NEW y \in Nat, NEW z \in Nat, NEW w \in Nat, x <= y, z <= w
  PROVE  x + z <= y + w /\ x + z \in Nat /\ y + w \in Nat
OBVIOUS

(* Every model's dimensions are natural numbers, and so is what the        *)
(* regions are multiples of.                                               *)
LEMMA Dimensions ==
  ASSUME c \in Cfgs
  PROVE  /\ c.hidden \in Nat \ {0} /\ c.n_layers \in Nat \ {0} /\ c.attn_res_block \in Nat \ {0}
         /\ c.kda_heads \in Nat /\ c.kda_head_dim \in Nat /\ c.n_heads \in Nat /\ c.q_lora \in Nat
         /\ c.kv_lora \in Nat /\ c.qk_nope \in Nat /\ c.qk_rope \in Nat /\ c.v_head \in Nat
         /\ c.latent \in Nat /\ c.moe_inter \in Nat /\ c.n_shared \in Nat /\ c.dense_inter \in Nat
         /\ c.dense_inter <= 6 * P
         /\ P \in Nat
         /\ c.n_heads * (c.qk_nope + c.qk_rope) \in Nat
         /\ c.n_heads * (c.qk_nope + c.v_head) \in Nat
         /\ c.n_heads * c.v_head \in Nat
         /\ c.moe_inter * c.n_shared \in Nat
<1>1. /\ {c.hidden, c.n_layers, c.attn_res_block} \subseteq Nat \ {0}
      /\ {c.vocab, c.kda_heads, c.kda_head_dim, c.conv_k, c.n_heads, c.q_lora, c.kv_lora,
          c.qk_nope, c.qk_rope, c.v_head, c.latent, c.moe_inter, c.n_shared,
          c.dense_inter} \subseteq Nat
      /\ c.dense_inter <= 6 * (c.kda_heads * c.kda_head_dim)
  BY MemoryAssumption
<1>2. ASSUME NEW x \in Nat, NEW y \in Nat PROVE x * y \in Nat /\ x + y \in Nat
  OBVIOUS
<1>3. /\ c.hidden \in Nat \ {0} /\ c.n_layers \in Nat \ {0} /\ c.attn_res_block \in Nat \ {0}
      /\ c.kda_heads \in Nat /\ c.kda_head_dim \in Nat /\ c.n_heads \in Nat /\ c.q_lora \in Nat
      /\ c.kv_lora \in Nat /\ c.qk_nope \in Nat /\ c.qk_rope \in Nat /\ c.v_head \in Nat
      /\ c.latent \in Nat /\ c.moe_inter \in Nat /\ c.n_shared \in Nat /\ c.dense_inter \in Nat
  BY <1>1
<1>4. c.qk_nope + c.qk_rope \in Nat /\ c.qk_nope + c.v_head \in Nat
  BY <1>2, <1>3
<1>5. /\ P \in Nat
      /\ c.n_heads * (c.qk_nope + c.qk_rope) \in Nat
      /\ c.n_heads * (c.qk_nope + c.v_head) \in Nat
      /\ c.n_heads * c.v_head \in Nat
      /\ c.moe_inter * c.n_shared \in Nat
  BY <1>2, <1>3, <1>4 DEF P
<1> QED
  BY <1>1, <1>3, <1>5 DEF P

(* Every region of every pass ends inside the buffer. *)
LEMMA CallFits == ForwardInv => ScratchFits
<1> SUFFICES ASSUME ForwardInv, fwd.T > 0 PROVE ScratchFits
  BY DEF ScratchFits
<1> DEFINE T == fwd.T
           M == Tmax
           qd == c.n_heads * (c.qk_nope + c.qk_rope)
           kvd == c.n_heads * (c.qk_nope + c.v_head)
           vd == c.n_heads * c.v_head
           SI == c.moe_inter * c.n_shared
           Tq == T * qd
           Mq == M * qd
           Tkv == T * kvd
           Mkv == M * kvd
           Tr == T * c.qk_rope
           Mr == M * c.qk_rope
<1>1. /\ T \in Nat /\ T > 0 /\ fwd.cached \in Nat /\ M \in Nat
      /\ fwd.cached + T <= M /\ T <= M /\ 1 <= M
  <2>1. req.prior \in Nat /\ req.np \in Nat /\ req.gen \in Nat
    BY MemoryAssumption DEF ForwardInv
  <2> QED
    BY <2>1 DEF ForwardInv, Tmax
<1>2. c \in Cfgs
  BY DEF ForwardInv
<1> HIDE DEF T, M, qd, kvd, vd, SI
<1>t. qd \in Nat /\ kvd \in Nat /\ vd \in Nat /\ SI \in Nat
  BY <1>2, Dimensions DEF qd, kvd, vd, SI
<1>d. /\ c.hidden \in Nat \ {0} /\ c.n_layers \in Nat \ {0} /\ c.attn_res_block \in Nat \ {0}
      /\ c.kda_heads \in Nat /\ c.kda_head_dim \in Nat /\ c.q_lora \in Nat
      /\ c.kv_lora \in Nat /\ c.qk_rope \in Nat /\ c.latent \in Nat /\ c.moe_inter \in Nat
      /\ c.dense_inter \in Nat /\ c.dense_inter <= 6 * P /\ P \in Nat
  BY <1>2, Dimensions
<1> USE <1>d
<1>3. /\ T * (3 * c.hidden) <= M * (3 * c.hidden)
      /\ T * (3 * c.hidden) \in Nat /\ M * (3 * c.hidden) \in Nat
  <2>1. 3 * c.hidden \in Nat
    OBVIOUS
  <2> QED
    BY <2>1, <1>1, MulMono
<1>4. Tq <= Mq /\ Tq \in Nat /\ Mq \in Nat
  BY <1>1, <1>t, MulMono
<1>5. Tkv <= Mkv /\ Tkv \in Nat /\ Mkv \in Nat
  BY <1>1, <1>t, MulMono
<1>6. Tr <= Mr /\ Tr \in Nat /\ Mr \in Nat
  BY <1>1, MulMono
<1>a. mla_scratch_cached(M, M, FALSE) =
         Mq + (c.kv_lora + c.qk_rope) + c.q_lora + 2 * vd + M + (Mkv + Mr)
  BY <1>1, <1>t DEF mla_scratch_cached, Larger, qd, kvd, vd
<1>b. mla_scratch_cached(M, M, TRUE) =
         Mq + (c.kv_lora + c.qk_rope) + c.q_lora + 2 * vd + M + 0
  BY <1>1, <1>t DEF mla_scratch_cached, Larger, qd, kvd, vd
<1>c. mla_end(T, fwd.cached) =
         Tq + (c.kv_lora + c.qk_rope) + c.q_lora + vd + vd + (fwd.cached + T)
           + (IF req.incremental THEN 0 ELSE Tkv + Tr)
  <2>1. fwd.cached + T - 1 + 1 = fwd.cached + T
    BY <1>1
  <2> QED
    BY <2>1 DEF mla_end, qd, kvd, vd
<1> HIDE DEF Tq, Mq, Tkv, Mkv, Tr, Mr
<1>e. /\ mla_end(T, fwd.cached) <= mla_scratch_cached(M, M, FALSE)
      /\ mla_end(T, fwd.cached) \in Nat
      /\ mla_scratch_cached(M, M, FALSE) \in Nat /\ mla_scratch_cached(M, M, TRUE) \in Nat
  <2> DEFINE k == (c.kv_lora + c.qk_rope) + c.q_lora + vd + vd
             small == IF req.incremental THEN 0 ELSE Tkv + Tr
             t == fwd.cached + T
  <2>1. k \in Nat /\ t \in Nat /\ t <= M
    BY <1>1, <1>t
  <2>2. small <= Mkv + Mr /\ small \in Nat /\ Mkv + Mr \in Nat
    <3>1. Tkv + Tr <= Mkv + Mr /\ Tkv + Tr \in Nat /\ Mkv + Mr \in Nat
      BY <1>5, <1>6, AddMono, Zenon
    <3> QED
      BY <3>1
  <2>3. Tq + t <= Mq + M /\ Tq + t \in Nat /\ Mq + M \in Nat
    BY <2>1, <1>1, <1>4, AddMono, Zenon
  <2>4. mla_end(T, fwd.cached) = (Tq + t) + small + k
    <3>1. Tq \in Nat /\ t \in Nat /\ small \in Nat
      BY <1>4, <2>1, <2>2
    <3> HIDE DEF t, small
    <3>2. mla_end(T, fwd.cached) =
            Tq + (c.kv_lora + c.qk_rope) + c.q_lora + vd + vd + t + small
      BY <1>c DEF t, small
    <3> QED
      BY <3>1, <3>2, <1>t
  <2>5. /\ mla_scratch_cached(M, M, FALSE) = (Mq + M) + (Mkv + Mr) + k
        /\ mla_scratch_cached(M, M, TRUE) = (Mq + M) + 0 + k
    <3> DEFINE kr == c.kv_lora + c.qk_rope
               q == c.q_lora
               b == Mkv + Mr
    <3>1. kr \in Nat /\ q \in Nat /\ b \in Nat
      BY <2>2
    <3>2. k = kr + q + vd + vd
      OBVIOUS
    <3>3. /\ mla_scratch_cached(M, M, FALSE) = Mq + kr + q + 2 * vd + M + b
          /\ mla_scratch_cached(M, M, TRUE) = Mq + kr + q + 2 * vd + M + 0
      BY <1>a, <1>b, Zenon
    <3> HIDE <1>d DEF k, kr, q, b
    <3>4. /\ Mq + kr + q + 2 * vd + M + b = (Mq + M) + b + (kr + q + vd + vd)
          /\ Mq + kr + q + 2 * vd + M + 0 = (Mq + M) + 0 + (kr + q + vd + vd)
      BY <3>1, <1>1, <1>t, <1>4
    <3> QED
      BY <3>2, <3>3, <3>4, Zenon DEF b
  <2> HIDE DEF k, small, t
  <2>6. /\ (Tq + t) + small <= (Mq + M) + (Mkv + Mr)
        /\ (Tq + t) + small \in Nat /\ (Mq + M) + (Mkv + Mr) \in Nat
    BY <2>2, <2>3, AddMono, Zenon
  <2>7. /\ (Tq + t) + small + k <= (Mq + M) + (Mkv + Mr) + k
        /\ (Tq + t) + small + k \in Nat /\ (Mq + M) + (Mkv + Mr) + k \in Nat
    <3> DEFINE lo == (Tq + t) + small
               hi == (Mq + M) + (Mkv + Mr)
    <3>1. lo <= hi /\ lo \in Nat /\ hi \in Nat
      BY <2>6
    <3> HIDE DEF lo, hi
    <3>2. lo + k <= hi + k /\ lo + k \in Nat /\ hi + k \in Nat
      BY <2>1, <3>1
    <3> QED
      BY <3>2, Zenon DEF lo, hi
  <2>8. (Mq + M) + 0 + k \in Nat
    BY <2>1, <2>3
  <2> QED
    BY <2>4, <2>5, <2>7, <2>8, Zenon
<1>7. /\ T * (6 * P) <= M * (6 * P) /\ 1 * (6 * P) <= M * (6 * P)
      /\ T * (6 * P) \in Nat /\ M * (6 * P) \in Nat
  <2>1. 6 * P \in Nat
    OBVIOUS
  <2> QED
    BY <2>1, <1>1, MulMono
<1>8. /\ T * c.kda_heads <= M * c.kda_heads
      /\ T * c.kda_heads \in Nat /\ M * c.kda_heads \in Nat
  BY <1>1, MulMono
<1>9. maxb \in Nat /\ maxb * c.hidden \in Nat
  <2>1. maxb \in Nat
    <3>1. c.n_layers \div c.attn_res_block \in Nat
      BY DivNat
    <3> QED
      BY <3>1 DEF maxb
  <2>2. maxb * c.hidden \in Nat
    BY <2>1, MulMono
  <2> QED
    BY <2>1, <2>2
<1>10. sub_at(T) <= sub_at(M) /\ sub_at(T) \in Nat /\ sub_at(M) \in Nat
  BY <1>3, <1>9 DEF sub_at
<1>13. moe_scratch \in Nat /\ kda_scratch(M) \in Nat
  <2>1. moe_scratch = 2 * c.latent + 3 * c.moe_inter + c.latent + 3 * SI + c.hidden
    BY DEF moe_scratch, SI
  <2>2. moe_scratch \in Nat
    BY <2>1, <1>t
  <2>3. kda_scratch(M) \in Nat
    BY <1>7, <1>8 DEF kda_scratch
  <2> QED
    BY <2>2, <2>3
<1>14. layer_scratch(M) = sub_at(M)
         + Larger(Larger(mla_scratch_cached(M, M, FALSE), kda_scratch(M)), moe_scratch)
  <2>1. layer_scratch(M) = M * (3 * c.hidden) + 2 * c.hidden + maxb * c.hidden + 2 * c.dense_inter
         + Larger(Larger(mla_scratch_cached(M, M, FALSE), kda_scratch(M)), moe_scratch)
    BY DEF layer_scratch
  <2>2. sub_at(M) = M * (3 * c.hidden) + 2 * c.hidden + maxb * c.hidden + 2 * c.dense_inter
    BY <1>3, <1>9 DEF sub_at
  <2> QED
    BY <2>1, <2>2
<1>15. /\ sub_at(M) + mla_scratch_cached(M, M, FALSE) <= sc_need
       /\ sub_at(M) + kda_scratch(M) <= sc_need
       /\ sub_at(M) + moe_scratch <= sc_need
       /\ sub_at(M) <= sc_need
       /\ sc_need \in Nat
  BY <1>e, <1>10, <1>13, <1>14, LargestHolds, Zenon DEF sc_need, M
<1>16. sub_at(T) + mla_end(T, fwd.cached) <= sc_need
  <2>1. sub_at(M) + mla_scratch_cached(M, M, FALSE) <= sc_need /\ sc_need \in Nat
    BY <1>15, Zenon
  <2> QED
    BY <2>1, <1>e, <1>10, InsideHolds, Zenon
<1>17. sub_at(T) + kda_end(T) <= sc_need
  <2>1. T * P \in Nat /\ T * (6 * P) = 6 * (T * P)
    BY <1>1
  <2>a. kda_end(T) = 6 * (T * P) + T * c.kda_heads + 2 * P + c.kda_head_dim
    BY <2>1, <1>8 DEF kda_end
  <2>b. kda_scratch(M) = M * (6 * P) + M * c.kda_heads + 2 * P + c.kda_head_dim
    BY DEF kda_scratch
  <2>2. kda_end(T) <= kda_scratch(M) /\ kda_end(T) \in Nat
    BY <2>1, <2>a, <2>b, <1>7, <1>8
  <2> QED
    BY <2>2, <1>10, <1>13, <1>15, InsideHolds
<1>18. /\ sub_at(T) + moe_end <= sc_need
       /\ sub_at(T) + moe_chunk_end <= sc_need
  <2>1. moe_scratch = 2 * c.latent + 3 * c.moe_inter + c.latent + 3 * SI + c.hidden
    BY DEF moe_scratch, SI
  <2>2. moe_end = c.latent + c.latent + 2 * c.moe_inter + c.moe_inter + c.latent + 2 * SI + SI
                    + c.hidden
    BY DEF moe_end, SI
  <2>3. moe_chunk_end = Larger(2 * c.moe_inter + c.moe_inter + c.latent, 2 * SI + SI + c.hidden)
    BY DEF moe_chunk_end, SI
  <2>4. moe_end <= moe_scratch /\ moe_chunk_end <= moe_scratch
        /\ moe_end \in Nat /\ moe_chunk_end \in Nat
    BY <2>1, <2>2, <2>3, <1>t DEF Larger
  <2> QED
    BY <2>4, <1>10, <1>13, <1>15, InsideHolds
<1>19. sub_at(T) + c.dense_inter <= sc_need
  <2>1. c.dense_inter <= kda_scratch(M)
    BY <1>7, <1>8 DEF kda_scratch
  <2> QED
    BY <2>1, <1>10, <1>13, <1>15, InsideHolds
<1>20. ASSUME NEW layer \in 0..(c.n_layers - 1) PROVE src_rows(layer) <= maxb
  <2>1. layer \in Nat /\ layer <= c.n_layers
    OBVIOUS
  <2>2. /\ layer \div c.attn_res_block <= c.n_layers \div c.attn_res_block
        /\ layer \div c.attn_res_block \in Nat /\ c.n_layers \div c.attn_res_block \in Nat
    BY <2>1, DivMono, Zenon
  <2> QED
    BY <2>2 DEF src_rows, maxb
<1>21. (1 + src_rows(c.n_layers - 1)) * c.hidden <= sc_need
  <2>1. c.n_layers - 1 \in 0..(c.n_layers - 1)
    OBVIOUS
  <2>2. src_rows(c.n_layers - 1) <= maxb
    BY <2>1, <1>20
  <2>3. src_rows(c.n_layers - 1) \in Nat
    <3>1. c.n_layers - 1 \in Nat
      OBVIOUS
    <3>2. (c.n_layers - 1) \div c.attn_res_block \in Nat
      BY <3>1, DivNat
    <3> QED
      BY <3>2 DEF src_rows
  <2>4. (1 + src_rows(c.n_layers - 1)) * c.hidden <= (1 + maxb) * c.hidden
    BY <2>2, <2>3, <1>9, MulMono
  <2>5. (1 + maxb) * c.hidden = c.hidden + maxb * c.hidden
    BY <1>9, OneMore, Zenon
  <2>6. c.hidden + maxb * c.hidden <= sub_at(M)
    BY <1>3, <1>9 DEF sub_at
  <2>7. (1 + src_rows(c.n_layers - 1)) * c.hidden \in Nat
    BY <2>3, MulMono
  <2> QED
    BY <2>4, <2>5, <2>6, <2>7, <1>9, <1>10, <1>15
<1> QED
  BY <1>16, <1>17, <1>18, <1>19, <1>20, <1>21 DEF ScratchFits, T

(* Whatever the model, the request and the sequence of passes, no kernel   *)
(* of a pass writes past the scratch buffer k3_run.c sized at the start.   *)
THEOREM ScratchAlwaysFits == MemorySpec => []ScratchFits
<1>1. MemoryInit => ForwardInv
  BY DEF MemoryInit, ForwardInv, NoForward
<1>2. ForwardInv /\ [MemoryNext]_memoryVars => ForwardInv'
  <2> SUFFICES ASSUME ForwardInv, [MemoryNext]_memoryVars PROVE ForwardInv'
    OBVIOUS
  <2>1. ASSUME NEW T \in Lengths, NEW cached \in Lengths, Forward(T, cached) PROVE ForwardInv'
    <3>1. T \in Nat /\ cached \in Nat
      BY MemoryAssumption
    <3>2. fwd'.T = T /\ fwd'.cached = cached /\ c' = c /\ req' = req /\ Tmax' = Tmax
      BY <2>1 DEF Forward, Tmax
    <3> QED
      BY <2>1, <3>1, <3>2 DEF Forward, ForwardInv
  <2>2. ASSUME UNCHANGED <<c, req, fwd>> PROVE ForwardInv'
    BY <2>2 DEF ForwardInv, Tmax
  <2>3. \/ \E T \in Lengths, cached \in Lengths : Forward(T, cached)
        \/ UNCHANGED <<c, req, fwd>>
    BY DEF MemoryNext, Preset, AutoBudget, AutoRefuses, Limits, LimitsRefuse, KvCheck, KvRefuse,
           Plan, PlanRefuse, Load, LoadRefuse, Refused, memoryVars
  <2> QED
    BY <2>1, <2>2, <2>3
<1> QED
  BY <1>1, <1>2, CallFits, PTL DEF MemorySpec


-----------------------------------------------------------------------------
(*                            The memory plan                              *)
-----------------------------------------------------------------------------
(* What k3_run.c has established when it makes a decision. *)
PlanInv ==
  /\ c \in Cfgs /\ req \in Requests /\ mem \in Machines
  /\ trunk_gb \in Nat /\ cache_gb \in Nat
  /\ decision \in {"args", "refused", "limits", "kv", "plan", "load", "run"}
  /\ decision \in {"limits", "kv", "plan", "load", "run"} => cache_gb >= cache_min
  /\ decision \in {"kv", "plan", "load", "run"} => LimitsOk
  /\ decision \in {"load", "run"} => PlanFits
  /\ decision = "run" => used = Reserved

(* A size in kB is positive. *)
LEMMA KBNat ==
  ASSUME NEW n \in Nat
  PROVE  KB(n) \in Nat
<1>1. n \div 250 \in Nat
  OBVIOUS
<1> QED BY <1>1 DEF KB

(* The scratch of one layer is no smaller than that of the cached          *)
(* attention, which k3_run.c takes the larger of.                          *)
LEMMA ScratchOfLayer ==
  ASSUME c \in Cfgs, req \in Requests
  PROVE  sc_need = layer_scratch(Tmax) /\ layer_scratch(Tmax) \in Nat /\ Tmax \in Nat
<1> DEFINE M == Tmax
           qd == c.n_heads * (c.qk_nope + c.qk_rope)
           kvd == c.n_heads * (c.qk_nope + c.v_head)
           Mq == M * qd
           Mkv == M * kvd
           Mr == M * c.qk_rope
           vd == c.n_heads * c.v_head
           mla == mla_scratch_cached(M, M, FALSE)
           cached == mla_scratch_cached(M, M, TRUE)
           rows == M * (3 * c.hidden) + 2 * c.hidden + maxb * c.hidden + 2 * c.dense_inter
<1>1. req.prior \in Nat /\ req.np \in Nat /\ req.gen \in Nat
  BY MemoryAssumption
<1>2. M \in Nat
  BY <1>1 DEF Tmax
<1>3. /\ c.hidden \in Nat /\ c.n_layers \in Nat /\ c.attn_res_block \in Nat \ {0}
      /\ c.kda_heads \in Nat /\ c.kda_head_dim \in Nat /\ c.q_lora \in Nat
      /\ c.kv_lora \in Nat /\ c.qk_rope \in Nat /\ c.latent \in Nat /\ c.moe_inter \in Nat
      /\ c.dense_inter \in Nat /\ P \in Nat /\ qd \in Nat /\ kvd \in Nat /\ vd \in Nat
      /\ c.moe_inter * c.n_shared \in Nat
  BY Dimensions
<1> HIDE DEF M, qd, kvd, vd
<1>4. ASSUME NEW x \in Nat, NEW z \in Nat PROVE x * z \in Nat
  OBVIOUS
<1>5. Mq \in Nat /\ Mkv \in Nat /\ Mr \in Nat
  BY Zenon, <1>2, <1>3, <1>4
<1>6. /\ mla = Mq + (c.kv_lora + c.qk_rope) + c.q_lora + 2 * vd + M + (Mkv + Mr)
      /\ cached = Mq + (c.kv_lora + c.qk_rope) + c.q_lora + 2 * vd + M + 0
  BY <1>2, <1>3 DEF mla_scratch_cached, Larger, qd, kvd, vd
<1> HIDE DEF Mq, Mkv, Mr, mla, cached
<1>7. mla \in Nat /\ cached \in Nat /\ cached <= mla
  BY ONLY <1>2, <1>3, <1>5, <1>6
<1>8. rows \in Nat
  <2>1. 3 * c.hidden \in Nat
    BY <1>3
  <2>2. M * (3 * c.hidden) \in Nat
    BY Zenon, <1>2, <1>4, <2>1
  <2>3. maxb \in Nat
    <3>1. c.n_layers \div c.attn_res_block \in Nat
      BY <1>3, DivNat
    <3> QED BY <3>1 DEF maxb
  <2>4. maxb * c.hidden \in Nat
    BY Zenon, <1>3, <1>4, <2>3
  <2> QED BY <1>3, <2>2, <2>4
<1>9. kda_scratch(M) \in Nat
  <2>1. 6 * P \in Nat
    BY <1>3
  <2>2. M * (6 * P) \in Nat /\ M * c.kda_heads \in Nat
    BY Zenon, <1>2, <1>3, <1>4, <2>1
  <2> QED BY <1>3, <2>2 DEF kda_scratch
<1>10. moe_scratch \in Nat
  BY <1>3 DEF moe_scratch
<1>11. layer_scratch(M) = rows + Larger(Larger(mla, kda_scratch(M)), moe_scratch)
  BY Zenon DEF layer_scratch, mla
<1>12. sc_need = Larger(layer_scratch(M), cached)
  BY Zenon DEF sc_need, cached, M
<1> HIDE DEF rows
<1>13. layer_scratch(M) \in Nat /\ cached <= layer_scratch(M)
  BY <1>7, <1>8, <1>9, <1>10, <1>11 DEF Larger
<1>14. sc_need = layer_scratch(M)
  BY <1>7, <1>12, <1>13 DEF Larger
<1> QED BY Zenon, <1>2, <1>13, <1>14 DEF M

(* What k3_run.c allocates beyond its plan, for a plain request. *)
LEMMA BeyondPlan ==
  ASSUME PlanInv, req.prior = 0, ~req.spec, req.draft = 0
  PROVE  /\ Planned \in Nat /\ cache_gb <= Planned
         /\ Reserved = Planned + 2098 + KB(Tmax + 7 + req.gen + 8)
<1> DEFINE Tm == req.np + req.gen + 1
           x == KB(Tm * c.hidden)
           z == KB(Tm * maxb * c.hidden)
           s == KB(layer_scratch(Tm))
           v == KB(c.vocab)
           k == w_kv(Tm)
           n == KB(Tmax + 7 + req.gen + 8)
<1>1. c \in Cfgs /\ req \in Requests /\ cache_gb \in Nat /\ trunk_gb \in Nat
  BY Zenon DEF PlanInv
<1>2. req.np \in Nat /\ req.gen \in Nat /\ req.incremental \in BOOLEAN
  BY <1>1, MemoryAssumption
<1>3. Tm = Tmax /\ Tm \in Nat
  BY <1>2 DEF Tmax
<1>4. sc_need = layer_scratch(Tm) /\ layer_scratch(Tm) \in Nat
  BY Zenon, <1>1, <1>3, ScratchOfLayer
<1>5. /\ c.hidden \in Nat /\ c.n_layers \in Nat /\ c.attn_res_block \in Nat \ {0}
      /\ c.kda_head_dim \in Nat /\ P \in Nat
      /\ c.n_heads * (c.qk_nope + c.v_head) \in Nat /\ c.qk_rope \in Nat
  BY <1>1, Dimensions
<1>6. c.vocab \in Nat /\ c.conv_k \in Nat /\ c.conv_k > 0 /\ c.n_mla \in Nat /\ c.resident \in Nat
  BY <1>1, MemoryAssumption, PlanAssumption
<1> HIDE DEF Tm
<1>7. ASSUME NEW a \in Nat, NEW b \in Nat PROVE a * b \in Nat /\ a + b \in Nat
  OBVIOUS
<1>8. maxb \in Nat
  <2>1. c.n_layers \div c.attn_res_block \in Nat
    BY <1>5, DivNat
  <2> QED BY <2>1 DEF maxb
<1>9. x \in Nat /\ z \in Nat /\ s \in Nat /\ v \in Nat
  <2>1. Tm * c.hidden \in Nat /\ Tm * maxb \in Nat
    BY Zenon, <1>3, <1>5, <1>7, <1>8
  <2>2. Tm * maxb * c.hidden \in Nat
    BY Zenon, <1>5, <1>7, <2>1
  <2> QED BY Zenon, <1>4, <1>6, <2>1, <2>2, KBNat
<1>10. k \in Nat /\ k = IF req.incremental THEN kv(Tmax) ELSE 0
  <2>1. k = IF req.incremental THEN kv(Tm) ELSE 0
    BY Zenon DEF w_kv
  <2>2. c.n_heads * (c.qk_nope + c.v_head) + c.qk_rope \in Nat
    BY Zenon, <1>5, <1>7
  <2>3. c.n_mla * (c.n_heads * (c.qk_nope + c.v_head) + c.qk_rope) \in Nat
    BY Zenon, <1>6, <1>7, <2>2
  <2>4. kv(Tm) \in Nat
    BY Zenon, <1>3, <1>7, <2>3, KBNat DEF kv
  <2>5. 0 \in Nat
    OBVIOUS
  <2> QED BY Zenon, <1>3, <2>1, <2>4, <2>5
<1>11. w_state \in Nat
  <2>1. c.conv_k - 1 \in Nat /\ 3 * P \in Nat
    BY <1>5, <1>6
  <2>2. P * c.kda_head_dim \in Nat /\ 3 * P * (c.conv_k - 1) \in Nat
    BY Zenon, <1>5, <1>7, <2>1
  <2>3. P * c.kda_head_dim + 3 * P * (c.conv_k - 1) \in Nat
    BY Zenon, <1>7, <2>2
  <2>4. kda_floats \in Nat
    BY Zenon, <1>5, <1>7, <2>3 DEF kda_floats
  <2> QED BY Zenon, <2>4, KBNat DEF w_state
<1>12. w_model \in Nat
  <2>1. c.vocab * c.hidden \in Nat /\ 3 * c.hidden \in Nat
    <3>1. 3 \in Nat
      OBVIOUS
    <3> QED BY Zenon, <1>5, <1>6, <1>7, <3>1
  <2> QED BY Zenon, <1>7, <2>1, KBNat DEF w_model
<1>13. w_trunk \in Nat
  BY <1>1, <1>6 DEF w_trunk
<1>14. Planned = w_trunk + w_model + cache_gb + w_state + (x + z + s + v) + k
  BY Zenon DEF Planned, w_buf, Tm
<1>15. Reserved = w_trunk + w_model + cache_gb + 2098 + w_state + x + z + s + v + n + k + 0 + 0
  <2>1. ~(req.draft > 0)
    OBVIOUS
  <2>2. /\ (IF req.incremental /\ (req.spec \/ req.draft > 0) THEN w_state ELSE 0) = 0
        /\ (IF req.incremental /\ req.streamed /\ req.draft > 0
            THEN req.draft + 2 * w_state + kv(Tmax) ELSE 0) = 0
    BY Zenon, <2>1
  <2> DEFINE e == IF req.incremental /\ (req.spec \/ req.draft > 0) THEN w_state ELSE 0
             d == IF req.incremental /\ req.streamed /\ req.draft > 0
                  THEN req.draft + 2 * w_state + kv(Tmax) ELSE 0
             q == IF req.incremental THEN kv(Tmax) ELSE 0
             x2 == KB(Tmax * c.hidden)
             z2 == KB(Tmax * maxb * c.hidden)
             s2 == KB(sc_need)
  <2>3. Reserved = w_trunk + w_model + cache_gb + 2098 + w_state + x2 + z2 + s2 + v + n + q + e + d
    BY Zenon DEF Reserved
  <2>4. x2 = x /\ z2 = z /\ s2 = s /\ q = k /\ e = 0 /\ d = 0
    BY Zenon, <1>3, <1>4, <1>10, <2>2
  <2> HIDE DEF e, d, q, x2, z2, s2
  <2> QED BY ONLY <2>3, <2>4
<1>16. n \in Nat
  <2>1. Tmax + 7 + req.gen + 8 \in Nat
    BY <1>2, <1>3
  <2> QED BY Zenon, <2>1, KBNat
<1> HIDE DEF x, z, s, v, k, n
<1>17. Planned \in Nat /\ cache_gb <= Planned /\ Reserved = Planned + 2098 + n
  BY ONLY <1>1, <1>9, <1>10, <1>11, <1>12, <1>13, <1>14, <1>15, <1>16
<1> QED BY Zenon, <1>17 DEF n

(* The twentieth that the plan leaves free holds what it does not count. *)
LEMMA PlanLeavesRoom == PlanInv => PlanCovers
<1> SUFFICES ASSUME PlanInv, decision = "run", mem.avail > 0, req.prior = 0, ~req.spec, req.draft = 0
             PROVE  used <= mem.avail
  BY Zenon DEF PlanCovers
<1> DEFINE a == mem.avail \div 100
           m == Tmax + 7 + req.gen + 8
<1>1. mem.avail \in Nat
  BY PlanAssumption DEF PlanInv
<1>2. a \in Nat /\ 100 * a <= mem.avail
  BY <1>1
<1>3. Planned \in Nat /\ cache_gb <= Planned /\ Reserved = Planned + 2098 + KB(m)
  BY Zenon, BeyondPlan
<1>4. Planned <= a * 95 /\ used = Reserved /\ cache_gb >= 500000
  BY DEF PlanInv, PlanFits, cache_min
<1>5. cache_gb \in Nat
  BY Zenon DEF PlanInv
<1>6. m \in Nat /\ m <= 6000016
  <2>1. req.np \in Nat /\ req.gen \in Nat
    BY MemoryAssumption DEF PlanInv
  <2>2. req.np <= MaxPrompt /\ req.gen <= MaxGen
    BY DEF PlanInv, LimitsOk
  <2> QED BY <2>1, <2>2, LimitsAssumption DEF Tmax
<1>7. KB(m) \in Nat /\ KB(m) <= 24001
  <2> HIDE DEF m
  <2> QED BY <1>6 DEF KB
<1> HIDE DEF a, m
<1> QED BY ONLY <1>1, <1>2, <1>3, <1>4, <1>5, <1>7


(* The budgets a run starts with. *)
LEMMA Budgets ==
  ASSUME PlanInv, (\E p \in Presets : Preset(p)) \/ AutoBudget
  PROVE  trunk_gb' \in Nat /\ cache_gb' \in Nat /\ cache_gb' >= cache_min
<1>1. ASSUME NEW p \in Presets, Preset(p) PROVE trunk_gb' \in Nat /\ cache_gb' \in Nat /\ cache_gb' >= cache_min
  <2>1. trunk_gb' = p[1] /\ cache_gb' = p[2]
    BY Zenon, <1>1 DEF Preset
  <2>2. p[1] \in Nat /\ p[2] \in Nat /\ p[2] >= cache_min
    BY DEF Presets, GB, cache_min
  <2> QED BY Zenon, <2>1, <2>2
<1>2. CASE AutoBudget
  <2>1. mem.avail \in Nat /\ mem.total \in Nat
    BY PlanAssumption DEF PlanInv
  <2>2. mem.avail \div 50 \in Nat /\ (mem.total \div 100) * 55 \in Nat
    BY <2>1
  <2>3. reserve \in Nat /\ usable \in Int
    BY <2>1, <2>2 DEF reserve, usable, GB
  <2>4. rss_ceiling \in Int
    BY <2>2, <2>3 DEF rss_ceiling
  <2>5. usable >= 3000000
    BY <1>2 DEF AutoBudget, slot_min, cache_min
  <2>6. CASE usable - cache_min >= trunk_full
    <3>1. trunk_gb' = trunk_full /\ cache_gb' = usable - trunk_full
      BY Zenon, <1>2, <2>6 DEF AutoBudget
    <3> QED BY <2>3, <2>6, <3>1 DEF trunk_full, cache_min, GB
  <2>7. CASE ~(usable - cache_min >= trunk_full)
    <3>1. /\ trunk_gb' = Smaller(usable - cache_min, Larger(rss_ceiling - reserve - cache_min, slot_min))
          /\ cache_gb' = cache_min
      BY Zenon, <1>2, <2>7 DEF AutoBudget
    <3>2. rss_ceiling - reserve - cache_min \in Int
      BY <2>3, <2>4 DEF cache_min
    <3> QED BY <2>3, <2>5, <3>1, <3>2 DEF Smaller, Larger, slot_min, cache_min
  <2> QED BY Zenon, <2>6, <2>7
<1> QED BY Zenon, <1>1, <1>2

LEMMA PlanNext ==
  ASSUME PlanInv, [MemoryNext]_memoryVars
  PROVE  PlanInv'
<1> DEFINE Same == c' = c /\ req' = req /\ mem' = mem
           Budget == trunk_gb' = trunk_gb /\ cache_gb' = cache_gb
           All == {"args", "refused", "limits", "kv", "plan", "load", "run"}
<1>1. ASSUME Same
      PROVE  /\ c' \in Cfgs /\ req' \in Requests /\ mem' \in Machines
             /\ LimitsOk' = LimitsOk
  BY <1>1 DEF LimitsOk, PlanInv
<1>2. ASSUME Same, Budget
      PROVE  /\ trunk_gb' \in Nat /\ cache_gb' \in Nat /\ (cache_gb >= cache_min => cache_gb' >= cache_min')
             /\ PlanFits' = PlanFits /\ Reserved' = Reserved
  <2>1. c' = c /\ req' = req /\ mem' = mem /\ trunk_gb' = trunk_gb /\ cache_gb' = cache_gb
    BY SMT, <1>2
  <2>2. trunk_gb' \in Nat /\ cache_gb' \in Nat /\ (cache_gb >= cache_min => cache_gb' >= cache_min')
    <3>1. trunk_gb \in Nat /\ cache_gb \in Nat
      BY DEF PlanInv
    <3> QED BY ONLY <2>1, <3>1 DEF cache_min
  <2>3. Tmax' = Tmax /\ P' = P /\ maxb' = maxb /\ w_trunk' = w_trunk /\ w_model' = w_model /\ kda_floats' = kda_floats
    BY Zenon, <2>1 DEF Tmax, P, maxb, w_trunk, w_model, kda_floats
  <2>4. w_state' = w_state /\ moe_scratch' = moe_scratch
    BY Zenon, <2>1, <2>3 DEF w_state, moe_scratch
  <2>5. ASSUME NEW T PROVE layer_scratch(T)' = layer_scratch(T) /\ kv(T)' = kv(T)
    BY Zenon, <2>1, <2>3, <2>4 DEF layer_scratch, kv, mla_scratch_cached, kda_scratch
  <2>6. w_buf(req.np + req.gen + 1)' = w_buf(req.np + req.gen + 1)
        /\ w_kv(req.np + req.gen + 1)' = w_kv(req.np + req.gen + 1)
    BY Zenon, <2>1, <2>3, <2>5 DEF w_buf, w_kv
  <2>7. Planned' = Planned
    BY Zenon, <2>1, <2>3, <2>4, <2>6 DEF Planned
  <2>8. sc_need' = sc_need
    BY Zenon, <2>1, <2>3, <2>5 DEF sc_need, mla_scratch_cached
  <2>9. Reserved' = Reserved
    <3>1. kv(Tmax)' = kv(Tmax)
      BY ONLY <2>1, <2>3, Zenon DEF kv
    <3> QED BY ONLY <2>1, <2>3, <2>4, <2>8, <3>1, SMT DEF Reserved
  <2> QED BY Zenon, <2>1, <2>2, <2>7, <2>9 DEF PlanFits
<1>3. CASE (\E p \in Presets : Preset(p)) \/ AutoBudget
  <2>1. Same /\ decision' = "limits"
    BY Zenon, <1>3 DEF Preset, AutoBudget
  <2>2. trunk_gb' \in Nat /\ cache_gb' \in Nat /\ cache_gb' >= cache_min'
    <3>1. cache_min' = cache_min
      BY DEF cache_min
    <3> QED BY Zenon, <1>3, <3>1, Budgets
  <2>3. decision' \in All /\ decision' \notin {"kv", "plan", "load", "run"} /\ decision' # "run"
    BY <2>1
  <2> QED BY Zenon, <1>1, <2>1, <2>2, <2>3 DEF PlanInv
<1>4. CASE AutoRefuses \/ LimitsRefuse \/ KvRefuse \/ PlanRefuse \/ LoadRefuse
  <2>1. Same /\ Budget /\ decision' = "refused"
    BY Zenon, <1>4 DEF AutoRefuses, LimitsRefuse, KvRefuse, PlanRefuse, LoadRefuse, Refused
  <2>2. decision' \in All /\ decision' \notin {"limits", "kv", "plan", "load", "run"}
        /\ decision' \notin {"kv", "plan", "load", "run"} /\ decision' # "run"
    BY <2>1
  <2> QED BY Zenon, <1>1, <1>2, <2>1, <2>2 DEF PlanInv
<1>5. CASE Limits
  <2>1. Same /\ Budget /\ decision = "limits" /\ LimitsOk /\ decision' = "kv"
    BY Zenon, <1>5 DEF Limits
  <2>2. decision' \in All /\ decision' \notin {"load", "run"} /\ decision' # "run"
        /\ decision \in {"limits", "kv", "plan", "load", "run"}
    BY <2>1
  <2> QED BY Zenon, <1>1, <1>2, <2>1, <2>2 DEF PlanInv
<1>6. CASE KvCheck
  <2>1. Same /\ Budget /\ decision = "kv" /\ decision' = "plan"
    BY Zenon, <1>6 DEF KvCheck
  <2>2. decision' \in All /\ decision' \notin {"load", "run"} /\ decision' # "run"
        /\ decision \in {"limits", "kv", "plan", "load", "run"} /\ decision \in {"kv", "plan", "load", "run"}
    BY <2>1
  <2> QED BY Zenon, <1>1, <1>2, <2>1, <2>2 DEF PlanInv
<1>7. CASE Plan
  <2>1. Same /\ Budget /\ decision = "plan" /\ PlanFits /\ decision' = "load"
    BY Zenon, <1>7 DEF Plan
  <2>2. decision' \in All /\ decision' # "run"
        /\ decision \in {"limits", "kv", "plan", "load", "run"} /\ decision \in {"kv", "plan", "load", "run"}
    BY <2>1
  <2> QED BY Zenon, <1>1, <1>2, <2>1, <2>2 DEF PlanInv
<1>8. CASE Load
  <2>1. Same /\ Budget /\ decision = "load" /\ decision' = "run" /\ used' = Reserved
    BY Zenon, <1>8 DEF Load
  <2>2. decision' \in All
        /\ decision \in {"limits", "kv", "plan", "load", "run"} /\ decision \in {"kv", "plan", "load", "run"}
        /\ decision \in {"load", "run"}
    BY <2>1
  <2> QED BY Zenon, <1>1, <1>2, <2>1, <2>2 DEF PlanInv
<1>9. CASE (\E T, cached \in Lengths : Forward(T, cached)) \/ UNCHANGED memoryVars
  <2>1. Same /\ Budget /\ decision' = decision /\ used' = used
    BY Zenon, <1>9 DEF Forward, memoryVars
  <2> QED BY Zenon, <1>1, <1>2, <2>1 DEF PlanInv
<1> QED BY Zenon, <1>3, <1>4, <1>5, <1>6, <1>7, <1>8, <1>9 DEF MemoryNext

(* PlanCovers, for every model, request and machine: what a plain request  *)
(* is given never exceeds what the machine has, although the plan leaves   *)
(* out the cache's rounding and the token buffers.                         *)
THEOREM PlanAlwaysCovers == MemorySpec => []PlanCovers
<1>1. MemoryInit => PlanInv
  <2> SUFFICES ASSUME MemoryInit PROVE PlanInv
    OBVIOUS
  <2>1. c \in Cfgs /\ req \in Requests /\ mem \in Machines /\ decision = "args"
        /\ trunk_gb = 0 /\ cache_gb = 0
    BY Zenon DEF MemoryInit
  <2>2. decision \in {"args", "refused", "limits", "kv", "plan", "load", "run"}
        /\ decision \notin {"limits", "kv", "plan", "load", "run"}
        /\ decision \notin {"kv", "plan", "load", "run"} /\ decision \notin {"load", "run"}
        /\ decision # "run" /\ 0 \in Nat
    BY <2>1
  <2> QED BY Zenon, <2>1, <2>2 DEF PlanInv
<1>2. PlanInv /\ [MemoryNext]_memoryVars => PlanInv'
  BY Zenon, PlanNext
<1> QED BY <1>1, <1>2, PlanLeavesRoom, PTL DEF MemorySpec
=============================================================================
