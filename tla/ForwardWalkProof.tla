------------------------- MODULE ForwardWalkProof ---------------------------
(***************************************************************************)
(* Type correctness of module ForwardWalk, its inductive invariant         *)
(* RingInv, and what follows from it, for every number of layers, every    *)
(* pinned prefix, either ring size and any set of refused layers: when a   *)
(* pass walks the whole trunk (NBound = NLayers) and a failed pass is not  *)
(* repeated (~Retry), the layer under computation is never overwritten,    *)
(* and the ring implements the synchronous layer feed.                     *)
(***************************************************************************)
EXTENDS ForwardWalk, TLAPS

(* The trunk has a request in the reader's hands, or a finished one that   *)
(* bind has not consumed yet.                                              *)
Pending == busy = 1 \/ done = 1

(* The main thread is reading a streamed layer into a ring slot. *)
Filling == pc = "read" /\ L >= NPin

(* bind(L) has returned 0. *)
HasLayer ==
  \/ phase \in {"hint", "compute"}
  \/ phase = "binding" /\ pc = "out" /\ rc = 0

(* The pass has not failed and the trunk is not being closed. *)
Walking ==
  /\ phase \notin {"failed", "closed"}
  /\ ~(phase = "binding" /\ pc = "out" /\ rc # 0)

(* How many layers the current pass has bound. *)
Bound == IF HasLayer THEN L + 1 ELSE L

(* Where the two threads are. *)
ControlInv ==
  /\ phase \in {"idle", "bind", "hint", "compute", "failed"} => pc = "out"
  /\ phase = "binding" => pc \in {"out", "wait", "read"} /\ arg = L
  /\ phase = "closed" => pc \in {"join", "freed"}
  /\ phase = "idle" => L = 0
  /\ stop = 1 <=> phase = "closed" /\ HasReader
  /\ rpc = "none" <=> ~HasReader
  /\ rpc = "exit" => stop = 1
  /\ pc = "freed" /\ HasReader => rpc = "exit"

(* A request is always for the layer bound next; its slot has no name and  *)
(* is neither the next one to reuse nor the one under computation.         *)
RequestInv ==
  /\ ~(busy = 1 /\ done = 1)
  /\ rpc = "read" =>
       /\ busy = 1
       /\ rLayer = ioLayer
       /\ rSlot = ioSlot
       /\ \A k \in 1..rgot : mem[rSlot][k] = rLayer
  /\ done = 1 /\ result = 0 => Content(ioSlot, ioLayer)
  /\ Pending =>
       /\ HasReader
       /\ \/ phase = "compute" /\ ioLayer = L + 1 /\ base # ioSlot
          \/ phase = "bind" /\ ioLayer = L
          \/ phase = "binding" /\ pc = "wait" /\ ioLayer = L
       /\ ioLayer >= NPin
       /\ layer_of[ioSlot] = None
       /\ ring # ioSlot

(* A named slot holds the streamed layer it names. *)
NamedInv ==
  \A s \in Slots : layer_of[s] # None =>
     layer_of[s] >= NPin /\ Content(s, layer_of[s])

(* A pinned layer marked as loaded is in its buffer. *)
PinInv ==
  \A l \in Layers : l < NPin /\ slot_of[l] >= 0 => Content(PinBuf(l), l)

(* The buffer the main thread is reading into has no name, is not the next *)
(* one to reuse, and holds what has been read so far.                      *)
FillInv ==
  pc = "read" =>
     /\ \A k \in 1..got : mem[base][k] = L
     /\ L < NPin => base = PinBuf(L)
     /\ L >= NPin => /\ base \in Slots
                     /\ layer_of[base] = None
                     /\ HasReader => ring # base

(* The buffer handed to the forward pass holds the layer. *)
HeldInv ==
  HasLayer =>
     /\ Content(base, L)
     /\ L < NPin => base = PinBuf(L)
     /\ L >= NPin => base \in Slots /\ layer_of[base] = L

(* The next slot to reuse is not the one under computation, unless the     *)
(* prefetch that would reuse it is going to do nothing.                    *)
SpareInv ==
  (HasLayer /\ phase # "compute" /\ HasReader /\ L >= NPin) =>
     \/ ring # base
     \/ L + 1 = NLayers
     \/ \E s \in Slots : layer_of[s] = L + 1

(* With three or more streamed layers the ring never hits: it holds the    *)
(* last two layers bound, and, early in a pass, the last ones of the       *)
(* previous pass in the order in which they are going to be evicted.       *)
ManyStreamed ==
  \A s \in Slots : layer_of[s] # None =>
     \/ layer_of[s] = Bound - 1
     \/ layer_of[s] = Bound - 2 /\ ring = s /\ ~Pending /\ ~Filling
     \/ layer_of[s] = NLayers - 1 /\ Bound <= NPin
     \/ /\ layer_of[s] = NLayers - 1 /\ Bound = NPin + 1
        /\ ring = s /\ ~Pending /\ ~Filling
     \/ /\ layer_of[s] = NLayers - 2 /\ Bound <= NPin
        /\ ring = s /\ ~Pending /\ ~Filling

Taken(s) ==
  \/ layer_of[s] # None
  \/ Pending /\ ioSlot = s
  \/ Filling /\ base = s

(* With one or two streamed layers each has a slot of its own, for good. *)
FewStreamed ==
  /\ \A s \in Slots : layer_of[s] # None => layer_of[s] = NPin + s
  /\ Pending => ioLayer = NPin + ioSlot
  /\ Filling => L = NPin + base
  /\ Taken(1) => Taken(0)
  /\ ~Taken(0) => ring = 0
  /\ Taken(0) /\ ~Taken(1) => ring = 1
  /\ Bound > NPin => layer_of[0] # None

ResidentInv ==
  (Walking /\ HasReader) =>
     IF NLayers - NPin >= 3 THEN ManyStreamed ELSE FewStreamed

(* The inductive invariant. *)
RingInv ==
  /\ TypeOK
  /\ ControlInv
  /\ RequestInv
  /\ NamedInv
  /\ PinInv
  /\ FillInv
  /\ HeldInv
  /\ SpareInv
  /\ ResidentInv
  /\ SlotOfAgrees

-----------------------------------------------------------------------------
(* What the constants are. *)
LEMMA ConstantFacts ==
  /\ NLayers \in Nat /\ NLayers > 0
  /\ NPin \in Nat /\ NPin <= NLayers
  /\ NSlot = 1 \/ NSlot = 2
  /\ NChunk \in Nat /\ NChunk > 0
  /\ NBound \in Nat /\ NBound > 0 /\ NBound <= NLayers
  /\ Slots \subseteq Buffers
BY RingAssumption, WalkAssumption DEF Slots, Buffers

(* The slot after a ring slot is a ring slot, and the other one of two. *)
LEMMA NextSlot ==
  ASSUME NEW s \in Slots
  PROVE  /\ (s + 1) % NSlot \in Slots
         /\ HasReader => (s + 1) % NSlot = 1 - s
<1>1. CASE NSlot = 1
  BY <1>1 DEF Slots, HasReader
<1>2. CASE NSlot = 2
  <2>1. s = 0 \/ s = 1
    BY <1>2 DEF Slots
  <2>2. 1 % 2 = 1 /\ 2 % 2 = 0
    OBVIOUS
  <2> QED BY <1>2, <2>1, <2>2 DEF Slots, HasReader
<1> QED BY Zenon, <1>1, <1>2, RingAssumption

(* Claiming a slot keeps the ring's types. *)
LEMMA ClaimTypes ==
  ASSUME TypeOK, ClaimSlot
  PROVE  /\ ring' \in Slots
         /\ layer_of' \in [Slots -> Layers \cup {None}]
         /\ slot_of' \in [Layers -> Layers \cup Slots \cup {None}]
BY Zenon, NextSlot DEF ClaimSlot, TypeOK, TrunkTypeOK

(* The buffer of a pinned layer is one of the arena's. *)
LEMMA PinBufIsBuffer ==
  ASSUME NEW l \in Layers, l < NPin
  PROVE  PinBuf(l) \in Buffers
BY ConstantFacts DEF PinBuf, Buffers, Layers

(* Publishing a prefetched layer keeps the types. *)
LEMMA ConsumeTypes ==
  ASSUME TypeOK, NEW l \in Layers, Consume(l), arg' \in Layers
  PROVE  TrunkTypeOK'
<1> USE DEF TypeOK, TrunkTypeOK
<1>1. /\ layer_of' \in [Slots -> Layers \cup {None}]
      /\ slot_of' \in [Layers -> Layers \cup Slots \cup {None}]
  <2>1. \/ UNCHANGED <<layer_of, slot_of>>
        \/ /\ layer_of' = [layer_of EXCEPT ![ioSlot] = l]
           /\ slot_of' = [slot_of EXCEPT ![l] = ioSlot]
    BY Zenon DEF Consume
  <2> QED BY <2>1
<1>2. base' \in Buffers /\ rc' \in {0, -1} /\ pc' = "out"
  BY Zenon, ConstantFacts DEF Consume, Return, Fail
<1>3. done' \in {0, 1}
  BY Zenon DEF Consume
<1> QED BY Zenon, <1>1, <1>2, <1>3 DEF Consume, readerVars

(* A bind keeps the types. *)
LEMMA BindTypes ==
  ASSUME TypeOK, NEW l \in Layers, Bind(l)
  PROVE  TrunkTypeOK'
<1> USE DEF TypeOK, TrunkTypeOK
<1>1. CASE BindPinHit(l)
  <2>1. base' \in Buffers
    BY Zenon, <1>1, PinBufIsBuffer DEF BindPinHit, Return
  <2> QED BY Zenon, <1>1, <2>1 DEF Bind, BindPinHit, Return, ringVars, ioVars, readerVars
<1>2. CASE BindPinMiss(l)
  <2>1. base' \in Buffers /\ got' \in 0..NChunk
    BY <1>2, PinBufIsBuffer, ConstantFacts DEF BindPinMiss, StartRead
  <2> QED BY Zenon, <1>2, <2>1 DEF Bind, BindPinMiss, StartRead, ringVars, ioVars, readerVars
<1>3. CASE BindPrefetched(l)
  <2>1. CASE Consume(l)
    BY Zenon, <2>1, ConsumeTypes DEF Bind
  <2>2. CASE Block
    BY Zenon, <2>2 DEF Bind, Block, ringVars, ioVars, readerVars
  <2> QED BY Zenon, <1>3, <2>1, <2>2 DEF BindPrefetched
<1>4. CASE BindRingHit(l)
  BY Zenon, <1>4, ConstantFacts DEF Bind, BindRingHit, Return, ringVars, ioVars, readerVars
<1>5. CASE BindRingMiss(l)
  <2>1. ClaimSlot /\ StartRead(l, ring)
    BY Zenon, <1>5 DEF BindRingMiss
  <2> QED BY <1>5, <2>1, ClaimTypes, ConstantFacts
          DEF Bind, BindRingMiss, StartRead, ioVars, readerVars
<1> QED BY Zenon, <1>1, <1>2, <1>3, <1>4, <1>5 DEF Bind

(* So do the steps inside bind, *)
LEMMA InBindTypes ==
  ASSUME TypeOK, InBind
  PROVE  TrunkTypeOK'
<1> USE DEF TypeOK, TrunkTypeOK
<1>1. CASE Awake
  <2>1. CASE Consume(arg)
    BY Zenon, <1>1, <2>1, ConsumeTypes DEF Awake
  <2>2. CASE Block
    BY Zenon, <1>1, <2>2 DEF Awake, Block, ringVars, ioVars, readerVars
  <2> QED BY Zenon, <1>1, <2>1, <2>2 DEF Awake
<1>2. CASE ReadChunk
  <2>1. mem' \in [Buffers -> [Chunks -> Layers \cup {None}]]
    BY Zenon, <1>2, ConstantFacts DEF ReadChunk, Chunks
  <2> QED BY <1>2, <2>1, ConstantFacts DEF ReadChunk, ringVars, ioVars, readerVars
<1>3. CASE ReadError
  BY Zenon, <1>3 DEF ReadError, Fail, ringVars, ioVars, readerVars
<1>4. CASE ReadDone
  BY <1>4 DEF ReadDone, Return, ioVars, readerVars
<1> QED BY Zenon, <1>1, <1>2, <1>3, <1>4 DEF InBind

(* A step that changes at most who waits keeps the types. *)
LEMMA TypeFrame ==
  ASSUME TrunkTypeOK, cv' \in SUBSET {"main", "reader"} \/ cv' = cv,
         UNCHANGED <<ringVars, mem, ioVars, readerVars, mainVars>>
  PROVE  TrunkTypeOK'
<1>1. cv' \in SUBSET {"main", "reader"}
  BY Zenon DEF TrunkTypeOK
<1>2. UNCHANGED <<ring, layer_of, slot_of, mem, busy, done, stop, ioLayer, ioSlot, result,
                  rpc, rLayer, rSlot, rgot, pc, arg, base, got, rc>>
  BY Zenon DEF ringVars, ioVars, readerVars, mainVars
<1> QED BY <1>1, <1>2 DEF TrunkTypeOK

(* the hint, *)
LEMMA PrefetchTypes ==
  ASSUME TypeOK, NEW l \in Nat, Prefetch(l)
  PROVE  TrunkTypeOK'
<1> USE DEF TypeOK, TrunkTypeOK
<1>1. CASE PrefetchSkip(l)
  <2>1. UNCHANGED trunkVars
    BY Zenon, <1>1 DEF PrefetchSkip
  <2> QED BY Zenon, <2>1, TypeFrame DEF trunkVars
<1>2. CASE PrefetchClaim(l)
  <2>1. l \in Layers
    BY <1>2, ConstantFacts DEF PrefetchClaim, PrefetchIdle, Layers
  <2>2. ClaimSlot
    BY Zenon, <1>2 DEF PrefetchClaim
  <2>3. cv' \in SUBSET {"main", "reader"}
    BY Zenon, <1>2 DEF PrefetchClaim, Signal
  <2>4. busy' \in {0, 1} /\ done' \in {0, 1} /\ ioLayer' \in Layers /\ ioSlot' \in Slots
    BY Zenon, <1>2, <2>1 DEF PrefetchClaim
  <2> QED BY Zenon, <1>2, <2>2, <2>3, <2>4, ClaimTypes DEF PrefetchClaim, readerVars, mainVars
<1> QED BY Zenon, <1>1, <1>2 DEF Prefetch

(* and the reader thread. *)
LEMMA ReaderTypes ==
  ASSUME TypeOK, Reader
  PROVE  TrunkTypeOK'
<1> USE DEF TypeOK, TrunkTypeOK
<1>1. CASE ReaderTakes
  BY <1>1, ConstantFacts DEF ReaderTakes, ringVars, ioVars, mainVars
<1>2. CASE ReaderWaits
  BY Zenon, <1>2 DEF ReaderWaits, ringVars, ioVars, readerVars, mainVars
<1>3. CASE ReaderExits
  BY Zenon, <1>3 DEF ReaderExits, ringVars, ioVars, mainVars
<1>4. CASE ReaderChunk
  <2>1. mem' \in [Buffers -> [Chunks -> Layers \cup {None}]]
    BY Zenon, <1>4, ConstantFacts DEF ReaderChunk, Chunks
  <2> QED BY <1>4, <2>1, ConstantFacts DEF ReaderChunk, ringVars, ioVars, mainVars
<1>5. CASE ReaderReports
  BY Zenon, <1>5 DEF ReaderReports, Broadcast, ringVars, mainVars
<1> QED BY Zenon, <1>1, <1>2, <1>3, <1>4, <1>5 DEF Reader

(* Every step keeps the types. *)
LEMMA TypeStep ==
  ASSUME TypeOK, [Next]_vars
  PROVE  TypeOK'
<1> USE DEF TypeOK
<1> DEFINE Same == UNCHANGED trunkVars
<1>0. Same => TrunkTypeOK'
  BY Zenon DEF TrunkTypeOK, trunkVars, ringVars, ioVars, readerVars, mainVars
<1>1. CASE StartForward
  BY <1>0, <1>1, ConstantFacts DEF StartForward
<1>2. CASE CallBind
  BY <1>2, BindTypes, ConstantFacts DEF CallBind, Layers
<1>3. CASE BindStep
  BY Zenon, <1>3, InBindTypes DEF BindStep
<1>4. CASE BindReturns
  BY Zenon, <1>0, <1>4 DEF BindReturns
<1>5. CASE Hint
  BY <1>5, PrefetchTypes, ConstantFacts DEF Hint
<1>6. CASE Compute
  BY <1>0, <1>6, ConstantFacts DEF Compute
<1>7. CASE ForwardAgain
  BY <1>0, <1>7, ConstantFacts DEF ForwardAgain
<1>8. CASE CallClose
  BY Zenon, <1>8 DEF CallClose, Close, Signal, TrunkTypeOK, ringVars, readerVars
<1>9. CASE CloseReturns
  BY Zenon, <1>9 DEF CloseReturns, Join, TrunkTypeOK, ringVars, ioVars, readerVars
<1>10. CASE ReaderStep
  BY Zenon, <1>10, ReaderTypes DEF ReaderStep
<1>11. CASE Wakeup
  <2>1. cv' \in SUBSET {"main", "reader"}
    BY Zenon, <1>11 DEF Wakeup, SpuriousWakeup, TrunkTypeOK
  <2>2. UNCHANGED <<ringVars, mem, ioVars, readerVars, mainVars, L, phase>>
    BY Zenon, <1>11 DEF Wakeup, SpuriousWakeup
  <2>3. TrunkTypeOK'
    BY Zenon, <2>1, <2>2, TypeFrame
  <2> QED BY Zenon, <2>2, <2>3
<1>12. CASE UNCHANGED vars
  BY Zenon, <1>0, <1>12 DEF vars
<1> QED
  BY Zenon, <1>1, <1>2, <1>3, <1>4, <1>5, <1>6, <1>7, <1>8, <1>9, <1>10, <1>11, <1>12
     DEF Next, Main, Terminated

(* The initial state has them. *)
LEMMA TypeInit == Init => TypeOK
BY ConstantFacts
   DEF Init, TrunkInit, TypeOK, TrunkTypeOK, HasReader, Slots, Layers, Buffers, Chunks, None

(* Type correctness of the two threads, for every trunk and every caller. *)
THEOREM TypeCorrect == Spec => []TypeOK
<1>1. Init => TypeOK
  BY Zenon, TypeInit
<1>2. TypeOK /\ [Next]_vars => TypeOK'
  BY Zenon, TypeStep
<1> QED BY <1>1, <1>2, PTL DEF Spec

-----------------------------------------------------------------------------
(* The pass walks the whole trunk and a failed pass is the last one. *)
FullWalk == NBound = NLayers /\ ~Retry

(* The facts about types that the arithmetic below needs. *)
LEMMA TypeFacts ==
  ASSUME TypeOK
  PROVE  /\ L \in Int /\ 0 <= L /\ L < NLayers
         /\ ring \in Slots /\ ioSlot \in Slots
         /\ ioLayer \in Layers
         /\ \A s \in Slots : layer_of[s] \in Int /\ layer_of[s] >= -1
                             /\ layer_of[s] < NLayers
         /\ HasReader <=> NSlot = 2
         /\ NSlot = 2 => Slots = {0, 1}
         /\ NSlot = 1 => Slots = {0}
<1>1. /\ L \in 0..(NBound - 1) /\ ring \in Slots /\ ioSlot \in Slots /\ ioLayer \in Layers
      /\ \A s \in Slots : layer_of[s] \in Layers \cup {None}
  BY Zenon DEF TypeOK, TrunkTypeOK
<1>2. \A l \in Layers \cup {None} : l \in Int /\ l >= -1 /\ l < NLayers
  BY ConstantFacts DEF Layers, None
<1>3. L \in Int /\ 0 <= L /\ L < NLayers
  BY <1>1, ConstantFacts
<1>4. /\ HasReader <=> NSlot = 2
      /\ NSlot = 2 => Slots = {0, 1}
      /\ NSlot = 1 => Slots = {0}
  BY ConstantFacts DEF HasReader, Slots
<1> QED BY Zenon, <1>1, <1>2, <1>3, <1>4

-----------------------------------------------------------------------------
(* The steps of the reader thread, of the forward pass between two binds,  *)
(* and of bind up to the point where it starts to read.                    *)

(* A forward pass starts. *)
LEMMA StartForwardKeeps ==
  ASSUME FullWalk, RingInv, TypeOK', StartForward
  PROVE  RingInv'
<1> USE DEF RingInv
<1>1. /\ phase = "idle" /\ phase' = "bind" /\ L = 0 /\ L' = 0 /\ pc = "out"
      /\ ~Pending
      /\ UNCHANGED <<ring, layer_of, slot_of, mem, busy, done, ioLayer, ioSlot,
                     result, stop, rpc, rLayer, rSlot, rgot, pc, arg, base, got, rc>>
  BY Zenon DEF StartForward, ControlInv, RequestInv, Pending,
         trunkVars, ringVars, ioVars, readerVars, mainVars
<1>2. ControlInv'
  BY Zenon, <1>1 DEF ControlInv
<1>3. RequestInv'
  BY Zenon, <1>1 DEF RequestInv, Pending, Content
<1>4. NamedInv' /\ PinInv' /\ SlotOfAgrees'
  BY Zenon, <1>1 DEF NamedInv, PinInv, SlotOfAgrees, Content
<1>5. FillInv' /\ HeldInv' /\ SpareInv'
  BY Zenon, <1>1 DEF FillInv, HeldInv, SpareInv, HasLayer
<1>6. ~HasLayer /\ ~HasLayer' /\ ~Filling /\ ~Filling' /\ ~Pending' /\ Walking /\ Walking'
  BY Zenon, <1>1 DEF HasLayer, Filling, Pending, Walking
<1>7. Bound' = Bound
  BY Zenon, <1>1, <1>6 DEF Bound
<1>8. \A s : Taken(s)' <=> Taken(s)
  BY Zenon, <1>1, <1>6 DEF Taken
<1>9. ResidentInv'
  BY Zenon, <1>1, <1>6, <1>7, <1>8 DEF ResidentInv, ManyStreamed, FewStreamed
<1> QED BY Zenon, <1>2, <1>3, <1>4, <1>5, <1>9

(* bind has come back. *)
LEMMA BindReturnsKeeps ==
  ASSUME FullWalk, RingInv, TypeOK', BindReturns
  PROVE  RingInv'
<1> USE DEF RingInv
<1>1. /\ phase = "binding" /\ pc = "out" /\ L' = L
      /\ phase' = (IF rc = 0 THEN "hint" ELSE "failed")
      /\ ~Pending
      /\ UNCHANGED <<ring, layer_of, slot_of, mem, busy, done, ioLayer, ioSlot,
                     result, stop, rpc, rLayer, rSlot, rgot, pc, arg, base, got, rc>>
  BY Zenon DEF BindReturns, RequestInv, Pending,
         trunkVars, ringVars, ioVars, readerVars, mainVars
<1>2. ControlInv'
  BY Zenon, <1>1 DEF ControlInv
<1>3. RequestInv'
  BY Zenon, <1>1 DEF RequestInv, Pending, Content
<1>4. NamedInv' /\ PinInv' /\ SlotOfAgrees'
  BY Zenon, <1>1 DEF NamedInv, PinInv, SlotOfAgrees, Content
<1>5. FillInv'
  BY Zenon, <1>1 DEF FillInv
<1>6. CASE rc = 0
  <2>1. /\ HasLayer /\ HasLayer' /\ ~Filling /\ ~Filling' /\ ~Pending'
        /\ Walking /\ Walking'
    BY Zenon, <1>1, <1>6 DEF HasLayer, Filling, Pending, Walking
  <2>2. Bound' = Bound /\ \A s : Taken(s)' <=> Taken(s)
    BY Zenon, <1>1, <2>1 DEF Bound, Taken
  <2>3. HeldInv' /\ SpareInv'
    BY Zenon, <1>1, <2>1 DEF HeldInv, SpareInv, Content
  <2>4. ResidentInv'
    BY Zenon, <1>1, <2>1, <2>2 DEF ResidentInv, ManyStreamed, FewStreamed
  <2> QED BY Zenon, <1>2, <1>3, <1>4, <1>5, <2>3, <2>4
<1>7. CASE rc # 0
  <2>1. ~HasLayer' /\ ~Walking'
    BY Zenon, <1>1, <1>7 DEF HasLayer, Walking
  <2> QED BY Zenon, <1>2, <1>3, <1>4, <1>5, <2>1 DEF HeldInv, SpareInv, ResidentInv
<1> QED BY Zenon, <1>6, <1>7

(* A layer is computed. *)
LEMMA ComputeKeeps ==
  ASSUME FullWalk, RingInv, TypeOK', Compute
  PROVE  RingInv'
<1> USE DEF RingInv
<1>1. /\ phase = "compute" /\ pc = "out"
      /\ UNCHANGED <<ring, layer_of, slot_of, mem, busy, done, ioLayer, ioSlot,
                     result, stop, rpc, rLayer, rSlot, rgot, pc, arg, base, got, rc>>
      /\ Pending' <=> Pending
  BY Zenon DEF Compute, ControlInv, Pending,
         trunkVars, ringVars, ioVars, readerVars, mainVars
<1>2. \/ L + 1 < NLayers /\ L' = L + 1 /\ phase' = "bind"
      \/ L + 1 = NLayers /\ L' = 0 /\ phase' = "idle"
  BY Zenon DEF Compute, FullWalk
<1>3. Pending => L + 1 < NLayers /\ ioLayer = L + 1
  BY <1>1, TypeFacts, ConstantFacts DEF RequestInv, Layers
<1>4. ControlInv'
  BY Zenon, <1>1, <1>2 DEF ControlInv
<1>5. RequestInv'
  <2>1. Pending => phase' = "bind" /\ ioLayer = L'
    BY <1>2, <1>3, TypeFacts, ConstantFacts
  <2> QED BY Zenon, <1>1, <2>1 DEF RequestInv, Pending, Content
<1>6. NamedInv' /\ PinInv' /\ SlotOfAgrees'
  BY Zenon, <1>1 DEF NamedInv, PinInv, SlotOfAgrees, Content
<1>7. /\ HasLayer /\ ~HasLayer' /\ ~Filling /\ ~Filling' /\ Walking /\ Walking'
      /\ pc' = "out"
  BY Zenon, <1>1, <1>2 DEF HasLayer, Filling, Walking
<1>8. FillInv' /\ HeldInv' /\ SpareInv'
  BY Zenon, <1>7 DEF FillInv, HeldInv, SpareInv
<1>9. Bound = L + 1 /\ Bound' = L' /\ \A s : Taken(s)' <=> Taken(s)
  BY Zenon, <1>1, <1>7 DEF Bound, Taken
<1>10. CASE L + 1 < NLayers
  <2>1. Bound' = Bound
    BY <1>2, <1>9, <1>10, TypeFacts, ConstantFacts
  <2>2. ResidentInv'
    BY Zenon, <1>1, <1>7, <1>9, <2>1 DEF ResidentInv, ManyStreamed, FewStreamed
  <2> QED BY Zenon, <1>4, <1>5, <1>6, <1>8, <2>2
<1>11. CASE L + 1 = NLayers
  <2>1. Bound = NLayers /\ Bound' = 0 /\ ~Pending /\ ~Pending'
    BY <1>1, <1>2, <1>3, <1>9, <1>11, ConstantFacts
  <2>2. (NLayers - NPin >= 3 /\ ManyStreamed) => ManyStreamed'
    BY <1>1, <1>7, <2>1, TypeFacts, ConstantFacts DEF ManyStreamed
  <2>3. FewStreamed => FewStreamed'
    BY <1>1, <1>7, <1>9, <2>1, ConstantFacts DEF FewStreamed
  <2>4. ResidentInv'
    BY Zenon, <1>7, <2>2, <2>3 DEF ResidentInv
  <2> QED BY Zenon, <1>4, <1>5, <1>6, <1>8, <2>4
<1> QED BY Zenon, <1>2, <1>10, <1>11

(* What the ring's bookkeeping depends on. *)
LEMMA ResidentFrame ==
  ASSUME ResidentInv, SpareInv, Pending' <=> Pending,
         UNCHANGED <<ring, layer_of, ioSlot, ioLayer, L, phase, pc, base, rc>>
  PROVE  ResidentInv' /\ SpareInv'
<1>1. /\ HasLayer' <=> HasLayer
      /\ Filling' <=> Filling
      /\ Walking' <=> Walking
  BY Zenon DEF HasLayer, Filling, Walking
<1>2. Bound' = Bound /\ \A s : Taken(s)' <=> Taken(s)
  BY Zenon, <1>1 DEF Bound, Taken
<1> QED BY Zenon, <1>1, <1>2 DEF ResidentInv, ManyStreamed, FewStreamed, SpareInv

(* The trunk is closed. *)
LEMMA CloseKeeps ==
  ASSUME FullWalk, RingInv, TypeOK', CallClose \/ CloseReturns
  PROVE  RingInv'
<1> USE DEF RingInv
<1>1. /\ ~Pending /\ phase' = "closed" /\ pc' # "read"
      /\ UNCHANGED <<ring, layer_of, slot_of, mem, busy, done, ioLayer, ioSlot,
                     result, rpc, rLayer, rSlot, rgot, base, L>>
  BY Zenon DEF CallClose, Close, CloseReturns, Join, RequestInv, Pending, ringVars, ioVars, readerVars
<1>2. ControlInv'
  BY Zenon DEF CallClose, Close, CloseReturns, Join, ControlInv, ringVars, ioVars, readerVars
<1>3. RequestInv'
  BY Zenon, <1>1 DEF RequestInv, Pending, Content
<1>4. NamedInv' /\ PinInv' /\ SlotOfAgrees'
  BY Zenon, <1>1 DEF NamedInv, PinInv, SlotOfAgrees, Content
<1>5. ~HasLayer' /\ ~Walking'
  BY Zenon, <1>1 DEF HasLayer, Walking
<1> QED BY Zenon, <1>1, <1>2, <1>3, <1>4, <1>5 DEF FillInv, HeldInv, SpareInv, ResidentInv

(* A step that moves nothing but the set of sleeping threads. *)
LEMMA SleepKeeps ==
  ASSUME RingInv, TypeOK',
         UNCHANGED <<ring, layer_of, slot_of, mem, busy, done, ioLayer, ioSlot, result,
                     stop, rpc, rLayer, rSlot, rgot, pc, arg, base, got, rc, L, phase>>
  PROVE  RingInv'
<1> USE DEF RingInv
<1>2. ControlInv'
  BY Zenon DEF ControlInv
<1>3. RequestInv' /\ (Pending' <=> Pending)
  BY Zenon DEF RequestInv, Pending, Content
<1>4. NamedInv' /\ PinInv' /\ SlotOfAgrees'
  BY Zenon DEF NamedInv, PinInv, SlotOfAgrees, Content
<1>5. FillInv' /\ HeldInv'
  BY Zenon DEF FillInv, HeldInv, HasLayer, Content
<1>6. ResidentInv' /\ SpareInv'
  BY Zenon, <1>3, ResidentFrame
<1> QED BY Zenon, <1>2, <1>3, <1>4, <1>5, <1>6

(* The reader taking a request, going to sleep or leaving. *)
LEMMA ReaderQuietKeeps ==
  ASSUME RingInv, TypeOK', ReaderTakes \/ ReaderWaits \/ ReaderExits,
         UNCHANGED <<L, phase>>
  PROVE  RingInv'
<1> USE DEF RingInv
<1>1. /\ UNCHANGED <<ring, layer_of, slot_of, mem, busy, done, ioLayer, ioSlot, result,
                     stop, pc, arg, base, got, rc, L, phase>>
      /\ rpc = "lock"
      /\ Pending' <=> Pending
  BY Zenon DEF ReaderTakes, ReaderWaits, ReaderExits, ringVars, ioVars, readerVars, mainVars, Pending
<1>2. ControlInv'
  BY Zenon, <1>1 DEF ControlInv, ReaderTakes, ReaderWaits, ReaderExits, readerVars
<1>3. RequestInv'
  <2>1. rpc' = "read" => busy = 1 /\ rLayer' = ioLayer /\ rSlot' = ioSlot /\ rgot' = 0
    BY Zenon DEF ReaderTakes, ReaderWaits, ReaderExits, readerVars
  <2> QED BY <1>1, <2>1 DEF RequestInv, Pending, Content
<1>4. NamedInv' /\ PinInv' /\ SlotOfAgrees'
  BY Zenon, <1>1 DEF NamedInv, PinInv, SlotOfAgrees, Content
<1>5. FillInv' /\ HeldInv'
  BY Zenon, <1>1 DEF FillInv, HeldInv, HasLayer, Content
<1>6. ResidentInv' /\ SpareInv'
  BY Zenon, <1>1, ResidentFrame
<1> QED BY Zenon, <1>2, <1>3, <1>4, <1>5, <1>6

(* The reader thread reads one more part. *)
LEMMA ReaderChunkKeeps ==
  ASSUME RingInv, TypeOK', ReaderChunk, UNCHANGED <<L, phase>>
  PROVE  RingInv'
<1> USE DEF RingInv
<1>1. /\ UNCHANGED <<ring, layer_of, slot_of, busy, done, ioLayer, ioSlot, result, stop,
                     rpc, rLayer, rSlot, pc, arg, base, got, rc, L, phase>>
      /\ rpc = "read" /\ rgot' = rgot + 1
      /\ Pending' <=> Pending
  BY Zenon DEF ReaderChunk, ringVars, ioVars, mainVars, Pending
<1>2. /\ busy = 1 /\ Pending /\ rSlot = ioSlot /\ rLayer = ioLayer
      /\ layer_of[rSlot] = None /\ pc # "read"
      /\ HasLayer => base # rSlot
      /\ done = 0
  BY Zenon, <1>1 DEF RequestInv, Pending, HasLayer, TypeOK, TrunkTypeOK, ControlInv
<1>3. /\ rSlot \in Buffers /\ rgot + 1 \in Chunks /\ rgot \in Nat /\ base \in Buffers
      /\ rSlot \in Slots
  BY ConstantFacts DEF TypeOK, TrunkTypeOK, ReaderChunk, Chunks
<1>4. /\ \A c \in Buffers \ {rSlot} : mem'[c] = mem[c]
      /\ mem'[rSlot][rgot + 1] = rLayer
      /\ \A j \in Chunks \ {rgot + 1} : mem'[rSlot][j] = mem[rSlot][j]
  <2>1. mem' = [mem EXCEPT ![rSlot][rgot + 1] = rLayer]
    BY Zenon DEF ReaderChunk
  <2> QED BY Zenon, <1>3, <2>1 DEF TypeOK, TrunkTypeOK
<1>5. ControlInv'
  BY Zenon, <1>1 DEF ControlInv
<1>6. RequestInv'
  <2>1. \A k \in 1..rgot' : mem'[rSlot][k] = rLayer
    <3>1. \A k \in 1..rgot : k \in Chunks \ {rgot + 1} /\ mem[rSlot][k] = rLayer
      BY <1>1, <1>3, ConstantFacts DEF RequestInv, Chunks, ReaderChunk
    <3>2. \A k \in 1..rgot' : k \in 1..rgot \/ k = rgot + 1
      BY <1>1, <1>3
    <3> QED BY <1>4, <3>1, <3>2
  <2> QED BY Zenon, <1>1, <1>2, <2>1 DEF RequestInv, Pending
<1>7. NamedInv'
  BY <1>1, <1>2, <1>4, ConstantFacts DEF NamedInv, Content
<1>8. PinInv' /\ SlotOfAgrees'
  <2>1. \A l \in Layers : l < NPin => PinBuf(l) \in Buffers \ {rSlot}
    BY <1>3, ConstantFacts DEF Layers, Slots, Buffers, PinBuf
  <2> QED BY <1>1, <1>4, <2>1 DEF PinInv, SlotOfAgrees, Content
<1>9. FillInv' /\ HeldInv'
  BY Zenon, <1>1, <1>2, <1>3, <1>4 DEF FillInv, HeldInv, HasLayer, Content
<1>10. ResidentInv' /\ SpareInv'
  BY Zenon, <1>1, ResidentFrame
<1> QED BY Zenon, <1>5, <1>6, <1>7, <1>8, <1>9, <1>10

(* The reader thread reports. *)
LEMMA ReaderReportsKeeps ==
  ASSUME RingInv, TypeOK', ReaderReports, UNCHANGED <<L, phase>>
  PROVE  RingInv'
<1> USE DEF RingInv
<1>1. /\ UNCHANGED <<ring, layer_of, slot_of, mem, ioLayer, ioSlot, stop,
                     rLayer, rSlot, rgot, pc, arg, base, got, rc, L, phase>>
      /\ rpc = "read" /\ rpc' = "lock" /\ busy' = 0 /\ done' = 1
      /\ result' = (IF rgot = NChunk THEN 0 ELSE -1)
  BY Zenon DEF ReaderReports, ringVars, mainVars
<1>2. Pending /\ Pending' /\ rSlot = ioSlot /\ rLayer = ioLayer
  BY Zenon, <1>1 DEF RequestInv, Pending
<1>3. ControlInv'
  BY Zenon, <1>1 DEF ControlInv
<1>4. RequestInv'
  <2>1. result' = 0 => Content(ioSlot, ioLayer)'
    BY <1>1, <1>2 DEF RequestInv, Content, Chunks
  <2> QED BY <1>1, <1>2, <2>1 DEF RequestInv
<1>5. NamedInv' /\ PinInv' /\ SlotOfAgrees'
  BY Zenon, <1>1 DEF NamedInv, PinInv, SlotOfAgrees, Content
<1>6. FillInv' /\ HeldInv'
  BY Zenon, <1>1 DEF FillInv, HeldInv, HasLayer, Content
<1>7. ResidentInv' /\ SpareInv'
  BY Zenon, <1>1, <1>2, ResidentFrame
<1> QED BY Zenon, <1>3, <1>4, <1>5, <1>6, <1>7

(* bind(L) on a pinned layer that is already in its buffer. *)
LEMMA BindPinHitKeeps ==
  ASSUME RingInv, TypeOK', CallBind, BindPinHit(L)
  PROVE  RingInv'
<1> USE DEF RingInv
<1>1. /\ phase = "bind" /\ phase' = "binding" /\ pc = "out" /\ pc' = "out"
      /\ L < NPin /\ slot_of[L] >= 0 /\ base' = PinBuf(L) /\ arg' = L
      /\ UNCHANGED <<ring, layer_of, slot_of, mem, busy, done, ioLayer, ioSlot, result,
                     stop, rpc, rLayer, rSlot, rgot, got, L>>
  BY Zenon DEF CallBind, Bind, BindPinHit, Return, ringVars, ioVars, readerVars
<1>2. ~Pending /\ ~Pending' /\ ~Filling /\ ~Filling' /\ ~HasLayer /\ Walking
  BY <1>1, TypeFacts, ConstantFacts DEF RequestInv, Pending, Filling, HasLayer, Walking
<1>3. ControlInv'
  BY Zenon, <1>1 DEF ControlInv
<1>4. RequestInv'
  BY Zenon, <1>1, <1>2 DEF RequestInv, Pending, Content
<1>5. NamedInv' /\ PinInv' /\ SlotOfAgrees'
  BY Zenon, <1>1 DEF NamedInv, PinInv, SlotOfAgrees, Content
<1>6. FillInv' /\ SpareInv'
  BY <1>1, TypeFacts, ConstantFacts DEF FillInv, SpareInv
<1>7. HeldInv'
  <2>1. Content(PinBuf(L), L)
    BY <1>1, TypeFacts, ConstantFacts DEF PinInv, Layers
  <2> QED BY <1>1, <2>1, TypeFacts, ConstantFacts DEF HeldInv, Content
<1>8. ResidentInv'
  <2>1. Bound = L /\ Bound' \in {L, L + 1} /\ \A s : Taken(s)' <=> Taken(s)
    BY Zenon, <1>1, <1>2 DEF Bound, Taken
  <2>2. ManyStreamed => ManyStreamed'
    BY <1>1, <1>2, <2>1, TypeFacts, ConstantFacts DEF ManyStreamed, NamedInv
  <2>3. FewStreamed => FewStreamed'
    BY <1>1, <1>2, <2>1, TypeFacts, ConstantFacts DEF FewStreamed
  <2> QED BY Zenon, <1>2, <2>2, <2>3 DEF ResidentInv
<1> QED BY Zenon, <1>3, <1>4, <1>5, <1>6, <1>7, <1>8

(* bind(L) on a pinned layer that is read for the first time. *)
LEMMA BindPinMissKeeps ==
  ASSUME RingInv, TypeOK', CallBind, BindPinMiss(L)
  PROVE  RingInv'
<1> USE DEF RingInv
<1>1. /\ phase = "bind" /\ phase' = "binding" /\ pc = "out" /\ pc' = "read"
      /\ L < NPin /\ base' = PinBuf(L) /\ arg' = L /\ got' = 0
      /\ UNCHANGED <<ring, layer_of, slot_of, mem, busy, done, ioLayer, ioSlot, result,
                     stop, rpc, rLayer, rSlot, rgot, rc, L>>
  BY Zenon DEF CallBind, Bind, BindPinMiss, StartRead, ringVars, ioVars, readerVars
<1>2. /\ ~Pending /\ ~Pending' /\ ~Filling /\ ~Filling' /\ ~HasLayer /\ ~HasLayer'
      /\ Walking
  BY <1>1, TypeFacts, ConstantFacts DEF RequestInv, Pending, Filling, HasLayer, Walking
<1>3. ControlInv'
  BY Zenon, <1>1 DEF ControlInv
<1>4. RequestInv'
  BY Zenon, <1>1, <1>2 DEF RequestInv, Pending, Content
<1>5. NamedInv' /\ PinInv' /\ SlotOfAgrees'
  BY Zenon, <1>1 DEF NamedInv, PinInv, SlotOfAgrees, Content
<1>6. FillInv' /\ HeldInv' /\ SpareInv'
  BY <1>1, <1>2, TypeFacts, ConstantFacts DEF FillInv, HeldInv, SpareInv, PinBuf
<1>7. ResidentInv'
  <2>1. Bound' = Bound /\ \A s : Taken(s)' <=> Taken(s)
    BY Zenon, <1>1, <1>2 DEF Bound, Taken
  <2> QED BY Zenon, <1>1, <1>2, <2>1 DEF ResidentInv, ManyStreamed, FewStreamed
<1> QED BY Zenon, <1>3, <1>4, <1>5, <1>6, <1>7

(* bind(L) on a streamed layer that a slot already names. *)
LEMMA BindRingHitKeeps ==
  ASSUME RingInv, TypeOK', CallBind, BindRingHit(L)
  PROVE  RingInv'
<1> USE DEF RingInv
<1>1. PICK s \in Slots : layer_of[s] = L /\ Return(L, s)
  BY Zenon DEF BindRingHit
<1>2. /\ phase = "bind" /\ phase' = "binding" /\ pc = "out" /\ pc' = "out"
      /\ L >= NPin /\ base' = s /\ arg' = L /\ ~Requested(L)
      /\ UNCHANGED <<ring, layer_of, slot_of, mem, busy, done, ioLayer, ioSlot, result,
                     stop, rpc, rLayer, rSlot, rgot, got, L>>
  BY Zenon, <1>1 DEF CallBind, Bind, BindRingHit, Return, ringVars, ioVars, readerVars
<1>3. ~Pending /\ ~Pending' /\ ~Filling /\ ~Filling' /\ ~HasLayer /\ Walking
  BY Zenon, <1>2 DEF RequestInv, Requested, Pending, Filling, HasLayer, Walking
<1>4. ControlInv'
  BY Zenon, <1>2 DEF ControlInv
<1>5. RequestInv'
  BY Zenon, <1>2, <1>3 DEF RequestInv, Pending, Content
<1>6. NamedInv' /\ PinInv' /\ SlotOfAgrees'
  BY Zenon, <1>2 DEF NamedInv, PinInv, SlotOfAgrees, Content
<1>7. FillInv'
  BY Zenon, <1>2 DEF FillInv
<1>8. HeldInv'
  BY <1>1, <1>2, TypeFacts, ConstantFacts DEF HeldInv, NamedInv, Content, None
<1>9. Bound = L /\ Bound' \in {L, L + 1} /\ \A t : Taken(t)' <=> Taken(t)
  BY Zenon, <1>2, <1>3 DEF Bound, Taken
<1>10. HasReader => NLayers - NPin < 3 /\ FewStreamed
  <2>1. ~(NLayers - NPin >= 3 /\ ManyStreamed)
    BY <1>1, <1>2, <1>9, TypeFacts, ConstantFacts DEF ManyStreamed, None
  <2> QED BY <1>3, <2>1, ConstantFacts DEF ResidentInv
<1>11. SpareInv'
  <2>1. HasReader => ring # s \/ L + 1 = NLayers \/ \E t \in Slots : layer_of[t] = L + 1
    <3> SUFFICES ASSUME HasReader, L + 1 # NLayers, ring = s PROVE layer_of[1] = L + 1
      BY Zenon, TypeFacts
    <3>1. s = 0 /\ L = NPin
      BY <1>1, <1>2, <1>10, TypeFacts, ConstantFacts DEF FewStreamed, None
    <3>2. Taken(0) /\ (Taken(1) => layer_of[1] # None)
      <4>1. L # None
        BY TypeFacts DEF None
      <4> QED BY Zenon, <1>1, <1>3, <3>1, <4>1 DEF Taken
    <3> QED BY Zenon, <1>10, <3>1, <3>2, TypeFacts, ConstantFacts DEF FewStreamed
  <2> QED BY Zenon, <1>2, <2>1 DEF SpareInv
<1>12. ResidentInv'
  <2>1. FewStreamed => FewStreamed'
    <3>1. layer_of[0] # None \/ ~FewStreamed \/ ~HasReader
      BY <1>1, <1>2, <1>3, TypeFacts, ConstantFacts DEF FewStreamed, Taken, None
    <3>2. HasReader \/ layer_of[0] # None
      BY <1>1, <1>2, TypeFacts, ConstantFacts DEF None
    <3> QED BY Zenon, <1>2, <1>3, <1>9, <3>1, <3>2 DEF FewStreamed
  <2> QED BY <1>10, <2>1, ConstantFacts DEF ResidentInv
<1> QED BY Zenon, <1>4, <1>5, <1>6, <1>7, <1>8, <1>11, <1>12

(* What claiming a slot does to the ring. *)
LEMMA ClaimFacts ==
  ASSUME TypeOK, NamedInv, SlotOfAgrees, ClaimSlot
  PROVE  /\ layer_of'[ring] = None
         /\ \A s \in Slots : s # ring => layer_of'[s] = layer_of[s]
         /\ HasReader => ring' = 1 - ring
         /\ \A l \in Layers : l < NPin => slot_of'[l] = slot_of[l]
         /\ SlotOfAgrees'
<1>1. layer_of'[ring] = None /\ \A s \in Slots : s # ring => layer_of'[s] = layer_of[s]
  BY Zenon DEF ClaimSlot, TypeOK, TrunkTypeOK
<1>2. HasReader => ring' = 1 - ring
  BY Zenon, TypeFacts, NextSlot DEF ClaimSlot
<1>3. \A l \in Layers : l # layer_of[ring] => slot_of'[l] = slot_of[l]
  BY Zenon DEF ClaimSlot, TypeOK, TrunkTypeOK
<1>4. \A l \in Layers : l = layer_of[ring] => slot_of'[l] = None
  BY ConstantFacts DEF ClaimSlot, TypeOK, TrunkTypeOK, Layers
<1>5. \A l \in Layers : l < NPin => l # layer_of[ring]
  BY TypeFacts, ConstantFacts DEF NamedInv, Layers, None
<1>6. SlotOfAgrees'
  <2> SUFFICES ASSUME NEW l \in NPin..(NLayers - 1), slot_of'[l] # None
               PROVE  slot_of'[l] \in Slots /\ layer_of'[slot_of'[l]] = l
    BY Zenon DEF SlotOfAgrees
  <2>1. l \in Layers
    BY ConstantFacts DEF Layers
  <2>2. slot_of'[l] = slot_of[l] /\ l # layer_of[ring]
    BY Zenon, <1>3, <1>4, <2>1
  <2> QED BY Zenon, <1>1, <2>2 DEF SlotOfAgrees
<1> QED BY Zenon, <1>1, <1>2, <1>3, <1>5, <1>6

(* bind(L) on a streamed layer that no slot names: claim a slot and read.  *)
LEMMA BindRingMissKeeps ==
  ASSUME RingInv, TypeOK', CallBind, BindRingMiss(L)
  PROVE  RingInv'
<1> USE DEF RingInv
<1>1. /\ phase = "bind" /\ phase' = "binding" /\ pc = "out" /\ pc' = "read"
      /\ L >= NPin /\ base' = ring /\ arg' = L /\ got' = 0 /\ ~Requested(L)
      /\ \A s \in Slots : layer_of[s] # L
      /\ UNCHANGED <<mem, busy, done, ioLayer, ioSlot, result,
                     stop, rpc, rLayer, rSlot, rgot, rc, L>>
      /\ ClaimSlot
  BY Zenon DEF CallBind, Bind, BindRingMiss, StartRead, ioVars, readerVars
<1>2. /\ layer_of'[ring] = None
      /\ \A s \in Slots : s # ring => layer_of'[s] = layer_of[s]
      /\ HasReader => ring' = 1 - ring
      /\ \A l \in Layers : l < NPin => slot_of'[l] = slot_of[l]
      /\ SlotOfAgrees'
  BY Zenon, <1>1, ClaimFacts
<1>3. /\ ~Pending /\ ~Pending' /\ ~Filling /\ Filling' /\ ~HasLayer /\ ~HasLayer'
      /\ Walking
  BY Zenon, <1>1 DEF RequestInv, Requested, Pending, Filling, HasLayer, Walking
<1>4. ControlInv'
  BY Zenon, <1>1 DEF ControlInv
<1>5. RequestInv'
  BY Zenon, <1>1, <1>3 DEF RequestInv, Pending, Content
<1>6. NamedInv'
  BY Zenon, <1>1, <1>2 DEF NamedInv, Content
<1>7. PinInv'
  BY Zenon, <1>1, <1>2 DEF PinInv, Content
<1>8. FillInv' /\ HeldInv' /\ SpareInv'
  BY <1>1, <1>2, <1>3, TypeFacts, ConstantFacts DEF FillInv, HeldInv, SpareInv
<1>9. ResidentInv'
  <2>1. Bound = L /\ Bound' = L
    BY Zenon, <1>1, <1>3 DEF Bound
  <2> SUFFICES ASSUME HasReader
               PROVE  /\ NLayers - NPin >= 3 /\ ManyStreamed => ManyStreamed'
                      /\ NLayers - NPin < 3 /\ FewStreamed => FewStreamed'
    BY <1>3, ConstantFacts DEF ResidentInv
  <2>2. ManyStreamed => ManyStreamed'
    BY Zenon, <1>1, <1>2, <1>3, <2>1, TypeFacts, ConstantFacts DEF ManyStreamed
  <2>3. ASSUME NLayers - NPin < 3, FewStreamed
        PROVE  FewStreamed'
    <3>1. L = NPin \/ L = NPin + 1
      BY <1>1, <2>3, TypeFacts, ConstantFacts
    <3>2. \A s \in Slots : Taken(s) <=> layer_of[s] # None
      BY Zenon, <1>3 DEF Taken
    <3>3. \A s \in Slots : Taken(s)' <=> layer_of'[s] # None \/ s = ring
      BY Zenon, <1>1, <1>3 DEF Taken
    <3>4. L = NPin => layer_of[0] = None
      BY <1>1, <2>3, TypeFacts, ConstantFacts DEF FewStreamed
    <3>5. L = NPin + 1 => layer_of[0] # None /\ layer_of[1] = None
      BY <1>1, <2>1, <2>3, TypeFacts, ConstantFacts DEF FewStreamed
    <3>6. L = NPin + ring
      BY <2>3, <3>1, <3>2, <3>4, <3>5, TypeFacts, ConstantFacts DEF FewStreamed
    <3> QED BY <1>1, <1>2, <1>3, <2>1, <2>3, <3>1, <3>2, <3>3, <3>4, <3>5, <3>6, TypeFacts, ConstantFacts DEF FewStreamed
  <2> QED BY Zenon, <2>2, <2>3
<1> QED BY Zenon, <1>2, <1>4, <1>5, <1>6, <1>7, <1>8, <1>9

-----------------------------------------------------------------------------
(* The steps that fill and publish a ring slot. *)

(* trunk_io_wait finds the request done: publish it, or fail the bind. *)
LEMMA ConsumeKeeps ==
  ASSUME RingInv, TypeOK', Consume(L), ioLayer = L, arg' = L,
         phase = "bind" \/ (phase = "binding" /\ pc = "wait"),
         phase' = "binding", L' = L
  PROVE  RingInv'
<1> USE DEF RingInv
<1>1. /\ done = 1 /\ done' = 0 /\ busy = 0 /\ busy' = 0 /\ pc # "read" /\ pc' = "out"
      /\ UNCHANGED <<ring, mem, busy, ioLayer, ioSlot, result, stop,
                     rpc, rLayer, rSlot, rgot, got>>
  BY Zenon DEF Consume, Return, Fail, readerVars, RequestInv, TypeOK, TrunkTypeOK, ControlInv
<1>2. /\ Pending /\ ~Pending' /\ ~Filling /\ ~Filling' /\ ~HasLayer /\ Walking
      /\ HasReader /\ L >= NPin /\ layer_of[ioSlot] = None /\ ring # ioSlot
  BY Zenon, <1>1 DEF RequestInv, Pending, Filling, HasLayer, Walking
<1>3. ControlInv'
  BY Zenon, <1>1 DEF ControlInv
<1>4. RequestInv'
  BY Zenon, <1>1, <1>2 DEF RequestInv, Pending
<1>5. FillInv'
  BY Zenon, <1>1 DEF FillInv
<1>6. CASE result # 0
  <2>1. rc' = -1 /\ UNCHANGED <<layer_of, slot_of>>
    BY Zenon, <1>6 DEF Consume, Fail
  <2>2. ~HasLayer' /\ ~Walking'
    BY <1>1, <2>1 DEF HasLayer, Walking
  <2>3. NamedInv' /\ PinInv' /\ SlotOfAgrees'
    BY Zenon, <1>1, <2>1 DEF NamedInv, PinInv, SlotOfAgrees, Content
  <2> QED BY Zenon, <1>3, <1>4, <1>5, <2>2, <2>3 DEF HeldInv, SpareInv, ResidentInv
<1>7. CASE result = 0
  <2>1. /\ layer_of' = [layer_of EXCEPT ![ioSlot] = L]
        /\ slot_of' = [slot_of EXCEPT ![L] = ioSlot]
        /\ base' = ioSlot
    BY Zenon, <1>7 DEF Consume, Return
  <2>2. /\ layer_of'[ioSlot] = L
        /\ \A s \in Slots : s # ioSlot => layer_of'[s] = layer_of[s]
        /\ slot_of'[L] = ioSlot
        /\ \A l \in Layers : l # L => slot_of'[l] = slot_of[l]
    BY <2>1, TypeFacts DEF TypeOK, TrunkTypeOK
  <2>3. Content(ioSlot, L)
    BY Zenon, <1>1, <1>7 DEF RequestInv
  <2>4. NamedInv'
    <3> SUFFICES ASSUME NEW s \in Slots, layer_of'[s] # None
                 PROVE  layer_of'[s] >= NPin /\ \A k \in Chunks : mem[s][k] = layer_of'[s]
      BY Zenon, <1>1 DEF NamedInv, Content
    <3>1. CASE s = ioSlot
      BY Zenon, <1>2, <2>2, <2>3, <3>1 DEF Content
    <3>2. CASE s # ioSlot
      <4>1. layer_of'[s] = layer_of[s]
        BY Zenon, <2>2, <3>2
      <4>2. layer_of[s] >= NPin /\ Content(s, layer_of[s])
        BY Zenon, <4>1 DEF NamedInv
      <4> QED BY Zenon, <4>1, <4>2 DEF Content
    <3> QED BY Zenon, <3>1, <3>2
  <2>5. PinInv'
    <3> SUFFICES ASSUME NEW l \in Layers, l < NPin, slot_of'[l] >= 0
                 PROVE  Content(PinBuf(l), l)'
      BY Zenon DEF PinInv
    <3>1. l # L
      BY <1>2, ConstantFacts DEF Layers
    <3>2. Content(PinBuf(l), l)
      BY Zenon, <2>2, <3>1 DEF PinInv
    <3> QED BY Zenon, <1>1, <3>2 DEF Content
  <2>6. SlotOfAgrees'
    <3> SUFFICES ASSUME NEW l \in NPin..(NLayers - 1), slot_of'[l] # None
                 PROVE  slot_of'[l] \in Slots /\ layer_of'[slot_of'[l]] = l
      BY Zenon DEF SlotOfAgrees
    <3>1. l \in Layers /\ l # None
      BY ConstantFacts DEF Layers, None
    <3>2. CASE l = L
      BY Zenon, <2>2, <3>2, TypeFacts
    <3>3. CASE l # L
      <4>1. slot_of[l] \in Slots /\ layer_of[slot_of[l]] = l
        BY Zenon, <2>2, <3>1, <3>3 DEF SlotOfAgrees
      <4> QED BY Zenon, <1>2, <2>2, <3>1, <3>3, <4>1
    <3> QED BY Zenon, <3>2, <3>3
  <2>7. HeldInv'
    BY <1>1, <1>2, <2>1, <2>2, <2>3, TypeFacts, ConstantFacts DEF HeldInv, Content
  <2>8. SpareInv'
    BY Zenon, <1>1, <1>2, <2>1 DEF SpareInv
  <2>9. ResidentInv'
    <3>1. Bound = L
      BY Zenon, <1>2 DEF Bound
    <3>2. Walking' => Bound' = L + 1
      BY Zenon, <1>1 DEF Walking, Bound, HasLayer
    <3> SUFFICES ASSUME Walking'
                 PROVE  /\ ManyStreamed => ManyStreamed'
                        /\ FewStreamed => FewStreamed'
      BY Zenon, <1>2 DEF ResidentInv
    <3>3. ManyStreamed => ManyStreamed'
      BY <1>1, <1>2, <2>2, <3>1, <3>2, TypeFacts, ConstantFacts DEF ManyStreamed
    <3>4. FewStreamed => FewStreamed'
      <4>1. \A s \in Slots : Taken(s) <=> layer_of[s] # None \/ s = ioSlot
        BY Zenon, <1>2 DEF Taken
      <4>2. \A s \in Slots : Taken(s)' <=> layer_of'[s] # None
        BY Zenon, <1>2 DEF Taken
      <4>3. L # None
        BY TypeFacts DEF None
      <4> QED BY <1>1, <1>2, <2>2, <3>1, <3>2, <4>1, <4>2, <4>3, TypeFacts, ConstantFacts DEF FewStreamed
    <3> QED BY Zenon, <3>3, <3>4
  <2> QED BY Zenon, <1>3, <1>4, <1>5, <2>4, <2>5, <2>6, <2>7, <2>8, <2>9
<1> QED BY Zenon, <1>6, <1>7

(* trunk_io_wait finds the request still running and sleeps. *)
LEMMA BlockKeeps ==
  ASSUME RingInv, TypeOK', Block, Pending, ioLayer = L, arg' = L,
         phase = "bind" \/ (phase = "binding" /\ pc = "wait"),
         phase' = "binding", L' = L
  PROVE  RingInv'
<1> USE DEF RingInv
<1>1. /\ pc' = "wait" /\ pc \in {"out", "wait"}
      /\ UNCHANGED <<ring, layer_of, slot_of, mem, busy, done, ioLayer, ioSlot, result,
                     stop, rpc, rLayer, rSlot, rgot, base, got, rc>>
  BY Zenon DEF Block, ControlInv, ringVars, ioVars, readerVars
<1>2. Pending' /\ ~Filling /\ ~Filling' /\ ~HasLayer /\ ~HasLayer' /\ Walking /\ Walking'
  BY Zenon, <1>1 DEF Pending, Filling, HasLayer, Walking, RequestInv
<1>3. ControlInv'
  BY Zenon, <1>1 DEF ControlInv
<1>4. RequestInv'
  BY Zenon, <1>1 DEF RequestInv, Pending, Content
<1>5. NamedInv' /\ PinInv' /\ SlotOfAgrees'
  BY Zenon, <1>1 DEF NamedInv, PinInv, SlotOfAgrees, Content
<1>6. FillInv' /\ HeldInv' /\ SpareInv'
  BY Zenon, <1>1, <1>2 DEF FillInv, HeldInv, SpareInv
<1>7. Bound' = Bound /\ \A s : Taken(s)' <=> Taken(s)
  BY Zenon, <1>1, <1>2 DEF Bound, Taken
<1>8. ResidentInv'
  BY Zenon, <1>1, <1>2, <1>7 DEF ResidentInv, ManyStreamed, FewStreamed
<1> QED BY Zenon, <1>3, <1>4, <1>5, <1>6, <1>8

(* One pread of the main thread. *)
LEMMA ReadChunkKeeps ==
  ASSUME RingInv, TypeOK', phase = "binding", ReadChunk, UNCHANGED <<L, phase>>
  PROVE  RingInv'
<1> USE DEF RingInv
<1>1. /\ UNCHANGED <<ring, layer_of, slot_of, busy, done, ioLayer, ioSlot, result, stop,
                     rpc, rLayer, rSlot, rgot, pc, arg, base, rc, L, phase>>
      /\ pc = "read" /\ got' = got + 1 /\ arg = L
      /\ Pending' <=> Pending
  BY Zenon DEF ReadChunk, ringVars, ioVars, readerVars, Pending, ControlInv
<1>2. /\ ~Pending /\ rpc # "read" /\ done = 0 /\ ~HasLayer /\ ~HasLayer'
  BY Zenon, <1>1 DEF RequestInv, Pending, HasLayer, TypeOK, TrunkTypeOK
<1>3. base \in Buffers /\ got + 1 \in Chunks /\ got \in Nat
  BY ConstantFacts DEF TypeOK, TrunkTypeOK, ReadChunk, Chunks
<1>4. /\ \A c \in Buffers \ {base} : mem'[c] = mem[c]
      /\ mem'[base][got + 1] = L
      /\ \A j \in Chunks \ {got + 1} : mem'[base][j] = mem[base][j]
  <2>1. mem' = [mem EXCEPT ![base][got + 1] = L]
    BY Zenon, <1>1 DEF ReadChunk
  <2> QED BY Zenon, <1>3, <2>1 DEF TypeOK, TrunkTypeOK
<1>5. ControlInv'
  BY Zenon, <1>1 DEF ControlInv
<1>6. RequestInv'
  BY Zenon, <1>1, <1>2 DEF RequestInv, Pending
<1>7. FillInv'
  <2>1. \A k \in 1..got' : mem'[base][k] = L
    <3>1. \A k \in 1..got : k \in Chunks \ {got + 1} /\ mem[base][k] = L
      BY <1>1, <1>3, ConstantFacts DEF FillInv, Chunks, ReadChunk
    <3>2. \A k \in 1..got' : k \in 1..got \/ k = got + 1
      BY <1>1, <1>3
    <3> QED BY <1>4, <3>1, <3>2
  <2> QED BY Zenon, <1>1, <2>1 DEF FillInv
<1>8. /\ \A s \in Slots : layer_of[s] # None => s # base
      /\ \A l \in Layers : l < NPin /\ l # L => PinBuf(l) \in Buffers \ {base}
  BY <1>1, TypeFacts, ConstantFacts DEF FillInv, PinBuf, Buffers, Slots, Layers
<1>9. NamedInv'
  BY <1>1, <1>4, <1>8, ConstantFacts DEF NamedInv, Content
<1>10. PinInv' /\ SlotOfAgrees'
  <2>1. L < NPin /\ slot_of[L] >= 0 => Content(base, L) /\ base = PinBuf(L)
    BY <1>1, TypeFacts, ConstantFacts DEF PinInv, FillInv, Layers
  <2>2. L < NPin /\ slot_of[L] >= 0 => Content(PinBuf(L), L)'
    BY Zenon, <1>1, <1>3, <1>4, <2>1 DEF Content
  <2> QED BY <1>1, <1>4, <1>8, <2>2 DEF PinInv, SlotOfAgrees, Content
<1>11. HeldInv'
  BY Zenon, <1>2 DEF HeldInv
<1>12. ResidentInv' /\ SpareInv'
  BY Zenon, <1>1, ResidentFrame
<1> QED BY Zenon, <1>5, <1>6, <1>7, <1>9, <1>10, <1>11, <1>12

(* A pread of the main thread fails. *)
LEMMA ReadErrorKeeps ==
  ASSUME RingInv, TypeOK', phase = "binding", ReadError, UNCHANGED <<L, phase>>
  PROVE  RingInv'
<1> USE DEF RingInv
<1>1. /\ UNCHANGED <<ring, layer_of, slot_of, mem, busy, done, ioLayer, ioSlot, result,
                     stop, rpc, rLayer, rSlot, rgot, arg, base, got, L, phase>>
      /\ pc = "read" /\ pc' = "out" /\ rc' = -1
  BY Zenon DEF ReadError, Fail, ringVars, ioVars, readerVars
<1>2. ~Pending /\ ~HasLayer' /\ ~Walking'
  BY <1>1 DEF RequestInv, Pending, HasLayer, Walking
<1>3. ControlInv'
  BY Zenon, <1>1 DEF ControlInv
<1>4. RequestInv'
  BY Zenon, <1>1, <1>2 DEF RequestInv, Pending, Content
<1>5. NamedInv' /\ PinInv' /\ SlotOfAgrees'
  BY Zenon, <1>1 DEF NamedInv, PinInv, SlotOfAgrees, Content
<1> QED BY Zenon, <1>1, <1>2, <1>3, <1>4, <1>5 DEF FillInv, HeldInv, SpareInv, ResidentInv

(* The last pread is in: name the buffer and hand it out. *)
LEMMA ReadDoneKeeps ==
  ASSUME RingInv, TypeOK', phase = "binding", ReadDone, UNCHANGED <<L, phase>>
  PROVE  RingInv'
<1> USE DEF RingInv
<1>1. /\ UNCHANGED <<ring, mem, busy, done, ioLayer, ioSlot, result,
                     stop, rpc, rLayer, rSlot, rgot, arg, base, got, L, phase>>
      /\ pc = "read" /\ pc' = "out" /\ arg = L
  BY Zenon DEF ReadDone, Return, ioVars, readerVars, ControlInv
<1>2. ~Pending /\ ~Pending' /\ ~HasLayer /\ ~Filling' /\ Walking /\ rpc # "read"
  BY Zenon, <1>1 DEF RequestInv, Pending, HasLayer, Walking, Filling
<1>3. Content(base, L)
  BY Zenon, <1>1 DEF FillInv, ReadDone, Content, Chunks
<1>4. ControlInv'
  BY Zenon, <1>1 DEF ControlInv
<1>5. RequestInv'
  BY Zenon, <1>1, <1>2 DEF RequestInv, Pending
<1>6. FillInv'
  BY Zenon, <1>1 DEF FillInv
<1>7. Bound = L
  BY Zenon, <1>2 DEF Bound
<1>8. Walking' => Bound' = L + 1
  BY Zenon, <1>1 DEF Walking, Bound, HasLayer
<1>9. CASE L < NPin
  <2>1. /\ UNCHANGED layer_of
        /\ slot_of' = [slot_of EXCEPT ![L] = L]
        /\ base = PinBuf(L) /\ ~Filling
    BY <1>1, <1>9, TypeFacts, ConstantFacts DEF ReadDone, FillInv, Filling
  <2>2. \A l \in Layers : l # L => slot_of'[l] = slot_of[l]
    BY Zenon, <2>1 DEF TypeOK, TrunkTypeOK
  <2>3. NamedInv'
    BY Zenon, <1>1, <2>1 DEF NamedInv, Content
  <2>4. PinInv'
    BY Zenon, <1>1, <1>3, <2>1, <2>2 DEF PinInv, Content
  <2>5. SlotOfAgrees'
    BY <1>9, <2>1, <2>2, TypeFacts, ConstantFacts DEF SlotOfAgrees, Layers
  <2>6. HeldInv' /\ SpareInv'
    <3>1. Content(base, L)'
      BY Zenon, <1>1, <1>3 DEF Content
    <3>2. ~(L >= NPin)
      BY <1>9, TypeFacts, ConstantFacts
    <3>3. L' = L /\ base' = PinBuf(L')
      BY Zenon, <1>1, <2>1
    <3> QED BY Zenon, <3>1, <3>2, <3>3 DEF HeldInv, SpareInv
  <2>7. ResidentInv'
    <3>1. \A s : Taken(s)' <=> Taken(s)
      BY Zenon, <1>1, <1>2, <2>1 DEF Taken
    <3>2. Walking' /\ ManyStreamed => ManyStreamed'
      BY <1>1, <1>2, <1>7, <1>8, <1>9, <2>1, TypeFacts, ConstantFacts DEF ManyStreamed, NamedInv
    <3>3. Walking' /\ FewStreamed => FewStreamed'
      BY <1>1, <1>2, <1>7, <1>8, <1>9, <2>1, <3>1, TypeFacts, ConstantFacts DEF FewStreamed
    <3> QED BY Zenon, <1>2, <3>2, <3>3 DEF ResidentInv
  <2> QED BY Zenon, <1>4, <1>5, <1>6, <2>3, <2>4, <2>5, <2>6, <2>7
<1>10. CASE L >= NPin
  <2>1. /\ UNCHANGED slot_of
        /\ layer_of' = [layer_of EXCEPT ![base] = L]
        /\ base \in Slots /\ layer_of[base] = None /\ Filling
        /\ HasReader => ring # base
    BY <1>1, <1>10, TypeFacts, ConstantFacts DEF ReadDone, FillInv, Filling
  <2>2. layer_of'[base] = L /\ \A s \in Slots : s # base => layer_of'[s] = layer_of[s]
    BY Zenon, <2>1 DEF TypeOK, TrunkTypeOK
  <2>3. NamedInv'
    BY Zenon, <1>1, <1>3, <1>10, <2>2 DEF NamedInv, Content
  <2>4. PinInv'
    BY Zenon, <1>1, <2>1 DEF PinInv, Content
  <2>5. SlotOfAgrees'
    <3> SUFFICES ASSUME NEW l \in NPin..(NLayers - 1), slot_of'[l] # None
                 PROVE  slot_of'[l] \in Slots /\ layer_of'[slot_of'[l]] = l
      BY Zenon DEF SlotOfAgrees
    <3>1. slot_of[l] \in Slots /\ layer_of[slot_of[l]] = l
      BY Zenon, <2>1 DEF SlotOfAgrees
    <3>2. l # None
      BY ConstantFacts DEF None
    <3> QED BY Zenon, <2>1, <2>2, <3>1, <3>2
  <2>6. HeldInv' /\ SpareInv'
    <3>1. Content(base, L)'
      BY Zenon, <1>1, <1>3 DEF Content
    <3>2. ~(L < NPin)
      BY <1>10, TypeFacts, ConstantFacts
    <3>3. L' = L /\ base' = base /\ ring' = ring
      BY Zenon, <1>1
    <3>4. HeldInv'
      BY Zenon, <2>1, <2>2, <3>1, <3>2, <3>3 DEF HeldInv
    <3>5. SpareInv'
      BY Zenon, <2>1, <3>3 DEF SpareInv, HasReader
    <3> QED BY Zenon, <3>4, <3>5
  <2>7. ResidentInv'
    <3> SUFFICES ASSUME Walking', HasReader
                 PROVE  /\ ManyStreamed => ManyStreamed'
                        /\ FewStreamed => FewStreamed'
      BY Zenon, <1>2 DEF ResidentInv
    <3>1. ManyStreamed => ManyStreamed'
      BY <1>1, <1>2, <1>7, <1>8, <1>10, <2>1, <2>2, TypeFacts, ConstantFacts DEF ManyStreamed
    <3>2. FewStreamed => FewStreamed'
      <4>1. \A s \in Slots : Taken(s) <=> layer_of[s] # None \/ s = base
        BY Zenon, <1>2, <2>1 DEF Taken
      <4>2. \A s \in Slots : Taken(s)' <=> layer_of'[s] # None
        BY Zenon, <1>2 DEF Taken
      <4>3. L # None
        BY TypeFacts DEF None
      <4> QED BY <1>1, <1>2, <1>7, <1>8, <1>10, <2>1, <2>2, <4>1, <4>2, <4>3, TypeFacts, ConstantFacts
              DEF FewStreamed
    <3> QED BY Zenon, <3>1, <3>2
  <2> QED BY Zenon, <1>4, <1>5, <1>6, <2>3, <2>4, <2>5, <2>6, <2>7
<1> QED BY <1>9, <1>10, TypeFacts, ConstantFacts

(* prefetch(L + 1) with nothing to do. *)
LEMMA PrefetchSkipKeeps ==
  ASSUME RingInv, TypeOK', Hint, PrefetchSkip(L + 1)
  PROVE  RingInv'
<1> USE DEF RingInv
<1>1. /\ phase = "hint" /\ phase' = "compute" /\ pc = "out" /\ ~Pending
      /\ UNCHANGED <<ring, layer_of, slot_of, mem, busy, done, ioLayer, ioSlot, result,
                     stop, rpc, rLayer, rSlot, rgot, pc, arg, base, got, rc, L>>
  BY Zenon DEF Hint, Prefetch, PrefetchSkip, RequestInv, Pending,
         trunkVars, ringVars, ioVars, readerVars, mainVars
<1>2. /\ ~Pending' /\ ~Filling /\ ~Filling' /\ HasLayer /\ HasLayer'
      /\ Walking /\ Walking'
  BY Zenon, <1>1 DEF Pending, Filling, HasLayer, Walking
<1>3. ControlInv'
  BY Zenon, <1>1 DEF ControlInv
<1>4. RequestInv'
  BY Zenon, <1>1, <1>2 DEF RequestInv, Pending, Content
<1>5. NamedInv' /\ PinInv' /\ SlotOfAgrees'
  BY Zenon, <1>1 DEF NamedInv, PinInv, SlotOfAgrees, Content
<1>6. FillInv' /\ HeldInv' /\ SpareInv'
  BY Zenon, <1>1, <1>2 DEF FillInv, HeldInv, SpareInv, Content
<1>7. Bound' = Bound /\ \A s : Taken(s)' <=> Taken(s)
  BY Zenon, <1>1, <1>2 DEF Bound, Taken
<1>8. ResidentInv'
  BY Zenon, <1>1, <1>2, <1>7 DEF ResidentInv, ManyStreamed, FewStreamed
<1> QED BY Zenon, <1>3, <1>4, <1>5, <1>6, <1>8

(* prefetch(L + 1) hands the spare slot to the reader. *)
LEMMA PrefetchClaimKeeps ==
  ASSUME RingInv, TypeOK', Hint, PrefetchClaim(L + 1)
  PROVE  RingInv'
<1> USE DEF RingInv
<1>1. /\ phase = "hint" /\ phase' = "compute" /\ pc = "out"
      /\ ioLayer' = L + 1 /\ ioSlot' = ring /\ busy' = 1 /\ done' = 0
      /\ UNCHANGED <<mem, result, stop, rpc, rLayer, rSlot, rgot,
                     pc, arg, base, got, rc, L>>
      /\ ClaimSlot
  BY Zenon DEF Hint, Prefetch, PrefetchClaim, readerVars, mainVars
<1>2. /\ L + 1 < NLayers /\ L + 1 >= NPin /\ HasReader
      /\ \A s \in Slots : layer_of[s] # L + 1
  BY TypeFacts, ConstantFacts DEF PrefetchClaim, PrefetchIdle
<1>3. /\ ~Pending /\ Pending' /\ ~Filling /\ ~Filling' /\ HasLayer /\ HasLayer'
      /\ Walking /\ Walking' /\ rpc # "read"
  BY Zenon, <1>1 DEF RequestInv, Pending, Filling, HasLayer, Walking
<1>4. /\ layer_of'[ring] = None
      /\ \A s \in Slots : s # ring => layer_of'[s] = layer_of[s]
      /\ ring' = 1 - ring
      /\ \A l \in Layers : l < NPin => slot_of'[l] = slot_of[l]
      /\ SlotOfAgrees'
  BY Zenon, <1>1, <1>2, ClaimFacts
<1>5. ring # base
  <2>1. CASE L >= NPin
    BY <1>1, <1>2, <1>3, <2>1, TypeFacts, ConstantFacts DEF SpareInv
  <2>2. CASE L < NPin
    BY <1>3, <2>2, TypeFacts, ConstantFacts DEF HeldInv, PinBuf, Slots
  <2> QED BY <2>1, <2>2, TypeFacts, ConstantFacts
<1>6. ControlInv'
  BY Zenon, <1>1 DEF ControlInv
<1>7. RequestInv'
  BY <1>1, <1>2, <1>3, <1>4, <1>5, TypeFacts DEF RequestInv, Pending
<1>8. NamedInv'
  BY Zenon, <1>1, <1>4 DEF NamedInv, Content
<1>9. PinInv'
  BY Zenon, <1>1, <1>4 DEF PinInv, Content
<1>10. FillInv'
  BY Zenon, <1>1 DEF FillInv
<1>11. HeldInv'
  BY Zenon, <1>1, <1>3, <1>4, <1>5 DEF HeldInv, Content
<1>12. SpareInv'
  BY Zenon, <1>1 DEF SpareInv
<1>13. ResidentInv'
  <2>1. Bound = L + 1 /\ Bound' = L + 1
    BY Zenon, <1>1, <1>3 DEF Bound
  <2>2. ManyStreamed => ManyStreamed'
    BY Zenon, <1>1, <1>3, <1>4, <2>1, TypeFacts, ConstantFacts DEF ManyStreamed
  <2>3. ASSUME NLayers - NPin < 3, FewStreamed
        PROVE  FewStreamed'
    <3>1. L + 1 = NPin \/ L + 1 = NPin + 1
      BY <1>2, <2>3, TypeFacts, ConstantFacts
    <3>2. \A s \in Slots : Taken(s) <=> layer_of[s] # None
      BY Zenon, <1>3 DEF Taken
    <3>3. \A s \in Slots : Taken(s)' <=> layer_of'[s] # None \/ s = ring
      BY Zenon, <1>1, <1>3 DEF Taken
    <3>4. L + 1 = NPin => layer_of[0] = None
      BY <1>2, <2>3, TypeFacts, ConstantFacts DEF FewStreamed
    <3>5. L + 1 = NPin + 1 => layer_of[0] # None /\ layer_of[1] = None
      BY <1>2, <2>1, <2>3, TypeFacts, ConstantFacts DEF FewStreamed
    <3>6. L + 1 = NPin + ring
      BY <1>2, <2>3, <3>1, <3>2, <3>4, <3>5, TypeFacts, ConstantFacts DEF FewStreamed
    <3> QED BY <1>1, <1>2, <1>3, <1>4, <2>1, <2>3, <3>1, <3>2, <3>3, <3>4, <3>5, <3>6, TypeFacts, ConstantFacts
            DEF FewStreamed
  <2> QED BY <1>2, <1>3, <2>2, <2>3, ConstantFacts DEF ResidentInv
<1> QED BY Zenon, <1>4, <1>6, <1>7, <1>8, <1>9, <1>10, <1>11, <1>12, <1>13

(* The initial state satisfies the invariant. *)
LEMMA RingInvInit == Init => RingInv
<1> SUFFICES ASSUME Init PROVE RingInv
  OBVIOUS
<1>1. TypeOK
  BY Zenon, TypeInit
<1>2. /\ phase = "idle" /\ pc = "out" /\ L = 0 /\ ring = 0 /\ stop = 0
      /\ busy = 0 /\ done = 0 /\ rpc = (IF HasReader THEN "lock" ELSE "none")
      /\ \A s \in Slots : layer_of[s] = None
      /\ \A l \in Layers : slot_of[l] = None
  BY Zenon DEF Init, TrunkInit
<1>3. ControlInv
  BY <1>2 DEF ControlInv
<1>4. RequestInv
  BY <1>2 DEF RequestInv, Pending
<1>5. NamedInv /\ PinInv /\ SlotOfAgrees
  BY <1>2, ConstantFacts DEF NamedInv, PinInv, SlotOfAgrees, None, Layers
<1>6. ~HasLayer /\ ~Filling /\ ~Pending /\ Bound = 0
  BY <1>2 DEF HasLayer, Filling, Pending, Bound
<1>7. FillInv /\ HeldInv /\ SpareInv
  BY Zenon, <1>2, <1>6 DEF FillInv, HeldInv, SpareInv
<1>8. ResidentInv
  BY <1>2, <1>6, TypeFacts, <1>1, ConstantFacts
     DEF ResidentInv, ManyStreamed, FewStreamed, Taken
<1> QED BY Zenon, <1>1, <1>3, <1>4, <1>5, <1>7, <1>8 DEF RingInv

(* Every step of either thread keeps the inductive invariant. *)
LEMMA RingInvStep ==
  ASSUME FullWalk, RingInv, [Next]_vars
  PROVE  RingInv'
<1>0. TypeOK'
  BY Zenon, TypeStep DEF RingInv
<1>1. CASE StartForward
  BY Zenon, <1>0, <1>1, StartForwardKeeps
<1>2. CASE CallBind
  <2>1. CASE BindPinHit(L)
    BY Zenon, <1>0, <1>2, <2>1, BindPinHitKeeps
  <2>2. CASE BindPinMiss(L)
    BY Zenon, <1>0, <1>2, <2>2, BindPinMissKeeps
  <2>3. CASE BindPrefetched(L)
    <3>1. Pending /\ ioLayer = L /\ arg' = L /\ phase = "bind" /\ phase' = "binding" /\ L' = L
      BY Zenon, <1>2, <2>3 DEF BindPrefetched, Requested, Pending, CallBind, Bind
    <3> QED BY Zenon, <1>0, <2>3, <3>1, ConsumeKeeps, BlockKeeps DEF BindPrefetched
  <2>4. CASE BindRingHit(L)
    BY Zenon, <1>0, <1>2, <2>4, BindRingHitKeeps
  <2>5. CASE BindRingMiss(L)
    BY Zenon, <1>0, <1>2, <2>5, BindRingMissKeeps
  <2> QED BY Zenon, <1>2, <2>1, <2>2, <2>3, <2>4, <2>5 DEF CallBind, Bind
<1>3. CASE BindStep
  <2>1. phase = "binding" /\ UNCHANGED <<L, phase>> /\ arg = L
    BY Zenon, <1>3 DEF BindStep, RingInv, ControlInv
  <2>2. CASE Awake
    <3>1. pc = "wait" /\ arg' = L /\ (Consume(L) \/ Block)
      BY Zenon, <2>1, <2>2 DEF Awake
    <3>2. CASE Pending
      <4>1. ioLayer = L
        BY Zenon, <2>1, <3>2 DEF RingInv, RequestInv
      <4> QED BY Zenon, <1>0, <2>1, <3>1, <3>2, <4>1, ConsumeKeeps, BlockKeeps
    <3>3. CASE ~Pending
      <4>1. Block
        BY Zenon, <3>1, <3>3 DEF Consume, Pending
      <4>2. UNCHANGED <<ring, layer_of, slot_of, mem, busy, done, ioLayer, ioSlot,
                        result, stop, rpc, rLayer, rSlot, rgot, pc, arg, base, got,
                        rc, L, phase>>
        BY Zenon, <2>1, <3>1, <4>1 DEF Block, ringVars, ioVars, readerVars
      <4> QED BY Zenon, <1>0, <4>2, SleepKeeps
    <3> QED BY Zenon, <3>2, <3>3
  <2>3. CASE ReadChunk
    BY Zenon, <1>0, <2>1, <2>3, ReadChunkKeeps
  <2>4. CASE ReadError
    BY Zenon, <1>0, <2>1, <2>4, ReadErrorKeeps
  <2>5. CASE ReadDone
    BY Zenon, <1>0, <2>1, <2>5, ReadDoneKeeps
  <2> QED BY Zenon, <1>3, <2>2, <2>3, <2>4, <2>5 DEF BindStep, InBind
<1>4. CASE BindReturns
  BY Zenon, <1>0, <1>4, BindReturnsKeeps
<1>5. CASE Hint
  BY Zenon, <1>0, <1>5, PrefetchSkipKeeps, PrefetchClaimKeeps DEF Hint, Prefetch
<1>6. CASE Compute
  BY Zenon, <1>0, <1>6, ComputeKeeps
<1>7. CASE ForwardAgain
  BY Zenon, <1>7 DEF ForwardAgain, FullWalk
<1>8. CASE CallClose \/ CloseReturns
  BY Zenon, <1>0, <1>8, CloseKeeps
<1>9. CASE ReaderStep
  BY Zenon, <1>0, <1>9, ReaderQuietKeeps, ReaderChunkKeeps, ReaderReportsKeeps DEF ReaderStep, Reader
<1>10. CASE Wakeup \/ UNCHANGED vars
  <2>1. UNCHANGED <<ring, layer_of, slot_of, mem, busy, done, ioLayer, ioSlot, result,
                    stop, rpc, rLayer, rSlot, rgot, pc, arg, base, got, rc, L, phase>>
    BY Zenon, <1>10 DEF Wakeup, SpuriousWakeup, vars, trunkVars, ringVars, ioVars, readerVars, mainVars
  <2> QED BY Zenon, <1>0, <2>1, SleepKeeps
<1> QED BY Zenon, <1>1, <1>2, <1>3, <1>4, <1>5, <1>6, <1>7, <1>8, <1>9, <1>10
        DEF Next, Main, Terminated

(* The invariant holds of every run. *)
LEMMA RingInvHolds ==
  ASSUME FullWalk
  PROVE  Spec => []RingInv
<1>1. Init => RingInv
  BY Zenon, RingInvInit
<1>2. RingInv /\ [Next]_vars => RingInv'
  BY Zenon, RingInvStep
<1> QED BY <1>1, <1>2, PTL DEF Spec

(* A pass over the whole trunk always computes on the bytes of the layer   *)
(* it asked for, whatever the reader thread is doing meanwhile.            *)
THEOREM ComputeSafe ==
  ASSUME FullWalk
  PROVE  Spec => []ComputeSeesOwnLayer
<1>1. RingInv => ComputeSeesOwnLayer
  BY Zenon DEF RingInv, HeldInv, HasLayer, ComputeSeesOwnLayer
<1> QED BY <1>1, RingInvHolds, PTL

(* A slot's name is never ahead of its bytes. *)
THEOREM PublishedSafe ==
  ASSUME FullWalk
  PROVE  Spec => []PublishedIsComplete
<1>1. RingInv => PublishedIsComplete
  BY Zenon DEF RingInv, NamedInv, PublishedIsComplete
<1> QED BY <1>1, RingInvHolds, PTL

(* The main thread and the reader are never inside load_run together, and  *)
(* the reader is idle between two passes.                                  *)
THEOREM HintsSafe ==
  ASSUME FullWalk
  PROVE  Spec => [](OneLoadAtATime /\ HintNeverWrong)
<1>1. RingInv => OneLoadAtATime
  BY Zenon DEF RingInv, ControlInv, RequestInv, Pending, OneLoadAtATime
<1>2. RingInv => HintNeverWrong
  BY Zenon DEF RingInv, TypeOK, TrunkTypeOK, RequestInv, Pending, HintNeverWrong
<1> QED BY <1>1, <1>2, RingInvHolds, PTL

(* k3_trunk_close frees no buffer the reader may still write. *)
THEOREM CloseSafe ==
  ASSUME FullWalk
  PROVE  Spec => []NoReadAfterFree
<1>1. RingInv => NoReadAfterFree
  BY Zenon DEF RingInv, TypeOK, ControlInv, NoReadAfterFree
<1> QED BY <1>1, RingInvHolds, PTL

-----------------------------------------------------------------------------
(* What the computation reads is the layer it asked for. *)
LEMMA SeenIsLayer ==
  ASSUME RingInv, phase \in {"hint", "compute"}
  PROVE  Seen(base) = L
<1>1. L \in Layers /\ Content(base, L)
  BY TypeFacts, ConstantFacts DEF RingInv, HeldInv, HasLayer, Layers
<1>2. \A l \in Layers : Content(base, l) => l = L
  <2>1. 1 \in Chunks
    BY ConstantFacts DEF Chunks
  <2> QED BY <1>1, <2>1 DEF Content
<1> QED BY Zenon, <1>1, <1>2 DEF Seen

(* The ring with its reader thread implements the synchronous layer feed:  *)
(* layers in order, each computed on with its own bytes, until the first   *)
(* failure or the close.                                                   *)
THEOREM FeedRefinement ==
  ASSUME FullWalk
  PROVE  Spec => ImplementsLayerFeed
<1> DEFINE W == IF phase \in {"hint", "compute"} THEN Seen(base) ELSE -1
           S == IF phase \in {"failed", "closed"} THEN phase ELSE "running"
<1>1. Init => Feed!FeedInit
  BY Zenon DEF Init, Feed!FeedInit
<1>2. RingInv /\ RingInv' /\ [Next]_vars => [Feed!FeedNext]_(Feed!feedVars)
  <2> SUFFICES ASSUME RingInv, RingInv', [Next]_vars
               PROVE  Feed!FeedNext \/ UNCHANGED <<L, W, S>>
    BY Zenon DEF Feed!feedVars
  <2>1. W = IF phase \in {"hint", "compute"} THEN L ELSE -1
    BY Zenon, SeenIsLayer
  <2>2. W' = IF phase' \in {"hint", "compute"} THEN L' ELSE -1
    <3>1. (Seen(base) = L)' \/ ~(phase \in {"hint", "compute"})'
      BY SeenIsLayer, PTL
    <3> QED BY Zenon, <3>1
  <2>3. L \in 0..(NBound - 1)
    BY Zenon DEF RingInv, TypeOK
  <2> HIDE DEF W
  <2>4. CASE UNCHANGED <<L, phase>>
    BY Zenon, <2>1, <2>2, <2>4
  <2>5. CASE StartForward
    BY Zenon, <2>1, <2>2, <2>5 DEF StartForward, RingInv, ControlInv
  <2>6. CASE CallBind
    BY Zenon, <2>1, <2>2, <2>6 DEF CallBind
  <2>7. CASE BindReturns
    <3>1. W = -1 /\ S = "running" /\ L' = L
      BY Zenon, <2>1, <2>7 DEF BindReturns
    <3>2. CASE rc = 0
      <4>1. W' = L /\ S' = "running"
        BY Zenon, <2>2, <2>7, <3>1, <3>2 DEF BindReturns
      <4> QED BY Zenon, <3>1, <4>1 DEF Feed!FeedNext, Feed!Deliver, W
    <3>3. CASE rc # 0
      <4>1. W' = -1 /\ S' = "failed"
        BY Zenon, <2>2, <2>7, <3>1, <3>3 DEF BindReturns
      <4> QED BY Zenon, <3>1, <4>1 DEF Feed!FeedNext, Feed!GiveUp, W
    <3> QED BY Zenon, <3>2, <3>3
  <2>8. CASE Hint
    BY Zenon, <2>1, <2>2, <2>8 DEF Hint
  <2>9. CASE Compute
    <3>1. W = L /\ S = "running" /\ W' = -1 /\ S' = "running"
      BY Zenon, <2>1, <2>2, <2>9 DEF Compute
    <3>2. L' = (IF L + 1 = NBound THEN 0 ELSE L + 1)
      BY <2>3, <2>9, ConstantFacts DEF Compute
    <3> QED BY Zenon, <3>1, <3>2 DEF Feed!FeedNext, Feed!Consumed, W
  <2>10. CASE ForwardAgain
    BY Zenon, <2>10 DEF ForwardAgain, FullWalk
  <2>11. CASE CallClose
    <3>1. W = -1 /\ W' = -1 /\ S' = "closed" /\ L' = L
      BY Zenon, <2>1, <2>2, <2>11 DEF CallClose
    <3> QED BY Zenon, <3>1 DEF Feed!FeedNext, Feed!Shut, W
  <2> QED BY Zenon, <2>4, <2>5, <2>6, <2>7, <2>8, <2>9, <2>10, <2>11
          DEF Next, Main, BindStep, CloseReturns, ReaderStep, Wakeup, Terminated, vars
<1> QED BY <1>1, <1>2, RingInvHolds, PTL DEF Spec, ImplementsLayerFeed, Feed!FeedSpec
=============================================================================
