------------------------------ MODULE TrunkRing ------------------------------
(***************************************************************************)
(* The trunk streamer of src/src/io/k3_trunk.c: a pinned prefix of layers, *)
(* a ring of NSlot uniform slots for the others, and (with two slots) one  *)
(* asynchronous reader thread that fills the slot the next layer will use. *)
(*                                                                         *)
(* The forward pass calls bind, prefetch and close from the main thread;   *)
(* module ForwardWalk says in which order.  Each critical section of the   *)
(* mutex io->mu is one action.  load_run is a loop of preads: every pread  *)
(* that fills one more chunk of the buffer is an action of its own, so the *)
(* two threads interleave inside a read.                                   *)
(***************************************************************************)
EXTENDS Integers

CONSTANTS
  NLayers,    \* tr->n_layers, layers in the packed trunk
  NPin,       \* tr->npin, layers 0..NPin-1 own a buffer each
  NSlot,      \* tr->nslot, the ring size k3_trunk_open settled on
  NChunk,     \* preads that load one layer
  BadLayers   \* layers whose packed tensors k3_bind_layer_mem refuses

ASSUME RingAssumption ==
  /\ NLayers \in Nat \ {0}
  /\ NPin \in 0..NLayers
  /\ NSlot \in {1, 2}
  /\ NChunk \in Nat \ {0}
  /\ BadLayers \subseteq 0..(NLayers - 1)

Layers == 0..(NLayers - 1)
Slots == 0..(NSlot - 1)
Chunks == 1..NChunk
None == -1

(* One buffer per ring slot, then one per pinned layer. *)
Buffers == 0..(NSlot + NPin - 1)
PinBuf(l) == NSlot + l

(* k3_trunk_open starts the reader only when the ring has two slots. *)
HasReader == NSlot >= 2

VARIABLES
  ring,      \* next ring slot to reuse
  layer_of,  \* [Slots -> layer or None], what each ring slot is published as
  slot_of,   \* [Layers -> slot or None]; not set by bind's synchronous path
  mem,       \* the bytes: which layer each chunk of each buffer comes from
  busy, done, ioLayer, ioSlot, result, stop,   \* struct K3TrunkIO
  cv,        \* threads blocked in pthread_cond_wait on io->cv
  rpc, rLayer, rSlot, rgot,                    \* the reader thread
  pc, arg, base, got, rc    \* the main thread: where it is inside a trunk
                            \* call, for which layer, on which buffer, chunks
                            \* read so far, and the last bind's return code

ringVars == <<ring, layer_of, slot_of>>
ioVars == <<busy, done, ioLayer, ioSlot, result, stop>>
readerVars == <<rpc, rLayer, rSlot, rgot>>
mainVars == <<pc, arg, base, got, rc>>
trunkVars == <<ringVars, mem, ioVars, cv, readerVars, mainVars>>

Content(b, l) == \A k \in Chunks : mem[b][k] = l

(* What k3_trunk_open leaves behind once sizing and allocation succeeded. *)
TrunkInit ==
  /\ ring = 0
  /\ layer_of = [s \in Slots |-> None]
  /\ slot_of = [l \in Layers |-> None]
  /\ mem = [b \in Buffers |-> [k \in Chunks |-> None]]
  /\ busy = 0 /\ done = 0 /\ ioLayer = 0 /\ ioSlot = 0
  /\ result = 0 /\ stop = 0
  /\ cv = {}
  /\ rpc = (IF HasReader THEN "lock" ELSE "none")
  /\ rLayer = 0 /\ rSlot = 0 /\ rgot = 0
  /\ pc = "out" /\ arg = 0 /\ base = 0 /\ got = 0 /\ rc = 0

-----------------------------------------------------------------------------
(* pthread_cond_signal and pthread_cond_broadcast on io->cv. *)

Signal ==
  \/ cv = {} /\ cv' = {}
  \/ \E t \in cv : cv' = cv \ {t}

(* Mutant: the broadcast is forgotten. *)
Broadcast_Forgotten == UNCHANGED cv

Broadcast == cv' = {}

(* POSIX lets a waiter return from pthread_cond_wait without a signal. *)
SpuriousWakeup ==
  /\ \E t \in cv : cv' = cv \ {t}
  /\ UNCHANGED <<ringVars, mem, ioVars, readerVars, mainVars>>

-----------------------------------------------------------------------------
(* k3_trunk_bind. *)

(* The tail of bind: k3_bind_layer_mem binds l to the bytes at buffer b. *)
Return(l, b) ==
  /\ pc' = "out"
  /\ base' = b
  /\ rc' = (IF l \in BadLayers THEN -1 ELSE 0)

Fail ==
  /\ pc' = "out"
  /\ rc' = -1
  /\ UNCHANGED base

(* The slot about to be overwritten loses its name before the first byte. *)
ClaimSlot ==
  /\ ring' = (ring + 1) % NSlot
  /\ layer_of' = [layer_of EXCEPT ![ring] = None]
  /\ slot_of' = IF layer_of[ring] >= 0
                THEN [slot_of EXCEPT ![layer_of[ring]] = None]
                ELSE slot_of

StartRead(l, b) ==
  /\ pc' = "read"
  /\ base' = b
  /\ got' = 0
  /\ UNCHANGED rc

BindPinHit(l) ==
  /\ l < NPin
  /\ slot_of[l] >= 0
  /\ Return(l, PinBuf(l))
  /\ UNCHANGED <<ringVars, mem, ioVars, cv, readerVars, got>>

BindPinMiss(l) ==
  /\ l < NPin
  /\ slot_of[l] < 0
  /\ StartRead(l, PinBuf(l))
  /\ UNCHANGED <<ringVars, mem, ioVars, cv, readerVars>>

(* trunk_io_wait: is the reader's current or finished request for l? *)
Requested(l) == HasReader /\ (busy = 1 \/ done = 1) /\ ioLayer = l

(* Mutant: the slot is consumed without waiting for the reader. *)
Consume_Early(l) ==
  /\ done' = 0
  /\ layer_of' = [layer_of EXCEPT ![ioSlot] = l]
  /\ slot_of' = [slot_of EXCEPT ![l] = ioSlot]
  /\ Return(l, ioSlot)
  /\ UNCHANGED <<ring, mem, busy, ioLayer, ioSlot, result, stop, cv,
                 readerVars, got>>

(* trunk_io_wait once done is set: publish a good read, drop a bad one. *)
Consume(l) ==
  /\ done = 1
  /\ done' = 0
  /\ \/ /\ result = 0
        /\ layer_of' = [layer_of EXCEPT ![ioSlot] = l]
        /\ slot_of' = [slot_of EXCEPT ![l] = ioSlot]
        /\ Return(l, ioSlot)
     \/ /\ result # 0
        /\ Fail
        /\ UNCHANGED <<layer_of, slot_of>>
  /\ UNCHANGED <<ring, mem, busy, ioLayer, ioSlot, result, stop, cv,
                 readerVars, got>>

Block ==
  /\ done = 0
  /\ pc' = "wait"
  /\ cv' = cv \cup {"main"}
  /\ UNCHANGED <<ringVars, mem, ioVars, readerVars, base, got, rc>>

BindPrefetched(l) ==
  /\ l >= NPin
  /\ Requested(l)
  /\ Consume(l) \/ Block

BindRingHit(l) ==
  /\ l >= NPin
  /\ ~Requested(l)
  /\ \E s \in Slots : layer_of[s] = l /\ Return(l, s)
  /\ UNCHANGED <<ringVars, mem, ioVars, cv, readerVars, got>>

BindRingMiss(l) ==
  /\ l >= NPin
  /\ ~Requested(l)
  /\ \A s \in Slots : layer_of[s] # l
  /\ ClaimSlot
  /\ StartRead(l, ring)
  /\ UNCHANGED <<mem, ioVars, cv, readerVars>>

Bind(l) ==
  /\ pc = "out"
  /\ arg' = l
  /\ \/ BindPinHit(l)
     \/ BindPinMiss(l)
     \/ BindPrefetched(l)
     \/ BindRingHit(l)
     \/ BindRingMiss(l)

(* The while loop around pthread_cond_wait in trunk_io_wait.  stop is set  *)
(* by this same thread, in Close, so it is 0 here.                         *)
Awake ==
  /\ pc = "wait"
  /\ "main" \notin cv
  /\ Consume(arg) \/ Block
  /\ UNCHANGED arg

(* load_run on the main thread: one pread ... *)
ReadChunk ==
  /\ pc = "read"
  /\ got < NChunk
  /\ mem' = [mem EXCEPT ![base][got + 1] = arg]
  /\ got' = got + 1
  /\ UNCHANGED <<ringVars, ioVars, cv, readerVars, pc, arg, base, rc>>

(* ... that may also fail, leaving a partly overwritten, unnamed buffer. *)
ReadError ==
  /\ pc = "read"
  /\ got < NChunk
  /\ Fail
  /\ UNCHANGED <<ringVars, mem, ioVars, cv, readerVars, arg, got>>

ReadDone ==
  /\ pc = "read"
  /\ got = NChunk
  /\ \/ /\ arg < NPin
        /\ slot_of' = [slot_of EXCEPT ![arg] = arg]
        /\ UNCHANGED layer_of
     \/ /\ arg >= NPin
        /\ layer_of' = [layer_of EXCEPT ![base] = arg]
        /\ UNCHANGED slot_of
  /\ Return(arg, base)
  /\ UNCHANGED <<ring, mem, ioVars, cv, readerVars, arg, got>>

InBind == Awake \/ ReadChunk \/ ReadError \/ ReadDone

-----------------------------------------------------------------------------
(* k3_trunk_prefetch: hand layer l to the reader, or do nothing. *)

PrefetchIdle(l) ==
  \/ l >= NLayers
  \/ l < NPin
  \/ \E s \in Slots : layer_of[s] = l
  \/ ~HasReader
  \/ busy = 1
  \/ l \in Layers /\ slot_of[l] >= 0

PrefetchSkip(l) ==
  /\ PrefetchIdle(l)
  /\ UNCHANGED trunkVars

PrefetchClaim(l) ==
  /\ ~PrefetchIdle(l)
  /\ ClaimSlot
  /\ ioLayer' = l
  /\ ioSlot' = ring
  /\ done' = 0
  /\ busy' = 1
  /\ Signal
  /\ UNCHANGED <<mem, result, stop, readerVars, mainVars>>

Prefetch(l) == pc = "out" /\ (PrefetchSkip(l) \/ PrefetchClaim(l))

-----------------------------------------------------------------------------
(* trunk_io_main, the reader thread. *)

ReaderTakes ==
  /\ rpc = "lock"
  /\ "reader" \notin cv
  /\ stop = 0
  /\ busy = 1
  /\ rpc' = "read"
  /\ rLayer' = ioLayer
  /\ rSlot' = ioSlot
  /\ rgot' = 0
  /\ UNCHANGED <<ringVars, mem, ioVars, cv, mainVars>>

ReaderWaits ==
  /\ rpc = "lock"
  /\ "reader" \notin cv
  /\ stop = 0
  /\ busy = 0
  /\ cv' = cv \cup {"reader"}
  /\ UNCHANGED <<ringVars, mem, ioVars, readerVars, mainVars>>

ReaderExits ==
  /\ rpc = "lock"
  /\ "reader" \notin cv
  /\ stop = 1
  /\ rpc' = "exit"
  /\ UNCHANGED <<ringVars, mem, ioVars, cv, rLayer, rSlot, rgot, mainVars>>

ReaderChunk ==
  /\ rpc = "read"
  /\ rgot < NChunk
  /\ mem' = [mem EXCEPT ![rSlot][rgot + 1] = rLayer]
  /\ rgot' = rgot + 1
  /\ UNCHANGED <<ringVars, ioVars, cv, rpc, rLayer, rSlot, mainVars>>

(* Mutant: a short read is reported as a good one. *)
ReaderReports_AlwaysGood ==
  /\ rpc = "read"
  /\ result' = 0
  /\ done' = 1
  /\ busy' = 0
  /\ Broadcast
  /\ rpc' = "lock"
  /\ UNCHANGED <<ringVars, mem, ioLayer, ioSlot, stop, rLayer, rSlot, rgot,
                 mainVars>>

(* The second critical section: a short read reports -1, a full one 0. *)
ReaderReports ==
  /\ rpc = "read"
  /\ result' = (IF rgot = NChunk THEN 0 ELSE -1)
  /\ done' = 1
  /\ busy' = 0
  /\ Broadcast
  /\ rpc' = "lock"
  /\ UNCHANGED <<ringVars, mem, ioLayer, ioSlot, stop, rLayer, rSlot, rgot,
                 mainVars>>

Reader ==
  \/ ReaderTakes
  \/ ReaderWaits
  \/ ReaderExits
  \/ ReaderChunk
  \/ ReaderReports

-----------------------------------------------------------------------------
(* k3_trunk_close: stop the reader, join it, free every buffer. *)

(* Mutant: close raises stop and does not wake the reader. *)
Close_NoSignal ==
  /\ pc = "out"
  /\ \/ /\ HasReader
        /\ stop' = 1
        /\ pc' = "join"
     \/ /\ ~HasReader
        /\ pc' = "freed"
        /\ UNCHANGED stop
  /\ UNCHANGED <<ringVars, mem, busy, done, ioLayer, ioSlot, result, cv,
                 readerVars, arg, base, got, rc>>

Close ==
  /\ pc = "out"
  /\ \/ /\ HasReader
        /\ stop' = 1
        /\ Signal
        /\ pc' = "join"
     \/ /\ ~HasReader
        /\ pc' = "freed"
        /\ UNCHANGED <<stop, cv>>
  /\ UNCHANGED <<ringVars, mem, busy, done, ioLayer, ioSlot, result,
                 readerVars, arg, base, got, rc>>

(* Mutant: the buffers are freed without joining the reader. *)
Join_NoWait ==
  /\ pc = "join"
  /\ pc' = "freed"
  /\ UNCHANGED <<ringVars, mem, ioVars, cv, readerVars, arg, base, got, rc>>

Join ==
  /\ pc = "join"
  /\ rpc = "exit"
  /\ pc' = "freed"
  /\ UNCHANGED <<ringVars, mem, ioVars, cv, readerVars, arg, base, got, rc>>

-----------------------------------------------------------------------------
TrunkTypeOK ==
  /\ ring \in Slots
  /\ layer_of \in [Slots -> Layers \cup {None}]
  /\ slot_of \in [Layers -> Layers \cup Slots \cup {None}]
  /\ mem \in [Buffers -> [Chunks -> Layers \cup {None}]]
  /\ busy \in {0, 1} /\ done \in {0, 1} /\ stop \in {0, 1}
  /\ ioLayer \in Layers /\ ioSlot \in Slots /\ result \in {0, -1}
  /\ cv \in SUBSET {"main", "reader"}
  /\ rpc \in {"none", "lock", "read", "exit"}
  /\ rLayer \in Layers /\ rSlot \in Slots /\ rgot \in 0..NChunk
  /\ pc \in {"out", "wait", "read", "join", "freed"}
  /\ arg \in Layers /\ base \in Buffers /\ got \in 0..NChunk
  /\ rc \in {0, -1}
=============================================================================
