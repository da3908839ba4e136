------------------------------- MODULE Shards -------------------------------
(***************************************************************************)
(* The checkpoint reader: src/src/io/k3_st.c (the shards of a checkpoint,  *)
(* the index of their tensors, the reads) and src/src/io/k3_load.c (where  *)
(* an expert's six tensors are and how they are fetched).                  *)
(*                                                                         *)
(* A file is its size, the length of its header and the header's entries;  *)
(* byte p of shard i is the pair <<i, p>>, so that a buffer says where     *)
(* each of its bytes came from.  A pread may return less than was asked    *)
(* for, or fail, at every call.                                            *)
(***************************************************************************)
EXTENDS Integers, Sequences, TLC, FiniteSetsExt

CONSTANTS ALIGN,        \* K3_ST_ALIGN
          GROUP,        \* K3_MXFP4_GROUP
          CHUNK,        \* K3_WIDEN_CHUNK
          MinBuckets,   \* the 1024 of k3_st_open
          Names,        \* every name a caller may ask for
          Hashes,       \* functions on Names that fnv1a may be
          Sample,       \* names of tensors that are also read on their own
          NExperts

ASSUME ShardsAssumption ==
  /\ {ALIGN, GROUP, CHUNK, MinBuckets, NExperts} \subseteq Nat \ {0}
  /\ CHUNK >= 4                             \* at least one element of any format
  /\ \A h \in Hashes : h \in [Names -> Nat]

Vec(f) == f \o <<>>         \* f itself; TLC then evaluates each element once

None == [name |-> <<"none">>]
Stale == <<0, 0>>           \* a byte of a buffer that was never written
Metadata == <<"__metadata__">>
PREFIX == 8                 \* the header length in front of the header

(* What a header can say, and a file. *)
Entries == [name : {Metadata}]
           \cup [name : Names, dtype : STRING, shape : Seq(Nat), o0 : Nat, o1 : Nat]
Files == [fsize : Nat, hlen : Nat, entries : Seq(Entries)]

VARIABLES
  dir, hash,   \* the files, in the order of qsort, and fnv1a; neither changes
  st,          \* K3St: phase, t, nb, bucket, and the descriptors it records
  fds,         \* the descriptors that are open
  io           \* the read in progress or the last one

shardVars == <<dir, hash, st, fds, io>>

-----------------------------------------------------------------------------
(* The sums of the beginnings of a list of numbers. *)
Sums(s) == LET n[k \in 0..Len(s)] == IF k = 0 THEN 0 ELSE n[k - 1] + s[k] IN n

elemsize(d) == CASE d = "U8" -> 1 [] d \in {"BF16", "F16"} -> 2 [] d = "F32" -> 4

numel(t) ==
  LET n[k \in 0..Len(t.shape)] == IF k = 0 THEN 1 ELSE n[k - 1] * t.shape[k]
  IN  n[Len(t.shape)]

(* One header entry passes: a known dtype and offsets are there, the rank  *)
(* is at most 4, the span is what the shape implies and ends in the file.  *)
EntryOk(f, e) ==
  e.name # Metadata =>
    /\ e.dtype \in {"U8", "BF16", "F16", "F32"}
    /\ Len(e.shape) <= 4
    /\ e.o1 - e.o0 = numel(e) * elemsize(e.dtype)
    /\ PREFIX + f.hlen + e.o1 <= f.fsize

HeaderOk(f) ==
  /\ f.hlen > 0 /\ f.fsize >= PREFIX + f.hlen
  /\ \A k \in 1..Len(f.entries) : EntryOk(f, f.entries[k])

Tensor(f, i, e) ==
  [name |-> e.name, shard |-> i, dtype |-> e.dtype, shape |-> e.shape,
   off |-> PREFIX + f.hlen + e.o0, nbytes |-> e.o1 - e.o0]

(* The tensors of file f, which is shard i, in the order of its header. *)
Tensors(f, i) ==
  LET es == f.entries
      t[k \in 0..Len(es)] ==
        IF k = 0 THEN <<>>
        ELSE IF es[k].name = Metadata THEN t[k - 1] ELSE Append(t[k - 1], Tensor(f, i, es[k]))
  IN  t[Len(es)]

Closed == [phase |-> "closed", t |-> <<>>, nb |-> 0, bucket |-> <<>>, fd |-> {}, dfd |-> {}]
Held == {<<"fd", i>> : i \in st.fd} \cup {<<"dfd", i>> : i \in st.dfd}

(* k3_st_close: every descriptor the structure records. *)
st_close == st' = Closed /\ fds' = fds \ Held

-----------------------------------------------------------------------------
(* The first position, from the hash on and around the end, where the      *)
(* bucket is empty or holds the name; nb when the walk never ends.         *)
At(name, d, nb) == (hash[name] + d) % nb
EndsWalk(b, ts, name, j) == b[j] = 0 \/ ts[b[j]].name = name

Probe(b, ts, nb, name) ==
  LET stop(d) == EndsWalk(b, ts, name, At(name, d, nb))
  IN  IF \A d \in 0..(nb - 1) : ~stop(d) THEN nb
      ELSE At(name, CHOOSE d \in 0..(nb - 1) : stop(d) /\ \A e \in 0..(d - 1) : ~stop(e), nb)

(* The table doubles until at most half of it will be used. *)
NBuckets(n) ==
  LET nb[k \in 0..n] == IF k = 0 THEN MinBuckets ELSE 2 * nb[k - 1]
  IN  nb[CHOOSE k \in 0..n : nb[k] >= 2 * n /\ \A m \in 0..(k - 1) : nb[m] < 2 * n]

(* The table with the i-th tensor too; a name met twice ends it. *)
Insert(p, ts, nb, i) ==
  LET j == Probe(p.b, ts, nb, ts[i].name)
  IN  IF p.ok /\ p.b[j] = 0 THEN [ok |-> TRUE, b |-> [p.b EXCEPT ![j] = i]]
      ELSE [ok |-> FALSE, b |-> p.b]

Table(ts, nb) ==
  LET tab[i \in 0..Len(ts)] ==
        IF i = 0 THEN [ok |-> TRUE, b |-> [j \in 0..(nb - 1) |-> 0]]
        ELSE Insert(tab[i - 1], ts, nb, i)
  IN  tab[Len(ts)]

(* Mutant: the walk does not go around the end of the table. *)
st_find_NoWrap(name) ==
  IF st.phase # "open" THEN None
  ELSE LET home == hash[name] % st.nb
           j == Probe(st.bucket, st.t, st.nb, name)
       IN  IF j < home \/ st.bucket[j] = 0 THEN None ELSE st.t[st.bucket[j]]

st_find(name) ==
  IF st.phase # "open" THEN None
  ELSE LET j == Probe(st.bucket, st.t, st.nb, name)
       IN  IF st.bucket[j] = 0 THEN None ELSE st.t[st.bucket[j]]

(* k3_st_open. *)
StartOpen ==
  /\ st.phase = "closed" /\ dir # <<>>
  /\ st' = [Closed EXCEPT !.phase = "scan"]
  /\ UNCHANGED <<dir, hash, fds, io>>

Turn == Cardinality(st.fd) + 1      \* the shard scan_shard is called for

(* scan_shard: a shard joins with its descriptor, and with a second one    *)
(* if the filesystem grants O_DIRECT ...                                   *)
ScanShard(direct) ==
  /\ st.phase = "scan" /\ Turn <= Len(dir) /\ HeaderOk(dir[Turn])
  /\ st' = [st EXCEPT !.t = @ \o Tensors(dir[Turn], Turn), !.fd = @ \cup {Turn},
                      !.dfd = IF direct THEN @ \cup {Turn} ELSE @]
  /\ fds' = fds \cup {<<"fd", Turn>>} \cup (IF direct THEN {<<"dfd", Turn>>} ELSE {})
  /\ UNCHANGED <<dir, hash, io>>

(* Mutant: the refusal forgets the descriptor of the shard it was reading. *)
ScanRefused_Leaks ==
  /\ st.phase = "scan" /\ Turn <= Len(dir)
  /\ st' = Closed /\ fds' = (fds \cup {<<"fd", Turn>>}) \ Held
  /\ UNCHANGED <<dir, hash, io>>

(* ... or anything about it fails (opening, reading, memory, an entry),    *)
(* and everything opened so far is closed.                                 *)
ScanRefused ==
  /\ st.phase = "scan" /\ Turn <= Len(dir)
  /\ st_close
  /\ UNCHANGED <<dir, hash, io>>

(* The index, once all names are known; a duplicate name closes all. *)
Index ==
  /\ st.phase = "scan" /\ Turn > Len(dir)
  /\ LET nb == NBuckets(Len(st.t))
         tab == Table(st.t, nb)
     IN  IF tab.ok
         THEN st' = [st EXCEPT !.phase = "open", !.nb = nb, !.bucket = tab.b] /\ UNCHANGED fds
         ELSE st_close
  /\ UNCHANGED <<dir, hash, io>>

-----------------------------------------------------------------------------
(* k3_expert_ref: the six tensors of an expert are there, agree in shape   *)
(* with the group size and share a shard.  If they tile one run of the     *)
(* file the offsets are those of the run, else those of a packed buffer.   *)
Part(e, k) == <<"experts", ToString(e),
                <<"w1", "w1", "w2", "w2", "w3", "w3">>[k],
                IF k % 2 = 1 THEN "weight_packed" ELSE "weight_scale">>

MatOk(pk, sc, first) ==
  /\ pk # None /\ sc # None
  /\ pk.dtype = "U8" /\ sc.dtype = "U8"
  /\ Len(pk.shape) = 2 /\ Len(sc.shape) = 2
  /\ pk.shape[1] = sc.shape[1]
  /\ sc.shape[2] * GROUP = pk.shape[2] * 2
  /\ pk.shard = sc.shard /\ pk.shard = first.shard

NoRef == [ok |-> FALSE]

Contiguous(run, own) == run = own

expert_ref(e) ==
  LET tn == Vec([k \in 1..6 |-> st_find(Part(e, k))])
      ok == \A w \in 1..3 : MatOk(tn[2 * w - 1], tn[2 * w], tn[1])
      lo == Min({tn[k].off : k \in 1..6})
      hi == Max({tn[k].off + tn[k].nbytes : k \in 1..6})
      own == Sums([k \in 1..6 |-> tn[k].nbytes])      \* own[k - 1] come before part k
      contiguous == Contiguous(hi - lo, own[6])
  IN  IF ~ok THEN NoRef
      ELSE [ok |-> TRUE, shard |-> tn[1].shard, off |-> lo, nbytes |-> own[6],
            contiguous |-> contiguous,
            part |-> [k \in 1..6 |-> [t |-> tn[k], at |-> IF contiguous THEN tn[k].off - lo
                                                          ELSE own[k - 1]]]]

(* k3_cache_init: a slot is sized from the first expert that resolves. *)
RoundUp(n) == ((n + ALIGN - 1) \div ALIGN) * ALIGN
slot_bytes == RoundUp(expert_ref(0).nbytes + 2 * ALIGN)

-----------------------------------------------------------------------------
(* The read loops.  A read is a sequence of segments of the file with the  *)
(* place of each in the buffer.                                            *)
Idle == [kind |-> "idle"]
Seg(t, at) == [shard |-> t.shard, off |-> t.off, len |-> t.nbytes, at |-> at]

StartRead(r) ==
  /\ st.phase = "open"
  /\ io' = [kind |-> r.kind, what |-> r.what, segs |-> r.segs, pad |-> r.pad, i |-> 1,
            got |-> 0, total |-> 0, done |-> r.segs = <<>>,
            buf |-> [b \in UNION {s.at..(s.at + s.len - 1) : s \in Range(r.segs)} |-> Stale]]
  /\ UNCHANGED <<dir, hash, st, fds>>

(* k3_st_read of a tensor. *)
Read(t) == StartRead([kind |-> "read", what |-> t, pad |-> 0, segs |-> <<Seg(t, 0)>>])

(* k3_st_read_f32: whole elements in chunks. *)
ReadF32(t) ==
  LET esz == elemsize(t.dtype)
      per == (CHUNK \div esz) * esz
      n == (t.nbytes + per - 1) \div per
  IN  StartRead(
        [kind |-> "f32", what |-> t, pad |-> 0,
         segs |-> [k \in 1..n |->
                     [shard |-> t.shard, off |-> t.off + (k - 1) * per, at |-> (k - 1) * per,
                      len |-> Min({per, t.nbytes - (k - 1) * per})]]])

(* k3_expert_load: the run in one read, or the six parts. *)
ExpertLoad(r) ==
  StartRead(
    IF r.contiguous
    THEN [kind |-> "expert", what |-> r, pad |-> 0,
          segs |-> <<[shard |-> r.shard, off |-> r.off, len |-> r.nbytes, at |-> 0]>>]
    ELSE [kind |-> "expert", what |-> r, pad |-> 0,
          segs |-> [k \in 1..6 |-> Seg(r.part[k].t, r.part[k].at)]])

(* k3_st_read_aligned, reached from k3_expert_load_direct: with an         *)
(* O_DIRECT descriptor the run is widened to the enclosing window, which   *)
(* must fit in the slot.                                                   *)
Window(r) == [lo |-> (r.off \div ALIGN) * ALIGN, hi |-> RoundUp(r.off + r.nbytes)]

ExpertDirect(e) ==
  LET r == expert_ref(e)
      win == Window(r)
  IN  /\ r.ok /\ r.nbytes <= slot_bytes                      \* admit
      /\ IF ~r.contiguous \/ r.shard \notin st.dfd THEN ExpertLoad(r)
         ELSE /\ win.hi - win.lo <= slot_bytes
              /\ StartRead([kind |-> "direct", what |-> r, pad |-> r.off - win.lo,
                            segs |-> <<[shard |-> r.shard, off |-> win.lo, at |-> 0,
                                        len |-> win.hi - win.lo]>>])

Segment == io.segs[io.i]
Reading == io.kind # "idle" /\ ~io.done

(* A segment is over; the next one follows, or the call returns. *)
SegmentOver(x, got, stop) ==
  IF stop \/ x.i = Len(x.segs)
  THEN [x EXCEPT !.total = @ + got, !.got = 0, !.done = TRUE]
  ELSE [x EXCEPT !.total = @ + got, !.got = 0, !.i = @ + 1]

(* The buffer after n more bytes of the segment. *)
Filled(x, n) ==
  LET s == x.segs[x.i]
      from == s.at + x.got
  IN  [b \in DOMAIN x.buf |->
         IF b \in from..(from + n - 1) THEN <<s.shard, s.off + b - s.at>> ELSE x.buf[b]]

(* One pread that returns n bytes.  With O_DIRECT the offset is aligned.   *)
Pread(n) ==
  /\ Reading
  /\ n <= Segment.len - io.got /\ Segment.off + io.got + n <= dir[Segment.shard].fsize
  /\ io.kind = "direct" => io.got % ALIGN = 0
  /\ LET x == [io EXCEPT !.buf = Filled(io, n)]
     IN  io' = IF io.got + n = Segment.len THEN SegmentOver(x, Segment.len, FALSE)
               ELSE [x EXCEPT !.got = @ + n]
  /\ UNCHANGED <<dir, hash, st, fds>>

(* A pread that returns nothing: a widening stops and drops its chunk, the *)
(* six reads of a scattered expert go on with the next part.               *)
PreadNothing ==
  /\ Reading
  /\ io' = IF io.kind = "f32" THEN SegmentOver(io, 0, TRUE)
           ELSE SegmentOver(io, io.got, FALSE)
  /\ UNCHANGED <<dir, hash, st, fds>>

(* Mutant: the padding in front of the payload is counted. *)
Returned_WithPad ==
  IF io.kind = "direct" THEN Min({io.total, io.what.nbytes}) ELSE io.total

(* What the call returns, in bytes. *)
Returned ==
  IF io.kind = "direct"
  THEN IF io.total >= io.pad + io.what.nbytes THEN io.what.nbytes
       ELSE Max({io.total - io.pad, 0})
  ELSE io.total

Dropped == io # Idle /\ io.done /\ io' = Idle /\ UNCHANGED <<dir, hash, st, fds>>

Close ==
  /\ st.phase = "open" /\ ~Reading
  /\ st_close /\ io' = Idle
  /\ UNCHANGED <<dir, hash>>

-----------------------------------------------------------------------------
ShardsInit ==
  /\ hash \in Hashes
  /\ st = Closed /\ fds = {} /\ io = Idle

ShardsNext ==
  \/ StartOpen \/ ScanRefused \/ Index \/ Dropped \/ PreadNothing
  \/ \E direct \in BOOLEAN : ScanShard(direct)
  \/ \E n \in 1..(IF Reading THEN Segment.len - io.got ELSE 0) : Pread(n)
  \/ io = Idle /\ \E e \in 0..(NExperts - 1) : ExpertDirect(e)
  \/ /\ io = Idle
     /\ \E n \in Sample : st_find(n) # None /\ (Read(st_find(n)) \/ ReadF32(st_find(n)))

-----------------------------------------------------------------------------
(* The index answers for every name what the headers say: the one tensor   *)
(* that has it, or none.  Callers take "none" for a fatal error, so a      *)
(* lookup that misses an entry behind a collision stops a sound model.     *)
FindExact ==
  st.phase = "open" =>
    LET all == UNION {Range(Tensors(dir[i], i)) : i \in 1..Len(dir)}
    IN  \A n \in Names :
          LET named == {t \in all : t.name = n}
          IN  {st_find(n)} = IF named = {} THEN {None} ELSE named

(* The descriptors that are open are those the structure records: none is  *)
(* left behind by a checkpoint that was refused, none is closed while the  *)
(* structure still reads from it.                                          *)
DescriptorsOwned == fds = Held

(* The bytes a part of the buffer must hold. *)
Holds(at, t, n) ==
  \A b \in 0..(n - 1) : at + b \in DOMAIN io.buf /\ io.buf[at + b] = <<t.shard, t.off + b>>

(* A read says truthfully what it read.  A tensor: the first bytes, as     *)
(* many as were returned; widened, whole elements of it.  An expert: the   *)
(* full count is returned if and only if all six parts are where           *)
(* k3_expert_ref says, however the parts lie in the file and whichever     *)
(* path read them ("The result is identical; only the seek count changes") *)
CountHonest ==
  io.kind # "idle" /\ io.done =>
    IF io.kind \in {"read", "f32"}
    THEN /\ Holds(0, io.what, Returned)
         /\ io.kind = "f32" => Returned % elemsize(io.what.dtype) = 0
    ELSE Returned = io.what.nbytes <=>
           \A k \in 1..6 :
             Holds(io.pad + io.what.part[k].at, io.what.part[k].t, io.what.part[k].t.nbytes)
=============================================================================
