----------------------------- MODULE SpecDecode -----------------------------
(***************************************************************************)
(* The decode loop of k3-run with its saved sessions: prefill, serial      *)
(* steps, n-gram speculation (--spec), hybrid drafting (--draft-trunk),    *)
(* full recompute, and the state file of --save-state / --load-state.      *)
(*                                                                         *)
(* A model context carries a recurrent state, which absorbs tokens in      *)
(* place and knows no positions, and a KV cache, which is positional.  The *)
(* recurrent state is modelled by the sequence of tokens it has absorbed,  *)
(* a KV row by the context it was computed from; a logit is right only     *)
(* when the two agree on the sequence.                                     *)
(***************************************************************************)
EXTENDS Naturals, Sequences, FiniteSets, FiniteSetsExt

CONSTANTS Vocab,          \* token ids
          Archs,          \* configurations that have different fingerprints
          Argmax(_, _),   \* the exact model: (configuration, context) -> id
          Prompts,        \* the ids a run is given
          Gens,           \* --gen
          SpecN,          \* --spec, after the clamp to K3_SPEC_MAX
          Modes,          \* the ways of decoding that are tried
          MaxRuns         \* bound: runs of the program

ASSUME DecodeAssumption ==
  /\ Modes \subseteq {"recompute", "serial", "ngram", "hybrid"}
  /\ Gens \subseteq Nat /\ SpecN \in 1..8 /\ MaxRuns \in Nat
  /\ Prompts \subseteq Seq(Vocab) /\ \A p \in Prompts : p # << >>
  /\ \E v, u \in Vocab : v # u

VARIABLES
  pc,      \* where the program is; "off" when no process runs
  arch, mode, gen, Tmax,
  seq,     \* seq[0 .. T - 1]
  nout,    \* ids generated by this run
  w,       \* the exact model's state [ks, kv, cached]
  dw,      \* the draft model's
  dsnap,   \* copy of the draft's recurrent state
  d,       \* drafted ids
  emit,    \* ids of this step
  torn,    \* a draft forward has failed half-way in this run
  file,    \* the state file
  nrun

runVars == <<arch, mode, gen, Tmax, nrun>>
vars == <<pc, runVars, seq, nout, w, dw, dsnap, d, emit, torn, file>>

T == Len(seq)
Torn == "torn"
NoFile == [part |-> 0]
Blank == [ks |-> << >>, kv |-> << >>, cached |-> 0]

AnyArch == CHOOSE a \in Archs : TRUE
SaveParts == 5      \* header, ids, recurrent state, KV rows, rope rows

-----------------------------------------------------------------------------
(* forward(): absorb a batch after what is cached.  The caller moves       *)
(* w.cached.                                                               *)
Absorb(m, batch) ==
  [m EXCEPT !.ks = @ \o batch,
            !.kv = [p \in 1..Max({Len(@), m.cached + Len(batch)}) |->
                      IF p > m.cached /\ p <= m.cached + Len(batch)
                      THEN m.ks \o SubSeq(batch, 1, p - m.cached)
                      ELSE @[p]]]

(* argmax of the logits after the i-th id of the batch: the exact model's  *)
(* choice if its state is that of the context, some other id if not.       *)
Logit(m, batch, i) ==
  LET ctx == m.ks \o SubSeq(batch, 1, i)
      whole == Len(ctx) = m.cached + i
               /\ \A p \in 1..m.cached : m.kv[p] = SubSeq(ctx, 1, p)
  IN  IF whole THEN Argmax(arch, ctx)
               ELSE CHOOSE v \in Vocab : v # Argmax(arch, ctx)

Forward(m, batch) == [Absorb(m, batch) EXCEPT !.cached = @ + Len(batch)]

(* spec_draft: where the last n ids occurred before ... *)
Matches(n) == {j \in 0..(T - n - 1) : \A i \in 1..n : seq[j + i] = seq[T - n + i]}

(* ... and the ids that followed there, as far as the two latest           *)
(* occurrences agree.                                                      *)
Continuation(n, cap) ==
  LET m1 == Max(Matches(n))
      older == Matches(n) \ {m1}
      agrees(i) == older = {} \/ /\ Max(older) + n + i <= m1
                                 /\ seq[Max(older) + n + i] = seq[m1 + n + i]
      lens == {k \in 0..cap : m1 + n + k <= T /\ \A i \in 1..k : agrees(i)}
  IN  SubSeq(seq, m1 + n + 1, m1 + n + Max(lens))

spec_draft(cap) ==
  LET found == {n \in 3..4 : T >= n + 1 /\ Matches(n) # {} /\ Continuation(n, cap) # << >>}
  IN  IF found = {} THEN << >> ELSE Continuation(Max(found), cap)

-----------------------------------------------------------------------------
(* The process ends, and its memory with it. *)
Exits ==
  /\ pc' = "off"
  /\ arch' = AnyArch /\ mode' = "serial" /\ gen' = 0 /\ Tmax' = 0
  /\ seq' = << >> /\ nout' = 0
  /\ w' = Blank /\ dw' = Blank /\ dsnap' = << >> /\ d' = << >> /\ emit' = << >>
  /\ torn' = FALSE
  /\ UNCHANGED nrun

(* The process starts: k3_state_peek and k3_state_load, or a fresh prompt. *)
(* A file that is not whole, or from another configuration, is refused and *)
(* the process ends, which leaves everything as it was.                    *)
Loadable(a, cap) == file.part = SaveParts /\ file.arch = a /\ file.w.cached <= cap

Start(a, md, g, p) ==
  /\ pc = "off" /\ nrun < MaxRuns
  /\ \/ /\ seq' = p
        /\ w' = Blank
     \/ /\ md # "recompute"
        /\ file.part # 0 /\ Loadable(a, Len(file.seq) + Len(p) + g + 1)
        /\ seq' = file.seq \o p
        /\ w' = file.w
  /\ pc' = "first"
  /\ arch' = a /\ mode' = md /\ gen' = g /\ Tmax' = Len(seq') + g + 1
  /\ nrun' = nrun + 1 /\ nout' = 0
  /\ dw' = Blank /\ dsnap' = << >> /\ d' = << >> /\ emit' = << >> /\ torn' = FALSE
  /\ UNCHANGED file

(* Step 0 feeds everything that is not cached yet. *)
FirstBatch == SubSeq(seq, w.cached + 1, T)

Prefill ==
  /\ pc = "first" /\ nout < gen /\ mode # "recompute"
  /\ w' = Forward(w, FirstBatch)
  /\ emit' = <<Logit(w, FirstBatch, Len(FirstBatch))>>
  /\ dw' = IF mode = "hybrid" THEN Forward(dw, seq) ELSE dw
  /\ pc' = "emit"
  /\ UNCHANGED <<runVars, seq, nout, dsnap, d, torn, file>>

Recompute ==
  /\ pc \in {"first", "step"} /\ nout < gen /\ mode = "recompute"
  /\ emit' = <<Logit(Blank, seq, T)>>
  /\ pc' = "emit"
  /\ UNCHANGED <<runVars, seq, nout, w, dw, dsnap, d, torn, file>>

(* Mutant: no test for room. *)
DraftRoom_Always == TRUE

(* A speculative step needs room for all drafts and the id after them. *)
DraftRoom == T + SpecN + 1 < Tmax /\ w.cached + SpecN + 1 <= Tmax

StartStep ==
  /\ pc = "step" /\ nout < gen /\ mode # "recompute"
  /\ \/ /\ mode = "hybrid" /\ DraftRoom
        /\ d' = << >> /\ dsnap' = dw.ks /\ pc' = "draft"
     \/ /\ mode = "ngram" /\ DraftRoom
        /\ d' = spec_draft(SpecN)
        /\ pc' = IF d' = << >> THEN "serial" ELSE "verify"
        /\ UNCHANGED dsnap
     \/ /\ mode = "serial" \/ ~DraftRoom
        /\ d' = << >> /\ pc' = "serial"
        /\ UNCHANGED dsnap
  /\ UNCHANGED <<runVars, seq, nout, w, dw, emit, torn, file>>

Drafted(ids) == Len(ids) >= SpecN

(* One id of the draft model: whatever it likes, its routing depends on    *)
(* the expert cache.                                                       *)
DraftOne ==
  /\ pc = "draft"
  /\ dw' = Forward(dw, <<IF d = << >> THEN seq[w.cached + 1] ELSE d[Len(d)]>>)
  /\ \E v \in Vocab : d' = Append(d, v)
  /\ pc' = IF Drafted(d') THEN "verify" ELSE "draft"
  /\ UNCHANGED <<runVars, seq, nout, w, dsnap, emit, torn, file>>

(* The draft's forward fails between two layers: keep the ids so far. *)
DraftFails ==
  /\ pc = "draft"
  /\ dw' = [dw EXCEPT !.ks = Append(@, Torn)]
  /\ torn' = TRUE
  /\ pc' = IF d = << >> THEN "serial" ELSE "verify"
  /\ UNCHANGED <<runVars, seq, nout, w, dsnap, d, emit, file>>

-----------------------------------------------------------------------------
(* One sweep over the pending id and the drafts; n of the drafts are the   *)
(* model's own choices.                                                    *)
Batch == SubSeq(seq \o d, w.cached + 1, w.cached + Len(d) + 1)
Accepted(arg) == Max({m \in 0..Len(d) : \A i \in 1..m : arg[i] = d[i]})

(* Mutant: the recurrent state keeps the rejected ids. *)
Swept_NoRestore(n) ==
  IF n = Len(d) THEN Forward(w, Batch) ELSE Forward(Absorb(w, Batch), SubSeq(Batch, 1, n + 1))

(* After a rejection, restore the recurrent state and replay the accepted  *)
(* ids, which also rewrites their rows.                                    *)
Swept(n) ==
  IF n = Len(d)
  THEN Forward(w, Batch)
  ELSE Forward([Absorb(w, Batch) EXCEPT !.ks = w.ks], SubSeq(Batch, 1, n + 1))

(* Mutant: after full acceptance the draft is not fed the last draft. *)
Resynced_LastMissing(n) ==
  IF n = Len(d)
  THEN [dw EXCEPT !.cached = @ + 1]
  ELSE Forward([dw EXCEPT !.ks = dsnap, !.cached = w.cached], SubSeq(Batch, 1, n + 1))

Resynced(n) ==
  IF n = Len(d)
  THEN Forward(dw, <<d[Len(d)]>>)
  ELSE Forward([dw EXCEPT !.ks = dsnap, !.cached = w.cached], SubSeq(Batch, 1, n + 1))

(* Mutant: the id after the last draft, whatever was accepted. *)
Verified_LastLogits(arg, n) == Append(SubSeq(d, 1, n), arg[Len(arg)])

Verified(arg, n) == Append(SubSeq(d, 1, n), arg[n + 1])

Verify ==
  /\ pc = "verify"
  /\ LET arg == [i \in 1..Len(Batch) |-> Logit(w, Batch, i)]
         n == Accepted(arg)
     IN  /\ w' = Swept(n)
         /\ dw' = IF mode = "hybrid" THEN Resynced(n) ELSE dw
         /\ emit' = Verified(arg, n)
  /\ pc' = "emit"
  /\ UNCHANGED <<runVars, seq, nout, dsnap, d, torn, file>>

Serial ==
  /\ pc = "serial"
  /\ LET one == <<seq[w.cached + 1]>> IN
       /\ w' = Forward(w, one)
       /\ emit' = <<Logit(w, one, 1)>>
       /\ dw' = IF mode = "hybrid"
                THEN [Absorb(dw, one) EXCEPT !.cached = w.cached + 1] ELSE dw
  /\ pc' = "emit"
  /\ UNCHANGED <<runVars, seq, nout, dsnap, d, torn, file>>

(* The tail of an iteration: as many of the ids as were asked for. *)
Emit ==
  /\ pc = "emit" /\ emit # << >>
  /\ LET n == Min({Len(emit), gen - nout, Tmax - T}) IN
       /\ seq' = seq \o SubSeq(emit, 1, n)
       /\ nout' = nout + n
  /\ emit' = << >> /\ d' = << >>
  /\ pc' = "step"
  /\ UNCHANGED <<runVars, w, dw, dsnap, torn, file>>

-----------------------------------------------------------------------------
(* The loop is over; --save-state rewrites the file in place. *)
Finished == pc \in {"first", "step"} /\ (nout >= gen \/ T >= Tmax)

(* Mutant: the pending id is counted as cached. *)
Saved_CountsPending ==
  [part |-> 0, arch |-> arch, seq |-> seq, w |-> [w EXCEPT !.cached = T]]

(* Only the occupied rows are written. *)
Saved ==
  [part |-> 0, arch |-> arch, seq |-> seq, w |-> [w EXCEPT !.kv = SubSeq(@, 1, w.cached)]]

FinishAndSave ==
  /\ Finished /\ mode # "recompute"
  /\ file' = Saved
  /\ pc' = "save"
  /\ UNCHANGED <<runVars, seq, nout, w, dw, dsnap, d, emit, torn>>

Finish == Finished /\ Exits /\ UNCHANGED file

SaveWrite ==
  /\ pc = "save"
  /\ file' = [file EXCEPT !.part = @ + 1]
  /\ IF file'.part = SaveParts
     THEN Exits
     ELSE UNCHANGED <<pc, runVars, seq, nout, w, dw, dsnap, d, emit, torn>>

(* The process ends early: a failed forward, a failed write, or a crash. *)
Abort == pc # "off" /\ Exits /\ UNCHANGED file

Init ==
  /\ pc = "off"
  /\ arch = AnyArch /\ mode = "serial" /\ gen = 0 /\ Tmax = 0
  /\ seq = << >> /\ nout = 0
  /\ w = Blank /\ dw = Blank /\ dsnap = << >> /\ d = << >> /\ emit = << >>
  /\ torn = FALSE /\ nrun = 0
  /\ file = NoFile

Step == \/ Prefill \/ Recompute \/ StartStep \/ DraftOne \/ DraftFails
        \/ Verify \/ Serial \/ Emit \/ FinishAndSave \/ Finish \/ SaveWrite

Next ==
  \/ \E a \in Archs, md \in Modes, g \in Gens, p \in Prompts : Start(a, md, g, p)
  \/ Step
  \/ Abort

Spec == Init /\ [][Next]_vars

-----------------------------------------------------------------------------
(* A model state is that of the first `cached` ids, rows and recurrence. *)
IsPrefixState(m, s) ==
  /\ m.cached <= Len(s) /\ m.ks = SubSeq(s, 1, m.cached)
  /\ \A p \in 1..m.cached : m.kv[p] = SubSeq(s, 1, p)

(* However the ids were found -- serially, by n-gram, by a draft model with *)
(* any habits, after any resume -- each one the loop appends is the one the *)
(* exact model chooses after all the ids before it (k3_run.c:1344).         *)
EmittedIsGreedy ==
  [][pc = "emit" /\ pc' = "step" =>
       \A i \in (T + 1)..Len(seq') :
          seq'[i] = Argmax(arch, SubSeq(seq', 1, i - 1))]_vars

(* Between two steps the recurrent state and the KV rows are those of the   *)
(* sequence without its pending last id: no rejected draft is left in them, *)
(* and no accepted id is missing, also when --gen cuts a step short.        *)
StateIsPrefix ==
  (pc \in {"step", "draft", "verify", "serial"} /\ mode # "recompute") =>
     IsPrefixState(w, seq) /\ w.cached = T - 1

(* A state file that loads restores a state of the ids it carries, with at  *)
(* least one id left to feed (k3_run.c:1200).                               *)
SavedIsResumable ==
  file.part = SaveParts => IsPrefixState(file.w, file.seq) /\ file.w.cached < Len(file.seq)

(* No step writes a KV row, an id or a draft outside its buffer: the rows   *)
(* hold Tmax positions, seq has room for gen + 8 new ids (k3_run.c:1034),   *)
(* the id array of a step for K3_SPEC_MAX + 1.                              *)
InBounds ==
  /\ Len(w.kv) <= Tmax /\ Len(dw.kv) <= Tmax
  /\ pc = "verify" => T + Len(d) <= Tmax + 7
  /\ nout <= gen

(* The draft model's state follows the accepted ids, after partial and full *)
(* acceptance and non-drafted steps alike, until one of its own forwards    *)
(* fails (k3_run.c:1270).                                                   *)
DraftInStep ==
  (pc = "step" /\ mode = "hybrid") =>
     dw.cached = w.cached /\ (torn \/ IsPrefixState(dw, seq))
=============================================================================
