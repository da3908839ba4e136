--------------------------- MODULE EngineSession ---------------------------
(***************************************************************************)
(* The agent's model session: src/agent/model/k3_backend.c, which opens    *)
(* the engine when it is first needed, and src/agent/model/k3_engine.c,    *)
(* which opens the model part by part (any part may fail), generates text  *)
(* token by token for a caller that may stream it, cancel it or name stop  *)
(* strings, and closes.                                                    *)
(*                                                                         *)
(* A text is a sequence of bytes.  What the network computes is left open: *)
(* every token of the vocabulary may come next (see DecoderStack).  Memory *)
(* and open files are counted per allocation.  The tokenizer, which has no *)
(* release function, is not counted.                                       *)
(***************************************************************************)
EXTENDS Integers, Sequences, FiniteSetsExt

CONSTANTS Bytes,      \* [token -> its bytes], the vocabulary
          Eos,        \* the tokens that end a text
          Stops,      \* the lists of stop strings a caller may give
          Gens,       \* the values of max_tokens
          NL,         \* layers
          PER, BASE   \* the 8 and the 16 that size the text buffer

ASSUME EngineAssumption ==
  /\ NL \in Nat \ {0} /\ PER \in Nat \ {0} /\ BASE \in Nat \ {0}
  /\ Gens \subseteq Nat \ {0} /\ Eos \cap DOMAIN Bytes = {}

VARIABLES
  opts,     \* K3EngineOpts: a streamed trunk? a tokenizer?
  held,     \* [resource -> how many are allocated or open]
  pc,       \* "idle", a step of k3_engine_open, or "loop"
  n_bound,  \* layers bound so far
  engine,   \* c->engine # NULL
  call,     \* the request k3b_generate is working on
  result,   \* what it returned last, until the caller frees it
  lost      \* some call left its output behind, freed by nobody

engineVars == <<opts, held, pc, n_bound, engine, call, result, lost>>

Layer(L) == <<"layer", L>>
Parts == {<<p, 0>> : p \in {"e", "st", "lay", "trunk", "model", "cache"}}
         \cup {Layer(L) : L \in 1..NL}
Buffers == {<<b, 0>> : b \in {"bufs", "seq", "prompt"}}
Output == {<<b, 0>> : b \in {"ids", "text"}}
Resources == Parts \cup Buffers \cup Output
R(p) == <<p, 0>>

Alloc(S) == held' = [r \in Resources |-> IF r \in S THEN held[r] + 1 ELSE held[r]]
Free(S) == held' = [r \in Resources |-> IF r \in S THEN held[r] - 1 ELSE held[r]]

NoCall == [gen |-> 0]
NoResult == [ok |-> FALSE]

-----------------------------------------------------------------------------
(* k3_engine_open.  The labels of its unwinding: *)
fail_st == {R("st"), R("e")}
fail_lay == {R("lay")} \cup fail_st
Bound == IF opts.streamed THEN {R("trunk")} ELSE {Layer(L) : L \in 1..n_bound}

(* Mutant: a layer that fails to bind leaves the earlier ones. *)
fail_bound_Forgets == (Bound \cap {R("trunk")}) \cup fail_lay
fail_bound == Bound \cup fail_lay

(* Each step with what it acquires and what is released when it fails. *)
Opening ==
  [calloc |-> [gets |-> {R("e")}, undo |-> {}, next |-> "cfg"],
   cfg   |-> [gets |-> {}, undo |-> {R("e")}, next |-> "st"],
   st    |-> [gets |-> {R("st")}, undo |-> {R("e")}, next |-> "lay"],
   lay   |-> [gets |-> {R("lay")}, undo |-> fail_st,
              next |-> IF opts.streamed THEN "trunk" ELSE "bind"],
   trunk |-> [gets |-> {R("trunk")}, undo |-> fail_lay, next |-> "model"],
   bind  |-> [gets |-> {Layer(n_bound + 1)}, undo |-> fail_bound,
              next |-> IF n_bound + 1 < NL THEN "bind" ELSE "model"],
   model |-> [gets |-> {R("model")}, undo |-> fail_bound, next |-> "cache"],
   cache |-> [gets |-> {R("cache")}, undo |-> {R("model")} \cup fail_bound, next |-> "opened"]]

OpenStep ==
  /\ pc \in DOMAIN Opening
  /\ Alloc(Opening[pc].gets)
  /\ n_bound' = IF pc = "bind" THEN n_bound + 1
                ELSE IF pc = "trunk" THEN NL ELSE n_bound
  /\ pc' = Opening[pc].next
  /\ UNCHANGED <<opts, engine, call, result, lost>>

(* A step fails (a packed trunk also when it has too few layers, and is    *)
(* then closed first); so does the call that wanted the engine, if any.    *)
OpenFails ==
  /\ pc \in DOMAIN Opening
  /\ Free(Opening[pc].undo)
  /\ pc' = "idle" /\ n_bound' = 0 /\ call' = NoCall
  /\ UNCHANGED <<opts, engine, result, lost>>

Opened ==
  /\ pc = "opened"
  /\ engine' = TRUE
  /\ pc' = IF call = NoCall THEN "idle" ELSE "start"
  /\ UNCHANGED <<opts, held, n_bound, call, result, lost>>

(* k3b_shutdown and k3_engine_close. *)
Shutdown ==
  /\ pc = "idle" /\ engine
  /\ Free({R("cache"), R("model")} \cup Bound \cup fail_lay)
  /\ engine' = FALSE /\ n_bound' = 0
  /\ UNCHANGED <<opts, pc, call, result, lost>>

(* k3b_init, called on its own. *)
Initialize ==
  /\ pc = "idle" /\ ~engine
  /\ pc' = "calloc"
  /\ UNCHANGED <<opts, held, n_bound, engine, call, result, lost>>

-----------------------------------------------------------------------------
(* The text of a list of tokens, and as much of it as a buffer takes. *)
Decoded(ids) ==
  LET out[i \in 0..Len(ids)] == IF i = 0 THEN <<>> ELSE out[i - 1] \o Bytes[ids[i]]
  IN  out[Len(ids)]

tok_decode(ids, max) == LET t == Decoded(ids) IN SubSeq(t, 1, Min({Len(t), max}))

(* Where s starts in text at or behind from, counted from 0. *)
Hits(text, s, from) ==
  {p \in from..(Len(text) - Len(s)) : SubSeq(text, p + 1, p + Len(s)) = s}

(* Mutant: the search starts at the new bytes. *)
From_NoBackup(scan_from, sl) == scan_from
From(scan_from, sl) == IF scan_from > sl THEN scan_from - sl ELSE 0

(* The first stop string of the list that occurs, not the first to occur. *)
find_stop(text, stop, scan_from) ==
  LET at(i) == Hits(text, stop[i], From(scan_from, Len(stop[i])))
      hit == {i \in 1..Len(stop) : Len(stop[i]) > 0 /\ at(i) # {}}
  IN  IF hit = {} THEN -1 ELSE Min(at(Min(hit)))

(* k3b_generate; k3_engine_generate refuses without a tokenizer, and a     *)
(* prompt that encodes to nothing; k3_engine_generate_ids refuses one that *)
(* is out of range, and when memory is short, before its loop.             *)
Generate(gen, stop, stream) ==
  /\ pc = "idle" /\ result = NoResult
  /\ call' = [gen |-> gen, stop |-> stop, stream |-> stream, ids |-> <<>>, text |-> <<>>,
              cap |-> 0, out |-> <<>>, stopped_by |-> "max_tokens", drops |-> FALSE,
              done |-> FALSE, starved |-> FALSE]
  /\ pc' = IF engine THEN "start" ELSE "calloc"
  /\ UNCHANGED <<opts, held, n_bound, engine, result, lost>>

Refuse ==
  /\ pc = "start"
  /\ pc' = "idle" /\ call' = NoCall
  /\ UNCHANGED <<opts, held, n_bound, engine, result, lost>>

Start ==
  /\ pc = "start" /\ opts.tok
  /\ Alloc(Buffers \cup {R("ids")})
  /\ pc' = "loop"
  /\ UNCHANGED <<opts, n_bound, engine, call, result, lost>>

Going == pc = "loop" /\ Len(call.ids) < call.gen /\ ~call.done

(* What the text buffer costs: one allocation, whatever its size. *)
Text(k) == IF k.cap = 0 THEN {} ELSE {R("text")}

ForwardFails ==
  /\ Going
  /\ Free(Buffers \cup {R("ids")} \cup Text(call))
  /\ pc' = "idle" /\ call' = NoCall
  /\ UNCHANGED <<opts, n_bound, engine, result, lost>>

EndOfText(dropped) ==
  /\ Going /\ Eos # {}
  /\ call' = [call EXCEPT !.stopped_by = "eos", !.drops = @ \/ dropped, !.done = TRUE]
  /\ UNCHANGED <<opts, held, pc, n_bound, engine, result, lost>>

need(n) == n * PER + BASE
Grown(n) == IF need(n) > call.cap THEN 2 * need(n) ELSE call.cap

(* Mutant: the text is not decoded again from the first token on. *)
Redecoded_Appends(ids, cap) ==
  LET t == call.text \o Bytes[ids[Len(ids)]] IN SubSeq(t, 1, Min({Len(t), cap - 1}))
Redecoded(ids, cap) == tok_decode(ids, cap - 1)

(* Mutant: the callback is given the text from its beginning. *)
Chunk_Whole(text, emitted) == text

(* The chunk handed to on_text: from emitted on. *)
Chunk(text, emitted) == SubSeq(text, emitted + 1, Len(text))

(* The call after one more token: decoded, cut at a stop string, streamed  *)
(* if there is anything new; the callback may cancel.                      *)
WithToken(nxt, cancel, dropped) ==
  LET ids == Append(call.ids, nxt)
      cap == Grown(Len(ids))
      full == Redecoded(ids, cap)
      cut == find_stop(full, call.stop, Len(call.text))
      text == IF cut >= 0 THEN SubSeq(full, 1, cut) ELSE full
      emitted == Len(call.out)
      send == call.stream /\ Len(text) > emitted
      stopped_by == IF send /\ cancel THEN "cancelled"
                    ELSE IF cut >= 0 THEN "stop" ELSE call.stopped_by
  IN  [call EXCEPT !.ids = ids, !.cap = cap, !.text = text, !.drops = @ \/ dropped,
                   !.out = IF send THEN @ \o Chunk(text, emitted) ELSE @,
                   !.stopped_by = stopped_by,
                   !.done = stopped_by # "max_tokens" \/ Len(ids) >= call.gen]

Token(nxt, cancel, dropped) ==
  /\ Going
  /\ call' = WithToken(nxt, cancel, dropped)
  /\ Alloc(IF call.cap = 0 THEN {R("text")} ELSE {})
  /\ UNCHANGED <<opts, pc, n_bound, engine, result, lost>>

(* The text buffer cannot grow: the loop ends as if max_tokens were met,   *)
(* with the token among the ids and not in the text.                       *)
TextStarved(nxt, dropped) ==
  /\ Going
  /\ Grown(Len(call.ids) + 1) # call.cap
  /\ call' = [call EXCEPT !.ids = Append(@, nxt), !.drops = @ \/ dropped,
                          !.done = TRUE, !.starved = TRUE]
  /\ UNCHANGED <<opts, held, pc, n_bound, engine, result, lost>>

(* The end of k3_engine_generate_ids and of k3b_generate: a text that is   *)
(* empty is allocated too, ids are freed.  When an expert was dropped the  *)
(* call fails and k3b_generate forgets out: its text and ids are never     *)
(* freed.  They move from held, which counts what somebody can still free, *)
(* to lost.                                                                *)
Return ==
  /\ pc = "loop" /\ ~Going
  /\ pc' = "idle" /\ call' = NoCall
  /\ IF call.drops
     THEN /\ Free(Buffers \cup {R("ids")} \cup Text(call)) /\ lost' = TRUE
          /\ UNCHANGED result
     ELSE /\ held' = [r \in Resources |->
                        IF r = R("text") THEN 1
                        ELSE IF r \in Buffers \cup {R("ids")} THEN held[r] - 1 ELSE held[r]]
          /\ result' = [ok |-> TRUE, text |-> call.text, ids |-> call.ids,
                        stopped_by |-> call.stopped_by, starved |-> call.starved,
                        stop |-> call.stop, stream |-> call.stream, out |-> call.out]
          /\ UNCHANGED lost
  /\ UNCHANGED <<opts, n_bound, engine>>

(* model_result_free, by the caller. *)
ResultFree ==
  /\ result.ok
  /\ Free({R("text")})
  /\ result' = NoResult
  /\ UNCHANGED <<opts, pc, n_bound, engine, call, lost>>

-----------------------------------------------------------------------------
EngineInit ==
  /\ opts \in [streamed : BOOLEAN, tok : BOOLEAN]
  /\ held = [r \in Resources |-> 0]
  /\ pc = "idle" /\ n_bound = 0 /\ engine = FALSE
  /\ call = NoCall /\ result = NoResult /\ lost = FALSE

EngineNext ==
  \/ Initialize \/ OpenStep \/ OpenFails \/ Opened \/ Shutdown
  \/ \E gen \in Gens, stop \in Stops, stream \in BOOLEAN : Generate(gen, stop, stream)
  \/ Refuse \/ Start \/ ForwardFails
  \/ \E dropped \in BOOLEAN : EndOfText(dropped)
  \/ \E nxt \in DOMAIN Bytes, cancel, dropped \in BOOLEAN : Token(nxt, cancel, dropped)
  \/ \E nxt \in DOMAIN Bytes, dropped \in BOOLEAN : TextStarved(nxt, dropped)
  \/ Return \/ ResultFree

EngineSpec == EngineInit /\ [][EngineNext]_engineVars

-----------------------------------------------------------------------------
(* Between calls exactly the parts of an open engine are allocated, each   *)
(* once, and the text the caller has not freed yet: whichever part failed  *)
(* to open, however a generation ended, and whether or not the engine is   *)
(* closed and opened again.  Not so the output of a call that failed for a *)
(* dropped expert (lost).                                                  *)
NothingLeaks ==
  pc = "idle" =>
    LET parts == IF engine THEN {R("cache"), R("model")} \cup Bound \cup fail_lay ELSE {}
        text == IF result.ok THEN {R("text")} ELSE {}
    IN  /\ \A r \in Resources : held[r] = IF r \in parts \cup text THEN 1 ELSE 0
        /\ engine => n_bound = NL
=============================================================================
