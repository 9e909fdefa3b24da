-------------------------------- MODULE DFlash2 --------------------------------
(***************************************************************************)
(* The DFlash2 speculator (patches/dflash2_speculator.py) around the       *)
(* sampler: each step verifies the drafts of its batch and then proposes   *)
(* new ones.  A proposal walks over the candidates of its steps, caches    *)
(* the scores it walked on per request state, for the rejection sampler,   *)
(* and leaves its candidates for the acceptance probe, which classifies    *)
(* the first rejected draft of every verified request.                     *)
(*                                                                         *)
(* External: the draft model, which yields candidates, unary logits and a  *)
(* projected hidden state per step; the rejection sampler, greedy here,    *)
(* which yields how many drafts stay and the token that replaces the       *)
(* first rejected one; the scheduler, which fills the batch.  The files    *)
(* the probe writes are left out.                                          *)
(***************************************************************************)
EXTENDS Integers, FiniteSetsExt, Functions, SequencesExt

CONSTANTS
  Slots,      \* request states
  Vocab,      \* token ids, naturals
  Steps,      \* num_speculative_steps
  Proposals,  \* what the draft model may yield for a request
  Edge,       \* Edge[p][c]: codebook product of predecessor p and successor c
  Modes,      \* values of DFLASH_WALK_MODE: "edge", "unary"
  MaxGen,     \* bound on the requests that use one state after another
  MaxRounds   \* bound on the verified requests

\* Assumed of the constants wherever the module is instantiated; the candidates of
\* a step are the best of the vocabulary, as many at every step, ordered by their
\* unary logit, the best one first.
SpeculatorAssumption ==
  /\ Slots \subseteq Nat /\ IsFiniteSet(Slots)
  /\ Vocab \subseteq Nat /\ Steps \in Nat \ {0} /\ MaxGen \in Nat /\ MaxRounds \in Nat
  /\ Modes \subseteq {"edge", "unary"}
  /\ \A x \in Proposals :
       x.anchor \in Vocab /\ x.cands \in [1..Steps -> Seq(Vocab) \ {<< >>}]
  /\ \A x \in Proposals : \A t \in 1..Steps :
       /\ Len(x.cands[t]) = Len(x.cands[1]) /\ IsInjective(x.cands[t])
       /\ x.unary[t] \in [DOMAIN x.cands[t] -> Nat] /\ x.hidden[t] \in Nat
       /\ \A i, j \in DOMAIN x.cands[t] : i < j => x.unary[t][i] >= x.unary[t][j]
  /\ Edge \in [Vocab -> [Vocab -> Nat]]

VARIABLES
  mode,      \* walk_mode
  gen,       \* gen[s]: how many requests have used state s; 0 before the first
  drafts,    \* drafts[s]: the proposal to be verified for s, or NoDraft
  logits,    \* logits[s][t]: draft_logits, a score or Minus per token
  cached,    \* cached[s][t]: _cached_candidate_ids
  stash,     \* the rows of the last proposal, for the probe
  batch,     \* the states of this step's batch, << >> when none is verified yet
  cum,       \* the probe's counters
  wraps,     \* how many probes wrap RejectionSampler._verify
  verified,  \* requests verified since the speculator was created
  compared   \* what the probe compared in the last verification

vars == <<mode, gen, drafts, logits, cached, stash, batch, cum, wraps, verified, compared>>

Minus   == -1
NoDraft == [gen |-> 0]
NoLogits == [s \in Slots |-> [t \in 1..Steps |-> [v \in Vocab |-> Minus]]]
NoCandidates == [s \in Slots |-> [t \in 1..Steps |-> << >>]]
Zero    == [draft_rounds |-> 0, accepted |-> 0, drafted |-> 0, rejected |-> 0,
            all_accepted |-> 0, in_topk |-> 0, not_in_topk |-> 0, walk_miss |-> 0,
            verify_reject |-> 0, b1 |-> 0, b2 |-> 0, skipped |-> 0,
            pos_accept |-> [t \in 1..Steps |-> 0], reject_at |-> [t \in 1..Steps |-> 0]]

Init ==
  /\ mode \in Modes
  /\ gen = [s \in Slots |-> 0] /\ drafts = [s \in Slots |-> NoDraft]
  /\ logits = NoLogits /\ cached = NoCandidates
  /\ stash = << >> /\ batch = << >> /\ compared = {}
  /\ cum = Zero /\ wraps = 1 /\ verified = 0

-----------------------------------------------------------------------------
(* The walk.                                                               *)

\* _score_edges: the score of every candidate of a step after every candidate of
\* the step before, or after the anchor token.
ScoreEdges(x) ==
  [t \in 1..Steps |-> [i \in DOMAIN x.cands[t] |-> [j \in DOMAIN x.cands[t] |->
     LET before == IF t = 1 THEN x.anchor ELSE x.cands[t - 1][i] IN
     x.unary[t][j] + x.hidden[t] * Edge[before][x.cands[t][j]]]]]

BestIndex(scores) ==
  CHOOSE i \in DOMAIN scores :
    /\ \A j \in DOMAIN scores : scores[j] <= scores[i]
    /\ \A j \in DOMAIN scores : j < i => scores[j] < scores[i]

\* _selector_walk_kernel: the index chosen at each step selects the row of edge
\* scores of the next; the realized scores are those of the rows walked on.
Walk(x) ==
  LET edges == ScoreEdges(x)
      index[t \in 0..Steps] == IF t = 0 THEN 1 ELSE BestIndex(edges[t][index[t - 1]])
  IN [tokens |-> [t \in 1..Steps |-> x.cands[t][index[t]]],
      scores |-> [t \in 1..Steps |-> edges[t][index[t - 1]]]]

\* _sample_path_unary: every step on its own.
Alone(x) == [tokens |-> [t \in 1..Steps |-> x.cands[t][BestIndex(x.unary[t])]],
             scores |-> x.unary]

Path_FirstRow(x) ==     \* the scores of the first row at every step
  IF mode = "unary" THEN Alone(x)
  ELSE [Walk(x) EXCEPT !.scores = [t \in 1..Steps |-> ScoreEdges(x)[t][1]]]

Path(x) == IF mode = "unary" THEN Alone(x) ELSE Walk(x)

CachedLogits_StoreOnly(old, ids, path, cands, t) ==     \* old cells stay
  [v \in Vocab |-> IF v \in Range(cands[t])
                   THEN path.scores[t][CHOOSE i \in DOMAIN cands[t] : cands[t][i] = v]
                   ELSE old[v]]

\* _cache_draft_logits_kernel: the cells of the last candidates are cleared, then
\* those of the new ones stored.
CachedLogits(old, ids, path, cands, t) ==
  [v \in Vocab |-> IF v \in Range(cands[t])
                   THEN path.scores[t][CHOOSE i \in DOMAIN cands[t] : cands[t][i] = v]
                   ELSE IF v \in Range(ids) THEN Minus ELSE old[v]]

-----------------------------------------------------------------------------
(* The probe.                                                              *)

\* _token_rank: 0 when it is not there.
Rank(row, token) == LET at == {i \in DOMAIN row : row[i] = token}
                    IN IF at = {} THEN 0 ELSE Min(at)

\* draft_sampled: the last sampled token of a request and its drafts.
Sampled(s) == IF drafts[s] = NoDraft THEN <<0>> ELSE <<0>> \o drafts[s].tokens
StartOf(b, r) == Len(FlattenSeq([i \in 1..(r - 1) |-> Sampled(b[i])]))

RowOf_Packed(b, r) ==    \* pairs the rows of both batches by position
  IF r <= Len(stash) THEN r ELSE 0

\* row_by_state: the row of the last proposal with the request's state, or 0.
RowOf(b, r) == LET at == {i \in 1..Len(stash) : stash[i].slot = b[r]}
               IN IF at = {} THEN 0 ELSE Max(at)

Incr(c, fields) == [f \in DOMAIN c |-> IF f \in fields THEN c[f] + 1 ELSE c[f]]

Stage_B1Only(pool, unary, walk, target) ==    \* the other half of B is not counted
  IF Rank(pool, target) = 0 THEN {"not_in_topk"}
  ELSE IF walk = target THEN {"in_topk", "verify_reject"}
  ELSE {"in_topk", "walk_miss"} \cup (IF pool[1] = target THEN {"b1"} ELSE {})

\* A: no candidate; B: a candidate the walk did not choose; C: the walk's own.
Stage(pool, unary, walk, target) ==
  IF Rank(pool, target) = 0 THEN {"not_in_topk"}
  ELSE IF walk = target THEN {"in_topk", "verify_reject"}
  ELSE {"in_topk", "walk_miss"}
         \cup (IF pool[BestIndex(unary)] = target THEN {"b1"} ELSE {"b2"})

\* _observe_rejection for request r of batch b: got drafts accepted, target
\* sampled in place of the next.
Observe(c, b, r, got, target) ==
  LET flat == FlattenSeq([i \in 1..Len(b) |-> Sampled(b[i])])
      at   == StartOf(b, r) + got + 2
      step == got + 1
      row  == RowOf(b, r)
      base == [Incr(c, {"draft_rounds"}) EXCEPT
                 !.accepted = @ + got, !.drafted = @ + Steps,
                 !.pos_accept = [t \in 1..Steps |-> @[t] + IF t <= got THEN 1 ELSE 0],
                 !.reject_at = [t \in 1..Steps |-> @[t] + IF t = step THEN 1 ELSE 0]]
  IN IF got >= Steps THEN Incr(base, {"all_accepted"})
     ELSE IF at > Len(flat) \/ row = 0 THEN Incr(base, {"rejected", "skipped"})
     ELSE Incr(base, {"rejected"} \cup
            Stage(stash[row].cands[step], stash[row].unary[step], flat[at], target))

-----------------------------------------------------------------------------
(* Steps.                                                                  *)

Batches == {b \in UNION {[1..k -> Slots] : k \in 1..Cardinality(Slots)} : IsInjective(b)}

\* The state's next request; what was cached for the last one stays.
NewRequest(s) ==
  /\ batch = << >> /\ gen[s] < MaxGen
  /\ gen' = [gen EXCEPT ![s] = @ + 1]
  /\ drafts' = [drafts EXCEPT ![s] = NoDraft]
  /\ compared' = {}
  /\ UNCHANGED <<mode, logits, cached, stash, batch, cum, wraps, verified>>

\* Greedy: the token sampled at the first rejected position is not the draft.
\* A request without drafts, at the end of its prompt, samples one token.
Outcome(s, got, target) ==
  IF drafts[s] = NoDraft THEN got = 0
  ELSE got \in 0..Steps /\ (got < Steps => target # drafts[s].tokens[got + 1])

\* RejectionSampler._verify, and the probe in every wrapper around it.
Verify(b, got, target) ==
  LET once(c) == FoldLeft(LAMBDA d, r : Observe(d, b, r, got[r], target[r]), c,
                          [r \in 1..Len(b) |-> r])
  IN
  /\ batch = << >> /\ verified + Len(b) <= MaxRounds
  /\ \A r \in 1..Len(b) : gen[b[r]] > 0 /\ Outcome(b[r], got[r], target[r])
  /\ batch' = b
  /\ IF stash = << >> THEN UNCHANGED <<cum, verified>>
     ELSE /\ cum' = FoldLeft(LAMBDA c, w : once(c), cum, [w \in 1..wraps |-> w])
          /\ verified' = verified + Len(b)
  /\ compared' = {[slot |-> b[r], row |-> stash[RowOf(b, r)]] :
                    r \in {i \in 1..Len(b) : RowOf(b, i) # 0 /\ drafts[b[i]] # NoDraft}}
  /\ UNCHANGED <<mode, gen, drafts, logits, cached, stash, wraps>>

\* _generate_draft for the batch: x[i] is what the model yields for its row i.
\* valid[i] is false for a row with request state -1, a prompt not finished.
Propose(x, valid) ==
  LET row(s)   == CHOOSE i \in 1..Len(batch) : batch[i] = s
      samples(s) == s \in Range(batch) /\ valid[row(s)]
      path(s)  == Path(x[row(s)])
  IN
  /\ batch # << >>
  /\ drafts' = [s \in Slots |->
       IF samples(s) THEN [gen |-> gen[s], x |-> x[row(s)], tokens |-> path(s).tokens]
       ELSE IF s \in Range(batch) THEN NoDraft ELSE drafts[s]]
  /\ logits' = [s \in Slots |->
       IF samples(s)
       THEN [t \in 1..Steps |-> CachedLogits(logits[s][t], cached[s][t], path(s), x[row(s)].cands, t)]
       ELSE logits[s]]
  /\ cached' = [s \in Slots |-> IF samples(s) THEN x[row(s)].cands ELSE cached[s]]
  /\ stash' = [i \in 1..Len(batch) |->
                 [slot |-> IF valid[i] THEN batch[i] ELSE -1, gen |-> gen[batch[i]],
                  cands |-> x[i].cands, unary |-> x[i].unary]]
  /\ batch' = << >> /\ compared' = {}
  /\ UNCHANGED <<mode, gen, cum, wraps, verified>>

Wrapped_Again(n) == n + 1    \* every speculator wraps _verify once more

\* _install_rejection_probe: the wrapper stays and finds the newest speculator.
Wrapped(n) == IF n = 0 THEN 1 ELSE n

\* A new speculator in the same process.
Reinstall ==
  /\ batch = << >> /\ stash # << >>
  /\ wraps' = Wrapped(wraps)
  /\ cum' = Zero /\ verified' = 0 /\ stash' = << >> /\ compared' = {}
  /\ drafts' = [s \in Slots |-> NoDraft]
  /\ logits' = NoLogits /\ cached' = NoCandidates
  /\ UNCHANGED <<mode, gen, batch>>

Next ==
  \/ Reinstall \/ \E s \in Slots : NewRequest(s)
  \/ \E b \in Batches : \E got \in [1..Len(b) -> 0..Steps], target \in [1..Len(b) -> Vocab] :
       Verify(b, got, target)
  \/ \E x \in [1..Len(batch) -> Proposals], valid \in [1..Len(batch) -> BOOLEAN] :
       Propose(x, valid)

Spec == Init /\ [][Next]_vars

-----------------------------------------------------------------------------
(* Properties.                                                             *)

TypeOK ==
  /\ mode \in Modes /\ gen \in [Slots -> 0..MaxGen] /\ wraps \in Nat
  /\ \A s \in Slots : drafts[s] = NoDraft \/ drafts[s].gen = gen[s]
  /\ logits \in [Slots -> [1..Steps -> [Vocab -> Int]]]
  /\ cached \in [Slots -> [1..Steps -> Seq(Vocab)]]
  /\ Len(stash) <= Cardinality(Slots) /\ batch \in Batches \cup {<< >>}
  /\ verified \in 0..MaxRounds

\* What a draft is chosen by: its unary logit and, on an edge walk, its edge from
\* the token before it.
ScoreOf(d, t, v) ==
  LET before == IF t = 1 THEN d.x.anchor ELSE d.tokens[t - 1] IN
  d.x.unary[t][Rank(d.x.cands[t], v)]
    + IF mode = "unary" THEN 0 ELSE d.x.hidden[t] * Edge[before][v]

\* The rejection sampler reads, for every request with drafts, exactly the scores
\* its drafts were chosen by: a candidate's cell its score after the draft before
\* it, every other cell -inf, and each draft is the best of its step -- whatever
\* request or proposal used the state before.
DraftLogitsMatch ==
  \A s \in Slots : drafts[s] # NoDraft =>
    \A t \in 1..Steps :
      LET d == drafts[s]
          row == d.x.cands[t]
      IN /\ \A v \in Vocab : logits[s][t][v] =
              IF v \in Range(row) THEN ScoreOf(d, t, v) ELSE Minus
         /\ \A v \in Vocab : logits[s][t][v] <= logits[s][t][d.tokens[t]]

\* The probe's counters are a ledger of the requests verified since the
\* speculator was created: every one is counted once, every rejection is either
\* classified or skipped, every class adds up from its parts.
LedgerBalanced ==
  /\ cum.draft_rounds = verified
  /\ cum.draft_rounds = cum.rejected + cum.all_accepted
  /\ cum.drafted = Steps * cum.draft_rounds
  /\ cum.rejected = cum.in_topk + cum.not_in_topk + cum.skipped
  /\ cum.in_topk = cum.walk_miss + cum.verify_reject
  /\ cum.walk_miss = cum.b1 + cum.b2
  /\ SumFunction(cum.pos_accept) = cum.accepted
  /\ SumFunction(cum.reject_at) = cum.rejected

\* A rejected draft is looked up among the candidates it was chosen from, also
\* when requests came, went or sat out a step since the proposal.
ProbePairsRight ==
  \A c \in compared :
    /\ c.row.slot = c.slot /\ c.row.gen = gen[c.slot]
    /\ c.row.cands = drafts[c.slot].x.cands
=============================================================================
