------------------------------- MODULE MCEngine -------------------------------
(* The parts of the engine's processes: what a forward pass keeps for the     *)
(* next one (the indexer's pools and tails, the speculator's drafts), the     *)
(* chain of its layers, and the layout of the KV cache.  None reads the state *)
(* of another, so a behaviour moves one of them, chosen at the start, and the *)
(* others stay as they were created.                                          *)
EXTENDS Integers, Sequences

CONSTANTS
  Parts,                                                    \* what may move
  NumReqs, Prompts, MaxLen, Reuses, Kpool, TopK, NumSpec,   \* of KpoolIndexer
  BlockN, MaxBatched, Flattens, SplitChunks,
  Slots, Vocab, Steps, Modes, Edge, Proposals,              \* of DFlash2
  MaxGen, MaxRounds,
  NumLayers, Denses,                                        \* of GlmForward
  KvModels, Kernel, Memories                                          \* of KvGroups

VARIABLES
  part,
  owner, prompt, len, pools, tail, spoiled, rows, grid,
  mode, gen, drafts, logits, cached, stash, batch, cum, wraps, verified, compared,
  dense, mhc, parallel, capture, layer, x, residual, post, fed, aux, result,
  model, groups, layout, memory, numBlocks, tensors, kvState

-----------------------------------------------------------------------------
(* What the runs give some of the constants.                               *)

\* Successors follow one another: the best edge of a token is to the next one.
Successors ==
  [p \in Vocab |-> [c \in Vocab |->
     IF c = (p % 3) + 1 THEN 3 ELSE IF c = p THEN 0 ELSE 1]]

Proposal(c, u, h, a) == [cands |-> c, unary |-> u, hidden |-> h, anchor |-> a]

\* Two steps of two candidates: the edges overrule the unary logits at one step and
\* count for nothing at the other, or break a tie and agree.
TwoProposals ==
  {Proposal(<< <<3, 1>>, <<1, 2>> >>, << <<2, 0>>, <<1, 1>> >>, <<0, 2>>, 2),
   Proposal(<< <<2, 1>>, <<3, 1>> >>, << <<0, 0>>, <<3, 0>> >>, <<1, 1>>, 2)}

\* Pages and counts of which some fit and some do not.
SmallModels ==
  {[layers |-> [mla |-> 2, idx |-> 2, tail |-> t, mamba |-> a, draft |-> d],
    mlaPage |-> 8, idxPage |-> 3, tailPage |-> tp, mambaPage |-> mp, mlaBlock |-> mb,
    draftBlock |-> db, draftToken |-> dt] :
   t \in {0, 2}, a \in {0, 5}, d \in {0, 2, 3}, tp \in {2, 4}, mp \in {5, 9},
   mb \in {2, 3}, db \in {2, 3}, dt \in {2, 3}}

-----------------------------------------------------------------------------
Indexer    == INSTANCE KpoolIndexer WITH gen <- owner, MaxGen <- Reuses
Speculator == INSTANCE DFlash2
Forward    == INSTANCE GlmForward
Cache      == INSTANCE KvGroups WITH Models <- KvModels, state <- kvState

ASSUME EngineAssumption ==
  /\ Indexer!IndexerAssumption /\ Speculator!SpeculatorAssumption
  /\ Forward!ForwardAssumption /\ Cache!KvAssumption

indexerVars == <<owner, prompt, len, pools, tail, spoiled, rows, grid>>
speculatorVars ==
  <<mode, gen, drafts, logits, cached, stash, batch, cum, wraps, verified, compared>>
forwardVars == <<dense, mhc, parallel, capture, layer, x, residual, post, fed, aux, result>>
cacheVars   == <<model, groups, layout, memory, numBlocks, tensors, kvState>>

\* The state in which a part stays that does not move.
Resting ==
  /\ IF part = "speculator" THEN TRUE ELSE mode = "edge"
  /\ IF part = "forward" THEN TRUE
     ELSE dense = 0 /\ mhc = FALSE /\ parallel = FALSE /\ capture = {}
  /\ IF part = "cache" THEN TRUE ELSE model = CHOOSE m \in KvModels : TRUE

Init ==
  /\ part \in Parts /\ Resting
  /\ Indexer!Init /\ Speculator!Init /\ Forward!Init /\ Cache!Init

vars == <<part, indexerVars, speculatorVars, forwardVars, cacheVars>>

Next ==
  \/ /\ part = "indexer" /\ Indexer!Next
     /\ UNCHANGED <<part, speculatorVars, forwardVars, cacheVars>>
  \/ /\ part = "speculator" /\ Speculator!Next
     /\ UNCHANGED <<part, indexerVars, forwardVars, cacheVars>>
  \/ /\ part = "forward" /\ Forward!Next
     /\ UNCHANGED <<part, indexerVars, speculatorVars, cacheVars>>
  \/ /\ part = "cache" /\ Cache!Next
     /\ UNCHANGED <<part, indexerVars, speculatorVars, forwardVars>>

Spec == Init /\ [][Next]_vars

\* Each part keeps to its types.
TypeOK ==
  /\ part = "indexer"    => Indexer!TypeOK
  /\ part = "speculator" => Speculator!TypeOK
  /\ part = "forward"    => Forward!TypeOK
  /\ part = "cache"      => Cache!TypeOK

\* The properties of the modules, each of the part that moves; they are stated there in full.
\* The indexer scores the keys of the request, each pooled over its own tokens.
KeysRight == part = "indexer" => Indexer!KeysRight
\* Each row attends to the tokens before its own and to no other request.
RowsAttendRight == part = "indexer" => Indexer!RowsAttendRight
\* What a step writes fits the buffers that were sized for it.
FitsBuffers == part = "indexer" => Indexer!FitsBuffers
\* No step scores with a workspace that was handed out again.
ScoredWithKeys == part = "indexer" => Indexer!ScoredWithKeys
\* A draft is verified against the logits it was chosen by.
DraftLogitsMatch == part = "speculator" => Speculator!DraftLogitsMatch
\* The counters of the acceptance probe add up.
LedgerBalanced == part = "speculator" => Speculator!LedgerBalanced
\* The probe compares a verification with the proposal it verified.
ProbePairsRight == part = "speculator" => Speculator!ProbePairsRight
\* No mixing a layer deferred is missing from what leaves the model.
NothingDeferredShows == part = "forward" => Forward!NothingDeferredShows
\* No two layers write one byte of the KV cache, and the memory pays for all.
PagesDisjoint == part = "cache" => Cache!PagesDisjoint
=============================================================================
