----------------------------- MODULE KpoolIndexer -----------------------------
(***************************************************************************)
(* One layer of the sparse-attention indexer with pooled keys              *)
(* (patches/sparse_attn_indexer_kpool.py): every Kpool consecutive tokens  *)
(* of a request are compressed into one key of its index cache; the tokens *)
(* of the incomplete last pool wait in a tail block of Kpool entries, at   *)
(* position % Kpool.  A forward pass writes the keys of its batch, decodes *)
(* first and prefills after them, and then fills a row of the top-k buffer *)
(* for every token.                                                        *)
(*                                                                         *)
(* External: the kernels (compression, ring, expansion of pools, packing), *)
(* by what the code around them says they do; the metadata builder, which  *)
(* groups the decode tokens; the scheduler, whose prefill chunks start at  *)
(* a pool boundary; the workspace manager, whose views all start at the    *)
(* same place.  Which pools score best is left open.                       *)
(***************************************************************************)
EXTENDS Naturals, FiniteSetsExt, Functions, SequencesExt

CONSTANTS
  NumReqs,     \* request states, each with its own blocks
  Prompts,     \* lengths of the prompts
  MaxLen,      \* bound on the tokens of a request
  MaxGen,      \* bound on the requests that use one state after another
  Kpool,       \* index_kpool
  TopK,        \* topk_tokens
  NumSpec,     \* num_speculative_tokens
  BlockN,      \* the attention kernel tiles the buffer in columns of this many
  MaxBatched,  \* max_num_batched_tokens
  Flattens,    \* whether the builder may flatten decodes to rows of one token
  SplitChunks  \* TRUE: the logits of a prefill need more than one chunk

\* Assumed of the constants wherever the module is instantiated.
IndexerAssumption ==
  /\ NumReqs \in Nat \ {0} /\ MaxLen \in Nat /\ MaxGen \in Nat
  /\ Prompts \subseteq 1..MaxLen
  /\ Kpool \in Nat \ {0, 1} /\ TopK \in Nat /\ TopK >= Kpool
  /\ NumSpec \in Nat /\ BlockN \in Nat \ {0}
  /\ MaxBatched \in Nat /\ MaxBatched >= NumReqs * (NumSpec + 1)
  /\ Flattens \subseteq BOOLEAN /\ SplitChunks \in BOOLEAN

Requests == 1..NumReqs

VARIABLES
  gen,      \* gen[r]: how many requests have used state r; 0 before the first
  prompt,   \* prompt[r]: length of its prompt
  len,      \* len[r]: its tokens computed and kept
  pools,    \* pools[r][j]: the tokens compressed into the key of its pool j
  tail,     \* tail[r][o]: the token at offset o of its tail block
  spoiled,  \* spoiled[r]: its pools that lost tokens to rejected drafts
  rows,     \* the rows of the top-k buffer after the last pass
  grid      \* rows of the logits of its decodes, padding included

vars == <<gen, prompt, len, pools, tail, spoiled, rows, grid>>

Pools          == 0..(MaxLen \div Kpool)
Offsets        == 0..(Kpool - 1)
Nothing        == [req |-> 0, gen |-> 0, pos |-> 0, kept |-> FALSE]
Token(r, p, k) == [req |-> r, gen |-> gen[r], pos |-> p, kept |-> k]

Init ==
  /\ gen = [r \in Requests |-> 0]
  /\ prompt = [r \in Requests |-> 0] /\ len = [r \in Requests |-> 0]
  /\ pools = [r \in Requests |-> [j \in Pools |-> << >>]]
  /\ tail = [r \in Requests |-> [o \in Offsets |-> Nothing]]
  /\ spoiled = [r \in Requests |-> {}]
  /\ rows = << >> /\ grid = 0

-----------------------------------------------------------------------------
(* Layouts of the decode tokens.                                           *)

Start(lens, b) == SumFunctionOnSet(lens, 1..(b - 1))   \* of request b's tokens
Uniform(lens)  == \A a, b \in 1..Len(lens) : lens[a] = lens[b]

\* _build_decode_scatter_indices, _scatter_decode_tokens_by_request: a row per
\* request, as long as the longest, short requests padded.
Scatter(flat, lens, pad) ==
  [b \in 1..Len(lens) |->
     [t \in 1..Max(Range(lens)) |->
        IF t <= lens[b] THEN flat[Start(lens, b) + t] ELSE pad]]

Reshape(flat, n) ==
  LET width == Len(flat) \div n IN
  [b \in 1..n |-> [t \in 1..width |-> flat[(b - 1) * width + t]]]

\* Equally long requests are reshaped, others scattered.
Grouped(flat, lens, pad) ==
  IF Uniform(lens) THEN Reshape(flat, Len(lens)) ELSE Scatter(flat, lens, pad)

\* unpack_seq_triton: the grid without its padding.
Unpack(cells, lens) == FlattenSeq([b \in 1..Len(lens) |-> SubSeq(cells[b], 1, lens[b])])

LengthAt_NextToken(token) == token.pos + 2   \* the length after the step

LengthAt(token) == token.pos + 1

DecodeLens_Flat(batch, lens) ==   \* slices the positions of the batch
  Reshape([i \in 1..(Len(lens) * Max(Range(lens))) |->
             IF i <= Len(batch) THEN LengthAt(batch[i]) ELSE 0], Len(lens))

\* _decode_topk_seq_lens: the length each row of the grid is expanded at.  With
\* a flattened batch lens is all ones.
DecodeLens(batch, lens) ==
  Grouped([i \in 1..SumFunction(lens) |-> LengthAt(batch[i])], lens, 0)

-----------------------------------------------------------------------------
(* Keys.                                                                   *)

\* _kpool_compress_insert: a prefill token that completes a pool, with the
\* Kpool - 1 tokens before it in the batch.
PrefillPool(region, r, j, old) ==
  LET done == {i \in Kpool..Len(region) :
                 /\ region[i].req = r
                 /\ region[i].pos = j * Kpool + Kpool - 1}
  IN IF done = {} THEN old
     ELSE LET i == Max(done) IN [o \in Offsets |-> region[i - (Kpool - 1) + o]]

PrefillTail_LastOnly(region, r, o, old) ==   \* the trailing tokens of the batch
  LET seeds == {i \in 1..Len(region) :
                  /\ region[i].req = r /\ region[i].pos % Kpool = o
                  /\ i + Kpool > Len(region)}
  IN IF seeds = {} THEN old ELSE region[Max(seeds)]

\* kpool_seed_tail_cache: a token is in its request's tail iff the token Kpool
\* ahead is in another tail block or past the batch.
PrefillTail(region, r, o, old) ==
  LET seeds == {i \in 1..Len(region) :
                  /\ region[i].req = r /\ region[i].pos % Kpool = o
                  /\ i + Kpool > Len(region) \/ region[i + Kpool].req # r}
  IN IF seeds = {} THEN old ELSE region[Max(seeds)]

\* kpool_decode_update_and_maybe_write_cache_batched: a row's tokens go into the
\* ring in order; the one at offset Kpool - 1 has the ring compressed.
InRow(row, r, p) == {t \in 1..Len(row) : row[t].req = r /\ row[t].pos = p /\ row[t] # Nothing}

DecodePool(row, r, j, old, ring) ==
  IF InRow(row, r, j * Kpool + Kpool - 1) = {} THEN old
  ELSE [o \in Offsets |->
          LET at == InRow(row, r, j * Kpool + o) IN
          IF at = {} THEN ring[o] ELSE row[Max(at)]]

DecodeTail(row, r, o, ring) ==
  LET at == {t \in 1..Len(row) : row[t].req = r /\ row[t].pos % Kpool = o}
  IN IF at = {} THEN ring[o] ELSE row[Max(at)]

-----------------------------------------------------------------------------
(* Rows of the top-k buffer.                                               *)

SelectK     == TopK \div Kpool
Columns     == SelectK * Kpool + Kpool - 1   \* of the expanded pools and the tail
CeilTo(n, m) == ((n + m - 1) \div m) * m

BufferWidth_NoTail == CeilTo(TopK, BlockN)   \* no room for the tail
BufferWidth == CeilTo(TopK + Kpool - 1, BlockN)

\* The profiling run's stand-in for the logits of the decodes.
ProfiledRows == Min({NumReqs * (NumSpec + 1), MaxBatched})

Row(token, length, all, keys) ==
  [req |-> token.req, pos |-> token.pos, kept |-> token.kept,
   length |-> length, all |-> all, keys |-> keys]

DecodeRows(batch, lens) ==
  LET lengths == Unpack(DecodeLens(batch, lens), lens) IN
  [i \in 1..Len(lengths) |-> Row(batch[i], lengths[i], FALSE, "cache")]

\* A later chunk of the same keys skips the gather.  The buffers of the top-k
\* were taken from the workspace that holds them.
ChunkKeys(t, n) == IF SplitChunks /\ t > (n + 1) \div 2 THEN "topk" ELSE "cache"

\* When every context is short enough the rows are causal and nothing is scored.
PrefillRows(region, n) ==
  LET short == \A i \in 1..Len(region) : LengthAt(region[i]) <= TopK IN
  [i \in 1..Len(region) |->
     LET x == region[i] IN
     Row(x, LengthAt(x), short,
         IF short THEN "none" ELSE ChunkKeys(LengthAt(x) - len[x.req], n[x.req]))]

-----------------------------------------------------------------------------
(* One forward pass: request r computes n[r] tokens, of which kept[r] stay. *)

\* A request takes over state r; its blocks keep what was written to them.
NewRequest(r) ==
  /\ gen[r] < MaxGen
  /\ gen' = [gen EXCEPT ![r] = @ + 1]
  /\ \E p \in Prompts : prompt' = [prompt EXCEPT ![r] = p]
  /\ len' = [len EXCEPT ![r] = 0]
  /\ spoiled' = [spoiled EXCEPT ![r] = {}]
  /\ rows' = << >> /\ grid' = 0
  /\ UNCHANGED <<pools, tail>>

\* The scheduler: prefill chunks end at a pool boundary or with the prompt.
Schedulable(r, n) ==
  /\ gen[r] > 0 /\ len[r] + n <= MaxLen
  /\ IF len[r] < prompt[r]
     THEN /\ len[r] + n <= prompt[r]
          /\ len[r] + n = prompt[r] \/ (len[r] + n) % Kpool = 0
     ELSE n <= NumSpec + 1

\* Rejected drafts beyond the end of the incomplete pool took its offsets.
Spoils(r, n, kept) ==
  LET last == len[r] + kept IN
  last % Kpool # 0 /\ len[r] + n - 1 >= (last \div Kpool + 1) * Kpool

Chunk(r, n, kept) == [t \in 1..n[r] |-> Token(r, len[r] + t - 1, t <= kept[r])]

\* The chunks of some requests, one after another.
Chunks(order, n, kept) == FlattenSeq([i \in 1..Len(order) |-> Chunk(order[i], n, kept)])

Decodes(n)  == {r \in Requests : n[r] \in 1..(NumSpec + 1)}
Prefills(n) == {r \in Requests : n[r] > NumSpec + 1}

\* D, P: the order of the decodes and of the prefills in the batch.
Pass(n, kept, D, P, flatten) ==
  LET flat   == Chunks(D, n, kept)
      region == Chunks(P, n, kept)
      lens   == [i \in 1..Len(D) |-> n[D[i]]]
      read   == IF flatten THEN [i \in 1..Len(flat) |-> 1] ELSE lens
      cells  == Grouped(flat, lens, Nothing)
      row(r) == cells[CHOOSE i \in 1..Len(D) : D[i] = r]
  IN
  /\ Len(flat \o region) \in 1..MaxBatched
  /\ pools' = [r \in Requests |-> [j \in Pools |->
                 IF r \in Decodes(n) THEN DecodePool(row(r), r, j, pools[r][j], tail[r])
                 ELSE PrefillPool(region, r, j, pools[r][j])]]
  /\ tail' = [r \in Requests |-> [o \in Offsets |->
                IF r \in Decodes(n) THEN DecodeTail(row(r), r, o, tail[r])
                ELSE PrefillTail(region, r, o, tail[r][o])]]
  /\ rows' = (IF flat = << >> THEN << >> ELSE DecodeRows(flat \o region, read))
             \o PrefillRows(region, n)
  /\ grid' = IF flat = << >> THEN 0 ELSE Len(read) * Max(Range(read))
  /\ len' = [r \in Requests |-> len[r] + kept[r]]
  /\ spoiled' = [r \in Requests |->
                   spoiled[r] \cup (IF Spoils(r, n[r], kept[r])
                                    THEN {(len[r] + kept[r]) \div Kpool} ELSE {})]
  /\ UNCHANGED <<gen, prompt>>

\* keep[r]: what stays of a decode; of a prompt everything does.
Forward ==
  \E n \in [Requests -> 0..MaxLen], keep \in [Requests -> 1..(NumSpec + 1)] :
    LET kept == [r \in Requests |->
                   IF n[r] = 0 \/ len[r] < prompt[r] THEN n[r] ELSE keep[r]] IN
    /\ \A r \in Requests :
         \/ n[r] > 0 /\ kept[r] <= n[r] /\ Schedulable(r, n[r])
              /\ (len[r] < prompt[r] => keep[r] = 1)
         \/ n[r] = 0 /\ keep[r] = 1
    /\ \E D \in SetToSeqs(Decodes(n)), P \in SetToSeqs(Prefills(n)), flatten \in Flattens :
         Pass(n, kept, D, P, flatten)

Next == Forward \/ \E r \in Requests : NewRequest(r)

Spec == Init /\ [][Next]_vars

-----------------------------------------------------------------------------
(* Properties.                                                             *)

Tokens == [req : 0..NumReqs, gen : 0..MaxGen, pos : 0..MaxLen, kept : BOOLEAN]

TypeOK ==
  /\ gen \in [Requests -> 0..MaxGen]
  /\ prompt \in [Requests -> 0..MaxLen] /\ len \in [Requests -> 0..MaxLen]
  /\ pools \in [Requests -> [Pools -> {<< >>} \cup [Offsets -> Tokens]]]
  /\ tail \in [Requests -> [Offsets -> Tokens]]
  /\ spoiled \in [Requests -> SUBSET Pools]
  /\ rows \in Seq([req : Requests, pos : 0..MaxLen, kept : BOOLEAN, length : 0..MaxLen,
                   all : BOOLEAN, keys : {"cache", "topk", "none"}])
  /\ grid \in Nat

\* The key of every pool a request has completed is made of its own kept tokens,
\* and the tail block holds those of the pool it has not: whichever of the two
\* write paths they came through, whatever was in the blocks before.  Pools that
\* lost tokens to rejected drafts are excepted.
KeysRight ==
  \A r \in Requests, p \in 0..(MaxLen - 1) :
    LET j == p \div Kpool
        own == Token(r, p, TRUE)
    IN p < len[r] /\ j \notin spoiled[r] =>
         IF j < len[r] \div Kpool THEN pools[r][j][p % Kpool] = own
         ELSE tail[r][p % Kpool] = own

\* What a row can attend to: everything before it, or the tokens of the pools
\* that score best and the tail.
Attended(row) ==
  LET available == {j \in Pools : (j + 1) * Kpool <= LengthAt(row)}
      picks == {S \in SUBSET available :
                  Cardinality(S) = Min({SelectK, Cardinality(available)})}
  IN IF row.all THEN {0..row.pos}
     ELSE {{p \in 0..MaxLen : p \div Kpool \in S}
             \cup ((row.length \div Kpool) * Kpool)..(row.length - 1) : S \in picks}

\* A row attends to nothing past its token, always to the whole incomplete pool
\* and, while its context fits the budget, to everything.
RowsAttendRight ==
  \A i \in 1..Len(rows) : \A A \in Attended(rows[i]) :
    LET row == rows[i] IN
    row.kept =>
      /\ A \subseteq 0..row.pos
      /\ {p \in 0..row.pos : p >= (LengthAt(row) \div Kpool) * Kpool} \subseteq A
      /\ LengthAt(row) <= TopK => A = 0..row.pos

\* A padded batch needs no more logits than were profiled, and what a row
\* expands to has room in the top-k buffer.
FitsBuffers ==
  /\ grid <= ProfiledRows
  /\ \A i \in 1..Len(rows) :
       IF rows[i].all THEN rows[i].pos < BufferWidth ELSE Columns <= BufferWidth

\* "Workspace views keep identical fill/-1 and copy semantics": every row of a
\* prefill is scored with keys gathered from the cache.
ScoredWithKeys == \A i \in 1..Len(rows) : rows[i].keys # "topk"
=============================================================================
