-------------------------------- MODULE WarmUp --------------------------------
(***************************************************************************)
(* Compiling kernels before the first request (patches/                    *)
(* spec_decode_rejection_warmup.py and deepseek_v4_mhc_warmup.py).  A      *)
(* kernel is compiled once per variant: the arguments the compiler         *)
(* specializes on.  A pass launches variants one after another.  What      *)
(* raises in its try ends it with a warning; what raises outside ends the  *)
(* start.                                                                  *)
(*                                                                         *)
(* A variant is a pair of a kernel, named like its pass, and what it       *)
(* depends on.  External: the compilers, and what requests come.           *)
(***************************************************************************)
EXTENDS Integers, Sequences, FiniteSetsExt, SequencesExt

CONSTANTS
  Specs,        \* the speculative configs: [method, n], n the drafts of a request
  Splits,       \* n_splits of so many tokens (external)
  MaxSeqs,      \* max_num_seqs
  MaxTokens,    \* max_num_batched_tokens
  Captures,     \* cudagraph_capture_sizes
  NumTables,    \* the 2-D block tables
  MaxLate       \* bound on compilations while serving

\* Assumed of the constants wherever the module is instantiated.
WarmUpAssumption ==
  /\ Specs \subseteq [method : {"none", "mtp", "dflash"}, n : 0..15]
  /\ MaxSeqs \in Nat \ {0} /\ MaxTokens \in 1..16384
  /\ Splits \in [1..MaxTokens -> Nat]
  /\ Captures \subseteq Nat \ {0} /\ NumTables \in Nat
  /\ MaxLate \in Nat

VARIABLES
  specConfig, \* speculative_config; the method "none" stands for None
  todo,       \* the passes to come, the current one first: [pass, launches]
  failed,     \* passes that raised
  down,       \* the worker did not start
  compiled,   \* variants in the kernel caches
  late        \* variants a request had to wait for

vars == <<specConfig, todo, failed, down, compiled, late>>

-----------------------------------------------------------------------------
(* The variants each pass launches.                                        *)

\* _select_mhc_warmup_token_sizes.
Candidates == {1, 2, 4, 8, 16, 32, 48, 64, 128, 256, 512, 1024, 2048, 4096, 8192, 16384}
Sizes ==
  LET max == Min({MaxTokens, 16384})
  IN {s \in Candidates \cup Captures \cup {max} : 1 <= s /\ s <= max}
MhcSizes ==
  [i \in 1..Cardinality(Sizes) |->
     CHOOSE s \in Sizes : Cardinality({t \in Sizes : t <= s}) = i]

\* What hc_pre and hc_fused_post_pre are specialized on with so many tokens.
MhcKey(tokens) == <<Splits[tokens], tokens <= 16>>

\* The query tokens of a request in a draft: the anchor and the masks.
NumQuery == specConfig.n + 1

Block(scheduled) ==
  LET n == scheduled + NumQuery
  IN Min({256, Min({b \in {2, 4, 8, 16, 32, 64, 128, 256, 512} : b >= Min({n, 512})})})

Ladder_NoTop == << 1, 16, 32, 64 >>

\* _dflash_prepare_block_sizes: the scheduled tokens that are tried.
Ladder == << 1, 16, 32, 64, 128 >>

\* The greedy and the sampling branch, processed and raw logits, for one request and
\* for the most; of the number only whether it is one matters to the compiler.
Rejections ==
  LET Both(n, dt) == << <<n = 1, dt, 0>>, <<n = 1, dt, 1>> >>
      Of(n) == Both(n, "model") \o Both(n, "float32")
  IN Of(1) \o IF MaxSeqs = 1 THEN << >> ELSE Of(MaxSeqs)

Pass(name, launches) == [pass |-> name, launches |-> launches]

\* The dtype pairs of the first rejection pass: never used, serving has other indices.
Pairs == << <<"model", "model">>, <<"float32", "float32">>,
            <<"float32", "model">>, <<"model", "float32">> >>

MhcPass == Pass("mhc", [i \in DOMAIN MhcSizes |-> MhcKey(MhcSizes[i])])

\* Only the drafter prepares; another method returns at once.
PreparePass ==
  Pass("prepare", IF specConfig.method # "dflash" THEN << >>
                  ELSE [i \in DOMAIN Ladder |-> Block(Ladder[i])])

PagesPass == Pass("pages", [t \in 1..NumTables |-> t])
TailPass  == Pass("tail", <<4, 8, 16>>)

\* spec_decode_rejection_warmup, after the mHC pass: nothing without speculation.
Passes ==
  CASE specConfig.method = "none" -> <<MhcPass>>
    [] specConfig.method # "none" /\ specConfig.n = 0 -> <<MhcPass, PreparePass, TailPass>>
    [] OTHER -> <<MhcPass, Pass("pairs", Pairs), Pass("reject", Rejections), PreparePass,
                  PagesPass, TailPass>>

-----------------------------------------------------------------------------
Init ==
  /\ specConfig \in Specs
  /\ todo = Passes
  /\ failed = {} /\ down = FALSE /\ compiled = {} /\ late = {}

\* The next launch of the pass compiles its variant.
Launch ==
  /\ todo # << >> /\ ~down
  /\ LET p == Head(todo) IN
     IF p.launches = << >>
     THEN todo' = Tail(todo) /\ UNCHANGED compiled
     ELSE /\ compiled' = compiled \cup {<<p.pass, Head(p.launches)>>}
          /\ todo' = [todo EXCEPT ![1].launches = Tail(@)]
  /\ UNCHANGED <<specConfig, failed, down, late>>

\* A launch raises in its try: the rest of the pass is skipped.
Raise ==
  /\ todo # << >> /\ ~down
  /\ LET p == Head(todo) IN
     /\ p.pass # "mhc" /\ p.launches # << >>
     /\ failed' = failed \cup {p.pass}
     /\ todo' = Tail(todo)
  /\ UNCHANGED <<specConfig, down, compiled, late>>

\* A pass that has launched nothing so far.
Untouched(p) ==
  \E i \in DOMAIN Passes :
    Passes[i].pass = p.pass /\ Len(Passes[i].launches) = Len(p.launches)

\* It raises outside: anywhere in the mHC pass, in the buffers of a tail or the wait for
\* them, in the buffers of a dtype pair, before the try of another pass.
Escape ==
  /\ todo # << >> /\ ~down
  /\ LET p == Head(todo) IN
     \/ p.pass \in {"mhc", "tail"}
     \/ p.pass = "pairs" /\ p.launches # << >>
     \/ p.pass \in {"reject", "prepare", "pages"} /\ p.launches # << >> /\ Untouched(p)
  /\ down' = TRUE
  /\ UNCHANGED <<specConfig, todo, failed, compiled, late>>

\* What requests may need: batches of any size, drafts of any number of scheduled tokens,
\* verifications of any batch, the tails of the kpools in use.
Needed ==
  {<<"mhc", MhcKey(t)>> : t \in 1..MaxTokens}
  \cup {<<"tail", k>> : k \in {4, 8, 16}}
  \cup (IF specConfig.method # "dflash" THEN {}
        ELSE {<<"prepare", Block(s)>> : s \in 1..Min({MaxTokens, 300})})
  \cup IF specConfig.method = "none" \/ specConfig.n = 0 THEN {}
       ELSE {<<"reject", r>> :
               r \in {n = 1 : n \in 1..MaxSeqs} \X {"model", "float32"} \X {0, 1}}
            \cup {<<"pages", t>> : t \in 1..NumTables}

\* A request needs a variant, which is compiled now if it was not before.
Serve ==
  /\ todo = << >> /\ ~down /\ Cardinality(late) < MaxLate
  /\ \E v \in Needed \ compiled :
       compiled' = compiled \cup {v} /\ late' = late \cup {v}
  /\ UNCHANGED <<specConfig, todo, failed, down>>

Next == Launch \/ Raise \/ Escape \/ Serve

Spec == Init /\ [][Next]_vars

-----------------------------------------------------------------------------
(* Properties.                                                             *)

TypeOK ==
  /\ specConfig \in Specs
  /\ failed \subseteq {"pairs", "reject", "prepare", "pages", "tail"}
  /\ down \in BOOLEAN /\ late \subseteq compiled

\* What the passes do not try: the tails without speculation, the blocks between those of
\* one and of 16 scheduled tokens, the splits that no warmed batch size has.
Untried(v) ==
  \/ v[1] = "tail" /\ specConfig.method = "none"
  \/ v[1] = "prepare" /\ v[2] \in (Block(1) + 1)..(Block(16) - 1)
  \/ v[1] = "mhc" /\ \A s \in Sizes : v[2] # MhcKey(s)

\* Warm-up covers what is served, but for what it does not try: a kernel is compiled during
\* a request only if the pass that is there to compile it raised, however other passes
\* fared.
LateMeansFailed == \A v \in late : v[1] \in failed \/ Untried(v)
=============================================================================
