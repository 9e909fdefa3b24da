------------------------------ MODULE Throughput ------------------------------
(***************************************************************************)
(* The measuring half of the status page (image/status-server.py): the     *)
(* loop that turns the engine's counters into rates per window, and the    *)
(* percentiles a tool call takes between two scrapes.  Any scrape may      *)
(* fail, take long, or meet an engine that has done anything since.        *)
(*                                                                         *)
(* External: the engine, which credits a prompt with its last chunk only,  *)
(* while its KV blocks grow with every chunk.  Its counters do not start   *)
(* again under the page: engine and page are one container.                *)
(***************************************************************************)
EXTENDS Integers, FiniteSetsExt, SequencesExt

CONSTANTS
  Keep,        \* _TP_KEEP
  Chunks,      \* chunks of a prompt, each of them some KV blocks
  PromptLen,   \* tokens of a prompt
  Gains,       \* tokens a step may generate
  Les,         \* upper bounds of the buckets, the greatest one for +Inf
  Ticks,      \* by how much the wall clock may move between two scrapes
  MaxScrapes,  \* bound on the scrapes
  MaxSteps     \* bound on the steps of the engine

\* Assumed of the constants wherever the module is instantiated.
ThroughputAssumption ==
  /\ Keep \in Nat \ {0} /\ Chunks \in Nat \ {0} /\ PromptLen \in Nat \ {0}
  /\ Gains \subseteq Nat \ {0} /\ Ticks \subseteq Int
  /\ IsFiniteSet(Les) /\ Les # {} /\ Les \subseteq Nat
  /\ MaxScrapes \in Nat /\ MaxSteps \in Nat

VARIABLES
  gen, prompt,  \* the counters of generated and of prompt tokens
  hist,         \* hist[le]: first tokens that took at most le, cumulative
  done,         \* chunks computed of the prompt being prefilled
  decodes,      \* requests being decoded
  clock,        \* time.time()
  prev,         \* the reading the next window starts at, or None
  tp,           \* the last windows, newest last
  before,       \* the histogram a percentile call has scraped, or None
  answer,       \* its answer
  steps, scrapes,
  first, told, skipped,  \* history: gen at the first reading, tokens reported in
                         \* windows, tokens of windows that took no time
  worked, freed,         \* history: what the engine did since prev
  seen                   \* history: the first tokens since before

engineVars  == <<gen, prompt, hist, done, decodes, steps>>
loopVars    == <<clock, prev, tp, scrapes, first, told, skipped>>
callVars    == <<before, answer>>
historyVars == <<worked, freed, seen>>
vars        == <<engineVars, loopVars, callVars, historyVars>>

None  == [t |-> -1]
Empty == [le \in Les |-> 0]

Init ==
  /\ gen = 0 /\ prompt = 0 /\ hist = Empty /\ done = 0 /\ decodes = 0 /\ steps = 0
  /\ clock = 0 /\ prev = None /\ tp = << >> /\ scrapes = 0
  /\ first = 0 /\ told = 0 /\ skipped = 0
  /\ before = None /\ answer = None
  /\ worked = FALSE /\ freed = FALSE /\ seen = << >>

-----------------------------------------------------------------------------
(* The engine.                                                             *)

Kv == decodes * Chunks + done

Works ==
  /\ steps < MaxSteps /\ steps' = steps + 1
  /\ worked' = TRUE
  /\ UNCHANGED <<loopVars, callVars, freed>>

Chunk ==
  /\ done < Chunks - 1
  /\ done' = done + 1
  /\ Works /\ UNCHANGED <<gen, prompt, hist, decodes, seen>>

\* The last chunk credits the prompt and yields the first token, after v.
LastChunk(v) ==
  /\ done = Chunks - 1
  /\ done' = 0 /\ decodes' = decodes + 1
  /\ prompt' = prompt + PromptLen /\ gen' = gen + 1
  /\ hist' = [le \in Les |-> hist[le] + IF v <= le THEN 1 ELSE 0]
  /\ seen' = IF before = None THEN seen ELSE Append(seen, v)
  /\ Works

Decode(n) ==
  /\ decodes > 0
  /\ gen' = gen + n
  /\ Works /\ UNCHANGED <<prompt, hist, done, decodes, seen>>

\* A request ends, is aborted or preempted.
Free ==
  /\ steps < MaxSteps /\ steps' = steps + 1
  /\ freed' = TRUE
  /\ \/ decodes > 0 /\ decodes' = decodes - 1 /\ UNCHANGED done
     \/ done > 0 /\ done' = 0 /\ UNCHANGED decodes
  /\ UNCHANGED <<gen, prompt, hist, loopVars, callVars, worked, seen>>

Engine ==
  \/ Chunk \/ Free \/ \E v \in Les : LastChunk(v) \/ \E n \in Gains : Decode(n)

-----------------------------------------------------------------------------
(* throughput_loop.                                                        *)

\* scrape_metrics.
Reading(t) == [t |-> t, gen |-> gen, prompt |-> prompt, kv |-> Kv]

\* round(n / d, 1), in tenths.
Rate(n, d) == (20 * n + d) \div (2 * d)

Uncounted_TwoBlocks(a, b) ==     \* the blocks of one chunk are not enough
  b.kv > a.kv + 1 /\ b.gen = a.gen /\ b.prompt = a.prompt

\* uncounted_prefill: prefill that the engine has not credited yet.
Uncounted(a, b) == b.kv > a.kv /\ b.gen = a.gen /\ b.prompt = a.prompt

Window(a, b) ==
  [from |-> a, to |-> b,
   decode |-> Rate(b.gen - a.gen, b.t - a.t),
   prefill |-> Rate(b.prompt - a.prompt, b.t - a.t),
   uncounted |-> Uncounted(a, b),
   worked |-> worked, freed |-> freed]

\* The newest windows stay.
Kept(s) == SubSeq(s, Max({1, Len(s) - Keep + 1}), Len(s))

NextPrev_Forgets(ok, cur) == IF ok THEN cur ELSE None   \* of a failed scrape

\* A failed scrape keeps the last reading.
NextPrev(ok, cur) == IF ok THEN cur ELSE prev

\* One round of the loop.
Sample(d, ok) ==
  LET cur == Reading(clock + d)
      dt  == IF prev = None THEN 0 ELSE cur.t - prev.t
      delta == IF prev = None THEN 0 ELSE gen - prev.gen
  IN
  /\ scrapes < MaxScrapes /\ scrapes' = scrapes + 1
  /\ clock' = clock + d /\ clock' >= 0
  /\ tp' = IF ok /\ dt > 0 THEN Kept(Append(tp, Window(prev, cur))) ELSE tp
  /\ prev' = NextPrev(ok, cur)
  /\ first' = IF ok /\ prev = None THEN gen ELSE first
  /\ told' = IF ok /\ dt > 0 THEN told + delta ELSE told
  /\ skipped' = IF ok /\ dt <= 0 THEN skipped + delta ELSE skipped
  /\ IF ok THEN worked' = FALSE /\ freed' = FALSE ELSE UNCHANGED <<worked, freed>>
  /\ UNCHANGED <<engineVars, callVars, seen>>

-----------------------------------------------------------------------------
(* _t_latency_percentiles.                                                 *)

\* The call scrapes, sleeps, and scrapes again.
Ask ==
  /\ before = None /\ scrapes < MaxScrapes /\ scrapes' = scrapes + 1
  /\ before' = [t |-> clock, hist |-> hist]
  /\ seen' = << >> /\ answer' = None
  /\ UNCHANGED <<engineVars, clock, prev, tp, first, told, skipped, worked, freed>>

Delta_Lifetime(a) == hist           \* since the engine started

\* The cumulative counts of the window.
Delta(a) == [le \in Les |-> hist[le] - a[le]]

\* The smallest bound that a share q of the window's observations is within;
\* the greatest bound holds their number.
Quantile(delta, q) ==
  Min({le \in Les : delta[le] * q[2] >= q[1] * delta[Max(Les)]} \cup {Max(Les)})

Shares == {<<1, 2>>, <<9, 10>>, <<99, 100>>}

\* When the second scrape fails too nothing is said of any histogram.
Answer(ok) ==
  /\ before # None
  /\ LET delta == Delta(before.hist) IN
     answer' = IF ~ok THEN [t |-> clock, total |-> -1]
               ELSE IF delta[Max(Les)] <= 0 THEN [t |-> clock, total |-> 0]
               ELSE [t |-> clock, total |-> delta[Max(Les)], obs |-> seen,
                     at |-> [q \in Shares |-> Quantile(delta, q)]]
  /\ before' = None
  /\ UNCHANGED <<engineVars, loopVars, historyVars>>

Next ==
  \/ Engine \/ Ask
  \/ \E d \in Ticks, ok \in BOOLEAN : Sample(d, ok)
  \/ \E ok \in BOOLEAN : Answer(ok)

Spec == Init /\ [][Next]_vars

-----------------------------------------------------------------------------
(* Properties.                                                             *)

TypeOK ==
  /\ gen \in Nat /\ prompt \in Nat /\ done \in 0..(Chunks - 1) /\ decodes \in Nat
  /\ hist \in [Les -> Nat] /\ Len(tp) <= Keep
  /\ told \in Nat /\ skipped \in Nat /\ first \in Nat

\* "Rates are deltas between samples": every token generated since the first
\* reading is reported in exactly one window, however many scrapes failed, unless
\* the wall clock was set back in its window; the windows on the page follow one
\* another.
WindowsTile ==
  /\ prev # None => told + skipped = prev.gen - first
  /\ told + skipped > 0 => prev # None
  /\ \A i \in 1..(Len(tp) - 1) :
       tp[i].to = tp[i + 1].from \/ tp[i].to.gen + skipped >= tp[i + 1].from.gen

\* "the only thing on this page that shows the engine is busy": a window in which
\* the engine computed anything and freed nothing shows a rate or uncounted
\* prefill, unless it credited so few tokens that the rates round to nothing.
BusyShows ==
  \A i \in 1..Len(tp) :
    LET w == tp[i]
        credited == (w.to.gen - w.from.gen) + (w.to.prompt - w.from.prompt)
    IN w.worked /\ ~w.freed =>
         \/ w.decode > 0 \/ w.prefill > 0 \/ w.uncounted
         \/ credited > 0 /\ 20 * credited < 2 * (w.to.t - w.from.t)

\* "as p50/p90/p99 over a window you choose": each percentile is the smallest
\* bound that this share of the first tokens of the window, and of none before
\* it, took at most.
PercentileRight ==
  answer # None /\ answer.total > 0 =>
    LET within(le) == Cardinality({i \in DOMAIN answer.obs : answer.obs[i] <= le}) IN
    /\ answer.total = Len(answer.obs)
    /\ \A q \in Shares, le \in Les :
         (le >= answer.at[q]) <=> (within(le) * q[2] >= q[1] * Len(answer.obs))
=============================================================================
