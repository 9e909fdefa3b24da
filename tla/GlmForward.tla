------------------------------ MODULE GlmForward ------------------------------
(***************************************************************************)
(* The chain of decoder layers (patches/glm5next_model.py).  A layer mixes *)
(* the output of each of its two sublayers into several residual streams;  *)
(* the mixing after its second one is left to the next layer, fused with   *)
(* what that one does first, so between two layers the streams lack it.    *)
(* The drafter is fed with what some layers put out.                       *)
(*                                                                         *)
(* A sublayer is a pair of a layer and "attn" or "mlp"; streams are the    *)
(* sequence of the sublayers mixed into them, in order.  With sequence     *)
(* parallelism a value is sharded over the ranks between the collectives;  *)
(* a sum over the ranks of what each has computed from its own tokens is   *)
(* of no token.                                                            *)
(*                                                                         *)
(* External: which layers the drafter asks for, and the collectives.       *)
(***************************************************************************)
EXTENDS Naturals, Sequences, FiniteSets

CONSTANTS
  NumLayers,  \* num_hidden_layers
  Denses      \* how many of the first may have a dense MLP; the others a mixture

\* Assumed of the constants wherever the module is instantiated.
ForwardAssumption == NumLayers \in Nat \ {0} /\ Denses \subseteq 0..NumLayers

Layers == 0..(NumLayers - 1)

VARIABLES
  dense,     \* how many have
  mhc,       \* residual streams, or one plain residual
  parallel,  \* is_sequence_parallel
  capture,   \* aux_hidden_state_layers
  layer,     \* the layer to come
  x, residual, post,  \* what one layer hands to the next, or None
  fed,       \* history: what each sublayer computed from
  aux,       \* aux_hidden_states
  result     \* what forward returns, or None

vars == <<dense, mhc, parallel, capture, layer, x, residual, post, fed, aux, result>>

None == [kind |-> "none"]

\* Streams or a plain residual; the output of a sublayer, of all tokens or sharded.
Streams(s, shard)  == [kind |-> "streams", of |-> s, shard |-> shard]
Contracted(s, shard) == [kind |-> "hidden", of |-> s, shard |-> shard]
Out(sub, s, shard) == [kind |-> "out", sub |-> sub, from |-> s, shard |-> shard]

\* hc_post: the output of a sublayer mixed into the streams it was computed from.
HcPost(out, res) == Streams(Append(res.of, out.sub), out.shard)

Moe(l) == l >= dense

\* A collective, or nothing without sequence parallelism.
Gather(v)  == [v EXCEPT !.shard = FALSE]
Scatter(v) == [v EXCEPT !.shard = parallel]

\* The attention computes from all tokens.
Attention(l, v) == Scatter(Out(<<l, "attn">>, Gather(v).of, FALSE))

Mixed == <<"mixed">>

\* What a sum over the ranks is computed from: of shards, from different tokens.
Summed(v) == IF v.shard THEN Mixed ELSE v.of

\* A mixture takes shards as they are; a dense MLP sums over the ranks in any case.
Mlp(l, v) == Out(<<l, "mlp">>, IF Moe(l) THEN v.of ELSE Summed(v), v.shard)

-----------------------------------------------------------------------------
Init ==
  /\ dense \in Denses /\ mhc \in BOOLEAN /\ parallel \in BOOLEAN
  /\ capture \in SUBSET (1..NumLayers)
  /\ layer = 0
  /\ x = Contracted(<< >>, parallel)
  /\ residual = None /\ post = FALSE
  /\ fed = << >> /\ aux = << >> /\ result = None

\* The attn streams of a layer: expanded, or completed with what the last one left.
PreAttention(l) ==
  IF post THEN HcPost(x, residual) ELSE Streams(x.of, x.shard)

AuxState_AsHanded(l, after) == after.x     \* without the mixing left to the next layer

\* What a captured layer put out: its own mixing is made up for, and shards gathered.
AuxState(l, after) ==
  Gather(IF after.post
         THEN Contracted(HcPost(after.x, after.residual).of, after.x.shard)
         ELSE after.x)

\* Glm5NextDecoderLayer.forward without streams: the residual is summed at the end.
\* It has no collectives: attention and MLP take the shards for all tokens.
PlainLayer(l) ==
  LET a == Out(<<l, "attn">>, Summed(x), x.shard)
      r == Contracted(Append(x.of, a.sub), x.shard)
      m == Out(<<l, "mlp">>, Summed(r), x.shard)
  IN [x |-> Contracted(Append(r.of, m.sub), x.shard), residual |-> r,
      post |-> FALSE, fed |-> <<a, m>>]

\* With streams: two sublayers, the mixing of the second one deferred but in the last
\* layer, which contracts the streams.
MhcLayer(l) ==
  LET pre == PreAttention(l)
      a == Attention(l, pre)
      mid == HcPost(a, pre)
      m == Mlp(l, mid)
      last == l = NumLayers - 1
  IN [x |-> IF last THEN Contracted(HcPost(m, mid).of, m.shard) ELSE m,
      residual |-> IF last THEN None ELSE mid,
      post |-> ~last,
      fed |-> <<a, m>>]

\* One round of the loop over the layers.
Layer ==
  /\ layer < NumLayers
  /\ LET after == IF mhc THEN MhcLayer(layer) ELSE PlainLayer(layer) IN
     /\ x' = after.x /\ residual' = after.residual /\ post' = after.post
     /\ fed' = fed \o after.fed
     /\ aux' = IF layer + 1 \in capture THEN Append(aux, AuxState(layer, after)) ELSE aux
  /\ layer' = layer + 1
  /\ UNCHANGED <<dense, mhc, parallel, capture, result>>

\* The final norm.
Return ==
  /\ layer = NumLayers /\ result = None
  /\ result' = [kind |-> "result", hidden |-> Gather(x), aux |-> aux]
  /\ UNCHANGED <<dense, mhc, parallel, capture, layer, x, residual, post, fed, aux>>

Next == Layer \/ Return

Spec == Init /\ [][Next]_vars

-----------------------------------------------------------------------------
(* Properties.                                                             *)

TypeOK ==
  /\ layer \in 0..NumLayers /\ capture \subseteq 1..NumLayers
  /\ post \in BOOLEAN /\ Len(fed) = 2 * layer /\ Len(aux) <= layer

\* The first n sublayers, in order, and those up to and with layer l.
Before(n)  == [i \in 1..n |-> <<(i - 1) \div 2, IF i % 2 = 1 THEN "attn" ELSE "mlp">>]
Through(l) == Before(2 * (l + 1))

\* The sublayers that sum shards over the ranks, although "no collective ops are needed":
\* with sequence parallelism the dense MLPs, and without streams all.
SumsShards(sub) == parallel /\ (mhc => sub[2] = "mlp" /\ ~Moe(sub[1]))

\* Deferring a layer's last mixing shows nowhere, in layers dense or not, sharded or
\* not: each sublayer computes from the streams of all sublayers before it, and the
\* drafter gets, for each layer it asked for and in their order, the sum of the streams
\* with all sublayers up to that layer's in it, of all tokens.  What a sublayer
\* computes that sums shards is excepted: it is of mixed tokens.
NothingDeferredShows ==
  LET all == Through(NumLayers - 1)
      asked == {l \in capture : l <= layer}
      place(l) == Cardinality({k \in asked : k <= l})
  IN
  /\ \A i \in 1..Len(fed) :
       /\ fed[i].sub = all[i]
       /\ SumsShards(all[i]) \/ fed[i].from = Before(i - 1)
  /\ Len(aux) = Cardinality(asked)
  /\ \A l \in asked : aux[place(l)] = Contracted(Through(l - 1), FALSE)
  /\ result # None => result.hidden = Contracted(all, FALSE) /\ result.aux = aux
=============================================================================
