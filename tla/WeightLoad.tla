------------------------------ MODULE WeightLoad ------------------------------
(***************************************************************************)
(* Loading a checkpoint (patches/glm5next_model.py, load_weights): tensors *)
(* arrive one by one, in the order of the files, and each one ends in a    *)
(* shard of a parameter, in a parameter of its own, or nowhere.  What the  *)
(* model keeps in BF16 may come as block FP8: a weight and its scales,     *)
(* which may be files apart.                                               *)
(*                                                                         *)
(* External: the order of the tensors, and the weight loaders, which copy  *)
(* what they are given; the one of the experts drops those of other ranks. *)
(***************************************************************************)
EXTENDS Naturals, Sequences, FiniteSets

CONSTANTS
  Holds,  \* Holds[l]: projections of layer l, as <<name, expert>>, expert 0 for none
  Mtp,    \* the layers past num_hidden_layers
  LocalExperts,  \* the experts of this rank
  Stores, \* the sets of projections a checkpoint may store as FP8
  Keeps   \* the sets of those the model may keep in FP8

\* Assumed of the constants wherever the module is instantiated: no projection of a
\* checkpoint has the name of a fused parameter, and experts have no others than these.
LoadAssumption ==
  /\ Mtp \subseteq DOMAIN Holds /\ 0 \notin LocalExperts
  /\ \A l \in DOMAIN Holds : \A p \in Holds[l] :
       /\ p \in STRING \X Nat
       /\ p[1] \notin {"gate_up_proj", "fused_qkv_a_proj", "wk_weights_proj", "in_proj_qkvbfg_a"}
       /\ p[2] # 0 => p[1] \in {"gate_proj", "up_proj", "down_proj"}
  /\ \A f \in Stores : f \subseteq {"q_a_proj", "kv_a_proj", "q_b_proj", "o_proj", "wk"}
  /\ \A k \in Keeps : k \subseteq {"q_b_proj", "o_proj"}

VARIABLES
  fp8,     \* projections this checkpoint stores as FP8
  kept,    \* those the model has FP8 parameters for
  todo,    \* tensors that have not arrived
  pending, \* _pending_wk_fp8: halves that wait for the other one
  loaded   \* loaded[s]: what was loaded into shard s, in order

vars == <<fp8, kept, todo, pending, loaded>>

Tensor(l, p, part) == [layer |-> l, proj |-> p[1], expert |-> p[2], part |-> part]

\* The tensors of a checkpoint.
PartsOf(f, p) == IF p[1] \in f THEN {"weight", "scale"} ELSE {"weight"}
Checkpoint(f) ==
  UNION {UNION {{Tensor(l, p, part) : part \in PartsOf(f, p)} : p \in Holds[l]} :
         l \in DOMAIN Holds}

-----------------------------------------------------------------------------
(* Where a tensor goes.                                                    *)

\* stacked_params_mapping: the projections that share a parameter, and its shards.
Stacked ==
  [gate_proj |-> <<"gate_up_proj", 0>>,     up_proj |-> <<"gate_up_proj", 1>>,
   q_a_proj |-> <<"fused_qkv_a_proj", 0>>,  kv_a_proj |-> <<"fused_qkv_a_proj", 1>>,
   wk |-> <<"wk_weights_proj", 0>>,         weights_proj |-> <<"wk_weights_proj", 1>>,
   q_proj |-> <<"in_proj_qkvbfg_a", 0>>,    k_proj |-> <<"in_proj_qkvbfg_a", 1>>,
   v_proj |-> <<"in_proj_qkvbfg_a", 2>>,    b_proj |-> <<"in_proj_qkvbfg_a", 3>>,
   f_a_proj |-> <<"in_proj_qkvbfg_a", 4>>,  g_a_proj |-> <<"in_proj_qkvbfg_a", 5>>]

\* A shard: of a stacked parameter, of an expert, or a parameter of its own.
Shard(t) ==
  [layer |-> t.layer, expert |-> t.expert, part |-> t.part,
   at |-> IF t.expert = 0 /\ t.proj \in DOMAIN Stacked THEN Stacked[t.proj]
          ELSE <<t.proj, 0>>]

\* get_spec_layer_idx_from_weight_name: the main model has no such layer.
Skipped(t) == t.layer \in Mtp

\* _try_load_fp8_indexer_wk and _try_load_fp8_attn_proj take the halves of what the
\* model has no FP8 parameter for.
Halves(t) == t.expert = 0 /\ t.proj \in fp8 \ kept

Key_OfLayer(t) == t.layer      \* one entry for all projections of a layer

\* The entry of the buffer a half waits in.
Key(t) == <<t.layer, t.proj>>

\* The rope rows a NoPE checkpoint lacks are zeros.
Padded(t) == t.proj = "kv_a_proj"

NoScale == [part |-> "none"]
Raw(t) == [from |-> t, scale |-> NoScale, padded |-> Padded(t)]
Dequantized(w, s) == [from |-> w, scale |-> s, padded |-> Padded(w)]

-----------------------------------------------------------------------------
Shards == {Shard(t) : t \in UNION {Checkpoint(f) : f \in Stores}}

Init ==
  /\ fp8 \in Stores /\ kept \in Keeps /\ kept \subseteq fp8
  /\ todo = Checkpoint(fp8)
  /\ pending = {}
  /\ loaded = [s \in Shards |-> << >>]

Arrives(t) == t \in todo /\ todo' = todo \ {t} /\ UNCHANGED <<fp8, kept>>

Into(s, v) == loaded' = [loaded EXCEPT ![s] = Append(@, v)]

Skip(t) ==
  /\ Skipped(t)
  /\ Arrives(t) /\ UNCHANGED <<pending, loaded>>

\* The first half waits; with the second one the weight is dequantized and loaded.
Pair(t) ==
  LET mate == {u \in pending : Key(u) = Key(t) /\ u.part # t.part}
      w == CHOOSE u \in mate \cup {t} : u.part = "weight"
      s == CHOOSE u \in mate \cup {t} : u.part = "scale"
  IN
  /\ ~Skipped(t) /\ Halves(t)
  /\ Arrives(t)
  /\ IF mate = {}
     THEN pending' = pending \cup {t} /\ UNCHANGED loaded
     ELSE pending' = pending \ mate /\ Into(Shard(w), Dequantized(w, s))

\* A stacked or a direct parameter.
Plain(t) ==
  /\ ~Skipped(t) /\ ~Halves(t) /\ t.expert = 0
  /\ Arrives(t)
  /\ Into(Shard(t), Raw(t)) /\ UNCHANGED pending

Expert(t) ==
  /\ ~Skipped(t) /\ ~Halves(t) /\ t.expert # 0
  /\ Arrives(t)
  /\ IF t.expert \in LocalExperts THEN Into(Shard(t), Raw(t)) ELSE UNCHANGED loaded
  /\ UNCHANGED pending

Next == \E t \in todo : Skip(t) \/ Pair(t) \/ Plain(t) \/ Expert(t)

Spec == Init /\ [][Next]_vars

-----------------------------------------------------------------------------
(* Properties.                                                             *)

TypeOK ==
  /\ fp8 \in Stores /\ kept \in Keeps
  /\ todo \subseteq Checkpoint(fp8) /\ pending \subseteq Checkpoint(fp8) \ todo

\* Whatever the order: a projection of the model is loaded exactly once, when all of
\* it has arrived; FP8 codes reach a BF16 parameter only with their own scales, and
\* the rope rows are there.  Nothing else is loaded, and no half is left over.
LoadedOnce ==
  /\ \A s \in Shards :
       LET parts == {t \in Checkpoint(fp8) : Shard(t) = s}
           t == CHOOSE u \in parts : TRUE
           other == [t EXCEPT !.part = IF @ = "weight" THEN "scale" ELSE "weight"]
           here == t.layer \notin Mtp /\ (t.expert = 0 \/ t.expert \in LocalExperts)
           whole == t.proj \in fp8 \ kept
       IN loaded[s] =
            IF parts = {} \/ ~here \/ t \in todo THEN << >>
            ELSE IF ~whole
            THEN <<[from |-> t, scale |-> NoScale, padded |-> t.proj = "kv_a_proj"]>>
            ELSE IF t.part = "scale" \/ other \in todo THEN << >>
            ELSE <<[from |-> t, scale |-> other, padded |-> t.proj = "kv_a_proj"]>>
  /\ todo = {} => pending = {}
=============================================================================
