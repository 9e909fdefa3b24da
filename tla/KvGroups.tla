------------------------------- MODULE KvGroups -------------------------------
(***************************************************************************)
(* The KV cache with the drafter (docs/patch_dflash_glm5_kv_groups.py, the *)
(* functions it puts into vLLM's kv_cache_utils).  Layers are grouped; all *)
(* groups take their blocks from one pool, so that a block belongs to one  *)
(* group at a time, and layers of different groups may lie on the same     *)
(* bytes.  The layout is recognized from the groups, and three functions   *)
(* that must agree count the bytes of a block.                             *)
(*                                                                         *)
(* A layer is a pair of a kind and a number.  One pipeline stage, which    *)
(* has every layer.  External: the path of models of another shape, and    *)
(* _pp_balanced_mamba_group_count, which finds groups no larger than the   *)
(* number of MLA layers.                                                   *)
(***************************************************************************)
EXTENDS Naturals, Sequences, FiniteSets, FiniteSetsExt, Functions

CONSTANTS
  Models,   \* the layers and pages of a model: see ModelType
  Kernel,   \* what a kernel divides blocks into: 64 tokens in the code
  Memories  \* bytes that may be available

Kinds == {"mla", "idx", "tail", "mamba", "draft"}

\* layers: how many there are of each kind; pages in bytes, the drafter's as tokens
\* of a block and bytes of a token.
ModelType ==
  [layers : [Kinds -> Nat], mlaPage : Nat \ {0}, idxPage : Nat \ {0}, tailPage : Nat,
   mambaPage : Nat, mlaBlock : Nat \ {0}, draftBlock : Nat \ {0}, draftToken : Nat \ {0}]

\* Assumed of the constants wherever the module is instantiated.
KvAssumption ==
  /\ Models \subseteq ModelType /\ Kernel \in Nat \ {0} /\ Memories \subseteq Nat
  /\ \A m \in Models : m.layers["mla"] > 0 /\ m.layers["tail"] \in {0, m.layers["idx"]}

VARIABLES
  model,
  groups,   \* the groups: a sequence of records of layers and their page
  layout,   \* what _glm5_next_tensor_layout recognizes in them
  memory,   \* bytes available when the cache is configured
  numBlocks,
  tensors,  \* kv_cache_tensors: a set of records of a layer, its page and its offset
  state     \* "ungrouped", "grouped", "recognized", "configured", "other" or "refused"

vars == <<model, groups, layout, memory, numBlocks, tensors, state>>

None == [pages |-> "none"]

Layers(m, kind) == {<<kind, i>> : i \in 1..m.layers[kind]}
AllLayers(m) == UNION {Layers(m, kind) : kind \in Kinds}

-----------------------------------------------------------------------------
(* _get_kv_cache_groups_glm5_next.                                         *)

\* The block of the drafter that fills an MLA page exactly, or 0.
FitBlock(m) == IF m.mlaPage % m.draftToken = 0 THEN m.mlaPage \div m.draftToken ELSE 0

FitsSlots(m) ==
  LET fit == FitBlock(m) IN
  /\ fit # 0 /\ fit % Kernel = 0
  /\ fit % m.mlaBlock = 0 \/ m.mlaBlock % fit = 0
  /\ m.layers["draft"] <= m.layers["mla"]

\* The drafter's page is never padded.
DraftPage(m) == m.draftToken * (IF FitsSlots(m) THEN FitBlock(m) ELSE m.draftBlock)

Grouped(kind, layers, page) == [kind |-> kind, layers |-> layers, page |-> page]

\* The mamba layers are dealt out to n groups, their page padded to the MLA page.
MambaGroups(m, n) ==
  [g \in 1..n |-> Grouped("mamba", {l \in Layers(m, "mamba") : (l[2] - 1) % n = g - 1},
                          m.mlaPage)]

Only(kind, m, page) ==
  IF m.layers[kind] = 0 THEN << >> ELSE <<Grouped(kind, Layers(m, kind), page)>>

Init ==
  /\ model \in Models
  /\ groups = << >> /\ layout = None /\ memory = 0 /\ numBlocks = 0 /\ tensors = {}
  /\ state = "ungrouped"

Group ==
  /\ state = "ungrouped"
  /\ IF model.layers["mamba"] = 0 \/ model.layers["idx"] = 0
     THEN state' = "other" /\ UNCHANGED groups
     ELSE IF model.mambaPage > model.mlaPage
     THEN state' = "refused" /\ UNCHANGED groups
     ELSE \E n \in 1..model.layers["mamba"] :
            /\ \A g \in 1..n : Cardinality(MambaGroups(model, n)[g].layers)
                                 <= model.layers["mla"]
            /\ groups' = <<Grouped("attn", Layers(model, "mla") \cup Layers(model, "idx"), 0)>>
                           \o Only("tail", model, model.idxPage)
                           \o MambaGroups(model, n)
                           \o Only("draft", model, DraftPage(model))
            /\ state' = "grouped"
  /\ UNCHANGED <<model, layout, memory, numBlocks, tensors>>

-----------------------------------------------------------------------------
(* _glm5_next_tensor_layout.                                               *)

Of(kind) == {groups[i] : i \in {j \in DOMAIN groups : groups[j].kind = kind}}
Count(kind) == SumFunction([g \in Of(kind) |-> Cardinality(g.layers)])

\* None: another path takes over.
Recognized ==
  /\ \A g \in Of("mamba") : g.page = model.mlaPage
  /\ \A g \in Of("draft") : g.page = model.mlaPage => Count("draft") <= model.layers["mla"]
  /\ \A g \in Of("tail") :
       Count("tail") = model.layers["idx"] /\ model.tailPage <= model.idxPage

Recognize ==
  /\ state = "grouped"
  /\ IF Recognized
     THEN /\ layout' = [pages |-> "shared", mamba |-> Of("mamba"), draft |-> Of("draft"),
                        tail |-> Of("tail")]
          /\ state' = "recognized"
     ELSE state' = "other" /\ UNCHANGED layout
  /\ UNCHANGED <<model, groups, memory, numBlocks, tensors>>

-----------------------------------------------------------------------------
(* get_kv_cache_config_from_groups and the sizes.                          *)

DraftShared == \A g \in layout.draft : g.page = model.mlaPage

AttnBytes == model.layers["mla"] * model.mlaPage + model.layers["idx"] * model.idxPage
DraftBytes ==
  IF DraftShared THEN 0 ELSE SumFunction([g \in layout.draft |-> Cardinality(g.layers) * g.page])

PerBlock_AttnOnly == AttnBytes      \* the drafter's own pages are forgotten

\* bytes_per_block of the configuration.
PerBlock == AttnBytes + DraftBytes

\* _max_memory_usage_bytes_from_groups, of the blocks the groups may need.
Needed(blocks) == blocks * (AttnBytes + DraftBytes)

At(layer, page, offset) == [layer |-> layer, page |-> page, offset |-> offset]

\* The i-th layer of a group, which lies with the i-th MLA layer.
Nth(g, i) == {l \in g.layers : Cardinality({k \in g.layers : k[2] <= l[2]}) = i}

\* Blocks of an MLA layer, of the mamba layers and of a drafter's with its number.
MlaSlot(i, nb) ==
  LET offset == (i - 1) * model.mlaPage * nb
      sharing == layout.mamba \cup IF DraftShared THEN layout.draft ELSE {}
  IN {At(<<"mla", i>>, model.mlaPage, offset)}
     \cup UNION {{At(l, g.page, offset) : l \in Nth(g, i)} : g \in sharing}

\* Of an indexer's layer, and of the tail with its number.
IdxSlot(i, nb) ==
  LET offset == model.layers["mla"] * model.mlaPage * nb + (i - 1) * model.idxPage * nb
  IN {At(<<"idx", i>>, model.idxPage, offset)}
     \cup UNION {{At(l, g.page, offset) : l \in Nth(g, i)} : g \in layout.tail}

\* Of a drafter's layer that lies alone.
DraftSlots(nb) ==
  IF DraftShared THEN {}
  ELSE UNION {{At(l, g.page, AttnBytes * nb + (l[2] - 1) * g.page * nb) : l \in g.layers} :
              g \in layout.draft}

Configure ==
  /\ state = "recognized"
  /\ memory' \in Memories
  /\ LET nb == memory' \div PerBlock IN
       /\ numBlocks' = nb
       /\ tensors' = (UNION {MlaSlot(i, nb) : i \in 1..model.layers["mla"]})
                     \cup (UNION {IdxSlot(i, nb) : i \in 1..model.layers["idx"]})
                     \cup DraftSlots(nb)
  /\ state' = "configured"
  /\ UNCHANGED <<model, groups, layout>>

Next == Group \/ Recognize \/ Configure

Spec == Init /\ [][Next]_vars

-----------------------------------------------------------------------------
(* Properties.                                                             *)

TypeOK ==
  /\ model \in Models /\ numBlocks \in Nat
  /\ state \in {"ungrouped", "grouped", "recognized", "configured", "other", "refused"}
  /\ \A t \in tensors : t.layer \in AllLayers(model) /\ t.offset \in Nat

\* The bytes of block b of a tensor.
Bytes(t, b) == (t.offset + b * t.page)..(t.offset + (b + 1) * t.page - 1)

SameGroup(k, l) == \E i \in DOMAIN groups : {k, l} \subseteq groups[i].layers

\* Layers share bytes only where their groups take turns: every layer has one tensor,
\* within the pool, whose pages hold what the layer stores; blocks of different
\* numbers never overlap, nor the pages of two layers of one group.  A pool that is
\* said to hold so many blocks does.
PagesDisjoint ==
  LET Needs(l) == IF l[1] = "mamba" THEN model.mambaPage
                  ELSE IF l[1] = "tail" THEN model.tailPage
                  ELSE IF l[1] = "mla" THEN model.mlaPage
                  ELSE IF l[1] = "idx" THEN model.idxPage ELSE DraftPage(model)
  IN
  state = "configured" =>
    /\ \A l \in AllLayers(model) : Cardinality({t \in tensors : t.layer = l}) = 1
    /\ \A t \in tensors :
         /\ Needs(t.layer) <= t.page
         /\ t.offset + numBlocks * t.page <= PerBlock * numBlocks
    /\ \A t, u \in tensors : \A b, c \in 0..(numBlocks - 1) :
         (t # u /\ (b # c \/ SameGroup(t.layer, u.layer)))
           => Bytes(t, b) \cap Bytes(u, c) = {}
    /\ \A n \in 1..memory : memory >= Needed(n) <=> numBlocks >= n
=============================================================================
