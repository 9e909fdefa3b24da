----------------------------- MODULE EngineProofs -----------------------------
(***************************************************************************)
(* Proofs about the parts of the engine's processes (MCEngine).            *)
(*                                                                         *)
(* A behaviour moves one part and the others stay as they were created, so *)
(* every invariant here is of one part's variables and holds of a resting  *)
(* part as well.  Each section proves one property: the inductive          *)
(* invariant first, that the initial states have it, that every action     *)
(* keeps it, and that it implies the property.                             *)
(*                                                                         *)
(* Several of the modules' operators are recursive functions or folds over *)
(* a sequence.  Where a proof needs what one computes for every length, it *)
(* takes a least counterexample (Least): the function itself is one that   *)
(* CHOOSE picks among those satisfying the recursion, so that one exists   *)
(* is proved the same way.                                                 *)
(***************************************************************************)
EXTENDS MCEngine, SequenceTheorems, FiniteSetTheorems, WellFoundedInduction, TLAPS

IndexerOf == INSTANCE IndexerProofs WITH gen <- owner, MaxGen <- Reuses

-----------------------------------------------------------------------------
(* Numbers and batches.                                                    *)

\* A set of natural numbers has a least element.
LEMMA Least ==
  ASSUME NEW T, T \subseteq Nat, T # {}
  PROVE  \E n \in T : \A m \in T : n <= m
<1> DEFINE R == {ss \in Nat \X Nat : ss[1] < ss[2]}
<1>1. IsWellFoundedOn(R, Nat)
  BY NatLessThanWellFounded DEF OpToRel
<1> HIDE DEF R
<1>2. PICK n \in T : \A m \in T : ~(<<m, n>> \in R)
  BY <1>1, WFMin
<1>3. \A m \in T : ~(m < n)
  BY <1>2 DEF R
<1> QED BY <1>3

\* And a greatest when a number bounds it: the one farthest from 0 is nearest to that.
LEMMA GreatestUpTo ==
  ASSUME NEW n \in Nat, NEW T, T \subseteq 0..n, T # {}
  PROVE  \E k \in T : \A m \in T : k >= m
<1> DEFINE D == {n - k : k \in T}
<1>1. D \subseteq Nat /\ D # {}
  <2>1. \A k \in T : n - k \in Nat
    OBVIOUS
  <2> QED BY <2>1
<1>2. PICK d \in D : \A e \in D : d <= e
  BY <1>1, Least
<1>3. PICK k \in T : d = n - k
  BY <1>2
<1>4. ASSUME NEW m \in T
      PROVE  k >= m
  <2>1. n - k <= n - m
    BY <1>2, <1>3
  <2> QED BY <2>1
<1> QED BY <1>4

\* A batch names different states.
LEMMA BatchIs ==
  ASSUME NEW b \in Speculator!Batches \cup {<< >>}
  PROVE  /\ Len(b) \in Nat /\ b \in [1..Len(b) -> Slots]
         /\ \A i, j \in 1..Len(b) : b[i] = b[j] => i = j
<1>1. CASE b = << >>
  BY <1>1
<1>2. CASE b # << >>
  <2>1. PICK k \in 1..Cardinality(Slots) : b \in [1..k -> Slots]
    BY <1>2 DEF Speculator!Batches, Speculator!Cardinality, Cardinality
  <2>2. k \in Nat /\ Len(b) = k
    BY <2>1
  <2>3. Speculator!IsInjective(b)
    BY <1>2 DEF Speculator!Batches
  <2> QED BY <2>1, <2>2, <2>3 DEF Speculator!IsInjective
<1> QED BY <1>1, <1>2

-----------------------------------------------------------------------------
(* The chain of layers.                                                    *)

SubOf(i) == <<(i - 1) \div 2, IF i % 2 = 1 THEN "attn" ELSE "mlp">>

\* What the i-th sublayer computes from.
FromOf(i) == IF Forward!SumsShards(SubOf(i)) THEN Forward!Mixed ELSE Forward!Before(i - 1)

\* Layers that are asked for up to one, and where in aux its state is.
Asked(c, n)    == {l \in c : l <= n}
Place(c, n, l) == Cardinality({k \in Asked(c, n) : k <= l})

\* Between two layers the streams lack the last mixing, or nothing was deferred.
HandedOn ==
  /\ post \in BOOLEAN
  /\ post =>
       /\ mhc /\ layer > 0
       /\ x = [kind |-> "out", sub |-> SubOf(2 * layer), from |-> x.from, shard |-> parallel]
       /\ residual = Forward!Streams(Forward!Before(2 * layer - 1), parallel)
  /\ ~post => x = Forward!Contracted(Forward!Before(2 * layer), parallel)
  /\ layer = NumLayers => ~post

AuxInv ==
  /\ aux \in Seq({Forward!Contracted(Forward!Before(2 * l), FALSE) : l \in 1..NumLayers})
  /\ Len(aux) = Cardinality(Asked(capture, layer))
  /\ \A l \in Asked(capture, layer) :
       aux[Place(capture, layer, l)] = Forward!Contracted(Forward!Before(2 * l), FALSE)

ForwardInv ==
  /\ dense \in 0..NumLayers /\ mhc \in BOOLEAN /\ parallel \in BOOLEAN
  /\ capture \subseteq 1..NumLayers /\ layer \in 0..NumLayers
  /\ HandedOn
  /\ fed = [i \in 1..(2 * layer) |->
              Forward!Out(SubOf(i), FromOf(i), parallel)]
  /\ AuxInv
  /\ result # Forward!None =>
       /\ layer = NumLayers /\ result.aux = aux
       /\ result.hidden = Forward!Contracted(Forward!Before(2 * NumLayers), FALSE)

LEMMA ForwardAssumed ==
  ASSUME EngineAssumption
  PROVE  NumLayers \in Nat \ {0} /\ Denses \subseteq 0..NumLayers
BY DEF EngineAssumption, Forward!ForwardAssumption

LEMMA BeforeIs ==
  ASSUME NEW n \in Nat
  PROVE  /\ Forward!Before(n) \in Seq((0..n) \X {"attn", "mlp"})
         /\ Len(Forward!Before(n)) = n
         /\ \A i \in 1..n : Forward!Before(n)[i] = SubOf(i)
         /\ Append(Forward!Before(n), SubOf(n + 1)) = Forward!Before(n + 1)
<1>1. \A i \in 1..n : SubOf(i) \in (0..n) \X {"attn", "mlp"}
  BY DEF SubOf
<1>2. Forward!Before(n) = [i \in 1..n |-> SubOf(i)]
  BY DEF Forward!Before, SubOf
<1>3. Forward!Before(n + 1) = [i \in 1..(n + 1) |-> SubOf(i)]
  BY DEF Forward!Before, SubOf
<1> DEFINE S == (0..n) \X {"attn", "mlp"}
           s == [i \in 1..n |-> SubOf(i)]
<1>4. s \in Seq(S) /\ Len(s) = n
  BY <1>1
<1>5. Append(s, SubOf(n + 1)) = [i \in 1..(n + 1) |-> SubOf(i)]
  <2> HIDE DEF S
  <2> QED BY <1>4
<1> QED
  BY <1>2, <1>3, <1>4, <1>5

\* The two sublayers of the next layer.
LEMMA NextTwo ==
  ASSUME NEW l \in Nat
  PROVE  SubOf(2 * l + 1) = <<l, "attn">> /\ SubOf(2 * l + 2) = <<l, "mlp">>
BY DEF SubOf

LEMMA GatherIs ==
  ASSUME NEW s, NEW shard \in BOOLEAN
  PROVE  Forward!Gather(Forward!Contracted(s, shard)) = Forward!Contracted(s, FALSE)
<1> DEFINE c == [kind |-> "hidden", of |-> s, shard |-> shard]
<1>1. ASSUME NEW f PROVE [c EXCEPT !.shard = f] = [kind |-> "hidden", of |-> s, shard |-> f]
  OBVIOUS
<1>2. [c EXCEPT !.shard = FALSE] = [kind |-> "hidden", of |-> s, shard |-> FALSE]
  BY <1>1
<1> QED
  BY <1>2 DEF Forward!Gather, Forward!Contracted

LEMMA NothingYet ==
  /\ Forward!Before(0) = << >>
  /\ \A n \in Nat : Forward!Before(n) # << >> => n # 0
BY DEF Forward!Before

\* What one round of the loop hands on, computed from b0, b1 and adding up to b2.
Made(after, b0, b1, b2) ==
  /\ after.fed = <<Forward!Out(SubOf(2 * layer + 1), FromOf(2 * layer + 1), parallel),
                   Forward!Out(SubOf(2 * layer + 2), FromOf(2 * layer + 2), parallel)>>
  /\ after.post \in BOOLEAN /\ (layer + 1 = NumLayers => ~after.post)
  /\ after.post =>
       /\ mhc
       /\ after.x = Forward!Out(SubOf(2 * layer + 2), FromOf(2 * layer + 2), parallel)
       /\ after.residual = Forward!Streams(b1, parallel)
  /\ ~after.post => after.x = Forward!Contracted(b2, parallel)
  /\ Forward!AuxState(layer, after) = Forward!Contracted(b2, FALSE)

LEMMA LayerMade ==
  ASSUME EngineAssumption, ForwardInv, layer < NumLayers,
         NEW after,
         after = IF mhc THEN Forward!MhcLayer(layer) ELSE Forward!PlainLayer(layer),
         NEW b0, NEW b1, NEW b2,
         b0 = Forward!Before(2 * layer), b1 = Forward!Before(2 * layer + 1),
         b2 = Forward!Before(2 * layer + 2)
  PROVE  Made(after, b0, b1, b2)
<1>1. /\ layer \in Nat /\ 2 * layer \in Nat /\ NumLayers \in Nat
      /\ SubOf(2 * layer + 1) = <<layer, "attn">> /\ SubOf(2 * layer + 2) = <<layer, "mlp">>
  BY NextTwo, ForwardAssumed DEF ForwardInv
<1>2. Append(b0, <<layer, "attn">>) = b1 /\ Append(b1, <<layer, "mlp">>) = b2
  <2>1. Append(b0, SubOf(2 * layer + 1)) = b1
    BY <1>1, BeforeIs
  <2>2. 2 * layer + 1 \in Nat /\ (2 * layer + 1) + 1 = 2 * layer + 2
    BY <1>1
  <2>3. Append(b1, SubOf(2 * layer + 2)) = b2
    BY <2>2, BeforeIs
  <2> QED BY <1>1, <2>1, <2>3
<1>3. layer > 0 => Append(Forward!Before(2 * layer - 1), SubOf(2 * layer)) = b0
  <2>1. layer > 0 => 2 * layer - 1 \in Nat /\ (2 * layer - 1) + 1 = 2 * layer
    BY <1>1
  <2> QED BY <2>1, BeforeIs
<1>4. parallel \in BOOLEAN /\ mhc \in BOOLEAN /\ HandedOn
  BY DEF ForwardInv
<1>7. /\ FromOf(2 * layer + 1) = IF parallel /\ ~mhc THEN Forward!Mixed ELSE b0
      /\ FromOf(2 * layer + 2) =
           IF parallel /\ (~mhc \/ ~Forward!Moe(layer)) THEN Forward!Mixed ELSE b1
  <2>1. (2 * layer + 1) - 1 = 2 * layer /\ (2 * layer + 2) - 1 = 2 * layer + 1
    BY <1>1
  <2>2. Forward!SumsShards(SubOf(2 * layer + 1)) <=> parallel /\ ~mhc
    BY <1>1, <1>4 DEF Forward!SumsShards
  <2>3. Forward!SumsShards(SubOf(2 * layer + 2)) <=>
          parallel /\ (~mhc \/ ~Forward!Moe(layer))
    BY <1>1, <1>4 DEF Forward!SumsShards
  <2> QED BY <2>1, <2>2, <2>3 DEF FromOf
<1>5. CASE mhc
  <2> DEFINE pre == Forward!PreAttention(layer)
             a   == Forward!Attention(layer, pre)
             mid == Forward!HcPost(a, pre)
             m   == Forward!Mlp(layer, mid)
  <2>1. pre = Forward!Streams(b0, parallel)
    <3>1. CASE post
      <4>1. x.sub = SubOf(2 * layer) /\ x.shard = parallel /\ layer > 0
        BY <1>4, <3>1 DEF HandedOn
      <4>2. residual.of = Forward!Before(2 * layer - 1)
        BY <1>4, <3>1 DEF HandedOn, Forward!Streams
      <4> QED
        BY <1>3, <3>1, <4>1, <4>2 DEF Forward!PreAttention, Forward!HcPost, Forward!Streams
    <3>2. CASE ~post
      BY <1>4, <3>2 DEF HandedOn, Forward!PreAttention, Forward!Contracted
    <3> QED BY <1>4, <3>1, <3>2 DEF HandedOn
  <2> HIDE DEF pre
  <2>13. FromOf(2 * layer + 1) = b0
    BY <1>5, <1>7
  <2>2. a = Forward!Out(<<layer, "attn">>, b0, parallel)
    BY <2>1 DEF Forward!Attention, Forward!Scatter, Forward!Gather, Forward!Out, Forward!Streams
  <2> HIDE DEF a
  <2>3. mid = Forward!Streams(b1, parallel)
    BY <1>2, <2>1, <2>2 DEF Forward!HcPost, Forward!Out, Forward!Streams
  <2> HIDE DEF mid
  <2>4. m = Forward!Out(<<layer, "mlp">>, FromOf(2 * layer + 2), parallel)
    <3>1. mid.of = b1 /\ mid.shard = parallel
      BY <2>3 DEF Forward!Streams
    <3> QED BY <1>4, <1>5, <1>7, <3>1 DEF Forward!Mlp, Forward!Summed, m
  <2> HIDE DEF m
  <2>5. Forward!HcPost(m, mid).of = b2
    BY <1>2, <2>3, <2>4 DEF Forward!HcPost, Forward!Out, Forward!Streams
  <2>7. m.shard = parallel
    BY <2>4 DEF Forward!Out
  <2>6. /\ after.fed = <<a, m>> /\ after.post = (layer # NumLayers - 1)
        /\ after.x = IF layer = NumLayers - 1
                     THEN Forward!Contracted(b2, parallel) ELSE m
        /\ after.residual = IF layer = NumLayers - 1 THEN Forward!None ELSE mid
    <3>1. after = [x |-> IF layer = NumLayers - 1
                         THEN Forward!Contracted(Forward!HcPost(m, mid).of, m.shard) ELSE m,
                   residual |-> IF layer = NumLayers - 1 THEN Forward!None ELSE mid,
                   post |-> ~(layer = NumLayers - 1),
                   fed |-> <<a, m>>]
      BY <1>5 DEF Forward!MhcLayer, pre, a, mid, m
    <3> QED BY <2>5, <2>7, <3>1
  <2>8. Forward!AuxState(layer, after) = Forward!Contracted(b2, FALSE)
    <3>1. CASE layer = NumLayers - 1
      <4>1. after.post = FALSE /\ after.x = Forward!Contracted(b2, parallel)
        BY <2>6, <3>1
      <4>2. Forward!AuxState(layer, after) =
              Forward!Gather(Forward!Contracted(b2, parallel))
        BY <4>1 DEF Forward!AuxState
      <4> QED BY <4>2 DEF Forward!Gather, Forward!Contracted
    <3>2. CASE layer # NumLayers - 1
      <4>1. after.post = TRUE /\ after.x = m /\ after.residual = mid
        BY <2>6, <3>2
      <4>2. Forward!AuxState(layer, after) =
              Forward!Gather(Forward!Contracted(Forward!HcPost(m, mid).of, m.shard))
        BY <4>1 DEF Forward!AuxState
      <4>3. Forward!AuxState(layer, after) =
              Forward!Gather(Forward!Contracted(b2, parallel))
        BY <2>5, <2>7, <4>2
      <4> QED BY <4>3 DEF Forward!Gather, Forward!Contracted
    <3> QED BY <3>1, <3>2
  <2>9. layer + 1 = NumLayers => layer = NumLayers - 1
    BY <1>1
  <2>10. after.post \in BOOLEAN /\ (layer = NumLayers - 1 => ~after.post)
    BY <2>6
  <2>11. after.post => after.x = m /\ after.residual = mid
    BY <2>6
  <2>12. ~after.post => after.x = Forward!Contracted(b2, parallel)
    BY <2>6
  <2> QED
    BY <1>1, <1>5, <2>2, <2>3, <2>4, <2>6, <2>8, <2>9, <2>10, <2>11, <2>12, <2>13 DEF Made
<1>6. CASE ~mhc
  <2>1. x.of = b0 /\ x.shard = parallel
    <3>1. x = Forward!Contracted(b0, parallel)
      BY <1>4, <1>6 DEF HandedOn
    <3> QED BY <3>1 DEF Forward!Contracted
  <2> DEFINE a == Forward!Out(<<layer, "attn">>, FromOf(2 * layer + 1), parallel)
             r == Forward!Contracted(b1, parallel)
             m == Forward!Out(<<layer, "mlp">>, FromOf(2 * layer + 2), parallel)
  <2>2. after = [x |-> Forward!Contracted(b2, parallel), residual |-> r,
                 post |-> FALSE, fed |-> <<a, m>>]
    <3>1. Forward!Out(<<layer, "attn">>, Forward!Summed(x), x.shard) = a
      BY <1>4, <1>6, <1>7, <2>1 DEF Forward!Summed
    <3>2. a.sub = <<layer, "attn">>
      BY DEF Forward!Out
    <3> HIDE DEF a
    <3>3. Forward!Contracted(Append(x.of, a.sub), x.shard) = r
      BY <1>2, <2>1, <3>2
    <3>4. r.of = b1 /\ r.shard = parallel
      BY DEF Forward!Contracted
    <3> HIDE DEF r
    <3>5. Forward!Out(<<layer, "mlp">>, Forward!Summed(r), x.shard) = m
      BY <1>4, <1>6, <1>7, <2>1, <3>4 DEF Forward!Summed
    <3>6. m.sub = <<layer, "mlp">>
      BY DEF Forward!Out
    <3> HIDE DEF m
    <3>7. Forward!Contracted(Append(r.of, m.sub), x.shard) = Forward!Contracted(b2, parallel)
      BY <1>2, <2>1, <3>4, <3>6
    <3>8. after = Forward!PlainLayer(layer)
      BY <1>6
    <3> QED BY <3>1, <3>3, <3>5, <3>7, <3>8 DEF Forward!PlainLayer
  <2> HIDE DEF a, m, r
  <2>3. /\ after.fed = <<a, m>> /\ after.post = FALSE
        /\ after.x = Forward!Contracted(b2, parallel)
    <3> DEFINE made == [x |-> Forward!Contracted(b2, parallel), residual |-> r,
                        post |-> FALSE, fed |-> <<a, m>>]
    <3>1. /\ made.fed = <<a, m>> /\ made.post = FALSE
          /\ made.x = Forward!Contracted(b2, parallel)
      OBVIOUS
    <3> HIDE DEF made
    <3>2. after = made
      BY <2>2 DEF made
    <3> QED BY <3>1, <3>2
  <2>4. Forward!AuxState(layer, after) = Forward!Gather(Forward!Contracted(b2, parallel))
    BY <2>3 DEF Forward!AuxState
  <2>5. Forward!AuxState(layer, after) = Forward!Contracted(b2, FALSE)
    BY <1>4, <2>4, GatherIs
  <2>6. /\ a = Forward!Out(SubOf(2 * layer + 1), FromOf(2 * layer + 1), parallel)
        /\ m = Forward!Out(SubOf(2 * layer + 2), FromOf(2 * layer + 2), parallel)
    BY <1>1 DEF a, m
  <2> QED
    BY <2>3, <2>5, <2>6 DEF Made
<1> QED
  BY <1>4, <1>5, <1>6

\* The drafter's layers: one more is asked for, and the others keep their places.
LEMMA AskedNext ==
  ASSUME NEW N \in Nat, NEW c \in SUBSET (1..N), NEW n \in Nat
  PROVE  /\ IsFiniteSet(Asked(c, n)) /\ Cardinality(Asked(c, n)) \in Nat
         /\ \A l \in Asked(c, n) : Place(c, n, l) \in 1..Cardinality(Asked(c, n))
         /\ \A l \in Asked(c, n) : Place(c, n + 1, l) = Place(c, n, l)
         /\ n + 1 \notin c => Asked(c, n + 1) = Asked(c, n)
         /\ n + 1 \in c =>
              /\ Asked(c, n + 1) = Asked(c, n) \cup {n + 1}
              /\ Cardinality(Asked(c, n + 1)) = Cardinality(Asked(c, n)) + 1
              /\ Place(c, n + 1, n + 1) = Cardinality(Asked(c, n)) + 1
<1>1. IsFiniteSet(1..N)
  BY FS_Interval
<1>2. Asked(c, n) \subseteq 1..N
  BY DEF Asked
<1>3. /\ \A l \in c : l \in Nat
      /\ \A l \in c : l <= n + 1 <=> l <= n \/ l = n + 1
  OBVIOUS
<1>4. IsFiniteSet(Asked(c, n)) /\ Cardinality(Asked(c, n)) \in Nat
  BY <1>1, <1>2, FS_Subset, FS_CardinalityType
<1>5. ASSUME NEW l \in Asked(c, n)
      PROVE  Place(c, n, l) \in 1..Cardinality(Asked(c, n))
  <2> DEFINE K == {k \in Asked(c, n) : k <= l}
  <2>1. IsFiniteSet(K) /\ Cardinality(K) <= Cardinality(Asked(c, n))
    BY <1>4, FS_Subset
  <2>2. l \in K
    BY <1>2
  <2>3. Cardinality(K) \in Nat /\ Cardinality(K) # 0
    BY <2>1, <2>2, FS_CardinalityType, FS_EmptySet
  <2> HIDE DEF K
  <2>4. Cardinality(K) \in 1..Cardinality(Asked(c, n))
    BY <1>4, <2>1, <2>3
  <2> QED BY <2>4 DEF Place, K
<1>6. ASSUME NEW l \in Asked(c, n)
      PROVE  Place(c, n + 1, l) = Place(c, n, l)
  <2>1. {k \in Asked(c, n + 1) : k <= l} = {k \in Asked(c, n) : k <= l}
    <3>1. l \in c /\ l <= n
      BY DEF Asked
    <3>2. \A k \in c : k <= l => k <= n /\ k <= n + 1
      BY <3>1
    <3> QED BY <3>2 DEF Asked
  <2> QED BY <2>1 DEF Place
<1>7. n + 1 \notin c => Asked(c, n + 1) = Asked(c, n)
  BY <1>3 DEF Asked
<1>8. ASSUME n + 1 \in c
      PROVE  /\ Asked(c, n + 1) = Asked(c, n) \cup {n + 1}
             /\ Cardinality(Asked(c, n + 1)) = Cardinality(Asked(c, n)) + 1
             /\ Place(c, n + 1, n + 1) = Cardinality(Asked(c, n)) + 1
  <2>1. Asked(c, n + 1) = Asked(c, n) \cup {n + 1} /\ n + 1 \notin Asked(c, n)
    <3>1. ~(n + 1 <= n) /\ n + 1 <= n + 1
      OBVIOUS
    <3> QED BY <1>3, <1>8, <3>1 DEF Asked
  <2>2. Cardinality(Asked(c, n + 1)) = Cardinality(Asked(c, n)) + 1
    BY <1>4, <2>1, FS_AddElement
  <2>3. {k \in Asked(c, n + 1) : k <= n + 1} = Asked(c, n + 1)
    BY DEF Asked
  <2> QED BY <2>1, <2>2, <2>3 DEF Place
<1> QED
  BY <1>4, <1>5, <1>6, <1>7, <1>8

LEMMA ForwardStarts ==
  ASSUME EngineAssumption, Init
  PROVE  ForwardInv
<1>1. NumLayers \in Nat \ {0} /\ Denses \subseteq 0..NumLayers
  BY ForwardAssumed
<1>2. Forward!Init
  BY DEF Init
<1>3. /\ dense \in 0..NumLayers /\ mhc \in BOOLEAN /\ parallel \in BOOLEAN
      /\ capture \subseteq 1..NumLayers /\ layer = 0 /\ post = FALSE
      /\ x = Forward!Contracted(<< >>, parallel)
      /\ fed = << >> /\ aux = << >> /\ result = Forward!None
  BY <1>1, <1>2 DEF Forward!Init
<1>4. HandedOn
  <2>1. x = Forward!Contracted(Forward!Before(2 * layer), parallel)
    BY <1>3, NothingYet
  <2> QED BY <1>1, <1>3, <2>1 DEF HandedOn
<1>5. fed = [i \in 1..(2 * layer) |->
               Forward!Out(SubOf(i), FromOf(i), parallel)]
  BY <1>3
<1>6. AuxInv
  <2>1. \A l \in capture : ~(l <= 0)
    BY <1>1, <1>3
  <2>2. Asked(capture, layer) = {}
    BY <1>3, <2>1 DEF Asked
  <2>3. aux \in Seq({Forward!Contracted(Forward!Before(2 * l), FALSE) : l \in 1..NumLayers})
        /\ Len(aux) = 0
    BY <1>3
  <2> QED BY <2>2, <2>3, FS_EmptySet DEF AuxInv
<1> QED
  BY <1>1, <1>3, <1>4, <1>5, <1>6 DEF ForwardInv

\* One round of the loop.
LEMMA LayerKeeps ==
  ASSUME EngineAssumption, ForwardInv, Forward!Layer
  PROVE  ForwardInv'
<1> DEFINE after == IF mhc THEN Forward!MhcLayer(layer) ELSE Forward!PlainLayer(layer)
           b0 == Forward!Before(2 * layer)
           b1 == Forward!Before(2 * layer + 1)
           b2 == Forward!Before(2 * layer + 2)
           here == Forward!Contracted(b2, FALSE)
<1>1. /\ NumLayers \in Nat \ {0} /\ layer \in Nat /\ layer < NumLayers
      /\ layer + 1 \in 0..NumLayers /\ 2 * layer \in Nat
      /\ 2 * (layer + 1) = 2 * layer + 2 /\ 2 * (layer + 1) - 1 = 2 * layer + 1
  BY ForwardAssumed DEF ForwardInv, Forward!Layer
<1>2. Made(after, b0, b1, b2)
  <2> HIDE DEF after, b0, b1, b2
  <2> QED BY <1>1, LayerMade DEF after, b0, b1, b2
<1>3. /\ x' = after.x /\ residual' = after.residual /\ post' = after.post
      /\ fed' = fed \o after.fed
      /\ aux' = IF layer + 1 \in capture THEN Append(aux, Forward!AuxState(layer, after))
                ELSE aux
      /\ layer' = layer + 1
      /\ dense' = dense /\ mhc' = mhc /\ parallel' = parallel /\ capture' = capture
      /\ result' = result
  BY DEF Forward!Layer
<1> HIDE DEF after, b0, b1, b2
<1>4. HandedOn'
  <2>1. post' \in BOOLEAN /\ (layer' = NumLayers => ~post')
    BY <1>1, <1>2, <1>3 DEF Made
  <2>2. ASSUME post'
        PROVE  /\ mhc' /\ layer' > 0
               /\ x' = [kind |-> "out", sub |-> SubOf(2 * layer'), from |-> x.from',
                        shard |-> parallel']
               /\ residual' = Forward!Streams(Forward!Before(2 * layer' - 1), parallel')
    <3>1. /\ mhc /\ x' = Forward!Out(SubOf(2 * layer + 2), FromOf(2 * layer + 2), parallel)
          /\ residual' = Forward!Streams(b1, parallel)
      BY <1>2, <1>3, <2>2 DEF Made
    <3>2. x' = [kind |-> "out", sub |-> SubOf(2 * layer + 2),
                from |-> FromOf(2 * layer + 2), shard |-> parallel]
      BY <3>1 DEF Forward!Out
    <3>3. x.from' = FromOf(2 * layer + 2)
      BY <3>2
    <3> QED BY <1>1, <1>3, <3>1, <3>2, <3>3 DEF b1
  <2>3. ~post' => x' = Forward!Contracted(b2, parallel)
    BY <1>2, <1>3 DEF Made
  <2>4. ~post' => x' = Forward!Contracted(Forward!Before(2 * layer'), parallel')
    BY <1>1, <1>3, <2>3 DEF b2
  <2> QED BY <2>1, <2>2, <2>4 DEF HandedOn
<1>5. fed' = [i \in 1..(2 * layer') |->
                Forward!Out(SubOf(i), FromOf(i)', parallel')]
  <2>8. ASSUME NEW i PROVE FromOf(i)' = FromOf(i)
    BY <1>3 DEF FromOf, Forward!SumsShards, Forward!Moe, SubOf, Forward!Mixed, Forward!Before
  <2> DEFINE e(i) == Forward!Out(SubOf(i), FromOf(i), parallel)
             T == {e(i) : i \in 1..(2 * layer + 2)}
             p == [i \in 1..(2 * layer) |-> e(i)]
             q == <<e(2 * layer + 1), e(2 * layer + 2)>>
  <2>1. fed = p
    BY DEF ForwardInv
  <2>2. after.fed = q
    BY <1>2 DEF Made
  <2> HIDE DEF e
  <2>3. p \in Seq(T) /\ Len(p) = 2 * layer
    BY <1>1
  <2>4. q \in Seq(T) /\ Len(q) = 2 /\ q[1] = e(2 * layer + 1) /\ q[2] = e(2 * layer + 2)
    <3>1. 2 * layer + 1 \in 1..(2 * layer + 2) /\ 2 * layer + 2 \in 1..(2 * layer + 2)
      BY <1>1
    <3> QED BY <3>1
  <2> HIDE DEF T
  <2>5. p \o q \in Seq(T) /\ Len(p \o q) = 2 * layer + 2
        /\ \A i \in 1..(2 * layer + 2) :
             (p \o q)[i] = IF i <= 2 * layer THEN p[i] ELSE q[i - 2 * layer]
    BY <1>1, <2>3, <2>4, ConcatProperties
  <2>6. \A i \in 1..(2 * layer + 2) : (p \o q)[i] = e(i)
    <3> SUFFICES ASSUME NEW i \in 1..(2 * layer + 2)
                 PROVE  (p \o q)[i] = e(i)
      OBVIOUS
    <3>1. CASE i <= 2 * layer
      BY <1>1, <2>5, <3>1
    <3>2. CASE i = 2 * layer + 1
      BY <1>1, <2>4, <2>5, <3>2
    <3>3. CASE i = 2 * layer + 2
      BY <1>1, <2>4, <2>5, <3>3
    <3> QED BY <1>1, <3>1, <3>2, <3>3
  <2>7. p \o q = [i \in 1..(2 * layer + 2) |-> e(i)]
    <3> HIDE DEF p, q
    <3> DEFINE z == p \o q
    <3>1. z \in Seq(T) /\ Len(z) = 2 * layer + 2
      BY <2>5
    <3>2. \A i \in 1..(2 * layer + 2) : z[i] = e(i)
      BY <2>6
    <3> HIDE DEF z
    <3>3. z = [i \in 1..(2 * layer + 2) |-> z[i]]
      BY <1>1, <3>1
    <3>4. [i \in 1..(2 * layer + 2) |-> z[i]] = [i \in 1..(2 * layer + 2) |-> e(i)]
      BY <3>2
    <3> QED BY <3>3, <3>4 DEF z
  <2> QED BY <1>1, <1>3, <2>1, <2>2, <2>7, <2>8 DEF e
<1>6. AuxInv'
  <2> DEFINE S == {Forward!Contracted(Forward!Before(2 * l), FALSE) : l \in 1..NumLayers}
             A == Asked(capture, layer)
             N == Asked(capture, layer + 1)
  <2>1. /\ aux \in Seq(S) /\ Len(aux) = Cardinality(A)
        /\ \A l \in A : aux[Place(capture, layer, l)] =
                          Forward!Contracted(Forward!Before(2 * l), FALSE)
    BY DEF ForwardInv, AuxInv
  <2>2. capture \in SUBSET (1..NumLayers) /\ NumLayers \in Nat
    BY <1>1 DEF ForwardInv
  <2>3. /\ Cardinality(A) \in Nat
        /\ \A l \in A : Place(capture, layer, l) \in 1..Cardinality(A)
        /\ \A l \in A : Place(capture, layer + 1, l) = Place(capture, layer, l)
        /\ layer + 1 \notin capture => N = A
        /\ layer + 1 \in capture =>
             /\ N = A \cup {layer + 1} /\ Cardinality(N) = Cardinality(A) + 1
             /\ Place(capture, layer + 1, layer + 1) = Cardinality(A) + 1
    BY <1>1, <2>2, AskedNext
  <2>4. Forward!Contracted(b2, FALSE) = Forward!Contracted(Forward!Before(2 * (layer + 1)), FALSE)
    BY <1>1 DEF b2
  <2> SUFFICES /\ aux' \in Seq(S) /\ Len(aux') = Cardinality(N)
               /\ \A l \in N : aux'[Place(capture, layer + 1, l)] =
                                 Forward!Contracted(Forward!Before(2 * l), FALSE)
    BY <1>3 DEF AuxInv
  <2> HIDE DEF S, A, N
  <2>5. CASE layer + 1 \notin capture
    BY <1>3, <2>1, <2>3, <2>5
  <2>6. CASE layer + 1 \in capture
    <3> DEFINE c == Forward!Contracted(Forward!Before(2 * (layer + 1)), FALSE)
    <3>1. aux' = Append(aux, c)
      BY <1>2, <1>3, <2>4, <2>6 DEF Made
    <3>2. c \in S
      <4>1. layer + 1 \in 1..NumLayers
        BY <1>1
      <4> QED BY <4>1 DEF S
    <3> HIDE DEF c
    <3>3. /\ aux' \in Seq(S) /\ Len(aux') = Len(aux) + 1
          /\ \A i \in 1..Len(aux) : aux'[i] = aux[i]
          /\ aux'[Len(aux) + 1] = c
      BY <2>1, <3>1, <3>2, AppendProperties
    <3>4. ASSUME NEW l \in N
          PROVE  aux'[Place(capture, layer + 1, l)] =
                   Forward!Contracted(Forward!Before(2 * l), FALSE)
      <4>1. CASE l \in A
        BY <2>1, <2>3, <3>3, <4>1
      <4>2. CASE l = layer + 1
        BY <2>1, <2>3, <2>6, <3>3, <4>2 DEF c
      <4> QED BY <2>3, <2>6, <4>1, <4>2
    <3> QED BY <2>1, <2>3, <2>6, <3>3, <3>4
  <2> QED BY <2>5, <2>6
<1>7. result' = Forward!None
  <2>1. result # Forward!None => layer = NumLayers
    BY DEF ForwardInv
  <2> QED BY <1>1, <1>3, <2>1
<1>8. /\ dense' \in 0..NumLayers /\ mhc' \in BOOLEAN /\ parallel' \in BOOLEAN
      /\ capture' \subseteq 1..NumLayers
      /\ layer' \in 0..NumLayers
  BY <1>1, <1>3 DEF ForwardInv
<1> QED
  BY <1>4, <1>5, <1>6, <1>7, <1>8 DEF ForwardInv

LEMMA ReturnKeeps ==
  ASSUME EngineAssumption, ForwardInv, Forward!Return
  PROVE  ForwardInv'
<1>1. /\ layer = NumLayers /\ result' = [kind |-> "result", hidden |-> Forward!Gather(x), aux |-> aux]
      /\ dense' = dense /\ mhc' = mhc /\ parallel' = parallel /\ capture' = capture
      /\ layer' = layer /\ x' = x /\ residual' = residual /\ post' = post /\ fed' = fed
      /\ aux' = aux
  BY DEF Forward!Return
<1>2. x = Forward!Contracted(Forward!Before(2 * NumLayers), parallel)
  BY <1>1 DEF ForwardInv, HandedOn
<1>3. Forward!Gather(x) = Forward!Contracted(Forward!Before(2 * NumLayers), FALSE)
  BY <1>2, GatherIs DEF ForwardInv
<1>4. result'.aux = aux' /\ result'.hidden = Forward!Contracted(Forward!Before(2 * NumLayers), FALSE)
  BY <1>1, <1>3
<1>5. HandedOn' /\ AuxInv'
  BY <1>1 DEF ForwardInv, HandedOn, AuxInv
<1>6. \A i \in 1..(2 * layer) : FromOf(i)' = FromOf(i)
  BY <1>1 DEF FromOf, Forward!SumsShards, Forward!Moe
<1> QED
  BY <1>1, <1>4, <1>5, <1>6 DEF ForwardInv

LEMMA ForwardRests ==
  ASSUME ForwardInv, UNCHANGED forwardVars
  PROVE  ForwardInv'
BY DEF ForwardInv, HandedOn, AuxInv, forwardVars, FromOf, Forward!SumsShards, Forward!Moe

LEMMA ForwardKeeps ==
  ASSUME EngineAssumption, ForwardInv, [Next]_vars
  PROVE  ForwardInv'
<1>1. CASE Forward!Next
  BY <1>1, LayerKeeps, ReturnKeeps DEF Forward!Next
<1>2. CASE UNCHANGED forwardVars
  BY <1>2, ForwardRests
<1> QED
  BY <1>1, <1>2 DEF Next, vars

LEMMA ForwardShows ==
  ASSUME EngineAssumption, ForwardInv
  PROVE  NothingDeferredShows
<1> DEFINE all == Forward!Through(NumLayers - 1)
<1>1. /\ NumLayers \in Nat /\ layer \in 0..NumLayers /\ 2 * layer <= 2 * NumLayers
      /\ 2 * layer \in Nat /\ 2 * NumLayers \in Nat /\ 2 * ((NumLayers - 1) + 1) = 2 * NumLayers
  BY ForwardAssumed DEF ForwardInv
<1>2. all = Forward!Before(2 * NumLayers)
  BY <1>1 DEF Forward!Through
<1>3. ASSUME NEW i \in 1..Len(fed)
      PROVE  /\ fed[i].sub = all[i]
             /\ Forward!SumsShards(all[i]) \/ fed[i].from = Forward!Before(i - 1)
  <2>1. fed = [j \in 1..(2 * layer) |-> Forward!Out(SubOf(j), FromOf(j), parallel)]
    BY DEF ForwardInv
  <2>2. i \in 1..(2 * layer) /\ i \in 1..(2 * NumLayers)
    BY <1>1, <2>1
  <2>3. fed[i] = Forward!Out(SubOf(i), FromOf(i), parallel)
    BY <2>1, <2>2
  <2>4. fed[i].sub = SubOf(i) /\ fed[i].from = FromOf(i)
    BY <2>3 DEF Forward!Out
  <2>5. all[i] = SubOf(i)
    BY <1>1, <1>2, <2>2, BeforeIs
  <2> QED BY <2>4, <2>5 DEF FromOf
<1>4. Len(aux) = Cardinality(Asked(capture, layer))
  BY DEF ForwardInv, AuxInv
<1>5. ASSUME NEW l \in Asked(capture, layer)
      PROVE  aux[Place(capture, layer, l)] = Forward!Contracted(Forward!Through(l - 1), FALSE)
  <2>1. l \in Nat /\ (l - 1) + 1 = l
    BY DEF Asked, ForwardInv
  <2> QED BY <2>1 DEF ForwardInv, AuxInv, Forward!Through
<1>6. result # Forward!None => result.hidden = Forward!Contracted(all, FALSE) /\ result.aux = aux
  BY <1>2 DEF ForwardInv
<1> HIDE DEF all
<1>7. Forward!NothingDeferredShows
  BY <1>3, <1>4, <1>5, <1>6
  DEF all, Forward!NothingDeferredShows, Asked, Place, Forward!Cardinality, Cardinality
<1> QED
  BY <1>7 DEF NothingDeferredShows

\* Whether each layer mixes its own output or leaves the last mixing to the layer that
\* follows, in models with streams or without, dense or not, sharded or not: what leaves
\* the model and what it hands to the speculator has in it every sublayer up to the
\* layer asked for, and is of all tokens (glm5next_model.py, forward).
THEOREM EngineDefersNothing ==
  ASSUME EngineAssumption
  PROVE  Spec => []NothingDeferredShows
<1>1. Init => ForwardInv
  BY ForwardStarts
<1>2. ForwardInv /\ [Next]_vars => ForwardInv'
  BY ForwardKeeps
<1>3. ForwardInv => NothingDeferredShows
  BY ForwardShows
<1> QED
  BY <1>1, <1>2, <1>3, PTL DEF Spec

-----------------------------------------------------------------------------
(* The acceptance probe.                                                   *)

\* A row of the last proposal is of the request that has its state, and of what was
\* proposed for it, while there are drafts to verify for that state.
StashRight ==
  /\ Len(stash) \in Nat
  /\ \A i \in 1..Len(stash) : \A s \in Slots :
       (stash[i].slot = s /\ drafts[s] # Speculator!NoDraft) =>
         stash[i].gen = gen[s] /\ stash[i].cands = drafts[s].x.cands

ProbeInv ==
  /\ DOMAIN gen = Slots /\ DOMAIN drafts = Slots
  /\ batch \in Speculator!Batches \cup {<< >>}
  /\ StashRight
  /\ batch = << >> => compared = {}
  /\ Speculator!ProbePairsRight

\* The row that is looked up is the last one of the state.
LEMMA RowOfIs ==
  ASSUME StashRight, NEW b, NEW r, Speculator!RowOf(b, r) # 0
  PROVE  /\ Speculator!RowOf(b, r) \in 1..Len(stash)
         /\ stash[Speculator!RowOf(b, r)].slot = b[r]
<1> DEFINE at == {i \in 1..Len(stash) : stash[i].slot = b[r]}
<1>1. at # {} /\ Speculator!RowOf(b, r) = Speculator!Max(at)
  BY DEF Speculator!RowOf
<1>2. Len(stash) \in Nat /\ at \subseteq 0..Len(stash)
  BY DEF StashRight
<1>3. \E k \in at : \A m \in at : k >= m
  <2> HIDE DEF at
  <2> QED BY <1>1, <1>2, GreatestUpTo
<1>4. Speculator!Max(at) \in at
  <2> HIDE DEF at
  <2> QED BY <1>3 DEF Speculator!Max
<1> QED BY <1>1, <1>4

LEMMA ProbeStarts ==
  ASSUME Init
  PROVE  ProbeInv
<1>1. Speculator!Init
  BY DEF Init
<1> QED
  BY <1>1 DEF ProbeInv, StashRight, Speculator!Init, Speculator!ProbePairsRight

LEMMA ProbeKeeps ==
  ASSUME EngineAssumption, ProbeInv, [Next]_vars
  PROVE  ProbeInv'
<1>0. Slots \subseteq Nat
  BY DEF EngineAssumption, Speculator!SpeculatorAssumption
<1>1. CASE Speculator!Reinstall
  BY <1>1 DEF ProbeInv, StashRight, Speculator!Reinstall, Speculator!ProbePairsRight
<1>2. ASSUME NEW s \in Slots, Speculator!NewRequest(s)
      PROVE  ProbeInv'
  <2>1. /\ batch = << >> /\ gen' = [gen EXCEPT ![s] = @ + 1]
        /\ drafts' = [drafts EXCEPT ![s] = Speculator!NoDraft]
        /\ compared' = {} /\ stash' = stash /\ batch' = batch
    BY <1>2 DEF Speculator!NewRequest
  <2>2. \A u \in Slots : drafts'[u] # Speculator!NoDraft =>
          drafts'[u] = drafts[u] /\ gen'[u] = gen[u] /\ drafts[u] # Speculator!NoDraft
    BY <2>1 DEF ProbeInv
  <2>3. StashRight'
    BY <2>1, <2>2 DEF ProbeInv, StashRight, Speculator!NoDraft
  <2> QED BY <2>1, <2>3 DEF ProbeInv, Speculator!ProbePairsRight
<1>3. ASSUME NEW b \in Speculator!Batches,
             NEW got \in [1..Len(b) -> 0..Steps], NEW target \in [1..Len(b) -> Vocab],
             Speculator!Verify(b, got, target)
      PROVE  ProbeInv'
  <2>1. /\ batch' = b /\ gen' = gen /\ drafts' = drafts /\ stash' = stash
        /\ compared' = {[slot |-> b[r], row |-> stash[Speculator!RowOf(b, r)]] :
                          r \in {i \in 1..Len(b) : /\ Speculator!RowOf(b, i) # 0
                                                   /\ drafts[b[i]] # Speculator!NoDraft}}
    BY <1>3 DEF Speculator!Verify
  <2>2. StashRight'
    BY <2>1 DEF ProbeInv, StashRight, Speculator!NoDraft
  <2>3. /\ Len(b) \in Nat /\ b \in [1..Len(b) -> Slots] /\ b # << >>
    <3>1. PICK k \in 1..Cardinality(Slots) : b \in [1..k -> Slots]
      BY DEF Speculator!Batches, Speculator!Cardinality, Cardinality
    <3> QED BY <3>1, BatchIs
  <2>4. ASSUME NEW c \in compared'
        PROVE  /\ c.row.slot = c.slot /\ c.row.gen = gen'[c.slot]
               /\ c.row.cands = drafts'[c.slot].x.cands
    <3>1. PICK r \in 1..Len(b) : /\ Speculator!RowOf(b, r) # 0
                                 /\ drafts[b[r]] # Speculator!NoDraft
                                 /\ c = [slot |-> b[r], row |-> stash[Speculator!RowOf(b, r)]]
      BY <2>1
    <3>2. b[r] \in Slots
      BY <2>3
    <3>3. /\ Speculator!RowOf(b, r) \in 1..Len(stash)
          /\ stash[Speculator!RowOf(b, r)].slot = b[r]
      BY <3>1, RowOfIs DEF ProbeInv
    <3>4. /\ stash[Speculator!RowOf(b, r)].gen = gen[b[r]]
          /\ stash[Speculator!RowOf(b, r)].cands = drafts[b[r]].x.cands
      BY <3>1, <3>2, <3>3 DEF ProbeInv, StashRight
    <3>5. c.slot = b[r] /\ c.row = stash[Speculator!RowOf(b, r)]
      BY <3>1
    <3> QED BY <2>1, <3>3, <3>4, <3>5
  <2>5. Speculator!ProbePairsRight'
    BY <2>4 DEF Speculator!ProbePairsRight
  <2> QED BY <2>1, <2>2, <2>3, <2>5 DEF ProbeInv
<1>4. ASSUME NEW x_ \in [1..Len(batch) -> Proposals],
             NEW valid \in [1..Len(batch) -> BOOLEAN],
             Speculator!Propose(x_, valid)
      PROVE  ProbeInv'
  <2> DEFINE row(s) == CHOOSE i \in 1..Len(batch) : batch[i] = s
             samples(s) == s \in Speculator!Range(batch) /\ valid[row(s)]
  <2>1. /\ batch' = << >> /\ compared' = {} /\ gen' = gen
        /\ stash' = [i \in 1..Len(batch) |->
                       [slot |-> IF valid[i] THEN batch[i] ELSE -1, gen |-> gen[batch[i]],
                        cands |-> x_[i].cands, unary |-> x_[i].unary]]
        /\ DOMAIN drafts' = Slots
        /\ \A s \in Slots : samples(s) =>
             drafts'[s].gen = gen[s] /\ drafts'[s].x = x_[row(s)]
    BY <1>4 DEF Speculator!Propose
  <2>2. /\ Len(batch) \in Nat /\ batch \in [1..Len(batch) -> Slots]
        /\ \A i, j \in 1..Len(batch) : batch[i] = batch[j] => i = j
    BY BatchIs DEF ProbeInv
  <2>3. Len(stash') = Len(batch)
    BY <2>1, <2>2
  <2>4. ASSUME NEW i \in 1..Len(stash'), NEW s \in Slots, stash'[i].slot = s
        PROVE  stash'[i].gen = gen'[s] /\ stash'[i].cands = drafts'[s].x.cands
    <3>1. i \in 1..Len(batch)
      BY <2>3
    <3>2. /\ stash'[i].slot = IF valid[i] THEN batch[i] ELSE -1
          /\ stash'[i].gen = gen[batch[i]] /\ stash'[i].cands = x_[i].cands
      BY <2>1, <3>1
    <3>3. valid[i] /\ s = batch[i]
      <4>1. -1 \notin Slots
        BY <1>0
      <4> QED BY <2>4, <3>2, <4>1
    <3>4. row(s) = i
      BY <2>2, <3>1, <3>3
    <3> HIDE DEF row
    <3>5. samples(s)
      BY <3>1, <3>3, <3>4, <2>2 DEF Speculator!Range
    <3> QED BY <2>1, <3>2, <3>3, <3>4, <3>5
  <2>5. StashRight'
    BY <2>2, <2>3, <2>4 DEF StashRight
  <2> QED
    BY <2>1, <2>5 DEF ProbeInv, Speculator!ProbePairsRight
<1>5. CASE UNCHANGED speculatorVars
  BY <1>5 DEF ProbeInv, StashRight, Speculator!ProbePairsRight, speculatorVars, Speculator!NoDraft
<1>6. CASE Speculator!Next
  BY <1>1, <1>2, <1>3, <1>4, <1>6 DEF Speculator!Next
<1> QED
  BY <1>5, <1>6 DEF Next, vars

\* The row of the last proposal the probe finds for a verified request with drafts
\* is of that request, not of an earlier one with its state, and holds the
\* candidates its drafts were chosen from (row_by_state in _observe_rejection).
THEOREM EngineProbePairs ==
  ASSUME EngineAssumption
  PROVE  Spec => []ProbePairsRight
<1>1. Init => ProbeInv
  BY ProbeStarts
<1>2. ProbeInv /\ [Next]_vars => ProbeInv'
  BY ProbeKeeps
<1>3. ProbeInv => ProbePairsRight
  BY DEF ProbeInv, ProbePairsRight
<1> QED
  BY <1>1, <1>2, <1>3, PTL DEF Spec

-----------------------------------------------------------------------------
(* The walk over the candidates.                                           *)

LEMMA ProductIsNat == \A a, b \in Nat : a * b \in Nat
OBVIOUS

\* The best index of scores that has the smallest number.
LEMMA BestIs ==
  ASSUME NEW top \in Nat \ {0}, NEW sc \in [1..top -> Nat]
  PROVE  /\ Speculator!BestIndex(sc) \in 1..top
         /\ \A j \in 1..top : sc[j] <= sc[Speculator!BestIndex(sc)]
<1> DEFINE Tops(n) == {i \in 1..n : \A j \in 1..n : sc[j] <= sc[i]}
           Bad == {n \in 1..top : Tops(n) = {}}
<1>1. Tops(top) # {}
  <2> SUFFICES ASSUME Bad # {} PROVE FALSE
    <3>1. top \in 1..top
      OBVIOUS
    <3> QED BY <3>1
  <2>1. PICK n \in Bad : \A m \in Bad : n <= m
    <3>1. Bad \subseteq Nat
      OBVIOUS
    <3> HIDE DEF Bad
    <3> QED BY <3>1, Least
  <2>2. n # 1
    <3>1. 1 \in Tops(1)
      OBVIOUS
    <3> QED BY <2>1, <3>1
  <2>3. n - 1 \in 1..top /\ n - 1 \notin Bad
    <3>1. n \in 1..top
      BY <2>1
    <3> HIDE DEF Bad
    <3>2. n - 1 \in 1..top /\ ~(n <= n - 1)
      BY <2>2, <3>1
    <3> QED BY <2>1, <3>2
  <2>4. PICK i \in Tops(n - 1) : TRUE
    BY <2>3
  <2>5. \A j \in 1..n : j \in 1..(n - 1) \/ j = n
    BY <2>1
  <2>6. CASE sc[n] <= sc[i]
    <3>1. i \in Tops(n)
      BY <2>1, <2>4, <2>5, <2>6
    <3> QED BY <2>1, <3>1
  <2>7. CASE sc[i] <= sc[n]
    <3>1. n \in Tops(n)
      BY <2>1, <2>4, <2>5, <2>7
    <3> QED BY <2>1, <3>1
  <2> QED BY <2>1, <2>4, <2>6, <2>7
<1>2. PICK i \in Tops(top) : \A j \in Tops(top) : i <= j
  <2>1. Tops(top) \subseteq Nat
    OBVIOUS
  <2> HIDE DEF Tops
  <2> QED BY <1>1, <2>1, Least
<1>3. ASSUME NEW j \in 1..top, j < i
      PROVE  sc[j] < sc[i]
  <2>1. j \notin Tops(top)
    BY <1>2, <1>3
  <2>2. PICK k \in 1..top : ~(sc[k] <= sc[j])
    BY <2>1
  <2> QED BY <1>2, <2>2
<1>4. DOMAIN sc = 1..top
  OBVIOUS
<1>5. \E h \in DOMAIN sc : /\ \A j \in DOMAIN sc : sc[j] <= sc[h]
                           /\ \A j \in DOMAIN sc : j < h => sc[j] < sc[h]
  BY <1>2, <1>3, <1>4
<1>6. /\ Speculator!BestIndex(sc) \in DOMAIN sc
      /\ \A j \in DOMAIN sc : sc[j] <= sc[Speculator!BestIndex(sc)]
  BY <1>5 DEF Speculator!BestIndex
<1> QED
  BY <1>4, <1>6

\* The function that the walk is defined by exists, whatever the scores are.
Walks(e, n, f) ==
  f = [t \in 0..n |-> IF t = 0 THEN 1 ELSE Speculator!BestIndex(e[t][f[t - 1]])]

LEMMA WalkExists ==
  ASSUME NEW e, NEW top \in Nat
  PROVE  \E f : Walks(e, top, f)
<1> DEFINE Bad == {n \in Nat : ~\E f : Walks(e, n, f)}
<1> SUFFICES ASSUME Bad # {} PROVE FALSE
  OBVIOUS
<1>1. PICK n \in Bad : \A m \in Bad : n <= m
  <2>1. Bad \subseteq Nat
    OBVIOUS
  <2> HIDE DEF Bad
  <2> QED BY <2>1, Least
<1>2. n # 0
  <2> DEFINE f == [t \in 0..0 |-> 1]
  <2>1. f = [t \in 0..0 |-> IF t = 0 THEN 1 ELSE Speculator!BestIndex(e[t][f[t - 1]])]
    OBVIOUS
  <2>2. Walks(e, 0, f)
    BY <2>1 DEF Walks
  <2> QED BY <1>1, <2>2
<1>3. n \in Nat /\ n - 1 \in Nat /\ n - 1 \notin Bad
  BY <1>1, <1>2
<1>4. PICK f : Walks(e, n - 1, f)
  BY <1>3
<1> DEFINE next == Speculator!BestIndex(e[n][f[n - 1]])
           g == [t \in 0..n |-> IF t = n THEN next ELSE f[t]]
<1>5. ASSUME NEW t \in 0..n
      PROVE  g[t] = IF t = 0 THEN 1 ELSE Speculator!BestIndex(e[t][g[t - 1]])
  <2>1. CASE t = n
    <3>1. g[t] = next /\ t # 0 /\ g[t - 1] = f[t - 1]
      BY <1>2, <1>3, <2>1
    <3> QED BY <2>1, <3>1
  <2>2. CASE t # n
    <3>1. t \in 0..(n - 1) /\ g[t] = f[t]
      BY <1>3, <2>2
    <3>2. f[t] = IF t = 0 THEN 1 ELSE Speculator!BestIndex(e[t][f[t - 1]])
      BY <1>4, <3>1 DEF Walks
    <3>3. t # 0 => g[t - 1] = f[t - 1]
      BY <1>3, <2>2
    <3> QED BY <3>1, <3>2, <3>3
  <2> QED BY <2>1, <2>2
<1>6. g = [t \in 0..n |-> IF t = 0 THEN 1 ELSE Speculator!BestIndex(e[t][g[t - 1]])]
  <2>1. g = [t \in 0..n |-> g[t]]
    OBVIOUS
  <2> HIDE DEF g
  <2> QED BY <1>5, <2>1
<1>7. Walks(e, n, g)
  <2> HIDE DEF g
  <2> QED BY <1>6 DEF Walks
<1> QED
  BY <1>1, <1>7

\* What the model yields for a request: at every step so many candidates.
Ranked(p, top) ==
  \A t \in 1..Steps :
    /\ DOMAIN p.cands[t] = 1..top /\ p.unary[t] \in [1..top -> Nat]
    /\ p.hidden[t] \in Nat
    /\ \A i \in 1..top : p.cands[t][i] \in Vocab
    /\ \A i, j \in 1..top : p.cands[t][i] = p.cands[t][j] => i = j

LEMMA ProposalIs ==
  ASSUME EngineAssumption, NEW p \in Proposals
  PROVE  /\ Steps \in Nat \ {0} /\ p.anchor \in Vocab
         /\ \E top \in Nat \ {0} : Ranked(p, top)
<1>1. Speculator!SpeculatorAssumption
  BY DEF EngineAssumption
<1> DEFINE top == Len(p.cands[1])
<1>2. /\ top \in Nat \ {0} /\ 1 \in 1..Steps
      /\ \A t \in 1..Steps : p.cands[t] \in Seq(Vocab) /\ DOMAIN p.cands[t] = 1..top
  <2>1. 1 \in 1..Steps
    BY <1>1 DEF Speculator!SpeculatorAssumption
  <2>2. \A t \in 1..Steps : /\ p.cands[t] \in Seq(Vocab) /\ p.cands[t] # << >>
                            /\ Len(p.cands[t]) = Len(p.cands[1])
    BY <1>1 DEF Speculator!SpeculatorAssumption
  <2>3. \A s \in Seq(Vocab) : /\ DOMAIN s = 1..Len(s) /\ Len(s) \in Nat
                              /\ s # << >> => Len(s) # 0
    OBVIOUS
  <2> QED BY <2>1, <2>2, <2>3
<1> HIDE DEF top
<1>3. ASSUME NEW t \in 1..Steps
      PROVE  /\ p.unary[t] \in [1..top -> Nat] /\ p.hidden[t] \in Nat
             /\ \A i \in 1..top : p.cands[t][i] \in Vocab
             /\ \A i, j \in 1..top : p.cands[t][i] = p.cands[t][j] => i = j
  <2>1. /\ Speculator!IsInjective(p.cands[t])
        /\ p.unary[t] \in [DOMAIN p.cands[t] -> Nat] /\ p.hidden[t] \in Nat
    BY <1>1 DEF Speculator!SpeculatorAssumption
  <2>2. p.cands[t] \in Seq(Vocab) /\ DOMAIN p.cands[t] = 1..top
    BY <1>2
  <2>3. \A i \in 1..top : p.cands[t][i] \in Vocab
    <3>1. \A s \in Seq(Vocab) : \A i \in DOMAIN s : s[i] \in Vocab
      OBVIOUS
    <3> QED BY <2>2, <3>1
  <2> QED BY <2>1, <2>2, <2>3 DEF Speculator!IsInjective
<1> QED
  BY <1>1, <1>2, <1>3 DEF Speculator!SpeculatorAssumption, Ranked

\* What candidate j of a step scores after a token.
EdgeScore(p, t, j, before) == p.unary[t][j] + p.hidden[t] * Edge[before][p.cands[t][j]]

\* The token before a step, when it was candidate i.
Prior(p, t, i) == IF t = 1 THEN p.anchor ELSE p.cands[t - 1][i]

\* The scores of a step's candidates after one of the step before.
LEMMA EdgesAre ==
  ASSUME EngineAssumption, NEW p \in Proposals, NEW top \in Nat \ {0},
         NEW t \in 1..Steps, NEW i \in 1..top,
         Ranked(p, top)
  PROVE  /\ Speculator!ScoreEdges(p)[t][i] \in [1..top -> Nat]
         /\ \A j \in 1..top : Speculator!ScoreEdges(p)[t][i][j] =
              EdgeScore(p, t, j, Prior(p, t, i))
<1> DEFINE sc == Speculator!ScoreEdges(p)[t][i]
<1>1. Speculator!SpeculatorAssumption
  BY DEF EngineAssumption
<1>2. Steps \in Nat /\ p.anchor \in Vocab
  BY <1>1 DEF Speculator!SpeculatorAssumption
<1>3. Prior(p, t, i) \in Vocab
  <2>1. t # 1 => t - 1 \in 1..Steps
    BY <1>2
  <2> QED BY <1>2, <2>1 DEF Prior, Ranked
<1>4. Speculator!ScoreEdges(p)[t] =
        [k \in 1..top |-> [j \in 1..top |->
           p.unary[t][j] + p.hidden[t]
             * Edge[IF t = 1 THEN p.anchor ELSE p.cands[t - 1][k]][p.cands[t][j]]]]
  BY DEF Speculator!ScoreEdges, Ranked
<1>5. sc = [j \in 1..top |-> EdgeScore(p, t, j, Prior(p, t, i))]
  BY <1>4 DEF EdgeScore, Prior
<1>6. ASSUME NEW j \in 1..top
      PROVE  EdgeScore(p, t, j, Prior(p, t, i)) \in Nat
  <2>1. Edge[Prior(p, t, i)][p.cands[t][j]] \in Nat
    <3>1. Edge \in [Vocab -> [Vocab -> Nat]]
      BY <1>1 DEF Speculator!SpeculatorAssumption
    <3> QED BY <1>3, <3>1 DEF Ranked
  <2>2. p.hidden[t] * Edge[Prior(p, t, i)][p.cands[t][j]] \in Nat
    BY <2>1, ProductIsNat DEF Ranked
  <2>3. p.unary[t][j] \in Nat
    BY DEF Ranked
  <2> QED BY <2>2, <2>3 DEF EdgeScore
<1>7. /\ sc \in [1..top -> Nat]
      /\ \A j \in 1..top : sc[j] = EdgeScore(p, t, j, Prior(p, t, i))
  <2> HIDE DEF sc
  <2> QED BY <1>5, <1>6
<1> QED
  BY <1>7

\* The path: at every step the best candidate, by the scores of the row that is
\* walked on, those after the token before.
LEMMA WalkIs ==
  ASSUME EngineAssumption, NEW p \in Proposals, NEW top \in Nat \ {0},
         Ranked(p, top)
  PROVE  \A t \in 1..Steps :
           LET w == Speculator!Walk(p)
               before == IF t = 1 THEN p.anchor ELSE w.tokens[t - 1]
           IN /\ w.scores[t] \in [1..top -> Nat]
              /\ \A j \in 1..top : w.scores[t][j] =
                   EdgeScore(p, t, j, before)
              /\ \E i \in 1..top : /\ w.tokens[t] = p.cands[t][i]
                                   /\ \A j \in 1..top : w.scores[t][j] <= w.scores[t][i]
<1>0. \A t \in 1..Steps : \A i, j \in 1..top :
        Speculator!ScoreEdges(p)[t][i][j] = EdgeScore(p, t, j, Prior(p, t, i))
  BY EdgesAre
<1> DEFINE e == Speculator!ScoreEdges(p)
<1>1. PICK f : /\ Speculator!Walk(p).tokens = [t \in 1..Steps |-> p.cands[t][f[t]]]
               /\ Speculator!Walk(p).scores = [t \in 1..Steps |-> e[t][f[t - 1]]]
               /\ f = CHOOSE g : Walks(e, Steps, g)
  BY DEF Speculator!Walk, Walks
<1>2. Steps \in Nat \ {0}
  BY DEF EngineAssumption, Speculator!SpeculatorAssumption
<1> HIDE DEF e
<1>3. Walks(e, Steps, f)
  BY <1>1, <1>2, WalkExists
<1>4. f[0] = 1 /\ \A t \in 1..Steps : f[t] = Speculator!BestIndex(e[t][f[t - 1]])
  BY <1>2, <1>3 DEF Walks
<1>5. ASSUME NEW t \in 1..Steps, f[t - 1] \in 1..top
      PROVE  /\ e[t][f[t - 1]] \in [1..top -> Nat] /\ f[t] \in 1..top
             /\ \A j \in 1..top : e[t][f[t - 1]][j] <= e[t][f[t - 1]][f[t]]
  <2>1. e[t][f[t - 1]] \in [1..top -> Nat]
    BY <1>5, EdgesAre DEF e
  <2> QED BY <1>4, <2>1, BestIs
<1>6. \A t \in 0..Steps : f[t] \in 1..top
  <2> DEFINE Bad == {t \in 0..Steps : f[t] \notin 1..top}
  <2> SUFFICES ASSUME Bad # {} PROVE FALSE
    OBVIOUS
  <2>1. PICK t \in Bad : \A u \in Bad : t <= u
    <3>1. Bad \subseteq Nat
      OBVIOUS
    <3> HIDE DEF Bad
    <3> QED BY <3>1, Least
  <2>2. t # 0
    BY <1>4, <2>1
  <2>3. t \in 1..Steps /\ t - 1 \in 0..Steps /\ ~(t <= t - 1)
    BY <1>2, <2>1, <2>2
  <2>4. f[t - 1] \in 1..top
    BY <2>1, <2>3
  <2> QED BY <1>5, <2>1, <2>3, <2>4
<1> SUFFICES ASSUME NEW t \in 1..Steps
             PROVE  LET w == Speculator!Walk(p)
                        before == IF t = 1 THEN p.anchor ELSE w.tokens[t - 1]
                    IN /\ w.scores[t] \in [1..top -> Nat]
                       /\ \A j \in 1..top : w.scores[t][j] =
                            EdgeScore(p, t, j, before)
                       /\ \E i \in 1..top :
                            /\ w.tokens[t] = p.cands[t][i]
                            /\ \A j \in 1..top : w.scores[t][j] <= w.scores[t][i]
  OBVIOUS
<1> DEFINE w == Speculator!Walk(p)
           before == IF t = 1 THEN p.anchor ELSE w.tokens[t - 1]
           b == IF t = 1 THEN p.anchor ELSE p.cands[t - 1][f[t - 1]]
<1>7. t - 1 \in 0..Steps /\ f[t - 1] \in 1..top /\ f[t] \in 1..top
  BY <1>2, <1>6
<1>8. w.scores[t] = e[t][f[t - 1]] /\ w.tokens[t] = p.cands[t][f[t]]
  BY <1>1
<1>9. before = b
  <2>1. t # 1 => t - 1 \in 1..Steps
    BY <1>2
  <2> QED BY <1>1, <2>1
<1>10. \A j \in 1..top : w.scores[t][j] =
         EdgeScore(p, t, j, b)
  <2> DEFINE sc == Speculator!ScoreEdges(p)[t][f[t - 1]]
  <2>1. \A j \in 1..top : sc[j] = EdgeScore(p, t, j, b)
    <3>1. b = Prior(p, t, f[t - 1])
      BY DEF Prior
    <3> HIDE DEF b
    <3> QED BY <1>0, <1>7, <3>1
  <2>2. w.scores[t] = sc
    BY <1>8 DEF e
  <2> HIDE DEF w, b, sc
  <2> QED BY <2>1, <2>2
<1>11. /\ w.scores[t] \in [1..top -> Nat]
       /\ \A j \in 1..top : w.scores[t][j] <= w.scores[t][f[t]]
  BY <1>5, <1>7, <1>8
<1> HIDE DEF w, b
<1> QED
  BY <1>7, <1>8, <1>9, <1>10, <1>11 DEF w

LEMMA RankIs ==
  ASSUME NEW p, NEW top \in Nat \ {0}, Ranked(p, top),
         NEW t \in 1..Steps, NEW i \in 1..top
  PROVE  Speculator!Rank(p.cands[t], p.cands[t][i]) = i
<1> DEFINE at == {k \in DOMAIN p.cands[t] : p.cands[t][k] = p.cands[t][i]}
<1>1. at = {i}
  BY DEF Ranked
<1>2. Speculator!Min({i}) = i
  BY DEF Speculator!Min
<1> HIDE DEF at
<1>3. Speculator!Rank(p.cands[t], p.cands[t][i]) = IF at = {} THEN 0 ELSE Speculator!Min(at)
  BY DEF Speculator!Rank, at
<1> QED
  BY <1>1, <1>2, <1>3

\* A proposal's scores of a step are those of its drafts, its draft the best of them.
ChosenBy(d, p, top, t, scores) ==
  /\ scores \in [1..top -> Nat]
  /\ \A j \in 1..top : scores[j] = Speculator!ScoreOf(d, t, p.cands[t][j])
  /\ \E i \in 1..top : /\ d.tokens[t] = p.cands[t][i]
                       /\ \A j \in 1..top : scores[j] <= scores[i]

\* Drafts are chosen by the scores that are cached for them, whichever way they are.
LEMMA PathIs ==
  ASSUME EngineAssumption, mode \in {"edge", "unary"},
         NEW p \in Proposals, NEW top \in Nat \ {0}, Ranked(p, top),
         NEW d, d.x = p, d.tokens = Speculator!Path(p).tokens, NEW t \in 1..Steps
  PROVE  ChosenBy(d, p, top, t, Speculator!Path(p).scores[t])
<1>1. \A j \in 1..top : Speculator!Rank(p.cands[t], p.cands[t][j]) = j
  BY RankIs
<1>2. p.unary[t] \in [1..top -> Nat]
  BY DEF Ranked
<1>3. CASE mode = "unary"
  <2>1. Speculator!Path(p).scores = p.unary
    BY <1>3 DEF Speculator!Path, Speculator!Alone
  <2>2. d.tokens[t] = p.cands[t][Speculator!BestIndex(p.unary[t])]
    BY <1>3 DEF Speculator!Path, Speculator!Alone
  <2>3. /\ Speculator!BestIndex(p.unary[t]) \in 1..top
        /\ \A j \in 1..top : p.unary[t][j] <= p.unary[t][Speculator!BestIndex(p.unary[t])]
    BY <1>2, BestIs
  <2>4. \A j \in 1..top : p.unary[t][j] = Speculator!ScoreOf(d, t, p.cands[t][j])
    <3> SUFFICES ASSUME NEW j \in 1..top
                 PROVE  p.unary[t][j] = Speculator!ScoreOf(d, t, p.cands[t][j])
      OBVIOUS
    <3>1. Speculator!ScoreOf(d, t, p.cands[t][j]) = p.unary[t][j] + 0
      BY <1>1, <1>3 DEF Speculator!ScoreOf
    <3>2. p.unary[t][j] \in Nat
      BY <1>2
    <3> QED BY <3>1, <3>2
  <2> QED BY <1>2, <2>1, <2>2, <2>3, <2>4 DEF ChosenBy
<1>4. CASE mode = "edge"
  <2> DEFINE w == Speculator!Walk(p)
             before == IF t = 1 THEN p.anchor ELSE w.tokens[t - 1]
  <2>1. Speculator!Path(p) = w
    BY <1>4 DEF Speculator!Path
  <2>2. /\ w.scores[t] \in [1..top -> Nat]
        /\ \A j \in 1..top : w.scores[t][j] = EdgeScore(p, t, j, before)
        /\ \E i \in 1..top : /\ w.tokens[t] = p.cands[t][i]
                             /\ \A j \in 1..top : w.scores[t][j] <= w.scores[t][i]
    BY WalkIs
  <2>3. \A j \in 1..top : EdgeScore(p, t, j, before) = Speculator!ScoreOf(d, t, p.cands[t][j])
    <3> SUFFICES ASSUME NEW j \in 1..top
                 PROVE  EdgeScore(p, t, j, before) = Speculator!ScoreOf(d, t, p.cands[t][j])
      OBVIOUS
    <3>1. before = IF t = 1 THEN d.x.anchor ELSE d.tokens[t - 1]
      BY <2>1
    <3> HIDE DEF before
    <3> QED BY <1>1, <1>4, <3>1 DEF EdgeScore, Speculator!ScoreOf
  <2> HIDE DEF w, before
  <2> QED BY <2>1, <2>2, <2>3 DEF ChosenBy
<1> QED
  BY <1>3, <1>4

-----------------------------------------------------------------------------
(* The cached scores.                                                      *)

\* What is cached of a proposal.
PathBy(m, p) == IF m = "unary" THEN Speculator!Alone(p) ELSE Speculator!Walk(p)

Cell(m, p, t, v) ==
  IF v \in Speculator!Range(p.cands[t])
  THEN PathBy(m, p).scores[t][CHOOSE i \in DOMAIN p.cands[t] : p.cands[t][i] = v]
  ELSE Speculator!Minus

\* Of a state, only the cells of the last candidates hold a score, also after the drafts
\* are gone; while there are drafts these are their candidates, and the scores theirs.
Cleared(logit, ids) ==
  \A t \in 1..Steps : \A v \in Vocab :
    v \notin Speculator!Range(ids[t]) => logit[t][v] = Speculator!Minus

Held(m, draft, logit, ids) ==
  /\ Cleared(logit, ids)
  /\ draft # Speculator!NoDraft =>
       /\ draft.x \in Proposals /\ draft.tokens = PathBy(m, draft.x).tokens
       /\ \A t \in 1..Steps : \A v \in Vocab : logit[t][v] = Cell(m, draft.x, t, v)

DraftsInv ==
  /\ mode \in {"edge", "unary"} /\ DOMAIN drafts = Slots
  /\ batch \in Speculator!Batches \cup {<< >>}
  /\ \A s \in Slots : Held(mode, drafts[s], logits[s], cached[s])

LEMMA DraftsStart ==
  ASSUME EngineAssumption, Init
  PROVE  DraftsInv
<1>1. Speculator!Init
  BY DEF Init
<1>2. mode \in {"edge", "unary"}
  BY <1>1 DEF Speculator!Init, EngineAssumption, Speculator!SpeculatorAssumption
<1>3. \A s \in Slots : \A t \in 1..Steps : \A v \in Vocab :
        logits[s][t][v] = Speculator!Minus
  BY <1>1 DEF Speculator!Init, Speculator!NoLogits
<1>4. \A s \in Slots : Held(mode, drafts[s], logits[s], cached[s])
  BY <1>1, <1>3 DEF Held, Cleared, Speculator!Init
<1> QED
  BY <1>1, <1>2, <1>4 DEF DraftsInv, Speculator!Init

\* What one request's cells are after it was proposed for.
NewCells(m, p, logit, ids) ==
  [t \in 1..Steps |-> Speculator!CachedLogits(logit[t], ids[t], PathBy(m, p), p.cands, t)]

LEMMA CellsMade ==
  ASSUME NEW m, NEW p \in Proposals, NEW logit, NEW ids, Cleared(logit, ids),
         NEW draft, draft.x = p, draft.tokens = PathBy(m, p).tokens
  PROVE  Held(m, draft, NewCells(m, p, logit, ids), p.cands)
<1> DEFINE new == NewCells(m, p, logit, ids)
<1>1. ASSUME NEW t \in 1..Steps, NEW v \in Vocab
      PROVE  new[t][v] = Cell(m, p, t, v)
  <2>1. new[t] = Speculator!CachedLogits(logit[t], ids[t], PathBy(m, p), p.cands, t)
    BY DEF NewCells
  <2> HIDE DEF new
  <2>2. new[t][v] = IF v \in Speculator!Range(p.cands[t])
          THEN PathBy(m, p).scores[t][CHOOSE i \in DOMAIN p.cands[t] : p.cands[t][i] = v]
          ELSE IF v \in Speculator!Range(ids[t]) THEN Speculator!Minus ELSE logit[t][v]
    BY <2>1 DEF Speculator!CachedLogits
  <2> QED BY <2>2 DEF Cell, Cleared
<1>2. ASSUME NEW t \in 1..Steps, NEW v \in Vocab, v \notin Speculator!Range(p.cands[t])
      PROVE  new[t][v] = Speculator!Minus
  BY <1>1, <1>2 DEF Cell
<1> HIDE DEF new
<1>3. Held(m, draft, new, p.cands)
  BY <1>1, <1>2 DEF Held, Cleared
<1> QED
  BY <1>3 DEF new

LEMMA DraftsKeep ==
  ASSUME EngineAssumption, DraftsInv, [Next]_vars
  PROVE  DraftsInv'
<1>1. CASE Speculator!Reinstall
  <2>1. /\ mode' = mode /\ batch' = batch /\ drafts' = [s \in Slots |-> Speculator!NoDraft]
        /\ logits' = Speculator!NoLogits
    BY <1>1 DEF Speculator!Reinstall
  <2>2. \A s \in Slots : \A t \in 1..Steps : \A v \in Vocab :
          logits'[s][t][v] = Speculator!Minus
    BY <2>1 DEF Speculator!NoLogits
  <2>3. \A s \in Slots : Held(mode, drafts'[s], logits'[s], cached'[s])
    BY <2>1, <2>2 DEF Held, Cleared
  <2> QED BY <2>1, <2>3 DEF DraftsInv
<1>2. ASSUME NEW s \in Slots, Speculator!NewRequest(s)
      PROVE  DraftsInv'
  <2>1. /\ drafts' = [drafts EXCEPT ![s] = Speculator!NoDraft]
        /\ mode' = mode /\ logits' = logits /\ cached' = cached /\ batch' = batch
    BY <1>2 DEF Speculator!NewRequest
  <2>2. ASSUME NEW u \in Slots
        PROVE  Held(mode, drafts'[u], logits[u], cached[u])
    <3>1. Held(mode, drafts[u], logits[u], cached[u])
      BY DEF DraftsInv
    <3>2. CASE u = s
      <4>1. drafts'[u] = Speculator!NoDraft
        BY <2>1, <3>2 DEF DraftsInv
      <4> QED BY <3>1, <4>1 DEF Held
    <3>3. CASE u # s
      <4>1. drafts'[u] = drafts[u]
        BY <2>1, <3>3 DEF DraftsInv
      <4> QED BY <3>1, <4>1
    <3> QED BY <3>2, <3>3
  <2> QED BY <2>1, <2>2 DEF DraftsInv
<1>3. CASE /\ mode' = mode /\ drafts' = drafts /\ logits' = logits /\ cached' = cached
           /\ batch' \in Speculator!Batches \cup {<< >>}
  BY <1>3 DEF DraftsInv
<1>4. ASSUME NEW x_ \in [1..Len(batch) -> Proposals],
             NEW valid \in [1..Len(batch) -> BOOLEAN],
             Speculator!Propose(x_, valid)
      PROVE  DraftsInv'
  <2> DEFINE row(s) == CHOOSE i \in 1..Len(batch) : batch[i] = s
             samples(s) == s \in Speculator!Range(batch) /\ valid[row(s)]
             path(s) == Speculator!Path(x_[row(s)])
  <2>1. /\ batch' = << >> /\ mode' = mode
        /\ drafts' = [s \in Slots |->
             IF samples(s)
             THEN [gen |-> gen[s], x |-> x_[row(s)], tokens |-> path(s).tokens]
             ELSE IF s \in Speculator!Range(batch) THEN Speculator!NoDraft ELSE drafts[s]]
        /\ logits' = [s \in Slots |->
             IF samples(s)
             THEN [t \in 1..Steps |-> Speculator!CachedLogits(logits[s][t], cached[s][t],
                                                   path(s), x_[row(s)].cands, t)]
             ELSE logits[s]]
        /\ cached' = [s \in Slots |-> IF samples(s) THEN x_[row(s)].cands ELSE cached[s]]
    BY <1>4 DEF Speculator!Propose
  <2>2. \A p : Speculator!Path(p) = PathBy(mode, p)
    BY DEF Speculator!Path, PathBy
  <2>3. \A s \in Slots : s \in Speculator!Range(batch) => row(s) \in 1..Len(batch)
    <3>1. Len(batch) \in Nat /\ DOMAIN batch = 1..Len(batch)
      BY BatchIs DEF DraftsInv
    <3> QED BY <3>1 DEF Speculator!Range
  <2> HIDE DEF row
  <2>4. ASSUME NEW s \in Slots
        PROVE  Held(mode, drafts'[s], logits'[s], cached'[s])
    <3>1. Held(mode, drafts[s], logits[s], cached[s])
      BY DEF DraftsInv
    <3>2. CASE samples(s)
      <4>1. x_[row(s)] \in Proposals
        BY <2>3, <3>2
      <4> DEFINE p == x_[row(s)]
                 d == [gen |-> gen[s], x |-> p, tokens |-> PathBy(mode, p).tokens]
      <4>2. /\ drafts'[s] = d /\ cached'[s] = p.cands
            /\ logits'[s] = NewCells(mode, p, logits[s], cached[s])
        BY <2>1, <2>2, <3>2 DEF NewCells
      <4>3. d.x = p /\ d.tokens = PathBy(mode, p).tokens
        OBVIOUS
      <4> HIDE DEF d, p
      <4>4. Cleared(logits[s], cached[s])
        BY <3>1 DEF Held
      <4>5. p \in Proposals
        BY <4>1 DEF p
      <4> QED BY <4>2, <4>3, <4>4, <4>5, CellsMade
    <3>3. CASE ~samples(s)
      <4>1. /\ logits'[s] = logits[s] /\ cached'[s] = cached[s]
            /\ drafts'[s] = Speculator!NoDraft \/ drafts'[s] = drafts[s]
        BY <2>1, <3>3
      <4> QED BY <3>1, <4>1 DEF Held
    <3> QED BY <3>2, <3>3
  <2> QED BY <2>1, <2>4 DEF DraftsInv
<1>5. CASE Speculator!Next
  BY <1>1, <1>2, <1>3, <1>4, <1>5 DEF Speculator!Next, Speculator!Verify
<1>6. CASE UNCHANGED speculatorVars
  BY <1>3, <1>6 DEF speculatorVars, DraftsInv
<1> QED
  BY <1>5, <1>6 DEF Next, vars

LEMMA DraftsMatch ==
  ASSUME EngineAssumption, DraftsInv
  PROVE  Speculator!DraftLogitsMatch
<1> SUFFICES ASSUME NEW s \in Slots, drafts[s] # Speculator!NoDraft, NEW t \in 1..Steps
             PROVE  /\ \A v \in Vocab : logits[s][t][v] =
                         IF v \in Speculator!Range(drafts[s].x.cands[t])
                         THEN Speculator!ScoreOf(drafts[s], t, v) ELSE Speculator!Minus
                    /\ \A v \in Vocab : logits[s][t][v] <= logits[s][t][drafts[s].tokens[t]]
  BY DEF Speculator!DraftLogitsMatch
<1> DEFINE d == drafts[s]
           p == d.x
           sc == PathBy(mode, p).scores[t]
           spot(v) == CHOOSE i \in DOMAIN p.cands[t] : p.cands[t][i] = v
<1>1. /\ p \in Proposals /\ d.tokens = PathBy(mode, p).tokens
      /\ \A v \in Vocab : logits[s][t][v] = Cell(mode, p, t, v)
  BY DEF DraftsInv, Held
<1>2. mode \in {"edge", "unary"}
  BY DEF DraftsInv
<1>3. PathBy(mode, p) = Speculator!Path(p)
  BY DEF Speculator!Path, PathBy
<1>4. PICK top \in Nat \ {0} : Ranked(p, top)
  BY <1>1, ProposalIs
<1>5. /\ sc \in [1..top -> Nat]
      /\ \A j \in 1..top : sc[j] = Speculator!ScoreOf(d, t, p.cands[t][j])
      /\ \E i \in 1..top : d.tokens[t] = p.cands[t][i] /\ \A j \in 1..top : sc[j] <= sc[i]
  <2> HIDE DEF d
  <2>1. ChosenBy(d, p, top, t, Speculator!Path(p).scores[t])
    BY <1>1, <1>2, <1>3, <1>4, PathIs
  <2> QED BY <1>3, <2>1 DEF ChosenBy
<1>6. \A v \in Vocab : v \in Speculator!Range(p.cands[t]) =>
        \E i \in 1..top : p.cands[t][i] = v
  BY <1>4 DEF Ranked, Speculator!Range
<1>7. \A i \in 1..top : /\ p.cands[t][i] \in Speculator!Range(p.cands[t])
                        /\ p.cands[t][i] \in Vocab /\ spot(p.cands[t][i]) = i
  BY <1>4 DEF Ranked, Speculator!Range
<1>8. \A v \in Vocab : logits[s][t][v] = IF v \in Speculator!Range(p.cands[t])
                                         THEN sc[spot(v)] ELSE Speculator!Minus
  BY <1>1 DEF Cell
<1> HIDE DEF sc, spot, p, d
<1>9. \A i \in 1..top : logits[s][t][p.cands[t][i]] = sc[i]
  BY <1>7, <1>8
<1>10. ASSUME NEW v \in Vocab
       PROVE  logits[s][t][v] = IF v \in Speculator!Range(p.cands[t])
                                THEN Speculator!ScoreOf(d, t, v) ELSE Speculator!Minus
  BY <1>5, <1>6, <1>8, <1>9
<1>11. ASSUME NEW v \in Vocab
       PROVE  logits[s][t][v] <= logits[s][t][d.tokens[t]]
  <2>1. PICK i \in 1..top : d.tokens[t] = p.cands[t][i] /\ \A j \in 1..top : sc[j] <= sc[i]
    BY <1>5
  <2>2. logits[s][t][d.tokens[t]] = sc[i] /\ sc[i] \in Nat
    BY <1>5, <1>9, <2>1
  <2>3. CASE v \in Speculator!Range(p.cands[t])
    <3>1. PICK j \in 1..top : p.cands[t][j] = v
      BY <1>6, <2>3
    <3> QED BY <1>9, <2>1, <2>2, <3>1
  <2>4. CASE v \notin Speculator!Range(p.cands[t])
    <3>1. logits[s][t][v] = -1
      BY <1>8, <2>4 DEF Speculator!Minus
    <3> QED BY <2>2, <3>1
  <2> QED BY <2>3, <2>4
<1> QED
  BY <1>10, <1>11 DEF d, p

\* The rejection sampler reads for every request with drafts the scores its drafts
\* were chosen by, -inf for every token that was no candidate, and each draft has
\* the best score of its step, for every walk mode, vocabulary and draft model
\* (_selector_walk_kernel, _cache_draft_logits_kernel).
THEOREM EngineDraftsMatch ==
  ASSUME EngineAssumption
  PROVE  Spec => []DraftLogitsMatch
<1>1. Init => DraftsInv
  BY DraftsStart
<1>2. DraftsInv /\ [Next]_vars => DraftsInv'
  BY DraftsKeep
<1>3. DraftsInv => DraftLogitsMatch
  BY DraftsMatch DEF DraftLogitsMatch
<1> QED
  BY <1>1, <1>2, <1>3, PTL DEF Spec

-----------------------------------------------------------------------------
(* Sums over the steps.                                                    *)

\* A function sums f over the subsets of its domain, one element after another.
Some(u) == CHOOSE i \in u : TRUE
SumsUp(f, W) ==
  W = [u \in SUBSET (DOMAIN f) |-> IF u = {} THEN 0 ELSE f[Some(u)] + W[u \ {Some(u)}]]

LEMMA SumFunctionIs ==
  ASSUME NEW f
  PROVE  Speculator!SumFunction(f) = (CHOOSE W : SumsUp(f, W))[DOMAIN f]
BY DEF Speculator!SumFunction, Speculator!SumFunctionOnSet, Speculator!FoldFunctionOnSet,
       Speculator!MapThenFoldSet, SumsUp, Some

\* There is only one such function.
LEMMA SumsAgree ==
  ASSUME NEW f, IsFiniteSet(DOMAIN f), NEW V, SumsUp(f, V), NEW W, SumsUp(f, W)
  PROVE  V = W
<1> DEFINE D == DOMAIN f
           Bad == {n \in Nat : \E u \in SUBSET D : Cardinality(u) = n /\ V[u] # W[u]}
<1>1. Bad = {}
  <2> SUFFICES ASSUME Bad # {} PROVE FALSE
    OBVIOUS
  <2>1. PICK n \in Bad : \A m \in Bad : n <= m
    <3>1. Bad \subseteq Nat
      OBVIOUS
    <3> HIDE DEF Bad
    <3> QED BY <3>1, Least
  <2>2. PICK u \in SUBSET D : Cardinality(u) = n /\ V[u] # W[u]
    BY <2>1
  <2>3. CASE u = {}
    BY <2>2, <2>3 DEF SumsUp
  <2>4. CASE u # {}
    <3> DEFINE r == u \ {Some(u)}
    <3>1. Some(u) \in u /\ IsFiniteSet(u)
      BY <2>4, FS_Subset DEF Some
    <3>2. r \in SUBSET D /\ Cardinality(r) = n - 1 /\ Cardinality(r) \in Nat
      BY <2>2, <3>1, FS_RemoveElement, FS_CardinalityType, FS_Subset
    <3>3. Cardinality(r) \notin Bad
      <4> HIDE DEF Bad
      <4>1. ~(n <= n - 1)
        BY <2>2, <3>1, FS_CardinalityType
      <4> QED BY <2>1, <3>2, <4>1
    <3>4. V[r] = W[r]
      BY <3>2, <3>3
    <3> HIDE DEF r
    <3>5. V[u] = f[Some(u)] + V[r] /\ W[u] = f[Some(u)] + W[r]
      BY <2>2, <2>4 DEF SumsUp, r
    <3> QED BY <2>2, <3>4, <3>5
  <2> QED BY <2>3, <2>4
<1>2. \A u \in SUBSET D : V[u] = W[u]
  <2> SUFFICES ASSUME NEW u \in SUBSET D PROVE V[u] = W[u]
    OBVIOUS
  <2>1. Cardinality(u) \in Nat
    BY FS_Subset, FS_CardinalityType
  <2> QED BY <1>1, <2>1
<1> HIDE DEF Bad, D
<1>3. V = [u \in SUBSET D |-> V[u]] /\ W = [u \in SUBSET D |-> W[u]]
  BY DEF SumsUp, D
<1> QED
  BY <1>2, <1>3

LEMMA SumIs ==
  ASSUME NEW f, IsFiniteSet(DOMAIN f), NEW W, SumsUp(f, W)
  PROVE  Speculator!SumFunction(f) = W[DOMAIN f]
<1>1. SumsUp(f, CHOOSE V : SumsUp(f, V))
  OBVIOUS
<1>2. (CHOOSE V : SumsUp(f, V)) = W
  BY <1>1, SumsAgree
<1> QED
  BY <1>2, SumFunctionIs

\* Built up by the number of elements, a function that sums f exists.
SumsSmall(f, n, W) ==
  W = [u \in {v \in SUBSET (DOMAIN f) : Cardinality(v) <= n} |->
         IF u = {} THEN 0 ELSE f[Some(u)] + W[u \ {Some(u)}]]

LEMMA SumExists ==
  ASSUME NEW f, IsFiniteSet(DOMAIN f)
  PROVE  \E W : SumsUp(f, W)
<1> DEFINE D == DOMAIN f
           Upto(n) == {v \in SUBSET D : Cardinality(v) <= n}
           Bad == {n \in Nat : ~\E W : SumsSmall(f, n, W)}
<1>1. \A u \in SUBSET D : IsFiniteSet(u) /\ Cardinality(u) \in Nat
  BY FS_Subset, FS_CardinalityType
<1>2. \A u \in SUBSET D : u # {} =>
        /\ u \ {Some(u)} \in SUBSET D
        /\ Cardinality(u \ {Some(u)}) = Cardinality(u) - 1
  <2> SUFFICES ASSUME NEW u \in SUBSET D, u # {}
               PROVE  /\ u \ {Some(u)} \in SUBSET D
                      /\ Cardinality(u \ {Some(u)}) = Cardinality(u) - 1
    OBVIOUS
  <2>1. Some(u) \in u
    BY DEF Some
  <2> QED BY <1>1, <2>1, FS_RemoveElement
<1>3. Bad = {}
  <2> SUFFICES ASSUME Bad # {} PROVE FALSE
    OBVIOUS
  <2>1. PICK n \in Bad : \A m \in Bad : n <= m
    <3>1. Bad \subseteq Nat
      OBVIOUS
    <3> HIDE DEF Bad
    <3> QED BY <3>1, Least
  <2>2. CASE n = 0
    <3> DEFINE W == [u \in Upto(0) |-> 0]
    <3>1. \A u \in Upto(0) : u = {}
      BY <1>1, FS_EmptySet
    <3>2. W = [u \in Upto(0) |-> IF u = {} THEN 0 ELSE f[Some(u)] + W[u \ {Some(u)}]]
      BY <3>1
    <3>3. SumsSmall(f, 0, W)
      <4> HIDE DEF W
      <4> QED BY <3>2 DEF SumsSmall
    <3> QED BY <2>1, <2>2, <3>3
  <2>3. CASE n # 0
    <3>1. n \in Nat /\ n - 1 \in Nat /\ n - 1 \notin Bad
      BY <2>1, <2>3
    <3>2. PICK W : SumsSmall(f, n - 1, W)
      BY <3>1
    <3> DEFINE w(u) == f[Some(u)] + W[u \ {Some(u)}]
               X == [u \in Upto(n) |-> IF Cardinality(u) = n THEN w(u) ELSE W[u]]
    <3>3. \A u \in Upto(n - 1) : W[u] = IF u = {} THEN 0 ELSE w(u)
      BY <3>2 DEF SumsSmall
    <3>4. ASSUME NEW u \in Upto(n)
          PROVE  X[u] = IF u = {} THEN 0 ELSE f[Some(u)] + X[u \ {Some(u)}]
      <4>1. Cardinality({}) = 0
        BY FS_EmptySet
      <4>2. CASE u = {}
        <5>1. u \in Upto(n - 1) /\ Cardinality(u) # n
          BY <2>3, <3>1, <4>1, <4>2
        <5> QED BY <3>3, <4>2, <5>1
      <4>3. CASE u # {}
        <5> DEFINE r == u \ {Some(u)}
        <5>1. r \in SUBSET D /\ Cardinality(r) = Cardinality(u) - 1
          BY <1>2, <4>3
        <5>2. Cardinality(u) \in Nat /\ Cardinality(u) <= n
          BY <1>1
        <5>3. r \in Upto(n) /\ Cardinality(r) # n
          BY <3>1, <5>1, <5>2
        <5>4. X[r] = W[r]
          BY <5>3
        <5>5. X[u] = w(u)
          <6>1. CASE Cardinality(u) = n
            BY <6>1
          <6>2. CASE Cardinality(u) # n
            <7>1. u \in Upto(n - 1)
              BY <3>1, <5>2, <6>2
            <7> QED BY <3>3, <4>3, <6>2, <7>1
          <6> QED BY <6>1, <6>2
        <5> QED BY <4>3, <5>4, <5>5
      <4> QED BY <4>2, <4>3
    <3>5. X = [u \in Upto(n) |-> IF u = {} THEN 0 ELSE f[Some(u)] + X[u \ {Some(u)}]]
      <4>1. X = [u \in Upto(n) |-> X[u]]
        OBVIOUS
      <4> HIDE DEF X
      <4> QED BY <3>4, <4>1
    <3>6. SumsSmall(f, n, X)
      <4> HIDE DEF X
      <4> QED BY <3>5 DEF SumsSmall
    <3> QED BY <2>1, <3>6
  <2> QED BY <2>2, <2>3
<1>4. Cardinality(D) \in Nat /\ Cardinality(D) \notin Bad
  BY <1>1, <1>3
<1>5. PICK W : SumsSmall(f, Cardinality(D), W)
  BY <1>4
<1>6. Upto(Cardinality(D)) = SUBSET D
  <2>1. \A u \in SUBSET D : Cardinality(u) <= Cardinality(D)
    BY FS_Subset
  <2> QED BY <2>1
<1>7. SumsUp(f, W)
  BY <1>5, <1>6 DEF SumsSmall, SumsUp
<1> QED
  BY <1>7

\* Sums add up.
LEMMA SumAdds ==
  ASSUME NEW D, IsFiniteSet(D), NEW f \in [D -> Int], NEW g \in [D -> Int]
  PROVE  /\ Speculator!SumFunction(f) \in Int
         /\ Speculator!SumFunction([i \in D |-> f[i] + g[i]]) =
              Speculator!SumFunction(f) + Speculator!SumFunction(g)
<1> DEFINE h == [i \in D |-> f[i] + g[i]]
<1>1. PICK V : SumsUp(f, V)
  BY SumExists
<1>2. PICK W : SumsUp(g, W)
  BY SumExists
<1> DEFINE X == [u \in SUBSET D |-> V[u] + W[u]]
           Bad == {n \in Nat : \E u \in SUBSET D :
                     Cardinality(u) = n /\ ~(V[u] \in Int /\ W[u] \in Int)}
<1>3. \A u \in SUBSET D : IsFiniteSet(u) /\ Cardinality(u) \in Nat
  BY FS_Subset, FS_CardinalityType
<1>4. ASSUME NEW u \in SUBSET D, u # {}
      PROVE  /\ Some(u) \in D /\ u \ {Some(u)} \in SUBSET D
             /\ Cardinality(u \ {Some(u)}) = Cardinality(u) - 1
             /\ V[u] = f[Some(u)] + V[u \ {Some(u)}]
             /\ W[u] = g[Some(u)] + W[u \ {Some(u)}]
  <2>1. Some(u) \in u
    BY <1>4 DEF Some
  <2>2. V[u] = f[Some(u)] + V[u \ {Some(u)}]
    BY <1>1, <1>4 DEF SumsUp
  <2>3. W[u] = g[Some(u)] + W[u \ {Some(u)}]
    BY <1>2, <1>4 DEF SumsUp
  <2> QED BY <1>3, <2>1, <2>2, <2>3, FS_RemoveElement
<1>5. V[{}] = 0 /\ W[{}] = 0
  BY <1>1, <1>2 DEF SumsUp
<1>6. Bad = {}
  <2> SUFFICES ASSUME Bad # {} PROVE FALSE
    OBVIOUS
  <2>1. PICK n \in Bad : \A m \in Bad : n <= m
    <3>1. Bad \subseteq Nat
      OBVIOUS
    <3> HIDE DEF Bad
    <3> QED BY <3>1, Least
  <2>2. PICK u \in SUBSET D : Cardinality(u) = n /\ ~(V[u] \in Int /\ W[u] \in Int)
    BY <2>1
  <2>3. u # {}
    BY <1>5, <2>2
  <2> DEFINE r == u \ {Some(u)}
  <2>4. /\ Some(u) \in D /\ r \in SUBSET D /\ Cardinality(r) = n - 1
        /\ V[u] = f[Some(u)] + V[r] /\ W[u] = g[Some(u)] + W[r]
    BY <1>4, <2>2, <2>3
  <2>5. Cardinality(r) \in Nat
    BY <1>3, <2>4
  <2>6. Cardinality(r) \notin Bad
    <3>1. ~(n <= n - 1)
      BY <2>1
    <3> HIDE DEF Bad
    <3> QED BY <2>1, <2>4, <2>5, <3>1
  <2>7. V[r] \in Int /\ W[r] \in Int
    BY <2>4, <2>5, <2>6
  <2> HIDE DEF r
  <2> QED BY <2>2, <2>4, <2>7
<1>7. \A u \in SUBSET D : V[u] \in Int /\ W[u] \in Int
  BY <1>3, <1>6
<1>8. ASSUME NEW u \in SUBSET D
      PROVE  X[u] = IF u = {} THEN 0 ELSE h[Some(u)] + X[u \ {Some(u)}]
  <2>1. CASE u = {}
    BY <1>5, <2>1
  <2>2. CASE u # {}
    <3> DEFINE r == u \ {Some(u)}
    <3>1. /\ Some(u) \in D /\ r \in SUBSET D
          /\ V[u] = f[Some(u)] + V[r] /\ W[u] = g[Some(u)] + W[r]
      BY <1>4, <2>2
    <3>2. V[r] \in Int /\ W[r] \in Int /\ f[Some(u)] \in Int /\ g[Some(u)] \in Int
      BY <1>7, <3>1
    <3>3. X[u] = V[u] + W[u] /\ X[r] = V[r] + W[r] /\ h[Some(u)] = f[Some(u)] + g[Some(u)]
      BY <3>1
    <3> HIDE DEF X, h, r
    <3>4. X[u] = h[Some(u)] + X[r]
      BY <3>1, <3>2, <3>3
    <3> QED BY <2>2, <3>4 DEF r
  <2> QED BY <2>1, <2>2
<1>9. SumsUp(h, X)
  <2>1. DOMAIN h = D /\ X = [u \in SUBSET D |-> X[u]]
    OBVIOUS
  <2> HIDE DEF X, h
  <2> QED BY <1>8, <2>1 DEF SumsUp
<1>10. /\ Speculator!SumFunction(f) = V[D] /\ Speculator!SumFunction(g) = W[D]
       /\ Speculator!SumFunction(h) = X[D]
  <2>1. DOMAIN f = D /\ DOMAIN g = D /\ DOMAIN h = D
    OBVIOUS
  <2> HIDE DEF X, h
  <2> QED BY <1>1, <1>2, <1>9, <2>1, SumIs
<1>11. X[D] = V[D] + W[D] /\ V[D] \in Int
  BY <1>7
<1> QED
  BY <1>10, <1>11

\* Ones sum up to their number.
LEMMA SumOfOnes ==
  ASSUME NEW D, IsFiniteSet(D), NEW S \in SUBSET D
  PROVE  Speculator!SumFunction([i \in D |-> IF i \in S THEN 1 ELSE 0]) = Cardinality(S)
<1> DEFINE f == [i \in D |-> IF i \in S THEN 1 ELSE 0]
           W == [u \in SUBSET D |-> Cardinality(u \cap S)]
<1>1. ASSUME NEW u \in SUBSET D
      PROVE  W[u] = IF u = {} THEN 0 ELSE f[Some(u)] + W[u \ {Some(u)}]
  <2>1. CASE u = {}
    <3>1. u \cap S = {}
      BY <2>1
    <3> QED BY <2>1, <3>1, FS_EmptySet
  <2>2. CASE u # {}
    <3> DEFINE e == Some(u)
               r == u \ {e}
    <3>1. e \in u /\ e \in D
      BY <2>2 DEF Some
    <3>2. r \in SUBSET D /\ W[r] = Cardinality(r \cap S) /\ W[u] = Cardinality(u \cap S)
      OBVIOUS
    <3>3. IsFiniteSet(u \cap S) /\ Cardinality(u \cap S) \in Nat
      BY FS_Subset, FS_CardinalityType
    <3>4. CASE e \in S
      <4>1. r \cap S = (u \cap S) \ {e} /\ e \in u \cap S
        BY <3>1, <3>4
      <4>2. Cardinality(r \cap S) = Cardinality(u \cap S) - 1
        <5>1. Cardinality((u \cap S) \ {e}) = Cardinality(u \cap S) - 1
          <6> DEFINE both == u \cap S
          <6>1. IsFiniteSet(both) /\ e \in both
            BY <3>3, <4>1
          <6> HIDE DEF both, e
          <6>2. Cardinality(both \ {e}) = Cardinality(both) - 1
            BY <6>1, FS_RemoveElement
          <6> QED BY <6>2 DEF both
        <5> QED BY <4>1, <5>1
      <4>3. f[e] = 1
        BY <3>1, <3>4
      <4> HIDE DEF W, f, r, e
      <4>4. W[u] = f[e] + W[r]
        BY <3>2, <3>3, <4>2, <4>3
      <4> QED BY <2>2, <4>4 DEF e, r
    <3>5. CASE e \notin S
      <4>1. r \cap S = u \cap S
        BY <3>5
      <4>2. f[e] = 0
        BY <3>1, <3>5
      <4>4. W[u] = W[r] /\ W[r] \in Nat
        BY <3>2, <3>3, <4>1
      <4> HIDE DEF W, f, r, e
      <4>3. W[u] = f[e] + W[r]
        BY <4>2, <4>4
      <4> QED BY <2>2, <4>3 DEF e, r
    <3> QED BY <3>4, <3>5
  <2> QED BY <2>1, <2>2
<1>2. SumsUp(f, W)
  <2>1. DOMAIN f = D /\ W = [u \in SUBSET D |-> W[u]]
    OBVIOUS
  <2> HIDE DEF W, f
  <2> QED BY <1>1, <2>1 DEF SumsUp
<1>3. DOMAIN f = D /\ W[D] = Cardinality(S)
  <2>1. D \cap S = S
    OBVIOUS
  <2> QED BY <2>1
<1> HIDE DEF W, f
<1>4. Speculator!SumFunction(f) = Cardinality(S)
  BY <1>2, <1>3, SumIs
<1> QED
  BY <1>4 DEF f

-----------------------------------------------------------------------------
(* The counters of the probe.                                              *)

Counts == {"draft_rounds", "accepted", "drafted", "rejected", "all_accepted", "in_topk",
           "not_in_topk", "walk_miss", "verify_reject", "b1", "b2", "skipped"}

\* The ledger of so many requests.
Ledger(c, n) ==
  /\ DOMAIN c = Counts \cup {"pos_accept", "reject_at"}
  /\ \A k \in Counts : c[k] \in Int
  /\ c.pos_accept \in [1..Steps -> Int] /\ c.reject_at \in [1..Steps -> Int]
  /\ c.draft_rounds = n
  /\ c.draft_rounds = c.rejected + c.all_accepted
  /\ c.drafted = Steps * c.draft_rounds
  /\ c.rejected = c.in_topk + c.not_in_topk + c.skipped
  /\ c.in_topk = c.walk_miss + c.verify_reject
  /\ c.walk_miss = c.b1 + c.b2
  /\ Speculator!SumFunction(c.pos_accept) = c.accepted
  /\ Speculator!SumFunction(c.reject_at) = c.rejected

LedgerInv == wraps = 1 /\ verified \in Int /\ Ledger(cum, verified)

LEMMA ZeroIs ==
  ASSUME EngineAssumption
  PROVE  Ledger(Speculator!Zero, 0)
<1> DEFINE z == [t \in 1..Steps |-> 0]
           ones == [t \in 1..Steps |-> IF t \in {} THEN 1 ELSE 0]
<1>1. Steps \in Nat /\ IsFiniteSet(1..Steps)
  BY FS_Interval DEF EngineAssumption, Speculator!SpeculatorAssumption
<1>2. Speculator!SumFunction(ones) = 0
  BY <1>1, SumOfOnes, FS_EmptySet
<1>3. ones = z
  OBVIOUS
<1>4. z \in [1..Steps -> Int]
  OBVIOUS
<1>5. Speculator!SumFunction(z) = 0
  BY <1>2, <1>3
<1> HIDE DEF z, ones
<1>6. Speculator!Zero =
        [draft_rounds |-> 0, accepted |-> 0, drafted |-> 0, rejected |-> 0,
         all_accepted |-> 0, in_topk |-> 0, not_in_topk |-> 0, walk_miss |-> 0,
         verify_reject |-> 0, b1 |-> 0, b2 |-> 0, skipped |-> 0,
         pos_accept |-> z, reject_at |-> z]
  BY DEF Speculator!Zero, z
<1> QED
  BY <1>1, <1>4, <1>5, <1>6 DEF Ledger, Counts

\* What every verification of a request counts, and what it may count besides.
BaseOf(c, got) ==
  [Speculator!Incr(c, {"draft_rounds"}) EXCEPT
     !.accepted = @ + got, !.drafted = @ + Steps,
     !.pos_accept = [t \in 1..Steps |-> @[t] + IF t <= got THEN 1 ELSE 0],
     !.reject_at = [t \in 1..Steps |-> @[t] + IF t = got + 1 THEN 1 ELSE 0]]

Classes ==
  {{"rejected", "skipped"}, {"rejected", "not_in_topk"},
   {"rejected", "in_topk", "verify_reject"},
   {"rejected", "in_topk", "walk_miss", "b1"}, {"rejected", "in_topk", "walk_miss", "b2"}}

Whole == {"all_accepted"}

LEMMA ObserveIs ==
  ASSUME NEW c, NEW b, NEW r, NEW got, NEW target
  PROVE  LET after == Speculator!Observe(c, b, r, got, target)
         IN /\ got >= Steps => after = Speculator!Incr(BaseOf(c, got), {"all_accepted"})
            /\ ~(got >= Steps) => \E F \in Classes : after = Speculator!Incr(BaseOf(c, got), F)
<1>1. \A pool, unary, walk, t : {"rejected"} \cup Speculator!Stage(pool, unary, walk, t) \in Classes
  BY DEF Speculator!Stage, Classes
<1>2. {"rejected", "skipped"} \in Classes
  BY DEF Classes
<1> QED
  BY <1>1, <1>2 DEF Speculator!Observe, BaseOf

LEMMA BaseIs ==
  ASSUME EngineAssumption, NEW c, NEW n \in Int, Ledger(c, n), NEW got \in 0..Steps
  PROVE  LET base == BaseOf(c, got)
         IN /\ DOMAIN base = DOMAIN c
            /\ \A k \in Counts \ {"draft_rounds", "accepted", "drafted"} : base[k] = c[k]
            /\ base.draft_rounds = c.draft_rounds + 1 /\ base.accepted = c.accepted + got
            /\ base.drafted = c.drafted + Steps
            /\ base.pos_accept = [t \in 1..Steps |-> c.pos_accept[t] + IF t <= got THEN 1 ELSE 0]
            /\ base.reject_at =
                 [t \in 1..Steps |-> c.reject_at[t] + IF t = got + 1 THEN 1 ELSE 0]
<1> DEFINE d == Speculator!Incr(c, {"draft_rounds"})
           base == BaseOf(c, got)
<1>1. /\ DOMAIN d = DOMAIN c
      /\ d.draft_rounds = c.draft_rounds + 1
      /\ \A k \in DOMAIN c : k # "draft_rounds" => d[k] = c[k]
  BY DEF Speculator!Incr, Ledger, Counts
<1>2. DOMAIN c = Counts \cup {"pos_accept", "reject_at"}
  BY DEF Ledger
<1>3. base = [d EXCEPT
     !.accepted = d.accepted + got, !.drafted = d.drafted + Steps,
     !.pos_accept = [t \in 1..Steps |-> d.pos_accept[t] + IF t <= got THEN 1 ELSE 0],
     !.reject_at = [t \in 1..Steps |-> d.reject_at[t] + IF t = got + 1 THEN 1 ELSE 0]]
  BY DEF BaseOf
<1> HIDE DEF d, base
<1>4. /\ d.accepted = c.accepted /\ d.drafted = c.drafted
      /\ d.pos_accept = c.pos_accept /\ d.reject_at = c.reject_at
  BY <1>1, <1>2 DEF Counts
<1>5. DOMAIN base = DOMAIN c
  BY <1>1, <1>3
<1>6. /\ base.accepted = d.accepted + got /\ base.drafted = d.drafted + Steps
      /\ base.draft_rounds = d.draft_rounds
      /\ base.pos_accept = [t \in 1..Steps |-> d.pos_accept[t] + IF t <= got THEN 1 ELSE 0]
      /\ base.reject_at =
           [t \in 1..Steps |-> d.reject_at[t] + IF t = got + 1 THEN 1 ELSE 0]
  BY <1>1, <1>2, <1>3 DEF Counts
<1>7. \A k \in Counts \ {"draft_rounds", "accepted", "drafted"} : base[k] = d[k] /\ d[k] = c[k]
  BY <1>1, <1>2, <1>3 DEF Counts
<1> QED
  BY <1>1, <1>4, <1>5, <1>6, <1>7 DEF base

LEMMA IncrIs ==
  ASSUME NEW c, NEW F
  PROVE  /\ DOMAIN Speculator!Incr(c, F) = DOMAIN c
         /\ \A k \in DOMAIN c : Speculator!Incr(c, F)[k] = IF k \in F THEN c[k] + 1 ELSE c[k]
BY DEF Speculator!Incr

\* One more of each count in F, on what every verification counts.
BaseRight(c, got, base) ==
  /\ DOMAIN base = DOMAIN c
  /\ \A k \in Counts \ {"draft_rounds", "accepted", "drafted"} : base[k] = c[k]
  /\ base.draft_rounds = c.draft_rounds + 1 /\ base.accepted = c.accepted + got
  /\ base.drafted = c.drafted + Steps
  /\ base.pos_accept = [t \in 1..Steps |-> c.pos_accept[t] + IF t <= got THEN 1 ELSE 0]
  /\ base.reject_at = [t \in 1..Steps |-> c.reject_at[t] + IF t = got + 1 THEN 1 ELSE 0]

LEMMA BaseSums ==
  ASSUME EngineAssumption, NEW c, NEW n \in Int, Ledger(c, n), NEW got \in 0..Steps,
         NEW base, BaseRight(c, got, base)
  PROVE  /\ base.pos_accept \in [1..Steps -> Int] /\ base.reject_at \in [1..Steps -> Int]
         /\ Speculator!SumFunction(base.pos_accept) = c.accepted + got
         /\ Speculator!SumFunction(base.reject_at) = c.rejected + IF got >= Steps THEN 0 ELSE 1
<1>1. Steps \in Nat \ {0} /\ got \in Nat /\ got <= Steps
  BY DEF EngineAssumption, Speculator!SpeculatorAssumption
<1>2. IsFiniteSet(1..Steps)
  BY <1>1, FS_Interval
<1> DEFINE D == 1..Steps
           S == {t \in D : t <= got}
           R == {t \in D : t = got + 1}
           Ones(T) == [t \in D |-> IF t \in T THEN 1 ELSE 0]
           f == c.pos_accept
           e == c.reject_at
<1>3. Cardinality(S) = got
  <2>1. S = 1..got
    BY <1>1
  <2>2. Cardinality(1..got) = got
    <3>1. 1 \in Int /\ got \in Int
      BY <1>1
    <3>2. Cardinality(1..got) = IF 1 > got THEN 0 ELSE got - 1 + 1
      BY <3>1, FS_Interval
    <3> QED BY <1>1, <3>2
  <2> QED BY <2>1, <2>2
<1>4. Cardinality(R) = IF got >= Steps THEN 0 ELSE 1
  <2>1. CASE got >= Steps
    <3>1. R = {}
      BY <1>1, <2>1
    <3> QED BY <2>1, <3>1, FS_EmptySet
  <2>2. CASE ~(got >= Steps)
    <3>1. R = {got + 1}
      BY <1>1, <2>2
    <3> HIDE DEF R
    <3>2. Cardinality({got + 1}) = 1
      BY FS_Singleton
    <3> QED BY <2>2, <3>1, <3>2
  <2> QED BY <2>1, <2>2
<1>5. \A T \in SUBSET D : Ones(T) \in [D -> Int] /\ Speculator!SumFunction(Ones(T)) = Cardinality(T)
  <2> SUFFICES ASSUME NEW T \in SUBSET D
               PROVE  Ones(T) \in [D -> Int] /\ Speculator!SumFunction(Ones(T)) = Cardinality(T)
    OBVIOUS
  <2>1. Ones(T) \in [D -> Int]
    OBVIOUS
  <2>2. Speculator!SumFunction([t \in D |-> IF t \in T THEN 1 ELSE 0]) = Cardinality(T)
    <3> HIDE DEF D
    <3> QED BY <1>2, SumOfOnes DEF D
  <2> QED BY <2>1, <2>2
<1>6. S \in SUBSET D /\ R \in SUBSET D
  OBVIOUS
<1>7. f \in [D -> Int] /\ e \in [D -> Int] /\ c.accepted \in Int /\ c.rejected \in Int
  BY DEF Ledger, Counts
<1>8. Speculator!SumFunction(f) = c.accepted /\ Speculator!SumFunction(e) = c.rejected
  BY DEF Ledger
<1>9. base.pos_accept = [t \in D |-> f[t] + Ones(S)[t]]
  <2>1. \A t \in D : Ones(S)[t] = IF t <= got THEN 1 ELSE 0
    OBVIOUS
  <2>2. base.pos_accept = [t \in D |-> f[t] + IF t <= got THEN 1 ELSE 0]
    BY DEF BaseRight
  <2> HIDE DEF Ones, f, S
  <2> QED BY <2>1, <2>2
<1>10. base.reject_at = [t \in D |-> e[t] + Ones(R)[t]]
  <2>1. \A t \in D : Ones(R)[t] = IF t = got + 1 THEN 1 ELSE 0
    OBVIOUS
  <2>2. base.reject_at = [t \in D |-> e[t] + IF t = got + 1 THEN 1 ELSE 0]
    BY DEF BaseRight
  <2> HIDE DEF Ones, e, R
  <2> QED BY <2>1, <2>2
<1>11. ASSUME NEW g \in [D -> Int], NEW h \in [D -> Int]
       PROVE  /\ [t \in D |-> g[t] + h[t]] \in [D -> Int]
              /\ Speculator!SumFunction([t \in D |-> g[t] + h[t]]) =
                   Speculator!SumFunction(g) + Speculator!SumFunction(h)
  <2>1. [t \in D |-> g[t] + h[t]] \in [D -> Int]
    OBVIOUS
  <2>2. IsFiniteSet(D)
    BY <1>2
  <2> HIDE DEF D
  <2>3. Speculator!SumFunction([t \in D |-> g[t] + h[t]]) =
          Speculator!SumFunction(g) + Speculator!SumFunction(h)
    BY <2>2, SumAdds
  <2> QED BY <2>1, <2>3
<1>12. /\ Ones(S) \in [D -> Int] /\ Speculator!SumFunction(Ones(S)) = got
       /\ Ones(R) \in [D -> Int]
       /\ Speculator!SumFunction(Ones(R)) = IF got >= Steps THEN 0 ELSE 1
  <2> HIDE DEF Ones, S, R, D
  <2> QED BY <1>3, <1>4, <1>5, <1>6
<1> HIDE DEF Ones, S, R, D, f, e
<1>13. /\ base.pos_accept \in [D -> Int]
       /\ Speculator!SumFunction(base.pos_accept) = c.accepted + got
  BY <1>7, <1>8, <1>9, <1>11, <1>12
<1>14. /\ base.reject_at \in [D -> Int]
       /\ Speculator!SumFunction(base.reject_at) = c.rejected + IF got >= Steps THEN 0 ELSE 1
  BY <1>7, <1>8, <1>10, <1>11, <1>12
<1> QED
  BY <1>13, <1>14 DEF D

\* The counts of a verification add up on the ledger.
Counted(F, got) ==
  /\ F \in SUBSET Counts
  /\ "accepted" \notin F /\ "drafted" \notin F /\ "draft_rounds" \notin F
  /\ (F \in Classes /\ ~(got >= Steps)) \/ (F = Whole /\ got >= Steps)

LEMMA ClassKeeps ==
  ASSUME EngineAssumption, NEW c, NEW n \in Int, Ledger(c, n), NEW got \in 0..Steps,
         NEW base, BaseRight(c, got, base), NEW F, Counted(F, got),
         NEW after, after = Speculator!Incr(base, F)
  PROVE  Ledger(after, n + 1)
<1>0. /\ F \in SUBSET Counts
      /\ "accepted" \notin F /\ "drafted" \notin F /\ "draft_rounds" \notin F
      /\ (F \in Classes /\ ~(got >= Steps)) \/ (F = Whole /\ got >= Steps)
  BY DEF Counted
<1>1. /\ DOMAIN base = Counts \cup {"pos_accept", "reject_at"}
      /\ \A k \in Counts \ {"draft_rounds", "accepted", "drafted"} : base[k] = c[k]
      /\ base.draft_rounds = c.draft_rounds + 1 /\ base.accepted = c.accepted + got
      /\ base.drafted = c.drafted + Steps
  BY DEF BaseRight, Ledger
<1>2. Steps \in Nat \ {0} /\ got \in Int
  BY DEF EngineAssumption, Speculator!SpeculatorAssumption
<1>3. /\ \A k \in Counts : c[k] \in Int
      /\ c.draft_rounds = n /\ c.draft_rounds = c.rejected + c.all_accepted
      /\ c.drafted = Steps * c.draft_rounds
      /\ c.rejected = c.in_topk + c.not_in_topk + c.skipped
      /\ c.in_topk = c.walk_miss + c.verify_reject /\ c.walk_miss = c.b1 + c.b2
  BY DEF Ledger
<1>4. /\ c.rejected \in Int /\ c.all_accepted \in Int /\ c.in_topk \in Int
      /\ c.not_in_topk \in Int /\ c.skipped \in Int /\ c.walk_miss \in Int
      /\ c.verify_reject \in Int /\ c.b1 \in Int /\ c.b2 \in Int /\ c.draft_rounds \in Int
      /\ c.accepted \in Int /\ c.drafted \in Int
  BY <1>3 DEF Counts
<1>5. Steps * c.draft_rounds + Steps = Steps * (c.draft_rounds + 1)
  BY <1>2, <1>4
<1>6. /\ DOMAIN after = Counts \cup {"pos_accept", "reject_at"}
      /\ \A k \in Counts : after[k] = IF k \in F THEN base[k] + 1 ELSE base[k]
      /\ after.pos_accept = base.pos_accept /\ after.reject_at = base.reject_at
  BY <1>0, <1>1, IncrIs DEF Counts
<1>7. /\ after.draft_rounds = c.draft_rounds + 1 /\ after.accepted = c.accepted + got
      /\ after.drafted = c.drafted + Steps
  BY <1>0, <1>1, <1>6 DEF Counts
<1> DEFINE inc(k) == IF k \in F THEN 1 ELSE 0
<1>8. \A k \in Counts \ {"draft_rounds", "accepted", "drafted"} : after[k] = c[k] + inc(k)
  BY <1>1, <1>3, <1>6
<1>9. \A k \in Counts : after[k] \in Int
  <2>1. \A k : inc(k) \in Int
    OBVIOUS
  <2> HIDE DEF inc
  <2>2. \A k \in Counts \ {"draft_rounds", "accepted", "drafted"} : after[k] \in Int
    BY <1>3, <1>8, <2>1
  <2>3. after.draft_rounds \in Int /\ after.accepted \in Int /\ after.drafted \in Int
    BY <1>2, <1>4, <1>7
  <2> QED BY <2>2, <2>3
<1>10. /\ after.rejected = c.rejected + inc("rejected")
       /\ after.all_accepted = c.all_accepted + inc("all_accepted")
       /\ after.in_topk = c.in_topk + inc("in_topk")
       /\ after.not_in_topk = c.not_in_topk + inc("not_in_topk")
       /\ after.skipped = c.skipped + inc("skipped")
       /\ after.walk_miss = c.walk_miss + inc("walk_miss")
       /\ after.verify_reject = c.verify_reject + inc("verify_reject")
       /\ after.b1 = c.b1 + inc("b1") /\ after.b2 = c.b2 + inc("b2")
  <2> HIDE DEF inc
  <2> QED BY <1>8 DEF Counts
<1>11. /\ inc("rejected") \in {0, 1} /\ inc("all_accepted") \in {0, 1}
       /\ inc("in_topk") \in {0, 1} /\ inc("not_in_topk") \in {0, 1}
       /\ inc("skipped") \in {0, 1} /\ inc("walk_miss") \in {0, 1}
       /\ inc("verify_reject") \in {0, 1} /\ inc("b1") \in {0, 1} /\ inc("b2") \in {0, 1}
  OBVIOUS
<1>12. /\ inc("rejected") + inc("all_accepted") = 1
       /\ inc("rejected") = inc("in_topk") + inc("not_in_topk") + inc("skipped")
       /\ inc("in_topk") = inc("walk_miss") + inc("verify_reject")
       /\ inc("walk_miss") = inc("b1") + inc("b2")
       /\ inc("rejected") = IF got >= Steps THEN 0 ELSE 1
  BY <1>0 DEF Classes, Whole
<1> HIDE DEF inc
<1>13. /\ after.draft_rounds = n + 1
       /\ after.draft_rounds = after.rejected + after.all_accepted
       /\ after.rejected = after.in_topk + after.not_in_topk + after.skipped
       /\ after.in_topk = after.walk_miss + after.verify_reject
       /\ after.walk_miss = after.b1 + after.b2
  BY <1>3, <1>4, <1>7, <1>10, <1>11, <1>12
<1>14. after.drafted = Steps * after.draft_rounds
  BY <1>3, <1>5, <1>7
<1>15. /\ base.pos_accept \in [1..Steps -> Int] /\ base.reject_at \in [1..Steps -> Int]
       /\ Speculator!SumFunction(base.pos_accept) = c.accepted + got
       /\ Speculator!SumFunction(base.reject_at) = c.rejected + IF got >= Steps THEN 0 ELSE 1
  BY BaseSums
<1>16. /\ Speculator!SumFunction(after.pos_accept) = after.accepted
       /\ Speculator!SumFunction(after.reject_at) = after.rejected
  BY <1>6, <1>7, <1>10, <1>12, <1>15
<1> QED
  BY <1>6, <1>9, <1>13, <1>14, <1>15, <1>16 DEF Ledger

LEMMA OnceMore ==
  ASSUME EngineAssumption, NEW c, NEW n \in Int, Ledger(c, n), NEW got \in 0..Steps,
         NEW b, NEW r, NEW target
  PROVE  Ledger(Speculator!Observe(c, b, r, got, target), n + 1)
<1> DEFINE base == BaseOf(c, got)
           after == Speculator!Observe(c, b, r, got, target)
<1>1. BaseRight(c, got, base)
  <2>1. LET z == BaseOf(c, got)
        IN /\ DOMAIN z = DOMAIN c
           /\ \A k \in Counts \ {"draft_rounds", "accepted", "drafted"} : z[k] = c[k]
           /\ z.draft_rounds = c.draft_rounds + 1 /\ z.accepted = c.accepted + got
           /\ z.drafted = c.drafted + Steps
           /\ z.pos_accept = [t \in 1..Steps |-> c.pos_accept[t] + IF t <= got THEN 1 ELSE 0]
           /\ z.reject_at = [t \in 1..Steps |-> c.reject_at[t] + IF t = got + 1 THEN 1 ELSE 0]
    BY BaseIs
  <2> QED BY <2>1 DEF BaseRight
<1>2. /\ got >= Steps => after = Speculator!Incr(base, {"all_accepted"})
      /\ ~(got >= Steps) => \E F \in Classes : after = Speculator!Incr(base, F)
  BY ObserveIs
<1> HIDE DEF base, after
<1>3. CASE got >= Steps
  <2>1. Counted(Whole, got)
    BY <1>3 DEF Counts, Whole, Counted
  <2>2. after = Speculator!Incr(base, Whole)
    BY <1>2, <1>3 DEF Whole
  <2>3. Ledger(after, n + 1)
    BY <1>1, <2>1, <2>2, ClassKeeps
  <2> QED BY <2>3 DEF after
<1>4. CASE ~(got >= Steps)
  <2>1. PICK F \in Classes : after = Speculator!Incr(base, F)
    BY <1>2, <1>4
  <2>2. Counted(F, got)
    <3>1. F \in SUBSET Counts /\ "accepted" \notin F /\ "drafted" \notin F /\ "draft_rounds" \notin F
      BY DEF Classes, Counts
    <3> QED BY <1>4, <3>1 DEF Counted
  <2>3. Ledger(after, n + 1)
    BY <1>1, <2>1, <2>2, ClassKeeps
  <2> QED BY <2>3 DEF after
<1> QED
  BY <1>3, <1>4
-----------------------------------------------------------------------------
(* One verification after another.                                         *)

Obs(b, got, target, d, r) == Speculator!Observe(d, b, r, got[r], target[r])
Counting(n) == [r \in 1..n |-> r]

\* A function that observes, from c, the requests of every set of rows, in their order.
FoldsUp(n, b, got, target, c, f) ==
  f = [s \in SUBSET (DOMAIN Counting(n)) |->
         IF s = {} THEN c
         ELSE Obs(b, got, target, f[s \ {Speculator!Max(s)}], Counting(n)[Speculator!Max(s)])]

Once(b, got, target, c) ==
  Speculator!FoldLeft(LAMBDA d, r : Speculator!Observe(d, b, r, got[r], target[r]), c,
                      [r \in 1..Len(b) |-> r])

LEMMA OnceIs ==
  ASSUME NEW b, NEW got, NEW target, NEW c
  PROVE  Once(b, got, target, c) =
           (CHOOSE f : FoldsUp(Len(b), b, got, target, c, f))[DOMAIN Counting(Len(b))]
BY DEF Once, Speculator!FoldLeft, Speculator!MapThenFoldSet, Obs, FoldsUp, Counting

LEMMA MaxIs ==
  ASSUME NEW n \in Nat, NEW s \in SUBSET (1..n), s # {}
  PROVE  Speculator!Max(s) \in s /\ \A m \in s : Speculator!Max(s) >= m
<1>1. \E k \in s : \A m \in s : k >= m
  <2>1. s \subseteq 0..n
    OBVIOUS
  <2> QED BY <2>1, GreatestUpTo
<1> QED
  BY <1>1 DEF Speculator!Max

\* Built up row by row, there is one.
LEMMA FoldExists ==
  ASSUME NEW b, NEW got, NEW target, NEW c, NEW N \in Nat
  PROVE  \E f : FoldsUp(N, b, got, target, c, f)
<1> DEFINE Bad == {n \in Nat : ~ \E f : FoldsUp(n, b, got, target, c, f)}
<1>1. ASSUME Bad # {} PROVE FALSE
  <2>1. PICK n \in Bad : \A m \in Bad : n <= m
    <3>1. Bad \subseteq Nat
      OBVIOUS
    <3> HIDE DEF Bad
    <3> QED BY <1>1, <3>1, Least
  <2>2. n \in Nat
    OBVIOUS
  <2>3. CASE n = 0
    <3> DEFINE f == [s \in SUBSET (DOMAIN Counting(n)) |-> c]
    <3>1. DOMAIN Counting(n) = {}
      BY <2>3 DEF Counting
    <3>2. \A s \in SUBSET (DOMAIN Counting(n)) : s = {}
      BY <3>1
    <3>3. FoldsUp(n, b, got, target, c, f)
      BY <3>2 DEF FoldsUp
    <3> QED BY <3>3
  <2>4. CASE n # 0
    <3> DEFINE p == n - 1
    <3>1. p \in Nat /\ ~(n <= p)
      BY <2>2, <2>4
    <3>2. PICK g : FoldsUp(p, b, got, target, c, g)
      BY <2>1, <3>1
    <3> DEFINE f == [s \in SUBSET (1..n) |->
                       IF n \in s THEN Obs(b, got, target, g[s \ {n}], n) ELSE g[s]]
    <3>3. DOMAIN Counting(n) = 1..n /\ DOMAIN Counting(p) = 1..p
      BY DEF Counting
    <3>4. /\ \A k \in 1..n : Counting(n)[k] = k
          /\ \A k \in 1..p : Counting(p)[k] = k
      BY DEF Counting
    <3>5. ASSUME NEW s \in SUBSET (1..n)
          PROVE  f[s] = IF s = {} THEN c
                        ELSE Obs(b, got, target, f[s \ {Speculator!Max(s)}],
                                 Counting(n)[Speculator!Max(s)])
      <4>1. CASE s = {}
        <5>1. s \in SUBSET (1..p)
          BY <4>1
        <5>2. g[s] = c
          BY <3>2, <3>3, <4>1, <5>1 DEF FoldsUp
        <5>3. f[s] = g[s]
          BY <4>1
        <5> HIDE DEF f
        <5> QED BY <4>1, <5>2, <5>3
      <4>2. CASE s # {} /\ n \in s
        <5>1. Speculator!Max(s) = n
          <6>1. Speculator!Max(s) \in s /\ \A m \in s : Speculator!Max(s) >= m
            BY <2>2, <4>2, MaxIs
          <6>2. Speculator!Max(s) >= n /\ Speculator!Max(s) \in 1..n
            BY <4>2, <6>1
          <6> QED BY <2>2, <6>2
        <5>2. s \ {n} \in SUBSET (1..n) /\ n \notin s \ {n} /\ n \in 1..n
          BY <2>2, <4>2
        <5>3. f[s \ {n}] = g[s \ {n}] /\ f[s] = Obs(b, got, target, g[s \ {n}], n)
          BY <4>2, <5>2
        <5> HIDE DEF f
        <5> QED BY <3>4, <4>2, <5>1, <5>2, <5>3
      <4>3. CASE s # {} /\ n \notin s
        <5>1. s \in SUBSET (1..p)
          BY <2>2, <4>3
        <5> DEFINE r == s \ {Speculator!Max(s)}
        <5>2. Speculator!Max(s) \in s /\ r \in SUBSET (1..n) /\ n \notin r
          BY <2>2, <4>3, MaxIs
        <5>3. f[s] = g[s] /\ f[r] = g[r]
          BY <4>3, <5>2
        <5>4. Speculator!Max(s) \in 1..p /\ Speculator!Max(s) \in 1..n
          BY <5>1, <5>2
        <5>5. Counting(n)[Speculator!Max(s)] = Counting(p)[Speculator!Max(s)]
          <6> DEFINE k == Speculator!Max(s)
          <6>1. k \in 1..p /\ k \in 1..n
            BY <5>4
          <6> HIDE DEF k
          <6>2. Counting(n)[k] = Counting(p)[k]
            BY <3>4, <6>1
          <6> QED BY <6>2 DEF k
        <5>6. g[s] = Obs(b, got, target, g[r], Counting(p)[Speculator!Max(s)])
          BY <3>2, <3>3, <4>3, <5>1 DEF FoldsUp
        <5> HIDE DEF f
        <5> QED BY <4>3, <5>3, <5>5, <5>6
      <4> QED BY <4>1, <4>2, <4>3
    <3>6. f = [s \in SUBSET (1..n) |-> f[s]]
      OBVIOUS
    <3> HIDE DEF f
    <3>7. FoldsUp(n, b, got, target, c, f)
      BY <3>3, <3>5, <3>6 DEF FoldsUp
    <3> QED BY <3>7
  <2> QED BY <2>3, <2>4
<1> QED
  BY <1>1

\* The requests of a batch, observed one after another, each entered once.
LEMMA OnceKeeps ==
  ASSUME EngineAssumption, NEW c, NEW v \in Int, Ledger(c, v), NEW b, NEW N \in Nat,
         NEW got \in [1..N -> 0..Steps], NEW target, NEW f, FoldsUp(N, b, got, target, c, f)
  PROVE  Ledger(f[1..N], v + N)
<1> DEFINE Bad == {k \in Nat : k <= N /\ ~Ledger(f[1..k], v + k)}
<1>1. ASSUME Bad # {} PROVE FALSE
  <2>1. PICK k \in Bad : \A m \in Bad : k <= m
    <3>1. Bad \subseteq Nat
      OBVIOUS
    <3> HIDE DEF Bad
    <3> QED BY <1>1, <3>1, Least
  <2>2. k \in Nat /\ k <= N /\ ~Ledger(f[1..k], v + k)
    OBVIOUS
  <2>3. DOMAIN Counting(N) = 1..N /\ \A i \in 1..N : Counting(N)[i] = i
    BY DEF Counting
  <2>4. CASE k = 0
    <3>1. 1..k = {} /\ v + k = v
      BY <2>4
    <3>2. f[{}] = c
      BY DEF FoldsUp
    <3> QED BY <2>2, <3>1, <3>2
  <2>5. CASE k # 0
    <3> DEFINE p == k - 1
    <3>1. p \in Nat /\ p <= N /\ ~(k <= p) /\ k \in 1..k /\ k \in 1..N
      BY <2>2, <2>5
    <3>2. Ledger(f[1..p], v + p)
      BY <2>1, <3>1
    <3>3. 1..k \in SUBSET (1..N) /\ 1..k # {} /\ (1..k) \ {k} = 1..p
      <4>1. 1..k \in SUBSET (1..N)
        BY <2>2, <3>1
      <4>2. \A i : i \in (1..k) \ {k} <=> i \in 1..p
        BY <2>2, <3>1
      <4> QED BY <3>1, <4>1, <4>2
    <3>4. Speculator!Max(1..k) = k
      <4>1. Speculator!Max(1..k) \in 1..k /\ \A m \in 1..k : Speculator!Max(1..k) >= m
        BY <3>3, MaxIs
      <4>2. Speculator!Max(1..k) >= k /\ Speculator!Max(1..k) \in 1..k
        BY <3>1, <4>1
      <4> QED BY <2>2, <4>2
    <3>5. f[1..k] = Obs(b, got, target, f[1..p], k)
      <4>1. f[1..k] = Obs(b, got, target, f[(1..k) \ {Speculator!Max(1..k)}],
                          Counting(N)[Speculator!Max(1..k)])
        BY <2>3, <3>3 DEF FoldsUp
      <4>2. f[1..k] = Obs(b, got, target, f[(1..k) \ {k}], Counting(N)[k])
        BY <3>4, <4>1
      <4> QED BY <2>3, <3>1, <3>3, <4>2
    <3>6. got[k] \in 0..Steps /\ v + p \in Int /\ (v + p) + 1 = v + k
      BY <3>1
    <3> HIDE DEF p
    <3>7. Ledger(f[1..k], (v + p) + 1)
      BY <3>2, <3>5, <3>6, OnceMore DEF Obs
    <3> QED BY <2>2, <3>6, <3>7
  <2> QED BY <2>4, <2>5
<1>2. N \notin Bad
  BY <1>1
<1> QED
  BY <1>2

LEMMA BatchKeeps ==
  ASSUME EngineAssumption, NEW c, NEW v \in Int, Ledger(c, v), NEW b, Len(b) \in Nat,
         NEW got \in [1..Len(b) -> 0..Steps], NEW target
  PROVE  Ledger(Once(b, got, target, c), v + Len(b))
<1> DEFINE f == CHOOSE g : FoldsUp(Len(b), b, got, target, c, g)
<1>1. \E g : FoldsUp(Len(b), b, got, target, c, g)
  BY FoldExists
<1>2. FoldsUp(Len(b), b, got, target, c, f)
  <2> HIDE DEF FoldsUp
  <2> QED BY <1>1
<1>3. DOMAIN Counting(Len(b)) = 1..Len(b)
  BY DEF Counting
<1>4. Once(b, got, target, c) = f[1..Len(b)]
  BY <1>3, OnceIs
<1> HIDE DEF f
<1>5. Ledger(f[1..Len(b)], v + Len(b))
  BY <1>2, OnceKeeps
<1> QED
  BY <1>4, <1>5

-----------------------------------------------------------------------------
LEMMA LedgerStarts ==
  ASSUME EngineAssumption, Init
  PROVE  LedgerInv
<1>1. cum = Speculator!Zero /\ wraps = 1 /\ verified = 0
  BY DEF Init, Speculator!Init
<1> QED
  BY <1>1, ZeroIs DEF LedgerInv

\* As often as the sampler's method is wrapped.
Wrapping(n, b, got, target, c) ==
  Speculator!FoldLeft(LAMBDA d, w : Once(b, got, target, d), c, [w \in 1..n |-> w])

LEMMA VerifyIs ==
  ASSUME NEW b, NEW got, NEW target, Speculator!Verify(b, got, target)
  PROVE  /\ wraps' = wraps
         /\ stash = << >> => cum' = cum /\ verified' = verified
         /\ stash # << >> => /\ cum' = Wrapping(wraps, b, got, target, cum)
                             /\ verified' = verified + Len(b)
BY DEF Speculator!Verify, Wrapping, Once, Speculator!FoldLeft, Speculator!MapThenFoldSet

\* One wrapper observes a batch once.
WrapsUp(b, got, target, c, f) ==
  f = [s \in SUBSET (DOMAIN Counting(1)) |->
         IF s = {} THEN c ELSE Once(b, got, target, f[s \ {Speculator!Max(s)}])]

LEMMA WrappingIs ==
  ASSUME NEW b, NEW got, NEW target, NEW c
  PROVE  Wrapping(1, b, got, target, c) =
           (CHOOSE f : WrapsUp(b, got, target, c, f))[DOMAIN Counting(1)]
<1> HIDE DEF Once
<1> QED
  BY DEF Wrapping, WrapsUp, Counting, Speculator!FoldLeft, Speculator!MapThenFoldSet

LEMMA WrappedOnce ==
  ASSUME NEW b, NEW got, NEW target, NEW c
  PROVE  Wrapping(1, b, got, target, c) = Once(b, got, target, c)
<1> DEFINE g == [s \in SUBSET {1} |-> IF s = {} THEN c ELSE Once(b, got, target, c)]
           f == CHOOSE h : WrapsUp(b, got, target, c, h)
<1>1. DOMAIN Counting(1) = {1}
  BY DEF Counting
<1>2. \A s \in SUBSET {1} : s # {} => s = {1} /\ Speculator!Max(s) = 1 /\ s \ {1} = {}
  <2> SUFFICES ASSUME NEW s \in SUBSET {1}, s # {}
               PROVE  s = {1} /\ Speculator!Max(s) = 1 /\ s \ {1} = {}
    OBVIOUS
  <2>1. s = {1}
    OBVIOUS
  <2>3. 1 \in Nat /\ s \in SUBSET (1..1)
    BY <2>1
  <2>2. Speculator!Max(s) \in s
    BY <2>3, MaxIs
  <2> QED BY <2>1, <2>2
<1>3. g[{}] = c /\ \A s \in SUBSET {1} : s # {} => g[s] = Once(b, got, target, c)
  OBVIOUS
<1>4. g = [s \in SUBSET {1} |-> g[s]]
  OBVIOUS
<1> HIDE DEF g
<1>5. \A s \in SUBSET {1} :
        g[s] = IF s = {} THEN c ELSE Once(b, got, target, g[s \ {Speculator!Max(s)}])
  BY <1>2, <1>3
<1>6. WrapsUp(b, got, target, c, g)
  BY <1>1, <1>4, <1>5 DEF WrapsUp
<1>7. WrapsUp(b, got, target, c, f)
  <2> HIDE DEF WrapsUp
  <2> QED BY <1>6
<1>8. Wrapping(1, b, got, target, c) = f[{1}]
  BY <1>1, WrappingIs
<1> HIDE DEF f
<1>9. f[{}] = c /\ f[{1}] = Once(b, got, target, f[{1} \ {Speculator!Max({1})}])
  BY <1>1, <1>7 DEF WrapsUp
<1>10. {1} \ {Speculator!Max({1})} = {}
  BY <1>2
<1> QED
  BY <1>8, <1>9, <1>10

LEMMA LedgerKeeps ==
  ASSUME EngineAssumption, LedgerInv, [Next]_vars
  PROVE  LedgerInv'
<1>1. CASE Speculator!Reinstall
  <2>1. wraps' = 1 /\ cum' = Speculator!Zero /\ verified' = 0
    BY <1>1 DEF Speculator!Reinstall, Speculator!Wrapped, LedgerInv
  <2> QED BY <2>1, ZeroIs DEF LedgerInv
<1>2. ASSUME NEW b \in Speculator!Batches,
             NEW got \in [1..Len(b) -> 0..Steps], NEW target \in [1..Len(b) -> Vocab],
             Speculator!Verify(b, got, target)
      PROVE  LedgerInv'
  <2>1. /\ wraps' = wraps
        /\ stash = << >> => cum' = cum /\ verified' = verified
        /\ stash # << >> => /\ cum' = Wrapping(wraps, b, got, target, cum)
                            /\ verified' = verified + Len(b)
    BY <1>2, VerifyIs
  <2>2. CASE stash = << >>
    BY <2>1, <2>2 DEF LedgerInv
  <2>3. CASE stash # << >>
    <3>1. Len(b) \in Nat
      BY BatchIs
    <3>2. Ledger(Once(b, got, target, cum), verified + Len(b))
      BY <3>1, BatchKeeps DEF LedgerInv
    <3>3. cum' = Once(b, got, target, cum)
      BY <2>1, <2>3, WrappedOnce DEF LedgerInv
    <3> QED BY <2>1, <2>3, <3>1, <3>2, <3>3 DEF LedgerInv
  <2> QED BY <2>2, <2>3
<1>3. CASE UNCHANGED <<cum, wraps, verified>>
  BY <1>3 DEF LedgerInv
<1>4. ASSUME NEW s \in Slots, Speculator!NewRequest(s)
      PROVE  LedgerInv'
  BY <1>3, <1>4 DEF Speculator!NewRequest
<1>5. ASSUME NEW x_ \in [1..Len(batch) -> Proposals],
             NEW valid \in [1..Len(batch) -> BOOLEAN],
             Speculator!Propose(x_, valid)
      PROVE  LedgerInv'
  BY <1>3, <1>5 DEF Speculator!Propose
<1>6. CASE UNCHANGED speculatorVars
  BY <1>3, <1>6 DEF speculatorVars
<1>7. CASE Speculator!Next
  BY <1>1, <1>2, <1>4, <1>5, <1>7 DEF Speculator!Next
<1> QED
  BY <1>6, <1>7 DEF Next, vars

\* However many requests a batch verifies and in whatever order requests come, go
\* and are verified, the probe's counters add up: each verification is one round,
\* each rejection is classified once or skipped, and the per-position counts sum to
\* the totals (_observe_rejection; _install_rejection_probe wraps once).
THEOREM EngineLedgerBalances ==
  ASSUME EngineAssumption
  PROVE  Spec => []LedgerBalanced
<1>1. Init => LedgerInv
  BY LedgerStarts
<1>2. LedgerInv /\ [Next]_vars => LedgerInv'
  BY LedgerKeeps
<1>3. LedgerInv => LedgerBalanced
  BY DEF LedgerInv, Ledger, LedgerBalanced, Speculator!LedgerBalanced
<1> QED
  BY <1>1, <1>2, <1>3, PTL DEF Spec

-----------------------------------------------------------------------------
(* The tensors of the KV cache.                                            *)

\* The groups a model's layers are dealt to.
AttnOf(m) ==
  Cache!Grouped("attn", Cache!Layers(m, "mla") \cup Cache!Layers(m, "idx"), 0)
OnlyOf(kind, m, page) ==
  IF m.layers[kind] = 0 THEN {} ELSE {Cache!Grouped(kind, Cache!Layers(m, kind), page)}
MambaGroup(m, n, g) ==
  Cache!Grouped("mamba", {l \in Cache!Layers(m, "mamba") : (l[2] - 1) % n = g - 1}, m.mlaPage)
MambaOf(m, n) == {MambaGroup(m, n, g) : g \in 1..n}
TailOf(m)  == OnlyOf("tail", m, m.idxPage)
DraftOf(m) == OnlyOf("draft", m, Cache!DraftPage(m))

\* No group of mamba layers is larger than the MLA layers are many.
Dealt(m, n) ==
  /\ n \in 1..m.layers["mamba"] /\ m.layers["idx"] > 0 /\ m.mambaPage <= m.mlaPage
  /\ \A g \in 1..n : Cardinality(MambaGroup(m, n, g).layers) <= m.layers["mla"]

GroupsAre(m, n, gs) ==
  {gs[i] : i \in DOMAIN gs} = {AttnOf(m)} \cup TailOf(m) \cup MambaOf(m, n) \cup DraftOf(m)

\* The drafter lies with the MLA layers, or alone behind the others.
Shared(m) == m.layers["draft"] = 0 \/ Cache!DraftPage(m) = m.mlaPage
Attn(m) == m.layers["mla"] * m.mlaPage + m.layers["idx"] * m.idxPage
PoolBlock(m) == Attn(m) + IF Shared(m) THEN 0 ELSE m.layers["draft"] * Cache!DraftPage(m)

\* Where a layer lies: in which part of the pool and the how manieth there.
Zone(m, l) ==
  IF l[1] \in {"idx", "tail"} THEN "idx"
  ELSE IF l[1] = "draft" /\ ~Shared(m) THEN "own" ELSE "mla"
ZonePage(m, z) == IF z = "mla" THEN m.mlaPage ELSE IF z = "idx" THEN m.idxPage ELSE Cache!DraftPage(m)
ZoneBase(m, z) ==
  IF z = "mla" THEN 0 ELSE IF z = "idx" THEN m.layers["mla"] * m.mlaPage ELSE Attn(m)
GroupOf(m, n, l) == MambaGroup(m, n, ((l[2] - 1) % n) + 1)
Index(m, n, l) ==
  IF l[1] = "mamba" THEN Cardinality({k \in GroupOf(m, n, l).layers : k[2] <= l[2]}) ELSE l[2]
PlaceOf(m, n, nb, l) ==
  Cache!At(l, ZonePage(m, Zone(m, l)),
           ZoneBase(m, Zone(m, l)) * nb + (Index(m, n, l) - 1) * ZonePage(m, Zone(m, l)) * nb)

\* What is recognized: the groups are as they were dealt, and the tails and a drafter
\* that is shared find their places.
LayoutIs(m, n, lay) ==
  /\ lay.mamba = MambaOf(m, n) /\ lay.draft = DraftOf(m) /\ lay.tail = TailOf(m)
  /\ m.layers["tail"] > 0 => m.tailPage <= m.idxPage
  /\ Shared(m) => m.layers["draft"] <= m.layers["mla"]

TensorsAre(m, n, bytes, nb, ts) ==
  /\ bytes \in Nat /\ nb = bytes \div PoolBlock(m)
  /\ ts = {PlaceOf(m, n, nb, l) : l \in Cache!AllLayers(m)}

CacheInv ==
  /\ model \in KvModels
  /\ kvState \in {"ungrouped", "grouped", "recognized", "configured", "other", "refused"}
  /\ kvState \in {"grouped", "recognized", "configured"} =>
       \E n : /\ Dealt(model, n) /\ GroupsAre(model, n, groups)
              /\ kvState \in {"recognized", "configured"} => LayoutIs(model, n, layout)
              /\ kvState = "configured" => TensorsAre(model, n, memory, numBlocks, tensors)

\* The elements of two sequences put together.
Elements(s) == {s[i] : i \in DOMAIN s}

LEMMA ElementsCat ==
  ASSUME NEW s, NEW t, NEW S, s \in Seq(S), t \in Seq(S)
  PROVE  s \o t \in Seq(S) /\ Elements(s \o t) = Elements(s) \cup Elements(t)
<1>1. /\ s \o t \in Seq(S) /\ Len(s) \in Nat /\ Len(t) \in Nat
      /\ Len(s \o t) = Len(s) + Len(t)
      /\ DOMAIN s = 1..Len(s) /\ DOMAIN t = 1..Len(t) /\ DOMAIN (s \o t) = 1..(Len(s) + Len(t))
  OBVIOUS
<1>2. ASSUME NEW i \in 1..Len(s)
      PROVE  i \in 1..(Len(s) + Len(t)) /\ (s \o t)[i] = s[i]
  BY <1>1
<1>3. ASSUME NEW i \in 1..Len(t)
      PROVE  Len(s) + i \in 1..(Len(s) + Len(t)) /\ (s \o t)[Len(s) + i] = t[i]
  BY <1>1
<1>4. ASSUME NEW i \in 1..(Len(s) + Len(t)), i \notin 1..Len(s)
      PROVE  i - Len(s) \in 1..Len(t) /\ (s \o t)[i] = t[i - Len(s)]
  BY <1>1, <1>4
<1> DEFINE st == s \o t
<1> HIDE DEF st
<1>5. \A e \in Elements(st) : e \in Elements(s) \cup Elements(t)
  BY <1>1, <1>2, <1>4 DEF Elements, st
<1>6. \A e \in Elements(s) \cup Elements(t) : e \in Elements(st)
  BY <1>1, <1>2, <1>3 DEF Elements, st
<1> QED
  BY <1>1, <1>5, <1>6 DEF st

LEMMA ModelIs ==
  ASSUME EngineAssumption, NEW m \in KvModels
  PROVE  /\ \A kind \in {"mla", "idx", "tail", "mamba", "draft"} : m.layers[kind] \in Nat
         /\ m.mlaPage \in Nat \ {0} /\ m.idxPage \in Nat \ {0} /\ m.tailPage \in Nat
         /\ m.mambaPage \in Nat /\ m.mlaBlock \in Nat \ {0} /\ m.draftBlock \in Nat \ {0}
         /\ m.draftToken \in Nat \ {0}
         /\ m.layers["mla"] > 0 /\ m.layers["tail"] \in {0, m.layers["idx"]}
<1>1. m \in Cache!ModelType /\ m.layers["mla"] > 0 /\ m.layers["tail"] \in {0, m.layers["idx"]}
  BY DEF EngineAssumption, Cache!KvAssumption
<1> QED
  BY <1>1 DEF Cache!ModelType, Cache!Kinds

LEMMA OnlyIs ==
  ASSUME NEW kind, NEW m, NEW page
  PROVE  /\ Cache!Only(kind, m, page) \in Seq(OnlyOf(kind, m, page))
         /\ Elements(Cache!Only(kind, m, page)) = OnlyOf(kind, m, page)
<1> DEFINE g == Cache!Grouped(kind, Cache!Layers(m, kind), page)
<1>1. CASE m.layers[kind] = 0
  <2>1. Cache!Only(kind, m, page) = << >> /\ OnlyOf(kind, m, page) = {}
    BY <1>1 DEF Cache!Only, OnlyOf
  <2> QED BY <2>1 DEF Elements
<1>2. CASE m.layers[kind] # 0
  <2>1. Cache!Only(kind, m, page) = <<g>> /\ OnlyOf(kind, m, page) = {g}
    BY <1>2 DEF Cache!Only, OnlyOf
  <2> HIDE DEF g
  <2>2. <<g>> \in Seq({g}) /\ Elements(<<g>>) = {g}
    BY DEF Elements
  <2> QED BY <2>1, <2>2
<1> QED
  BY <1>1, <1>2

LEMMA GroupKeeps ==
  ASSUME EngineAssumption, CacheInv, Cache!Group
  PROVE  CacheInv'
<1> DEFINE m == model
<1>1. CASE kvState' \in {"other", "refused"}
  BY <1>1 DEF CacheInv, Cache!Group
<1>2. CASE ~(kvState' \in {"other", "refused"})
  <2>1. /\ ~(model.layers["mamba"] = 0 \/ model.layers["idx"] = 0)
        /\ ~(model.mambaPage > model.mlaPage) /\ kvState' = "grouped" /\ model' = model
        /\ \E n \in 1..model.layers["mamba"] :
            /\ \A g \in 1..n : Cardinality(Cache!MambaGroups(model, n)[g].layers)
                                 <= model.layers["mla"]
            /\ groups' = <<AttnOf(model)>>
                           \o Cache!Only("tail", model, model.idxPage)
                           \o Cache!MambaGroups(model, n)
                           \o Cache!Only("draft", model, Cache!DraftPage(model))
    BY <1>2 DEF Cache!Group, AttnOf, Cache!Cardinality, Cardinality
  <2>2. PICK n \in 1..model.layers["mamba"] :
            /\ \A g \in 1..n : Cardinality(Cache!MambaGroups(model, n)[g].layers)
                                 <= model.layers["mla"]
            /\ groups' = <<AttnOf(model)>>
                           \o Cache!Only("tail", model, model.idxPage)
                           \o Cache!MambaGroups(model, n)
                           \o Cache!Only("draft", model, Cache!DraftPage(model))
    BY <2>1
  <2>3. /\ model \in KvModels /\ model.layers["mamba"] \in Nat /\ model.layers["idx"] \in Nat
        /\ model.mambaPage \in Nat /\ model.mlaPage \in Nat
    BY ModelIs DEF CacheInv
  <2>4. n \in Nat
    BY <2>3
  <2> DEFINE A == <<AttnOf(model)>>
             T == Cache!Only("tail", model, model.idxPage)
             M == Cache!MambaGroups(model, n)
             D == Cache!Only("draft", model, Cache!DraftPage(model))
             S == Elements(A) \cup Elements(T) \cup Elements(M) \cup Elements(D)
  <2>5. /\ \A g \in 1..n : M[g] = MambaGroup(model, n, g)
        /\ M \in Seq(Elements(M)) /\ Elements(M) = MambaOf(model, n)
    <3>1. M = [g \in 1..n |-> MambaGroup(model, n, g)]
      BY DEF Cache!MambaGroups, MambaGroup
    <3> HIDE DEF M
    <3>2. M \in Seq(Elements(M))
      BY <2>4, <3>1 DEF Elements
    <3> QED BY <3>1, <3>2 DEF Elements, MambaOf
  <2>6. Elements(A) = {AttnOf(model)} /\ A \in Seq(Elements(A))
    BY DEF Elements
  <2>7. Elements(T) = TailOf(model) /\ T \in Seq(Elements(T))
    BY OnlyIs DEF TailOf
  <2>8. Elements(D) = DraftOf(model) /\ D \in Seq(Elements(D))
    BY OnlyIs DEF DraftOf
  <2>9. groups' = A \o T \o M \o D
    BY <2>2
  <2> HIDE DEF A, T, M, D
  <2>10. A \in Seq(S) /\ T \in Seq(S) /\ M \in Seq(S) /\ D \in Seq(S)
    <3>1. \A U : U \subseteq S => Seq(U) \subseteq Seq(S)
      OBVIOUS
    <3> QED BY <2>5, <2>6, <2>7, <2>8, <3>1
  <2> HIDE DEF S
  <2>11. A \o T \in Seq(S) /\ Elements(A \o T) = Elements(A) \cup Elements(T)
    BY <2>10, ElementsCat
  <2>12. A \o T \o M \in Seq(S) /\ Elements(A \o T \o M) = Elements(A) \cup Elements(T) \cup Elements(M)
    BY <2>10, <2>11, ElementsCat
  <2>13. Elements(groups') = {AttnOf(model)} \cup TailOf(model) \cup MambaOf(model, n) \cup DraftOf(model)
    <3> DEFINE Front == A \o T \o M
    <3>1. Front \in Seq(S) /\ Elements(Front) = Elements(A) \cup Elements(T) \cup Elements(M)
      BY <2>12
    <3>2. groups' = Front \o D
      BY <2>9
    <3> HIDE DEF Front
    <3>3. Elements(Front \o D) = Elements(Front) \cup Elements(D)
      BY <2>10, <3>1, ElementsCat
    <3> QED BY <2>5, <2>6, <2>7, <2>8, <3>1, <3>2, <3>3
  <2>14. GroupsAre(model', n, groups')
    BY <2>1, <2>13 DEF GroupsAre, Elements
  <2>15. Dealt(model', n)
    <3>1. \A g \in 1..n : Cardinality(MambaGroup(model, n, g).layers) <= model.layers["mla"]
      BY <2>2, <2>5 DEF M
    <3>2. model.layers["idx"] > 0 /\ model.mambaPage <= model.mlaPage
      BY <2>1, <2>3
    <3>3. Dealt(model, n)
      BY <3>1, <3>2 DEF Dealt
    <3> QED BY <2>1, <3>3
  <2> QED BY <2>1, <2>3, <2>14, <2>15 DEF CacheInv
<1> QED
  BY <1>1, <1>2

\* What is among the groups of a kind.
LEMMA OfIs ==
  ASSUME NEW m, NEW n, GroupsAre(m, n, groups)
  PROVE  /\ Cache!Of("mamba") = MambaOf(m, n) /\ Cache!Of("draft") = DraftOf(m)
         /\ Cache!Of("tail") = TailOf(m)
<1> DEFINE all == {groups[i] : i \in DOMAIN groups}
<1>1. all = {AttnOf(m)} \cup TailOf(m) \cup MambaOf(m, n) \cup DraftOf(m)
  BY DEF GroupsAre
<1>2. \A kind : Cache!Of(kind) = {g \in all : g.kind = kind}
  BY DEF Cache!Of
<1> HIDE DEF all
<1>3. AttnOf(m).kind = "attn"
  BY DEF AttnOf, Cache!Grouped
<1>4. \A g \in TailOf(m) : g.kind = "tail"
  BY DEF TailOf, OnlyOf, Cache!Grouped
<1>5. \A g \in DraftOf(m) : g.kind = "draft"
  BY DEF DraftOf, OnlyOf, Cache!Grouped
<1>6. \A g \in MambaOf(m, n) : g.kind = "mamba"
  BY DEF MambaOf, MambaGroup, Cache!Grouped
<1>7. Cache!Of("mamba") = MambaOf(m, n)
  BY <1>1, <1>2, <1>3, <1>4, <1>5, <1>6
<1>8. Cache!Of("draft") = DraftOf(m)
  BY <1>1, <1>2, <1>3, <1>4, <1>5, <1>6
<1>9. Cache!Of("tail") = TailOf(m)
  BY <1>1, <1>2, <1>3, <1>4, <1>5, <1>6
<1> QED
  BY <1>7, <1>8, <1>9

\* The sum of one number, and of none.
LEMMA SumOfOne ==
  ASSUME NEW g, NEW v \in Int
  PROVE  Cache!SumFunction([e \in {g} |-> v]) = v
<1> DEFINE f == [e \in {g} |-> v]
           W == [u \in SUBSET {g} |-> IF u = {} THEN 0 ELSE v]
<1>1. Cache!SumFunction(f) = Speculator!SumFunction(f)
  BY DEF Speculator!SumFunction, Speculator!SumFunctionOnSet, Speculator!FoldFunctionOnSet,
         Speculator!MapThenFoldSet,
         Cache!SumFunction, Cache!SumFunctionOnSet, Cache!FoldFunctionOnSet,
         Cache!MapThenFoldSet
<1>2. IsFiniteSet({g}) /\ DOMAIN f = {g}
  BY FS_Singleton
<1>3. \A u \in SUBSET {g} : W[u] = IF u = {} THEN 0 ELSE f[Some(u)] + W[u \ {Some(u)}]
  <2> SUFFICES ASSUME NEW u \in SUBSET {g}, u # {}
               PROVE  W[u] = f[Some(u)] + W[u \ {Some(u)}]
    OBVIOUS
  <2>1. Some(u) = g /\ u \ {g} = {}
    BY DEF Some
  <2>2. f[g] = v /\ W[{}] = 0 /\ W[u] = v
    OBVIOUS
  <2> HIDE DEF f, W
  <2> QED BY <2>1, <2>2
<1>4. W = [u \in SUBSET {g} |-> W[u]] /\ W[{g}] = v
  OBVIOUS
<1> HIDE DEF f, W
<1>5. SumsUp(f, W)
  BY <1>2, <1>3, <1>4 DEF SumsUp
<1>6. Speculator!SumFunction(f) = v
  BY <1>2, <1>4, <1>5, SumIs
<1> QED
  BY <1>1, <1>6 DEF f

\* Layers of a kind are as many as their numbers.
UpTo(kind, c, j) == {k \in {<<kind, i>> : i \in 1..c} : k[2] <= j}

LEMMA LayersUpTo ==
  ASSUME NEW kind, NEW c \in Nat, NEW j \in 0..c
  PROVE  IsFiniteSet(UpTo(kind, c, j)) /\ Cardinality(UpTo(kind, c, j)) = j
<1> DEFINE S == UpTo(kind, c, j)
           f == [i \in 1..j |-> <<kind, i>>]
<1>1. f \in Bijection(1..j, S)
  <2>1. \A i \in 1..j : f[i] \in S
    BY DEF UpTo
  <2>2. \A a, b \in 1..j : f[a] = f[b] => a = b
    OBVIOUS
  <2>3. \A k \in S : \E i \in 1..j : f[i] = k
    BY DEF UpTo
  <2>4. f \in [1..j -> S]
    BY <2>1
  <2> HIDE DEF f, S
  <2> QED BY <2>2, <2>3, <2>4 DEF Bijection, Injection, Surjection, IsInjective
<1> HIDE DEF S, f
<1>2. ExistsBijection(1..j, S)
  BY <1>1 DEF ExistsBijection
<1>3. j \in Nat
  OBVIOUS
<1>4. Cardinality(S) = j /\ IsFiniteSet(S)
  BY <1>2, <1>3, FS_CountingElements, FS_NatBijection
<1> QED
  BY <1>4 DEF S

LEMMA LayersAre ==
  ASSUME NEW m, NEW kind, m.layers[kind] \in Nat
  PROVE  /\ IsFiniteSet(Cache!Layers(m, kind))
         /\ Cardinality(Cache!Layers(m, kind)) = m.layers[kind]
<1>1. UpTo(kind, m.layers[kind], m.layers[kind]) = Cache!Layers(m, kind)
  BY DEF Cache!Layers, UpTo
<1>2. m.layers[kind] \in 0..m.layers[kind]
  OBVIOUS
<1> QED
  BY <1>1, <1>2, LayersUpTo

LEMMA DraftPageIs ==
  ASSUME EngineAssumption, NEW m \in KvModels
  PROVE  Cache!DraftPage(m) \in Nat
<1>1. /\ m.mlaPage \in Nat /\ m.draftToken \in Nat \ {0} /\ m.draftBlock \in Nat
  BY ModelIs
<1>2. Cache!FitBlock(m) \in Nat
  <2>1. m.mlaPage \div m.draftToken \in Nat
    BY <1>1
  <2> QED BY <2>1 DEF Cache!FitBlock
<1> QED
  BY <1>1, <1>2, ProductIsNat DEF Cache!DraftPage

LEMMA RecognizeKeeps ==
  ASSUME EngineAssumption, CacheInv, Cache!Recognize
  PROVE  CacheInv'
<1>1. /\ kvState = "grouped" /\ model' = model /\ groups' = groups
      /\ kvState' \in {"other", "recognized"}
  BY DEF Cache!Recognize
<1>2. CASE kvState' = "other"
  BY <1>1, <1>2 DEF CacheInv
<1>3. CASE kvState' = "recognized"
  <2> DEFINE m == model
  <2>1. PICK n : Dealt(model, n) /\ GroupsAre(model, n, groups)
    BY <1>1 DEF CacheInv
  <2>2. /\ Cache!Of("mamba") = MambaOf(m, n) /\ Cache!Of("draft") = DraftOf(m)
        /\ Cache!Of("tail") = TailOf(m)
    BY <2>1, OfIs
  <2>3. /\ Cache!Recognized
        /\ layout' = [pages |-> "shared", mamba |-> Cache!Of("mamba"),
                      draft |-> Cache!Of("draft"), tail |-> Cache!Of("tail")]
    BY <1>3 DEF Cache!Recognize
  <2>4. m \in KvModels
    BY DEF CacheInv
  <2>5. ASSUME m.layers["tail"] > 0
        PROVE  m.tailPage <= m.idxPage
    <3>1. TailOf(m) # {}
      BY <2>5 DEF TailOf, OnlyOf
    <3> QED BY <2>2, <2>3, <3>1 DEF Cache!Recognized
  <2>6. ASSUME Shared(m)
        PROVE  m.layers["draft"] <= m.layers["mla"]
    <3>1. m.layers["draft"] \in Nat /\ m.layers["mla"] \in Nat
      BY <2>4, ModelIs
    <3>2. CASE m.layers["draft"] = 0
      BY <3>1, <3>2
    <3>3. CASE m.layers["draft"] # 0
      <4> DEFINE g == Cache!Grouped("draft", Cache!Layers(m, "draft"), Cache!DraftPage(m))
      <4>1. Cache!Of("draft") = {g}
        BY <2>2, <3>3 DEF DraftOf, OnlyOf
      <4>2. g.page = m.mlaPage /\ g.layers = Cache!Layers(m, "draft")
        BY <2>6, <3>3 DEF Shared, Cache!Grouped
      <4> HIDE DEF g
      <4>3. Cache!Count("draft") <= m.layers["mla"]
        BY <2>3, <4>1, <4>2 DEF Cache!Recognized
      <4>4. Cardinality(g.layers) = m.layers["draft"]
        BY <3>1, <4>2, LayersAre
      <4>5. Cache!Count("draft") = Cache!SumFunction([e \in {g} |-> Cardinality(e.layers)])
        BY <4>1 DEF Cache!Count, Cache!Cardinality, Cardinality
      <4>6. PICK v : v = m.layers["draft"]
        OBVIOUS
      <4>7. [e \in {g} |-> Cardinality(e.layers)] = [e \in {g} |-> v]
        BY <4>4, <4>6
      <4>8. v \in Int /\ Cache!SumFunction([e \in {g} |-> v]) = v
        <5>1. v \in Int
          BY <3>1, <4>6
        <5> QED BY <5>1, SumOfOne
      <4>9. Cache!Count("draft") = m.layers["draft"]
        BY <4>5, <4>6, <4>7, <4>8
      <4> QED BY <4>3, <4>9
    <3> QED BY <3>2, <3>3
  <2>7. LayoutIs(m, n, layout')
    BY <2>2, <2>3, <2>5, <2>6 DEF LayoutIs
  <2> QED BY <1>1, <1>3, <2>1, <2>4, <2>7 DEF CacheInv
<1> QED
  BY <1>1, <1>2, <1>3

\* The bytes of a block, as the layout that is recognized counts them.
LEMMA PerBlockIs ==
  ASSUME EngineAssumption, model \in KvModels, NEW n, LayoutIs(model, n, layout)
  PROVE  /\ Cache!DraftShared <=> Shared(model)
         /\ Cache!AttnBytes = Attn(model) /\ Cache!PerBlock = PoolBlock(model)
         /\ Cache!DraftBytes = PoolBlock(model) - Attn(model)
         /\ Attn(model) \in Nat \ {0} /\ PoolBlock(model) \in Nat \ {0}
<1> DEFINE m == model
           g == Cache!Grouped("draft", Cache!Layers(m, "draft"), Cache!DraftPage(m))
<1>1. layout.draft = IF m.layers["draft"] = 0 THEN {} ELSE {g}
  BY DEF LayoutIs, DraftOf, OnlyOf
<1>2. g.page = Cache!DraftPage(m) /\ g.layers = Cache!Layers(m, "draft")
  BY DEF Cache!Grouped
<1>3. /\ m.layers["mla"] \in Nat \ {0} /\ m.mlaPage \in Nat \ {0} /\ m.layers["idx"] \in Nat
      /\ m.idxPage \in Nat /\ m.layers["draft"] \in Nat /\ Cache!DraftPage(m) \in Nat
  BY ModelIs, DraftPageIs
<1>4. Cardinality(g.layers) = m.layers["draft"]
  BY <1>2, <1>3, LayersAre
<1> HIDE DEF g
<1>5. Cache!DraftShared <=> Shared(m)
  BY <1>1, <1>2 DEF Cache!DraftShared, Shared
<1>6. Cache!AttnBytes = Attn(m)
  BY DEF Cache!AttnBytes, Attn
<1>7. Attn(m) \in Nat \ {0}
  <2>1. \A a, b \in Nat \ {0} : a * b \in Nat \ {0}
    OBVIOUS
  <2>2. m.layers["mla"] * m.mlaPage \in Nat \ {0} /\ m.layers["idx"] * m.idxPage \in Nat
    BY <1>3, <2>1, ProductIsNat
  <2> QED BY <2>2 DEF Attn
<1>8. Cache!DraftBytes = IF Shared(m) THEN 0 ELSE m.layers["draft"] * Cache!DraftPage(m)
  <2>1. CASE Shared(m)
    BY <1>5, <2>1 DEF Cache!DraftBytes
  <2>2. CASE ~Shared(m)
    <3>1. layout.draft = {g}
      BY <1>1, <2>2 DEF Shared
    <3>2. PICK v : v = m.layers["draft"] * Cache!DraftPage(m)
      OBVIOUS
    <3>3. v \in Int
      BY <1>3, <3>2, ProductIsNat
    <3>4. [e \in {g} |-> Cardinality(e.layers) * e.page] = [e \in {g} |-> v]
      BY <1>2, <1>4, <3>2
    <3>5. Cache!SumFunction([e \in {g} |-> v]) = v
      BY <3>3, SumOfOne
    <3>6. Cache!DraftBytes = Cache!SumFunction([e \in {g} |-> Cardinality(e.layers) * e.page])
      BY <1>5, <2>2, <3>1 DEF Cache!DraftBytes, Cache!Cardinality, Cardinality
    <3> QED BY <2>2, <3>2, <3>4, <3>5, <3>6
  <2> QED BY <2>1, <2>2
<1>9. m.layers["draft"] * Cache!DraftPage(m) \in Nat
  BY <1>3, ProductIsNat
<1> QED
  BY <1>5, <1>6, <1>7, <1>8, <1>9 DEF Cache!PerBlock, PoolBlock

\* The n groups of mamba layers, and the place of a layer among those of its group.
LEMMA GroupIs ==
  ASSUME EngineAssumption, NEW m \in KvModels, NEW n, Dealt(m, n),
         NEW l \in Cache!Layers(m, "mamba")
  PROVE  /\ ((l[2] - 1) % n) + 1 \in 1..n
         /\ \A g \in 1..n : l \in MambaGroup(m, n, g).layers <=> g = ((l[2] - 1) % n) + 1
<1>1. m.layers["mamba"] \in Nat
  BY ModelIs
<1>2. n \in Nat \ {0} /\ l[2] \in 1..m.layers["mamba"] /\ l[1] = "mamba"
  BY <1>1 DEF Dealt, Cache!Layers
<1>3. (l[2] - 1) % n \in 0..(n - 1)
  <2>1. l[2] - 1 \in Int
    BY <1>2
  <2> QED BY <1>2, <2>1
<1>4. \A g : l \in MambaGroup(m, n, g).layers <=> (l[2] - 1) % n = g - 1
  BY DEF MambaGroup, Cache!Grouped
<1> QED
  BY <1>2, <1>3, <1>4

LEMMA RankInGroup ==
  ASSUME EngineAssumption, NEW m \in KvModels, NEW n, Dealt(m, n), NEW g \in 1..n
  PROVE  LET S == MambaGroup(m, n, g).layers
             Up(l) == {k \in S : k[2] <= l[2]}
         IN /\ \A l \in S : Cardinality(Up(l)) \in 1..m.layers["mla"]
            /\ \A k, l \in S : Cardinality(Up(k)) = Cardinality(Up(l)) => k = l
<1> DEFINE S == MambaGroup(m, n, g).layers
           Up(l) == {k \in S : k[2] <= l[2]}
<1>1. m.layers["mamba"] \in Nat /\ m.layers["mla"] \in Nat
  BY ModelIs
<1>2. S \subseteq Cache!Layers(m, "mamba")
  BY DEF MambaGroup, Cache!Grouped
<1>3. IsFiniteSet(S) /\ Cardinality(S) <= m.layers["mla"] /\ Cardinality(S) \in Nat
  <2>1. IsFiniteSet(Cache!Layers(m, "mamba"))
    BY <1>1, LayersAre
  <2>2. IsFiniteSet(S)
    BY <1>2, <2>1, FS_Subset
  <2>3. Cardinality(S) <= m.layers["mla"]
    BY DEF Dealt
  <2> QED BY <2>2, <2>3, FS_CardinalityType
<1>4. \A l \in S : l[2] \in Nat /\ l = <<"mamba", l[2]>>
  BY <1>1, <1>2 DEF Cache!Layers
<1> HIDE DEF S
<1>5. ASSUME NEW l \in S
      PROVE  /\ IsFiniteSet(Up(l)) /\ Cardinality(Up(l)) \in Nat
             /\ Cardinality(Up(l)) <= Cardinality(S) /\ Cardinality(Up(l)) # 0
  <2>1. Up(l) \in SUBSET S /\ l \in Up(l)
    BY <1>4
  <2> HIDE DEF Up
  <2>2. IsFiniteSet(Up(l)) /\ Cardinality(Up(l)) <= Cardinality(S)
    BY <1>3, <2>1, FS_Subset
  <2> QED BY <2>1, <2>2, FS_CardinalityType, FS_EmptySet
<1>6. ASSUME NEW k \in S, NEW l \in S, Cardinality(Up(k)) = Cardinality(Up(l)), k[2] <= l[2]
      PROVE  k = l
  <2>1. Up(k) \in SUBSET Up(l)
    BY <1>4, <1>6
  <2>2. l \in Up(l)
    BY <1>4
  <2>3. Up(k) = Up(l)
    <3> HIDE DEF Up
    <3> QED BY <1>5, <1>6, <2>1, FS_Subset
  <2>4. l[2] <= k[2]
    BY <2>2, <2>3
  <2> QED BY <1>4, <1>6, <2>4
<1>7. \A l \in S : Cardinality(Up(l)) \in 1..m.layers["mla"]
  BY <1>1, <1>3, <1>5
<1>8. \A k, l \in S : Cardinality(Up(k)) = Cardinality(Up(l)) => k = l
  <2> SUFFICES ASSUME NEW k \in S, NEW l \in S, Cardinality(Up(k)) = Cardinality(Up(l))
               PROVE  k = l
    OBVIOUS
  <2>1. k[2] <= l[2] \/ l[2] <= k[2]
    BY <1>4
  <2> HIDE DEF Up
  <2> QED BY <1>6, <2>1
<1> QED
  BY <1>7, <1>8 DEF S

\* The i-th layer of a group that has all layers of its kind is the one numbered i.
LEMMA NthIs ==
  ASSUME NEW m, NEW kind, m.layers[kind] \in Nat, NEW g, g.layers = Cache!Layers(m, kind),
         NEW i, NEW l
  PROVE  l \in Cache!Nth(g, i) <=> i \in 1..m.layers[kind] /\ l = <<kind, i>>
<1> DEFINE c == m.layers[kind]
           S == Cache!Layers(m, kind)
           Up(j) == {k \in S : k[2] <= j}
<1>1. S = {<<kind, j>> : j \in 1..c}
  BY DEF Cache!Layers
<1>2. \A j \in 0..c : Cardinality(Up(j)) = j
  <2> SUFFICES ASSUME NEW j \in 0..c PROVE Cardinality(Up(j)) = j
    OBVIOUS
  <2>1. Up(j) = UpTo(kind, c, j)
    BY <1>1 DEF UpTo
  <2>2. c \in Nat /\ j \in 0..c
    OBVIOUS
  <2> HIDE DEF c, Up
  <2> QED BY <2>1, <2>2, LayersUpTo
<1>3. Cache!Nth(g, i) = {e \in S : Cardinality(Up(e[2])) = i}
  BY DEF Cache!Nth, Cache!Cardinality, Cardinality
<1> HIDE DEF Up, S
<1>4. \A e \in S : e[2] \in 1..c /\ e[2] \in 0..c /\ e = <<kind, e[2]>>
  BY <1>1
<1>5. \A j \in 1..c : j \in 0..c /\ <<kind, j>> \in S /\ <<kind, j>>[2] = j
  BY <1>1
<1>6. ASSUME l \in Cache!Nth(g, i)
      PROVE  i \in 1..c /\ l = <<kind, i>>
  BY <1>2, <1>3, <1>4, <1>6
<1>7. ASSUME i \in 1..c, l = <<kind, i>>
      PROVE  l \in Cache!Nth(g, i)
  BY <1>2, <1>3, <1>5, <1>7
<1> QED
  BY <1>6, <1>7

\* What a zone starts with and its pages, spelled out per kind of layer.
InMla(m, l) == l[1] \in {"mla", "mamba"} \/ (l[1] = "draft" /\ Shared(m))

LEMMA PlaceInMla ==
  ASSUME EngineAssumption, NEW m \in KvModels, NEW n, NEW nb \in Nat, NEW l,
         InMla(m, l), Index(m, n, l) \in Int
  PROVE  PlaceOf(m, n, nb, l) = Cache!At(l, m.mlaPage, (Index(m, n, l) - 1) * m.mlaPage * nb)
<1> DEFINE P == m.mlaPage
           i == Index(m, n, l)
<1>1. Zone(m, l) = "mla"
  BY DEF Zone, InMla
<1>2. PlaceOf(m, n, nb, l) = Cache!At(l, P, 0 * nb + (i - 1) * P * nb)
  BY <1>1 DEF PlaceOf, ZonePage, ZoneBase
<1>3. P \in Int /\ nb \in Int
  BY ModelIs
<1> HIDE DEF i, P
<1>4. 0 * nb + (i - 1) * P * nb = (i - 1) * P * nb
  <2>1. i \in Int
    BY DEF i
  <2>2. (i - 1) * P * nb \in Int /\ 0 * nb = 0
    BY <1>3, <2>1
  <2> QED BY <2>2
<1> QED
  BY <1>2, <1>4 DEF i, P

LEMMA PlaceElse ==
  ASSUME NEW m, NEW n, NEW nb, NEW l
  PROVE  /\ l[1] \in {"idx", "tail"} =>
              PlaceOf(m, n, nb, l) =
                Cache!At(l, m.idxPage, m.layers["mla"] * m.mlaPage * nb
                                         + (Index(m, n, l) - 1) * m.idxPage * nb)
         /\ (l[1] = "draft" /\ ~Shared(m)) =>
              PlaceOf(m, n, nb, l) =
                Cache!At(l, Cache!DraftPage(m),
                         Attn(m) * nb + (Index(m, n, l) - 1) * Cache!DraftPage(m) * nb)
<1>1. ASSUME l[1] \in {"idx", "tail"}
      PROVE  Zone(m, l) = "idx"
  BY <1>1 DEF Zone
<1>2. ASSUME l[1] = "draft", ~Shared(m)
      PROVE  Zone(m, l) = "own"
  BY <1>2 DEF Zone
<1> QED
  BY <1>1, <1>2 DEF PlaceOf, ZonePage, ZoneBase

LEMMA TensorsIs ==
  ASSUME EngineAssumption, model \in KvModels, NEW n, Dealt(model, n),
         LayoutIs(model, n, layout), NEW nb \in Nat
  PROVE  (UNION {Cache!MlaSlot(i, nb) : i \in 1..model.layers["mla"]})
           \cup (UNION {Cache!IdxSlot(i, nb) : i \in 1..model.layers["idx"]})
           \cup Cache!DraftSlots(nb)
         = {PlaceOf(model, n, nb, l) : l \in Cache!AllLayers(model)}
<1> DEFINE m == model
           P == m.mlaPage
           Q == m.idxPage
           X == Cache!DraftPage(m)
           M == m.layers["mla"]
           Off(i) == (i - 1) * P * nb
           IdxOff(i) == M * P * nb + (i - 1) * Q * nb
           OwnOff(i) == Attn(m) * nb + (i - 1) * X * nb
           Tg == Cache!Grouped("tail", Cache!Layers(m, "tail"), Q)
           Dg == Cache!Grouped("draft", Cache!Layers(m, "draft"), X)
           Y == {PlaceOf(m, n, nb, l) : l \in Cache!AllLayers(m)}
           L(kind) == Cache!Layers(m, kind)
<1>1. /\ M \in Nat /\ m.layers["idx"] \in Nat /\ m.layers["tail"] \in Nat
      /\ m.layers["mamba"] \in Nat /\ m.layers["draft"] \in Nat
      /\ m.layers["tail"] \in {0, m.layers["idx"]}
  BY ModelIs
<1>2. /\ layout.mamba = MambaOf(m, n)
      /\ layout.draft = IF m.layers["draft"] = 0 THEN {} ELSE {Dg}
      /\ layout.tail = IF m.layers["tail"] = 0 THEN {} ELSE {Tg}
      /\ Shared(m) => m.layers["draft"] <= M
      /\ (Cache!DraftShared <=> Shared(m)) /\ Cache!AttnBytes = Attn(m)
  BY PerBlockIs DEF LayoutIs, DraftOf, TailOf, OnlyOf
<1>3. \A l : l \in Cache!AllLayers(m) <=>
        l \in L("mla") \/ l \in L("idx") \/ l \in L("tail") \/ l \in L("mamba") \/ l \in L("draft")
  BY DEF Cache!AllLayers, Cache!Kinds
\* Where each layer lies.
<1>4. ASSUME NEW i \in 1..M
      PROVE  PlaceOf(m, n, nb, <<"mla", i>>) = Cache!At(<<"mla", i>>, P, Off(i))
  <2> DEFINE l == <<"mla", i>>
  <2>1. InMla(m, l) /\ Index(m, n, l) = i /\ i \in Int
    BY <1>1 DEF Index, InMla
  <2> HIDE DEF l
  <2>2. PlaceOf(m, n, nb, l) = Cache!At(l, P, Off(i))
    BY <2>1, PlaceInMla
  <2> QED BY <2>2 DEF l
<1>5. ASSUME NEW kind \in {"idx", "tail"}, NEW i \in 1..m.layers[kind]
      PROVE  PlaceOf(m, n, nb, <<kind, i>>) = Cache!At(<<kind, i>>, Q, IdxOff(i))
  <2> DEFINE l == <<kind, i>>
  <2>1. l[1] \in {"idx", "tail"} /\ Index(m, n, l) = i
    BY DEF Index
  <2> HIDE DEF l
  <2>2. PlaceOf(m, n, nb, l) = Cache!At(l, Q, IdxOff(i))
    BY <2>1, PlaceElse
  <2> QED BY <2>2 DEF l
<1>6. ASSUME NEW i \in 1..m.layers["draft"]
      PROVE  /\ Shared(m) => PlaceOf(m, n, nb, <<"draft", i>>) = Cache!At(<<"draft", i>>, P, Off(i))
             /\ ~Shared(m) => PlaceOf(m, n, nb, <<"draft", i>>) = Cache!At(<<"draft", i>>, X, OwnOff(i))
  <2> DEFINE l == <<"draft", i>>
  <2>1. l[1] = "draft" /\ Index(m, n, l) = i /\ i \in Int
    BY <1>1 DEF Index
  <2> HIDE DEF l
  <2>2. /\ Shared(m) => PlaceOf(m, n, nb, l) = Cache!At(l, P, Off(i))
        /\ ~Shared(m) => PlaceOf(m, n, nb, l) = Cache!At(l, X, OwnOff(i))
    BY <2>1, PlaceInMla, PlaceElse DEF InMla
  <2> QED BY <2>2 DEF l
<1>7. ASSUME NEW l \in L("mamba")
      PROVE  /\ GroupOf(m, n, l) \in MambaOf(m, n) /\ Index(m, n, l) \in 1..M
             /\ l \in Cache!Nth(GroupOf(m, n, l), Index(m, n, l))
             /\ PlaceOf(m, n, nb, l) = Cache!At(l, P, Off(Index(m, n, l)))
  <2> DEFINE q == ((l[2] - 1) % n) + 1
  <2>1. q \in 1..n /\ l \in MambaGroup(m, n, q).layers /\ l[1] = "mamba"
    <3>1. l[1] = "mamba"
      BY DEF Cache!Layers
    <3> QED BY <3>1, GroupIs
  <2>2. GroupOf(m, n, l) = MambaGroup(m, n, q)
    BY DEF GroupOf
  <2> HIDE DEF q
  <2>3. Index(m, n, l) = Cardinality({k \in MambaGroup(m, n, q).layers : k[2] <= l[2]})
    BY <2>1, <2>2 DEF Index
  <2>4. Index(m, n, l) \in 1..M
    BY <2>1, <2>3, RankInGroup
  <2>5. l \in Cache!Nth(GroupOf(m, n, l), Index(m, n, l))
    BY <2>1, <2>2, <2>3 DEF Cache!Nth, Cache!Cardinality, Cardinality
  <2>6. PlaceOf(m, n, nb, l) = Cache!At(l, P, Off(Index(m, n, l)))
    <3>1. Index(m, n, l) \in Int /\ InMla(m, l)
      BY <1>1, <2>1, <2>4 DEF InMla
    <3> QED BY <3>1, PlaceInMla
  <2> QED BY <2>1, <2>2, <2>4, <2>5, <2>6 DEF MambaOf
<1>8. ASSUME NEW g \in MambaOf(m, n), NEW i \in 1..M, NEW l \in Cache!Nth(g, i)
      PROVE  /\ l \in L("mamba") /\ g.page = P /\ Index(m, n, l) = i
             /\ Cache!At(l, g.page, Off(i)) = PlaceOf(m, n, nb, l)
  <2>1. PICK q \in 1..n : g = MambaGroup(m, n, q)
    BY DEF MambaOf
  <2>2. g.page = P /\ g.layers \subseteq L("mamba")
    BY <2>1 DEF MambaGroup, Cache!Grouped
  <2>3. l \in g.layers /\ Cardinality({k \in g.layers : k[2] <= l[2]}) = i
    BY DEF Cache!Nth, Cache!Cardinality, Cardinality
  <2>4. q = ((l[2] - 1) % n) + 1
    BY <2>1, <2>2, <2>3, GroupIs
  <2>5. GroupOf(m, n, l) = g /\ l[1] = "mamba"
    BY <2>1, <2>2, <2>3, <2>4 DEF GroupOf, Cache!Layers
  <2>6. Index(m, n, l) = i
    BY <2>3, <2>5 DEF Index
  <2> QED BY <1>7, <2>2, <2>3, <2>6
<1>9. ASSUME m.layers["draft"] # 0, NEW i, NEW l
      PROVE  Dg.page = X /\ (l \in Cache!Nth(Dg, i) <=> i \in 1..m.layers["draft"] /\ l = <<"draft", i>>)
  <2>1. Dg.page = X /\ Dg.layers = L("draft")
    BY DEF Cache!Grouped
  <2> HIDE DEF Dg
  <2> QED BY <1>1, <2>1, NthIs
<1>10. ASSUME m.layers["tail"] # 0, NEW i, NEW l
       PROVE  Tg.page = Q /\ (l \in Cache!Nth(Tg, i) <=> i \in 1..m.layers["tail"] /\ l = <<"tail", i>>)
  <2>1. Tg.page = Q /\ Tg.layers = L("tail")
    BY DEF Cache!Grouped
  <2> HIDE DEF Tg
  <2> QED BY <1>1, <2>1, NthIs
\* What the slots hold.
<1> HIDE DEF Off, IdxOff, OwnOff, Tg, Dg
<1>11. ASSUME NEW i \in 1..M, NEW t
       PROVE  t \in Cache!MlaSlot(i, nb) <=>
                \/ t = PlaceOf(m, n, nb, <<"mla", i>>)
                \/ \E l \in L("mamba") : Index(m, n, l) = i /\ t = PlaceOf(m, n, nb, l)
                \/ Shared(m) /\ i \in 1..m.layers["draft"] /\ t = PlaceOf(m, n, nb, <<"draft", i>>)
  <2>1. t \in Cache!MlaSlot(i, nb) <=>
          \/ t = Cache!At(<<"mla", i>>, P, Off(i))
          \/ \E g \in layout.mamba : \E l \in Cache!Nth(g, i) : t = Cache!At(l, g.page, Off(i))
          \/ /\ Shared(m)
             /\ \E g \in layout.draft : \E l \in Cache!Nth(g, i) : t = Cache!At(l, g.page, Off(i))
    <3> DEFINE sharing == layout.mamba \cup IF Shared(m) THEN layout.draft ELSE {}
               with(g) == {Cache!At(l, g.page, Off(i)) : l \in Cache!Nth(g, i)}
    <3>1. Cache!MlaSlot(i, nb) = {Cache!At(<<"mla", i>>, P, Off(i))} \cup UNION {with(g) : g \in sharing}
      <4>1. Cache!MlaSlot(i, nb) =
              {Cache!At(<<"mla", i>>, P, Off(i))}
                \cup UNION {with(g) : g \in layout.mamba
                                         \cup IF Cache!DraftShared THEN layout.draft ELSE {}}
        BY DEF Cache!MlaSlot, Off
      <4> HIDE DEF with
      <4>2. (IF Cache!DraftShared THEN layout.draft ELSE {}) = IF Shared(m) THEN layout.draft ELSE {}
        BY <1>2
      <4> QED BY <4>1, <4>2
    <3>2. \A g : t \in with(g) <=> \E l \in Cache!Nth(g, i) : t = Cache!At(l, g.page, Off(i))
      OBVIOUS
    <3> HIDE DEF with
    <3>3. t \in UNION {with(g) : g \in sharing} <=> \E g \in sharing : t \in with(g)
      <4> HIDE DEF sharing
      <4> QED OBVIOUS
    <3>4. \A g : g \in sharing <=> g \in layout.mamba \/ (Shared(m) /\ g \in layout.draft)
      OBVIOUS
    <3> HIDE DEF sharing
    <3> QED BY <3>1, <3>2, <3>3, <3>4
  <2>2. (\E g \in layout.mamba : \E l \in Cache!Nth(g, i) : t = Cache!At(l, g.page, Off(i)))
          <=> \E l \in L("mamba") : Index(m, n, l) = i /\ t = PlaceOf(m, n, nb, l)
    <3>1. ASSUME NEW g \in layout.mamba, NEW l \in Cache!Nth(g, i), t = Cache!At(l, g.page, Off(i))
          PROVE  l \in L("mamba") /\ Index(m, n, l) = i /\ t = PlaceOf(m, n, nb, l)
      BY <1>2, <1>8, <3>1
    <3>2. ASSUME NEW l \in L("mamba"), Index(m, n, l) = i, t = PlaceOf(m, n, nb, l)
          PROVE  /\ GroupOf(m, n, l) \in layout.mamba /\ l \in Cache!Nth(GroupOf(m, n, l), i)
                 /\ t = Cache!At(l, GroupOf(m, n, l).page, Off(i))
      BY <1>2, <1>7, <1>8, <3>2
    <3> QED BY <3>1, <3>2
  <2>3. ASSUME Shared(m)
        PROVE  (\E g \in layout.draft : \E l \in Cache!Nth(g, i) : t = Cache!At(l, g.page, Off(i)))
                 <=> i \in 1..m.layers["draft"] /\ t = PlaceOf(m, n, nb, <<"draft", i>>)
    <3>1. CASE m.layers["draft"] = 0
      BY <1>2, <3>1
    <3>2. CASE m.layers["draft"] # 0
      <4>1. X = P
        BY <2>3, <3>2 DEF Shared
      <4>2. layout.draft = {Dg}
        BY <1>2, <3>2
      <4>3. Dg.page = X
        BY <1>9, <3>2
      <4>4. \A l : l \in Cache!Nth(Dg, i) <=> i \in 1..m.layers["draft"] /\ l = <<"draft", i>>
        BY <1>9, <3>2
      <4>5. i \in 1..m.layers["draft"] =>
              PlaceOf(m, n, nb, <<"draft", i>>) = Cache!At(<<"draft", i>>, P, Off(i))
        BY <1>6, <2>3
      <4> QED BY <4>1, <4>2, <4>3, <4>4, <4>5
    <3> QED BY <3>1, <3>2
  <2> QED BY <1>4, <2>1, <2>2, <2>3
<1>12. ASSUME NEW i \in 1..m.layers["idx"], NEW t
       PROVE  t \in Cache!IdxSlot(i, nb) <=>
                \/ t = PlaceOf(m, n, nb, <<"idx", i>>)
                \/ i \in 1..m.layers["tail"] /\ t = PlaceOf(m, n, nb, <<"tail", i>>)
  <2>1. t \in Cache!IdxSlot(i, nb) <=>
          \/ t = Cache!At(<<"idx", i>>, Q, IdxOff(i))
          \/ \E g \in layout.tail : \E l \in Cache!Nth(g, i) : t = Cache!At(l, g.page, IdxOff(i))
    BY DEF Cache!IdxSlot, IdxOff
  <2>2. (\E g \in layout.tail : \E l \in Cache!Nth(g, i) : t = Cache!At(l, g.page, IdxOff(i)))
          <=> i \in 1..m.layers["tail"] /\ t = PlaceOf(m, n, nb, <<"tail", i>>)
    <3>1. CASE m.layers["tail"] = 0
      BY <1>2, <3>1
    <3>2. CASE m.layers["tail"] # 0
      <4>2. layout.tail = {Tg}
        BY <1>2, <3>2
      <4>3. Tg.page = Q
        BY <1>10, <3>2
      <4>4. \A l : l \in Cache!Nth(Tg, i) <=> i \in 1..m.layers["tail"] /\ l = <<"tail", i>>
        BY <1>10, <3>2
      <4>5. i \in 1..m.layers["tail"] =>
              PlaceOf(m, n, nb, <<"tail", i>>) = Cache!At(<<"tail", i>>, Q, IdxOff(i))
        BY <1>5
      <4> QED BY <4>2, <4>3, <4>4, <4>5
    <3> QED BY <3>1, <3>2
  <2>3. PlaceOf(m, n, nb, <<"idx", i>>) = Cache!At(<<"idx", i>>, Q, IdxOff(i))
    BY <1>5
  <2> QED BY <2>1, <2>2, <2>3
<1>13. ASSUME NEW t
       PROVE  t \in Cache!DraftSlots(nb) <=>
                ~Shared(m) /\ \E i \in 1..m.layers["draft"] : t = PlaceOf(m, n, nb, <<"draft", i>>)
  <2>1. CASE Shared(m)
    <3>1. \A g \in layout.draft : g.page = model.mlaPage
      BY <1>2, <2>1 DEF Cache!DraftShared
    <3>2. Cache!DraftSlots(nb) = {}
      BY <3>1 DEF Cache!DraftSlots, Cache!DraftShared
    <3> QED BY <2>1, <3>2
  <2>2. CASE ~Shared(m)
    <3>1. layout.draft = {Dg} /\ m.layers["draft"] # 0
      BY <1>2, <2>2 DEF Shared
    <3>2. Dg.page = X /\ Dg.layers = L("draft")
      BY DEF Dg, Cache!Grouped
    <3>3. t \in Cache!DraftSlots(nb) <=>
            \E l \in L("draft") : t = Cache!At(l, X, Attn(m) * nb + (l[2] - 1) * X * nb)
      <4> DEFINE own(g) == {Cache!At(l, g.page, Attn(m) * nb + (l[2] - 1) * g.page * nb) : l \in g.layers}
      <4>1. Cache!DraftSlots(nb) = UNION {own(g) : g \in layout.draft}
        <5>1. ~ \A g \in layout.draft : g.page = model.mlaPage
          BY <1>2, <2>2 DEF Cache!DraftShared
        <5>2. Cache!DraftSlots(nb) =
                UNION {{Cache!At(l, g.page, Cache!AttnBytes * nb + (l[2] - 1) * g.page * nb) :
                        l \in g.layers} : g \in layout.draft}
          BY <5>1 DEF Cache!DraftSlots, Cache!DraftShared
        <5> QED BY <1>2, <5>2
      <4> HIDE DEF own
      <4>2. Cache!DraftSlots(nb) = own(Dg)
        BY <3>1, <4>1
      <4>3. own(Dg) = {Cache!At(l, X, Attn(m) * nb + (l[2] - 1) * X * nb) : l \in L("draft")}
        BY <3>2 DEF own
      <4> QED BY <4>2, <4>3
    <3>4. \A l : l \in L("draft") <=> \E i \in 1..m.layers["draft"] : l = <<"draft", i>>
      BY DEF Cache!Layers
    <3>5. \A i \in 1..m.layers["draft"] :
            PlaceOf(m, n, nb, <<"draft", i>>) = Cache!At(<<"draft", i>>, X, OwnOff(i))
      BY <1>6, <2>2
    <3>6. t \in Cache!DraftSlots(nb) <=>
            \E i \in 1..m.layers["draft"] : t = Cache!At(<<"draft", i>>, X, OwnOff(i))
      <4>1. \A i : <<"draft", i>>[2] = i
        OBVIOUS
      <4> QED BY <3>3, <3>4, <4>1 DEF OwnOff
    <3> QED BY <2>2, <3>5, <3>6
  <2> QED BY <2>1, <2>2
<1>14. /\ L("mla") = {<<"mla", i>> : i \in 1..M}
       /\ L("idx") = {<<"idx", i>> : i \in 1..m.layers["idx"]}
       /\ L("tail") = {<<"tail", i>> : i \in 1..m.layers["tail"]}
       /\ L("draft") = {<<"draft", i>> : i \in 1..m.layers["draft"]}
  BY DEF Cache!Layers
<1> HIDE DEF P, Q, X
<1>15. ASSUME NEW t
       PROVE  (\E i \in 1..M : t \in Cache!MlaSlot(i, nb)) <=>
                \/ \E l \in L("mla") \cup L("mamba") : t = PlaceOf(m, n, nb, l)
                \/ Shared(m) /\ \E l \in L("draft") : t = PlaceOf(m, n, nb, l)
  <2>1. \A l \in L("mamba") : Index(m, n, l) \in 1..M
    BY <1>7
  <2>2. Shared(m) => \A i \in 1..m.layers["draft"] : i \in 1..M
    BY <1>1, <1>2
  <2> HIDE DEF M
  <2> QED BY <1>11, <1>14, <2>1, <2>2
<1>16. ASSUME NEW t
       PROVE  (\E i \in 1..m.layers["idx"] : t \in Cache!IdxSlot(i, nb)) <=>
                \E l \in L("idx") \cup L("tail") : t = PlaceOf(m, n, nb, l)
  <2>1. \A i \in 1..m.layers["tail"] : i \in 1..m.layers["idx"]
    BY <1>1
  <2> QED BY <1>12, <1>14, <2>1
<1> DEFINE Laid == (UNION {Cache!MlaSlot(i, nb) : i \in 1..M})
                     \cup (UNION {Cache!IdxSlot(i, nb) : i \in 1..m.layers["idx"]})
                     \cup Cache!DraftSlots(nb)
<1>17. ASSUME NEW t
       PROVE  t \in Laid <=> t \in Y
  <2>1. t \in Laid <=> \/ \E i \in 1..M : t \in Cache!MlaSlot(i, nb)
                       \/ \E i \in 1..m.layers["idx"] : t \in Cache!IdxSlot(i, nb)
                       \/ t \in Cache!DraftSlots(nb)
    <3> DEFINE A == UNION {Cache!MlaSlot(i, nb) : i \in 1..M}
               B == UNION {Cache!IdxSlot(i, nb) : i \in 1..m.layers["idx"]}
    <3>1. t \in A <=> \E i \in 1..M : t \in Cache!MlaSlot(i, nb)
      <4> HIDE DEF M
      <4> QED OBVIOUS
    <3>2. t \in B <=> \E i \in 1..m.layers["idx"] : t \in Cache!IdxSlot(i, nb)
      OBVIOUS
    <3>3. Laid = A \cup B \cup Cache!DraftSlots(nb)
      OBVIOUS
    <3> HIDE DEF A, B, Laid
    <3> QED BY <3>1, <3>2, <3>3
  <2>2. t \in Cache!DraftSlots(nb) <=> ~Shared(m) /\ \E l \in L("draft") : t = PlaceOf(m, n, nb, l)
    BY <1>13, <1>14
  <2>3. t \in Y <=> \E l \in Cache!AllLayers(m) : t = PlaceOf(m, n, nb, l)
    OBVIOUS
  <2> HIDE DEF Laid, Y, L, M
  <2> QED BY <1>3, <1>15, <1>16, <2>1, <2>2, <2>3
<1>18. Laid = Y
  <2> HIDE DEF Laid, Y
  <2> QED BY <1>17
<1> QED
  BY <1>18

LEMMA ConfigureKeeps ==
  ASSUME EngineAssumption, CacheInv, Cache!Configure
  PROVE  CacheInv'
<1> DEFINE nb == memory' \div Cache!PerBlock
<1>1. /\ kvState = "recognized" /\ kvState' = "configured"
      /\ model' = model /\ groups' = groups /\ layout' = layout
      /\ memory' \in Memories /\ numBlocks' = nb
      /\ tensors' = (UNION {Cache!MlaSlot(i, nb) : i \in 1..model.layers["mla"]})
                    \cup (UNION {Cache!IdxSlot(i, nb) : i \in 1..model.layers["idx"]})
                    \cup Cache!DraftSlots(nb)
  BY DEF Cache!Configure
<1>2. PICK n : Dealt(model, n) /\ GroupsAre(model, n, groups) /\ LayoutIs(model, n, layout)
  BY <1>1 DEF CacheInv
<1>3. model \in KvModels
  BY DEF CacheInv
<1>4. memory' \in Nat
  BY <1>1 DEF EngineAssumption, Cache!KvAssumption
<1>5. Cache!PerBlock = PoolBlock(model) /\ PoolBlock(model) \in Nat \ {0}
  BY <1>2, <1>3, PerBlockIs
<1>6. nb \in Nat /\ nb = memory' \div PoolBlock(model)
  <2>1. memory' \div PoolBlock(model) \in Nat
    BY <1>4, <1>5
  <2> QED BY <1>5, <2>1
<1> HIDE DEF nb
<1>7. tensors' = {PlaceOf(model, n, nb, l) : l \in Cache!AllLayers(model)}
  BY <1>1, <1>2, <1>3, <1>6, TensorsIs
<1>8. TensorsAre(model, n, memory', numBlocks', tensors')
  BY <1>1, <1>4, <1>6, <1>7 DEF TensorsAre
<1> QED
  BY <1>1, <1>2, <1>3, <1>8 DEF CacheInv

LEMMA CacheStarts ==
  ASSUME EngineAssumption, Init
  PROVE  CacheInv
BY DEF Init, Cache!Init, CacheInv

LEMMA CacheKeeps ==
  ASSUME EngineAssumption, CacheInv, [Next]_vars
  PROVE  CacheInv'
<1>1. CASE Cache!Group
  BY <1>1, GroupKeeps
<1>2. CASE Cache!Recognize
  BY <1>2, RecognizeKeeps
<1>3. CASE Cache!Configure
  BY <1>3, ConfigureKeeps
<1>4. CASE UNCHANGED cacheVars
  BY <1>4 DEF cacheVars, CacheInv
<1> QED
  BY <1>1, <1>2, <1>3, <1>4 DEF Next, vars, Cache!Next

\* Every layer has its place within its zone.
ZoneCount(m, z) ==
  IF z = "mla" THEN m.layers["mla"] ELSE IF z = "idx" THEN m.layers["idx"] ELSE m.layers["draft"]

LEMMA ZoneIs ==
  ASSUME EngineAssumption, NEW m \in KvModels, NEW n, Dealt(m, n), NEW lay, LayoutIs(m, n, lay),
         NEW l \in Cache!AllLayers(m)
  PROVE  /\ Zone(m, l) \in {"mla", "idx", "own"}
         /\ Index(m, n, l) \in 1..ZoneCount(m, Zone(m, l))
         /\ Zone(m, l) = "own" => ~Shared(m)
<1> DEFINE L(kind) == Cache!Layers(m, kind)
<1>1. /\ m.layers["mla"] \in Nat /\ m.layers["idx"] \in Nat /\ m.layers["tail"] \in Nat
      /\ m.layers["mamba"] \in Nat /\ m.layers["draft"] \in Nat
      /\ m.layers["tail"] \in {0, m.layers["idx"]}
  BY ModelIs
<1>2. PICK kind \in {"mla", "idx", "tail", "mamba", "draft"} : l \in L(kind)
  BY DEF Cache!AllLayers, Cache!Kinds
<1>3. l[1] = kind /\ l[2] \in 1..m.layers[kind]
  BY <1>2 DEF Cache!Layers
<1>4. CASE kind = "mla"
  BY <1>3, <1>4 DEF Zone, Index, ZoneCount
<1>5. CASE kind \in {"idx", "tail"}
  <2>1. l[2] \in 1..m.layers["idx"]
    BY <1>1, <1>3, <1>5
  <2> QED BY <1>3, <1>5, <2>1 DEF Zone, Index, ZoneCount
<1>6. CASE kind = "mamba"
  <2> DEFINE q == ((l[2] - 1) % n) + 1
  <2>1. q \in 1..n /\ l \in MambaGroup(m, n, q).layers
    BY <1>2, <1>6, GroupIs
  <2>2. GroupOf(m, n, l) = MambaGroup(m, n, q)
    BY DEF GroupOf
  <2> HIDE DEF q
  <2>3. Index(m, n, l) = Cardinality({k \in MambaGroup(m, n, q).layers : k[2] <= l[2]})
    BY <1>3, <1>6, <2>2 DEF Index
  <2>4. Index(m, n, l) \in 1..m.layers["mla"]
    BY <2>1, <2>3, RankInGroup
  <2> QED BY <1>3, <1>6, <2>4 DEF Zone, ZoneCount
<1>7. CASE kind = "draft"
  <2>1. Index(m, n, l) = l[2]
    BY <1>3, <1>7 DEF Index
  <2>2. CASE Shared(m)
    <3>1. l[2] \in 1..m.layers["mla"]
      BY <1>1, <1>3, <1>7, <2>2 DEF LayoutIs
    <3> QED BY <1>3, <1>7, <2>1, <2>2, <3>1 DEF Zone, ZoneCount
  <2>3. CASE ~Shared(m)
    BY <1>3, <1>7, <2>1, <2>3 DEF Zone, ZoneCount
  <2> QED BY <2>2, <2>3
<1> QED
  BY <1>2, <1>4, <1>5, <1>6, <1>7

LEMMA Monotonic ==
  ASSUME NEW a \in Nat, NEW b \in Nat, a <= b, NEW c \in Nat
  PROVE  a * c <= b * c
<1>1. PICK d \in Nat : b = a + d
  <2>1. b - a \in Nat /\ b = a + (b - a)
    OBVIOUS
  <2> QED BY <2>1
<1>2. (a + d) * c = a * c + d * c /\ d * c \in Nat /\ a * c \in Nat
  BY ProductIsNat
<1> QED
  BY <1>1, <1>2

\* Zones follow one another and end with the pool.
LEMMA ZonesFollow ==
  ASSUME EngineAssumption, NEW m \in KvModels
  PROVE  /\ \A z \in {"mla", "idx", "own"} :
              ZoneBase(m, z) \in Nat /\ ZonePage(m, z) \in Nat /\ ZoneCount(m, z) \in Nat
         /\ ZoneBase(m, "mla") + ZoneCount(m, "mla") * ZonePage(m, "mla") = ZoneBase(m, "idx")
         /\ ZoneBase(m, "idx") + ZoneCount(m, "idx") * ZonePage(m, "idx") = ZoneBase(m, "own")
         /\ ZoneBase(m, "own") <= PoolBlock(m)
         /\ ~Shared(m) =>
              ZoneBase(m, "own") + ZoneCount(m, "own") * ZonePage(m, "own") = PoolBlock(m)
<1> DEFINE M == m.layers["mla"]
           I == m.layers["idx"]
           D == m.layers["draft"]
           P == m.mlaPage
           Q == m.idxPage
           X == Cache!DraftPage(m)
<1>1. M \in Nat /\ I \in Nat /\ D \in Nat /\ P \in Nat /\ Q \in Nat /\ X \in Nat
  BY ModelIs, DraftPageIs
<1>2. M * P \in Nat /\ I * Q \in Nat /\ D * X \in Nat
  BY <1>1, ProductIsNat
<1>3. /\ ZoneBase(m, "mla") = 0 /\ ZoneBase(m, "idx") = M * P /\ ZoneBase(m, "own") = M * P + I * Q
      /\ ZonePage(m, "mla") = P /\ ZonePage(m, "idx") = Q /\ ZonePage(m, "own") = X
      /\ ZoneCount(m, "mla") = M /\ ZoneCount(m, "idx") = I /\ ZoneCount(m, "own") = D
      /\ PoolBlock(m) = M * P + I * Q + IF Shared(m) THEN 0 ELSE D * X
  BY DEF ZoneBase, ZonePage, ZoneCount, Attn, PoolBlock
<1> HIDE DEF M, I, D, P, Q, X
<1> QED
  BY <1>1, <1>2, <1>3

\* The i-th of so many runs of pages ends where the next one starts, and none ends late.
LEMMA RunEnds ==
  ASSUME NEW base \in Nat, NEW w \in Nat, NEW nb \in Nat, NEW cnt \in Nat, NEW i \in 1..cnt
  PROVE  /\ base * nb + (i - 1) * w * nb \in Nat
         /\ base * nb + (i - 1) * w * nb + nb * w = base * nb + i * w * nb
         /\ base * nb + i * w * nb <= (base + cnt * w) * nb
         /\ \A j \in 1..cnt : i < j => base * nb + i * w * nb <= base * nb + (j - 1) * w * nb
<1>1. i \in Nat /\ i - 1 \in Nat /\ i <= cnt
  OBVIOUS
<1>2. /\ base * nb \in Nat /\ w * nb \in Nat /\ (i - 1) * w \in Nat /\ i * w \in Nat
      /\ cnt * w \in Nat
  BY <1>1, ProductIsNat
<1>3. (i - 1) * w * nb \in Nat /\ i * w * nb \in Nat /\ cnt * w * nb \in Nat
  BY <1>2, ProductIsNat
<1>4. (i - 1) * w * nb + nb * w = i * w * nb
  <2>1. (i - 1) * w = i * w - w
    BY <1>1
  <2>2. (i * w - w) * nb = i * w * nb - w * nb /\ w * nb = nb * w
    BY <1>2
  <2> QED BY <1>2, <1>3, <2>1, <2>2
<1>5. i * w * nb <= cnt * w * nb
  <2>1. i * w <= cnt * w
    BY <1>1, Monotonic
  <2> QED BY <1>2, <2>1, Monotonic
<1>6. (base + cnt * w) * nb = base * nb + cnt * w * nb
  BY <1>2
<1>7. ASSUME NEW j \in 1..cnt, i < j
      PROVE  i * w * nb <= (j - 1) * w * nb /\ (j - 1) * w * nb \in Nat
  <2>1. j - 1 \in Nat /\ i <= j - 1
    BY <1>1, <1>7
  <2>2. i * w <= (j - 1) * w /\ (j - 1) * w \in Nat
    BY <1>1, <2>1, Monotonic, ProductIsNat
  <2>3. i * w * nb <= (j - 1) * w * nb /\ (j - 1) * w * nb \in Nat
    BY <1>2, <2>2, Monotonic, ProductIsNat
  <2> QED BY <2>3
<1>8. \A j \in 1..cnt : i < j => base * nb + i * w * nb <= base * nb + (j - 1) * w * nb
  BY <1>2, <1>3, <1>7
<1> QED
  BY <1>2, <1>3, <1>4, <1>5, <1>6, <1>8

\* A layer's tensor lies within the pool.
LEMMA Within ==
  ASSUME EngineAssumption, NEW m \in KvModels, NEW n, Dealt(m, n), NEW lay, LayoutIs(m, n, lay),
         NEW nb \in Nat, NEW l \in Cache!AllLayers(m)
  PROVE  /\ PlaceOf(m, n, nb, l).layer = l /\ PlaceOf(m, n, nb, l).page = ZonePage(m, Zone(m, l))
         /\ PlaceOf(m, n, nb, l).page \in Nat /\ PlaceOf(m, n, nb, l).offset \in Nat
         /\ PlaceOf(m, n, nb, l).offset + nb * PlaceOf(m, n, nb, l).page <= PoolBlock(m) * nb
<1> DEFINE z == Zone(m, l)
           i == Index(m, n, l)
           w == ZonePage(m, z)
           base == ZoneBase(m, z)
           cnt == ZoneCount(m, z)
<1>1. z \in {"mla", "idx", "own"} /\ i \in 1..cnt /\ (z = "own" => ~Shared(m))
  BY ZoneIs
<1>2. base \in Nat /\ w \in Nat /\ cnt \in Nat
  BY <1>1, ZonesFollow
<1>3. /\ PlaceOf(m, n, nb, l).layer = l /\ PlaceOf(m, n, nb, l).page = w
      /\ PlaceOf(m, n, nb, l).offset = base * nb + (i - 1) * w * nb
  BY DEF PlaceOf, Cache!At
<1>4. base + cnt * w \in Nat /\ PoolBlock(m) \in Nat /\ base + cnt * w <= PoolBlock(m)
  <2>1. /\ ZoneCount(m, "idx") * ZonePage(m, "idx") \in Nat
        /\ ZoneCount(m, "own") * ZonePage(m, "own") \in Nat
        /\ ZoneBase(m, "own") \in Nat /\ ZoneBase(m, "idx") \in Nat
    BY ZonesFollow, ProductIsNat
  <2>2. PoolBlock(m) \in Nat
    <3>1. Attn(m) \in Nat /\ m.layers["draft"] * Cache!DraftPage(m) \in Nat
      BY ModelIs, DraftPageIs, ProductIsNat DEF Attn
    <3> QED BY <3>1 DEF PoolBlock
  <2>3. CASE z = "mla"
    BY <2>1, <2>2, <2>3, ZonesFollow
  <2>4. CASE z = "idx"
    BY <2>1, <2>2, <2>4, ZonesFollow
  <2>5. CASE z = "own"
    BY <1>1, <2>1, <2>2, <2>5, ZonesFollow
  <2> QED BY <1>1, <2>3, <2>4, <2>5
<1> HIDE DEF z, i, w, base, cnt
<1>5. /\ base * nb + (i - 1) * w * nb \in Nat
      /\ base * nb + (i - 1) * w * nb + nb * w = base * nb + i * w * nb
      /\ base * nb + i * w * nb <= (base + cnt * w) * nb
  BY <1>1, <1>2, RunEnds
<1>6. (base + cnt * w) * nb <= PoolBlock(m) * nb
  BY <1>4, Monotonic
<1>7. base * nb + i * w * nb \in Nat /\ (base + cnt * w) * nb \in Nat /\ PoolBlock(m) * nb \in Nat
  <2>1. i \in Nat
    BY <1>1, <1>2
  <2>2. i * w \in Nat
    BY <1>2, <2>1, ProductIsNat
  <2>3. i * w * nb \in Nat
    BY <2>2, ProductIsNat
  <2>4. base * nb \in Nat
    BY <1>2, ProductIsNat
  <2>5. (base + cnt * w) * nb \in Nat /\ PoolBlock(m) * nb \in Nat
    BY <1>4, ProductIsNat
  <2> QED BY <2>3, <2>4, <2>5
<1> QED
  BY <1>2, <1>3, <1>5, <1>6, <1>7 DEF z, w

\* Tensors of different places lie apart.
LEMMA Apart ==
  ASSUME EngineAssumption, NEW m \in KvModels, NEW n, Dealt(m, n), NEW lay, LayoutIs(m, n, lay),
         NEW nb \in Nat, NEW k \in Cache!AllLayers(m), NEW l \in Cache!AllLayers(m),
         Zone(m, k) # Zone(m, l) \/ Index(m, n, k) # Index(m, n, l)
  PROVE  \/ PlaceOf(m, n, nb, k).offset + nb * PlaceOf(m, n, nb, k).page <= PlaceOf(m, n, nb, l).offset
         \/ PlaceOf(m, n, nb, l).offset + nb * PlaceOf(m, n, nb, l).page <= PlaceOf(m, n, nb, k).offset
<1> DEFINE B(z) == ZoneBase(m, z)
           W(z) == ZonePage(m, z)
           C(z) == ZoneCount(m, z)
           S(e) == PlaceOf(m, n, nb, e).offset
           E(e) == PlaceOf(m, n, nb, e).offset + nb * PlaceOf(m, n, nb, e).page
           Zones == {"mla", "idx", "own"}
<1>1. ASSUME NEW e \in Cache!AllLayers(m)
      PROVE  /\ Zone(m, e) \in Zones /\ Index(m, n, e) \in 1..C(Zone(m, e))
             /\ S(e) = B(Zone(m, e)) * nb + (Index(m, n, e) - 1) * W(Zone(m, e)) * nb
             /\ E(e) = B(Zone(m, e)) * nb + (Index(m, n, e) - 1) * W(Zone(m, e)) * nb
                         + nb * W(Zone(m, e))
             /\ S(e) \in Nat /\ E(e) \in Nat
  <2>1. Zone(m, e) \in Zones /\ Index(m, n, e) \in 1..C(Zone(m, e))
    BY ZoneIs
  <2>2. /\ PlaceOf(m, n, nb, e).page = W(Zone(m, e))
        /\ PlaceOf(m, n, nb, e).offset =
             B(Zone(m, e)) * nb + (Index(m, n, e) - 1) * W(Zone(m, e)) * nb
    BY DEF PlaceOf, Cache!At
  <2>3. PlaceOf(m, n, nb, e).page \in Nat /\ PlaceOf(m, n, nb, e).offset \in Nat
    BY Within
  <2>4. nb * PlaceOf(m, n, nb, e).page \in Nat
    BY <2>3, ProductIsNat
  <2> QED BY <2>1, <2>2, <2>3, <2>4
<1>2. \A z \in Zones : B(z) \in Nat /\ W(z) \in Nat /\ C(z) \in Nat
  BY ZonesFollow
<1>3. /\ B("mla") + C("mla") * W("mla") = B("idx")
      /\ B("idx") + C("idx") * W("idx") = B("own")
  BY ZonesFollow
<1> HIDE DEF B, W, C
\* Within a zone.
<1>4. ASSUME NEW e \in Cache!AllLayers(m), NEW f \in Cache!AllLayers(m),
             Zone(m, e) = Zone(m, f), Index(m, n, e) < Index(m, n, f)
      PROVE  E(e) <= S(f)
  <2> DEFINE z == Zone(m, e)
             i == Index(m, n, e)
             j == Index(m, n, f)
  <2>1. z \in Zones /\ i \in 1..C(z) /\ j \in 1..C(z) /\ i < j
    BY <1>1, <1>4
  <2>2. /\ E(e) = B(z) * nb + (i - 1) * W(z) * nb + nb * W(z)
        /\ S(f) = B(z) * nb + (j - 1) * W(z) * nb
    BY <1>1, <1>4
  <2> HIDE DEF z, i, j, E, S
  <2>3. B(z) \in Nat /\ W(z) \in Nat /\ C(z) \in Nat
    BY <1>2, <2>1
  <2>4. /\ B(z) * nb + (i - 1) * W(z) * nb + nb * W(z) = B(z) * nb + i * W(z) * nb
        /\ B(z) * nb + i * W(z) * nb <= B(z) * nb + (j - 1) * W(z) * nb
    BY <2>1, <2>3, RunEnds
  <2> QED BY <2>2, <2>4
\* Zones.
<1>5. ASSUME NEW e \in Cache!AllLayers(m), NEW f \in Cache!AllLayers(m),
             B(Zone(m, e)) + C(Zone(m, e)) * W(Zone(m, e)) <= B(Zone(m, f))
      PROVE  E(e) <= S(f)
  <2> DEFINE z == Zone(m, e)
             y == Zone(m, f)
             i == Index(m, n, e)
             j == Index(m, n, f)
  <2>1. z \in Zones /\ y \in Zones /\ i \in 1..C(z) /\ j \in 1..C(y)
    BY <1>1
  <2>2. /\ E(e) = B(z) * nb + (i - 1) * W(z) * nb + nb * W(z)
        /\ S(f) = B(y) * nb + (j - 1) * W(y) * nb /\ E(e) \in Nat /\ S(f) \in Nat
    BY <1>1
  <2>3. B(z) + C(z) * W(z) <= B(y)
    BY <1>5
  <2> HIDE DEF z, y, i, j, E, S
  <2>4. B(z) \in Nat /\ W(z) \in Nat /\ C(z) \in Nat /\ B(y) \in Nat /\ W(y) \in Nat /\ C(y) \in Nat
    BY <1>2, <2>1
  <2>5. /\ B(z) * nb + (i - 1) * W(z) * nb + nb * W(z) = B(z) * nb + i * W(z) * nb
        /\ B(z) * nb + i * W(z) * nb <= (B(z) + C(z) * W(z)) * nb
    BY <2>1, <2>4, RunEnds
  <2>6. C(z) * W(z) \in Nat
    BY <2>4, ProductIsNat
  <2>7. (B(z) + C(z) * W(z)) * nb <= B(y) * nb
    BY <2>3, <2>4, <2>6, Monotonic
  <2>8. B(y) * nb <= S(f)
    <3>1. j - 1 \in Nat
      BY <2>1, <2>4
    <3>2. (j - 1) * W(y) \in Nat
      BY <2>4, <3>1, ProductIsNat
    <3>3. (j - 1) * W(y) * nb \in Nat /\ B(y) * nb \in Nat
      BY <2>4, <3>2, ProductIsNat
    <3> QED BY <2>2, <3>3
  <2>9. (B(z) + C(z) * W(z)) * nb \in Nat /\ B(y) * nb \in Nat
    BY <2>4, <2>6, ProductIsNat
  <2> DEFINE a == B(z) * nb + i * W(z) * nb
             b == (B(z) + C(z) * W(z)) * nb
             c == B(y) * nb
  <2>10. E(e) = a /\ a <= b /\ b <= c /\ c <= S(f) /\ b \in Nat /\ c \in Nat
    BY <2>2, <2>5, <2>7, <2>8, <2>9
  <2> HIDE DEF a, b, c
  <2> QED BY <2>2, <2>10
<1>6. /\ B("mla") + C("mla") * W("mla") <= B("idx")
      /\ B("mla") + C("mla") * W("mla") <= B("own")
      /\ B("idx") + C("idx") * W("idx") <= B("own")
  <2>1. C("idx") * W("idx") \in Nat
    BY <1>2, ProductIsNat
  <2> QED BY <1>2, <1>3, <2>1
<1> HIDE DEF E, S
<1>7. CASE Zone(m, k) = Zone(m, l)
  <2>1. Index(m, n, k) \in Int /\ Index(m, n, l) \in Int
    BY <1>1, <1>2
  <2>2. Index(m, n, k) < Index(m, n, l) \/ Index(m, n, l) < Index(m, n, k)
    BY <1>7, <2>1
  <2>3. E(k) <= S(l) \/ E(l) <= S(k)
    BY <1>4, <1>7, <2>2
  <2> QED BY <2>3 DEF E, S
<1>8. CASE Zone(m, k) # Zone(m, l)
  <2>1. Zone(m, k) \in Zones /\ Zone(m, l) \in Zones
    BY <1>1
  <2>2. \/ B(Zone(m, k)) + C(Zone(m, k)) * W(Zone(m, k)) <= B(Zone(m, l))
        \/ B(Zone(m, l)) + C(Zone(m, l)) * W(Zone(m, l)) <= B(Zone(m, k))
    BY <1>6, <1>8, <2>1
  <2>3. E(k) <= S(l) \/ E(l) <= S(k)
    BY <1>5, <2>2
  <2> QED BY <2>3 DEF E, S
<1> QED
  BY <1>7, <1>8

\* The bytes of the blocks of two tensors: one that ends before the other starts, and
\* two that lie on the same bytes.
Block(o, w, b) == (o + b * w)..(o + (b + 1) * w - 1)

LEMMA BlocksApart ==
  ASSUME NEW o \in Nat, NEW p \in Nat, NEW v \in Nat, NEW w \in Nat, NEW nb \in Nat,
         NEW b \in 0..(nb - 1), NEW c \in 0..(nb - 1)
  PROVE  /\ o + nb * v <= p => Block(o, v, b) \cap Block(p, w, c) = {}
         /\ b # c => Block(o, v, b) \cap Block(o, v, c) = {}
<1>1. b \in Nat /\ c \in Nat /\ b + 1 \in Nat /\ b + 1 <= nb /\ c + 1 \in Nat
  OBVIOUS
<1>2. /\ b * v \in Nat /\ (b + 1) * v \in Nat /\ nb * v \in Nat /\ c * w \in Nat
      /\ (c + 1) * w \in Nat /\ c * v \in Nat /\ (c + 1) * v \in Nat
  BY <1>1, ProductIsNat
<1>3. (b + 1) * v <= nb * v
  BY <1>1, Monotonic
<1>4. ASSUME o + nb * v <= p
      PROVE  Block(o, v, b) \cap Block(p, w, c) = {}
  <2>1. ASSUME NEW h \in Block(o, v, b), h \in Block(p, w, c)
        PROVE  FALSE
    <3>1. h \in Int /\ h <= o + (b + 1) * v - 1 /\ p + c * w <= h
      BY <1>2, <2>1 DEF Block
    <3> QED BY <1>2, <1>3, <1>4, <3>1
  <2> QED BY <2>1
<1>5. ASSUME b # c
      PROVE  Block(o, v, b) \cap Block(o, v, c) = {}
  <2>1. ASSUME NEW h \in Block(o, v, b), h \in Block(o, v, c)
        PROVE  FALSE
    <3>1. /\ h \in Int /\ h <= o + (b + 1) * v - 1 /\ o + b * v <= h
          /\ h <= o + (c + 1) * v - 1 /\ o + c * v <= h
      BY <1>2, <2>1 DEF Block
    <3>2. b + 1 <= c \/ c + 1 <= b
      BY <1>1, <1>5
    <3>3. (b + 1) * v <= c * v \/ (c + 1) * v <= b * v
      BY <1>1, <3>2, Monotonic
    <3> QED BY <1>2, <3>1, <3>3
  <2> QED BY <2>1
<1> QED
  BY <1>4, <1>5

\* Two layers of one group have different places.
LEMMA PlacesDiffer ==
  ASSUME EngineAssumption, NEW m \in KvModels, NEW n, Dealt(m, n), GroupsAre(m, n, groups),
         NEW k, NEW l, Cache!SameGroup(k, l),
         Zone(m, k) = Zone(m, l), Index(m, n, k) = Index(m, n, l)
  PROVE  k = l
<1> DEFINE all == {groups[i] : i \in DOMAIN groups}
<1>1. PICK g \in all : k \in g.layers /\ l \in g.layers
  BY DEF Cache!SameGroup
<1>2. all = {AttnOf(m)} \cup TailOf(m) \cup MambaOf(m, n) \cup DraftOf(m)
  BY DEF GroupsAre
<1> HIDE DEF all
<1>3. \A kind : \A e \in Cache!Layers(m, kind) : e[1] = kind /\ e = <<kind, e[2]>>
  BY DEF Cache!Layers
<1>4. \A e : e[1] \in {"mla", "idx", "tail", "draft"} => Index(m, n, e) = e[2]
  BY DEF Index
<1>5. CASE g = AttnOf(m)
  <2>1. /\ k \in Cache!Layers(m, "mla") \cup Cache!Layers(m, "idx")
        /\ l \in Cache!Layers(m, "mla") \cup Cache!Layers(m, "idx")
    BY <1>1, <1>5 DEF AttnOf, Cache!Grouped
  <2>2. \A e : (e[1] = "mla" => Zone(m, e) = "mla") /\ (e[1] = "idx" => Zone(m, e) = "idx")
    BY DEF Zone
  <2>3. k[1] \in {"mla", "idx"} /\ l[1] \in {"mla", "idx"} /\ k = <<k[1], k[2]>> /\ l = <<l[1], l[2]>>
    BY <1>3, <2>1
  <2>4. k[1] = l[1] /\ k[2] = l[2]
    BY <1>4, <2>2, <2>3
  <2> QED BY <2>3, <2>4
<1>6. ASSUME NEW kind \in {"tail", "draft"}, NEW page, g \in OnlyOf(kind, m, page)
      PROVE  k = l
  <2>1. k \in Cache!Layers(m, kind) /\ l \in Cache!Layers(m, kind)
    BY <1>1, <1>6 DEF OnlyOf, Cache!Grouped
  <2>2. k[1] = kind /\ l[1] = kind /\ k = <<kind, k[2]>> /\ l = <<kind, l[2]>>
    BY <1>3, <2>1
  <2>3. k[2] = l[2]
    BY <1>4, <2>2
  <2> QED BY <2>2, <2>3
<1>7. CASE g \in TailOf(m)
  BY <1>6, <1>7 DEF TailOf
<1>8. CASE g \in DraftOf(m)
  BY <1>6, <1>8 DEF DraftOf
<1>9. CASE g \in MambaOf(m, n)
  <2>1. PICK q \in 1..n : g = MambaGroup(m, n, q)
    BY <1>9 DEF MambaOf
  <2>2. g.layers \subseteq Cache!Layers(m, "mamba")
    BY <2>1 DEF MambaGroup, Cache!Grouped
  <2>3. ASSUME NEW e \in g.layers
        PROVE  Index(m, n, e) = Cardinality({h \in MambaGroup(m, n, q).layers : h[2] <= e[2]})
    <3>1. e[1] = "mamba"
      BY <1>3, <2>2, <2>3
    <3>2. q = ((e[2] - 1) % n) + 1
      BY <2>1, <2>2, <2>3, GroupIs
    <3> QED BY <3>1, <3>2 DEF Index, GroupOf
  <2> QED BY <1>1, <2>1, <2>3, RankInGroup
<1> QED
  BY <1>1, <1>2, <1>5, <1>7, <1>8, <1>9

\* A page holds what its layer stores.
Stores(m, l) ==
  IF l[1] = "mamba" THEN m.mambaPage
  ELSE IF l[1] = "tail" THEN m.tailPage
  ELSE IF l[1] = "mla" THEN m.mlaPage
  ELSE IF l[1] = "idx" THEN m.idxPage ELSE Cache!DraftPage(m)

LEMMA PageHolds ==
  ASSUME EngineAssumption, NEW m \in KvModels, NEW n, Dealt(m, n), NEW lay, LayoutIs(m, n, lay),
         NEW l \in Cache!AllLayers(m)
  PROVE  Stores(m, l) <= ZonePage(m, Zone(m, l))
<1>1. /\ m.mlaPage \in Nat /\ m.idxPage \in Nat /\ Cache!DraftPage(m) \in Nat
      /\ m.layers["tail"] \in Nat /\ m.layers["draft"] \in Nat
  BY ModelIs, DraftPageIs
<1>2. PICK kind \in {"mla", "idx", "tail", "mamba", "draft"} : l \in Cache!Layers(m, kind)
  BY DEF Cache!AllLayers, Cache!Kinds
<1>3. l[1] = kind /\ l[2] \in 1..m.layers[kind]
  BY <1>2 DEF Cache!Layers
<1>4. CASE kind \in {"mla", "idx"}
  BY <1>1, <1>3, <1>4 DEF Zone, ZonePage, Stores
<1>5. CASE kind = "tail"
  <2>1. m.tailPage <= m.idxPage
    BY <1>1, <1>3, <1>5 DEF LayoutIs
  <2> QED BY <1>3, <1>5, <2>1 DEF Zone, ZonePage, Stores
<1>6. CASE kind = "mamba"
  BY <1>3, <1>6 DEF Zone, ZonePage, Stores, Dealt
<1>7. CASE kind = "draft"
  <2>1. m.layers["draft"] # 0
    BY <1>1, <1>3, <1>7
  <2> QED BY <1>1, <1>3, <1>7, <2>1 DEF Zone, ZonePage, Stores, Shared
<1> QED
  BY <1>2, <1>4, <1>5, <1>6, <1>7

\* So many blocks fit into the memory if the quotient is at least as large.
LEMMA QuotientHolds ==
  ASSUME NEW bytes \in Nat, NEW w \in Nat \ {0}, NEW c \in Nat
  PROVE  bytes >= c * w <=> (bytes \div w) >= c
<1> DEFINE q == bytes \div w
           r == bytes % w
<1>1. q \in Nat /\ r \in 0..(w - 1) /\ bytes = w * q + r
  OBVIOUS
<1> HIDE DEF q, r
<1>2. w * q = q * w /\ q * w \in Nat /\ c * w \in Nat
  BY <1>1, ProductIsNat
<1>3. ASSUME q >= c
      PROVE  bytes >= c * w
  <2>1. c * w <= q * w
    BY <1>1, <1>3, Monotonic
  <2> QED BY <1>1, <1>2, <2>1
<1>4. ASSUME ~(q >= c)
      PROVE  ~(bytes >= c * w)
  <2>1. q + 1 <= c /\ q + 1 \in Nat
    BY <1>1, <1>4
  <2>2. (q + 1) * w <= c * w
    BY <2>1, Monotonic
  <2>3. (q + 1) * w = q * w + w
    BY <1>1
  <2> QED BY <1>1, <1>2, <2>2, <2>3
<1> QED
  BY <1>3, <1>4 DEF q

LEMMA CacheShows ==
  ASSUME EngineAssumption, CacheInv
  PROVE  Cache!PagesDisjoint
<1> SUFFICES ASSUME kvState = "configured"
             PROVE  /\ \A l \in Cache!AllLayers(model) : Cardinality({t \in tensors : t.layer = l}) = 1
                    /\ \A t \in tensors :
                         /\ Stores(model, t.layer) <= t.page
                         /\ t.offset + numBlocks * t.page <= Cache!PerBlock * numBlocks
                    /\ \A t, u \in tensors : \A b, c \in 0..(numBlocks - 1) :
                         (t # u /\ (b # c \/ Cache!SameGroup(t.layer, u.layer)))
                           => Cache!Bytes(t, b) \cap Cache!Bytes(u, c) = {}
                    /\ \A n \in 1..memory : memory >= Cache!Needed(n) <=> numBlocks >= n
  BY DEF Cache!PagesDisjoint, Stores, Cache!Cardinality, Cardinality
<1> DEFINE m == model
           nb == numBlocks
<1>1. PICK n : /\ Dealt(m, n) /\ GroupsAre(m, n, groups) /\ LayoutIs(m, n, layout)
               /\ TensorsAre(m, n, memory, nb, tensors)
  BY DEF CacheInv
<1>2. m \in KvModels
  BY DEF CacheInv
<1>3. /\ Cache!PerBlock = PoolBlock(m) /\ Cache!AttnBytes = Attn(m)
      /\ Cache!DraftBytes = PoolBlock(m) - Attn(m)
      /\ Attn(m) \in Nat \ {0} /\ PoolBlock(m) \in Nat \ {0}
  BY <1>1, <1>2, PerBlockIs
<1>4. /\ memory \in Nat /\ nb = memory \div PoolBlock(m) /\ nb \in Nat
      /\ tensors = {PlaceOf(m, n, nb, l) : l \in Cache!AllLayers(m)}
  <2>1. /\ memory \in Nat /\ nb = memory \div PoolBlock(m)
        /\ tensors = {PlaceOf(m, n, nb, l) : l \in Cache!AllLayers(m)}
    BY <1>1 DEF TensorsAre
  <2>2. memory \div PoolBlock(m) \in Nat
    BY <1>3, <2>1
  <2> QED BY <2>1, <2>2
<1> HIDE DEF m, nb
<1>5. ASSUME NEW l \in Cache!AllLayers(m)
      PROVE  Cardinality({t \in tensors : t.layer = l}) = 1
  <2>1. \A k \in Cache!AllLayers(m) : PlaceOf(m, n, nb, k).layer = k
    BY DEF PlaceOf, Cache!At
  <2>2. {t \in tensors : t.layer = l} = {PlaceOf(m, n, nb, l)}
    BY <1>4, <2>1
  <2> QED BY <2>2, FS_Singleton
<1>6. ASSUME NEW t \in tensors
      PROVE  /\ Stores(m, t.layer) <= t.page
             /\ t.offset + nb * t.page <= PoolBlock(m) * nb
  <2>1. PICK l \in Cache!AllLayers(m) : t = PlaceOf(m, n, nb, l)
    BY <1>4
  <2>2. /\ t.layer = l /\ t.page = ZonePage(m, Zone(m, l))
        /\ t.offset + nb * t.page <= PoolBlock(m) * nb
    BY <1>1, <1>2, <1>4, <2>1, Within
  <2>3. Stores(m, l) <= ZonePage(m, Zone(m, l))
    BY <1>1, <1>2, PageHolds
  <2> QED BY <2>2, <2>3
<1>7. ASSUME NEW t \in tensors, NEW u \in tensors, NEW b \in 0..(nb - 1), NEW c \in 0..(nb - 1),
             t # u, b # c \/ Cache!SameGroup(t.layer, u.layer)
      PROVE  Cache!Bytes(t, b) \cap Cache!Bytes(u, c) = {}
  <2>1. PICK k \in Cache!AllLayers(m) : t = PlaceOf(m, n, nb, k)
    BY <1>4
  <2>2. PICK l \in Cache!AllLayers(m) : u = PlaceOf(m, n, nb, l)
    BY <1>4
  <2>3. /\ t.layer = k /\ t.page \in Nat /\ t.offset \in Nat
        /\ u.layer = l /\ u.page \in Nat /\ u.offset \in Nat
    BY <1>1, <1>2, <1>4, <2>1, <2>2, Within
  <2>4. Cache!Bytes(t, b) = Block(t.offset, t.page, b) /\ Cache!Bytes(u, c) = Block(u.offset, u.page, c)
    BY DEF Cache!Bytes, Block
  <2>5. CASE Zone(m, k) # Zone(m, l) \/ Index(m, n, k) # Index(m, n, l)
    <3>1. \/ t.offset + nb * t.page <= u.offset
          \/ u.offset + nb * u.page <= t.offset
      BY <1>1, <1>2, <1>4, <2>1, <2>2, <2>5, Apart
    <3>2. CASE t.offset + nb * t.page <= u.offset
      <4>1. Block(t.offset, t.page, b) \cap Block(u.offset, u.page, c) = {}
        BY <1>4, <2>3, <3>2, BlocksApart
      <4> QED BY <2>4, <4>1
    <3>3. CASE u.offset + nb * u.page <= t.offset
      <4>1. Block(u.offset, u.page, c) \cap Block(t.offset, t.page, b) = {}
        BY <1>4, <2>3, <3>3, BlocksApart
      <4>2. \A A, B : A \cap B = B \cap A
        OBVIOUS
      <4> QED BY <2>4, <4>1, <4>2
    <3> QED BY <3>1, <3>2, <3>3
  <2>6. CASE Zone(m, k) = Zone(m, l) /\ Index(m, n, k) = Index(m, n, l)
    <3>1. t.offset = u.offset /\ t.page = u.page
      BY <2>1, <2>2, <2>6 DEF PlaceOf, Cache!At
    <3>2. k # l
      BY <1>7, <2>1, <2>2
    <3>3. ~Cache!SameGroup(k, l)
      BY <1>1, <1>2, <2>6, <3>2, PlacesDiffer
    <3>4. b # c
      BY <1>7, <2>3, <3>3
    <3>5. Block(t.offset, t.page, b) \cap Block(t.offset, t.page, c) = {}
      BY <1>4, <2>3, <3>4, BlocksApart
    <3> QED BY <2>4, <3>1, <3>5
  <2> QED BY <2>5, <2>6
<1>8. ASSUME NEW c \in 1..memory
      PROVE  memory >= Cache!Needed(c) <=> nb >= c
  <2>1. c \in Nat
    BY <1>4
  <2>2. Cache!Needed(c) = c * (Attn(m) + (PoolBlock(m) - Attn(m)))
    BY <1>3 DEF Cache!Needed
  <2>3. Attn(m) + (PoolBlock(m) - Attn(m)) = PoolBlock(m)
    BY <1>3
  <2>4. Cache!Needed(c) = c * PoolBlock(m)
    BY <2>2, <2>3
  <2> QED BY <1>3, <1>4, <2>1, <2>4, QuotientHolds
<1> QED
  <2>1. \A t \in tensors : /\ Stores(m, t.layer) <= t.page
                           /\ t.offset + nb * t.page <= Cache!PerBlock * nb
    BY <1>3, <1>6
  <2>2. \A t, u \in tensors : \A b, c \in 0..(nb - 1) :
          (t # u /\ (b # c \/ Cache!SameGroup(t.layer, u.layer)))
            => Cache!Bytes(t, b) \cap Cache!Bytes(u, c) = {}
    BY <1>7
  <2>3. \A c \in 1..memory : memory >= Cache!Needed(c) <=> nb >= c
    BY <1>8
  <2>4. \A l \in Cache!AllLayers(m) : Cardinality({t \in tensors : t.layer = l}) = 1
    BY <1>5
  <2> QED BY <2>1, <2>2, <2>3, <2>4 DEF m, nb

\* KvGroups.PagesDisjoint (_get_kv_cache_groups_glm5_next, _glm5_next_tensor_layout and
\* get_kv_cache_config_from_groups): for every model and every memory, each layer has one
\* tensor, within the pool, whose pages hold what the layer stores; blocks of different
\* numbers never overlap, nor do the pages of two layers of one group; and the pool holds
\* exactly as many blocks as the size that is checked beforehand says.
THEOREM EnginePagesDisjoint ==
  ASSUME EngineAssumption
  PROVE  Spec => []PagesDisjoint
<1>1. Init => CacheInv
  BY CacheStarts
<1>2. CacheInv /\ [Next]_vars => CacheInv'
  BY CacheKeeps
<1>3. CacheInv => PagesDisjoint
  BY CacheShows DEF PagesDisjoint
<1> QED
  BY <1>1, <1>2, <1>3, PTL DEF Spec

-----------------------------------------------------------------------------
(* The indexer.  IndexerProofs proves of KpoolIndexer on its own what is   *)
(* carried over here: both instances have the same definitions.            *)

LEMMA SchedulableSame ==
  ASSUME NEW r, NEW n
  PROVE  Indexer!Schedulable(r, n) = IndexerOf!Schedulable(r, n)
BY DEF Indexer!Schedulable, IndexerOf!Schedulable

LEMMA NewRequestSame ==
  ASSUME NEW r
  PROVE  Indexer!NewRequest(r) = IndexerOf!NewRequest(r)
BY DEF Indexer!NewRequest, IndexerOf!NewRequest

LEMMA DecodesSame ==
  ASSUME NEW n
  PROVE  Indexer!Decodes(n) = IndexerOf!Decodes(n)
BY DEF Indexer!Decodes, IndexerOf!Decodes, Indexer!Requests, IndexerOf!Requests

LEMMA PrefillsSame ==
  ASSUME NEW n
  PROVE  Indexer!Prefills(n) = IndexerOf!Prefills(n)
BY DEF Indexer!Prefills, IndexerOf!Prefills, Indexer!Requests, IndexerOf!Requests

LEMMA SetToSeqsSame ==
  ASSUME NEW S
  PROVE  Indexer!SetToSeqs(S) = IndexerOf!SetToSeqs(S)
BY DEF Indexer!SetToSeqs, IndexerOf!SetToSeqs, Indexer!Cardinality,
       IndexerOf!Cardinality

LEMMA ChunksSame ==
  ASSUME NEW order, NEW n, NEW kept
  PROVE  Indexer!Chunks(order, n, kept) = IndexerOf!Chunks(order, n, kept)
BY DEF Indexer!Chunks, IndexerOf!Chunks, Indexer!FlattenSeq, IndexerOf!FlattenSeq,
       Indexer!Chunk, IndexerOf!Chunk, Indexer!Token, IndexerOf!Token

LEMMA GroupedSame ==
  ASSUME NEW flat, NEW lens, NEW pad
  PROVE  Indexer!Grouped(flat, lens, pad) = IndexerOf!Grouped(flat, lens, pad)
BY DEF Indexer!Grouped, IndexerOf!Grouped, Indexer!Uniform, IndexerOf!Uniform,
       Indexer!Reshape, IndexerOf!Reshape, Indexer!Scatter, IndexerOf!Scatter,
       Indexer!Max, IndexerOf!Max, Indexer!Range, IndexerOf!Range, Indexer!Start,
       IndexerOf!Start, Indexer!SumFunctionOnSet, IndexerOf!SumFunctionOnSet,
       Indexer!FoldFunctionOnSet, IndexerOf!FoldFunctionOnSet,
       Indexer!MapThenFoldSet, IndexerOf!MapThenFoldSet

LEMMA DecodePoolSame ==
  ASSUME NEW row, NEW r, NEW j, NEW old, NEW ring
  PROVE  Indexer!DecodePool(row, r, j, old, ring) = IndexerOf!DecodePool(row, r, j, old, ring)
BY DEF Indexer!DecodePool, IndexerOf!DecodePool, Indexer!InRow, IndexerOf!InRow,
       Indexer!Nothing, IndexerOf!Nothing, Indexer!Offsets, IndexerOf!Offsets,
       Indexer!Max, IndexerOf!Max

LEMMA PrefillPoolSame ==
  ASSUME NEW region, NEW r, NEW j, NEW old
  PROVE  Indexer!PrefillPool(region, r, j, old) = IndexerOf!PrefillPool(region, r, j, old)
BY DEF Indexer!PrefillPool, IndexerOf!PrefillPool, Indexer!Max, IndexerOf!Max,
       Indexer!Offsets, IndexerOf!Offsets

LEMMA DecodeTailSame ==
  ASSUME NEW row, NEW r, NEW o, NEW ring
  PROVE  Indexer!DecodeTail(row, r, o, ring) = IndexerOf!DecodeTail(row, r, o, ring)
BY DEF Indexer!DecodeTail, IndexerOf!DecodeTail, Indexer!Max, IndexerOf!Max

LEMMA PrefillTailSame ==
  ASSUME NEW region, NEW r, NEW o, NEW old
  PROVE  Indexer!PrefillTail(region, r, o, old) = IndexerOf!PrefillTail(region, r, o, old)
BY DEF Indexer!PrefillTail, IndexerOf!PrefillTail, Indexer!Max, IndexerOf!Max

LEMMA DecodeRowsSame ==
  ASSUME NEW toks, NEW lens
  PROVE  Indexer!DecodeRows(toks, lens) = IndexerOf!DecodeRows(toks, lens)
BY DEF Indexer!DecodeRows, IndexerOf!DecodeRows, Indexer!Unpack, IndexerOf!Unpack,
       Indexer!FlattenSeq, IndexerOf!FlattenSeq, Indexer!DecodeLens,
       IndexerOf!DecodeLens, Indexer!Grouped, IndexerOf!Grouped, Indexer!Uniform,
       IndexerOf!Uniform, Indexer!Reshape, IndexerOf!Reshape, Indexer!Scatter,
       IndexerOf!Scatter, Indexer!Max, IndexerOf!Max, Indexer!Range, IndexerOf!Range,
       Indexer!Start, IndexerOf!Start, Indexer!SumFunctionOnSet,
       IndexerOf!SumFunctionOnSet, Indexer!FoldFunctionOnSet,
       IndexerOf!FoldFunctionOnSet, Indexer!MapThenFoldSet, IndexerOf!MapThenFoldSet,
       Indexer!SumFunction, IndexerOf!SumFunction, Indexer!LengthAt,
       IndexerOf!LengthAt, Indexer!Row, IndexerOf!Row

LEMMA PrefillRowsSame ==
  ASSUME NEW region, NEW n
  PROVE  Indexer!PrefillRows(region, n) = IndexerOf!PrefillRows(region, n)
BY DEF Indexer!PrefillRows, IndexerOf!PrefillRows, Indexer!LengthAt,
       IndexerOf!LengthAt, Indexer!Row, IndexerOf!Row, Indexer!ChunkKeys,
       IndexerOf!ChunkKeys

LEMMA PassSame ==
  ASSUME NEW n, NEW kept, NEW D, NEW P, NEW f, Indexer!Pass(n, kept, D, P, f)
  PROVE  IndexerOf!Pass(n, kept, D, P, f)
<1> DEFINE flat      == Indexer!Chunks(D, n, kept)
           region    == Indexer!Chunks(P, n, kept)
           lens      == [i \in 1..Len(D) |-> n[D[i]]]
           cells     == Indexer!Grouped(flat, lens, Indexer!Nothing)
           row(c, r) == c[CHOOSE i \in 1..Len(D) : D[i] = r]
           PoolsBy(c, reg) ==
             [r \in IndexerOf!Requests |-> [j \in IndexerOf!Pools |->
                IF r \in IndexerOf!Decodes(n)
                THEN IndexerOf!DecodePool(row(c, r), r, j, pools[r][j], tail[r])
                ELSE IndexerOf!PrefillPool(reg, r, j, pools[r][j])]]
           TailBy(c, reg) ==
             [r \in IndexerOf!Requests |-> [o \in IndexerOf!Offsets |->
                IF r \in IndexerOf!Decodes(n)
                THEN IndexerOf!DecodeTail(row(c, r), r, o, tail[r])
                ELSE IndexerOf!PrefillTail(reg, r, o, tail[r][o])]]
           RowsBy(fl, reg, read) ==
             (IF fl = << >> THEN << >> ELSE IndexerOf!DecodeRows(fl \o reg, read))
               \o IndexerOf!PrefillRows(reg, n)
           Read(fl) == IF f THEN [i \in 1..Len(fl) |-> 1] ELSE lens
           GridBy(fl) == IF fl = << >> THEN 0
                         ELSE Len(Read(fl)) * IndexerOf!Max(IndexerOf!Range(Read(fl)))
           flatOf   == IndexerOf!Chunks(D, n, kept)
           regionOf == IndexerOf!Chunks(P, n, kept)
           cellsOf  == IndexerOf!Grouped(flatOf, lens, IndexerOf!Nothing)
<1>1. flat = flatOf /\ region = regionOf
  BY ChunksSame
<1>2. cells = cellsOf
  <2>1. Indexer!Nothing = IndexerOf!Nothing
    BY Zenon DEF Indexer!Nothing, IndexerOf!Nothing
  <2> HIDE DEF flat, flatOf, lens
  <2> QED BY <1>1, <2>1, GroupedSame
<1>3. pools' = PoolsBy(cells, region)
  <2>1. pools' = [r \in Indexer!Requests |-> [j \in Indexer!Pools |->
                    IF r \in Indexer!Decodes(n)
                    THEN Indexer!DecodePool(row(cells, r), r, j, pools[r][j], tail[r])
                    ELSE Indexer!PrefillPool(region, r, j, pools[r][j])]]
    BY Zenon DEF Indexer!Pass
  <2> HIDE DEF flat, region, lens, cells, row
  <2>2. Indexer!Requests = IndexerOf!Requests /\ Indexer!Pools = IndexerOf!Pools
    BY Zenon DEF Indexer!Requests, IndexerOf!Requests, Indexer!Pools, IndexerOf!Pools
  <2> QED BY <2>1, <2>2, DecodesSame, DecodePoolSame, PrefillPoolSame
<1>4. tail' = TailBy(cells, region)
  <2>1. tail' = [r \in Indexer!Requests |-> [o \in Indexer!Offsets |->
                   IF r \in Indexer!Decodes(n)
                   THEN Indexer!DecodeTail(row(cells, r), r, o, tail[r])
                   ELSE Indexer!PrefillTail(region, r, o, tail[r][o])]]
    BY Zenon DEF Indexer!Pass
  <2> HIDE DEF flat, region, lens, cells, row
  <2>2. Indexer!Requests = IndexerOf!Requests /\ Indexer!Offsets = IndexerOf!Offsets
    BY Zenon DEF Indexer!Requests, IndexerOf!Requests, Indexer!Offsets, IndexerOf!Offsets
  <2> QED BY <2>1, <2>2, DecodesSame, DecodeTailSame, PrefillTailSame
<1>5. rows' = RowsBy(flat, region, Read(flat))
  BY DecodeRowsSame, PrefillRowsSame DEF Indexer!Pass
<1>6. grid' = GridBy(flat)
  BY DEF Indexer!Pass, Indexer!Max, IndexerOf!Max, Indexer!Range, IndexerOf!Range
<1>7. /\ len' = [r \in IndexerOf!Requests |-> len[r] + kept[r]]
      /\ spoiled' = [r \in IndexerOf!Requests |->
                       spoiled[r] \cup (IF IndexerOf!Spoils(r, n[r], kept[r])
                                        THEN {(len[r] + kept[r]) \div Kpool} ELSE {})]
      /\ UNCHANGED <<owner, prompt>>
  BY DEF Indexer!Pass, Indexer!Requests, IndexerOf!Requests, Indexer!Spoils,
         IndexerOf!Spoils
<1>8. Len(flat \o region) \in 1..MaxBatched
  BY DEF Indexer!Pass
<1>9. /\ pools' = PoolsBy(cellsOf, regionOf) /\ tail' = TailBy(cellsOf, regionOf)
      /\ rows' = RowsBy(flatOf, regionOf, Read(flatOf)) /\ grid' = GridBy(flatOf)
      /\ Len(flatOf \o regionOf) \in 1..MaxBatched
  <2> HIDE DEF flat, region, cells, flatOf, regionOf, cellsOf, PoolsBy, TailBy, RowsBy,
               GridBy, Read
  <2> QED BY <1>1, <1>2, <1>3, <1>4, <1>5, <1>6, <1>8
<1> QED
  BY <1>7, <1>9 DEF IndexerOf!Pass

LEMMA ForwardSame ==
  ASSUME Indexer!Forward
  PROVE  IndexerOf!Forward
<1> DEFINE KeptOf(n, keep) ==
             [r \in Indexer!Requests |->
                IF n[r] = 0 \/ len[r] < prompt[r] THEN n[r] ELSE keep[r]]
<1>1. PICK n \in [Indexer!Requests -> 0..MaxLen],
           keep \in [Indexer!Requests -> 1..(NumSpec + 1)] :
        /\ \A r \in Indexer!Requests :
             \/ n[r] > 0 /\ KeptOf(n, keep)[r] <= n[r] /\ Indexer!Schedulable(r, n[r])
                  /\ (len[r] < prompt[r] => keep[r] = 1)
             \/ n[r] = 0 /\ keep[r] = 1
        /\ \E D \in Indexer!SetToSeqs(Indexer!Decodes(n)),
              P \in Indexer!SetToSeqs(Indexer!Prefills(n)), flatten \in Flattens :
             Indexer!Pass(n, KeptOf(n, keep), D, P, flatten)
  BY DEF Indexer!Forward
<1> DEFINE kept == KeptOf(n, keep)
<1>2. PICK D \in Indexer!SetToSeqs(Indexer!Decodes(n)),
           P \in Indexer!SetToSeqs(Indexer!Prefills(n)), flatten \in Flattens :
        Indexer!Pass(n, kept, D, P, flatten)
  BY <1>1
<1>3. IndexerOf!Pass(n, kept, D, P, flatten)
  BY <1>2, PassSame
<1>4. Indexer!Requests = IndexerOf!Requests
  BY DEF Indexer!Requests, IndexerOf!Requests
<1>5. /\ D \in IndexerOf!SetToSeqs(IndexerOf!Decodes(n))
      /\ P \in IndexerOf!SetToSeqs(IndexerOf!Prefills(n))
  BY <1>2, SetToSeqsSame, DecodesSame, PrefillsSame
<1>6. \A r \in Indexer!Requests :
        \/ n[r] > 0 /\ kept[r] <= n[r] /\ IndexerOf!Schedulable(r, n[r])
             /\ (len[r] < prompt[r] => keep[r] = 1)
        \/ n[r] = 0 /\ keep[r] = 1
  BY <1>1, SchedulableSame
<1> QED
  BY <1>1, <1>2, <1>3, <1>4, <1>5, <1>6, Zenon DEF IndexerOf!Forward

LEMMA IndexerAssumed ==
  ASSUME EngineAssumption
  PROVE  IndexerOf!IndexerAssumption
BY DEF EngineAssumption, Indexer!IndexerAssumption, IndexerOf!IndexerAssumption

LEMMA IndexerStarts ==
  ASSUME EngineAssumption, Init
  PROVE  IndexerOf!IndexerInv
<1>1. Indexer!Init => IndexerOf!Init
  BY DEF Indexer!Init, IndexerOf!Init, Indexer!Requests, IndexerOf!Requests,
         Indexer!Pools, IndexerOf!Pools, Indexer!Offsets, IndexerOf!Offsets,
         Indexer!Nothing, IndexerOf!Nothing
<1> QED
  BY <1>1, IndexerAssumed, IndexerOf!IndexerStarts DEF Init

LEMMA IndexerKeeps ==
  ASSUME EngineAssumption, IndexerOf!IndexerInv, [Next]_vars
  PROVE  IndexerOf!IndexerInv'
<1>1. Indexer!Next \/ UNCHANGED indexerVars
  BY DEF Next, vars
<1>2. Indexer!Next => IndexerOf!Next
  <2>1. Indexer!Requests = IndexerOf!Requests
    BY DEF Indexer!Requests, IndexerOf!Requests
  <2> QED
    BY <2>1, ForwardSame, NewRequestSame DEF Indexer!Next, IndexerOf!Next
<1>3. [IndexerOf!Next]_IndexerOf!vars
  BY <1>1, <1>2 DEF indexerVars, IndexerOf!vars
<1> QED
  BY <1>3, IndexerAssumed, IndexerOf!IndexerKeeps

LEMMA IndexerShows ==
  ASSUME EngineAssumption, IndexerOf!IndexerInv
  PROVE  /\ Indexer!TypeOK /\ Indexer!KeysRight /\ Indexer!RowsAttendRight
         /\ Indexer!FitsBuffers
<1>1. /\ IndexerOf!TypeOK /\ IndexerOf!KeysRight /\ IndexerOf!RowsAttendRight
      /\ IndexerOf!FitsBuffers
  BY IndexerAssumed, IndexerOf!IndexerShows
<1>2. Indexer!TypeOK
  BY <1>1 DEF Indexer!TypeOK, IndexerOf!TypeOK, Indexer!Requests, IndexerOf!Requests,
              Indexer!Pools, IndexerOf!Pools, Indexer!Offsets, IndexerOf!Offsets,
              Indexer!Tokens, IndexerOf!Tokens
<1>3. Indexer!KeysRight
  BY <1>1 DEF Indexer!KeysRight, IndexerOf!KeysRight, Indexer!Requests, IndexerOf!Requests,
              Indexer!Token, IndexerOf!Token
<1>4. Indexer!RowsAttendRight
  BY <1>1 DEF Indexer!RowsAttendRight, IndexerOf!RowsAttendRight, Indexer!Attended,
              IndexerOf!Attended, Indexer!Pools, IndexerOf!Pools, Indexer!LengthAt,
              IndexerOf!LengthAt, Indexer!Cardinality, IndexerOf!Cardinality, Indexer!Min,
              IndexerOf!Min, Indexer!SelectK, IndexerOf!SelectK
<1>5. Indexer!FitsBuffers
  BY <1>1 DEF Indexer!FitsBuffers, IndexerOf!FitsBuffers, Indexer!ProfiledRows,
              IndexerOf!ProfiledRows, Indexer!Min, IndexerOf!Min, Indexer!BufferWidth,
              IndexerOf!BufferWidth, Indexer!CeilTo, IndexerOf!CeilTo, Indexer!Columns,
              IndexerOf!Columns, Indexer!SelectK, IndexerOf!SelectK
<1> QED
  BY <1>2, <1>3, <1>4, <1>5

\* _kpool_compress_insert, kpool_seed_tail_cache and the decode kernel's ring, one after
\* another on the same blocks: whatever was scheduled, every key a request has completed is
\* of its own kept tokens, for any sizes of pool and batch and any reuse of the blocks.
THEOREM EngineKeysRight ==
  ASSUME EngineAssumption
  PROVE  Spec => []KeysRight
<1>1. Init => IndexerOf!IndexerInv
  BY IndexerStarts
<1>2. IndexerOf!IndexerInv /\ [Next]_vars => IndexerOf!IndexerInv'
  BY IndexerKeeps
<1>3. IndexerOf!IndexerInv => KeysRight
  BY IndexerShows DEF KeysRight
<1> QED
  BY <1>1, <1>2, <1>3, PTL DEF Spec

\* _decode_topk_seq_lens and the expansion of pools: no row of any pass attends past its own
\* token, leaves out the incomplete pool, or drops a token while its context fits the budget.
THEOREM EngineRowsAttend ==
  ASSUME EngineAssumption
  PROVE  Spec => []RowsAttendRight
<1>1. Init => IndexerOf!IndexerInv
  BY IndexerStarts
<1>2. IndexerOf!IndexerInv /\ [Next]_vars => IndexerOf!IndexerInv'
  BY IndexerKeeps
<1>3. IndexerOf!IndexerInv => RowsAttendRight
  BY IndexerShows DEF RowsAttendRight
<1> QED
  BY <1>1, <1>2, <1>3, PTL DEF Spec

\* The width of the top-k buffer and the rows profiled for the logits are enough for every
\* batch, however uneven its decodes and however it is padded.
THEOREM EngineFits ==
  ASSUME EngineAssumption
  PROVE  Spec => []FitsBuffers
<1>1. Init => IndexerOf!IndexerInv
  BY IndexerStarts
<1>2. IndexerOf!IndexerInv /\ [Next]_vars => IndexerOf!IndexerInv'
  BY IndexerKeeps
<1>3. IndexerOf!IndexerInv => FitsBuffers
  BY IndexerShows DEF FitsBuffers
<1> QED
  BY <1>1, <1>2, <1>3, PTL DEF Spec

-----------------------------------------------------------------------------
(* Types.                                                                  *)

\* What a walk, or each step on its own, leaves of a candidate is a number.
LEMMA ScoresAre ==
  ASSUME EngineAssumption, mode \in {"edge", "unary"}, NEW p \in Proposals,
         NEW t \in 1..Steps, NEW v \in Speculator!Range(p.cands[t])
  PROVE  Speculator!Path(p).scores[t][CHOOSE i \in DOMAIN p.cands[t] : p.cands[t][i] = v]
           \in Int
<1>1. PICK top \in Nat \ {0} : Ranked(p, top)
  BY ProposalIs
<1> DEFINE d == [x |-> p, tokens |-> Speculator!Path(p).tokens]
<1>2. d.x = p /\ d.tokens = Speculator!Path(p).tokens
  OBVIOUS
<1> HIDE DEF d
<1>3. ChosenBy(d, p, top, t, Speculator!Path(p).scores[t])
  BY <1>1, <1>2, PathIs
<1>4. Speculator!Path(p).scores[t] \in [1..top -> Nat]
  BY <1>3 DEF ChosenBy
<1>5. DOMAIN p.cands[t] = 1..top
  BY <1>1 DEF Ranked
<1>6. (CHOOSE i \in DOMAIN p.cands[t] : p.cands[t][i] = v) \in 1..top
  BY <1>5 DEF Speculator!Range
<1> QED
  BY <1>4, <1>6

LEMMA BatchFits ==
  ASSUME EngineAssumption, NEW b \in Speculator!Batches \cup {<< >>}
  PROVE  /\ Len(b) \in Nat /\ Len(b) <= Speculator!Cardinality(Slots)
         /\ Speculator!Cardinality(Slots) \in Nat
<1>1. IsFiniteSet(Slots)
  BY DEF EngineAssumption, Speculator!SpeculatorAssumption, Speculator!IsFiniteSet, IsFiniteSet
<1>2. Cardinality(Slots) \in Nat /\ Speculator!Cardinality(Slots) = Cardinality(Slots)
  BY <1>1, FS_CardinalityType DEF Speculator!Cardinality, Cardinality
<1>3. CASE b = << >>
  BY <1>2, <1>3
<1>4. CASE b # << >>
  <2>1. PICK k \in 1..Speculator!Cardinality(Slots) : b \in [1..k -> Slots]
    BY <1>4 DEF Speculator!Batches
  <2>2. k \in Nat /\ k <= Speculator!Cardinality(Slots)
    BY <1>2, <2>1
  <2>3. Len(b) = k
    BY <2>1, <2>2
  <2> QED BY <1>2, <2>2, <2>3
<1> QED
  BY <1>3, <1>4

Cells == [1..Steps -> [Vocab -> Int]]
Candidates == [1..Steps -> Seq(Vocab)]

SpeculatorTypes == Speculator!TypeOK /\ DOMAIN drafts = Slots

LEMMA SpeculatorStarts ==
  ASSUME EngineAssumption, Init
  PROVE  SpeculatorTypes
<1>1. Speculator!Init /\ Speculator!SpeculatorAssumption
  BY DEF Init, EngineAssumption
<1>2. /\ Speculator!NoLogits \in [Slots -> Cells] /\ Speculator!NoCandidates \in [Slots -> Candidates]
  BY DEF Speculator!NoLogits, Speculator!NoCandidates, Speculator!Minus, Cells, Candidates
<1>3. Len(<< >>) = 0 /\ 0 <= Speculator!Cardinality(Slots)
  BY BatchFits
<1>4. /\ MaxGen \in Nat /\ MaxRounds \in Nat
  BY <1>1 DEF Speculator!SpeculatorAssumption
<1> QED
  BY <1>1, <1>2, <1>3, <1>4 DEF SpeculatorTypes, Speculator!TypeOK, Speculator!Init, Cells, Candidates

LEMMA ProposeTypes ==
  ASSUME EngineAssumption, SpeculatorTypes, mode \in {"edge", "unary"},
         NEW x_ \in [1..Len(batch) -> Proposals], NEW valid \in [1..Len(batch) -> BOOLEAN],
         Speculator!Propose(x_, valid)
  PROVE  SpeculatorTypes'
<1> DEFINE row(s) == CHOOSE i \in 1..Len(batch) : batch[i] = s
           samples(s) == s \in Speculator!Range(batch) /\ valid[row(s)]
           path(s) == Speculator!Path(x_[row(s)])
<1>1. /\ batch' = << >>
      /\ mode' = mode /\ gen' = gen /\ wraps' = wraps /\ verified' = verified
      /\ drafts' = [s \in Slots |->
           IF samples(s)
           THEN [gen |-> gen[s], x |-> x_[row(s)], tokens |-> path(s).tokens]
           ELSE IF s \in Speculator!Range(batch) THEN Speculator!NoDraft ELSE drafts[s]]
      /\ logits' = [s \in Slots |->
           IF samples(s)
           THEN [t \in 1..Steps |-> Speculator!CachedLogits(logits[s][t], cached[s][t],
                                                 path(s), x_[row(s)].cands, t)]
           ELSE logits[s]]
      /\ cached' = [s \in Slots |-> IF samples(s) THEN x_[row(s)].cands ELSE cached[s]]
      /\ stash' = [i \in 1..Len(batch) |->
                     [slot |-> IF valid[i] THEN batch[i] ELSE -1, gen |-> gen[batch[i]],
                      cands |-> x_[i].cands, unary |-> x_[i].unary]]
  BY DEF Speculator!Propose
<1>2. /\ batch \in Speculator!Batches \cup {<< >>} /\ Len(batch) \in Nat
      /\ DOMAIN batch = 1..Len(batch)
  BY BatchIs DEF SpeculatorTypes, Speculator!TypeOK
<1>3. Len(stash') = Len(batch) /\ Len(batch) <= Speculator!Cardinality(Slots)
  BY <1>1, <1>2, BatchFits
<1>4. \A s \in Slots : samples(s) => row(s) \in 1..Len(batch)
  BY <1>2 DEF Speculator!Range
<1> HIDE DEF row
<1>5. \A s \in Slots : samples(s) => x_[row(s)] \in Proposals
  BY <1>4
<1>6. \A s \in Slots : drafts'[s] = Speculator!NoDraft \/ drafts'[s].gen = gen[s]
  <2> SUFFICES ASSUME NEW s \in Slots
               PROVE  drafts'[s] = Speculator!NoDraft \/ drafts'[s].gen = gen[s]
    OBVIOUS
  <2>1. CASE samples(s)
    <3>1. drafts'[s] = [gen |-> gen[s], x |-> x_[row(s)], tokens |-> path(s).tokens]
      BY <1>1, <2>1
    <3> QED BY <3>1
  <2>2. CASE ~samples(s)
    BY <1>1, <2>2 DEF SpeculatorTypes, Speculator!TypeOK
  <2> QED BY <2>1, <2>2
<1>7. cached' \in [Slots -> Candidates]
  <2>1. \A p \in Proposals : p.cands \in [1..Steps -> Seq(Vocab)]
    BY DEF EngineAssumption, Speculator!SpeculatorAssumption
  <2>2. \A s \in Slots : cached[s] \in Candidates
    BY DEF SpeculatorTypes, Speculator!TypeOK, Candidates
  <2>3. \A s \in Slots : (IF samples(s) THEN x_[row(s)].cands ELSE cached[s]) \in Candidates
    BY <1>5, <2>1, <2>2 DEF Candidates
  <2> QED BY <1>1, <2>3
<1>8. logits' \in [Slots -> Cells]
  <2>1. \A s \in Slots : logits[s] \in Cells
    BY DEF SpeculatorTypes, Speculator!TypeOK, Cells
  <2>2. ASSUME NEW s \in Slots, samples(s), NEW t \in 1..Steps
        PROVE  Speculator!CachedLogits(logits[s][t], cached[s][t], path(s), x_[row(s)].cands, t)
                 \in [Vocab -> Int]
    <3> DEFINE p == x_[row(s)]
    <3>1. p \in Proposals
      BY <1>5, <2>2
    <3> HIDE DEF p
    <3>2. \A v \in Speculator!Range(p.cands[t]) :
            Speculator!Path(p).scores[t][CHOOSE i \in DOMAIN p.cands[t] : p.cands[t][i] = v]
              \in Int
      BY <3>1, ScoresAre
    <3>3. \A v \in Vocab : logits[s][t][v] \in Int
      <4> HIDE DEF samples
      <4>1. logits[s] \in Cells
        BY <2>1
      <4>2. logits[s][t] \in [Vocab -> Int]
        BY <4>1 DEF Cells
      <4> QED BY <4>2
    <3>4. Speculator!CachedLogits(logits[s][t], cached[s][t], Speculator!Path(p), p.cands, t)
            \in [Vocab -> Int]
      BY <3>2, <3>3 DEF Speculator!CachedLogits, Speculator!Minus
    <3> QED BY <3>4 DEF p
  <2> DEFINE new(s) == [t \in 1..Steps |-> Speculator!CachedLogits(logits[s][t], cached[s][t],
                                                 path(s), x_[row(s)].cands, t)]
  <2>3. \A s \in Slots : samples(s) => new(s) \in Cells
    BY <2>2 DEF Cells
  <2>4. logits' = [s \in Slots |-> IF samples(s) THEN new(s) ELSE logits[s]]
    BY <1>1
  <2> HIDE DEF new, samples
  <2> QED BY <2>1, <2>3, <2>4
<1>9. DOMAIN drafts' = Slots
  BY <1>1
<1> QED
  BY <1>1, <1>3, <1>6, <1>7, <1>8, <1>9
  DEF SpeculatorTypes, Speculator!TypeOK, Cells, Candidates, Speculator!NoDraft

LEMMA SpeculatorKeeps ==
  ASSUME EngineAssumption, SpeculatorTypes, mode \in {"edge", "unary"}, [Next]_vars
  PROVE  SpeculatorTypes'
<1> USE DEF SpeculatorTypes, Speculator!TypeOK
<1>1. CASE Speculator!Reinstall
  <2>1. /\ Speculator!NoLogits \in [Slots -> Cells] /\ Speculator!NoCandidates \in [Slots -> Candidates]
    BY DEF Speculator!NoLogits, Speculator!NoCandidates, Speculator!Minus, Cells, Candidates
  <2>2. Len(<< >>) = 0 /\ 0 <= Speculator!Cardinality(Slots)
    <3> HIDE DEF SpeculatorTypes, Speculator!TypeOK
    <3> QED BY BatchFits
  <2>3. MaxRounds \in Nat
    BY DEF EngineAssumption, Speculator!SpeculatorAssumption
  <2> QED
    BY <1>1, <2>1, <2>2, <2>3 DEF Speculator!Reinstall, Speculator!Wrapped, Cells, Candidates
<1>2. ASSUME NEW s \in Slots, Speculator!NewRequest(s)
      PROVE  SpeculatorTypes'
  <2>1. /\ gen[s] < MaxGen /\ gen' = [gen EXCEPT ![s] = @ + 1]
        /\ drafts' = [drafts EXCEPT ![s] = Speculator!NoDraft]
        /\ UNCHANGED <<mode, logits, cached, stash, batch, cum, wraps, verified>>
    BY <1>2 DEF Speculator!NewRequest
  <2>2. MaxGen \in Nat
    BY DEF EngineAssumption, Speculator!SpeculatorAssumption
  <2>3. gen' \in [Slots -> 0..MaxGen]
    BY <2>1, <2>2
  <2>4. \A u \in Slots : drafts'[u] = Speculator!NoDraft \/ drafts'[u].gen = gen'[u]
    BY <2>1
  <2> QED BY <2>1, <2>3, <2>4 DEF Speculator!NoDraft
<1>3. ASSUME NEW b \in Speculator!Batches,
             NEW got \in [1..Len(b) -> 0..Steps], NEW target \in [1..Len(b) -> Vocab],
             Speculator!Verify(b, got, target)
      PROVE  SpeculatorTypes'
  <2>1. /\ verified + Len(b) <= MaxRounds /\ batch' = b
        /\ verified' = verified \/ verified' = verified + Len(b)
        /\ UNCHANGED <<mode, gen, drafts, logits, cached, stash, wraps>>
    BY <1>3 DEF Speculator!Verify
  <2>2. MaxRounds \in Nat /\ Len(b) \in Nat
    BY BatchFits DEF EngineAssumption, Speculator!SpeculatorAssumption
  <2>3. verified' \in 0..MaxRounds
    BY <2>1, <2>2
  <2> QED BY <2>1, <2>3 DEF Speculator!NoDraft
<1>4. CASE UNCHANGED speculatorVars
  BY <1>4 DEF speculatorVars, Speculator!NoDraft
<1>5. CASE Speculator!Next
  <2> HIDE DEF SpeculatorTypes
  <2> QED BY <1>1, <1>2, <1>3, <1>5, ProposeTypes DEF Speculator!Next
<1> QED
  BY <1>4, <1>5 DEF Next, vars

LEMMA ForwardTypes ==
  ASSUME EngineAssumption, ForwardInv
  PROVE  Forward!TypeOK
<1>1. NumLayers \in Nat /\ layer \in 0..NumLayers /\ 2 * layer \in Nat
  BY ForwardAssumed DEF ForwardInv
<1>2. Len(fed) = 2 * layer
  BY <1>1 DEF ForwardInv
<1>3. Asked(capture, layer) \subseteq 1..layer
  <2>1. capture \subseteq 1..NumLayers
    BY DEF ForwardInv
  <2>2. ASSUME NEW l \in Asked(capture, layer)
        PROVE  l \in 1..layer
    <3>1. l \in capture /\ l <= layer
      BY DEF Asked
    <3>2. l \in 1..NumLayers
      BY <2>1, <3>1
    <3> QED BY <1>1, <3>1, <3>2
  <2> QED BY <2>2
<1>4. IsFiniteSet(1..layer) /\ Cardinality(1..layer) = layer
  BY <1>1, FS_Interval
<1>5. Cardinality(Asked(capture, layer)) <= layer
  BY <1>3, <1>4, FS_Subset
<1>6. Len(aux) <= layer
  BY <1>5 DEF ForwardInv, AuxInv
<1> QED
  BY <1>2, <1>6 DEF ForwardInv, HandedOn, Forward!TypeOK

\* There are no tensors before the cache is configured.
CacheTypes == kvState # "configured" => tensors = {} /\ numBlocks = 0

LEMMA CacheTypesKept ==
  ASSUME CacheTypes, [Next]_vars
  PROVE  CacheTypes'
<1>1. CASE UNCHANGED cacheVars
  BY <1>1 DEF CacheTypes, cacheVars
<1>2. CASE Cache!Next
  BY <1>2 DEF CacheTypes, Cache!Next, Cache!Group, Cache!Recognize, Cache!Configure
<1> QED
  BY <1>1, <1>2 DEF Next, vars

LEMMA CacheTyped ==
  ASSUME EngineAssumption, CacheInv, CacheTypes
  PROVE  Cache!TypeOK
<1>1. CASE kvState # "configured"
  BY <1>1 DEF CacheInv, CacheTypes, Cache!TypeOK
<1>2. CASE kvState = "configured"
  <2> DEFINE m == model
             nb == numBlocks
  <2>1. PICK n : /\ Dealt(m, n) /\ GroupsAre(m, n, groups) /\ LayoutIs(m, n, layout)
                 /\ TensorsAre(m, n, memory, nb, tensors)
    BY <1>2 DEF CacheInv
  <2>2. m \in KvModels
    BY DEF CacheInv
  <2>3. PoolBlock(m) \in Nat \ {0} /\ Attn(m) \in Nat
    BY <2>1, <2>2, PerBlockIs
  <2>4. nb \in Nat
    <3>1. memory \in Nat /\ nb = memory \div PoolBlock(m)
      BY <2>1 DEF TensorsAre
    <3>2. memory \div PoolBlock(m) \in Nat
      BY <2>3, <3>1
    <3> QED BY <3>1, <3>2
  <2>5. tensors = {PlaceOf(m, n, nb, l) : l \in Cache!AllLayers(m)}
    BY <2>1 DEF TensorsAre
  <2>6. ASSUME NEW l \in Cache!AllLayers(m)
        PROVE  PlaceOf(m, n, nb, l).layer = l /\ PlaceOf(m, n, nb, l).offset \in Nat
    <3> DEFINE z == Zone(m, l)
               i == Index(m, n, l)
               base == ZoneBase(m, z)
               page == ZonePage(m, z)
               count == ZoneCount(m, z)
    <3>1. z \in {"mla", "idx", "own"} /\ i \in 1..count
      BY <2>1, <2>2, ZoneIs
    <3>2. m.layers["mla"] \in Nat /\ m.mlaPage \in Nat /\ m.idxPage \in Nat
      BY <2>2, ModelIs
    <3>3. Cache!DraftPage(m) \in Nat
      BY <2>2, DraftPageIs
    <3>4. m.layers["mla"] * m.mlaPage \in Nat
      BY <3>2, ProductIsNat
    <3>5. base \in Nat /\ page \in Nat
      BY <2>3, <3>2, <3>3, <3>4 DEF ZoneBase, ZonePage
    <3>6. i - 1 \in Nat
      <4> HIDE DEF i
      <4> QED BY <3>1
    <3>7. PlaceOf(m, n, nb, l) = Cache!At(l, page, base * nb + (i - 1) * page * nb)
      BY DEF PlaceOf
    <3> HIDE DEF i, base, page, z
    <3>8. base * nb \in Nat /\ (i - 1) * page \in Nat
      BY <2>4, <3>5, <3>6, ProductIsNat
    <3>9. (i - 1) * page * nb \in Nat
      BY <2>4, <3>8, ProductIsNat
    <3>10. base * nb + (i - 1) * page * nb \in Nat
      BY <3>8, <3>9
    <3> QED BY <3>7, <3>10 DEF Cache!At
  <2>7. \A t \in tensors : t.layer \in Cache!AllLayers(m) /\ t.offset \in Nat
    BY <2>5, <2>6
  <2> QED BY <2>2, <2>4, <2>7 DEF CacheInv, Cache!TypeOK
<1> QED
  BY <1>1, <1>2

\* TypeOK: whichever part moves, its variables keep to their types; the indexer's pools hold
\* entries of as many tokens as a pool has, and the speculator's stash fits its states.
THEOREM EngineTypes ==
  ASSUME EngineAssumption
  PROVE  Spec => []TypeOK
<1> DEFINE Inv == /\ IndexerOf!IndexerInv /\ ForwardInv /\ CacheInv /\ CacheTypes
                  /\ DraftsInv /\ SpeculatorTypes
<1>1. Init => Inv
  BY IndexerStarts, ForwardStarts, CacheStarts, DraftsStart, SpeculatorStarts
  DEF Init, Cache!Init, CacheTypes
<1>2. Inv /\ [Next]_vars => Inv'
  BY IndexerKeeps, ForwardKeeps, CacheKeeps, CacheTypesKept, DraftsKeep, SpeculatorKeeps
  DEF DraftsInv
<1>3. Inv => TypeOK
  BY IndexerShows, ForwardTypes, CacheTyped DEF TypeOK, SpeculatorTypes
<1> QED
  BY <1>1, <1>2, <1>3, PTL DEF Spec
=============================================================================
