-------------------------- MODULE FriLayersProofs --------------------------
(***************************************************************************)
(* For any list of steps, any last degree and blow-up and any settings of  *)
(* memory and chunks: the tables are given the layers, no assertion fails  *)
(* while the layers are built, and none in memory is followed by one out   *)
(* of it.                                                                  *)
(***************************************************************************)
EXTENDS FriLayers, Foundations
-----------------------------------------------------------------------------
(* The inductive invariant. *)

Kinds == {"InMemory", "OutOfMemory"}
Parts == [folds : Int, first : Int, log : Int]
Layers == [kind : Kinds, folds : Nat, log : Nat, evaluation : Parts, moved : BOOLEAN]

(* A layer holds its own first elements: all of them, or one coset of as   *)
(* many as determine it.                                                   *)
IsRight(layer) ==
  /\ layer \in Layers /\ layer.folds <= StepsUpTo(NLayers)
  /\ layer.log = IF layer.kind = "InMemory" THEN LogLayer(layer.folds) ELSE LogDegree(layer.folds)
  /\ layer.evaluation = Part(layer.folds, 0, layer.log)

(* While the last layer is out of memory, so are all before it, and the    *)
(* prover's coset is that of the last.                                     *)
AreRight(list) ==
  /\ list \in Seq(Layers) /\ list # <<>> /\ \A i \in 1..Len(list) : IsRight(list[i])
  /\ \A i, j \in 1..Len(list) : i < j /\ list[i].kind = "InMemory" => list[j].kind = "InMemory"

LayersAre ==
  /\ AreRight(layers)
  /\ first_in_memory = (base.kind = "OutOfMemory")
  /\ base.kind = "OutOfMemory" => coset_size = base.log

(* The chunks that the proxies ask the base for: each folds chunks of      *)
(* twice the size of its own, and a layer out of memory has only cosets.   *)
Asked == LogChunk + Len(proxies)

ProxiesFold ==
  /\ proxies \in Seq(Nat) /\ \A k \in 1..Len(proxies) : proxies[k] = Asked - k
  /\ LogChunk \in Nat /\ LogChunk <= LogSize /\ Asked <= base.log
  /\ base.kind = "OutOfMemory" => Asked = base.log

SegmentIs(n) ==
  /\ segments[n].layer \in 1..Len(layers) /\ layers[segments[n].layer].folds = StepsUpTo(n)
  /\ segments[n].given \in Seq(Parts)
  /\ \A i \in 1..Len(segments[n].given) :
       LET given == segments[n].given[i]
       IN given = Part(StepsUpTo(n), (i - 1) * Pow2[given.log], given.log)

Segments == [layer : Nat, given : Seq(Parts)]

TablesAre ==
  /\ segments \in Seq(Segments) /\ Len(segments) < NLayers
  /\ \A n \in 1..Len(segments) : SegmentIs(n)
  /\ answers \in Seq(Parts) /\ Len(answers) <= Len(segments)
  /\ \A n \in 1..Len(answers) : answers[n] = Part(StepsUpTo(n), 0, LogLayer(StepsUpTo(n)))

LayersInv == shape \in Shapes /\ layer_num \in 1..NLayers /\ LayersAre /\ TablesAre

(* What is read is in order; without proxies the twiddle factors are for   *)
(* the last coset but the first, which needs none.                         *)
ReadSoFar(n) ==
  /\ chunk_index = n /\ vector \in Seq(Parts) /\ Len(vector) = n
  /\ \A i \in 1..n : vector[i] = Part(Folds, (i - 1) * Pow2[LogChunk], LogChunk)
  /\ base.kind = "OutOfMemory" /\ proxies = <<>> =>
       /\ n = 0 => ~base.moved
       /\ storage = IF n <= 1 THEN -1 ELSE n - 1

Idle == chunk_index = 0 /\ vector = <<>> /\ storage = -1

(* Once a layer is in memory the next one is so too. *)
NextInMemory(n) == LogLayer(StepsUpTo(n)) <= shape.logInMemory \/ n + 1 >= NLayers

Tables(n) == Len(segments) = n /\ answers = <<>>

AtCreate ==
  /\ pc = "CreateNextFriLayer"
  /\ proxies = <<>> /\ Idle /\ base.folds = StepsUpTo(layer_num - 1) /\ Tables(layer_num - 1)
  /\ layer_num = 1 => ~base.moved
  /\ base.kind = "InMemory" => NextInMemory(layer_num - 1)

AtMake ==
  /\ pc \in {"Smaller", "OutOfMemory"}
  /\ base.kind = "OutOfMemory" /\ Len(proxies) = fri_step /\ ProxiesFold /\ Idle
  /\ Folds = StepsUpTo(layer_num) /\ Tables(layer_num - 1)
  /\ proxies = <<>> => ~base.moved
  /\ pc = "Smaller" => NextInMemory(layer_num)
  /\ pc = "OutOfMemory" => layer_num < NLayers

AtGather ==
  /\ \/ pc = "InMemory" /\ chunk_index < NChunks
     \/ pc = "Gathered" /\ chunk_index = NChunks
  /\ ProxiesFold /\ ReadSoFar(chunk_index)
  /\ Folds = StepsUpTo(layer_num) /\ Tables(layer_num - 1) /\ NextInMemory(layer_num)

AtCommit ==
  /\ pc = "Commit" /\ chunk_index < NChunks /\ layer_num < NLayers
  /\ proxies = <<>> /\ vector = <<>> /\ storage = -1
  /\ base.folds = StepsUpTo(layer_num)
  /\ Tables(IF chunk_index = 0 THEN layer_num - 1 ELSE layer_num)
  /\ chunk_index # 0 => /\ segments[layer_num].layer = Len(layers)
                        /\ Len(segments[layer_num].given) = chunk_index
  /\ base.kind = "InMemory" => NextInMemory(layer_num)

AtLast ==
  /\ \/ pc = "SendLastLayer" /\ chunk_index = 0
     \/ pc = "LastLayer" /\ chunk_index = 1
  /\ proxies = <<>> /\ base.kind = "InMemory" /\ ReadSoFar(chunk_index)
  /\ base.folds = StepsUpTo(NLayers) /\ answers = <<>>

AtDecommit == pc = "Decommit"

IInv == /\ LayersInv /\ chunk_index \in Nat
        /\ AtCreate \/ AtMake \/ AtGather \/ AtCommit \/ AtLast \/ AtDecommit
-----------------------------------------------------------------------------
(* Sizes. *)

LEMMA ShapeIs ==
  ASSUME shape \in Shapes
  PROVE  /\ NLayers \in Nat \ {0} /\ \A i \in 1..NLayers : Steps[i] \in Nat
         /\ \A i \in 2..NLayers : Steps[i] # 0
         /\ shape.logLastDegree \in Nat /\ shape.logInMemory \in Nat /\ shape.logNonChunked \in Nat
         /\ shape.logBlowup \in Nat \ {0} /\ shape.logChunks \in Nat \ {0}
         /\ \A i \in 1..NLayers : Steps[i] <= shape.logNonChunked + 1
<1>1. /\ Steps \in Seq(Nat) \ {<<>>}
      /\ \A i \in 2..Len(Steps) : Steps[i] # 0
      /\ {shape.logLastDegree, shape.logInMemory, shape.logNonChunked} \subseteq Nat
      /\ {shape.logBlowup, shape.logChunks} \subseteq Nat \ {0}
      /\ \A i \in 1..Len(Steps) : Steps[i] <= shape.logNonChunked + 1
  BY ShapesAssumption DEF Steps
<1> QED
  BY <1>1 DEF NLayers

LEMMA SumsAre ==
  ASSUME shape \in Shapes
  PROVE  /\ StepsUpTo(0) = 0
         /\ \A k \in 0..NLayers : StepsUpTo(k) \in Nat /\ StepsUpTo(k) <= StepsUpTo(NLayers)
         /\ \A k \in 1..NLayers : StepsUpTo(k) = StepsUpTo(k - 1) + Steps[k]
         /\ \A k \in 1..(NLayers - 1) : StepsUpTo(k) < StepsUpTo(NLayers)
<1>1. PICK n \in Nat \ {0} : n = NLayers /\ (\A i \in 1..n : Steps[i] \in Nat)
                             /\ \A i \in 2..n : Steps[i] # 0
  BY ShapeIs
<1>2. /\ StepsUpTo(0) = 0 /\ \A k \in 0..n : StepsUpTo(k) \in Nat
      /\ \A k \in 0..(n - 1) : StepsUpTo(k + 1) = StepsUpTo(k) + Steps[k + 1]
  BY <1>1, SumOfFirstIs DEF StepsUpTo
<1>3. \A k \in 1..n : StepsUpTo(k) = StepsUpTo(k - 1) + Steps[k]
  <2>1. ASSUME NEW k \in 1..n PROVE StepsUpTo(k) = StepsUpTo(k - 1) + Steps[k]
    <3>1. k - 1 \in 0..(n - 1) /\ (k - 1) + 1 = k
      OBVIOUS
    <3> QED BY <1>2, <3>1
  <2> QED BY <2>1
<1>4. ASSUME NEW k \in 0..n PROVE StepsUpTo(k) <= StepsUpTo(n)
  <2> DEFINE T == {d \in 0..(n - k) : StepsUpTo(k) <= StepsUpTo(k + d)}
  <2>1. 0 \in T
    BY <1>2
  <2>2. ASSUME NEW d \in 0..((n - k) - 1), d \in T PROVE d + 1 \in T
    <3>1. k + d \in 0..(n - 1) /\ k + d \in 0..n /\ (k + d) + 1 \in 1..n /\ d + 1 \in 0..(n - k)
          /\ (k + d) + 1 = k + (d + 1)
      OBVIOUS
    <3>2. StepsUpTo((k + d) + 1) = StepsUpTo(k + d) + Steps[(k + d) + 1]
          /\ Steps[(k + d) + 1] \in Nat /\ StepsUpTo(k + d) \in Nat /\ StepsUpTo(k) \in Nat
          /\ StepsUpTo(k) <= StepsUpTo(k + d)
      BY <1>1, <1>2, <2>2, <3>1
    <3>3. StepsUpTo(k) <= StepsUpTo((k + d) + 1)
      BY <3>2
    <3> QED BY <3>1, <3>3
  <2>3. \A d \in 0..(n - k) : d \in T
    <3> HIDE DEF T
    <3>1. n - k \in Nat
      OBVIOUS
    <3> QED BY <2>1, <2>2, <3>1, SegmentInduction
  <2>4. n - k \in 0..(n - k) /\ k + (n - k) = n
    OBVIOUS
  <2>5. n - k \in T
    BY <2>3, <2>4
  <2> QED BY <2>4, <2>5
<1>5. ASSUME NEW k \in 1..(n - 1) PROVE StepsUpTo(k) < StepsUpTo(n)
  <2>1. k \in 0..(n - 1) /\ k \in 0..n /\ k + 1 \in 2..n /\ k + 1 \in 0..n /\ k + 1 \in 1..n
    OBVIOUS
  <2>2. StepsUpTo(k + 1) = StepsUpTo(k) + Steps[k + 1] /\ Steps[k + 1] \in Nat
        /\ Steps[k + 1] # 0 /\ StepsUpTo(k) \in Nat
    BY <1>1, <1>2, <2>1
  <2>3. StepsUpTo(k + 1) <= StepsUpTo(n) /\ StepsUpTo(n) \in Nat
    BY <1>2, <1>4, <2>1
  <2> QED BY <2>2, <2>3
<1> QED
  BY <1>1, <1>2, <1>3, <1>4, <1>5

(* The logarithms of the sizes are natural numbers.                        *)
LEMMA LogsAre ==
  ASSUME shape \in Shapes, NEW folds \in Nat, folds <= StepsUpTo(NLayers)
  PROVE  /\ LogDegree(folds) \in Nat /\ LogLayer(folds) \in Nat
         /\ LogDegree(folds) < LogLayer(folds)
         /\ LogDegree(folds) = StepsUpTo(NLayers) - folds + shape.logLastDegree
         /\ LogLayer(folds) = LogDegree(folds) + shape.logBlowup
<1>1. PICK total \in Nat : total = StepsUpTo(NLayers)
  BY SumsAre, ShapeIs
<1>2. PICK degree, blowup \in Nat : degree = shape.logLastDegree /\ blowup = shape.logBlowup /\ blowup # 0
  BY ShapeIs
<1>3. LogDegree(folds) = total + degree - folds
  BY <1>1, <1>2 DEF LogDegree
<1> QED
  BY <1>1, <1>2, <1>3 DEF LogLayer

(* Of two numbers the larger. *)
LEMMA LargerOf ==
  ASSUME NEW a \in Int, NEW b \in Int
  PROVE  Max({a, b}) = IF a >= b THEN a ELSE b
<1>1. PICK c : c = (IF a >= b THEN a ELSE b)
  OBVIOUS
<1>2. c \in {a, b} /\ \A y \in {a, b} : c >= y
  BY <1>1
<1>3. \A x \in {a, b} : (\A y \in {a, b} : x >= y) => x = c
  BY <1>1
<1> QED
  BY <1>1, <1>2, <1>3 DEF Max
-----------------------------------------------------------------------------
(* The proxies. *)

(* Each halves the chunks of what lies below it, from the second on: a     *)
(* layer is only cut into chunks at once.                                  *)
Halves(sizes, n, c) == sizes = [k \in 1..n |-> c - k]

LEMMA ChunkSizesAre ==
  ASSUME NEW size \in Nat, size = LogSize, NEW chunk \in Nat, chunk = LogChunk, chunk <= size,
         NEW nonchunked \in Nat, nonchunked = shape.logNonChunked,
         NEW cut \in Nat \ {0}, cut = shape.logChunks,
         NEW n \in Nat \ {0}, n <= chunk, n <= nonchunked + 1
  PROVE  \E c \in Nat : /\ n <= c /\ c <= chunk /\ (chunk < size => c = chunk)
                        /\ Halves(ChunkSizes(n), n, c)
<1>1. PICK c \in Int : c = 1 + ChunkSize(size, chunk) /\ ChunkSize(size, chunk) = c - 1
  <2>1. nonchunked \in Int /\ size - cut \in Int
    OBVIOUS
  <2>2. PICK d \in Int : d = ChunkSize(size, chunk)
    BY <2>1, LargerOf DEF ChunkSize
  <2>3. d + 1 \in Int /\ d + 1 = 1 + d /\ d = (d + 1) - 1
    OBVIOUS
  <2> QED BY <2>2, <2>3
<1>2. /\ n <= c /\ c <= chunk /\ (chunk < size => c = chunk)
      /\ \A k \in 1..(n - 1) : ChunkSize(size - k, c - k) = c - k - 1
  <2>1. CASE ~(chunk = size /\ size > nonchunked)
    <3>1. c = chunk
      BY <1>1, <2>1 DEF ChunkSize
    <3>2. \A k \in 1..(n - 1) : ~(c - k = size - k /\ size - k > nonchunked)
      BY <2>1, <3>1
    <3> QED BY <3>1, <3>2 DEF ChunkSize
  <2>2. CASE chunk = size /\ size > nonchunked
    <3>1. c = 1 + Max({nonchunked, size - cut})
      BY <1>1, <2>2 DEF ChunkSize
    <3>2. c = IF nonchunked >= size - cut THEN 1 + nonchunked ELSE 1 + size - cut
      <4>1. nonchunked \in Int /\ size - cut \in Int
        OBVIOUS
      <4> QED BY <3>1, <4>1, LargerOf
    <3>3. n <= c /\ c <= chunk
      BY <2>2, <3>2
    <3>4. ASSUME NEW k \in 1..(n - 1) PROVE ChunkSize(size - k, c - k) = c - k - 1
      <4>1. CASE ~(c - k = size - k /\ size - k > nonchunked)
        BY <4>1 DEF ChunkSize
      <4>2. CASE c - k = size - k /\ size - k > nonchunked
        <5>1. c = size /\ cut = 1
          BY <3>2, <4>2
        <5>2. ChunkSize(size - k, c - k) = Max({nonchunked, size - k - 1})
          BY <4>2, <5>1 DEF ChunkSize
        <5>3. nonchunked \in Int /\ size - k - 1 \in Int /\ nonchunked <= size - k - 1
          BY <4>2
        <5>4. Max({nonchunked, size - k - 1}) = size - k - 1
          BY <5>3, LargerOf
        <5> QED BY <5>1, <5>2, <5>4
      <4> QED BY <4>1, <4>2
    <3> QED BY <2>2, <3>3, <3>4
  <2> QED BY <2>1, <2>2
<1> DEFINE logs == CHOOSE logs : logs = [k \in 0..n |-> IF k = 0 THEN chunk
                                                        ELSE ChunkSize(size - (k - 1), logs[k - 1])]
<1>3. ChunkSizes(n) = [k \in 1..n |-> logs[k]]
  BY DEF ChunkSizes
<1>4. logs = [k \in 0..n |-> IF k = 0 THEN chunk ELSE ChunkSize(size - (k - 1), logs[k - 1])]
  <2>1. PICK h : h = [k \in 0..n |-> IF k = 0 THEN chunk ELSE c - k]
    OBVIOUS
  <2>2. ASSUME NEW k \in 0..n
        PROVE  h[k] = IF k = 0 THEN chunk ELSE ChunkSize(size - (k - 1), h[k - 1])
    <3>1. CASE k = 0
      BY <2>1, <3>1
    <3>2. CASE k = 1
      <4>1. h[0] = chunk /\ h[1] = c - 1 /\ size - (k - 1) = size /\ k - 1 = 0
        BY <2>1, <3>2
      <4>2. ChunkSize(size - (k - 1), h[k - 1]) = ChunkSize(size, chunk)
        BY <4>1
      <4> QED BY <1>1, <3>2, <4>1, <4>2
    <3>3. CASE k # 0 /\ k # 1
      <4>1. k - 1 \in 1..(n - 1) /\ k - 1 \in 0..n /\ k - 1 # 0
        BY <3>3
      <4>2. h[k] = c - k /\ h[k - 1] = c - (k - 1)
        BY <2>1, <3>3, <4>1
      <4>3. ChunkSize(size - (k - 1), c - (k - 1)) = c - (k - 1) - 1
        BY <1>2, <4>1
      <4> QED BY <3>3, <4>2, <4>3
    <3> QED BY <3>1, <3>2, <3>3
  <2>3. h = [k \in 0..n |-> IF k = 0 THEN chunk ELSE ChunkSize(size - (k - 1), h[k - 1])]
    <3>1. PICK e : e = [k \in 0..n |-> IF k = 0 THEN chunk ELSE ChunkSize(size - (k - 1), h[k - 1])]
      OBVIOUS
    <3>2. \A k \in 0..n : e[k] = h[k]
      BY <2>2, <3>1
    <3>3. h = [k \in 0..n |-> h[k]] /\ e = [k \in 0..n |-> e[k]]
      BY <2>1, <3>1
    <3> QED BY <3>1, <3>2, <3>3
  <2> QED BY <2>3
<1> HIDE DEF logs
<1>5. \A k \in 1..n : logs[k] = c - k
  <2> DEFINE T == {k \in 0..(n - 1) : logs[k + 1] = c - (k + 1)}
  <2>1. 0 \in T
    <3>1. 0 \in 0..n /\ 1 \in 0..n /\ 0 \in 0..(n - 1)
      OBVIOUS
    <3>2. logs[0] = chunk /\ logs[1] = ChunkSize(size - (1 - 1), logs[1 - 1])
      BY <1>4, <3>1
    <3>3. logs[1] = c - 1
      <4>1. size - (1 - 1) = size /\ 1 - 1 = 0
        OBVIOUS
      <4> QED BY <1>1, <3>2, <4>1
    <3> QED BY <3>1, <3>3
  <2>2. ASSUME NEW k \in 0..((n - 1) - 1), k \in T PROVE k + 1 \in T
    <3>1. k + 2 \in 0..n /\ k + 2 # 0 /\ (k + 2) - 1 = k + 1 /\ k + 1 \in 1..(n - 1)
          /\ k + 1 \in 0..(n - 1) /\ (k + 1) + 1 = k + 2
      OBVIOUS
    <3>2. logs[k + 2] = ChunkSize(size - (k + 1), logs[k + 1])
      BY <1>4, <3>1
    <3>3. logs[k + 2] = c - (k + 1) - 1
      BY <1>2, <2>2, <3>1, <3>2
    <3> QED BY <3>1, <3>3
  <2>3. \A k \in 0..(n - 1) : k \in T
    <3> HIDE DEF T
    <3>1. n - 1 \in Nat
      OBVIOUS
    <3> QED BY <2>1, <2>2, <3>1, SegmentInduction
  <2>4. ASSUME NEW k \in 1..n PROVE logs[k] = c - k
    <3>1. k - 1 \in T /\ (k - 1) + 1 = k
      BY <2>3
    <3> QED BY <3>1
  <2> QED BY <2>4
<1>6. ChunkSizes(n) = [k \in 1..n |-> c - k]
  BY <1>3, <1>5
<1>7. c \in Nat
  BY <1>2
<1>8. Halves(ChunkSizes(n), n, c)
  BY <1>6 DEF Halves
<1> QED
  BY <1>2, <1>7, <1>8
-----------------------------------------------------------------------------
(* Reading the layer on top. *)

LEMMA BaseIs ==
  ASSUME shape \in Shapes, LayersAre
  PROVE  /\ Len(layers) \in Nat \ {0} /\ base = layers[Len(layers)] /\ IsRight(base)
         /\ base.kind \in Kinds /\ base.folds \in Nat /\ base.log \in Nat /\ base.moved \in BOOLEAN
         /\ base.folds <= StepsUpTo(NLayers)
         /\ base.evaluation = Part(base.folds, 0, base.log)
         /\ base.kind = "InMemory" => base.log = LogLayer(base.folds)
         /\ base.kind = "OutOfMemory" => base.log = LogDegree(base.folds)
<1>1. layers \in Seq(Layers) /\ layers # <<>> /\ \A i \in 1..Len(layers) : IsRight(layers[i])
  BY DEF LayersAre, AreRight
<1>2. Len(layers) \in Nat \ {0}
  BY <1>1
<1>3. base = layers[Len(layers)]
  BY DEF base, Last
<1>4. IsRight(base)
  BY <1>1, <1>2, <1>3
<1>5. base \in Layers
  BY <1>4 DEF IsRight
<1>6. base.kind \in Kinds /\ base.folds \in Nat /\ base.log \in Nat /\ base.moved \in BOOLEAN
  BY <1>5 DEF Layers
<1> QED
  BY <1>2, <1>3, <1>4, <1>6 DEF IsRight

LEMMA LogSizeIs ==
  ASSUME shape \in Shapes, LayersAre, proxies \in Seq(Nat)
  PROVE  /\ LogSize \in Int /\ LogSize = LogLayer(base.folds) - Len(proxies)
         /\ LogLayer(base.folds) \in Nat
         /\ \A k \in 0..Len(proxies) : LogLayer(base.folds + k) = LogLayer(base.folds) - k
<1>1. PICK total \in Nat : total = StepsUpTo(NLayers)
  <2>1. NLayers \in 0..NLayers
    BY ShapeIs
  <2>2. StepsUpTo(NLayers) \in Nat
    BY <2>1, SumsAre
  <2> QED BY <2>2
<1>2. PICK degree, blowup \in Nat : degree = shape.logLastDegree /\ blowup = shape.logBlowup
  BY ShapeIs
<1>3. base.folds \in Nat /\ Len(proxies) \in Nat
  BY BaseIs
<1>4. \A k \in 0..Len(proxies) : LogLayer(base.folds + k) = LogLayer(base.folds) - k
  <2>1. LogLayer(base.folds) = total + degree - base.folds + blowup
    BY <1>1, <1>2 DEF LogLayer, LogDegree
  <2>2. ASSUME NEW k \in 0..Len(proxies) PROVE LogLayer(base.folds + k) = LogLayer(base.folds) - k
    <3>1. LogLayer(base.folds + k) = total + degree - (base.folds + k) + blowup
      BY <1>1, <1>2 DEF LogLayer, LogDegree
    <3> QED BY <1>3, <2>1, <3>1
  <2> QED BY <2>2
<1>5. LogSize = LogLayer(base.folds + Len(proxies))
  BY DEF LogSize, Folds
<1>6. LogLayer(base.folds) \in Nat
  BY BaseIs, LogsAre
<1> QED
  BY <1>3, <1>4, <1>5, <1>6

LEMMA PowersAre ==
  ASSUME NEW a \in Nat, NEW b \in Nat
  PROVE  /\ Pow2[a] \in Nat \ {0} /\ Pow2[a] * Pow2[b] \in Nat
         /\ Pow2[a + b] = Pow2[a] * Pow2[b]
         /\ \A n \in Nat : n * Pow2[a] \in Nat
<1>1. PICK x, y \in Nat \ {0} : x = Pow2[a] /\ y = Pow2[b]
  BY Pow2Is
<1>2. Pow2[a + b] = Pow2[a] * Pow2[b]
  BY Pow2Sum
<1>3. x * y \in Nat /\ \A n \in Nat : n * x \in Nat
  BY <1>1
<1> QED
  BY <1>1, <1>2, <1>3

LEMMA BaseChunkIs ==
  ASSUME shape \in Shapes, LayersAre, NEW log \in Nat, NEW chunk \in Nat, BaseHas(log, chunk),
         log <= base.log, base.kind = "OutOfMemory" => log = base.log
  PROVE  BaseChunk(log, chunk) = Part(base.folds, chunk * Pow2[log], log)
<1>1. PICK f, l \in Nat : f = base.folds /\ l = base.log
  BY BaseIs
<1>2. PICK v : v = base.evaluation /\ v = Part(f, 0, l)
  BY <1>1, BaseIs
<1>3. v.folds = f /\ v.first = 0 /\ v.log = l /\ IsUseful(v)
  BY <1>1, <1>2 DEF Part, IsUseful
<1>4. PICK p \in Nat : p = chunk * Pow2[log]
  BY PowersAre
<1>5. CASE base.kind = "InMemory"
  <2>1. CASE log < l
    <3>1. BaseChunk(log, chunk) = SubSpan(v, p, log)
      BY <1>1, <1>2, <1>4, <1>5, <2>1 DEF BaseChunk
    <3>2. SubSpan(v, p, log) = Part(f, p, log)
      BY <1>3, <1>4 DEF SubSpan, Part
    <3> QED BY <1>1, <1>4, <3>1, <3>2
  <2>2. CASE ~(log < l)
    <3>1. log = l /\ (chunk + 1) * Pow2[log] <= Pow2[log]
      BY <1>1, <1>5, <2>2 DEF BaseHas
    <3>2. PICK x \in Nat \ {0} : x = Pow2[log]
      BY PowersAre
    <3>3. (chunk + 1) * x <= x
      BY <3>1, <3>2
    <3>4. chunk = 0
      <4>1. SUFFICES ASSUME chunk >= 1 PROVE FALSE
        OBVIOUS
      <4>2. (chunk + 1) * x = chunk * x + x /\ chunk * x >= x
        BY <4>1
      <4> QED BY <3>3, <4>2
    <3>5. p = 0
      BY <1>4, <3>2, <3>4
    <3>6. BaseChunk(log, chunk) = v
      BY <1>1, <1>2, <1>5, <2>2 DEF BaseChunk
    <3> QED BY <1>1, <1>2, <1>4, <3>1, <3>5, <3>6
  <2> QED BY <2>1, <2>2
<1>6. CASE base.kind = "OutOfMemory"
  <2>0. log = l /\ base.kind # "InMemory"
    BY <1>1, <1>6
  <2>1. CASE IsItself(chunk)
    <3>1. chunk = 0 /\ ~base.moved
      BY <2>1 DEF IsItself
    <3>2. BaseChunk(log, chunk) = v
      BY <1>2, <2>0, <2>1, <3>1 DEF BaseChunk, OwnEvaluation
    <3>3. p = 0
      <4>1. Pow2[log] \in Nat
        BY PowersAre
      <4> QED BY <1>4, <3>1, <4>1
    <3> QED BY <1>1, <1>2, <1>4, <2>0, <3>2, <3>3
  <2>2. CASE ~IsItself(chunk)
    <3>1. BaseChunk(log, chunk) = SubSpan(LdeAt(v, chunk), 0, log)
      BY <1>2, <2>0, <2>2 DEF BaseChunk
    <3>2. LogDegree(v.folds) <= v.log /\ chunk # -1
      BY <1>1, <1>3, <1>6, BaseIs
    <3>3. LdeAt(v, chunk) = Part(f, p, l)
      BY <1>3, <1>4, <2>0, <3>2 DEF LdeAt
    <3>4. SubSpan(Part(f, p, l), 0, log) = Part(f, p, log)
      BY <1>1, <1>4 DEF SubSpan, Part, IsUseful
    <3> QED BY <1>1, <1>4, <3>1, <3>3, <3>4
  <2> QED BY <2>1, <2>2
<1> QED
  BY <1>5, <1>6, BaseIs DEF Kinds

(* Every chunk of the layer on top is one of the base.                     *)
LEMMA ChunksFit ==
  ASSUME shape \in Shapes, LayersAre, ProxiesFold
  PROVE  /\ NChunks \in Nat \ {0} /\ LogChunk \in Nat /\ Len(proxies) \in Nat
         /\ Asked \in Nat /\ Asked = LogChunk + Len(proxies)
         /\ \A chunk \in 0..(NChunks - 1) : BaseHas(Asked, chunk) /\ ProxiesFit(LogChunk, chunk)
<1>1. PICK n \in Nat : n = Len(proxies)
  BY DEF ProxiesFold
<1>2. PICK c, s \in Nat : c = LogChunk /\ s = LogSize /\ c <= s
  <2>1. LogSize \in Int /\ LogChunk \in Nat /\ LogChunk <= LogSize
    BY LogSizeIs DEF ProxiesFold
  <2>2. LogSize \in Nat
    BY <2>1
  <2> QED BY <2>1, <2>2
<1>3. Asked = c + n
  BY <1>1, <1>2 DEF Asked
<1>4. LogLayer(base.folds) = s + n
      /\ \A k \in 0..n : LogLayer(base.folds + k) = s + n - k
  BY <1>1, <1>2, LogSizeIs DEF ProxiesFold
<1>5. NChunks = Pow2[s - c] /\ NChunks \in Nat \ {0} /\ s - c \in Nat
  <2>1. s - c \in Nat
    BY <1>2
  <2> QED BY <1>2, <2>1, PowersAre DEF NChunks
<1>6. ASSUME NEW chunk \in 0..(NChunks - 1) PROVE BaseHas(Asked, chunk)
  <2>1. CASE base.kind = "InMemory"
    <3>1. base.log = s + n
      BY <1>4, <2>1, BaseIs
    <3>2. PICK x, y \in Nat : x = Pow2[s - c] /\ y = Pow2[c + n]
      <4>1. s - c \in Nat /\ c + n \in Nat
        BY <1>1, <1>2, <1>5
      <4> QED BY <4>1, PowersAre
    <3>3. Pow2[s + n] = x * y
      <4>1. s + n = (s - c) + (c + n) /\ s - c \in Nat /\ c + n \in Nat
        BY <1>1, <1>2
      <4> QED BY <3>2, <4>1, PowersAre
    <3>4. chunk + 1 \in Nat /\ chunk + 1 <= x
      BY <1>5, <3>2
    <3>5. (chunk + 1) * y <= x * y
      BY <3>2, <3>4
    <3> QED BY <1>3, <2>1, <3>1, <3>2, <3>3, <3>5 DEF BaseHas
  <2>2. CASE base.kind = "OutOfMemory"
    <3>1. Asked = base.log /\ LogLayer(base.folds) - base.log = s - c
      BY <1>1, <1>2, <1>3, <1>4, <2>2 DEF ProxiesFold
    <3>2. chunk < Pow2[s - c] /\ Asked <= base.log
      BY <1>5, <3>1, BaseIs
    <3> QED BY <2>2, <3>1, <3>2 DEF BaseHas
  <2> QED BY <2>1, <2>2, BaseIs DEF Kinds
<1>7. ASSUME NEW chunk \in 0..(NChunks - 1) PROVE ProxiesFit(LogChunk, chunk)
  <2>1. ASSUME NEW k \in 1..n
        PROVE  proxies[k] = c + n - k /\ chunk < Pow2[LogLayer(base.folds + k) - proxies[k]]
    <3>1. proxies[k] = c + n - k
      BY <1>1, <1>3 DEF ProxiesFold
    <3>2. LogLayer(base.folds + k) = s + n - k
      BY <1>4
    <3>3. LogLayer(base.folds + k) - proxies[k] = s - c
      BY <1>1, <1>2, <3>1, <3>2
    <3>4. chunk < Pow2[s - c]
      BY <1>5
    <3> QED BY <3>1, <3>3, <3>4
  <2> QED BY <1>1, <1>2, <2>1 DEF ProxiesFit
<1> QED
  BY <1>1, <1>2, <1>3, <1>5, <1>6, <1>7

(* Folding a chunk gives the chunk of that number of the next layer. *)
LEMMA FoldIs ==
  ASSUME NEW g \in Nat, NEW m \in Nat \ {0}, NEW chunk \in Nat
  PROVE  Fold(Part(g, chunk * Pow2[m], m), chunk) = Part(g + 1, chunk * Pow2[m - 1], m - 1)
<1>1. PICK x \in Nat : x = Pow2[m - 1] /\ Pow2[m] = 2 * x
  <2>1. m - 1 \in Nat /\ (m - 1) + 1 = m
    OBVIOUS
  <2>2. Pow2[m - 1] \in Nat /\ Pow2[(m - 1) + 1] = 2 * Pow2[m - 1]
    BY <2>1, Pow2Is
  <2> QED BY <2>1, <2>2
<1>2. PICK p \in Nat : p = chunk * x
  OBVIOUS
<1>3. chunk * Pow2[m] = 2 * p
  <2>1. chunk * (2 * x) = 2 * (chunk * x)
    OBVIOUS
  <2> QED BY <1>1, <1>2, <2>1
<1>4. (2 * p) \div 2 = p
  OBVIOUS
<1>5. PICK v : v = Part(g, chunk * Pow2[m], m)
  OBVIOUS
<1>6. v.folds = g /\ v.first = chunk * Pow2[m] /\ v.log = m /\ IsUseful(v)
  BY <1>5 DEF Part, IsUseful
<1>7. Fold(v, chunk) = Part(v.folds + 1, v.first \div 2, v.log - 1)
  BY <1>6 DEF Fold
<1>8. v.first \div 2 = chunk * Pow2[m - 1]
  BY <1>1, <1>2, <1>3, <1>4, <1>6
<1> QED
  BY <1>5, <1>6, <1>7, <1>8

LEMMA FoldedIs ==
  ASSUME shape \in Shapes, LayersAre, ProxiesFold, NEW chunk \in 0..(NChunks - 1)
  PROVE  Folded(LogChunk, chunk) = Part(Folds, chunk * Pow2[LogChunk], LogChunk)
<1>1. PICK n \in Nat : n = Len(proxies)
  BY ChunksFit
<1>2. PICK c \in Nat : c = LogChunk
  BY ChunksFit
<1>3. PICK f \in Nat : f = base.folds
  BY BaseIs
<1>4. chunk \in Nat
  BY ChunksFit
<1>5. PICK first : first = BaseChunk(c + n, chunk)
  OBVIOUS
<1>6. first = Part(f, chunk * Pow2[c + n], c + n)
  <2>1. Asked = c + n /\ BaseHas(Asked, chunk) /\ Asked \in Nat
    BY <1>1, <1>2, ChunksFit
  <2>2. Asked <= base.log /\ (base.kind = "OutOfMemory" => Asked = base.log)
    BY DEF ProxiesFold
  <2>3. BaseChunk(Asked, chunk) = Part(base.folds, chunk * Pow2[Asked], Asked)
    BY <1>4, <2>1, <2>2, BaseChunkIs
  <2> QED BY <1>3, <1>5, <2>1, <2>3
<1>7. PICK h : h = [k \in 0..n |-> Part(f + k, chunk * Pow2[c + n - k], c + n - k)]
  OBVIOUS
<1>8. ASSUME NEW k \in 0..(n - 1) PROVE h[k + 1] = Fold(h[k], chunk)
  <2>1. k \in 0..n /\ k + 1 \in 0..n /\ f + k \in Nat /\ c + n - k \in Nat \ {0}
        /\ c + n - (k + 1) = (c + n - k) - 1 /\ f + (k + 1) = (f + k) + 1
    OBVIOUS
  <2>2. h[k] = Part(f + k, chunk * Pow2[c + n - k], c + n - k)
    BY <1>7, <2>1
  <2>3. h[k + 1] = Part(f + (k + 1), chunk * Pow2[c + n - (k + 1)], c + n - (k + 1))
    BY <1>7, <2>1
  <2>4. h[k + 1] = Part((f + k) + 1, chunk * Pow2[(c + n - k) - 1], (c + n - k) - 1)
    BY ONLY <2>1, <2>3
  <2>5. Fold(Part(f + k, chunk * Pow2[c + n - k], c + n - k), chunk)
          = Part((f + k) + 1, chunk * Pow2[(c + n - k) - 1], (c + n - k) - 1)
    BY ONLY <1>4, <2>1, FoldIs
  <2> QED BY <2>2, <2>4, <2>5
<1>9. h[0] = first
  <2>1. 0 \in 0..n /\ f + 0 = f /\ c + n - 0 = c + n
    OBVIOUS
  <2>2. h[0] = Part(f + 0, chunk * Pow2[c + n - 0], c + n - 0)
    BY <1>7, <2>1
  <2> QED BY ONLY <1>6, <2>1, <2>2
<1> DEFINE up == CHOOSE up : up = [k \in 0..n |-> IF k = 0 THEN first ELSE Fold(up[k - 1], chunk)]
<1>10. Folded(c, chunk) = up[n]
  BY <1>1, <1>5 DEF Folded
<1>11. up = [k \in 0..n |-> IF k = 0 THEN first ELSE Fold(up[k - 1], chunk)]
  <2>1. ASSUME NEW k \in 0..n PROVE h[k] = IF k = 0 THEN first ELSE Fold(h[k - 1], chunk)
    <3>1. CASE k # 0
      <4>1. k - 1 \in 0..(n - 1) /\ (k - 1) + 1 = k
        BY <3>1
      <4>2. h[(k - 1) + 1] = Fold(h[k - 1], chunk)
        BY <1>8, <4>1
      <4> QED BY <3>1, <4>1, <4>2
    <3> QED BY <1>9, <3>1
  <2>2. h = [k \in 0..n |-> IF k = 0 THEN first ELSE Fold(h[k - 1], chunk)]
    <3>1. PICK e : e = [k \in 0..n |-> IF k = 0 THEN first ELSE Fold(h[k - 1], chunk)]
      OBVIOUS
    <3>2. \A k \in 0..n : e[k] = h[k]
      BY <2>1, <3>1
    <3>3. h = [k \in 0..n |-> h[k]]
      BY ONLY <1>7
    <3>4. e = [k \in 0..n |-> e[k]]
      BY ONLY <3>1
    <3> QED BY <3>1, <3>2, <3>3, <3>4
  <2> QED BY <2>2
<1> HIDE DEF up
<1>12. \A k \in 0..n : up[k] = h[k]
  <2> DEFINE T == {k \in 0..n : up[k] = h[k]}
  <2>1. 0 \in T
    BY <1>9, <1>11
  <2>2. ASSUME NEW k \in 0..(n - 1), k \in T PROVE k + 1 \in T
    <3>1. k + 1 \in 0..n /\ k + 1 # 0 /\ (k + 1) - 1 = k
      OBVIOUS
    <3>2. up[k + 1] = Fold(up[k], chunk)
      BY <1>11, <3>1
    <3>3. up[k] = h[k]
      BY <2>2
    <3>4. h[k + 1] = Fold(h[k], chunk)
      BY <1>8
    <3> QED BY <3>1, <3>2, <3>3, <3>4
  <2>3. \A k \in 0..n : k \in T
    <3> HIDE DEF T
    <3> QED BY <2>1, <2>2, SegmentInduction
  <2> QED BY <2>3
<1>13. up[n] = Part(f + n, chunk * Pow2[c], c)
  <2>1. n \in 0..n /\ c + n - n = c
    OBVIOUS
  <2>2. h[n] = Part(f + n, chunk * Pow2[c + n - n], c + n - n)
    BY <1>7, <2>1
  <2>3. h[n] = Part(f + n, chunk * Pow2[c], c)
    BY ONLY <2>1, <2>2
  <2> QED BY <1>12, <2>1, <2>3
<1>14. Folds = f + n
  BY <1>1, <1>3 DEF Folds
<1> QED
  BY <1>2, <1>10, <1>13, <1>14

(* GetChunk gives the chunk, and none of the assertions on the way fails.  *)
LEMMA GetChunkIs ==
  ASSUME shape \in Shapes, LayersAre, ProxiesFold, NEW chunk \in 0..(NChunks - 1),
         base.kind = "OutOfMemory" /\ proxies = <<>> => IsItself(chunk) \/ Precomputed(chunk) = chunk
  PROVE  /\ MayGetChunk(LogChunk, chunk)
         /\ GetChunk(LogChunk, chunk) = Part(Folds, chunk * Pow2[LogChunk], LogChunk)
<1>1. /\ Asked = LogChunk + Len(proxies) /\ BaseHas(Asked, chunk) /\ ProxiesFit(LogChunk, chunk)
      /\ chunk \in Nat /\ LogChunk \in Nat
  BY ChunksFit
<1>2. MayGetChunk(LogChunk, chunk)
  <2>1. BaseHas(LogChunk + Len(proxies), chunk)
    BY <1>1
  <2>2. proxies = <<>> => LogChunk = base.log
    BY DEF LogChunk
  <2> QED BY <1>1, <2>1, <2>2 DEF MayGetChunk
<1>3. CASE proxies # <<>>
  BY <1>2, <1>3, FoldedIs DEF GetChunk
<1>4. CASE proxies = <<>>
  <2>1. PICK f, l \in Nat : f = base.folds /\ l = base.log /\ LogChunk = l /\ Folds = f
    <3>1. LogChunk = base.log /\ base.folds + 0 = base.folds /\ Len(proxies) = 0
      BY <1>4, BaseIs DEF LogChunk
    <3> QED BY <3>1, BaseIs DEF Folds
  <2>2. PICK v : v = base.evaluation /\ v = Part(f, 0, l)
    BY <2>1, BaseIs
  <2>3. v.folds = f /\ v.first = 0 /\ v.log = l /\ IsUseful(v)
    BY <2>1, <2>2 DEF Part, IsUseful
  <2>4. PICK p \in Nat : p = chunk * Pow2[l]
    BY <1>1, PowersAre
  <2>5. CASE base.kind = "InMemory"
    <3>1. GetChunk(l, chunk) = SubSpan(v, p, l)
      BY <1>4, <2>2, <2>4, <2>5 DEF GetChunk
    <3>2. SubSpan(v, p, l) = Part(f, p, l)
      BY <2>3, <2>4 DEF SubSpan, Part
    <3> QED BY <1>2, <2>1, <2>4, <3>1, <3>2
  <2>6. CASE base.kind = "OutOfMemory" /\ IsItself(chunk)
    <3>1. chunk = 0 /\ ~base.moved
      BY <2>6 DEF IsItself
    <3>2. GetChunk(l, chunk) = SubSpan(v, 0, l)
      BY <1>4, <2>2, <2>6, <3>1 DEF GetChunk, OwnEvaluation
    <3>3. SubSpan(v, 0, l) = Part(f, 0, l)
      BY <2>3 DEF SubSpan, Part
    <3>4. p = 0
      <4>1. Pow2[l] \in Nat
        BY PowersAre
      <4> QED BY <2>4, <3>1, <4>1
    <3> QED BY <1>2, <2>1, <2>4, <3>2, <3>3, <3>4
  <2>7. CASE base.kind = "OutOfMemory" /\ ~IsItself(chunk)
    <3>1. GetChunk(l, chunk) = LdeAt(v, chunk)
      BY <1>4, <2>2, <2>7 DEF GetChunk
    <3>2. LogDegree(v.folds) <= v.log /\ chunk # -1
      BY <1>1, <2>1, <2>3, <2>7, BaseIs
    <3>3. LdeAt(v, chunk) = Part(f, p, l)
      BY <2>3, <2>4, <3>2 DEF LdeAt
    <3> QED BY <1>2, <2>1, <2>4, <3>1, <3>3
  <2> QED BY <2>5, <2>6, <2>7, BaseIs DEF Kinds
<1> QED
  BY <1>3, <1>4
-----------------------------------------------------------------------------
(* Layers that are added, and layers whose evaluation is moved. *)

(* The same but for what is moved. *)
Same(old, new) ==
  /\ Len(new) = Len(old)
  /\ \A i \in 1..Len(old) : /\ new[i].kind = old[i].kind /\ new[i].folds = old[i].folds
                            /\ new[i].log = old[i].log /\ new[i].evaluation = old[i].evaluation

LEMMA WithMoved ==
  ASSUME NEW list, AreRight(list), NEW i \in 1..Len(list), NEW b \in BOOLEAN, NEW new,
         new = [list EXCEPT ![i].moved = b]
  PROVE  AreRight(new) /\ Same(list, new)
<1>1. list \in Seq(Layers) /\ list # <<>> /\ Len(list) \in Nat
  BY DEF AreRight
<1>2. PICK old : old = list[i] /\ old \in Layers
  BY <1>1
<1>3. PICK e : e = [old EXCEPT !.moved = b]
  OBVIOUS
<1>4. /\ e \in Layers /\ e.kind = old.kind /\ e.folds = old.folds /\ e.log = old.log
      /\ e.evaluation = old.evaluation
  BY <1>2, <1>3 DEF Layers
<1>5. new = [list EXCEPT ![i] = e]
  BY <1>2, <1>3
<1>6. new \in Seq(Layers) /\ Len(new) = Len(list)
      /\ \A k \in 1..Len(list) : new[k] = IF k = i THEN e ELSE list[k]
  BY <1>1, <1>4, <1>5
<1>7. Same(list, new)
  BY <1>2, <1>4, <1>6 DEF Same
<1>8. \A k \in 1..Len(new) : IsRight(new[k])
  <2>1. ASSUME NEW k \in 1..Len(list) PROVE IsRight(new[k])
    <3>1. IsRight(list[k])
      BY DEF AreRight
    <3>2. CASE k # i
      BY <1>6, <3>1, <3>2
    <3>3. CASE k = i
      <4>1. IsRight(old) /\ new[k] = e
        BY <1>2, <1>6, <3>1, <3>3
      <4> QED BY <1>4, <4>1 DEF IsRight
    <3> QED BY <3>2, <3>3
  <2> QED BY <1>6, <2>1
<1>9. new # <<>>
  BY <1>1, <1>6
<1>10. \A k, j \in 1..Len(new) : k < j /\ new[k].kind = "InMemory" => new[j].kind = "InMemory"
  BY <1>6, <1>7 DEF Same, AreRight
<1> QED
  BY <1>6, <1>7, <1>8, <1>9, <1>10 DEF AreRight

(* One is put on top of others. *)
MayFollow(layer, old) == old.kind = "InMemory" => layer.kind = "InMemory"

Longer(new, list, layer) ==
  /\ Len(list) \in Nat \ {0} /\ Len(new) = Len(list) + 1
  /\ new[Len(new)] = layer /\ \A i \in 1..Len(list) : new[i] = list[i]

LEMMA WithNew ==
  ASSUME NEW list, AreRight(list), NEW layer, IsRight(layer), MayFollow(layer, list[Len(list)])
  PROVE  AreRight(Append(list, layer)) /\ Longer(Append(list, layer), list, layer)
<1> DEFINE new == Append(list, layer)
<1>1. list \in Seq(Layers) /\ list # <<>> /\ layer \in Layers
  BY DEF AreRight, IsRight
<1>2. PICK n \in Nat \ {0} : n = Len(list)
  BY <1>1
<1>3. /\ new \in Seq(Layers) /\ Len(new) = n + 1 /\ new[n + 1] = layer
      /\ \A i \in 1..n : new[i] = list[i]
  BY <1>1, <1>2
<1> HIDE DEF new
<1>4. \A i \in 1..(n + 1) : IsRight(new[i])
  <2>1. \A i \in 1..n : IsRight(list[i])
    BY <1>2 DEF AreRight
  <2>2. ASSUME NEW i \in 1..(n + 1) PROVE IsRight(new[i])
    <3>1. CASE i = n + 1
      BY <1>3, <3>1
    <3>2. CASE i # n + 1
      <4>1. i \in 1..n
        BY <3>2
      <4> QED BY <1>3, <2>1, <4>1
    <3> QED BY <3>1, <3>2
  <2> QED BY <2>2
<1>5. ASSUME NEW i \in 1..(n + 1), NEW j \in 1..(n + 1), i < j, new[i].kind = "InMemory"
      PROVE  new[j].kind = "InMemory"
  <2>1. i \in 1..n /\ list[i].kind = "InMemory"
    BY <1>3, <1>5
  <2>2. \A k \in 1..n : i < k => list[k].kind = "InMemory"
    BY <1>2, <2>1 DEF AreRight
  <2>3. CASE j = n + 1
    <3>1. list[n].kind = "InMemory"
      BY <2>1, <2>2
    <3> QED BY <1>2, <1>3, <2>3, <3>1 DEF MayFollow
  <2>4. CASE j # n + 1
    <3>1. j \in 1..n
      BY <2>4
    <3> QED BY <1>3, <1>5, <2>2, <3>1
  <2> QED BY <2>3, <2>4
<1>6. new # <<>>
  BY <1>3
<1>7. Longer(new, list, layer)
  BY <1>2, <1>3 DEF Longer
<1>8. AreRight(new)
  BY <1>2, <1>3, <1>4, <1>5, <1>6 DEF AreRight
<1> QED
  BY <1>7, <1>8 DEF new

LEMMA WhenMoved ==
  ASSUME shape \in Shapes, LayersAre, NEW chunk
  PROVE  AreRight(Moved(chunk)) /\ Same(layers, Moved(chunk))
<1>1. AreRight(layers) /\ Len(layers) \in 1..Len(layers)
  BY BaseIs DEF LayersAre
<1>2. CASE base.kind = "OutOfMemory" /\ ~IsItself(chunk)
  <2>1. Moved(chunk) = [layers EXCEPT ![Len(layers)].moved = TRUE]
    BY <1>2 DEF Moved
  <2> QED BY <1>1, <2>1, WithMoved
<1>3. CASE ~(base.kind = "OutOfMemory" /\ ~IsItself(chunk))
  BY <1>1, <1>3 DEF Moved, Same
<1> QED
  BY <1>2, <1>3

(* The next state, with the same parameters. *)
LEMMA SameShape ==
  ASSUME shape' = shape
  PROVE  /\ Steps' = Steps /\ NLayers' = NLayers
         /\ \A n : StepsUpTo(n)' = StepsUpTo(n) /\ LogDegree(n)' = LogDegree(n)
                   /\ LogLayer(n)' = LogLayer(n) /\ NextInMemory(n)' = NextInMemory(n)
BY DEF Steps, NLayers, StepsUpTo, LogDegree, LogLayer, NextInMemory

LEMMA RightLater ==
  ASSUME shape' = shape, NEW list, list = layers', AreRight(list)
  PROVE  AreRight(layers)' /\ Len(layers') \in Nat \ {0} /\ base' = list[Len(list)]
<1>1. AreRight(layers)'
  <2>1. \A i \in 1..Len(list) : IsRight(list[i])
    BY DEF AreRight
  <2>2. \A i \in 1..Len(layers') : IsRight(layers[i])'
    BY <2>1, SameShape DEF IsRight
  <2> QED BY <2>2 DEF AreRight
<1>2. Len(list) \in Nat \ {0}
  BY DEF AreRight
<1>3. base' = list[Len(list)]
  BY DEF base, Last
<1> QED
  BY <1>1, <1>2, <1>3
-----------------------------------------------------------------------------
(* What a step leaves as it was. *)

(* The layers that are made stay what they are but for what is moved.      *)
Stay(old, new) ==
  /\ Len(old) \in Nat /\ Len(new) \in Nat /\ Len(new) >= Len(old)
  /\ \A i \in 1..Len(old) : new[i].folds = old[i].folds

LEMMA SegmentStays ==
  ASSUME LayersInv, shape' = shape, Stay(layers, layers'),
         NEW k \in 1..Len(segments), segments'[k] = segments[k]
  PROVE  SegmentIs(k)'
<1>1. SegmentIs(k)
  BY DEF LayersInv, TablesAre
<1>2. PICK i : i = segments[k].layer
  OBVIOUS
<1>3. i \in 1..Len(layers) /\ layers[i].folds = StepsUpTo(k)
  BY <1>1, <1>2 DEF SegmentIs
<1>4. i \in 1..Len(layers') /\ layers'[i].folds = StepsUpTo(k)
  BY <1>3 DEF Stay
<1>5. /\ segments[k].given \in Seq(Parts)
      /\ \A j \in 1..Len(segments[k].given) :
           LET given == segments[k].given[j]
           IN given = Part(StepsUpTo(k), (j - 1) * Pow2[given.log], given.log)
  BY <1>1 DEF SegmentIs
<1>6. StepsUpTo(k)' = StepsUpTo(k)
  BY SameShape
<1> QED
  BY <1>2, <1>4, <1>5, <1>6 DEF SegmentIs

LEMMA AnswersStay ==
  ASSUME LayersInv, shape' = shape, NEW k \in 1..Len(answers), answers'[k] = answers[k]
  PROVE  answers'[k] = Part(StepsUpTo(k)', 0, LogLayer(StepsUpTo(k))')
<1>1. answers[k] = Part(StepsUpTo(k), 0, LogLayer(StepsUpTo(k)))
  BY DEF LayersInv, TablesAre
<1>2. StepsUpTo(k)' = StepsUpTo(k) /\ LogLayer(StepsUpTo(k))' = LogLayer(StepsUpTo(k))
  BY DEF LogLayer, LogDegree, StepsUpTo, NLayers, Steps
<1> QED
  BY <1>1, <1>2

LEMMA TablesStay ==
  ASSUME LayersInv, shape' = shape, segments' = segments, answers' = answers,
         NEW list, list = layers', Len(list) \in Nat, Len(list) >= Len(layers),
         \A i \in 1..Len(layers) : list[i].folds = layers[i].folds
  PROVE  TablesAre'
<1>1. Stay(layers, layers')
  BY BaseIs DEF LayersInv, Stay
<1>2. ASSUME NEW k \in 1..Len(segments) PROVE SegmentIs(k)'
  BY <1>1, SegmentStays
<1>3. /\ segments' \in Seq(Segments) /\ Len(segments') < NLayers'
      /\ answers' \in Seq(Parts) /\ Len(answers') <= Len(segments')
  BY SameShape DEF LayersInv, TablesAre
<1>4. \A k \in 1..Len(answers') :
        answers'[k] = Part(StepsUpTo(k)', 0, LogLayer(StepsUpTo(k))')
  BY AnswersStay
<1> QED
  BY <1>2, <1>3, <1>4 DEF TablesAre

LEMMA LayersLater ==
  ASSUME shape' = shape, NEW list, list = layers', AreRight(list),
         first_in_memory' = (list[Len(list)].kind = "OutOfMemory"),
         list[Len(list)].kind = "OutOfMemory" => coset_size' = list[Len(list)].log
  PROVE  LayersAre' /\ base' = list[Len(list)] /\ Len(list) \in Nat \ {0}
<1>1. AreRight(layers)' /\ Len(layers') \in Nat \ {0} /\ base' = list[Len(list)]
  BY RightLater
<1> QED
  BY <1>1 DEF LayersAre

(* Layers are only moved, if at all, and nothing else of them changes. *)
LEMMA WhenSame ==
  ASSUME LayersInv, NEW list, list = layers', AreRight(list), Same(layers, list),
         UNCHANGED <<shape, coset_size, first_in_memory>>
  PROVE  /\ LayersAre' /\ base'.kind = base.kind /\ base'.folds = base.folds
         /\ base'.log = base.log /\ base' = list[Len(layers)] /\ Len(layers') = Len(layers)
<1>1. /\ Len(layers) \in Nat \ {0} /\ base = layers[Len(layers)]
      /\ first_in_memory = (base.kind = "OutOfMemory")
      /\ base.kind = "OutOfMemory" => coset_size = base.log
  BY BaseIs DEF LayersInv, LayersAre
<1>2. PICK n \in Nat \ {0} : n = Len(layers)
  BY <1>1
<1>3. /\ Len(list) = n /\ list[n].kind = base.kind /\ list[n].folds = base.folds
      /\ list[n].log = base.log
  BY <1>1, <1>2 DEF Same
<1> QED
  BY <1>1, <1>2, <1>3, LayersLater

LEMMA TopStays ==
  ASSUME UNCHANGED <<shape, proxies>>, base'.kind = base.kind, base'.folds = base.folds,
         base'.log = base.log
  PROVE  /\ Folds' = Folds /\ LogSize' = LogSize /\ LogChunk' = LogChunk /\ NChunks' = NChunks
         /\ Asked' = Asked /\ ProxiesFold' = ProxiesFold
<1>1. Folds' = Folds
  BY DEF Folds
<1>2. LogSize' = LogSize
  BY <1>1, SameShape DEF LogSize, LogLayer, LogDegree, StepsUpTo, NLayers, Steps
<1>3. LogChunk' = LogChunk
  BY DEF LogChunk
<1>4. NChunks' = NChunks /\ Asked' = Asked
  BY <1>2, <1>3 DEF NChunks, Asked
<1> QED
  BY <1>1, <1>2, <1>3, <1>4 DEF ProxiesFold
-----------------------------------------------------------------------------
(* The invariant holds when it starts, and each step keeps it. *)

LEMMA InitInv == Init => IInv
<1> SUFFICES ASSUME Init PROVE IInv
  OBVIOUS
<1>1. PICK log \in Nat : log = LogDegree(0) /\ StepsUpTo(0) = 0 /\ 0 <= StepsUpTo(NLayers)
  <2>1. shape \in Shapes
    BY DEF Init
  <2>2. StepsUpTo(0) = 0 /\ StepsUpTo(NLayers) \in Nat
    BY <2>1, SumsAre, ShapeIs
  <2> QED BY <2>1, <2>2, LogsAre
<1>2. PICK new : new = OutOfMemory(0, log, Part(0, 0, log))
  OBVIOUS
<1>3. /\ new \in Layers /\ new.kind = "OutOfMemory" /\ new.folds = 0 /\ new.log = log
      /\ new.evaluation = Part(0, 0, log) /\ new.moved = FALSE
  <2>1. Part(0, 0, log) \in Parts
    BY DEF Part, Parts
  <2> QED BY <1>2, <2>1 DEF OutOfMemory, Layer, Layers, Kinds
<1>4. layers = <<new>>
  BY <1>1, <1>2 DEF Init
<1>5. IsRight(new)
  BY <1>1, <1>3 DEF IsRight
<1>6. AreRight(layers) /\ base = new
  <2>1. layers \in Seq(Layers) /\ layers # <<>> /\ Len(layers) = 1 /\ layers[1] = new
    BY <1>3, <1>4
  <2>2. base = new
    BY <2>1 DEF base, Last
  <2> QED BY <1>5, <2>1, <2>2 DEF AreRight
<1>7. LayersAre
  BY <1>1, <1>3, <1>6 DEF LayersAre, Init
<1>8. shape \in Shapes /\ layer_num = 1 /\ NLayers \in Nat \ {0}
  BY ShapeIs DEF Init
<1>9. TablesAre
  <2>1. segments = <<>> /\ answers = <<>>
    BY DEF Init
  <2> QED BY <1>8, <2>1 DEF TablesAre
<1>10. AtCreate
  <2>1. /\ pc = "CreateNextFriLayer" /\ proxies = <<>> /\ Idle /\ layer_num = 1
        /\ segments = <<>> /\ answers = <<>>
    BY DEF Init, Idle
  <2> QED BY <1>1, <1>3, <1>6, <2>1 DEF AtCreate, Tables
<1> QED
  BY <1>7, <1>8, <1>9, <1>10 DEF IInv, LayersInv, Init

(* What the next layer starts from. *)
LEMMA AtCreateIs ==
  ASSUME LayersInv, AtCreate
  PROVE  /\ fri_step \in Nat /\ LogSize \in Nat /\ LogSize = LogLayer(StepsUpTo(layer_num - 1))
         /\ LogChunk = base.log /\ LogChunk \in Nat /\ LogChunk <= LogSize
         /\ fri_step <= LogChunk
         /\ base.kind = "OutOfMemory" => /\ LogChunk = LogDegree(StepsUpTo(layer_num - 1))
                                         /\ LogChunk < LogSize
         /\ StepsUpTo(layer_num) = StepsUpTo(layer_num - 1) + fri_step
         /\ LogLayer(StepsUpTo(layer_num)) <= LogSize
<1>1. shape \in Shapes /\ LayersAre /\ layer_num \in 1..NLayers /\ NLayers \in Nat
  BY ShapeIs DEF LayersInv
<1>2. PICK l, N \in Nat : l = layer_num /\ N = NLayers /\ 1 <= l /\ l <= N
  BY <1>1
<1>3. PICK s, t, total, fri \in Nat :
        /\ s = StepsUpTo(l - 1) /\ t = StepsUpTo(l) /\ total = StepsUpTo(N) /\ fri = fri_step
        /\ t = s + fri /\ t <= total
  <2>1. /\ l - 1 \in 0..NLayers /\ l \in 0..NLayers /\ N \in 0..NLayers /\ l \in 1..NLayers
    BY <1>2
  <2>2. Steps[l] \in Nat
    BY <1>1, <2>1, ShapeIs
  <2> QED BY <1>1, <1>2, <2>1, <2>2, SumsAre DEF fri_step
<1>4. PICK ds, dt, ls, lt \in Nat :
        /\ ds = LogDegree(s) /\ ls = LogLayer(s) /\ dt = LogDegree(t) /\ lt = LogLayer(t)
        /\ ds < ls /\ ds = dt + fri /\ ls = lt + fri
  <2>1. s <= StepsUpTo(NLayers) /\ t <= StepsUpTo(NLayers)
    BY <1>2, <1>3
  <2>2. /\ LogDegree(s) \in Nat /\ LogLayer(s) \in Nat /\ LogDegree(s) < LogLayer(s)
        /\ LogDegree(t) \in Nat /\ LogLayer(t) \in Nat
    BY <1>1, <2>1, LogsAre
  <2>3. PICK last, blowup \in Nat : last = shape.logLastDegree /\ blowup = shape.logBlowup
    BY <1>1, ShapeIs
  <2>4. /\ LogDegree(s) = total + last - s /\ LogDegree(t) = total + last - t
        /\ LogLayer(s) = total + last - s + blowup /\ LogLayer(t) = total + last - t + blowup
    BY <1>2, <1>3, <2>3 DEF LogDegree, LogLayer
  <2> QED BY <1>3, <2>2, <2>3, <2>4
<1>5. proxies = <<>> /\ base.folds = s
  BY <1>2, <1>3 DEF AtCreate
<1>6. Folds = s /\ LogSize = ls /\ LogChunk = base.log
  <2>1. Len(proxies) = 0
    BY <1>5
  <2>2. Folds = s
    BY <1>5, <2>1 DEF Folds
  <2> QED BY <1>4, <1>5, <2>2 DEF LogSize, LogChunk
<1>7. /\ base.kind \in Kinds
      /\ base.kind = "InMemory" => base.log = ls
      /\ base.kind = "OutOfMemory" => base.log = ds
  BY <1>1, <1>4, <1>5, BaseIs
<1>8. PICK b \in Nat : b = base.log /\ fri <= b /\ b <= ls /\ (base.kind = "OutOfMemory" => b < ls)
  BY <1>4, <1>7 DEF Kinds
<1> QED
  BY <1>2, <1>3, <1>4, <1>6, <1>7, <1>8

(* The proxies that are put on a layer fold it. *)
LEMMA NewProxies ==
  ASSUME LayersInv, AtCreate, proxies' = ChunkSizes(fri_step),
         UNCHANGED <<shape, layers, layer_num>>
  PROVE  /\ ProxiesFold' /\ Len(proxies') = fri_step /\ Folds' = StepsUpTo(layer_num)
         /\ NChunks' \in Nat \ {0}
         /\ proxies' = <<>> => ~base.moved
<1>1. shape \in Shapes /\ LayersAre /\ layer_num \in 1..NLayers /\ proxies = <<>>
  BY DEF LayersInv, AtCreate
<1>2. PICK n, size, chunk \in Nat :
        /\ n = fri_step /\ size = LogSize /\ chunk = LogChunk /\ chunk = base.log
        /\ n <= chunk /\ chunk <= size /\ (base.kind = "OutOfMemory" => chunk < size)
  BY AtCreateIs
<1>3. PICK c \in Nat : /\ n <= c /\ c <= chunk /\ (chunk < size \/ n = 0 => c = chunk)
                       /\ proxies' = [k \in 1..n |-> c - k]
  <2>1. CASE n = 0
    <3>1. proxies' = [k \in 1..0 |-> chunk - k]
      BY <1>2, <2>1 DEF ChunkSizes
    <3> QED BY <1>2, <2>1, <3>1
  <2>2. CASE n # 0
    <3>1. PICK nonchunked \in Nat, cut \in Nat \ {0} :
            nonchunked = shape.logNonChunked /\ cut = shape.logChunks
      BY <1>1, ShapeIs
    <3>2. /\ n \in Nat \ {0} /\ size \in Nat /\ chunk \in Nat /\ nonchunked \in Nat
          /\ cut \in Nat \ {0} /\ n <= nonchunked + 1
      BY <1>1, <1>2, <2>2, <3>1, ShapeIs DEF fri_step
    <3>3. \E c \in Nat : /\ n <= c /\ c <= chunk /\ (chunk < size => c = chunk)
                         /\ Halves(ChunkSizes(n), n, c)
      BY ONLY <1>2, <3>1, <3>2, ChunkSizesAre
    <3> QED BY <1>2, <2>2, <3>3 DEF Halves
  <2> QED BY <2>1, <2>2
<1>4. proxies' \in Seq(Nat) /\ Len(proxies') = n /\ \A k \in 1..n : proxies'[k] = c - k
  <2>1. \A k \in 1..n : c - k \in Nat
    BY <1>3
  <2>2. proxies' \in [1..n -> Nat]
    BY <1>3, <2>1
  <2> QED BY <1>3, <2>2
<1>5. LogChunk' = c - n /\ base' = base
  <2>1. base' = base
    BY DEF base
  <2>2. CASE n = 0
    <3>1. proxies' = <<>>
      BY <1>4, <2>2
    <3>2. c = chunk
      BY <1>3, <2>2
    <3> QED BY <1>2, <2>1, <2>2, <3>1, <3>2 DEF LogChunk
  <2>3. CASE n # 0
    <3>1. proxies' # <<>> /\ Last(proxies') = c - n
      BY <1>4, <2>3 DEF Last
    <3> QED BY <3>1, <2>1 DEF LogChunk
  <2> QED BY <2>1, <2>2, <2>3
<1>6. Folds' = StepsUpTo(layer_num) /\ LogSize' = size - n
  <2>1. PICK s \in Nat : /\ s = StepsUpTo(layer_num - 1) /\ s = base.folds /\ s + n = StepsUpTo(layer_num)
                         /\ size = LogLayer(s)
    <3>1. layer_num - 1 \in 0..NLayers
      BY <1>1, ShapeIs
    <3> QED BY <1>1, <1>2, <3>1, SumsAre, AtCreateIs DEF AtCreate
  <2>2. Folds' = s + n
    BY <1>4, <1>5, <2>1 DEF Folds
  <2>3. LogSize' = LogLayer(s + n)
    BY <2>2, SameShape DEF LogSize, LogLayer, LogDegree, StepsUpTo, NLayers, Steps
  <2>4. LogLayer(s + n) = size - n
    <3>1. PICK total, last, blowup \in Nat :
            total = StepsUpTo(NLayers) /\ last = shape.logLastDegree /\ blowup = shape.logBlowup
      BY <1>1, ShapeIs, SumsAre
    <3> QED BY <2>1, <3>1 DEF LogLayer, LogDegree
  <2> QED BY <2>1, <2>2, <2>3, <2>4
<1>7. Asked' = c
  BY <1>3, <1>4, <1>5 DEF Asked
<1>8. ProxiesFold'
  <2>1. LogChunk' \in Nat /\ LogChunk' <= LogSize'
    BY <1>2, <1>3, <1>5, <1>6
  <2>2. Asked' <= base'.log /\ (base'.kind = "OutOfMemory" => Asked' = base'.log)
    BY <1>2, <1>3, <1>5, <1>7
  <2> QED BY <1>4, <1>7, <2>1, <2>2 DEF ProxiesFold
<1>9. NChunks' \in Nat \ {0}
  <2>1. (size - n) - (c - n) \in Nat
    BY <1>2, <1>3
  <2> QED BY <1>5, <1>6, <2>1, PowersAre DEF NChunks
<1>10. proxies' = <<>> => ~base.moved
  <2>1. \A i \in 2..NLayers : Steps[i] # 0
    BY <1>1, ShapeIs
  <2>2. n = 0 => layer_num = 1
    <3>1. NLayers \in Nat /\ layer_num \in 1..NLayers /\ n = Steps[layer_num]
      BY <1>1, <1>2, ShapeIs DEF fri_step
    <3>2. CASE layer_num = 1
      BY <3>2
    <3>3. CASE layer_num # 1
      <4>1. layer_num \in 2..NLayers
        BY <3>1, <3>3
      <4> QED BY <2>1, <3>1, <4>1
    <3> QED BY <3>2, <3>3
  <2> QED BY <1>4, <2>2 DEF AtCreate
<1> QED
  BY <1>2, <1>4, <1>6, <1>8, <1>9, <1>10

(* Whichever layer is to follow, there will be none but those in memory    *)
(* after it if it is.                                                      *)
LEMMA WhichFollows ==
  ASSUME LayersInv, AtCreate
  PROVE  /\ is_in_memory => NextInMemory(layer_num)
         /\ ~is_in_memory => base.kind = "OutOfMemory" /\ layer_num < NLayers
<1>1. PICK l, N \in Nat : l = layer_num /\ N = NLayers /\ 1 <= l /\ l <= N
  BY ShapeIs DEF LayersInv
<1>2. PICK memory \in Nat : memory = shape.logInMemory
  BY ShapeIs DEF LayersInv
<1>3. PICK s, fri, chunk, size, later \in Nat :
        /\ s = StepsUpTo(l - 1) /\ fri = fri_step /\ chunk = LogChunk /\ size = LogSize
        /\ size = LogLayer(s) /\ later = LogLayer(StepsUpTo(l)) /\ later <= size
        /\ StepsUpTo(l) = s + fri
        /\ (base.kind = "OutOfMemory" => chunk = LogDegree(s))
  <2>1. l - 1 \in 0..NLayers /\ l \in 0..NLayers /\ shape \in Shapes
    BY <1>1 DEF LayersInv
  <2>2. StepsUpTo(l - 1) \in Nat /\ StepsUpTo(l) \in Nat /\ StepsUpTo(l) <= StepsUpTo(NLayers)
    BY <2>1, SumsAre
  <2>3. LogLayer(StepsUpTo(l)) \in Nat
    BY <2>1, <2>2, LogsAre
  <2> QED BY <1>1, <2>2, <2>3, AtCreateIs
<1>4. base.kind \in Kinds /\ (base.kind = "InMemory" => NextInMemory(l - 1))
  BY <1>1, BaseIs DEF LayersInv, AtCreate
<1>5. base.kind = "InMemory" => size <= memory \/ l = N
  <2>1. base.kind = "InMemory" => LogLayer(s) <= shape.logInMemory \/ l - 1 + 1 >= NLayers
    BY <1>3, <1>4 DEF NextInMemory
  <2> QED BY <1>1, <1>2, <1>3, <2>1
<1>6. ASSUME is_in_memory PROVE NextInMemory(l)
  <2>1. CASE size <= memory
    <3>1. later <= memory
      BY <1>3, <2>1
    <3> QED BY <1>2, <1>3, <3>1 DEF NextInMemory
  <2>2. CASE l = N
    BY <1>1, <2>2 DEF NextInMemory
  <2>3. CASE ~(size <= memory) /\ l # N /\ l + 1 # N
    <3>1. base.kind = "OutOfMemory" /\ chunk = LogDegree(s)
      BY <1>3, <1>4, <1>5, <2>3 DEF Kinds
    <3>2. l + 1 \in 1..(NLayers - 1) /\ l + 1 \in 1..NLayers /\ shape \in Shapes
      BY <1>1, <2>3 DEF LayersInv
    <3>3. PICK next, total, last \in Nat :
            /\ next = Steps[l + 1] /\ total = StepsUpTo(NLayers) /\ last = shape.logLastDegree
            /\ s + fri + next < total
      <4>1. Steps[l + 1] \in Nat /\ StepsUpTo(NLayers) \in Nat /\ shape.logLastDegree \in Nat
        BY <3>2, ShapeIs, SumsAre
      <4>2. StepsUpTo(l + 1) < StepsUpTo(NLayers)
        BY <3>2, SumsAre
      <4>3. StepsUpTo(l + 1) = StepsUpTo((l + 1) - 1) + Steps[l + 1]
        BY <3>2, SumsAre
      <4>4. StepsUpTo((l + 1) - 1) = s + fri
        <5>1. (l + 1) - 1 = l
          OBVIOUS
        <5> QED BY <1>3, <5>1
      <4> QED BY <4>1, <4>2, <4>3, <4>4
    <3>4. chunk = total + last - s
      BY <3>1, <3>3 DEF LogDegree
    <3>5. next_fri_step = next
      BY <1>1, <2>3, <3>3 DEF next_fri_step
    <3>6. ~is_chunk_too_small
      <4>1. ~(chunk - (next + fri) < 1)
        BY <3>3, <3>4
      <4> QED BY <1>3, <3>5, <4>1 DEF is_chunk_too_small
    <3> QED BY <1>1, <1>2, <1>3, <1>6, <2>3, <3>6 DEF is_in_memory
  <2>4. CASE l + 1 = N
    BY <1>1, <2>4 DEF NextInMemory
  <2> QED BY <2>1, <2>2, <2>3, <2>4
<1>7. ASSUME ~is_in_memory PROVE base.kind = "OutOfMemory" /\ l < N
  <2>1. ~(size <= memory) /\ l # N
    BY <1>1, <1>2, <1>3, <1>7 DEF is_in_memory
  <2> QED BY <1>1, <1>4, <1>5, <2>1 DEF Kinds
<1> QED
  BY <1>1, <1>6, <1>7

LEMMA CreateStep ==
  ASSUME LayersInv, chunk_index \in Nat, AtCreate, CreateNextFriLayer
  PROVE  IInv'
<1>1. /\ UNCHANGED <<shape, layers, layer_num, coset_size, first_in_memory>>
      /\ UNCHANGED <<chunk_index, storage, vector, segments, answers>>
      /\ proxies' = ChunkSizes(fri_step)
      /\ pc' = IF is_in_memory
               THEN IF first_in_memory /\ fri_step # 0 THEN "Smaller" ELSE "InMemory"
               ELSE "OutOfMemory"
  BY DEF CreateNextFriLayer, loop
<1>2. PICK list : list = layers
  OBVIOUS
<1>3. AreRight(list) /\ Len(list) \in Nat /\ base = list[Len(list)]
  BY <1>2, BaseIs DEF LayersInv, LayersAre
<1>4. LayersAre' /\ base' = base
  BY <1>1, <1>2, <1>3, LayersLater DEF LayersInv, LayersAre
<1>5. TablesAre'
  BY <1>1, <1>2, <1>3, TablesStay
<1>6. LayersInv'
  BY <1>1, <1>4, <1>5, SameShape DEF LayersInv
<1>7. /\ ProxiesFold' /\ Len(proxies') = fri_step /\ Folds' = StepsUpTo(layer_num)
      /\ NChunks' \in Nat \ {0} /\ (proxies' = <<>> => ~base.moved)
  BY <1>1, NewProxies
<1>8. StepsUpTo(layer_num)' = StepsUpTo(layer_num) /\ NextInMemory(layer_num)' = NextInMemory(layer_num)
  BY <1>1 DEF StepsUpTo, Steps, NextInMemory, LogLayer, LogDegree, NLayers
<1>9. fri_step' = fri_step /\ NLayers' = NLayers
  BY <1>1, SameShape DEF fri_step
<1>10. chunk_index = 0 /\ vector = <<>> /\ storage = -1 /\ Tables(layer_num - 1)
  BY DEF AtCreate, Idle
<1>11. Idle' /\ Tables(layer_num - 1)'
  BY <1>1, <1>10 DEF Idle, Tables
<1>12. CASE is_in_memory /\ first_in_memory /\ fri_step # 0
  <2>1. pc' = "Smaller" /\ NextInMemory(layer_num)
    BY <1>1, <1>12, WhichFollows
  <2>2. base.kind = "OutOfMemory"
    BY <1>12 DEF LayersInv, LayersAre
  <2>3. AtMake'
    BY <1>4, <1>7, <1>8, <1>9, <1>11, <2>1, <2>2 DEF AtMake
  <2> QED BY <1>1, <1>6, <2>3 DEF IInv
<1>13. CASE is_in_memory /\ ~(first_in_memory /\ fri_step # 0)
  <2>1. pc' = "InMemory" /\ NextInMemory(layer_num)
    BY <1>1, <1>13, WhichFollows
  <2>2. ReadSoFar(chunk_index)'
    <3>1. chunk_index' = 0 /\ vector' = <<>> /\ storage' = -1
      BY <1>1, <1>10
    <3> QED BY <1>4, <1>7, <3>1 DEF ReadSoFar
  <2>3. chunk_index' < NChunks'
    BY <1>1, <1>7, <1>10
  <2>4. AtGather'
    BY <1>7, <1>8, <1>11, <2>1, <2>2, <2>3 DEF AtGather
  <2> QED BY <1>1, <1>6, <2>4 DEF IInv
<1>14. CASE ~is_in_memory
  <2>1. pc' = "OutOfMemory" /\ base.kind = "OutOfMemory" /\ layer_num < NLayers
    BY <1>1, <1>14, WhichFollows
  <2>2. AtMake'
    BY <1>1, <1>4, <1>7, <1>8, <1>9, <1>11, <2>1 DEF AtMake
  <2> QED BY <1>1, <1>6, <2>2 DEF IInv
<1> QED
  BY <1>12, <1>13, <1>14

(* A layer without proxies, as it is found by the next step. *)
LEMMA Uncovered ==
  ASSUME shape' = shape, proxies' = <<>>, NEW f \in Nat, base'.folds = f,
         NEW g \in Nat, base'.log = g, NEW s \in Nat, LogLayer(f) = s, g <= s
  PROVE  Folds' = f /\ LogChunk' = g /\ ProxiesFold' /\ NChunks' \in Nat \ {0}
<1>1. Len(proxies') = 0
  OBVIOUS
<1>2. Folds' = f
  BY <1>1 DEF Folds
<1>3. LogSize' = s
  BY <1>2, SameShape DEF LogSize, LogLayer, LogDegree, StepsUpTo, NLayers, Steps
<1>4. LogChunk' = g
  BY DEF LogChunk
<1>5. Asked' = g
  BY <1>1, <1>4 DEF Asked
<1>6. NChunks' \in Nat \ {0}
  <2>1. s - g \in Nat
    OBVIOUS
  <2> QED BY <1>3, <1>4, <2>1, PowersAre DEF NChunks
<1>7. ProxiesFold'
  <2>1. proxies' \in Seq(Nat) /\ \A k \in 1..Len(proxies') : proxies'[k] = Asked' - k
    BY <1>1
  <2> QED BY <1>3, <1>4, <1>5, <2>1 DEF ProxiesFold
<1> QED
  BY <1>2, <1>4, <1>6, <1>7

(* The first chunk is read without twiddle factors, and is a coset of the  *)
(* layer that can be interpolated.                                         *)
LEMMA FirstChunk ==
  ASSUME LayersInv, AtMake
  PROVE  /\ MayMakeOutOfMemory /\ NewCosetSize = LogChunk /\ LogChunk \in Nat
         /\ Folds \in Nat /\ Folds <= StepsUpTo(NLayers) /\ LogChunk = LogDegree(Folds)
         /\ LogLayer(Folds) \in Nat /\ LogChunk <= LogLayer(Folds)
         /\ GetChunk(NewCosetSize, 0) = Part(Folds, 0, LogChunk)
<1>1. /\ shape \in Shapes /\ LayersAre /\ layer_num \in 1..NLayers /\ NLayers \in Nat
      /\ ProxiesFold /\ base.kind = "OutOfMemory" /\ Len(proxies) = fri_step
      /\ (proxies = <<>> => ~base.moved)
  BY ShapeIs DEF LayersInv, AtMake
<1>2. PICK n, c \in Nat : n = Len(proxies) /\ c = LogChunk /\ n = fri_step
  BY <1>1 DEF ProxiesFold
<1>3. base.log = c + n /\ coset_size = c + n
  <2>1. Asked = c + n
    BY <1>2 DEF Asked
  <2>2. base.log = Asked
    BY <1>1 DEF ProxiesFold
  <2> QED BY <1>1, <2>1, <2>2 DEF LayersAre
<1>4. NewCosetSize = c
  BY <1>2, <1>3 DEF NewCosetSize
<1>5. PICK f, total, last, blowup \in Nat :
        /\ f = base.folds /\ total = StepsUpTo(NLayers) /\ last = shape.logLastDegree
        /\ blowup = shape.logBlowup
  <2>1. base.folds \in Nat /\ shape.logLastDegree \in Nat /\ shape.logBlowup \in Nat
    BY <1>1, BaseIs, ShapeIs
  <2>2. NLayers \in 0..NLayers
    BY <1>1
  <2>3. StepsUpTo(NLayers) \in Nat
    BY <1>1, <2>2, SumsAre
  <2> QED BY <2>1, <2>3
<1>6. Folds = f + n /\ f + n \in Nat /\ f + n <= total
  <2>1. layer_num \in 0..NLayers
    BY <1>1
  <2>2. Folds = StepsUpTo(layer_num) /\ StepsUpTo(layer_num) <= total
    BY <1>5, <2>1, <1>1, SumsAre DEF AtMake
  <2>3. Folds = f + n
    BY <1>2, <1>5 DEF Folds
  <2> QED BY <2>2, <2>3
<1>7. c = LogDegree(f + n)
  <2>1. c + n = LogDegree(f)
    BY <1>1, <1>3, <1>5, BaseIs
  <2>2. LogDegree(f) = total + last - f /\ LogDegree(f + n) = total + last - (f + n)
    BY <1>5 DEF LogDegree
  <2>3. c = total + last - (f + n)
    BY <2>1, <2>2
  <2> QED BY <2>2, <2>3
<1>8. LogLayer(f + n) \in Nat /\ c <= LogLayer(f + n)
  <2>1. LogLayer(f + n) = total + last - (f + n) + blowup
    BY <1>5 DEF LogLayer, LogDegree
  <2>2. LogDegree(f + n) = total + last - (f + n)
    BY <1>5 DEF LogDegree
  <2> QED BY <1>2, <1>5, <1>6, <1>7, <2>1, <2>2
<1>9. proxies = <<>> => IsItself(0)
  BY <1>1 DEF IsItself
<1>10. MayGetChunk(c, 0) /\ GetChunk(c, 0) = Part(f + n, 0, c)
  <2>1. 0 \in 0..(NChunks - 1)
    BY <1>1, ChunksFit
  <2>2. MayGetChunk(c, 0) /\ GetChunk(c, 0) = Part(Folds, 0 * Pow2[c], c)
    BY <1>1, <1>2, <1>9, <2>1, GetChunkIs
  <2>3. 0 * Pow2[c] = 0
    <3>1. PICK x \in Nat : x = Pow2[c]
      BY PowersAre
    <3> QED BY <3>1
  <2> QED BY <1>6, <2>2, <2>3
<1>11. ~UsesTwiddles(0)
  BY <1>9 DEF UsesTwiddles
<1>12. c \in 0..LogSize
  BY <1>1, <1>2, <1>6, <1>8 DEF ProxiesFold, LogSize
<1> QED
  BY <1>2, <1>4, <1>5, <1>6, <1>7, <1>8, <1>10, <1>11, <1>12 DEF MayMakeOutOfMemory

LEMMA MakeStep ==
  ASSUME LayersInv, chunk_index \in Nat, AtMake, MakeOutOfMemory
  PROVE  IInv'
<1>1. PICK f, c, s \in Nat :
        /\ f = Folds /\ c = LogChunk /\ s = LogLayer(f) /\ c <= s /\ c = LogDegree(f)
        /\ f <= StepsUpTo(NLayers) /\ NewCosetSize = c
        /\ GetChunk(NewCosetSize, 0) = Part(f, 0, c)
  BY FirstChunk
<1>2. PICK new : new = OutOfMemory(f, c, Part(f, 0, c))
  OBVIOUS
<1>3. /\ layers' = Append(Moved(0), new) /\ coset_size' = c /\ proxies' = <<>>
      /\ pc' = IF pc = "Smaller" THEN "InMemory"
               ELSE IF layer_num = NLayers THEN "failed" ELSE "Commit"
      /\ UNCHANGED <<shape, layer_num, first_in_memory, segments, answers>>
      /\ UNCHANGED <<chunk_index, storage, vector>>
  BY <1>1, <1>2, FirstChunk DEF MakeOutOfMemory, loop
<1>4. /\ new \in Layers /\ new.kind = "OutOfMemory" /\ new.folds = f /\ new.log = c
      /\ new.evaluation = Part(f, 0, c) /\ new.moved = FALSE
  <2>1. Part(f, 0, c) \in Parts
    BY DEF Part, Parts
  <2> QED BY <1>2, <2>1 DEF OutOfMemory, Layer, Layers, Kinds
<1>5. IsRight(new)
  BY <1>1, <1>4 DEF IsRight
<1>6. PICK before : before = Moved(0) /\ AreRight(before) /\ Same(layers, before)
  BY WhenMoved DEF LayersInv
<1>7. PICK n \in Nat \ {0} :
        n = Len(layers) /\ n = Len(before) /\ before[n].kind = "OutOfMemory"
  BY <1>6, BaseIs DEF LayersInv, Same, AtMake
<1>8. PICK list : list = Append(before, new)
  OBVIOUS
<1>9. /\ AreRight(list) /\ Len(list) = n + 1 /\ list[n + 1] = new
      /\ \A i \in 1..n : list[i] = before[i]
  <2>1. MayFollow(new, before[Len(before)])
    BY <1>7 DEF MayFollow
  <2>2. AreRight(list) /\ Longer(list, before, new)
    BY <1>5, <1>6, <1>8, <2>1, WithNew
  <2> QED BY <1>7, <2>2 DEF Longer
<1>10. LayersAre' /\ base' = new
  <2>1. list = layers' /\ list[Len(list)] = new
    BY <1>3, <1>6, <1>7, <1>8, <1>9
  <2>2. first_in_memory' = TRUE
    BY <1>3 DEF LayersInv, LayersAre, AtMake
  <2> QED BY <1>3, <1>4, <1>9, <2>1, <2>2, LayersLater
<1>11. TablesAre'
  <2>1. \A i \in 1..Len(layers) : list[i].folds = layers[i].folds
    BY <1>6, <1>7, <1>9 DEF Same
  <2>2. list = layers' /\ Len(list) \in Nat /\ Len(list) >= Len(layers)
    BY <1>3, <1>6, <1>7, <1>8, <1>9
  <2> QED BY <1>3, <2>1, <2>2, TablesStay
<1>12. LayersInv'
  BY <1>3, <1>10, <1>11, SameShape DEF LayersInv
<1>13. Folds' = f /\ LogChunk' = c /\ ProxiesFold' /\ NChunks' \in Nat \ {0}
  BY <1>1, <1>3, <1>4, <1>10, Uncovered
<1>14. /\ StepsUpTo(layer_num)' = StepsUpTo(layer_num)
       /\ NextInMemory(layer_num)' = NextInMemory(layer_num) /\ NLayers' = NLayers
  BY <1>3 DEF StepsUpTo, Steps, NextInMemory, LogLayer, LogDegree, NLayers
<1>15. /\ chunk_index = 0 /\ vector = <<>> /\ storage = -1 /\ Tables(layer_num - 1)
       /\ f = StepsUpTo(layer_num)
  BY <1>1 DEF AtMake, Idle
<1>16. chunk_index' = 0 /\ vector' = <<>> /\ storage' = -1 /\ Tables(layer_num - 1)'
  BY <1>3, <1>15 DEF Tables
<1>17. CASE pc = "Smaller"
  <2>1. pc' = "InMemory" /\ NextInMemory(layer_num)
    BY <1>3, <1>17 DEF AtMake
  <2>2. ReadSoFar(chunk_index)'
    BY <1>4, <1>10, <1>16 DEF ReadSoFar
  <2>3. chunk_index' < NChunks'
    BY <1>13, <1>16
  <2>4. AtGather'
    BY <1>13, <1>14, <1>15, <1>16, <2>1, <2>2, <2>3 DEF AtGather
  <2> QED BY <1>12, <1>16, <2>4 DEF IInv
<1>18. CASE pc = "OutOfMemory"
  <2>1. layer_num < NLayers /\ pc' = "Commit"
    <3>1. layer_num < NLayers /\ layer_num \in Nat /\ NLayers \in Nat
      BY <1>18, ShapeIs DEF AtMake, LayersInv
    <3> QED BY <1>3, <1>18, <3>1
  <2>2. chunk_index' < NChunks'
    BY <1>13, <1>16
  <2>3. AtCommit'
    BY <1>3, <1>4, <1>10, <1>14, <1>15, <1>16, <2>1, <2>2 DEF AtCommit
  <2> QED BY <1>12, <1>16, <2>3 DEF IInv
<1> QED
  BY <1>17, <1>18 DEF AtMake

(* GetAllEvaluation reads the next chunk of the layer on top. *)
LEMMA ReadStep ==
  ASSUME LayersInv, chunk_index \in Nat, ProxiesFold, ReadSoFar(chunk_index),
         NEW from, NEW to, GetAllEvaluation(from, to)
  PROVE  /\ LayersInv' /\ ProxiesFold' /\ ReadSoFar(chunk_index)' /\ chunk_index' \in Nat
         /\ chunk_index < NChunks /\ chunk_index' = chunk_index + 1 /\ NChunks' = NChunks
         /\ Folds' = Folds /\ base'.kind = base.kind /\ base'.folds = base.folds
         /\ pc = from /\ pc' = (IF chunk_index' = NChunks THEN to ELSE pc)
         /\ UNCHANGED <<shape, proxies, layer_num, segments, answers>>
<1>1. pc = from /\ chunk_index < NChunks
  BY DEF GetAllEvaluation
<1>2. shape \in Shapes /\ LayersAre /\ NChunks \in Nat \ {0}
  BY ChunksFit DEF LayersInv
<1>3. PICK n \in Nat : n = chunk_index /\ n < NChunks
  BY <1>1
<1>4. PICK c \in Nat : c = LogChunk
  BY DEF ProxiesFold
<1>5. n \in 0..(NChunks - 1)
  BY <1>2, <1>3
<1>6. base.kind = "OutOfMemory" /\ proxies = <<>> =>
        /\ n = 0 => IsItself(n)
        /\ n # 0 => ~IsItself(n) /\ Precomputed(n) = n
  <2>1. SUFFICES ASSUME base.kind = "OutOfMemory", proxies = <<>>
                 PROVE  /\ n = 0 => IsItself(n)
                        /\ n # 0 => ~IsItself(n) /\ Precomputed(n) = n
    OBVIOUS
  <2>2. /\ n = 0 => ~base.moved
        /\ storage = IF n <= 1 THEN -1 ELSE n - 1
    BY <1>3, <2>1 DEF ReadSoFar
  <2>3. n = 0 => IsItself(n)
    BY <2>1, <2>2 DEF IsItself
  <2>4. ASSUME n # 0 PROVE ~IsItself(n) /\ Precomputed(n) = n
    <3>1. CASE n = 1
      BY <2>2, <3>1 DEF IsItself, Precomputed
    <3>2. CASE n > 1
      <4>1. storage = n - 1 /\ storage # -1
        BY <2>2, <3>2
      <4> QED BY <3>2, <4>1 DEF IsItself, Precomputed
    <3> QED BY <2>4, <3>1, <3>2
  <2> QED BY <2>3, <2>4
<1>7. PICK new : new = Part(Folds, n * Pow2[c], c)
  OBVIOUS
<1>8. MayGetChunk(LogChunk, n) /\ GetChunk(LogChunk, n) = new
  <2>1. base.kind = "OutOfMemory" /\ proxies = <<>> => IsItself(n) \/ Precomputed(n) = n
    BY <1>6
  <2>2. /\ MayGetChunk(LogChunk, n)
        /\ GetChunk(LogChunk, n) = Part(Folds, n * Pow2[LogChunk], LogChunk)
    BY <1>2, <1>5, <2>1, GetChunkIs
  <2> QED BY <1>4, <1>7, <2>2
<1>9. /\ vector' = Append(vector, new) /\ layers' = Moved(n) /\ chunk_index' = n + 1
      /\ storage' = IF UsesTwiddles(n) THEN Precomputed(n) ELSE storage
      /\ pc' = IF chunk_index' = NChunks THEN to ELSE pc
      /\ UNCHANGED <<shape, proxies, layer_num, coset_size, first_in_memory, segments, answers>>
  BY <1>3, <1>8 DEF GetAllEvaluation
<1>10. PICK list : list = Moved(n) /\ AreRight(list) /\ Same(layers, list)
  BY <1>2, WhenMoved
<1>11. /\ LayersAre' /\ base'.kind = base.kind /\ base'.folds = base.folds
       /\ base'.log = base.log
  BY <1>9, <1>10, WhenSame
<1>12. TablesAre'
  <2>1. PICK m \in Nat : m = Len(layers)
    BY <1>2, BaseIs
  <2>2. Len(list) = m /\ \A i \in 1..m : list[i].folds = layers[i].folds
    BY <1>10, <2>1 DEF Same
  <2>3. Len(list) \in Nat /\ Len(list) >= Len(layers)
    BY <2>1, <2>2
  <2> QED BY <1>9, <1>10, <2>1, <2>2, <2>3, TablesStay
<1>13. LayersInv'
  BY <1>9, <1>11, <1>12, SameShape DEF LayersInv
<1>14. /\ Folds' = Folds /\ LogChunk' = c /\ NChunks' = NChunks /\ ProxiesFold'
  BY <1>4, <1>9, <1>11, TopStays
<1>15. ReadSoFar(chunk_index)'
  <2>1. vector \in Seq(Parts) /\ Len(vector) = n
    BY <1>3 DEF ReadSoFar
  <2>2. new \in Parts
    <3>1. Folds \in Int
      BY <1>2, BaseIs DEF Folds, ProxiesFold
    <3>2. n * Pow2[c] \in Nat
      BY PowersAre
    <3> QED BY <1>7, <3>1, <3>2 DEF Part, Parts
  <2>3. vector' \in Seq(Parts) /\ Len(vector') = n + 1
        /\ \A i \in 1..(n + 1) : vector'[i] = IF i = n + 1 THEN new ELSE vector[i]
    BY <1>9, <2>1, <2>2
  <2>4. \A i \in 1..n : vector[i] = Part(Folds, (i - 1) * Pow2[c], c)
    BY <1>3, <1>4 DEF ReadSoFar
  <2>5. ASSUME NEW i \in 1..(n + 1) PROVE vector'[i] = Part(Folds, (i - 1) * Pow2[c], c)
    <3>1. CASE i = n + 1
      <4>1. i - 1 = n
        BY <3>1
      <4> QED BY <1>7, <2>3, <3>1, <4>1
    <3>2. CASE i # n + 1
      <4>1. i \in 1..n
        BY <3>2
      <4> QED BY <2>3, <2>4, <3>2, <4>1
    <3> QED BY <3>1, <3>2
  <2>6. base.kind = "OutOfMemory" /\ proxies = <<>> =>
          storage' = IF n + 1 <= 1 THEN -1 ELSE (n + 1) - 1
    <3>1. SUFFICES ASSUME base.kind = "OutOfMemory", proxies = <<>>
                   PROVE  storage' = IF n + 1 <= 1 THEN -1 ELSE (n + 1) - 1
      OBVIOUS
    <3>2. CASE n = 0
      <4>1. storage = -1
        BY <1>3, <3>1, <3>2 DEF ReadSoFar
      <4>2. ~UsesTwiddles(n)
        BY <1>6, <3>1, <3>2 DEF UsesTwiddles
      <4> QED BY <1>9, <3>2, <4>1, <4>2
    <3>3. CASE n # 0
      <4>1. UsesTwiddles(n) /\ Precomputed(n) = n
        BY <1>6, <3>1, <3>3 DEF UsesTwiddles
      <4> QED BY <1>9, <3>3, <4>1
    <3> QED BY <3>2, <3>3
  <2>7. n + 1 # 0
    OBVIOUS
  <2> QED BY <1>9, <1>11, <1>14, <2>3, <2>5, <2>6, <2>7 DEF ReadSoFar
<1> QED
  BY <1>1, <1>3, <1>9, <1>11, <1>13, <1>14, <1>15

LEMMA GatherStep ==
  ASSUME LayersInv, chunk_index \in Nat, AtGather, GatherChunk
  PROVE  IInv'
<1>1. ProxiesFold /\ ReadSoFar(chunk_index) /\ NChunks \in Nat
  BY ChunksFit DEF AtGather, LayersInv
<1>2. GetAllEvaluation("InMemory", "Gathered")
  BY DEF GatherChunk
<1>3. /\ LayersInv' /\ ProxiesFold' /\ ReadSoFar(chunk_index)' /\ chunk_index' \in Nat
      /\ chunk_index < NChunks /\ chunk_index' = chunk_index + 1 /\ NChunks' = NChunks
      /\ Folds' = Folds
      /\ pc = "InMemory" /\ pc' = (IF chunk_index' = NChunks THEN "Gathered" ELSE pc)
      /\ UNCHANGED <<shape, proxies, layer_num, segments, answers>>
  BY <1>1, <1>2, ReadStep
<1>4. \/ pc' = "InMemory" /\ chunk_index' < NChunks'
      \/ pc' = "Gathered" /\ chunk_index' = NChunks'
  BY <1>1, <1>3
<1>5. /\ StepsUpTo(layer_num)' = StepsUpTo(layer_num)
      /\ NextInMemory(layer_num)' = NextInMemory(layer_num)
  BY <1>3 DEF StepsUpTo, Steps, NextInMemory, LogLayer, LogDegree, NLayers
<1>6. AtGather'
  BY <1>3, <1>4, <1>5 DEF AtGather, Tables
<1> QED
  BY <1>3, <1>6 DEF IInv

LEMMA LastChunkStep ==
  ASSUME LayersInv, chunk_index \in Nat, AtLast, LastLayerChunk
  PROVE  IInv'
<1>1. proxies = <<>> /\ base.kind = "InMemory" /\ ReadSoFar(chunk_index)
      /\ base.folds = StepsUpTo(NLayers) /\ answers = <<>>
  BY DEF AtLast
<1>2. GetAllEvaluation("SendLastLayer", "LastLayer")
  BY DEF LastLayerChunk
<1>3. PICK b \in Nat : b = base.log /\ b = LogLayer(base.folds)
  BY <1>1, BaseIs DEF LayersInv
<1>4. Len(proxies) = 0 /\ base.folds \in Nat
  BY <1>1, BaseIs DEF LayersInv
<1>5. Folds = base.folds /\ LogSize = b /\ LogChunk = b
  BY <1>1, <1>3, <1>4 DEF Folds, LogSize, LogChunk
<1>6. NChunks = 1
  <2>1. Pow2[0] = 1
    BY Pow2Is
  <2> QED BY <1>5, <2>1 DEF NChunks
<1>7. ProxiesFold
  <2>1. Asked = b
    BY <1>4, <1>5 DEF Asked
  <2>2. proxies \in Seq(Nat) /\ \A k \in 1..Len(proxies) : proxies[k] = Asked - k
    BY <1>1
  <2> QED BY <1>3, <1>5, <2>1, <2>2 DEF ProxiesFold
<1>8. /\ LayersInv' /\ ReadSoFar(chunk_index)' /\ chunk_index' \in Nat
      /\ chunk_index < NChunks /\ chunk_index' = chunk_index + 1
      /\ base'.kind = base.kind /\ base'.folds = base.folds
      /\ pc = "SendLastLayer" /\ pc' = (IF chunk_index' = NChunks THEN "LastLayer" ELSE pc)
      /\ UNCHANGED <<shape, proxies, layer_num, segments, answers>>
  BY <1>1, <1>2, <1>7, ReadStep
<1>9. pc' = "LastLayer" /\ chunk_index' = 1
  BY <1>6, <1>8
<1>10. StepsUpTo(NLayers)' = StepsUpTo(NLayers)
  BY <1>8 DEF StepsUpTo, Steps, NLayers
<1>11. AtLast'
  BY <1>1, <1>8, <1>9, <1>10 DEF AtLast
<1> QED
  BY <1>8, <1>11 DEF IInv

(* What has been read chunk by chunk is the layer. *)
LEMMA WholeIs ==
  ASSUME Folds \in Nat, NEW n \in Nat \ {0}, ReadSoFar(n), NEW log
  PROVE  Whole(vector, log) = Part(Folds, 0, log)
<1>1. PICK f \in Nat : f = Folds
  OBVIOUS
<1>2. Len(vector) = n /\ \A i \in 1..n : vector[i] = Part(f, (i - 1) * Pow2[LogChunk], LogChunk)
  BY <1>1 DEF ReadSoFar
<1>3. \A i \in 1..n : /\ vector[i].folds = f /\ vector[i].log = LogChunk
                      /\ vector[i].first = (i - 1) * Pow2[LogChunk]
  BY <1>2 DEF Part
<1>4. 1 \in 1..n /\ f # -1
  OBVIOUS
<1>5. \A i \in 1..Len(vector) :
        /\ IsUseful(vector[i]) /\ vector[i].folds = vector[1].folds
        /\ vector[i].first = (i - 1) * Pow2[vector[i].log]
  BY <1>2, <1>3, <1>4 DEF IsUseful
<1> QED
  BY <1>1, <1>3, <1>4, <1>5 DEF Whole

LEMMA GatheredStep ==
  ASSUME LayersInv, chunk_index \in Nat, AtGather, MakeInMemory
  PROVE  IInv'
<1>1. /\ shape \in Shapes /\ LayersAre /\ layer_num \in 1..NLayers /\ NLayers \in Nat
      /\ NChunks \in Nat \ {0}
  BY ChunksFit, ShapeIs DEF LayersInv, AtGather
<1>2. PICK l, N \in Nat : l = layer_num /\ N = NLayers /\ 1 <= l /\ l <= N
  BY <1>1
<1>3. pc = "Gathered" /\ ReadSoFar(NChunks)
  BY DEF MakeInMemory, AtGather
<1>4. PICK f, s, b \in Nat :
        /\ f = Folds /\ f = StepsUpTo(l) /\ f <= StepsUpTo(NLayers)
        /\ s = LogLayer(f) /\ b = LogDegree(f) /\ s = LogSize
  <2>1. l \in 0..NLayers
    BY <1>2
  <2>2. StepsUpTo(l) \in Nat /\ StepsUpTo(l) <= StepsUpTo(NLayers) /\ Folds = StepsUpTo(l)
    BY <1>1, <1>2, <2>1, SumsAre DEF AtGather
  <2> QED BY <1>1, <2>2, LogsAre DEF LogSize
<1>5. Whole(vector, LogSize) = Part(f, 0, s)
  BY <1>1, <1>3, <1>4, WholeIs
<1>6. PICK new : new = InMemory(f, Part(f, 0, s))
  OBVIOUS
<1>7. /\ layers' = Append(layers, new) /\ proxies' = <<>> /\ first_in_memory' = FALSE
      /\ chunk_index' = 0 /\ storage' = -1 /\ vector' = <<>>
      /\ pc' = IF layer_num = NLayers THEN "SendLastLayer" ELSE "Commit"
      /\ UNCHANGED <<shape, layer_num, coset_size, segments, answers>>
  BY <1>4, <1>5, <1>6 DEF MakeInMemory
<1>8. /\ new \in Layers /\ new.kind = "InMemory" /\ new.folds = f /\ new.log = s
      /\ new.evaluation = Part(f, 0, s)
  <2>1. Part(f, 0, s) \in Parts
    BY DEF Part, Parts
  <2> QED BY <1>4, <1>6, <2>1 DEF InMemory, Layer, Layers, Kinds
<1>9. IsRight(new)
  BY <1>4, <1>8 DEF IsRight
<1>10. PICK list : list = Append(layers, new)
  OBVIOUS
<1>11. AreRight(list) /\ Longer(list, layers, new)
  <2>1. MayFollow(new, layers[Len(layers)])
    BY <1>8 DEF MayFollow
  <2>2. AreRight(layers)
    BY <1>1 DEF LayersAre
  <2> QED BY <1>9, <1>10, <2>1, <2>2, WithNew
<1>12. LayersAre' /\ base' = new
  <2>1. list = layers' /\ list[Len(list)] = new /\ AreRight(list)
    BY <1>7, <1>10, <1>11 DEF Longer
  <2> QED BY <1>7, <1>8, <2>1, LayersLater
<1>13. TablesAre'
  <2>1. /\ \A i \in 1..Len(layers) : list[i].folds = layers[i].folds
        /\ list = layers' /\ Len(list) \in Nat /\ Len(list) >= Len(layers)
    BY <1>7, <1>10, <1>11 DEF Longer
  <2> QED BY <1>7, <2>1, TablesStay
<1>14. LayersInv'
  BY <1>7, <1>12, <1>13, SameShape DEF LayersInv
<1>15. Folds' = f /\ ProxiesFold' /\ NChunks' \in Nat \ {0}
  <2>1. PICK g \in Nat : g = s /\ g <= s
    OBVIOUS
  <2>2. /\ shape' = shape /\ proxies' = <<>> /\ base'.folds = f /\ base'.log = g
        /\ LogLayer(f) = s
    BY <1>4, <1>7, <1>8, <1>12, <2>1
  <2> QED BY <2>1, <2>2, Uncovered
<1>16. ReadSoFar(0)'
  BY <1>7, <1>8, <1>12 DEF ReadSoFar
<1>17. Tables(layer_num - 1)' /\ answers' = <<>>
  BY <1>7 DEF AtGather, Tables
<1>18. CASE l = N
  <2>1. pc' = "SendLastLayer" /\ chunk_index' = 0
    BY <1>2, <1>7, <1>18
  <2>2. f = StepsUpTo(NLayers)'
    BY <1>2, <1>4, <1>7, <1>18 DEF StepsUpTo, Steps, NLayers
  <2>3. AtLast'
    BY <1>7, <1>8, <1>12, <1>16, <1>17, <2>1, <2>2 DEF AtLast
  <2> QED BY <1>7, <1>14, <2>3 DEF IInv
<1>19. CASE l # N
  <2>1. pc' = "Commit" /\ layer_num' < NLayers'
    BY <1>2, <1>7, <1>19, SameShape
  <2>2. f = StepsUpTo(layer_num)' /\ NextInMemory(layer_num)'
    BY <1>2, <1>4, <1>7 DEF AtGather, StepsUpTo, Steps, NextInMemory, LogLayer, LogDegree, NLayers
  <2>3. chunk_index' = 0 /\ chunk_index' < NChunks'
    BY <1>7, <1>15
  <2>4. AtCommit'
    BY <1>7, <1>8, <1>12, <1>17, <2>1, <2>2, <2>3 DEF AtCommit
  <2> QED BY <1>7, <1>14, <2>4 DEF IInv
<1> QED
  BY <1>18, <1>19

(* The segment that is being given to the table of the layer on top. *)
LEMMA SoFar ==
  ASSUME LayersInv, AtCommit, NEW k \in Nat \ {0}, k = layer_num, NEW n \in Nat, n = chunk_index
  PROVE  /\ SegmentsSoFar \in Seq(Segments) /\ Len(SegmentsSoFar) = k /\ Len(segments) <= k
         /\ \A j \in 1..(k - 1) : j \in 1..Len(segments) /\ SegmentsSoFar[j] = segments[j]
         /\ SegmentsSoFar[k].layer = Len(layers) /\ SegmentsSoFar[k].given \in Seq(Parts)
         /\ Len(SegmentsSoFar[k].given) = n
         /\ \A i \in 1..n :
              LET given == SegmentsSoFar[k].given[i]
              IN given = Part(StepsUpTo(k), (i - 1) * Pow2[given.log], given.log)
<1>1. segments \in Seq(Segments) /\ \A j \in 1..Len(segments) : SegmentIs(j)
  BY DEF LayersInv, TablesAre
<1>2. CASE n = 0
  <2>1. PICK new : new = [layer |-> Len(layers), given |-> <<>>]
    OBVIOUS
  <2>2. new \in Segments /\ new.layer = Len(layers) /\ new.given = <<>>
    BY <2>1, BaseIs DEF LayersInv, Segments
  <2>3. SegmentsSoFar = Append(segments, new)
    BY <1>2, <2>1 DEF SegmentsSoFar
  <2>4. Len(segments) = k - 1
    BY <1>2 DEF AtCommit, Tables
  <2>5. /\ SegmentsSoFar \in Seq(Segments) /\ Len(SegmentsSoFar) = k /\ SegmentsSoFar[k] = new
        /\ \A j \in 1..(k - 1) : SegmentsSoFar[j] = segments[j]
    BY <1>1, <2>2, <2>3, <2>4
  <2>6. \A i \in 1..n : FALSE
    BY <1>2
  <2>7. SegmentsSoFar[k].given \in Seq(Parts) /\ Len(SegmentsSoFar[k].given) = n
    <3>1. SegmentsSoFar[k].given = <<>>
      BY <2>2, <2>5
    <3> QED BY <1>2, <3>1
  <2>8. Len(segments) <= k /\ \A j \in 1..(k - 1) : j \in 1..Len(segments)
    BY <2>4
  <2> QED BY <2>2, <2>5, <2>6, <2>7, <2>8
<1>3. CASE n # 0
  <2>1. /\ Len(segments) = k /\ segments[k].layer = Len(layers)
        /\ Len(segments[k].given) = n
    BY <1>3 DEF AtCommit, Tables
  <2>2. SegmentsSoFar = segments
    BY <1>3 DEF SegmentsSoFar
  <2>3. SegmentIs(k)
    BY <1>1, <2>1
  <2>4. /\ segments[k].given \in Seq(Parts)
        /\ \A i \in 1..n :
             LET given == segments[k].given[i]
             IN given = Part(StepsUpTo(k), (i - 1) * Pow2[given.log], given.log)
    BY <2>1, <2>3 DEF SegmentIs
  <2>5. Len(segments) <= k /\ \A j \in 1..(k - 1) : j \in 1..Len(segments)
    BY <2>1
  <2> QED BY <1>1, <2>1, <2>2, <2>4, <2>5
<1> QED
  BY <1>2, <1>3

(* One more chunk is given. *)
Given(new, sofar, k, n, part) ==
  /\ new \in Seq(Segments) /\ Len(new) = k /\ new[k].layer = sofar[k].layer
  /\ \A j \in 1..(k - 1) : new[j] = sofar[j]
  /\ new[k].given \in Seq(Parts) /\ Len(new[k].given) = n + 1
  /\ new[k].given[n + 1] = part
  /\ \A i \in 1..n : new[k].given[i] = sofar[k].given[i]

LEMMA GivenStep ==
  ASSUME NEW sofar \in Seq(Segments), NEW k \in Nat \ {0}, Len(sofar) = k,
         NEW n \in Nat, sofar[k].given \in Seq(Parts), Len(sofar[k].given) = n,
         NEW part \in Parts, NEW new, new = [sofar EXCEPT ![Len(sofar)].given = Append(@, part)]
  PROVE  Given(new, sofar, k, n, part)
<1>1. PICK old : old = sofar[k] /\ old \in Segments
  OBVIOUS
<1>2. PICK e : e = [old EXCEPT !.given = Append(old.given, part)]
  OBVIOUS
<1>3. PICK more : more = Append(old.given, part)
  OBVIOUS
<1>4. /\ more \in Seq(Parts) /\ Len(more) = n + 1 /\ more[n + 1] = part
      /\ \A i \in 1..n : more[i] = old.given[i]
  BY <1>1, <1>3
<1>5. e \in Segments /\ e.layer = old.layer /\ e.given = more
  BY <1>1, <1>2, <1>3, <1>4 DEF Segments
<1>6. new = [sofar EXCEPT ![k] = e]
  BY <1>1, <1>2
<1>7. /\ new \in Seq(Segments) /\ Len(new) = k /\ new[k] = e
      /\ \A j \in 1..(k - 1) : new[j] = sofar[j]
  <2>1. /\ new \in Seq(Segments) /\ Len(new) = Len(sofar)
        /\ \A j \in 1..Len(sofar) : new[j] = IF j = k THEN e ELSE sofar[j]
    <3>1. sofar \in Seq(Segments) /\ k \in 1..Len(sofar) /\ e \in Segments
      BY <1>5
    <3> QED BY ONLY <1>6, <3>1
  <2> QED BY <2>1
<1> QED
  BY <1>1, <1>4, <1>5, <1>7 DEF Given

LEMMA CommitStep ==
  ASSUME LayersInv, chunk_index \in Nat, AtCommit, CommitChunk
  PROVE  IInv'
<1>1. /\ shape \in Shapes /\ LayersAre /\ layer_num \in 1..NLayers /\ NLayers \in Nat
      /\ proxies = <<>> /\ answers = <<>>
  BY ShapeIs DEF LayersInv, AtCommit, Tables
<1>2. PICK k \in Nat \ {0}, N \in Nat : k = layer_num /\ N = NLayers /\ k < N
  BY <1>1 DEF AtCommit
<1>3. PICK f, c, s \in Nat :
        /\ f = base.folds /\ c = base.log /\ s = LogLayer(f) /\ c <= s /\ f = StepsUpTo(k)
  <2>1. base.folds \in Nat /\ base.log \in Nat /\ base.folds <= StepsUpTo(NLayers)
    BY <1>1, BaseIs
  <2>2. /\ LogLayer(base.folds) \in Nat /\ LogDegree(base.folds) \in Nat
        /\ LogDegree(base.folds) < LogLayer(base.folds)
    BY <1>1, <2>1, LogsAre
  <2>3. base.log = LogLayer(base.folds) \/ base.log = LogDegree(base.folds)
    BY <1>1, BaseIs DEF Kinds
  <2>4. base.folds = StepsUpTo(k)
    BY <1>2 DEF AtCommit
  <2> QED BY <2>1, <2>2, <2>3, <2>4
<1>4. Len(proxies) = 0 /\ Folds = f /\ LogSize = s /\ LogChunk = c /\ Asked = c
  <2>1. Len(proxies) = 0
    BY <1>1
  <2>2. Folds = f
    BY <1>3, <2>1 DEF Folds
  <2> QED BY <1>1, <1>3, <2>1, <2>2 DEF LogSize, LogChunk, Asked
<1>5. ProxiesFold
  <2>1. proxies \in Seq(Nat) /\ \A i \in 1..Len(proxies) : proxies[i] = Asked - i
    BY <1>1, <1>4
  <2>2. LogChunk \in Nat /\ LogChunk <= LogSize
    BY <1>3, <1>4
  <2>3. Asked = base.log
    BY <1>3, <1>4
  <2>4. Asked <= base.log
    BY <1>3, <2>3
  <2> QED BY <2>1, <2>2, <2>3, <2>4 DEF ProxiesFold
<1>6. PICK n \in Nat, chunks \in Nat \ {0} : n = chunk_index /\ chunks = NChunks /\ n < chunks
  BY <1>1, <1>5, ChunksFit DEF AtCommit
<1>7. PICK part : part = Part(f, n * Pow2[c], c)
  OBVIOUS
<1>8. BaseChunk(LogChunk, n) = part /\ part \in Parts
  <2>1. n \in 0..(NChunks - 1)
    BY <1>6
  <2>2. BaseHas(c, n)
    BY <1>1, <1>4, <1>5, <2>1, ChunksFit
  <2>3. BaseChunk(c, n) = Part(base.folds, n * Pow2[c], c)
    BY <1>1, <1>3, <2>2, BaseChunkIs
  <2>4. n * Pow2[c] \in Nat
    BY PowersAre
  <2>5. part \in Parts
    BY <1>7, <2>4 DEF Part, Parts
  <2> QED BY <1>3, <1>4, <1>7, <2>3, <2>5
<1>9. /\ segments' = [SegmentsSoFar EXCEPT ![Len(SegmentsSoFar)].given = Append(@, part)]
      /\ layers' = Moved(n)
      /\ IF n + 1 = chunks
         THEN chunk_index' = 0 /\ layer_num' = k + 1 /\ pc' = "CreateNextFriLayer"
         ELSE chunk_index' = n + 1 /\ layer_num' = k /\ pc' = "Commit"
      /\ UNCHANGED <<shape, proxies, coset_size, first_in_memory, storage, vector, answers>>
  BY <1>2, <1>6, <1>8 DEF CommitChunk
<1>10. PICK list : list = Moved(n) /\ AreRight(list) /\ Same(layers, list)
  BY <1>1, WhenMoved
<1>11. /\ LayersAre' /\ base'.kind = base.kind /\ base'.folds = f /\ base'.log = c
       /\ Len(layers') = Len(layers) /\ base' = list[Len(layers)]
  BY <1>3, <1>9, <1>10, WhenSame
<1>12. PICK m \in Nat \ {0} : m = Len(layers) /\ m = Len(layers') /\ layers'[m].folds = f
  BY <1>1, <1>9, <1>10, <1>11, BaseIs
<1>13. PICK sofar : sofar = SegmentsSoFar
  OBVIOUS
<1>14. /\ sofar \in Seq(Segments) /\ Len(sofar) = k /\ Len(segments) <= k
       /\ \A j \in 1..(k - 1) : j \in 1..Len(segments) /\ sofar[j] = segments[j]
       /\ sofar[k].layer = m /\ sofar[k].given \in Seq(Parts) /\ Len(sofar[k].given) = n
       /\ \A i \in 1..n :
            LET given == sofar[k].given[i]
            IN given = Part(StepsUpTo(k), (i - 1) * Pow2[given.log], given.log)
  BY <1>2, <1>6, <1>12, <1>13, SoFar
<1>15. PICK new : new = segments'
  OBVIOUS
<1>16. /\ new \in Seq(Segments) /\ Len(new) = k /\ new[k].layer = sofar[k].layer
       /\ \A j \in 1..(k - 1) : new[j] = sofar[j]
       /\ new[k].given \in Seq(Parts) /\ Len(new[k].given) = n + 1
       /\ new[k].given[n + 1] = part
       /\ \A i \in 1..n : new[k].given[i] = sofar[k].given[i]
  <2>1. new = [sofar EXCEPT ![Len(sofar)].given = Append(@, part)]
    BY <1>9, <1>13, <1>15
  <2>2. /\ sofar \in Seq(Segments) /\ Len(sofar) = k /\ sofar[k].given \in Seq(Parts)
        /\ Len(sofar[k].given) = n /\ part \in Parts
    BY <1>8, <1>14
  <2>3. Given(new, sofar, k, n, part)
    BY <2>1, <2>2, GivenStep
  <2> QED BY <2>3 DEF Given
<1>17. SegmentIs(k)'
  <2>1. \A i \in 1..(n + 1) :
          LET given == new[k].given[i]
          IN given = Part(f, (i - 1) * Pow2[given.log], given.log)
    <3>1. ASSUME NEW i \in 1..(n + 1), NEW given, given = new[k].given[i]
          PROVE  given = Part(f, (i - 1) * Pow2[given.log], given.log)
      <4>1. CASE i = n + 1
        <5>1. given = part /\ given.log = c /\ i - 1 = n
          BY <1>7, <1>16, <3>1, <4>1 DEF Part
        <5> QED BY <1>7, <5>1
      <4>2. CASE i # n + 1
        <5>1. i \in 1..n
          BY <4>2
        <5>2. given = sofar[k].given[i]
          BY <1>16, <3>1, <5>1
        <5> QED BY <1>3, <1>14, <5>1, <5>2
      <4> QED BY <4>1, <4>2
    <3> QED BY <3>1
  <2>2. StepsUpTo(k)' = f
    BY <1>3, <1>9, SameShape
  <2>3. new[k].layer = m /\ m \in 1..Len(layers')
    BY <1>12, <1>14, <1>16
  <2> QED BY <1>12, <1>15, <1>16, <2>1, <2>2, <2>3 DEF SegmentIs
<1>18. TablesAre'
  <2>1. Stay(layers, layers')
    <3>1. \A i \in 1..m : list[i].folds = layers[i].folds
      BY <1>10, <1>12 DEF Same
    <3> QED BY <1>9, <1>10, <1>12, <3>1 DEF Stay
  <2>2. ASSUME NEW j \in 1..k PROVE SegmentIs(j)'
    <3>1. CASE j = k
      BY <1>17, <3>1
    <3>2. CASE j # k
      <4>1. j \in 1..(k - 1)
        BY <3>2
      <4>2. j \in 1..Len(segments) /\ segments'[j] = segments[j]
        BY <1>14, <1>15, <1>16, <4>1
      <4> QED BY <1>9, <2>1, <4>2, SegmentStays
    <3> QED BY <3>1, <3>2
  <2>3. Len(segments') = k /\ segments' \in Seq(Segments) /\ k < NLayers'
    BY <1>2, <1>9, <1>15, <1>16, SameShape
  <2>4. answers' = <<>> /\ answers' \in Seq(Parts) /\ Len(answers') = 0
    BY <1>1, <1>9
  <2>5. \A i \in 1..Len(answers') :
          answers'[i] = Part(StepsUpTo(i)', 0, LogLayer(StepsUpTo(i))')
    BY <2>4
  <2> QED BY <2>2, <2>3, <2>4, <2>5 DEF TablesAre
<1>19. shape' \in Shapes /\ NLayers' = N
  BY <1>1, <1>2, <1>9, SameShape
<1>20. Tables(k)'
  BY <1>1, <1>9, <1>15, <1>16 DEF Tables
<1>21. base.kind = "InMemory" => NextInMemory(k)'
  <2>1. NextInMemory(k)' = NextInMemory(k)
    BY <1>9, SameShape
  <2> QED BY <1>2, <2>1 DEF AtCommit
<1>22. StepsUpTo(k)' = f
  BY <1>3, <1>9, SameShape
<1>23. CASE n + 1 = chunks
  <2>1. chunk_index' = 0 /\ layer_num' = k + 1 /\ pc' = "CreateNextFriLayer"
    BY <1>9, <1>23
  <2>2. layer_num' \in 1..NLayers' /\ layer_num' - 1 = k /\ layer_num' # 1
    BY <1>2, <1>19, <2>1
  <2>3. LayersInv'
    BY <1>11, <1>18, <1>19, <2>2 DEF LayersInv
  <2>4. Idle' /\ proxies' = <<>>
    BY <1>1, <1>9, <2>1 DEF Idle, AtCommit
  <2>5. AtCreate'
    BY <1>11, <1>20, <1>21, <1>22, <2>1, <2>2, <2>4 DEF AtCreate
  <2> QED BY <2>1, <2>3, <2>5 DEF IInv
<1>24. CASE n + 1 # chunks
  <2>1. chunk_index' = n + 1 /\ layer_num' = k /\ pc' = "Commit"
    BY <1>9, <1>24
  <2>2. LayersInv'
    BY <1>1, <1>2, <1>11, <1>18, <1>19, <2>1 DEF LayersInv
  <2>3. NChunks' = chunks
    BY <1>3, <1>6, <1>9, <1>11, TopStays
  <2>4. chunk_index' < NChunks' /\ chunk_index' # 0 /\ chunk_index' \in Nat
    BY <1>6, <1>24, <2>1, <2>3
  <2>5. segments'[k].layer = Len(layers') /\ Len(segments'[k].given) = chunk_index'
    BY <1>12, <1>14, <1>15, <1>16, <2>1
  <2>6. proxies' = <<>> /\ vector' = <<>> /\ storage' = -1
    BY <1>1, <1>9 DEF AtCommit
  <2>7. AtCommit'
    BY <1>2, <1>11, <1>19, <1>20, <1>21, <1>22, <2>1, <2>4, <2>5, <2>6 DEF AtCommit
  <2> QED BY <2>2, <2>4, <2>7 DEF IInv
<1> QED
  BY <1>23, <1>24

LEMMA SendStep ==
  ASSUME LayersInv, chunk_index \in Nat, AtLast, SendLastLayer
  PROVE  IInv'
<1>1. shape \in Shapes /\ LayersAre /\ NLayers \in 0..NLayers /\ NLayers \in Nat
  BY ShapeIs DEF LayersInv
<1>2. PICK total, last \in Nat : total = StepsUpTo(NLayers) /\ last = shape.logLastDegree
  BY <1>1, ShapeIs, SumsAre
<1>3. base.folds = total /\ proxies = <<>> /\ ReadSoFar(1)
  BY <1>2 DEF AtLast, SendLastLayer
<1>4. Folds = total
  <2>1. Len(proxies) = 0
    BY <1>3
  <2> QED BY <1>3, <2>1 DEF Folds
<1>5. Whole(vector, LogSize) = Part(total, 0, LogSize)
  BY <1>4, <1>3, WholeIs
<1>6. LogDegree(total) <= shape.logLastDegree
  BY <1>2 DEF LogDegree
<1>7. IsUseful(Whole(vector, LogSize)) /\ Whole(vector, LogSize).folds = total
  BY <1>5 DEF Part, IsUseful
<1>8. /\ pc' = "Decommit" /\ chunk_index' = 0
      /\ UNCHANGED <<shape, layers, layer_num, coset_size, first_in_memory, segments, answers>>
  BY <1>6, <1>7 DEF SendLastLayer
<1>9. PICK list : list = layers
  OBVIOUS
<1>10. AreRight(list) /\ Len(list) \in Nat /\ base = list[Len(list)]
  BY <1>1, <1>9, BaseIs DEF LayersAre
<1>11. LayersAre'
  BY <1>1, <1>8, <1>9, <1>10, LayersLater DEF LayersAre
<1>12. TablesAre'
  BY <1>8, <1>9, <1>10, TablesStay
<1>13. LayersInv'
  BY <1>8, <1>11, <1>12, SameShape DEF LayersInv
<1> QED
  BY <1>8, <1>13 DEF IInv, AtDecommit

(* What a layer evaluates at single rows is the whole of it. *)
LEMMA EvaluatesItself ==
  ASSUME shape \in Shapes, NEW layer, IsRight(layer)
  PROVE  EvalAtPoints(layer) = Part(layer.folds, 0, LogLayer(layer.folds))
<1>1. /\ layer.kind \in Kinds /\ layer.folds \in Nat /\ layer.folds <= StepsUpTo(NLayers)
      /\ layer.log \in Nat
      /\ layer.log = IF layer.kind = "InMemory" THEN LogLayer(layer.folds) ELSE LogDegree(layer.folds)
      /\ layer.evaluation = Part(layer.folds, 0, layer.log)
  BY DEF IsRight, Layers
<1>2. CASE layer.kind = "InMemory"
  BY <1>1, <1>2 DEF EvalAtPoints
<1>3. CASE layer.kind # "InMemory"
  <2>1. PICK v : v = layer.evaluation
    OBVIOUS
  <2>2. v.folds = layer.folds /\ v.first = 0 /\ v.log = layer.log
    BY <1>1, <2>1 DEF Part
  <2>3. LogDegree(v.folds) <= v.log /\ v.folds # -1
    BY <1>1, <1>3, <2>2
  <2> QED BY <1>3, <2>1, <2>2, <2>3 DEF EvalAtPoints, IsUseful
<1> QED
  BY <1>2, <1>3

LEMMA DecommitStep ==
  ASSUME LayersInv, chunk_index \in Nat, AtDecommit, Decommit
  PROVE  IInv'
<1>1. shape \in Shapes /\ LayersAre /\ AreRight(layers)
  BY DEF LayersInv, LayersAre
<1>2. PICK k \in Nat \ {0} : k = Len(answers) + 1 /\ k \in 1..Len(segments)
  BY DEF Decommit, LayersInv, TablesAre
<1>3. PICK i : i = segments[k].layer
  OBVIOUS
<1>4. i \in 1..Len(layers) /\ layers[i].folds = StepsUpTo(k) /\ IsRight(layers[i])
  <2>1. SegmentIs(k)
    BY <1>2 DEF LayersInv, TablesAre
  <2> QED BY <1>1, <1>3, <2>1 DEF SegmentIs, AreRight
<1>5. PICK answer : answer = EvalAtPoints(layers[i])
  OBVIOUS
<1>6. answer = Part(StepsUpTo(k), 0, LogLayer(StepsUpTo(k))) /\ answer \in Parts
  <2>1. answer = Part(layers[i].folds, 0, LogLayer(layers[i].folds))
    BY <1>1, <1>4, <1>5, EvaluatesItself
  <2>2. layers[i].folds \in Nat /\ layers[i].folds <= StepsUpTo(NLayers)
    BY <1>4 DEF IsRight, Layers
  <2>3. LogLayer(layers[i].folds) \in Nat
    BY <1>1, <2>2, LogsAre
  <2> QED BY <1>4, <2>1, <2>2, <2>3 DEF Part, Parts
<1>7. PICK moved \in BOOLEAN : moved = (layers[i].kind = "OutOfMemory")
  OBVIOUS
<1>8. /\ answers' = Append(answers, answer) /\ layers' = [layers EXCEPT ![i].moved = moved]
      /\ UNCHANGED <<shape, layer_num, coset_size, first_in_memory, chunk_index, segments, pc>>
  BY <1>2, <1>3, <1>5, <1>7 DEF Decommit, loop
<1>9. PICK list : list = [layers EXCEPT ![i].moved = moved]
  OBVIOUS
<1>10. AreRight(list) /\ Same(layers, list)
  BY <1>1, <1>4, <1>9, WithMoved
<1>11. LayersAre'
  BY <1>8, <1>9, <1>10, WhenSame
<1>12. TablesAre'
  <2>1. Stay(layers, layers')
    <3>1. Len(layers) \in Nat
      BY <1>1, BaseIs
    <3> QED BY <1>8, <1>9, <1>10, <3>1 DEF Same, Stay
  <2>2. \A j \in 1..Len(segments) : SegmentIs(j)'
    BY <1>8, <2>1, SegmentStays
  <2>3. /\ segments' \in Seq(Segments) /\ Len(segments') < NLayers'
        /\ \A j \in 1..Len(segments') : SegmentIs(j)'
    BY <1>8, <2>2, SameShape DEF LayersInv, TablesAre
  <2>4. answers \in Seq(Parts) /\ Len(answers) = k - 1
    BY <1>2 DEF LayersInv, TablesAre
  <2>5. /\ answers' \in Seq(Parts) /\ Len(answers') = k /\ answers'[k] = answer
        /\ \A j \in 1..(k - 1) : answers'[j] = answers[j]
    BY <1>6, <1>8, <2>4
  <2>6. Len(answers') <= Len(segments')
    BY <1>2, <1>8, <2>5
  <2>7. ASSUME NEW j \in 1..k
        PROVE  answers'[j] = Part(StepsUpTo(j)', 0, LogLayer(StepsUpTo(j))')
    <3>1. CASE j = k
      <4>1. StepsUpTo(k)' = StepsUpTo(k) /\ LogLayer(StepsUpTo(k))' = LogLayer(StepsUpTo(k))
        BY <1>8 DEF LogLayer, LogDegree, StepsUpTo, NLayers, Steps
      <4> QED BY <1>6, <2>5, <3>1, <4>1
    <3>2. CASE j # k
      <4>1. j \in 1..Len(answers) /\ answers'[j] = answers[j]
        BY <2>4, <2>5, <3>2
      <4> QED BY <1>8, <4>1, AnswersStay
    <3> QED BY <3>1, <3>2
  <2> QED BY <2>3, <2>5, <2>6, <2>7 DEF TablesAre
<1>13. LayersInv'
  BY <1>8, <1>11, <1>12, SameShape DEF LayersInv
<1> QED
  BY <1>8, <1>13 DEF IInv, AtDecommit

LEMMA Stuttering == IInv /\ UNCHANGED vars => IInv'
<1> SUFFICES ASSUME IInv, UNCHANGED vars PROVE IInv'
  OBVIOUS
<1>1. /\ UNCHANGED <<shape, layers, proxies, layer_num, coset_size, first_in_memory>>
      /\ UNCHANGED <<chunk_index, storage, vector, segments, answers, pc>>
  BY DEF vars
<1>2. PICK list : list = layers
  OBVIOUS
<1>3. AreRight(list) /\ Len(list) \in Nat /\ base = list[Len(list)]
  BY <1>2, BaseIs DEF IInv, LayersInv, LayersAre
<1>4. LayersAre' /\ base' = base
  BY <1>1, <1>2, <1>3, LayersLater DEF IInv, LayersInv, LayersAre
<1>5. TablesAre'
  BY <1>1, <1>2, <1>3, TablesStay DEF IInv
<1>6. LayersInv'
  BY <1>1, <1>4, <1>5, SameShape DEF IInv, LayersInv
<1>7. /\ ProxiesFold' = ProxiesFold /\ Folds' = Folds /\ NChunks' = NChunks /\ LogChunk' = LogChunk
  BY <1>1, <1>4, TopStays
<1>8. /\ fri_step' = fri_step /\ NLayers' = NLayers
      /\ \A n : StepsUpTo(n)' = StepsUpTo(n) /\ NextInMemory(n)' = NextInMemory(n)
  BY <1>1, SameShape DEF fri_step
<1>9. \A n : ReadSoFar(n)' = ReadSoFar(n) /\ Tables(n)' = Tables(n)
  BY <1>1, <1>4, <1>7 DEF ReadSoFar, Tables
<1>10. /\ AtCreate => AtCreate'
  BY <1>1, <1>4, <1>8, <1>9 DEF AtCreate, Idle
<1>11. AtMake => AtMake'
  BY <1>1, <1>4, <1>7, <1>8, <1>9 DEF AtMake, Idle
<1>12. AtGather => AtGather'
  BY <1>1, <1>7, <1>8, <1>9 DEF AtGather
<1>13. AtCommit => AtCommit'
  BY <1>1, <1>4, <1>7, <1>8, <1>9 DEF AtCommit
<1>14. AtLast => AtLast'
  BY <1>1, <1>4, <1>8, <1>9 DEF AtLast
<1>15. AtDecommit => AtDecommit'
  BY <1>1 DEF AtDecommit
<1> QED
  BY <1>1, <1>6, <1>10, <1>11, <1>12, <1>13, <1>14, <1>15 DEF IInv

LEMMA Inductive == IInv /\ [Next]_vars => IInv'
<1> SUFFICES ASSUME IInv, [Next]_vars PROVE IInv'
  OBVIOUS
<1>1. /\ LayersInv /\ chunk_index \in Nat
      /\ AtCreate \/ AtMake \/ AtGather \/ AtCommit \/ AtLast \/ AtDecommit
  BY DEF IInv
<1>2. CASE CreateNextFriLayer
  <2>1. AtCreate
    BY <1>1, <1>2 DEF CreateNextFriLayer, AtMake, AtGather, AtCommit, AtLast, AtDecommit
  <2> QED BY <1>1, <1>2, <2>1, CreateStep
<1>3. CASE MakeOutOfMemory
  <2>1. AtMake
    BY <1>1, <1>3 DEF MakeOutOfMemory, AtCreate, AtGather, AtCommit, AtLast, AtDecommit
  <2> QED BY <1>1, <1>3, <2>1, MakeStep
<1>4. CASE GatherChunk
  <2>1. AtGather
    BY <1>1, <1>4
    DEF GatherChunk, GetAllEvaluation, AtCreate, AtMake, AtCommit, AtLast, AtDecommit
  <2> QED BY <1>1, <1>4, <2>1, GatherStep
<1>5. CASE MakeInMemory
  <2>1. AtGather
    BY <1>1, <1>5 DEF MakeInMemory, AtCreate, AtMake, AtCommit, AtLast, AtDecommit
  <2> QED BY <1>1, <1>5, <2>1, GatheredStep
<1>6. CASE CommitChunk
  <2>1. AtCommit
    BY <1>1, <1>6 DEF CommitChunk, AtCreate, AtMake, AtGather, AtLast, AtDecommit
  <2> QED BY <1>1, <1>6, <2>1, CommitStep
<1>7. CASE LastLayerChunk
  <2>1. AtLast
    BY <1>1, <1>7
    DEF LastLayerChunk, GetAllEvaluation, AtCreate, AtMake, AtGather, AtCommit, AtDecommit
  <2> QED BY <1>1, <1>7, <2>1, LastChunkStep
<1>8. CASE SendLastLayer
  <2>1. AtLast
    BY <1>1, <1>8 DEF SendLastLayer, AtCreate, AtMake, AtGather, AtCommit, AtDecommit
  <2> QED BY <1>1, <1>8, <2>1, SendStep
<1>9. CASE Decommit
  <2>1. AtDecommit
    BY <1>9 DEF Decommit, AtDecommit
  <2> QED BY <1>1, <1>9, <2>1, DecommitStep
<1>10. CASE Done \/ UNCHANGED vars
  BY <1>10, Stuttering DEF Done
<1> QED
  BY <1>2, <1>3, <1>4, <1>5, <1>6, <1>7, <1>8, <1>9, <1>10 DEF Next

LEMMA Always == Spec => []IInv
  BY InitInv, Inductive, PTL DEF Spec
-----------------------------------------------------------------------------
(* Whatever the steps, the memory settings and the chunks: the table of    *)
(* the n-th committed layer is given the elements of that layer in order   *)
(* and once, and what is decommitted are values of the layer that was      *)
(* committed to (FriCommittedLayerByTableProver, FriLayerOutOfMemory).     *)
THEOREM TablesAreTheLayers == Spec => []TablesHoldTheLayers
<1>1. IInv => TablesHoldTheLayers
  <2> SUFFICES ASSUME IInv PROVE TablesHoldTheLayers
    OBVIOUS
  <2>1. /\ segments \in Seq(Segments) /\ answers \in Seq(Parts)
        /\ \A n \in 1..Len(segments) : SegmentIs(n)
        /\ \A n \in 1..Len(answers) : answers[n] = Part(StepsUpTo(n), 0, LogLayer(StepsUpTo(n)))
    BY DEF IInv, LayersInv, TablesAre
  <2>2. ASSUME NEW n \in DOMAIN segments, NEW i \in DOMAIN segments[n].given, NEW given,
               given = segments[n].given[i]
        PROVE  given = Part(StepsUpTo(n), (i - 1) * Pow2[given.log], given.log)
    <3>1. SegmentIs(n)
      BY <2>1
    <3>2. segments[n].given \in Seq(Parts)
      BY <3>1 DEF SegmentIs
    <3>3. i \in 1..Len(segments[n].given)
      BY <3>2
    <3> QED BY <2>2, <3>1, <3>3 DEF SegmentIs
  <2>3. DOMAIN answers = 1..Len(answers)
    BY <2>1
  <2> QED BY <2>1, <2>2, <2>3 DEF TablesHoldTheLayers
<1> QED
  BY <1>1, Always, PTL

(* No assertion of the layers, of SafeDiv or on the degree of the last     *)
(* layer fails: the chunks the proxies are made for are just those the     *)
(* layers below can give, and the twiddle factors are those of the coset.  *)
THEOREM NoLayerAssertionFails == Spec => []NoAssertionFails
<1>1. IInv => NoAssertionFails
  BY DEF IInv, NoAssertionFails, AtCreate, AtMake, AtGather, AtCommit, AtLast, AtDecommit
<1> QED
  BY <1>1, Always, PTL

(* After a layer in memory there is none out of memory: what decides where *)
(* a layer is kept never changes its mind when layers get smaller, though  *)
(* the sizes of their chunks depend on the layers before.                  *)
THEOREM OnceInMemory == Spec => []InMemoryStaysInMemory
<1>1. IInv => InMemoryStaysInMemory
  <2> SUFFICES ASSUME IInv PROVE InMemoryStaysInMemory
    OBVIOUS
  <2>1. /\ layers \in Seq(Layers)
        /\ \A i, j \in 1..Len(layers) : i < j /\ layers[i].kind = "InMemory"
                                        => layers[j].kind = "InMemory"
    BY DEF IInv, LayersInv, LayersAre, AreRight
  <2>2. DOMAIN layers = 1..Len(layers)
    BY <2>1
  <2> QED BY <2>1, <2>2 DEF InMemoryStaysInMemory
<1> QED
  BY <1>1, Always, PTL
=============================================================================
