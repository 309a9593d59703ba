----------------------------- MODULE FriLayers ------------------------------
(***************************************************************************)
(* The layers the FRI prover builds (fri/fri_layer.{h,cc}), in the order of *)
(* FriProver::CommitmentPhase (fri/fri_prover.cc), and what it hands to    *)
(* the table of each (fri/fri_committed_layer.cc).                         *)
(*                                                                         *)
(* A layer is kept in memory, or "OutOfMemory": one coset of it and the  *)
(* means to evaluate the others.  Between two such layers proxies fold,    *)
(* chunk by chunk and without memory of their own.                         *)
(*                                                                         *)
(* A vector of field elements is what it holds: the elements first,        *)
(* first + 1, ... of the layer after that many folds, or nothing of use.   *)
(* All sizes are powers of two and given by their logarithms.              *)
(***************************************************************************)
EXTENDS Powers, Integers, FiniteSetsExt, SequencesExt

CONSTANT Shapes   \* [steps, logLastDegree, logBlowup, logInMemory, logNonChunked, logChunks]

(* CommitmentPhase asserts that no step but the first is zero.  There is   *)
(* more than one coset, for the composition polynomial has a higher degree *)
(* than the trace (VerifyCompatibleDomains).  That a layer is cut into two *)
(* chunks at least, and that these are large enough for a step to be       *)
(* folded, is what the settings have to see to.                            *)
ASSUME ShapesAssumption ==
  \A s \in Shapes :
    /\ s.steps \in Seq(Nat) \ {<<>>}
    /\ \A i \in 2..Len(s.steps) : s.steps[i] # 0
    /\ {s.logLastDegree, s.logInMemory, s.logNonChunked} \subseteq Nat
    /\ {s.logBlowup, s.logChunks} \subseteq Nat \ {0}
    /\ \A i \in 1..Len(s.steps) : s.steps[i] <= s.logNonChunked + 1

VARIABLES shape,
          layers,       \* all that are no proxies, in the order they are made
          proxies,      \* logarithms of the chunk sizes of the proxies on the last layer
          layer_num, coset_size, first_in_memory,
          chunk_index,  \* of the loop over chunks that runs
          storage,      \* the coset the twiddle factors of that loop are for
          vector,       \* what GetAllEvaluation has found, chunk by chunk
          segments,     \* the segments given to the table of each committed layer
          answers,      \* what committed layers evaluate for their decommitment
          pc

vars == <<shape, layers, proxies, layer_num, coset_size, first_in_memory, chunk_index, storage,
          vector, segments, answers, pc>>
loop == <<chunk_index, storage, vector>>

Steps == shape.steps
NLayers == Len(Steps)
StepsUpTo(n) == SumOfFirst(Steps, n)

(* StarkProver asserts that the first layer has this degree bound, and     *)
(* hands over one coset of as many elements.                               *)
LogDegree(folds) == StepsUpTo(NLayers) + shape.logLastDegree - folds
LogLayer(folds) == LogDegree(folds) + shape.logBlowup
-----------------------------------------------------------------------------
(* Vectors. *)
Part(folds, first, log) == [folds |-> folds, first |-> first, log |-> log]
Useless(log) == Part(-1, 0, log)
IsUseful(v) == v.folds # -1

SubSpan(v, first, log) == IF IsUseful(v) THEN Part(v.folds, v.first + first, log) ELSE Useless(log)

(* ComputeNextFriLayer on the coset of that number. *)
Fold(v, coset) == IF IsUseful(v) /\ v.first = coset * Pow2[v.log]
                  THEN Part(v.folds + 1, v.first \div 2, v.log - 1) ELSE Useless(v.log - 1)

(* The evaluation on a coset of what was interpolated from v, which is the *)
(* layer only if it has no higher degree.                                  *)
LdeAt(v, coset) == IF IsUseful(v) /\ v.first = 0 /\ LogDegree(v.folds) <= v.log /\ coset # -1
                   THEN Part(v.folds, coset * Pow2[v.log], v.log) ELSE Useless(v.log)
-----------------------------------------------------------------------------
(* Layers. *)
Layer(kind, folds, log, evaluation) ==
  [kind |-> kind, folds |-> folds, log |-> log, evaluation |-> evaluation, moved |-> FALSE]

InMemory(folds, evaluation) == Layer("InMemory", folds, LogLayer(folds), evaluation)
OutOfMemory(folds, log, evaluation) == Layer("OutOfMemory", folds, log, evaluation)

base == Last(layers)

(* The size of the layer on top, and of its chunks. *)
Folds == base.folds + Len(proxies)
LogSize == LogLayer(Folds)
LogChunk == IF proxies = <<>> THEN base.log ELSE Last(proxies)
NChunks == Pow2[LogSize - LogChunk]

(* A chunk of the base that is not moved yet is its evaluation itself. *)
AlwaysItself(chunk) == base.kind = "OutOfMemory" /\ chunk = 0   \* mutant
IsItself(chunk) == base.kind = "OutOfMemory" /\ chunk = 0 /\ ~base.moved

(* What a vector still holds whose contents may have been moved. *)
OwnEvaluation == IF base.moved THEN Useless(base.log) ELSE base.evaluation

(* GetChunk of the base for a proxy. *)
BaseChunk(log, chunk) ==
  IF base.kind = "InMemory"
  THEN IF log < base.log THEN SubSpan(base.evaluation, chunk * Pow2[log], log) ELSE base.evaluation
  ELSE IF IsItself(chunk) THEN OwnEvaluation
  ELSE SubSpan(LdeAt(base.evaluation, chunk), 0, log)

BaseHas(log, chunk) ==
  IF base.kind = "InMemory" THEN (chunk + 1) * Pow2[log] <= Pow2[base.log]
  ELSE log <= base.log /\ chunk < Pow2[LogLayer(base.folds) - base.log]

(* GetChunk of the proxies, the lowest first. *)
Folded(log, chunk) ==
  LET up[k \in 0..Len(proxies)] ==
        IF k = 0 THEN BaseChunk(log + Len(proxies), chunk) ELSE Fold(up[k - 1], chunk)
  IN up[Len(proxies)]

(* Each folds a domain of twice its own chunks, and is asked for a chunk.  *)
ProxiesFit(log, chunk) ==
  \A k \in 1..Len(proxies) :
    /\ proxies[k] = log + Len(proxies) - k
    /\ chunk < Pow2[LogLayer(base.folds + k) - proxies[k]]

(* GetPrecomputedFft: the twiddle factors are shifted from those of the    *)
(* chunk before, whatever they are for.                                    *)
Precomputed(chunk) ==
  LET now == IF storage = -1 THEN 0 ELSE storage
  IN IF chunk = 0 THEN now ELSE IF now = chunk - 1 THEN chunk ELSE -1

(* GetChunk into a vector of the caller. *)
GetChunk(log, chunk) ==
  IF proxies # <<>> THEN Folded(log, chunk)
  ELSE IF base.kind = "InMemory" THEN SubSpan(base.evaluation, chunk * Pow2[log], log)
  ELSE IF IsItself(chunk) THEN SubSpan(OwnEvaluation, 0, log)
  ELSE LdeAt(base.evaluation, Precomputed(chunk))

(* The assertions on the way. *)
MayGetChunk(log, chunk) ==
  /\ BaseHas(log + Len(proxies), chunk)
  /\ ProxiesFit(log, chunk)
  /\ base.kind = "OutOfMemory" /\ proxies = <<>> /\ ~IsItself(chunk) => log = base.log

(* InitLdeManager takes the evaluation for the interpolation. *)
Moved(chunk) == IF base.kind = "OutOfMemory" /\ ~IsItself(chunk)
                THEN [layers EXCEPT ![Len(layers)].moved = TRUE] ELSE layers

UsesTwiddles(chunk) == base.kind = "OutOfMemory" /\ proxies = <<>> /\ ~IsItself(chunk)
-----------------------------------------------------------------------------
fri_step == Steps[layer_num]
next_fri_step == IF layer_num < NLayers THEN Steps[layer_num + 1] ELSE 0

(* ChunkSize() / 2^(next_fri_step + fri_step) < 2, in integers. *)
is_chunk_too_small == LogChunk - (next_fri_step + fri_step) < 1
ChunkIsSmall == LogChunk <= shape.logInMemory \/ layer_num = NLayers \/ is_chunk_too_small  \* mutant
is_in_memory == LogSize <= shape.logInMemory \/ layer_num = NLayers \/ is_chunk_too_small

(* CalculateChunkSize on a layer of this size with chunks of that size. *)
ChunkSize(logSize, logChunk) ==
  IF logChunk = logSize /\ logSize > shape.logNonChunked
  THEN Max({shape.logNonChunked, logSize - shape.logChunks})
  ELSE logChunk - 1

(* The chunk sizes of as many proxies on the layer. *)
ChunkSizes(n) ==
  LET logs[k \in 0..n] == IF k = 0 THEN LogChunk ELSE ChunkSize(LogSize - (k - 1), logs[k - 1])
  IN [k \in 1..n |-> logs[k]]

Fail == /\ pc' = "failed"
        /\ UNCHANGED <<shape, layers, proxies, layer_num, coset_size, first_in_memory, loop,
                       segments, answers>>

Init ==
  /\ shape \in Shapes
  /\ layers = <<OutOfMemory(0, LogDegree(0), Part(0, 0, LogDegree(0)))>>
  /\ proxies = <<>> /\ layer_num = 1 /\ coset_size = LogDegree(0) /\ first_in_memory = TRUE
  /\ chunk_index = 0 /\ storage = -1 /\ vector = <<>>
  /\ segments = <<>> /\ answers = <<>>
  /\ pc = "CreateNextFriLayer"

(* CreateNextFriLayer puts a proxy per fold on the layer; which kind of    *)
(* layer follows is decided before.                                        *)
CreateNextFriLayer ==
  /\ pc = "CreateNextFriLayer"
  /\ proxies' = ChunkSizes(fri_step)
  /\ pc' = IF is_in_memory
           THEN IF first_in_memory /\ fri_step # 0 THEN "Smaller" ELSE "InMemory"
           ELSE "OutOfMemory"
  /\ UNCHANGED <<shape, layers, layer_num, coset_size, first_in_memory, loop, segments, answers>>

(* FriLayerOutOfMemory reads the first chunk, with no storage. *)
SameCosetSize == coset_size                                       \* mutant
NewCosetSize == coset_size - fri_step

MayMakeOutOfMemory ==
  NewCosetSize \in 0..LogSize /\ MayGetChunk(NewCosetSize, 0) /\ ~UsesTwiddles(0)

MakeOutOfMemory ==
  /\ pc \in {"Smaller", "OutOfMemory"}
  /\ IF MayMakeOutOfMemory
     THEN /\ layers' = Append(Moved(0), OutOfMemory(Folds, NewCosetSize, GetChunk(NewCosetSize, 0)))
          /\ coset_size' = NewCosetSize
          /\ proxies' = <<>>
          /\ pc' = IF pc = "Smaller" THEN "InMemory"
                   ELSE IF layer_num = NLayers THEN "failed" ELSE "Commit"
          /\ UNCHANGED <<shape, layer_num, first_in_memory, loop, segments, answers>>
     ELSE Fail

(* GetAllEvaluation with a storage of its own. *)
GetAllEvaluation(from, to) ==
  /\ pc = from /\ chunk_index < NChunks
  /\ IF MayGetChunk(LogChunk, chunk_index)
     THEN /\ vector' = Append(vector, GetChunk(LogChunk, chunk_index))
          /\ layers' = Moved(chunk_index)
          /\ storage' = IF UsesTwiddles(chunk_index) THEN Precomputed(chunk_index) ELSE storage
          /\ chunk_index' = chunk_index + 1
          /\ pc' = IF chunk_index' = NChunks THEN to ELSE pc
          /\ UNCHANGED <<shape, proxies, layer_num, coset_size, first_in_memory, segments, answers>>
     ELSE Fail

(* Chunks that follow each other are one vector. *)
Whole(chunks, log) ==
  IF \A i \in 1..Len(chunks) : /\ IsUseful(chunks[i]) /\ chunks[i].folds = chunks[1].folds
                               /\ chunks[i].first = (i - 1) * Pow2[chunks[i].log]
  THEN Part(chunks[1].folds, 0, log) ELSE Useless(log)

GatherChunk == GetAllEvaluation("InMemory", "Gathered")

MakeInMemory ==
  /\ pc = "Gathered"
  /\ layers' = Append(layers, InMemory(Folds, Whole(vector, LogSize)))
  /\ proxies' = <<>> /\ first_in_memory' = FALSE
  /\ chunk_index' = 0 /\ storage' = -1 /\ vector' = <<>>
  /\ pc' = IF layer_num = NLayers THEN "SendLastLayer" ELSE "Commit"
  /\ UNCHANGED <<shape, layer_num, coset_size, segments, answers>>

(* FriCommittedLayerByTableProver::Commit, a chunk at a time. *)
SegmentsSoFar == IF chunk_index = 0 THEN Append(segments, [layer |-> Len(layers), given |-> <<>>])
                 ELSE segments

CommitChunk ==
  /\ pc = "Commit" /\ chunk_index < NChunks
  /\ segments' = [SegmentsSoFar EXCEPT ![Len(SegmentsSoFar)].given =
                    Append(@, BaseChunk(LogChunk, chunk_index))]
  /\ layers' = Moved(chunk_index)
  /\ IF chunk_index + 1 = NChunks
     THEN chunk_index' = 0 /\ layer_num' = layer_num + 1 /\ pc' = "CreateNextFriLayer"
     ELSE chunk_index' = chunk_index + 1 /\ UNCHANGED <<layer_num, pc>>
  /\ UNCHANGED <<shape, proxies, coset_size, first_in_memory, storage, vector, answers>>

LastLayerChunk == GetAllEvaluation("SendLastLayer", "LastLayer")

(* SendLastLayer interpolates and asserts the degree. *)
SendLastLayer ==
  /\ pc = "LastLayer"
  /\ LET last == Whole(vector, LogSize)
     IN IF IsUseful(last) /\ LogDegree(last.folds) <= shape.logLastDegree
        THEN /\ pc' = "Decommit"
             /\ chunk_index' = 0 /\ storage' = -1 /\ vector' = <<>>
             /\ UNCHANGED <<shape, layers, proxies, layer_num, coset_size, first_in_memory,
                            segments, answers>>
        ELSE Fail

FirstCosetOnly(layer) == layer.evaluation                         \* mutant

(* Decommit of the next committed layer evaluates single rows of it. *)
EvalAtPoints(layer) ==
  IF layer.kind = "InMemory" THEN layer.evaluation
  ELSE LET v == layer.evaluation
       IN IF IsUseful(v) /\ v.first = 0 /\ LogDegree(v.folds) <= v.log
          THEN Part(v.folds, 0, LogLayer(v.folds)) ELSE Useless(v.log)

Decommit ==
  /\ pc = "Decommit" /\ Len(answers) < Len(segments)
  /\ LET i == segments[Len(answers) + 1].layer
     IN /\ answers' = Append(answers, EvalAtPoints(layers[i]))
        /\ layers' = [layers EXCEPT ![i].moved = (layers[i].kind = "OutOfMemory")]
  /\ UNCHANGED <<shape, proxies, layer_num, coset_size, first_in_memory, loop, segments, pc>>

Done == pc = "Decommit" /\ Len(answers) = Len(segments) /\ UNCHANGED vars

Next == \/ CreateNextFriLayer \/ MakeOutOfMemory \/ GatherChunk \/ MakeInMemory \/ CommitChunk
        \/ LastLayerChunk \/ SendLastLayer \/ Decommit \/ Done

Spec == Init /\ [][Next]_vars
-----------------------------------------------------------------------------
(* Whatever kinds of layers lie below it and in whatever chunks it is      *)
(* read, the table of the n-th layer is given that layer, in order and     *)
(* once; and what a layer decommits are values of the layer it committed   *)
(* to, though its evaluation may have been moved since.                    *)
TablesHoldTheLayers ==
  /\ \A n \in DOMAIN segments : \A i \in DOMAIN segments[n].given :
       LET given == segments[n].given[i]
       IN given = Part(StepsUpTo(n), (i - 1) * Pow2[given.log], given.log)
  /\ \A n \in DOMAIN answers : answers[n] = Part(StepsUpTo(n), 0, LogLayer(StepsUpTo(n)))

(* No assertion of the layers, of SafeDiv or on the last layer's degree    *)
(* fails, for every combination of steps and memory settings.              *)
NoAssertionFails == pc # "failed"

(* fri_layer.h: there is no case of a layer in memory, proxies and a layer *)
(* out of memory; each chunk of such a proxy would be folded again and     *)
(* again.                                                                  *)
InMemoryStaysInMemory ==
  \A i, j \in DOMAIN layers : i < j /\ layers[i].kind = "InMemory" => layers[j].kind = "InMemory"

=============================================================================
