-------------------------- MODULE CommitmentScheme --------------------------
(***************************************************************************)
(* A committed table from its first segment to the verdict on its          *)
(* decommitment: the parallel table prover (parallel_table_prover.cc), the *)
(* stack of commitment schemes the builder makes for each side             *)
(* (commitment_scheme_builder.inl, stark/utils.inl), and what the          *)
(* packaging, caching and Merkle schemes exchange.                         *)
(*                                                                         *)
(* Level 0 of a stack are the rows of the table, level 1 their packages,   *)
(* and every level above hashes pairs of the one below, up to the root.    *)
(* The prover packs level by level as far as a segment reaches and then    *)
(* walks a Merkle tree with one leaf per segment; the verifier knows       *)
(* nothing of segments and packs level by level up to the root.  Hashes    *)
(* are terms, so there are no collisions.                                  *)
(***************************************************************************)
EXTENDS Powers, Integers, FiniteSets, SequencesExt

CONSTANTS Shapes,       (* tables to choose from, records of                *)
                        (*   plain        only a Merkle scheme, as the      *)
                        (*                tests make it                     *)
                        (*   cosets, rows segments and their rows           *)
                        (*   elementSize  bytes of a row                    *)
                        (*   nTasks       table_prover_n_tasks_per_segment  *)
                        (*   outOfMemory  n_out_of_memory_merkle_layers     *)
                        (*   friendly     n_verifier_friendly_..._layers    *)
                        (*   maxQueries   bound on the queries chosen       *)
                        (*   mayAlter     whether proof or rows may be      *)
                        (*                altered                           *)
          Digest,       (* kDigestNumBytes                                  *)
          Workers       (* threads that add sub-segments                    *)

VARIABLES
  shape,
  at,                          \* where the table is
  coset, waiting, running,     \* segment, its tasks not begun, task of a worker
  scratch,                     \* per_thread_segments
  cache, nodes,                \* layer_data_ of caching levels; MerkleTree::nodes_
  queries, given,              \* queries_; elements_data of the current level
  level, queue,                \* level of a decommitment, queue of a tree
  sent,                        \* what the prover wrote, with annotations
  claimed, proof,              \* what the verifier is given
  known, notes                 \* what it computed; what it believes it read

building == <<coset, waiting, running, scratch>>
proving == <<cache, nodes, queries, given, sent>>
commitment_vars == <<shape, at, building, proving, level, queue, claimed, proof, known, notes>>

ASSUME DigestSizeAssumption == Digest \in Nat \ {0}

(* Merkle trees (merkle.h:42) and tables (packer_hasher.cc:109) refuse any *)
(* size that is no power of two, SafeLog2 any such number of tasks.  In    *)
(* a plain scheme a segment is one leaf.                                   *)
ASSUME TablesAssumption ==
  \A s \in Shapes :
    /\ \A n \in {s.cosets, s.rows, s.nTasks} : n \in Nat /\ \E k \in 0..n : n = Pow2[k]
    /\ s.elementSize \in Nat \ {0} /\ s.outOfMemory \in Nat /\ s.friendly \in Nat
    /\ s.plain \in BOOLEAN /\ s.plain => s.rows = 1

-----------------------------------------------------------------------------
(* Shapes of the two stacks *)

Least(a, b) == IF a < b THEN a ELSE b
Log2(n) == CHOOSE k \in 0..n : Pow2[k] = n                         \* SafeLog2
Log2Ceil(n) == CHOOSE k \in 0..n : Pow2[k] >= n /\ (k = 0 \/ Pow2[k - 1] < n)

(* ComputeNumElementsInPackage *)
ElementsInPackage(n) ==
  IF shape.elementSize >= 2 * Digest THEN 1
  ELSE Least(Pow2[Log2Ceil((2 * Digest - 1) \div shape.elementSize + 1)], n)

(* Whether the factory cuts each segment into one piece per task. *)
SplitsAnyRows == shape.nTasks > 1 /\ shape.rows >= shape.nTasks         \* mutant
Splits ==
  /\ ~shape.plain /\ shape.nTasks > 1
  /\ shape.rows >= shape.nTasks
  /\ shape.elementSize * shape.rows > shape.nTasks * 2 * Digest

Pieces == IF Splits THEN shape.nTasks ELSE 1           \* of a segment of the caller
NSegments == shape.cosets * Pieces
NRows == shape.rows \div Pieces                        \* of a segment
PerPackage == IF shape.plain THEN 1 ELSE ElementsInPackage(shape.cosets * shape.rows)
NPackages == (NSegments * NRows) \div PerPackage
Height == Log2(NPackages)
InSegment == Log2(NPackages \div NSegments)   \* n_layers_in_segment

(* The level whose elements are the leaves of the Merkle tree. *)
TreeLevel == IF shape.plain THEN 0 ELSE InSegment + 1
VTreeLevel == IF shape.plain THEN 0 ELSE Height + 1

NElements(k) == IF k = 0 THEN NSegments * NRows ELSE NPackages \div Pow2[k - 1]
PackSize(k) == IF k = 0 THEN PerPackage ELSE 2

(* Level k is the layer InSegment - k of CreateAllCommitmentSchemeLayers.  *)
Cached(k) ==
  /\ k \in 1..InSegment
  /\ InSegment - k < InSegment - Least(shape.outOfMemory, InSegment)

HashKind(top) == IF top THEN "top" ELSE "bottom"

SegmentsForgotten == Least(shape.friendly, InSegment)                   \* mutant

(* CalculateNVerifierFriendlyLayersInSegment *)
FriendlyInSegment ==
  IF shape.friendly = 0 THEN 0
  ELSE IF shape.friendly >= Height THEN InSegment
  ELSE shape.friendly - Log2(NSegments)

(* The hash that makes level k + 1 from level k, for each side. *)
PHash(k) == IF k = 0 THEN "package" ELSE HashKind(InSegment - k < FriendlyInSegment)
TreeHash == HashKind(shape.friendly > 0)
VHash(k) == IF k = 0 THEN "package" ELSE HashKind(Height - k < Least(Height, shape.friendly))

(* The assertions of the constructors, for a table in n segments. *)
PackagesFit(n) ==
  LET total == shape.cosets * shape.rows
  IN  ((total \div ElementsInPackage(total)) % n) = 0
TopFits(n) ==
  \/ shape.friendly = 0 \/ shape.friendly >= Log2(n)
  \/ shape.friendly >= Height
Builds(n) == shape.plain \/ (PackagesFit(n) /\ TopFits(n))

-----------------------------------------------------------------------------
(* Packing and hashing *)

Row(i) == <<"row", i>>
Hash(kind, children) == <<kind, children>>
Unset == <<"unset">>
Altered == <<"altered">>

(* The elements of S that are below n. *)
Ascending(S, n) ==
  LET upTo[i \in 0..n] == IF i = 0 THEN <<>>
                          ELSE IF i - 1 \in S THEN Append(upTo[i - 1], i - 1) ELSE upTo[i - 1]
  IN  upTo[n]

(* PackerHasher::PackAndHash on a sequence of whole packages. *)
PackAndHash(elements, size, kind) ==
  [i \in 1..(Len(elements) \div size) |->
     Hash(kind, SubSeq(elements, (i - 1) * size + 1, i * size))]

(* The levels above the given elements, with a kind of hash for each. *)
Levels(elements, n, kinds) ==
  LET up[k \in 0..n] == IF k = 0 THEN elements
                        ELSE PackAndHash(up[k - 1], PackSize(k - 1), kinds[k - 1])
  IN  up

(* GetElementsInPackages *)
ElementsInPackages(packages, size) ==
  FlattenSeq([i \in DOMAIN packages |->
                [j \in 1..size |-> packages[i] * size + j - 1]])

WholePackages(elements, size, n) ==                                     \* mutant
  Ascending({e \in 0..(n - 1) : \E q \in elements : q \div size = e \div size}, n)

(* ElementsRequiredToComputeHashes: what is missing in the packages of the *)
(* elements, in ascending order.                                           *)
Required(elements, size, n) ==
  LET packages == {e \div size : e \in elements}
  IN  Ascending({e \in 0..(n - 1) : e \div size \in packages} \ elements, n)

(* The queries as they reach level k of the prover. *)
QueriesAt(k) ==
  {IF k = 0 THEN q ELSE (q \div PerPackage) \div Pow2[k - 1] : q \in queries}

Missing(k) == Required(QueriesAt(k), PackSize(k), NElements(k))

(* What StartDecommitmentPhase returns at each level, to the level below   *)
(* it.  A level that caches asks for nothing.                              *)
Asks ==
  LET asks[k \in 0..TreeLevel] ==
        IF k = TreeLevel THEN <<>>
        ELSE Missing(k) \o ElementsInPackages(IF Cached(k + 1) THEN <<>> ELSE asks[k + 1],
                                              PackSize(k))
  IN  asks

(* The rows that the table asks its owner for. *)
RowsToRequest == Ascending(queries, NElements(0)) \o Asks[0]

-----------------------------------------------------------------------------
(* Adding the segments *)

Tasks == 0..(Pieces - 1)
NoTask == -1

(* The part of the current segment that a task adds. *)
SubSegment(t) ==
  [i \in 1..NRows |-> Row(coset * shape.rows + t * NRows + i - 1)]

NotScaled(t) == coset + t                                               \* mutant

(* The index of the segment that a task adds. *)
SegmentIndex(t) == Pieces * coset + t

FirstOfAll(w) == CHOOSE v \in Workers : TRUE                            \* mutant

(* Which entry of per_thread_segments a worker uses. *)
Slot(w) == w

StartsTask(w) ==
  /\ at = "adding" /\ running[w] = NoTask
  /\ \E t \in waiting :
       /\ waiting' = waiting \ {t}
       /\ running' = [running EXCEPT ![w] = t]
       /\ scratch' = [scratch EXCEPT ![Slot(w)] = SubSegment(t)]
  /\ UNCHANGED <<shape, at, coset, proving, level, queue, claimed, proof, known, notes>>

(* AddSegmentForCommitment through all levels down to the leaf of the tree. *)
AddsSegment(w) ==
  LET s == SegmentIndex(running[w])
      up == Levels(scratch[Slot(w)], TreeLevel, [k \in 0..(TreeLevel - 1) |-> PHash(k)])
      Mine(k, i) == i \div Len(up[k]) = s
  IN  /\ at = "adding" /\ running[w] # NoTask
      /\ cache' = [k \in DOMAIN cache |->
                     [i \in DOMAIN cache[k] |->
                        IF Mine(k, i) THEN up[k][(i % Len(up[k])) + 1] ELSE cache[k][i]]]
      /\ nodes' = [nodes EXCEPT ![NSegments + s] = up[TreeLevel][1]]
      /\ running' = [running EXCEPT ![w] = NoTask]
      /\ UNCHANGED <<shape, at, coset, waiting, scratch, queries, given, sent, level, queue,
                     claimed, proof, known, notes>>

SegmentIsAdded == waiting = {} /\ \A w \in Workers : running[w] = NoTask

NextSegment ==
  /\ at = "adding" /\ SegmentIsAdded /\ coset < shape.cosets - 1
  /\ coset' = coset + 1
  /\ waiting' = Tasks
  /\ scratch' = [w \in Workers |-> <<>>]
  /\ UNCHANGED <<shape, at, running, proving, level, queue, claimed, proof, known, notes>>

(* GetRoot hashes all inner nodes, since a segment is a single leaf. *)
Commit ==
  LET tree[i \in DOMAIN nodes] ==
        IF i >= NSegments THEN nodes[i]
        ELSE Hash(TreeHash, <<tree[2 * i], tree[2 * i + 1]>>)
  IN  /\ at = "adding" /\ SegmentIsAdded /\ coset = shape.cosets - 1
      /\ at' = "committed"
      /\ nodes' = tree
      /\ sent' = << << <<"root">>, tree[1] >> >>
      /\ scratch' = [w \in Workers |-> <<>>]
      /\ UNCHANGED <<shape, coset, waiting, running, cache, queries, given, level, queue,
                     claimed, proof, known, notes>>

-----------------------------------------------------------------------------
(* Decommitment *)

StartDecommitmentPhase ==
  /\ at = "committed"
  /\ \E Q \in SUBSET (0..(NElements(0) - 1)) :
       /\ Cardinality(Q) \in 1..shape.maxQueries
       /\ queries' = Q
  /\ at' = "requested"
  /\ UNCHANGED <<shape, building, cache, nodes, given, level, queue, sent, claimed, proof,
                 known, notes>>

(* The owner of the table answers; the rows of the queries are sent by the *)
(* table itself, the others are handed to the commitment scheme.           *)
Decommit ==
  /\ at = "requested"
  /\ at' = "packages" /\ level' = 0
  /\ given' = [i \in DOMAIN Asks[0] |-> Row(Asks[0][i])]
  /\ UNCHANGED <<shape, building, cache, nodes, queries, queue, sent, claimed, proof, known,
                 notes>>

(* The annotation of element i of level k. *)
Label(k, i) == IF k = 0 THEN <<"element", i>> ELSE <<"node", NElements(k) + i>>

TreeQueue == LET leaves == Ascending(QueriesAt(TreeLevel), NSegments)
             IN  [i \in DOMAIN leaves |-> NSegments + leaves[i]]

(* PackagingCommitmentSchemeProver::Decommit at one level, with            *)
(* CachingCommitmentSchemeProver::Decommit around the next.                *)
DecommitLevel ==
  LET k == level
      n == Len(Missing(k))
      packed == PackAndHash(SubSeq(given, n + 1, Len(given)), PackSize(k), PHash(k))
      cached == [i \in DOMAIN Asks[k + 1] |-> cache[k + 1][Asks[k + 1][i]]]
  IN  /\ at = "packages" /\ k < TreeLevel
      /\ IF Len(given) # Len(Asks[k]) \/ (Cached(k + 1) /\ packed # <<>>)
         THEN at' = "failed" /\ UNCHANGED <<sent, given, level>>
         ELSE /\ sent' = sent \o [i \in 1..n |-> <<Label(k, Missing(k)[i]), given[i]>>]
              /\ given' = IF Cached(k + 1) THEN cached ELSE packed
              /\ level' = k + 1
              /\ UNCHANGED at
      /\ UNCHANGED <<shape, building, cache, nodes, queries, queue, claimed, proof, known, notes>>

(* MerkleTree::GenerateDecommitment *)
StartTree ==
  /\ at = "packages" /\ level = TreeLevel
  /\ at' = IF given = <<>> THEN "tree" ELSE "failed"
  /\ queue' = TreeQueue
  /\ UNCHANGED <<shape, building, proving, level, claimed, proof, known, notes>>

Sibling(node) == IF node % 2 = 0 THEN node + 1 ELSE node - 1

NeverNext(rest, node) == FALSE                                          \* mutant

(* Whether the node after a node in the queue is its sibling. *)
SiblingIsNext(rest, node) == Head(rest) = Sibling(node)

TreeStep ==
  LET node == Head(queue)
      rest == Append(Tail(queue), node \div 2)
  IN  /\ at = "tree" /\ node # 1
      /\ IF SiblingIsNext(rest, node)
         THEN queue' = Tail(rest) /\ UNCHANGED sent
         ELSE /\ queue' = rest
              /\ sent' = Append(sent, << <<"node", Sibling(node)>>, nodes[Sibling(node)] >>)
      /\ UNCHANGED <<shape, at, building, cache, nodes, queries, given, level, claimed, proof,
                     known, notes>>

-----------------------------------------------------------------------------
(* The verifier *)

Contents(units) == [i \in DOMAIN units |-> units[i][2]]

(* The verifier gets the proof and the rows of the queries; either may     *)
(* have been altered in one place.                                         *)
HandOver ==
  /\ at = "tree" /\ Head(queue) = 1
  /\ at' = "reads" /\ level' = 0 /\ queue' = <<>>
  /\ LET honest == [q \in queries |-> Row(q)]
     IN  \/ claimed' = honest /\ proof' = Contents(sent)
         \/ /\ shape.mayAlter /\ proof' = Contents(sent)
            /\ \E q \in queries : claimed' = [honest EXCEPT ![q] = Altered]
         \/ /\ shape.mayAlter /\ claimed' = honest
            /\ \E i \in DOMAIN sent : proof' = [Contents(sent) EXCEPT ![i] = Altered]
  /\ known' = claimed'
  /\ notes' = << <<"root">> >>                                  \* ReadCommitment
  /\ UNCHANGED <<shape, building, proving>>

(* PackagingCommitmentSchemeVerifier::VerifyIntegrity at one level. *)
VerifyLevel ==
  LET k == level
      size == PackSize(k)
      missing == Required(DOMAIN known, size, NElements(k))
      n == Len(missing)
      full == [e \in DOMAIN known \union Range(missing) |->
                 IF e \in DOMAIN known THEN known[e]
                 ELSE proof[Len(notes) + (CHOOSE i \in 1..n : missing[i] = e)]]
  IN  /\ at = "reads" /\ k < VTreeLevel
      /\ IF Len(notes) + n > Len(proof)
         THEN at' = "rejected" /\ UNCHANGED <<known, notes, level>>
         ELSE /\ notes' = notes \o [i \in 1..n |-> Label(k, missing[i])]
              /\ known' = [p \in {e \div size : e \in DOMAIN full} |->
                             Hash(VHash(k), [j \in 1..size |-> full[p * size + j - 1]])]
              /\ level' = k + 1
              /\ UNCHANGED at
      /\ UNCHANGED <<shape, building, proving, queue, claimed, proof>>

(* MerkleTree::VerifyDecommitment: the queue holds nodes with their hash.  *)
VStartTree ==
  LET leaves == NElements(VTreeLevel)
      inOrder == Ascending(DOMAIN known, leaves)
  IN  /\ at = "reads" /\ level = VTreeLevel
      /\ at' = "walks"
      /\ queue' = [i \in DOMAIN inOrder |-> <<leaves + inOrder[i], known[inOrder[i]]>>]
      /\ UNCHANGED <<shape, building, proving, level, claimed, proof, known, notes>>

AsTheyCome(node, hash, sibling) == <<hash, sibling>>                     \* mutant

(* The children of a parent, by the parity of a node. *)
InPlace(node, hash, sibling) ==
  IF node % 2 = 0 THEN <<hash, sibling>> ELSE <<sibling, hash>>

VTreeStep ==
  LET node == Head(queue)[1]
      hash == Head(queue)[2]
      rest == Tail(queue)
      inQueue == rest # <<>> /\ Head(rest)[1] = Sibling(node)
      Parent(sibling) == <<node \div 2, Hash(TreeHash, InPlace(node, hash, sibling))>>
  IN  /\ at = "walks" /\ node # 1
      /\ CASE inQueue -> /\ queue' = Append(Tail(rest), Parent(Head(rest)[2]))
                         /\ UNCHANGED <<at, notes>>
           [] ~inQueue /\ Len(notes) < Len(proof) ->
                /\ queue' = Append(rest, Parent(proof[Len(notes) + 1]))
                /\ notes' = Append(notes, <<"node", Sibling(node)>>)
                /\ UNCHANGED at
           [] OTHER -> at' = "rejected" /\ UNCHANGED <<queue, notes>>
      /\ UNCHANGED <<shape, building, proving, level, claimed, proof, known>>

NoRoot(hash) == TRUE                                                    \* mutant

MatchesRoot(hash) == hash = proof[1]

Compare ==
  /\ at = "walks" /\ Head(queue)[1] = 1
  /\ at' = IF MatchesRoot(Head(queue)[2]) THEN "accepted" ELSE "rejected"
  /\ UNCHANGED <<shape, building, proving, level, queue, claimed, proof, known, notes>>

-----------------------------------------------------------------------------
CommitmentInit ==
  /\ shape \in Shapes
  /\ at = IF Builds(NSegments) THEN "adding" ELSE "failed"
  /\ coset = 0
  /\ waiting = Tasks
  /\ running = [w \in Workers |-> NoTask]
  /\ scratch = [w \in Workers |-> <<>>]
  /\ cache = IF at = "failed" THEN <<>>
             ELSE [k \in {l \in 1..InSegment : ~shape.plain /\ Cached(l)} |->
                     [i \in 0..(NElements(k) - 1) |-> Unset]]
  /\ nodes = [i \in 1..(2 * NSegments - 1) |-> Unset]
  /\ queries = {} /\ given = <<>> /\ level = 0 /\ queue = <<>> /\ sent = <<>>
  /\ claimed = <<>> /\ proof = <<>> /\ known = <<>> /\ notes = <<>>

Ended == at \in {"failed", "accepted", "rejected"} /\ UNCHANGED commitment_vars

CommitmentNext ==
  \/ \E w \in Workers : StartsTask(w) \/ AddsSegment(w)
  \/ NextSegment \/ Commit
  \/ StartDecommitmentPhase \/ Decommit \/ DecommitLevel \/ StartTree \/ TreeStep
  \/ HandOver \/ VerifyLevel \/ VStartTree \/ VTreeStep \/ Compare
  \/ Ended

CommitmentSpec == CommitmentInit /\ [][CommitmentNext]_commitment_vars

-----------------------------------------------------------------------------
(* Properties *)

(* The root of a table as the verifier builds it, with one hash tree over  *)
(* all packages.                                                           *)
CanonicalRoot ==
  Levels([i \in 1..NElements(0) |-> Row(i - 1)], VTreeLevel,
         [k \in 0..(VTreeLevel - 1) |-> VHash(k)])[VTreeLevel][1]

(* However the rows are cut into segments and these into tasks, in         *)
(* whatever order the workers add them and whichever levels are kept in    *)
(* memory, the commitment is the one root of the table that the verifier   *)
(* would compute, friendly hashes in the same levels                       *)
(* (commitment_scheme_builder.inl:31-53).                                  *)
CommitmentIsCanonical ==
  sent # <<>> /\ ~shape.plain => Contents(sent)[1] = CanonicalRoot

(* The verifier takes every value for what the prover sent it as, though   *)
(* one side goes through segments and the queue of a tree and the other    *)
(* level by level.                                                         *)
Lockstep == IsPrefix(notes, [i \in DOMAIN sent |-> sent[i][1]])

(* An honest proof with honest rows is never rejected: the values that     *)
(* caches and the owner supply are those of the committed table.  And a    *)
(* row or a value of the proof that is not the committed one is never      *)
(* accepted: all that is sent is needed, and every row reaches the root.   *)
VerdictIsExact ==
  LET intact == proof = Contents(sent) /\ \A q \in queries : claimed[q] = Row(q)
  IN  /\ at = "rejected" => ~intact
      /\ at = "accepted" => intact

(* The decommitment holds nothing twice and nothing the verifier has or    *)
(* computes itself (merkle.cc:83-89, packer_hasher.cc:148-170).            *)
NothingRedundant ==
  LET labels == [i \in 2..Len(sent) |-> sent[i][1]]
      leaf(q) == IF shape.plain THEN NSegments + q ELSE NPackages + q \div PerPackage
  IN  /\ \A i, j \in DOMAIN labels : labels[i] = labels[j] => i = j
      /\ \A i \in DOMAIN labels :
           IF labels[i][1] = "element" THEN labels[i][2] \notin queries
           ELSE \A q \in queries : \A d \in 0..Height : labels[i][2] # leaf(q) \div Pow2[d]

(* Nothing throws after construction, and construction fails only for      *)
(* tables that fail without tasks as well, or for a friendly part that     *)
(* ends inside the tree of segments (stark/utils.inl:33-47).               *)
SplittingIsSafe ==
  at = "failed" => ~PackagesFit(shape.cosets) \/ ~TopFits(NSegments)

(* "n_verifier_friendly_commitment_layers params needs be either 0 or at   *)
(* least log(table_prover_n_tasks_per_segment) * n_cosets"                 *)
(* (main/prover_main_helper_impl.cc:117-120).                              *)
DocumentedMinimum ==
  at = "failed" /\ PackagesFit(NSegments) =>
    shape.friendly # 0 /\ shape.friendly < Log2(shape.nTasks) * shape.cosets
=============================================================================
