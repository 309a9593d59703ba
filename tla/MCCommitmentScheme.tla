------------------------ MODULE MCCommitmentScheme ------------------------
(* Tables for CommitmentScheme. *)
EXTENDS CommitmentScheme

Table(plain, cosets, rows, elementSize, nTasks, outOfMemory, friendly, maxQueries, mayAlter) ==
  [plain |-> plain, cosets |-> cosets, rows |-> rows, elementSize |-> elementSize,
   nTasks |-> nTasks, outOfMemory |-> outOfMemory, friendly |-> friendly,
   maxQueries |-> maxQueries, mayAlter |-> mayAlter]

(* Eight rows or less in every number of segments, with one, two or four   *)
(* rows in a package, and all choices of levels in memory and friendly     *)
(* levels.                                                                 *)
AllTables ==
  UNION {{Table(FALSE, cosets, rows, elementSize, nTasks, outOfMemory, friendly, 2, FALSE) :
            elementSize \in {1, 2, 4}, nTasks \in {1, 2}, outOfMemory \in 0..2,
            friendly \in {0, 1, 2, 4}} :
           <<cosets, rows>> \in {p \in {1, 2, 4} \X {1, 2, 4, 8} : p[1] * p[2] \in {4, 8}}}

(* Tables whose proofs are altered, and plain trees.                       *)
SomeTables ==
  {Table(FALSE, 2, 4, elementSize, 1, outOfMemory, friendly, 3, TRUE) :
     elementSize \in {2, 4}, outOfMemory \in {0, 2}, friendly \in {0, 2}}
  \union {Table(TRUE, cosets, 1, 2, 1, 0, 0, 3, TRUE) : cosets \in {1, 2, 4, 8}}

(* Segments in four tasks, and the same in two. *)
ManyTasks ==
  {Table(FALSE, cosets, 16 \div cosets, 3, nTasks, 1, 3, 1, FALSE) :
     cosets \in {1, 2}, nTasks \in {2, 4}}

MCShapes == AllTables \union SomeTables \union ManyTasks
=============================================================================
