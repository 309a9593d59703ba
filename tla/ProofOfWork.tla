---------------------------- MODULE ProofOfWork ----------------------------
(***************************************************************************)
(* ProofOfWorkProver::Prove (src/starkware/channel/proof_of_work.inl): the *)
(* tasks of one ParallelFor search the space of nonces in chunks for one   *)
(* whose hash is below the work limit.  They share two atomics, the next   *)
(* chunk to search and the lowest nonce found; nothing else synchronises   *)
(* them.                                                                   *)
(*                                                                         *)
(* Nonces have a fixed width: there are Chunks * ChunkSize of them (2^64   *)
(* in the code) and sums wrap around.  A value of nonce_start is a         *)
(* multiple of ChunkSize and is kept as the number of its chunk.  Which    *)
(* nonces the hash function makes valid is left open.                      *)
(***************************************************************************)
EXTENDS Naturals, FiniteSets

CONSTANTS Chunks,       (* 2^64 / chunk_size                                *)
          ChunkSize,    (* chunk_size                                       *)
          ThreadCount   (* thread_count, the number of tasks                *)

ASSUME SizesAssumption ==
  /\ Chunks \in Nat /\ ChunkSize \in Nat \ {0}
  /\ ThreadCount \in 1..(Chunks - 1)   \* nonce_bound does not wrap around

Ids == 0..(ThreadCount - 1)
ChunkNumbers == 0..(Chunks - 1)
Start(c) == c * ChunkSize
NonceCount == Start(Chunks)
MaxNonce == NonceCount - 1             \* std::numeric_limits<uint64_t>::max()

VARIABLES
  valid,      (* the nonces whose hash is below work_limit                  *)
  next,       (* next_chunk_to_search                                       *)
  lowest,     (* lowest_nonce_found                                         *)
  pc,         (* what a task does next                                      *)
  chunk,      (* nonce_start of a task                                      *)
  nonce,      (* the nonce a task found in its chunk                        *)
  curr,       (* curr_nonce of a task                                       *)
  wrapped     (* history: next_chunk_to_search went past the last chunk     *)

search_vars == <<valid, next, lowest, pc, chunk, nonce, curr, wrapped>>

Nonces == 0..MaxNonce

SearchTypeOK ==
  /\ valid \subseteq Nonces
  /\ next \in ChunkNumbers
  /\ lowest \in Nonces
  /\ pc \in [Ids -> {"search", "load", "exchange", "fetch", "check", "done"}]
  /\ chunk \in [Ids -> ChunkNumbers]
  /\ nonce \in [Ids -> Nonces]
  /\ curr \in [Ids -> Nonces]
  /\ wrapped \in BOOLEAN

SearchInit ==
  /\ valid \in SUBSET Nonces
  /\ next = ThreadCount
  /\ lowest = MaxNonce
  /\ pc = [i \in Ids |-> "search"]
  /\ chunk = [i \in Ids |-> i]
  /\ nonce = [i \in Ids |-> 0]
  /\ curr = [i \in Ids |-> 0]
  /\ wrapped = FALSE

(* The nonces SearchChunk can return: the bound of its loop is a sum that  *)
(* wraps around for the last chunk.                                        *)
Found(c) ==
  {n \in valid : Start(c) <= n /\ n < (Start(c) + ChunkSize) % NonceCount}

(* SearchChunk, which returns the first one. *)
Search(i) ==
  /\ pc[i] = "search"
  /\ \/ /\ Found(chunk[i]) = {}
        /\ pc' = [pc EXCEPT ![i] = "fetch"]
        /\ UNCHANGED nonce
     \/ \E n \in Found(chunk[i]) :
          /\ \A m \in Found(chunk[i]) : n <= m
          /\ nonce' = [nonce EXCEPT ![i] = n]
          /\ pc' = [pc EXCEPT ![i] = "load"]
  /\ UNCHANGED <<valid, next, lowest, chunk, curr, wrapped>>

Load(i) ==
  /\ pc[i] = "load"
  /\ curr' = [curr EXCEPT ![i] = lowest]
  /\ pc' = [pc EXCEPT ![i] = "exchange"]
  /\ UNCHANGED <<valid, next, lowest, chunk, nonce, wrapped>>

NoComparison(i) == TRUE                                           \* mutant

(* The comparison of compare_exchange. *)
Unchanged(i) == lowest = curr[i]

(* One round of the loop that lowers lowest_nonce_found. *)
Exchange(i) ==
  /\ pc[i] = "exchange"
  /\ \/ /\ nonce[i] >= curr[i]
        /\ pc' = [pc EXCEPT ![i] = "fetch"]
        /\ UNCHANGED <<lowest, curr>>
     \/ /\ nonce[i] < curr[i] /\ Unchanged(i)
        /\ lowest' = nonce[i]
        /\ pc' = [pc EXCEPT ![i] = "fetch"]
        /\ UNCHANGED curr
     \/ /\ nonce[i] < curr[i] /\ ~Unchanged(i)
        /\ curr' = [curr EXCEPT ![i] = lowest]
        /\ UNCHANGED <<lowest, pc>>
  /\ UNCHANGED <<valid, next, chunk, nonce, wrapped>>

(* fetch_add on a 64-bit counter. *)
After(c) == (c + 1) % Chunks

Fetch(i) ==
  /\ pc[i] = "fetch"
  /\ chunk' = [chunk EXCEPT ![i] = next]
  /\ next' = After(next)
  /\ wrapped' = (wrapped \/ next + 1 = Chunks)
  /\ pc' = [pc EXCEPT ![i] = "check"]
  /\ UNCHANGED <<valid, lowest, nonce, curr>>

NoOverflowCheck(i) == Start(chunk[i]) < lowest                    \* mutant
BoundExcluded(i) == Start(chunk[i]) < lowest /\ chunk[i] > ThreadCount  \* mutant

(* The condition of the do-while loop. *)
GoesOn(i) == Start(chunk[i]) < lowest /\ chunk[i] >= ThreadCount

Check(i) ==
  /\ pc[i] = "check"
  /\ pc' = [pc EXCEPT ![i] = IF GoesOn(i) THEN "search" ELSE "done"]
  /\ UNCHANGED <<valid, next, lowest, chunk, nonce, curr, wrapped>>

Step(i) == Search(i) \/ Load(i) \/ Exchange(i) \/ Fetch(i) \/ Check(i)

(* ParallelFor has returned. *)
Finished == \A i \in Ids : pc[i] = "done"
Terminated == Finished /\ UNCHANGED search_vars

SearchNext == (\E i \in Ids : Step(i)) \/ Terminated

(* ParallelFor runs every task to its end. *)
SearchSpec == SearchInit /\ [][SearchNext]_search_vars /\ \A i \in Ids : WF_search_vars(Step(i))

(* ProofOfWorkVerifier::Verify *)
Verify(n) == n \in valid
-----------------------------------------------------------------------------
(***************************************************************************)
(* Properties                                                              *)
(***************************************************************************)

(* A nonce that the search can find but has not yet is in a chunk that is  *)
(* not handed out yet, or some task is on its way to it.  A task that has  *)
(* fetched a chunk of the first ThreadCount after the wrap-around gives up *)
(* on it: it was another task's first chunk.                               *)
OnItsWay(n, c) ==
  \/ ~wrapped /\ c >= next
  \/ \E i \in Ids : \/ pc[i] = "search" /\ chunk[i] = c
                    \/ pc[i] = "check" /\ chunk[i] = c /\ c >= ThreadCount
                    \/ pc[i] \in {"load", "exchange"} /\ nonce[i] <= n

NothingMissed ==
  \A c \in 0..(Chunks - 2) : \A n \in valid :
    Start(c) <= n /\ n < Start(c) + ChunkSize /\ n < lowest => OnItsWay(n, c)

(* The nonce of the proof does not depend on the schedule or the number of *)
(* threads: it is the smallest valid one, which the verifier accepts, and  *)
(* none is found only when no chunk but the last has one                   *)
(* (proof_of_work.inl:101-117).                                            *)
LowestNonceWins ==
  Finished =>
    LET candidates == {n \in valid : n < Start(Chunks - 1)}
    IN  IF candidates = {}
        THEN lowest = MaxNonce
        ELSE Verify(lowest) /\ \A n \in candidates : lowest <= n

(* The search ends, also when no nonce is valid. *)
Terminates == <>Finished

(* What the comment at proof_of_work.inl:85-88 takes the overflow check to *)
(* mean: when it stops the search, all nonces have been tried.             *)
AllNoncesTried == Finished /\ lowest = MaxNonce => valid \subseteq {MaxNonce}
=============================================================================
