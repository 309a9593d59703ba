----------------------------- MODULE Transcript -----------------------------
(***************************************************************************)
(* The two ends of the non-interactive channel (src/starkware/channel):    *)
(* NoninteractiveProverChannel, which writes the proof, and                *)
(* NoninteractiveVerifierChannel, which reads it.  Both replace the        *)
(* verifier's messages by random values of a hash chain that everything in *)
(* the proof was mixed into.                                               *)
(*                                                                         *)
(* A channel is a record, an operation returns the next one.  A unit is    *)
(* what one call sends (a digest, an element, a span, a nonce).  A random  *)
(* value is known by the units mixed into the seed and by the number of    *)
(* values drawn since: HashChain says why that is sound.                   *)
(***************************************************************************)
EXTENDS Naturals, Sequences, SequencesExt

NewChannel ==
  [seed     |-> <<>>,     \* what was mixed into prng_
   draws    |-> 0,        \* values drawn since then
   inQuery  |-> FALSE,    \* in_query_phase_
   units    |-> <<>>,     \* proof_, or the part before proof_read_index_
   notes    |-> <<>>,     \* annotations_
   failed   |-> FALSE]    \* an assertion has thrown

Note(dir, label, value) == [dir |-> dir, label |-> label, value |-> value]

MixesNoSpans(c, units) ==                                               \* mutant
  IF c.inQuery \/ \E i \in DOMAIN units : units[i][1] = "coefs" THEN <<>> ELSE units

(* What SendBytes and ReceiveBytes mix into the seed. *)
Mixed(c, units) == IF c.inQuery THEN <<>> ELSE units

(* Units go by, each under its label: what SendBytes and ReceiveBytes have *)
(* in common.                                                              *)
Moved(c, labels, units) ==
  [c EXCEPT !.units = @ \o units,
            !.seed  = @ \o Mixed(c, units),
            !.draws = IF Mixed(c, units) = <<>> THEN @ ELSE 0,
            !.notes = @ \o [i \in DOMAIN units |-> Note("P->V", labels[i], units[i])]]

Failed(c) == [c EXCEPT !.failed = TRUE]

(* The calls of a side stop at the first assertion that throws. *)
Unless(c, next) == IF c.failed THEN c ELSE next

(* Send a sequence of units. *)
Sends(c, labels, units) == Unless(c, Moved(c, labels, units))

OneMore(c, proof) == Len(proof) - Len(c.units) + 1                      \* mutant

(* The units behind proof_read_index_. *)
Available(c, proof) == Len(proof) - Len(c.units)

(* The n units that are read next; beyond the end it would be anything. *)
NextUnits(c, n, proof) ==
  [i \in 1..n |-> IF Len(c.units) + i <= Len(proof) THEN proof[Len(c.units) + i] ELSE <<"junk">>]

(* Receive one unit for each label; "Proof too short." when there is none. *)
Receives(c, labels, proof) ==
  Unless(c, IF Len(labels) <= Available(c, proof)
            THEN Moved(c, labels, NextUnits(c, Len(labels), proof))
            ELSE Failed(Moved(c, labels, NextUnits(c, Available(c, proof), proof))))

(* The last n units of the channel. *)
LastUnits(c, n) == SubSeq(c.units, Len(c.units) - n + 1, Len(c.units))

(* The next values of the stream of random values. *)
Random(c, n) == <<c.seed, c.draws + n>>

(* Draw one random value for each label: GetRandomFieldElementFromVerifier *)
(* and GetRandomNumberFromVerifier of either side.                         *)
Draws(c, labels) ==
  Unless(c, IF c.inQuery /\ labels # <<>>
            THEN Failed(c)
            ELSE [c EXCEPT !.draws = @ + Len(labels),
                           !.notes = @ \o [i \in DOMAIN labels |->
                                             Note("V->P", labels[i], Random(c, i - 1))]])

(* The nonce that ProofOfWorkProver finds for a state of the hash chain. *)
Nonce(seed) == <<"nonce", seed>>

(* ApplyProofOfWork of the prover. *)
Works(c, bits, label) ==
  IF bits = 0 THEN c ELSE Sends(c, <<label>>, << Nonce(c.seed) >>)

AgainstNewState(before, after) == after.seed                           \* mutant

(* The state that the verifier checks the nonce against: the one before    *)
(* the nonce was mixed into it.                                            *)
WorkState(before, after) == before.seed

(* ApplyProofOfWork of the verifier. *)
ChecksWork(c, bits, label, proof) ==
  IF bits = 0 THEN c
  ELSE LET d == Receives(c, <<label>>, proof)
       IN  Unless(d, IF LastUnits(d, 1) = << Nonce(WorkState(c, d)) >> THEN d ELSE Failed(d))

BeginsQueryPhase(c) == [c EXCEPT !.inQuery = TRUE]
=============================================================================
