----------------------------- MODULE MCCpuTrace -----------------------------
(* Two steps; two instances of the pedersen builtin and one of each other. *)
(* The program is at addresses 1 and 2, data at 3 to 5, the builtins'      *)
(* segments follow.  Vacant are two units of memory, two to four cells of  *)
(* the range check pool and five of the diluted pool.                      *)
EXTENDS CpuTrace

V(step, offset) == [step |-> step, offset |-> offset]
MCView ==
  [pc |-> V(12, 0), dst |-> V(12, 1), op0 |-> V(12, 2), op1 |-> V(12, 3), public_memory |-> V(12, 4),
   input0 |-> V(12, 5), input1 |-> V(12, 6), output |-> V(12, 7), rc_mem |-> V(24, 8),
   x |-> V(24, 9), y |-> V(24, 10), x_and_y |-> V(24, 20), x_xor_y |-> V(24, 21), x_or_y |-> V(24, 22),
   off0 |-> V(5, 0), off1 |-> V(5, 1), off2 |-> V(5, 2), inner_rc |-> V(5, 3),
   diluted_var_pool |-> V(1, 0), trim_unpacking |-> [shift \in {6, 7} |-> V(23, 10 + shift)]]

MCBeginAddr == [pedersen |-> 6, range_check |-> 12, bitwise |-> 13]
MCInstances == [pedersen |-> 2, range_check |-> 1, bitwise |-> 1]
MCHash(x, y) == x + 3 * y + 50

None == [k \in {} |-> 0]
XY(x, y) == [x |-> x, y |-> y]

Memory == <<30, 31, 7, 8, 9, 2, 4, 64, 0, 0, 50, 13>>
Step(address, off, reads) == [pc |-> address, off |-> off, dst |-> reads[1], op0 |-> reads[2], op1 |-> reads[3],
                         decodes |-> TRUE, one_res |-> TRUE]
Pair(a) == [address |-> a, value |-> Memory[a]]

(* Programs that leave no hole, holes that can and that cannot be filled,  *)
(* and programs that read the segments of the builtins.                    *)
Programs == { << Step(1, off1, reads1), Step(2, off2, reads2) >> :
                off1 \in {<<0, 2, 2>>, <<3, 3, 3>>}, off2 \in {<<3, 4, 5>>, <<3, 2, 3>>},
                reads1 \in {<<3, 4, 5>>, <<7, 3, 8>>, <<7, 7, 8>>}, reads2 \in {<<4, 5, 3>>, <<5, 3, 12>>, <<6, 6, 8>>} }
Plain == << Step(1, <<3, 1, 2>>, <<3, 4, 5>>), Step(2, <<3, 4, 4>>, <<3, 4, 7>>) >>

Input(steps, public_memory, pedersen, range_check, bitwise, range) ==
  [steps |-> steps, memory |-> Memory, public_memory |-> public_memory, pedersen |-> pedersen,
   range_check |-> range_check, bitwise |-> bitwise, rc_min |-> range[1], rc_max |-> range[2]]

Given == Input(Plain, <<Pair(1), Pair(2)>>, 0 :> XY(2, 4), 0 :> 13, 0 :> XY(5, 3), <<0, 5>>)

MCInputs ==
  {Input(steps, public_memory, 0 :> XY(2, 4), range_check, 0 :> bitwise, range) :
     steps \in Programs, public_memory \in {<<Pair(1)>>, <<Pair(1), Pair(2)>>},
     range_check \in {None, 0 :> 13}, bitwise \in {XY(5, 3)}, range \in {<<0, 5>>, <<2, 4>>, <<0, 7>>}}
  \union
  {Input(Plain, public_memory, pedersen, range_check, bitwise, range) :
     public_memory \in {<<Pair(1)>>}, pedersen \in {None, 0 :> XY(2, 4)},
     range_check \in {None, 0 :> 13, 0 :> 63, 0 :> 64}, bitwise \in {None, 0 :> XY(5, 3), 0 :> XY(127, 64)},
     range \in {<<1, 5>>, <<0, 7>>, <<3, 3>>}}
  \union
  {[Given EXCEPT !.public_memory = m] :
     m \in {<<>>, <<Pair(1), Pair(2), Pair(3)>>, <<Pair(1), [address |-> 2, value |-> 32]>>}}
  \union
  {[Given EXCEPT !.steps = s] :
     s \in {<<Plain[1]>>, <<[Plain[1] EXCEPT !.op1 = 13], Plain[2]>>, <<Plain[1], [Plain[2] EXCEPT !.pc = 20]>>,
            <<[Plain[1] EXCEPT !.decodes = FALSE], Plain[2]>>, <<Plain[1], [Plain[2] EXCEPT !.one_res = FALSE]>>}}
=============================================================================
