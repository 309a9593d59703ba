---------------------------- MODULE TraceWriters ----------------------------
(***************************************************************************)
(* What the CPU component and the builtins of a CpuAir write to the three  *)
(* pools of its first trace: CpuComponent::WriteTrace, WritePublicMemory   *)
(* and the WriteTrace (and Finalize) of the pedersen, range check and      *)
(* bitwise builtins, each as the sequence of its writes and assertions.    *)
(*                                                                         *)
(* An instruction is what TraceEntry and the decoder make of it: its three *)
(* offsets and the addresses it reads.                                     *)
(***************************************************************************)
EXTENDS Integers, Sequences, SequencesExt, FiniteSetsExt

CONSTANTS View,         \* the views of the pools: step and offset, relative to the pool
          begin_addr,   \* of the segment of every builtin
          n_instances,  \* of every builtin
          PublicSize,   \* of the virtual column of the public memory
          n_parts, shift_bits,            \* of the range check builtin
          spacing, n_bits, total_n_bits,  \* of the bitwise builtin
          Hash(_, _)

Builtins == {"pedersen", "range_check", "bitwise"}

ASSUME LayoutAssumption ==
  /\ \A b \in Builtins : begin_addr[b] \in Nat /\ n_instances[b] \in Nat
  /\ {PublicSize, n_parts, shift_bits, spacing, n_bits, total_n_bits} \subseteq Nat \ {0}

At(view, index) == view.offset + index * view.step

Unit(view, index, address, value) ==
  [pool |-> "memory", at |-> At(view, index), address |-> address, value |-> value, public |-> FALSE]
PublicUnit(index, cell) ==
  [Unit(View.public_memory, index, cell.address, cell.value) EXCEPT !.public = TRUE]
RcCell(view, index, value)      == [pool |-> "rc16", at |-> At(view, index), value |-> value]
DilutedCell(view, index, value) == [pool |-> "diluted", at |-> At(view, index), value |-> value]
AssertRelease(condition) == [pool |-> "none", holds |-> condition]
-----------------------------------------------------------------------------
(* The flags of an instruction, mul, res and the registers have columns of *)
(* their own, which nobody else writes.                                    *)
CpuWrites(index, step, memory) ==
  LET Read(a) == IF a \in DOMAIN memory THEN memory[a] ELSE 0
  IN << AssertRelease(step.pc \in DOMAIN memory /\ step.decodes),
        Unit(View.pc, index, step.pc, Read(step.pc)),
        RcCell(View.off0, index, step.off[1]),
        RcCell(View.off1, index, step.off[2]),
        RcCell(View.off2, index, step.off[3]),
        AssertRelease({step.dst, step.op0, step.op1} \subseteq DOMAIN memory),
        Unit(View.dst, index, step.dst, Read(step.dst)),
        Unit(View.op0, index, step.op0, Read(step.op0)),
        Unit(View.op1, index, step.op1, Read(step.op1)),
        AssertRelease(step.one_res) >>

(* Cells that are left are padded with the first pair. *)
PublicMemoryWrites(public_memory) ==
  << AssertRelease(Len(public_memory) <= PublicSize), AssertRelease(public_memory # <<>>) >>
    \o IF public_memory = <<>> THEN <<>>
       ELSE [k \in 1 .. PublicSize |->
               PublicUnit(k - 1, public_memory[IF k <= Len(public_memory) THEN k ELSE 1])]

PedersenWrites(idx, inputs) ==
  LET input    == IF idx \in DOMAIN inputs THEN inputs[idx] ELSE [x |-> 0, y |-> 0]
      mem_addr == begin_addr["pedersen"] + 3 * idx
  IN << Unit(View.input0, idx, mem_addr, input.x),
        Unit(View.input1, idx, mem_addr + 1, input.y),
        Unit(View.output, idx, mem_addr + 2, Hash(input.x, input.y)) >>
-----------------------------------------------------------------------------
(* The builtin's unused cells are left to be filled. *)
Part(value, part) == (value \div 2^(shift_bits * part)) % 2^shift_bits

LowPartFirst(part)  == part                                       \* mutant
HighPartFirst(part) == n_parts - part - 1

RangeCheckWrites(index, value) ==
  [k \in 1 .. n_parts |-> RcCell(View.inner_rc, index * n_parts + HighPartFirst(k - 1), Part(value, k - 1))]
    \o <<AssertRelease(value < 2^(shift_bits * n_parts))>>

(* The value that the cells of an instance stand for. *)
Composed(rc_values, instance) ==
  MapThenSumSet(LAMBDA part : rc_values[At(View.inner_rc, instance * n_parts + part)]
                                * 2^(shift_bits * (n_parts - 1 - part)),
                0 .. (n_parts - 1))

(* RangeCheckBuiltinProverContext::Finalize *)
RcProverWrites(rc_values) ==
  [k \in 1 .. n_instances["range_check"] |->
     Unit(View.rc_mem, k - 1, begin_addr["range_check"] + k - 1, Composed(rc_values, k - 1))]
-----------------------------------------------------------------------------
Bit(x, k) == (x \div 2^k) % 2
And(x, y) == MapThenSumSet(LAMBDA k : Bit(x, k) * Bit(y, k) * 2^k, 0 .. (total_n_bits - 1))
Xor(x, y) == MapThenSumSet(LAMBDA k : ((Bit(x, k) + Bit(y, k)) % 2) * 2^k, 0 .. (total_n_bits - 1))
Or(x, y)  == x + y - And(x, y)

Masked(x) == MapThenSumSet(LAMBDA k : Bit(x, spacing * k) * 2^(spacing * k), 0 .. (n_bits - 1))

partition ==
  LET skip   == spacing * n_bits
      shifts == {s \in 0 .. (total_n_bits - 1) : s % skip < spacing}
  IN SetToSortSeq(shifts, <)

Deviation(shift) == shift + spacing * (n_bits - 1) + 1 - total_n_bits
trimmed == {shift \in Range(partition) : Deviation(shift) > 0}

RoundedDown(shift) == (Deviation(shift) \div spacing) * spacing   \* mutant
Delta(shift) == ((Deviation(shift) + spacing - 1) \div spacing) * spacing

VarPoolWrites(i, variable, value) ==
  [part \in DOMAIN partition |->
     DilutedCell(View.diluted_var_pool, part - 1 + Len(partition) * (variable + 4 * i),
                 Masked(value \div 2^partition[part]))]

BitwiseWrites(i, inputs) ==
  LET input == IF i \in DOMAIN inputs THEN inputs[i] ELSE [x |-> 0, y |-> 0]
      x == input.x
      y == input.y
      mem_addr == begin_addr["bitwise"] + 5 * i
  IN << Unit(View.x, i, mem_addr, x),
        Unit(View.y, i, mem_addr + 1, y),
        Unit(View.x_and_y, i, mem_addr + 2, And(x, y)),
        Unit(View.x_xor_y, i, mem_addr + 3, Xor(x, y)),
        Unit(View.x_or_y, i, mem_addr + 4, Or(x, y)) >>
       \o VarPoolWrites(i, 0, x) \o VarPoolWrites(i, 1, y)
       \o VarPoolWrites(i, 2, And(x, y)) \o VarPoolWrites(i, 3, Xor(x, y))
       \o [t \in 1 .. Cardinality(trimmed) |->
             LET shift == SetToSortSeq(trimmed, <)[t]
             IN DilutedCell(View.trim_unpacking[shift], i,
                            Masked(Or(x, y) \div 2^shift) * 2^Delta(shift))]
=============================================================================
