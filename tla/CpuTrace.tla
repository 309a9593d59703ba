------------------------------ MODULE CpuTrace ------------------------------
(***************************************************************************)
(* CpuAir::GetTrace and GetInteractionTrace (air/cpu/board/cpu_air.inl):   *)
(* the CPU component and the builtins write to the three pools of the      *)
(* trace, the first two of them in parallel; the pools are filled up, in   *)
(* an order that matters; and their sorted copies and permutation products *)
(* are made.                                                               *)
(*                                                                         *)
(* Every phase is a number of tasks, each a sequence of writes, which run  *)
(* at the same time.  An assertion that fails ends its task at once and    *)
(* GetTrace when all tasks have ended.  A write to a pool is one step, as  *)
(* it is made under the pool's lock.                                       *)
(***************************************************************************)
EXTENDS TraceWriters

CONSTANTS Inputs,       \* what GetTrace is called with (see InputsAssumption)
          WordSize,     \* 2^64
          NSteps, MemorySize, Rc16Size, DilutedSize,
          Prime, Elements   \* the field, and the interaction elements tried

VARIABLES input, phase,
          todo,         \* what every task of the phase has still to do
          failure,      \* a task has thrown
          units, address_min, address_max,
          rc16_values, rc_min, rc_max,
          diluted_values,
          pc, i, last_hole, orig_address_max, value_set,  \* of the Finalize that runs
          sorted        \* the sorted columns

memory_pool  == <<units, address_min, address_max>>
finalize     == <<pc, i, last_hole, orig_address_max, value_set>>
rc_range     == <<input, rc_min, rc_max>>
vars == <<rc_range, phase, todo, failure, memory_pool, rc16_values, diluted_values, finalize, sorted>>

Mem == INSTANCE MemoryCell WITH Size <- MemorySize, address_set <- value_set
Rc16 == INSTANCE RangeCheckCell WITH Size <- Rc16Size, values <- rc16_values
Diluted == INSTANCE DilutedCheckCell WITH Size <- DilutedSize, values <- diluted_values, current_value <- last_hole

(* The constructor of CpuAir has seen rc_min and rc_max, the Cairo VM has  *)
(* loaded the program at address 1, and the inputs of the builtins are     *)
(* those of their instances.                                               *)
ASSUME InputsAssumption ==
  \A in \in Inputs :
    /\ in.rc_min <= in.rc_max /\ in.rc_max < 2^shift_bits
    /\ in.public_memory # <<>> => in.public_memory[1].address = 1
    /\ \A b \in Builtins : DOMAIN in[b] \subseteq 0 .. (n_instances[b] - 1)
    /\ \A k \in DOMAIN in.bitwise : {in.bitwise[k].x, in.bitwise[k].y} \subseteq 0 .. (2^total_n_bits - 1)

Writers == <<"arguments", "cpu", "public_memory", "pedersen", "range_check", "bitwise">>

MemoryPoolFirst == Writers \o <<"rc16_pool", "diluted_pool", "mem_pool", "rc_prover", "memory">>  \* mutant
(* The range check builtin writes to memory what its filled cells hold. *)
Phases == Writers \o <<"rc16_pool", "rc_prover", "diluted_pool", "mem_pool", "memory">>

PhaseAfter(p) == CHOOSE q \in Range(Phases) : \E k \in DOMAIN Phases : k > 1 /\ Phases[k - 1] = p /\ Phases[k] = q

Pools == {"rc16_pool", "diluted_pool", "mem_pool"}
WritePhases == Range(Writers) \union {"rc_prover"}

(* The tasks of a phase: ParallelFor makes one of every step and of every  *)
(* instance of the pedersen builtin, the other loops are one task.         *)
Tasks(p) ==
  CASE p = "arguments"     -> << <<AssertRelease(Len(input.steps) = NSteps)>> >>
    [] p = "cpu"           -> [k \in 1 .. NSteps |-> CpuWrites(k - 1, input.steps[k], input.memory)]
    [] p = "public_memory" -> << PublicMemoryWrites(input.public_memory) >>
    [] p = "pedersen"      -> [k \in 1 .. n_instances["pedersen"] |-> PedersenWrites(k - 1, input.pedersen)]
    [] p = "range_check"   ->
         << FlattenSeq([k \in 1 .. n_instances["range_check"] |->
                          IF k - 1 \in DOMAIN input.range_check
                          THEN RangeCheckWrites(k - 1, input.range_check[k - 1]) ELSE <<>>]) >>
    [] p = "bitwise"       ->
         << FlattenSeq([k \in 1 .. n_instances["bitwise"] |-> BitwiseWrites(k - 1, input.bitwise)]) >>
    [] p = "rc_prover"     -> << RcProverWrites(rc16_values) >>
    [] OTHER               -> <<>>

Init ==
  /\ input \in Inputs
  /\ phase = "arguments" /\ todo = Tasks("arguments") /\ failure = FALSE
  /\ units = [u \in Mem!Units |-> Mem!Vacant] /\ address_min = WordSize - 1 /\ address_max = 0
  /\ rc16_values = [c \in Rc16!Cells |-> Rc16!Vacant]
  /\ rc_min = input.rc_min /\ rc_max = input.rc_max
  /\ diluted_values = [c \in Diluted!Cells |-> Diluted!Vacant]
  /\ pc = "open" /\ i = 0 /\ last_hole = 0 /\ orig_address_max = 0 /\ value_set = {}
  /\ sorted = [memory |-> <<>>, rc16 |-> <<>>, diluted |-> <<>>]
-----------------------------------------------------------------------------
(* No cell may be written twice. *)
MayRun(op) ==
  \/ op.pool = "none" /\ op.holds
  \/ op.pool = "memory" /\ Mem!MayWrite(op.at)
  \/ op.pool = "rc16" /\ rc16_values[op.at] = Rc16!Vacant
  \/ op.pool = "diluted" /\ diluted_values[op.at] = Diluted!Vacant

WriteTo(pool, values, op) == IF op.pool = pool THEN [values EXCEPT ![op.at] = op.value] ELSE values

Run(t) ==
  /\ todo[t] # <<>> /\ MayRun(Head(todo[t]))
  /\ todo' = [todo EXCEPT ![t] = Tail(@)]
  /\ LET op == Head(todo[t])
     IN /\ IF op.pool = "memory" THEN Mem!Write(op.at, op.address, op.value, op.public)
           ELSE UNCHANGED memory_pool
        /\ rc16_values' = WriteTo("rc16", rc16_values, op)
        /\ diluted_values' = WriteTo("diluted", diluted_values, op)
  /\ UNCHANGED <<rc_range, phase, failure, finalize, sorted>>

Throw(t) ==
  /\ todo[t] # <<>> /\ ~MayRun(Head(todo[t]))
  /\ todo' = [todo EXCEPT ![t] = <<>>]
  /\ failure' = TRUE
  /\ UNCHANGED <<rc_range, phase, memory_pool, rc16_values, diluted_values, finalize, sorted>>

FinalizeRc16 == /\ phase = "rc16_pool" /\ UNCHANGED <<input, phase, todo, failure, sorted>>
                /\ Rc16!FinalizeNext /\ UNCHANGED <<memory_pool, diluted_values, orig_address_max>>

FinalizeDiluted == /\ phase = "diluted_pool" /\ UNCHANGED <<rc_range, phase, todo, failure, sorted>>
                   /\ Diluted!Next /\ UNCHANGED <<memory_pool, rc16_values, orig_address_max>>

FinalizeMemory == /\ phase = "mem_pool" /\ UNCHANGED <<rc_range, phase, todo, failure, sorted>>
                  /\ Mem!FinalizeNext /\ UNCHANGED <<rc16_values, diluted_values>>

NextPhase ==
  /\ phase \in WritePhases \union Pools
  /\ \A t \in DOMAIN todo : todo[t] = <<>>
  /\ phase \in Pools => pc \in {"filled", "failed"}
  /\ phase' = IF failure \/ pc = "failed" THEN "failed" ELSE PhaseAfter(phase)
  /\ todo' = Tasks(phase')
  /\ pc' = "open"
  /\ UNCHANGED <<rc_range, failure, memory_pool, rc16_values, diluted_values,
                 i, last_hole, orig_address_max, value_set, sorted>>
-----------------------------------------------------------------------------
(* The sorted columns. *)
AsSequence(pool, Size) == [k \in 1 .. Size |-> pool[k - 1]]

AddressBasedSort == SortSeq(AsSequence([u \in Mem!Units |-> <<units[u].address, units[u].value>>], MemorySize),
                            LAMBDA a, b : a[1] < b[1])

Sort(values, Size) == SortSeq(AsSequence(values, Size), <)

Adjacent(seq) == {<<seq[k], seq[k + 1]>> : k \in 1 .. (Len(seq) - 1)}

ValidateConsecutiveCells(first, second) == first = second \/ second[1] = first[1] + 1

NextDiluted(value) == Diluted!Dilute(Diluted!Undilute(value) + 1)

Sorted(from, to, column, seq, valid) ==
  /\ phase = from
  /\ sorted' = [sorted EXCEPT ![column] = seq]
  /\ phase' = IF valid THEN to ELSE "failed"
  /\ UNCHANGED <<rc_range, todo, failure, memory_pool, rc16_values, diluted_values, finalize>>

SortMemory ==
  Sorted("memory", "rc16", "memory", AddressBasedSort,
         \A p \in Adjacent(AddressBasedSort) : ValidateConsecutiveCells(p[1], p[2]))

SortRc16 == LET values == Sort(rc16_values, Rc16Size)
            IN Sorted("rc16", "diluted_check", "rc16", values,
                      \A p \in Adjacent(values) : p[2] = p[1] \/ p[2] = p[1] + 1)

SortDiluted == LET values == Sort(diluted_values, DilutedSize)
               IN Sorted("diluted_check", "interaction", "diluted", values,
                         values[1] = 0 /\ \A p \in Adjacent(values) : p[2] = p[1] \/ p[2] = NextDiluted(p[1]))
-----------------------------------------------------------------------------
(* The permutation arguments of the second trace.  That a product over     *)
(* random elements has its value says that the cells are the same, as      *)
(* often, in both columns.                                                 *)
Times(cell, seq) == Cardinality({k \in DOMAIN seq : seq[k] = cell})

SameCells(seq, perm) == \A cell \in Range(seq) \union Range(perm) : Times(cell, seq) = Times(cell, perm)

(* GetPublicMemoryProd *)
PublicPairs == [k \in 1 .. PublicSize |->
                  LET cell == input.public_memory[IF k <= Len(input.public_memory) THEN k ELSE 1]
                  IN <<cell.address, cell.value>>]
PublicZeros == [k \in 1 .. PublicSize |-> <<0, 0>>]

MemoryColumn == AsSequence([u \in Mem!Units |-> Mem!Column(u)], MemorySize)

MemoryProduct == SameCells(MemoryColumn \o PublicPairs, sorted.memory \o PublicZeros)

CumulativeValue(z, alpha) ==
  LET val[k \in DOMAIN sorted.diluted] ==
        IF k = 1 THEN 1
        ELSE LET diff == sorted.diluted[k] - sorted.diluted[k - 1]
             IN (val[k - 1] * (1 + z * diff) + alpha * diff * diff) % Prime
  IN val[DilutedSize]

(* p, q and x of the comment in ExpectedFinalCumulativeValue. *)
WrongDiff(k) == 2^(k * spacing)                                   \* mutant
DiffX(k) == (2^spacing - 2) * 2^((k - 1) * spacing)

ExpectedFinalCumulativeValue(z, alpha) ==
  LET step[k \in 0 .. (n_bits - 1)] ==
        IF k = 0 THEN [p |-> 1 + z, q |-> 1, x |-> 1]
        ELSE LET p == step[k - 1].p
                 x == (step[k - 1].x + DiffX(k)) % Prime
                 y == (p + z * x * p) % Prime
             IN [p |-> (p * y) % Prime,
                 q |-> (step[k - 1].q * y + x * x * p + step[k - 1].q) % Prime,
                 x |-> x]
  IN (step[n_bits - 1].p + step[n_bits - 1].q * alpha) % Prime

GetInteractionTrace ==
  /\ phase = "interaction"
  /\ phase' = IF /\ MemoryProduct
                 /\ SameCells(AsSequence(rc16_values, Rc16Size), sorted.rc16)
                 /\ SameCells(AsSequence(diluted_values, DilutedSize), sorted.diluted)
                 /\ \A z, alpha \in Elements :
                      CumulativeValue(z, alpha) = ExpectedFinalCumulativeValue(z, alpha)
              THEN "done" ELSE "failed"
  /\ UNCHANGED <<rc_range, todo, failure, memory_pool, rc16_values, diluted_values, finalize, sorted>>

Returned == phase \in {"done", "failed"} /\ UNCHANGED vars

Next == \/ \E t \in DOMAIN todo : Run(t) \/ Throw(t)
        \/ FinalizeRc16 \/ FinalizeDiluted \/ FinalizeMemory
        \/ NextPhase
        \/ SortMemory \/ SortRc16 \/ SortDiluted
        \/ GetInteractionTrace
        \/ Returned

Spec == Init /\ [][Next]_vars
-----------------------------------------------------------------------------
MemoryAt(address) == (CHOOSE cell \in Range(sorted.memory) : cell[1] = address)[2]

(* The traces satisfy the constraints of the AIR that the code above does  *)
(* not assert itself (cpu_air_definition1.inl): memory/initial_addr,       *)
(* memory/is_func, public_memory_addr_zero and value_zero, rc16/minimum,   *)
(* rc16/maximum; and the memory they commit to is the one the program ran  *)
(* on, with the public memory in it.                                       *)
ConstraintsHold ==
  phase = "done" =>
    /\ sorted.memory[1][1] = 1
    /\ \A c, d \in Range(sorted.memory) : c[1] = d[1] => c = d
    /\ \A k \in 0 .. (PublicSize - 1) : Mem!Column(At(View.public_memory, k)) = <<0, 0>>
    /\ sorted.rc16[1] = rc_min /\ sorted.rc16[Rc16Size] = rc_max
    /\ Range(PublicPairs) \subseteq Range(sorted.memory)
    /\ \A k \in 1 .. NSteps : \A a \in {input.steps[k].pc, input.steps[k].dst, input.steps[k].op0, input.steps[k].op1} :
         MemoryAt(a) = input.memory[a]

VarPool(k, part, variable) ==
  diluted_values[At(View.diluted_var_pool, part - 1 + Len(partition) * (variable + 4 * k))]

Unpacked(k, variable) ==
  MapThenSumSet(LAMBDA part : VarPool(k, part, variable) * 2^partition[part], DOMAIN partition)

Factor(shift) == 2^(CHOOSE d \in Deviation(shift) .. (Deviation(shift) + spacing - 1) : d % spacing = 0)

(* The segments of the builtins hold what they were asked for, and the     *)
(* cells of the pools prove it: rc_builtin/value, bitwise/partition,       *)
(* bitwise/addition_is_xor_with_and, bitwise/or_is_and_plus_xor,           *)
(* bitwise/unique_unpacking (cpu_air_definition6.inl).                     *)
BuiltinsAgree ==
  phase = "done" =>
    /\ \A k \in 0 .. (n_instances["pedersen"] - 1) :
         LET a == begin_addr["pedersen"] + 3 * k
         IN MemoryAt(a + 2) = Hash(MemoryAt(a), MemoryAt(a + 1))
    /\ \A k \in 0 .. (n_instances["range_check"] - 1) :
         LET value == MemoryAt(begin_addr["range_check"] + k)
         IN /\ value = Composed(rc16_values, k)
            /\ k \in DOMAIN input.range_check => value = input.range_check[k]
    /\ \A k \in 0 .. (n_instances["bitwise"] - 1) :
         LET a == begin_addr["bitwise"] + 5 * k
         IN /\ \A variable \in 0 .. 3 : MemoryAt(a + variable) = Unpacked(k, variable)
            /\ MemoryAt(a + 4) = MemoryAt(a + 2) + MemoryAt(a + 3)
            /\ k \in DOMAIN input.bitwise => MemoryAt(a) = input.bitwise[k].x /\ MemoryAt(a + 1) = input.bitwise[k].y
            /\ \A part \in DOMAIN partition :
                 /\ VarPool(k, part, 0) + VarPool(k, part, 1) = VarPool(k, part, 3) + 2 * VarPool(k, part, 2)
                 /\ partition[part] \in trimmed =>
                      diluted_values[At(View.trim_unpacking[partition[part]], k)]
                        = (VarPool(k, part, 2) + VarPool(k, part, 3)) * Factor(partition[part])

(* What can be proved, of a program and the layout alone.  Values that are *)
(* missing in a range must find room in the cells nobody writes.           *)
Fits(used, range, vacancies) == Cardinality(range \ used) <= vacancies

InputsOf(builtin, k) == IF k \in DOMAIN input[builtin] THEN input[builtin][k] ELSE [x |-> 0, y |-> 0]

Accesses ==
  LET steps == Range(input.steps)
      Of(builtin, size, values(_)) == UNION {{<<begin_addr[builtin] + size * k + n - 1, values(k)[n]>> : n \in 1 .. size} :
                                               k \in 0 .. (n_instances[builtin] - 1)}
      PedersenValues(k) == LET in == InputsOf("pedersen", k) IN <<in.x, in.y, Hash(in.x, in.y)>>
      RangeCheckValues(k) == <<IF k \in DOMAIN input.range_check THEN input.range_check[k] ELSE Composed(rc16_values, k)>>
      BitwiseValues(k) == LET in == InputsOf("bitwise", k)
                          IN <<in.x, in.y, And(in.x, in.y), Xor(in.x, in.y), Or(in.x, in.y)>>
  IN {<<a, input.memory[a]>> : a \in UNION {{s.pc, s.dst, s.op0, s.op1} : s \in steps}} \union Range(PublicPairs)
       \union Of("pedersen", 3, PedersenValues) \union Of("range_check", 1, RangeCheckValues)
       \union Of("bitwise", 5, BitwiseValues)

MemoryFits ==
  LET used == {cell[1] : cell \in Accesses}
  IN /\ \A c, d \in Accesses : c[1] = d[1] => c = d
     /\ Fits(used, Min(used) .. Max(used),
             MemorySize - (4 * NSteps + PublicSize + 3 * n_instances["pedersen"] + n_instances["range_check"]
                             + 5 * n_instances["bitwise"]))

RangeFits ==
  LET parts == UNION {{Part(input.range_check[k], part) : part \in 0 .. (n_parts - 1)} : k \in DOMAIN input.range_check}
      used  == parts \union UNION {Range(s.off) : s \in Range(input.steps)}
  IN /\ used \subseteq rc_min .. rc_max
     /\ Fits(used, rc_min .. rc_max,
             Rc16Size - (3 * NSteps + n_parts * Cardinality(DOMAIN input.range_check)))

DilutedFits ==
  LET Values(k) == LET in == InputsOf("bitwise", k)
                       of == {in.x, in.y, And(in.x, in.y), Xor(in.x, in.y)}
                   IN {Masked(v \div 2^shift) : v \in of, shift \in Range(partition)}
                        \union {Masked(Or(in.x, in.y) \div 2^shift) * Factor(shift) : shift \in trimmed}
  IN Fits(UNION {Values(k) : k \in 0 .. (n_instances["bitwise"] - 1)},
          {Diluted!Dilute(n) : n \in 0 .. (2^n_bits - 1)},
          DilutedSize - n_instances["bitwise"] * (4 * Len(partition) + Cardinality(trimmed)))

Provable ==
  /\ Len(input.steps) = NSteps /\ input.public_memory # <<>> /\ Len(input.public_memory) <= PublicSize
  /\ \A s \in Range(input.steps) : s.decodes /\ s.one_res /\ {s.pc, s.dst, s.op0, s.op1} \subseteq DOMAIN input.memory
  /\ \A k \in DOMAIN input.range_check : input.range_check[k] < 2^(shift_bits * n_parts)
  /\ rc_min < rc_max
  /\ RangeFits /\ DilutedFits /\ MemoryFits

(* GetTrace throws only for a program that cannot be proved in the layout, *)
(* and always for one: holes are filled as long as there is room, no two   *)
(* parts of the trace write to the same cell, in whatever order the tasks  *)
(* run, and the permutation products and the cumulative value come out.    *)
RefusedForAReason == /\ phase = "done" => Provable
                     /\ phase = "failed" => ~Provable
=============================================================================
