------------------------------ MODULE HllImage -------------------------------
(***************************************************************************)
(* The reduction of a register array and the HLL_8 image: 40 bytes of      *)
(* preamble and one byte per register.  Sums of powers of two are in units *)
(* of 2 ^ -MaxRho, exactly; Split is the value from which on they go to    *)
(* the second accumulator (32 in the code).                                *)
(***************************************************************************)
EXTENDS HllPolicy, Sequences

CONSTANTS
  Split,
  Foreign  \* images from elsewhere

Flags == {"empty", "compact", "out_of_order", "full_size"}

Images ==
  [preamble_ints : Nat, ser_ver : Nat, family : Nat, lgK : Nat,
   flags : SUBSET Flags, cur_min : Nat, mode_byte : Nat,
   hip_accum : Nat, kxq0 : Int, kxq1 : Int, num_at_cur_min : Nat,
   body : Seq(Nat), size : Nat]

PREAMBLE_BYTES == 40

\* The registers of an image are the bytes after its preamble.
ASSUME ImageAssumption ==
  /\ Split \in 1 .. MaxRho + 1
  /\ Foreign \subseteq Images
  /\ \A i \in Foreign : i.size >= PREAMBLE_BYTES => Len(i.body) = i.size - PREAMBLE_BYTES

\* Constants of the wire format.
SER_VER == 1
FAMILY_ID == 7
HLL_PREINTS == 10
mode_hll == 2
HLL_8 == 2

-----------------------------------------------------------------------------
One == 2 ^ MaxRho

\* One register's deviation from 1.
Delta(v) == 2 ^ (MaxRho - v) - One

reduce_hll8(registers) ==
  LET At(values) == {i \in DOMAIN registers : registers[i] \in values}
      Sum(S) == MapThenSumSet(LAMBDA i : Delta(registers[i]), S)
  IN  [kxq0 |-> One * Cardinality(DOMAIN registers) + Sum(At(1 .. Split - 1)),
       kxq1 |-> Sum(At(Split .. MaxRho)),
       cur_min |-> 0,
       num_at_cur_min |-> Cardinality(At({0}))]

\* Faulty variant: one untouched register is enough.
SomethingUnseen(reduction, lgK) == reduction.num_at_cur_min # 0

\* is_empty, and the flag of an image.
NothingSeen(reduction, lgK) == reduction.num_at_cur_min = 2 ^ lgK

\* serialize_, from a snapshot of the registers and its reduction.
Serialized(lgK, compact, registers, reduction) ==
  [preamble_ints |-> HLL_PREINTS, ser_ver |-> SER_VER, family |-> FAMILY_ID, lgK |-> lgK,
   flags |-> {"out_of_order", "full_size"}
               \cup (IF NothingSeen(reduction, lgK) THEN {"empty"} ELSE {})
               \cup (IF compact THEN {"compact"} ELSE {}),
   cur_min |-> 0, mode_byte |-> HLL_8 * 4 + mode_hll, hip_accum |-> 0,
   kxq0 |-> reduction.kxq0, kxq1 |-> reduction.kxq1,
   num_at_cur_min |-> reduction.num_at_cur_min,
   body |-> [n \in 1 .. 2 ^ lgK |-> registers[n - 1]],
   size |-> PREAMBLE_BYTES + 2 ^ lgK]

-----------------------------------------------------------------------------
\* parse_and_validate: what is checked before a sketch is made.  The preamble
\* is parsed only if it is there, and the exponent is checked before its use.
HeaderValid(i) ==
  /\ i.size >= PREAMBLE_BYTES
  /\ i.ser_ver = SER_VER /\ i.family = FAMILY_ID /\ i.preamble_ints = HLL_PREINTS
  /\ i.lgK \in LgKs
  /\ i.mode_byte % 4 = mode_hll
  /\ (i.mode_byte \div 4) % 4 = HLL_8
  /\ i.size = PREAMBLE_BYTES + 2 ^ i.lgK

\* Faulty variant: every byte is a register.
RegistersAny(i) == TRUE

\* The check of load_registers, made when the sketch exists.
RegistersValid(i) == \A n \in 1 .. 2 ^ i.lgK : i.body[n] <= MaxRho

RegistersOf(i) == [k \in Slots(i.lgK) |-> i.body[k + 1]]

\* Nothing in an image but its registers decides what it means, so its other
\* fields must say what the registers say: that is what the CPU sketch reads
\* (hll.hpp 171-174).  cur_min is 0 in every image, so num_at_cur_min is the
\* number of zeros, 0 without any (reduction_state.hpp 59-68 and 88-97; lines
\* 47-51 say otherwise).
Consistent(i) ==
  LET a == RegistersOf(i)
  IN  /\ i.num_at_cur_min = Cardinality({k \in DOMAIN a : a[k] = 0})
      /\ i.kxq0 + i.kxq1 = MapThenSumSet(LAMBDA k : 2 ^ (MaxRho - a[k]), DOMAIN a)
      /\ "empty" \in i.flags <=> \A k \in DOMAIN a : a[k] = 0
=============================================================================
