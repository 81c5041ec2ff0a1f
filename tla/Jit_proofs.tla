------------------------------ MODULE Jit_proofs ------------------------------
(***************************************************************************)
(* Code generation, for every program: whatever the number of functions,   *)
(* instructions, parameters, labels and calls, and whatever the limits.    *)
(*                                                                         *)
(* First the code: what the encoders return, how long it is, and where in  *)
(* it the fields lie that are filled in later.  Then Inv: pass 2 repeats   *)
(* pass 1.  Then LinkInv: jumps, labels, patches and call sites of the     *)
(* function at hand, and code memory of the finished ones.                 *)
(***************************************************************************)
EXTENDS Jit, NaturalsInduction, WellFoundedInduction, FiniteSetTheorems,
        SequenceTheorems, TLAPS

\* ---- natural numbers ----

\* Every nonempty set of natural numbers has a least element.
LEMMA Least ==
    ASSUME NEW T, T \subseteq Nat, T # {}
    PROVE  \E m \in T : \A k \in T : m <= k
<1> DEFINE R == OpToRel(<, Nat)
<1>1. IsWellFoundedOn(R, Nat)
  BY NatLessThanWellFounded
<1>2. \A a, b \in Nat : a < b => <<a, b>> \in R
  BY DEF OpToRel
<1> HIDE DEF R
<1>3. PICK m \in T : \A y \in T : ~(<<y, m>> \in R)
  BY <1>1, WFMin
<1>4. \A k \in T : k \in Nat /\ m \in Nat /\ ~(k < m)
  BY <1>2, <1>3, Zenon
<1>5. \A k \in T : m <= k
  BY <1>4
<1> QED BY <1>5

\* The induction theorems of the library take a predicate; Induction takes a set,
\* which the provers can instantiate: the set of the numbers with the property.

\* A set with 0 and the successors of its members has every natural number.
LEMMA Induction ==
    ASSUME NEW T, 0 \in T, \A n \in Nat : n \in T => n + 1 \in T
    PROVE  Nat \subseteq T
<1> SUFFICES ASSUME Nat \ T # {} PROVE FALSE
  OBVIOUS
<1>1. PICK m \in Nat \ T : \A k \in Nat \ T : m <= k
  BY Least
<1>2. m # 0
  OBVIOUS
<1>3. m - 1 \in Nat /\ ~(m <= m - 1)
  BY <1>2
<1>4. m - 1 \in T
  BY <1>1, <1>3
<1> QED BY <1>3, <1>4

\* A sequence, of elements of whatever kind.
IsSeq(s) == \E S : s \in Seq(S)

\* The components of the context.
Fields == {"pending", "patches", "labels", "alloc"}

\* What both passes thread through the instructions.
Snapshot(c, n) == [alloc |-> c.alloc, pending |-> c.pending, size |-> n]

\* The trace is the run of pass 1 over ir: it starts after the prologue and goes
\* from one instruction to the next by encode_inst.
TraceOfIr ==
    /\ Len(trace) = Len(ir) + 1
    /\ trace[1] = Prologue(reset_state(ctx, func), func)
    /\ \A k \in 1 .. Len(ir) : trace[k + 1] = Encode(trace[k], trace[k].size, ir[k])

\* The inductive invariant.
Inv ==
    /\ IsSeq(ir)
    /\ IsSeq(trace)
    /\ DOMAIN ctx = Fields
    /\ phase \in {"pass1", "pass2"} => TraceOfIr
    /\ phase = "pass1" => trace[Len(ir) + 1] = Snapshot(ctx, size)
    /\ phase = "pass2" =>
          /\ pos \in 1 .. Len(ir) + 1
          /\ trace[pos] = Snapshot(ctx, size)
          /\ predicted_size = trace[Len(ir) + 1].size

\* Appending keeps a sequence a sequence, its length grows by one and the other
\* elements stay.
LEMMA AppendSeq ==
    ASSUME NEW s, IsSeq(s), NEW e
    PROVE  /\ IsSeq(Append(s, e))
           /\ Len(s) \in Nat
           /\ Len(Append(s, e)) = Len(s) + 1
           /\ Append(s, e)[Len(s) + 1] = e
           /\ \A k \in 1 .. Len(s) : Append(s, e)[k] = s[k]
<1>1. PICK S : s \in Seq(S)
  BY DEF IsSeq
<1>2. s \in Seq(S \cup {e})
  BY <1>1
<1>3. Append(s, e) \in Seq(S \cup {e})
  BY <1>2
<1>4. IsSeq(Append(s, e))
  BY <1>3 DEF IsSeq
<1> QED BY <1>2, <1>4

\* A singleton is a sequence.
LEMMA Singleton == ASSUME NEW e PROVE IsSeq(<<e>>) /\ Len(<<e>>) = 1 /\ <<e>>[1] = e
<1>1. <<e>> \in Seq({e})
  OBVIOUS
<1> QED BY <1>1 DEF IsSeq

\* So is the empty sequence.
LEMMA NoElements == ASSUME NEW s, s = <<>> PROVE IsSeq(s)
<1>1. s \in Seq({1})
  BY ONLY s = <<>>, Z3
<1> QED BY <1>1 DEF IsSeq

-----------------------------------------------------------------------------
(* The code *)

\* A sequence of machine instructions: each has a length, and the MOV that takes
\* an address is ten bytes long, the address being the last eight.
IsCode(s) ==
    /\ IsSeq(s)
    /\ \A i \in 1 .. Len(s) : /\ s[i].size \in Nat
                              /\ s[i].op = "movabs" => s[i].size = 10

\* The length and the domain of a sequence.
LEMMA SeqLen == ASSUME NEW s, IsSeq(s) PROVE Len(s) \in Nat /\ DOMAIN s = 1 .. Len(s)
BY DEF IsSeq

\* A function on 1 .. n is a sequence of length n.
LEMMA Listed ==
    ASSUME NEW n \in Nat, NEW s, s = [i \in 1 .. n |-> s[i]]
    PROVE  IsSeq(s) /\ Len(s) = n
<1> DEFINE S == {s[i] : i \in 1 .. n}
<1>1. s \in [1 .. n -> S]
  OBVIOUS
<1>2. s \in Seq(S)
  BY <1>1, SeqDef
<1>3. Len(s) = n
  BY <1>1, <1>2
<1> QED BY <1>2, <1>3 DEF IsSeq

\* The elements of a concatenation.
LEMMA Joined ==
    ASSUME NEW s, NEW t, IsSeq(s), IsSeq(t)
    PROVE  /\ IsSeq(s \o t)
           /\ Len(s \o t) = Len(s) + Len(t)
           /\ \A i \in 1 .. Len(s) : (s \o t)[i] = s[i]
           /\ \A i \in 1 .. Len(t) : (s \o t)[Len(s) + i] = t[i]
<1>1. PICK S : s \in Seq(S)
  BY DEF IsSeq
<1>2. PICK T : t \in Seq(T)
  BY DEF IsSeq
<1>3. s \in Seq(S \cup T) /\ t \in Seq(S \cup T)
  BY <1>1, <1>2
<1> DEFINE U == S \cup T
<1> HIDE DEF U
<1>4. s \in Seq(U) /\ t \in Seq(U)
  BY <1>3 DEF U
<1>5. s \o t \in Seq(U)
  BY <1>4
<1>6. IsSeq(s \o t)
  BY <1>5 DEF IsSeq
<1> QED BY <1>4, <1>6

\* Code after code is code.
LEMMA JoinedCode ==
    ASSUME NEW s, NEW t, IsCode(s), IsCode(t)
    PROVE  IsCode(s \o t)
<1>1. /\ IsSeq(s \o t)
      /\ Len(s \o t) = Len(s) + Len(t)
      /\ \A i \in 1 .. Len(s) : (s \o t)[i] = s[i]
      /\ \A i \in 1 .. Len(t) : (s \o t)[Len(s) + i] = t[i]
  BY Joined DEF IsCode
<1>2. Len(s) \in Nat /\ Len(t) \in Nat
  BY SeqLen DEF IsCode
<1>3. ASSUME NEW i \in 1 .. Len(s \o t)
      PROVE  (s \o t)[i].size \in Nat /\ ((s \o t)[i].op = "movabs" => (s \o t)[i].size = 10)
  <2>1. CASE i \in 1 .. Len(s)
    <3>1. (s \o t)[i] = s[i]
      BY <1>1, <2>1
    <3> QED BY <3>1, <2>1, Zenon DEF IsCode
  <2>2. CASE i \notin 1 .. Len(s)
    <3>1. PICK k \in 1 .. Len(t) : i = Len(s) + k
      <4>1. i - Len(s) \in 1 .. Len(t) /\ i = Len(s) + (i - Len(s))
        BY <2>2, <1>1, <1>2
      <4> QED BY <4>1
    <3>2. (s \o t)[i] = t[k]
      BY <1>1, <3>1
    <3> QED BY <3>2, Zenon DEF IsCode
  <2> QED BY <2>1, <2>2
<1> QED BY <1>1, <1>3 DEF IsCode

\* So is a single machine instruction.
LEMMA OneIns ==
    ASSUME NEW op, NEW n \in Nat, NEW d, NEW s, op = "movabs" => n = 10
    PROVE  IsCode(<<Ins(op, n, d, s)>>)
<1>1. /\ IsSeq(<<Ins(op, n, d, s)>>) /\ Len(<<Ins(op, n, d, s)>>) = 1
      /\ <<Ins(op, n, d, s)>>[1] = Ins(op, n, d, s)
  BY Singleton
<1>2. Ins(op, n, d, s).size = n /\ Ins(op, n, d, s).op = op
  BY DEF Ins
<1>3. \A i \in 1 .. 1 : i = 1
  OBVIOUS
<1> HIDE DEF Ins
<1> QED BY <1>1, <1>2, <1>3 DEF IsCode

\* And no instruction at all, as for ARG and LABEL.
LEMMA NoCode == IsCode(<<>>)
<1>1. IsSeq(<<>>)
  BY NoElements
<1>2. Len(<<>>) = 0
  OBVIOUS
<1> QED BY <1>1, <1>2 DEF IsCode

\* The function that FlattenSeq defines by recursion exists.
LEMMA FlattenExists ==
    ASSUME NEW seqs, NEW n \in Nat
    PROVE  \E f : f = [i \in 1 .. n |-> IF i = 1 THEN seqs[i] ELSE f[i - 1] \o seqs[i]]
<1> DEFINE J(x, i) == x \o seqs[i]
           T == {m \in Nat : \E f : f = [i \in 1 .. m |-> IF i = 1 THEN seqs[i] ELSE J(f[i - 1], i)]}
<1> HIDE DEF J
<1>1. 0 \in T
  <2> DEFINE f == [i \in 1 .. 0 |-> 0]
  <2>1. f = [i \in 1 .. 0 |-> IF i = 1 THEN seqs[i] ELSE J(f[i - 1], i)]
    OBVIOUS
  <2> HIDE DEF f
  <2> QED BY <2>1
<1>2. ASSUME NEW m \in Nat, m \in T PROVE m + 1 \in T
  <2>1. PICK f : f = [i \in 1 .. m |-> IF i = 1 THEN seqs[i] ELSE J(f[i - 1], i)]
    BY <1>2
  <2> DEFINE g == [i \in 1 .. m + 1 |->
                     IF i <= m THEN f[i] ELSE IF i = 1 THEN seqs[i] ELSE J(f[m], i)]
  <2>2. \A i \in 1 .. m + 1 : g[i] = IF i = 1 THEN seqs[i] ELSE J(g[i - 1], i)
    BY <2>1
  <2>3. g = [i \in 1 .. m + 1 |-> g[i]]
    OBVIOUS
  <2> HIDE DEF g
  <2>4. g = [i \in 1 .. m + 1 |-> IF i = 1 THEN seqs[i] ELSE J(g[i - 1], i)]
    BY <2>2, <2>3
  <2> QED BY <2>4
<1> HIDE DEF T
<1>3. n \in T
  BY <1>1, <1>2, Induction
<1> QED BY <1>3 DEF T, J

\* Pieces of code make code.
LEMMA FlatCode ==
    ASSUME NEW n \in Nat, NEW seqs, seqs = [i \in 1 .. n |-> seqs[i]],
           \A i \in 1 .. n : IsCode(seqs[i])
    PROVE  IsCode(FlattenSeq(seqs))
<1>1. IsSeq(seqs) /\ Len(seqs) = n
  BY Listed
<1>2. CASE n = 0
  <2>1. FlattenSeq(seqs) = seqs
    BY <1>1, <1>2 DEF FlattenSeq
  <2>2. IsCode(seqs)
    BY <1>1, <1>2 DEF IsCode
  <2> QED BY <2>1, <2>2
<1>3. CASE n # 0
  <2> DEFINE flatten == CHOOSE f : f = [i \in 1 .. Len(seqs) |->
                            IF i = 1 THEN seqs[i] ELSE f[i - 1] \o seqs[i]]
  <2>1. FlattenSeq(seqs) = flatten[n]
    BY <1>1, <1>3 DEF FlattenSeq
  <2>2. flatten = [i \in 1 .. n |-> IF i = 1 THEN seqs[i] ELSE flatten[i - 1] \o seqs[i]]
    BY <1>1, FlattenExists
  <2> HIDE DEF flatten
  <2>u. \A i \in 1 .. n : i # 1 => flatten[i] = flatten[i - 1] \o seqs[i]
    BY <2>2, Zenon
  <2> DEFINE T == {m \in Nat : m + 1 \in 1 .. n => IsCode(flatten[m + 1])}
  <2>3. 0 \in T
    BY <2>2
  <2>4. ASSUME NEW m \in Nat, m \in T PROVE m + 1 \in T
    <3> SUFFICES ASSUME m + 1 + 1 \in 1 .. n PROVE IsCode(flatten[m + 1 + 1])
      OBVIOUS
    <3>1. m + 1 \in 1 .. n /\ m + 1 + 1 # 1 /\ m + 1 + 1 - 1 = m + 1
      OBVIOUS
    <3>2. flatten[m + 1 + 1] = flatten[m + 1] \o seqs[m + 1 + 1]
      <4>1. PICK k : k = m + 1 + 1
        OBVIOUS
      <4>2. k \in 1 .. n /\ k # 1 /\ k - 1 = m + 1
        BY <4>1, <3>1
      <4>3. flatten[k] = flatten[k - 1] \o seqs[k]
        BY <2>u, <4>2, Zenon
      <4> QED BY <4>1, <4>2, <4>3, Zenon
    <3>3. IsCode(flatten[m + 1]) /\ IsCode(seqs[m + 1 + 1])
      BY <2>4, <3>1
    <3> QED BY <3>2, <3>3, JoinedCode
  <2> HIDE DEF T
  <2>5. n - 1 \in Nat /\ n - 1 + 1 = n /\ n \in 1 .. n
    BY <1>3
  <2>6. n - 1 \in T
    BY <2>3, <2>4, <2>5, Induction
  <2>7. IsCode(flatten[n])
    BY <2>5, <2>6 DEF T
  <2> QED BY <2>1, <2>7
<1> QED BY <1>2, <1>3

\* The function that Sizes defines by recursion exists.
LEMMA SizesExists ==
    ASSUME NEW code, NEW n \in Nat
    PROVE  \E f : f = [i \in 0 .. n |-> IF i = 0 THEN 0 ELSE f[i - 1] + code[i].size]
<1> DEFINE T == {m \in Nat : \E f :
                    f = [i \in 0 .. m |-> IF i = 0 THEN 0 ELSE f[i - 1] + code[i].size]}
<1>1. 0 \in T
  <2> DEFINE f == [i \in 0 .. 0 |-> 0]
  <2>1. f = [i \in 0 .. 0 |-> IF i = 0 THEN 0 ELSE f[i - 1] + code[i].size]
    OBVIOUS
  <2> HIDE DEF f
  <2> QED BY <2>1
<1>2. ASSUME NEW m \in Nat, m \in T PROVE m + 1 \in T
  <2>1. PICK f : f = [i \in 0 .. m |-> IF i = 0 THEN 0 ELSE f[i - 1] + code[i].size]
    BY <1>2
  <2> DEFINE g == [i \in 0 .. m + 1 |-> IF i <= m THEN f[i] ELSE f[m] + code[m + 1].size]
  <2>2. \A i \in 0 .. m + 1 : g[i] = IF i = 0 THEN 0 ELSE g[i - 1] + code[i].size
    BY <2>1
  <2>3. g = [i \in 0 .. m + 1 |-> g[i]]
    OBVIOUS
  <2> HIDE DEF g
  <2>4. g = [i \in 0 .. m + 1 |-> IF i = 0 THEN 0 ELSE g[i - 1] + code[i].size]
    BY <2>2, <2>3
  <2> QED BY <2>4
<1> HIDE DEF T
<1>3. n \in T
  BY <1>1, <1>2, Induction
<1> QED BY <1>3 DEF T

\* What Sizes computes: every instruction adds its length, so the sums never
\* decrease.
LEMMA SizesOf ==
    ASSUME NEW code, IsCode(code)
    PROVE  /\ Len(code) \in Nat
           /\ Sizes(code)[0] = 0
           /\ \A i \in 1 .. Len(code) : Sizes(code)[i] = Sizes(code)[i - 1] + code[i].size
           /\ \A i \in 0 .. Len(code) : Sizes(code)[i] \in Nat /\ Sizes(code)[i] <= Size(code)
<1> DEFINE n == Len(code)
           s == Sizes(code)
<1>1. n \in Nat /\ \A i \in 1 .. n : code[i].size \in Nat
  BY SeqLen DEF IsCode
<1>2. s = [i \in 0 .. n |-> IF i = 0 THEN 0 ELSE s[i - 1] + code[i].size]
  BY <1>1, SizesExists DEF Sizes
<1> HIDE DEF s, n
<1>3. s[0] = 0 /\ \A i \in 1 .. n : s[i] = s[i - 1] + code[i].size
  <2>1. 0 \in 0 .. n /\ \A i \in 1 .. n : i \in 0 .. n /\ i # 0
    BY <1>1
  <2> QED BY <1>2, <2>1
<1>4. \A i \in 0 .. n : s[i] \in Nat
  <2> DEFINE T == {i \in Nat : i \in 0 .. n => s[i] \in Nat}
  <2>1. 0 \in T
    BY <1>3
  <2>2. ASSUME NEW i \in Nat, i \in T PROVE i + 1 \in T
    <3> SUFFICES ASSUME i + 1 \in 0 .. n PROVE s[i + 1] \in Nat
      OBVIOUS
    <3>1. i \in 0 .. n /\ i + 1 \in 1 .. n /\ i + 1 - 1 = i
      BY <1>1
    <3>2. s[i + 1] = s[i] + code[i + 1].size
      BY <3>1, <1>3
    <3>3. s[i] \in Nat /\ code[i + 1].size \in Nat
      BY <2>2, <3>1, <1>1
    <3> QED BY <3>2, <3>3
  <2> HIDE DEF T
  <2>3. \A i \in Nat : i \in T
    BY <2>1, <2>2, Induction
  <2> QED BY <2>3 DEF T
<1>5. \A i \in 0 .. n : s[i] <= s[n]
  <2> DEFINE T == {i \in Nat : i \in 0 .. n => s[n - i] <= s[n]}
  <2>1. 0 \in T
    BY <1>1, <1>4
  <2>2. ASSUME NEW i \in Nat, i \in T PROVE i + 1 \in T
    <3> SUFFICES ASSUME i + 1 \in 0 .. n PROVE s[n - (i + 1)] <= s[n]
      OBVIOUS
    <3>1. i \in 0 .. n /\ n - i \in 1 .. n /\ n - i - 1 = n - (i + 1) /\ n - (i + 1) \in 0 .. n /\ n \in 0 .. n /\ n - i \in 0 .. n
      BY <1>1
    <3>2. s[n - i] = s[n - (i + 1)] + code[n - i].size
      BY <3>1, <1>3
    <3>3. s[n - (i + 1)] \in Nat /\ code[n - i].size \in Nat /\ s[n] \in Nat /\ s[n - i] <= s[n]
      BY <2>2, <3>1, <1>1, <1>4
    <3> QED BY <3>2, <3>3
  <2> HIDE DEF T
  <2>3. \A i \in Nat : i \in T
    BY <2>1, <2>2, Induction
  <2>4. ASSUME NEW i \in 0 .. n PROVE s[i] <= s[n]
    <3>1. n - i \in 0 .. n /\ n - i \in Nat /\ n - (n - i) = i
      BY <1>1
    <3> QED BY <3>1, <2>3 DEF T
  <2> QED BY <2>4
<1> QED BY <1>1, <1>3, <1>4, <1>5 DEF s, n, Size

\* The emitters of one instruction.
LEMMA EmitsCode ==
    ASSUME NEW d, NEW s
    PROVE  /\ IsCode(emit_mov_reg_reg(d, s))
           /\ IsCode(emit_load_param(d, s))
           /\ IsCode(emit_store_local(d, s))
           /\ IsCode(emit_mov_imm(d, s))
           /\ IsCode(emit_alu("ADD", d, s))
           /\ IsCode(emit_cmp_zero(d))
           /\ IsCode(emit_test(d, s))
           /\ IsCode(emit_push(d))
           /\ IsCode(emit_pop(d))
           /\ IsCode(emit_add_rsp(d))
<1>1. IsCode(emit_mov_reg_reg(d, s))
  BY OneIns DEF emit_mov_reg_reg
<1>2. IsCode(emit_load_param(d, s))
  BY OneIns DEF emit_load_param
<1>3. IsCode(emit_store_local(d, s))
  BY OneIns DEF emit_store_local
<1>4. IsCode(emit_mov_imm(d, s))
  BY OneIns DEF emit_mov_imm
<1>5. IsCode(emit_alu("ADD", d, s))
  BY OneIns DEF emit_alu
<1>6. IsCode(emit_cmp_zero(d))
  BY OneIns DEF emit_cmp_zero
<1>7. IsCode(emit_test(d, s))
  BY OneIns DEF emit_test
<1>8. IsCode(emit_push(d))
  BY OneIns DEF emit_push
<1>9. IsCode(emit_pop(d))
  BY OneIns DEF emit_pop
<1>10. IsCode(emit_add_rsp(d))
  BY OneIns DEF emit_add_rsp
<1> QED BY <1>1, <1>2, <1>3, <1>4, <1>5, <1>6, <1>7, <1>8, <1>9, <1>10

\* Moves between registers and places.
LEMMA MovesCode ==
    ASSUME NEW r, NEW loc
    PROVE  IsCode(load_location_to_reg(r, loc)) /\ IsCode(store_reg_to_location(loc, r))
BY EmitsCode, NoCode, Zenon DEF load_location_to_reg, store_reg_to_location

\* The code of the opcodes that occur.
LEMMA CodeCases ==
    ASSUME NEW inst, NEW loc, NEW pending
    PROVE  /\ inst.opcode = "ADD" => Code(inst, loc, pending) =
                 emit_standard_binary_op("ADD", loc[inst.dest], loc[inst.src_1], loc[inst.src_2])
           /\ inst.opcode = "CONST" => Code(inst, loc, pending) = encode_const(loc[inst.dest], inst.imm)
           /\ inst.opcode = "JMP" => Code(inst, loc, pending) = emit_jump("JMP", inst.label)
           /\ inst.opcode = "JZ" => Code(inst, loc, pending) =
                 encode_branch("JZ", loc[inst.src_1], inst.label)
           /\ inst.opcode = "CALL" => Code(inst, loc, pending) =
                 encode_call(loc[inst.dest], [i \in 1 .. Len(pending) |-> loc[pending[i]]], inst.func)
           /\ inst.opcode = "RET" => Code(inst, loc, pending) = encode_ret(loc[inst.src_1])
           /\ inst.opcode \in {"ARG", "LABEL"} => Code(inst, loc, pending) = <<>>
<1>1. inst.opcode = "ADD" => Code(inst, loc, pending) =
        emit_standard_binary_op("ADD", loc[inst.dest], loc[inst.src_1], loc[inst.src_2])
  BY DEF Code, AluOps, ArithOps, LogicOps, CmpOps, ShiftOps, GroupOps
<1>2. inst.opcode = "CONST" => Code(inst, loc, pending) = encode_const(loc[inst.dest], inst.imm)
  BY DEF Code, AluOps, ArithOps, LogicOps, CmpOps, ShiftOps, GroupOps
<1>3. inst.opcode = "JMP" => Code(inst, loc, pending) = emit_jump("JMP", inst.label)
  BY DEF Code, AluOps, ArithOps, LogicOps, CmpOps, ShiftOps, GroupOps
<1>4. inst.opcode = "JZ" => Code(inst, loc, pending) = encode_branch("JZ", loc[inst.src_1], inst.label)
  BY DEF Code, AluOps, ArithOps, LogicOps, CmpOps, ShiftOps, GroupOps
<1>5. inst.opcode = "CALL" => Code(inst, loc, pending) =
        encode_call(loc[inst.dest], [i \in 1 .. Len(pending) |-> loc[pending[i]]], inst.func)
  BY DEF Code, AluOps, ArithOps, LogicOps, CmpOps, ShiftOps, GroupOps
<1>6. inst.opcode = "RET" => Code(inst, loc, pending) = encode_ret(loc[inst.src_1])
  BY DEF Code, AluOps, ArithOps, LogicOps, CmpOps, ShiftOps, GroupOps
<1>7. inst.opcode \in {"ARG", "LABEL"} => Code(inst, loc, pending) = <<>>
  BY DEF Code, AluOps, ArithOps, LogicOps, CmpOps, ShiftOps, GroupOps
<1> QED BY <1>1, <1>2, <1>3, <1>4, <1>5, <1>6, <1>7

\* emit_jump and encode_branch: the last machine instruction is the jump, four
\* bytes of which are its displacement.
LEMMA BranchCode ==
    ASSUME NEW op \in {"JMP", "JZ"}, NEW src, NEW label
    PROVE  LET code == IF op = "JMP" THEN emit_jump("JMP", label) ELSE encode_branch("JZ", src, label)
           IN  IsCode(code) /\ Size(code) >= 5
<1> DEFINE pre == IF op = "JMP" THEN <<>> ELSE emit_jz_jnz(src)
           n == IF op = "JMP" THEN 5 ELSE 6
           code == IF op = "JMP" THEN emit_jump("JMP", label) ELSE encode_branch("JZ", src, label)
           last == <<Ins(op, n, label, 0)>>
<1>1. IsCode(emit_jz_jnz(src))
  BY EmitsCode, MovesCode, JoinedCode, Zenon DEF emit_jz_jnz
<1>2. n \in Nat /\ n >= 5 /\ Len(last) = 1 /\ last[1].size = n
  BY DEF Ins
<1>3. IsCode(last)
  BY <1>2, OneIns
<1>4. IsCode(pre)
  BY <1>1, NoCode
<1>5. op = "JMP" => code = last
  BY DEF emit_jump
<1>6. op # "JMP" => code = pre \o last
  BY DEF emit_jump, encode_branch
<1>7. IsCode(code) /\ Len(code) \in Nat \ {0} /\ code[Len(code)].size = n
  <2>1. CASE op = "JMP"
    <3>1. code = last
      BY <2>1, <1>5
    <3> HIDE DEF code, last
    <3> QED BY <3>1, <1>2, <1>3
  <2>2. CASE op # "JMP"
    <3>1. code = pre \o last
      BY <2>2, <1>6
    <3> HIDE DEF code, last, pre, n
    <3>2. IsSeq(pre) /\ IsSeq(last) /\ Len(pre) \in Nat
      BY <1>3, <1>4, SeqLen DEF IsCode
    <3>3. Len(code) = Len(pre) + 1 /\ code[Len(pre) + 1] = last[1]
      <4>1. /\ Len(pre \o last) = Len(pre) + Len(last)
            /\ \A i \in 1 .. Len(last) : (pre \o last)[Len(pre) + i] = last[i]
        BY <3>2, Joined
      <4>2. 1 \in 1 .. Len(last)
        BY <1>2
      <4> QED BY <4>1, <4>2, <3>1, <1>2, Zenon
    <3>4. IsCode(code)
      BY <3>1, <1>3, <1>4, JoinedCode
    <3> QED BY <3>2, <3>3, <3>4, <1>2
  <2> QED BY <2>1, <2>2
<1> HIDE DEF code, last, pre, n
<1>8. Size(code) >= 5
  <2>1. /\ Sizes(code)[Len(code)] = Sizes(code)[Len(code) - 1] + n
        /\ Sizes(code)[Len(code) - 1] \in Nat
    BY <1>7, SizesOf
  <2> QED BY <2>1, <1>2 DEF Size
<1> QED BY <1>7, <1>8 DEF code

\* The other opcodes without calls.
LEMMA PlainCode ==
    ASSUME NEW dest, NEW left, NEW right
    PROVE  /\ IsCode(emit_standard_binary_op("ADD", dest, left, right))
           /\ IsCode(encode_const(dest, right))
           /\ IsCode(encode_ret(left))
<1>1. IsCode(load_binary_operands(RDX, left, right))
  BY MovesCode, NoCode, JoinedCode, Zenon DEF load_binary_operands
<1>2. IsCode(emit_standard_binary_op("ADD", dest, left, right))
  BY <1>1, MovesCode, EmitsCode, JoinedCode, Zenon DEF emit_standard_binary_op
<1>3. IsCode(encode_const(dest, right))
  BY MovesCode, EmitsCode, JoinedCode, Zenon DEF encode_const
<1>4. IsCode(encode_ret(left))
  <2> DEFINE pops == [i \in 1 .. 5 |-> emit_pop(Reverse(CalleeSaved)[i])]
             lea == <<Ins("learsp", 4, -CALLEE_SAVED_SIZE, 0)>>
             ret == <<Ins("ret", 1, 0, 0)>>
  <2>1. IsCode(FlattenSeq(pops))
    <3>1. \A i \in 1 .. 5 : pops[i] = emit_pop(Reverse(CalleeSaved)[i])
      OBVIOUS
    <3>2. pops = [i \in 1 .. 5 |-> pops[i]]
      OBVIOUS
    <3> HIDE DEF pops
    <3>3. \A i \in 1 .. 5 : IsCode(pops[i])
      BY <3>1, EmitsCode, Zenon
    <3>4. 5 \in Nat
      OBVIOUS
    <3> QED BY <3>2, <3>3, <3>4, FlatCode, Zenon
  <2>2. IsCode(lea) /\ IsCode(ret)
    BY OneIns
  <2> HIDE DEF pops, lea, ret
  <2> QED BY <2>1, <2>2, MovesCode, EmitsCode, JoinedCode, Zenon DEF encode_ret, pops, lea, ret
<1> QED BY <1>2, <1>3, <1>4

\* encode_call: there is a MOV for the address of the callee.
LEMMA CallCode ==
    ASSUME NEW dest, NEW locs, NEW f, Len(locs) \in Nat
    PROVE  /\ IsCode(encode_call(dest, locs, f))
           /\ \E i \in 1 .. Len(encode_call(dest, locs, f)) :
                 encode_call(dest, locs, f)[i].op = "movabs"
<1> DEFINE count == Len(locs)
           stack_args == IF count > SYS_V_MAX_REG_ARGS THEN count - SYS_V_MAX_REG_ARGS ELSE 0
           reg_args == count - stack_args
           PushVia(loc) == load_location_to_reg(RAX, loc) \o emit_push(RAX)
           PushArg(loc) == IF InReg(loc) THEN emit_push(loc.reg) ELSE PushVia(loc)
           cleanup == Cleanup(stack_args)
           a == IF NeedsAlignment(stack_args) THEN emit_add_rsp(-(STACK_ALIGNMENT \div 2)) ELSE <<>>
           bs == [i \in 1 .. stack_args |-> PushVia(locs[count + 1 - i])]
           cs == [i \in 1 .. reg_args |-> PushArg(locs[reg_args + 1 - i])]
           ds == [i \in 1 .. reg_args |-> emit_pop(arg_registers[i])]
           e == <<Ins("movabs", 10, f, 0), Ins("call", 2, RAX, 0)>>
           g == IF cleanup > 0 THEN emit_add_rsp(cleanup) ELSE <<>>
           h == store_reg_to_location(dest, RAX)
<1>1. encode_call(dest, locs, f) =
        a \o FlattenSeq(bs) \o FlattenSeq(cs) \o FlattenSeq(ds) \o e \o g \o h
  BY Zenon DEF encode_call
<1>2. stack_args \in Nat /\ reg_args \in Nat
  BY DEF SYS_V_MAX_REG_ARGS
<1> HIDE DEF count, stack_args, reg_args, cleanup
<1>3. IsCode(a) /\ IsCode(g) /\ IsCode(h)
  BY EmitsCode, NoCode, MovesCode, Zenon
<1>4. IsCode(FlattenSeq(bs))
  <2>1. bs = [i \in 1 .. stack_args |-> bs[i]]
        /\ \A i \in 1 .. stack_args : bs[i] = PushVia(locs[count + 1 - i])
    OBVIOUS
  <2> HIDE DEF bs
  <2>2. \A i \in 1 .. stack_args : IsCode(bs[i])
    BY <2>1, EmitsCode, MovesCode, JoinedCode, Zenon
  <2> QED BY <2>1, <2>2, <1>2, FlatCode, Zenon
<1>5. IsCode(FlattenSeq(cs))
  <2>1. cs = [i \in 1 .. reg_args |-> cs[i]]
        /\ \A i \in 1 .. reg_args : cs[i] = PushArg(locs[reg_args + 1 - i])
    OBVIOUS
  <2> HIDE DEF cs
  <2>2. \A i \in 1 .. reg_args : IsCode(cs[i])
    BY <2>1, EmitsCode, MovesCode, JoinedCode, Zenon
  <2> QED BY <2>1, <2>2, <1>2, FlatCode, Zenon
<1>6. IsCode(FlattenSeq(ds))
  <2>1. ds = [i \in 1 .. reg_args |-> ds[i]]
        /\ \A i \in 1 .. reg_args : ds[i] = emit_pop(arg_registers[i])
    OBVIOUS
  <2> HIDE DEF ds
  <2>2. \A i \in 1 .. reg_args : IsCode(ds[i])
    BY <2>1, EmitsCode, Zenon
  <2> QED BY <2>1, <2>2, <1>2, FlatCode, Zenon
<1>7. IsCode(e) /\ Len(e) = 2 /\ e[1].op = "movabs"
  <2> DEFINE x == Ins("movabs", 10, f, 0)
             y == Ins("call", 2, RAX, 0)
  <2>1. x.op = "movabs" /\ x.size = 10 /\ y.op = "call" /\ y.size = 2
    BY DEF Ins
  <2> HIDE DEF x, y
  <2>2. <<x, y>> \in Seq({x, y}) /\ Len(<<x, y>>) = 2 /\ <<x, y>>[1] = x /\ <<x, y>>[2] = y
    OBVIOUS
  <2>3. IsSeq(<<x, y>>)
    BY <2>2 DEF IsSeq
  <2>4. \A i \in 1 .. 2 : i = 1 \/ i = 2
    OBVIOUS
  <2>5. IsCode(<<x, y>>)
    BY <2>1, <2>2, <2>3, <2>4 DEF IsCode
  <2> QED BY <2>1, <2>2, <2>5 DEF x, y
<1> DEFINE pre == a \o FlattenSeq(bs) \o FlattenSeq(cs) \o FlattenSeq(ds)
           all == pre \o e \o g \o h
<1>8. encode_call(dest, locs, f) = all
  BY <1>1
<1>9. IsCode(pre)
  BY <1>3, <1>4, <1>5, <1>6, JoinedCode, Zenon
<1> HIDE DEF pre, e, g, h
<1>10. IsCode(pre \o e) /\ IsCode(pre \o e \o g) /\ IsCode(all)
  BY <1>3, <1>7, <1>9, JoinedCode, Zenon
<1>11. \A s, t : IsCode(s) /\ IsCode(t) => \A i \in 1 .. Len(s) : i \in 1 .. Len(s \o t) /\ (s \o t)[i] = s[i]
  <2> SUFFICES ASSUME NEW s, NEW t, IsCode(s), IsCode(t), NEW i \in 1 .. Len(s)
               PROVE  i \in 1 .. Len(s \o t) /\ (s \o t)[i] = s[i]
    BY Zenon
  <2>1. IsSeq(s) /\ IsSeq(t)
    BY DEF IsCode
  <2>2. Len(s \o t) = Len(s) + Len(t) /\ \A j \in 1 .. Len(s) : (s \o t)[j] = s[j]
    BY <2>1, Joined, Zenon
  <2>3. Len(s) \in Nat /\ Len(t) \in Nat
    BY <2>1, SeqLen
  <2> HIDE DEF IsCode
  <2> QED BY <2>2, <2>3
<1>12. PICK i : i = Len(pre) + 1
  OBVIOUS
<1>13. i \in 1 .. Len(pre \o e) /\ (pre \o e)[i] = e[1]
  <2>1. IsSeq(pre) /\ IsSeq(e)
    BY <1>7, <1>9 DEF IsCode
  <2>2. /\ Len(pre \o e) = Len(pre) + Len(e)
        /\ \A j \in 1 .. Len(e) : (pre \o e)[Len(pre) + j] = e[j]
    BY <2>1, Joined
  <2>3. Len(pre) \in Nat
    BY <2>1, SeqLen
  <2>4. 1 \in 1 .. Len(e) /\ i \in 1 .. Len(pre \o e)
    BY <2>2, <2>3, <1>7, <1>12
  <2> QED BY <2>2, <2>4, <1>12, Zenon
<1>14. i \in 1 .. Len(pre \o e \o g) /\ (pre \o e \o g)[i] = e[1]
  BY <1>3, <1>10, <1>11, <1>13, Zenon
<1>15. i \in 1 .. Len(all) /\ all[i] = e[1]
  BY <1>3, <1>10, <1>11, <1>14, Zenon
<1> HIDE DEF all
<1> QED BY <1>8, <1>10, <1>15, <1>7

\* encode_prologue.
LEMMA PrologueCode ==
    ASSUME NEW stack_size, NEW params, Len(params) \in Nat
    PROVE  IsCode(encode_prologue(stack_size, params))
<1> DEFINE n == Len(params)
           bs == [i \in 1 .. 5 |-> emit_push(CalleeSaved[i])]
           cs == [i \in 1 .. n |-> MoveParam(i, params[i])]
           a == IF stack_size > 0 THEN emit_add_rsp(-stack_size) ELSE <<>>
<1>1. IsCode(FlattenSeq(bs))
  <2>1. bs = [i \in 1 .. 5 |-> bs[i]] /\ \A i \in 1 .. 5 : bs[i] = emit_push(CalleeSaved[i])
    OBVIOUS
  <2> HIDE DEF bs
  <2>2. \A i \in 1 .. 5 : IsCode(bs[i])
    BY <2>1, EmitsCode, Zenon
  <2>3. 5 \in Nat
    OBVIOUS
  <2> QED BY <2>1, <2>2, <2>3, FlatCode, Zenon
<1>2. IsCode(FlattenSeq(cs))
  <2>1. cs = [i \in 1 .. n |-> cs[i]] /\ \A i \in 1 .. n : cs[i] = MoveParam(i, params[i])
    OBVIOUS
  <2> HIDE DEF cs
  <2>2. \A i, loc : IsCode(MoveParam(i, loc))
    BY EmitsCode, MovesCode, JoinedCode, Zenon DEF MoveParam
  <2>3. \A i \in 1 .. n : IsCode(cs[i])
    BY <2>1, <2>2, Zenon
  <2> QED BY <2>1, <2>3, FlatCode, Zenon
<1>3. IsCode(a)
  BY EmitsCode, NoCode, Zenon
<1>4. encode_prologue(stack_size, params) =
        emit_push(RBP) \o emit_mov_reg_reg(RBP, RSP) \o FlattenSeq(bs) \o a \o FlattenSeq(cs)
  BY Zenon DEF encode_prologue
<1> HIDE DEF a, bs, cs
<1> QED BY <1>1, <1>2, <1>3, <1>4, EmitsCode, JoinedCode, Zenon

\* The opcodes of the IR.
Ops == {"CONST", "ADD", "ARG", "CALL", "RET", "JMP", "JZ", "LABEL"}

\* What pass 1 counts for an instruction, where the displacement of a jump and the
\* immediate of a call lie in it.
LEMMA InstructionSize ==
    ASSUME NEW c, IsSeq(c.pending), NEW n \in Nat, NEW inst, inst.opcode \in Ops
    PROVE  /\ Encode(c, n, inst).size \in Nat
           /\ n <= Encode(c, n, inst).size
           /\ IsSeq(Encode(c, n, inst).pending)
           /\ inst.opcode \in Jumps => n <= Encode(c, n, inst).size - 4
           /\ inst.opcode = "CALL" =>
                /\ ImmediateAt(InstCode(c, inst)) \in Nat
                /\ n + ImmediateAt(InstCode(c, inst)) \in n .. Encode(c, n, inst).size - 1
                /\ Sizes(InstCode(c, inst))[CHOOSE i \in DOMAIN InstCode(c, inst) : InstCode(c, inst)[i].op = "movabs"]
                     = ImmediateAt(InstCode(c, inst)) + 8
<1> DEFINE code == InstCode(c, inst)
           vm == Located(c, inst).vreg_map
<1>1. code = Code(inst, vm, c.pending)
  BY DEF InstCode
<1>2. Encode(c, n, inst).size = n + Size(code) /\ Encode(c, n, inst).pending = PendingAfter(inst, c.pending)
  BY DEF Encode
<1>3. IsSeq(PendingAfter(inst, c.pending))
  <2>1. IsSeq(Append(c.pending, inst.src_1)) /\ IsSeq(<<>>)
    BY AppendSeq, NoElements, Zenon
  <2>2. \/ PendingAfter(inst, c.pending) = Append(c.pending, inst.src_1)
        \/ PendingAfter(inst, c.pending) = <<>>
        \/ PendingAfter(inst, c.pending) = c.pending
    BY DEF PendingAfter
  <2> QED BY <2>1, <2>2, Zenon
<1> HIDE DEF vm, code
<1>4. /\ IsCode(code)
      /\ inst.opcode \in Jumps => Size(code) >= 5
      /\ inst.opcode = "CALL" => \E i \in 1 .. Len(code) : code[i].op = "movabs"
  <2>1. CASE inst.opcode = "ADD"
    <3>1. code = emit_standard_binary_op("ADD", vm[inst.dest], vm[inst.src_1], vm[inst.src_2])
      BY <1>1, <2>1, CodeCases, Zenon
    <3> QED BY <2>1, <3>1, PlainCode DEF Jumps
  <2>2. CASE inst.opcode = "CONST"
    <3>1. code = encode_const(vm[inst.dest], inst.imm)
      BY <1>1, <2>2, CodeCases, Zenon
    <3> QED BY <2>2, <3>1, PlainCode DEF Jumps
  <2>3. CASE inst.opcode = "RET"
    <3>1. code = encode_ret(vm[inst.src_1])
      BY <1>1, <2>3, CodeCases, Zenon
    <3> QED BY <2>3, <3>1, PlainCode DEF Jumps
  <2>4. CASE inst.opcode \in {"ARG", "LABEL"}
    <3>1. code = <<>>
      BY <1>1, <2>4, CodeCases, Zenon
    <3> QED BY <2>4, <3>1, NoCode DEF Jumps
  <2>5. CASE inst.opcode = "JMP"
    <3>1. code = emit_jump("JMP", inst.label)
      BY <1>1, <2>5, CodeCases, Zenon
    <3>2. IsCode(emit_jump("JMP", inst.label)) /\ Size(emit_jump("JMP", inst.label)) >= 5
      BY BranchCode
    <3> QED BY <2>5, <3>1, <3>2
  <2>6. CASE inst.opcode = "JZ"
    <3>1. code = encode_branch("JZ", vm[inst.src_1], inst.label)
      BY <1>1, <2>6, CodeCases, Zenon
    <3>2. \A src, label : IsCode(encode_branch("JZ", src, label)) /\ Size(encode_branch("JZ", src, label)) >= 5
      BY BranchCode
    <3> QED BY <2>6, <3>1, <3>2
  <2>7. CASE inst.opcode = "CALL"
    <3> DEFINE locs == [i \in 1 .. Len(c.pending) |-> vm[c.pending[i]]]
    <3>1. code = encode_call(vm[inst.dest], locs, inst.func)
      BY <1>1, <2>7, CodeCases, Zenon
    <3>2. Len(c.pending) \in Nat
      BY SeqLen
    <3>3. locs = [i \in 1 .. Len(c.pending) |-> locs[i]]
      OBVIOUS
    <3> HIDE DEF locs
    <3>4. Len(locs) \in Nat
      BY <3>2, <3>3, Listed
    <3>5. IsCode(code) /\ \E i \in 1 .. Len(code) : code[i].op = "movabs"
      BY <3>1, <3>4, CallCode
    <3> QED BY <2>7, <3>5 DEF Jumps
  <2> QED BY <2>1, <2>2, <2>3, <2>4, <2>5, <2>6, <2>7 DEF Ops
<1>5. /\ Len(code) \in Nat
      /\ Sizes(code)[0] = 0
      /\ \A i \in 1 .. Len(code) : Sizes(code)[i] = Sizes(code)[i - 1] + code[i].size
      /\ \A i \in 0 .. Len(code) : Sizes(code)[i] \in Nat /\ Sizes(code)[i] <= Size(code)
  BY <1>4, SizesOf, Zenon
<1>6. Size(code) \in Nat
  <2>1. Len(code) \in 0 .. Len(code)
    BY <1>5
  <2> QED BY <1>5, <2>1 DEF Size
<1>7. ASSUME inst.opcode = "CALL"
      PROVE  /\ ImmediateAt(code) \in 0 .. Size(code) - 1
             /\ Sizes(code)[CHOOSE i \in DOMAIN code : code[i].op = "movabs"] = ImmediateAt(code) + 8
  <2>1. DOMAIN code = 1 .. Len(code)
    BY <1>4, SeqLen DEF IsCode
  <2> DEFINE k == CHOOSE i \in DOMAIN code : code[i].op = "movabs"
  <2>2. k \in 1 .. Len(code) /\ code[k].op = "movabs"
    BY <1>4, <1>7, <2>1
  <2>3. ImmediateAt(code) = Sizes(code)[k - 1] + 2
    BY DEF ImmediateAt
  <2> HIDE DEF k
  <2>4. code[k].size = 10
    BY <1>4, <2>2 DEF IsCode
  <2>5. k - 1 \in 0 .. Len(code) /\ k \in 0 .. Len(code)
    BY <2>2, <1>5
  <2>6. Sizes(code)[k] = Sizes(code)[k - 1] + 10
    BY <1>5, <2>2, <2>4
  <2>7. Sizes(code)[k - 1] \in Nat /\ Sizes(code)[k] <= Size(code)
    BY <1>5, <2>5
  <2>8. ImmediateAt(code) \in 0 .. Size(code) - 1 /\ Sizes(code)[k] = ImmediateAt(code) + 8
    BY <2>3, <2>6, <2>7, <1>6
  <2> QED BY <2>8 DEF k
<1>9. PICK z : z = Size(code)
  OBVIOUS
<1>10. /\ Encode(c, n, inst).size \in Nat
       /\ n <= Encode(c, n, inst).size
       /\ IsSeq(Encode(c, n, inst).pending)
       /\ inst.opcode \in Jumps => n <= Encode(c, n, inst).size - 4
       /\ inst.opcode = "CALL" => n + ImmediateAt(code) \in n .. Encode(c, n, inst).size - 1
  <2>1. PICK w : w = Encode(c, n, inst).size
    OBVIOUS
  <2>2. z \in Nat /\ (inst.opcode \in Jumps => z >= 5) /\ (inst.opcode = "CALL" => ImmediateAt(code) \in 0 .. z - 1)
    BY <1>4, <1>6, <1>7, <1>9
  <2>3. w = n + z
    BY <2>1, <1>2, <1>9
  <2>4. w \in Nat /\ n <= w
    BY <2>2, <2>3
  <2>5. inst.opcode \in Jumps => n <= w - 4
    BY <2>2, <2>3
  <2>6. inst.opcode = "CALL" => n + ImmediateAt(code) \in n .. w - 1
    BY <2>2, <2>3
  <2>7. IsSeq(Encode(c, n, inst).pending)
    BY <1>2, <1>3
  <2> QED BY <2>1, <2>4, <2>5, <2>6, <2>7, Zenon
<1>11. inst.opcode = "CALL" => ImmediateAt(code) \in Nat
  BY <1>6, <1>7
<1> QED BY <1>7, <1>10, <1>11, Zenon DEF code

\* What pass 1 counts for the prologue; no argument is pending after it.
LEMMA PrologueSize ==
    ASSUME NEW c, DOMAIN c = Fields, NEW f, f.params \in Nat
    PROVE  /\ Prologue(reset_state(c, f), f).size \in Nat
           /\ IsSeq(Prologue(reset_state(c, f), f).pending)
<1> DEFINE r == reset_state(c, f)
           alloc == Locate(r.alloc, [i \in 1 .. f.params |-> i])
           n == calculate_aligned_stack_size(f.stack_count, f.vreg_count)
           params == [i \in 1 .. f.params |-> alloc.vreg_map[i]]
           code == encode_prologue(n, params)
<1>1. r.pending = <<>>
  BY DEF reset_state, Fields
<1>2. Prologue(r, f).size = Size(code) /\ Prologue(r, f).pending = r.pending
  BY DEF Prologue
<1>3. params = [i \in 1 .. f.params |-> params[i]]
  OBVIOUS
<1> HIDE DEF r, alloc, n, params
<1>4. Len(params) \in Nat
  BY <1>3, Listed
<1>5. IsCode(code)
  BY <1>4, PrologueCode
<1> HIDE DEF code
<1>6. Size(code) \in Nat
  <2>1. Len(code) \in 0 .. Len(code) /\ \A i \in 0 .. Len(code) : Sizes(code)[i] \in Nat
    BY <1>5, SizesOf
  <2> QED BY <2>1 DEF Size
<1>7. IsSeq(r.pending)
  BY <1>1, NoElements
<1> QED BY <1>2, <1>6, <1>7 DEF r

-----------------------------------------------------------------------------
(* The passes agree *)

\* The prologue after reset_state does not depend on what the context held.
LEMMA ResetForgets ==
    ASSUME NEW c, NEW d, NEW f, DOMAIN c = Fields, DOMAIN d = Fields
    PROVE  Prologue(reset_state(c, f), f) = Prologue(reset_state(d, f), f)
<1>1. /\ reset_state(c, f).alloc = reset_state(d, f).alloc
      /\ reset_state(c, f).pending = reset_state(d, f).pending
  BY DEF reset_state, Fields
<1> QED BY <1>1 DEF Prologue

\* reset_state and the encoders keep the fields of the context.
LEMMA EncodedFields ==
    ASSUME NEW c, DOMAIN c = Fields, NEW e, NEW f
    PROVE  /\ DOMAIN Encoded(c, e) = Fields
           /\ Encoded(c, e).alloc = e.alloc
           /\ Encoded(c, e).pending = e.pending
           /\ DOMAIN reset_state(c, f) = Fields
BY DEF Encoded, Fields, reset_state

\* Patching and label definition touch neither allocator nor pending arguments.
LEMMA JumpFields ==
    ASSUME NEW c, DOMAIN c = Fields, NEW l, NEW loc
    PROVE  /\ DOMAIN EmitJump(c, l, loc).ctx = Fields
           /\ EmitJump(c, l, loc).ctx.alloc = c.alloc
           /\ EmitJump(c, l, loc).ctx.pending = c.pending
           /\ DOMAIN DefineLabel(c, l, loc) = Fields
           /\ DefineLabel(c, l, loc).alloc = c.alloc
           /\ DefineLabel(c, l, loc).pending = c.pending
<1>1. /\ DOMAIN EmitJump(c, l, loc).ctx = Fields
      /\ EmitJump(c, l, loc).ctx.alloc = c.alloc
      /\ EmitJump(c, l, loc).ctx.pending = c.pending
  BY DEF EmitJump, Fields
<1> DEFINE new == Written(c.labels, l, loc)
           rest == c.patches \ PatchesOf(c, l)
<1>2. DefineLabel(c, l, loc) = [c EXCEPT !.labels = new, !.patches = rest]
  BY DEF DefineLabel, Fields
<1> HIDE DEF new, rest
<1>3. /\ DOMAIN DefineLabel(c, l, loc) = Fields
      /\ DefineLabel(c, l, loc).alloc = c.alloc
      /\ DefineLabel(c, l, loc).pending = c.pending
  BY <1>2 DEF Fields
<1> QED BY <1>1, <1>3

\* The initial state.
LEMMA InitInv == Init => Inv
<1> SUFFICES ASSUME Init PROVE Inv
  OBVIOUS
<1>1. IsSeq(ir) /\ IsSeq(trace)
  <2>1. ir = <<>> /\ trace = <<>>
    BY DEF Init
  <2> QED BY <2>1, NoElements, ZenonT(30)
<1>2. DOMAIN ctx = Fields
  <2>1. ASSUME NEW p, NEW q, NEW l, NEW a
        PROVE  DOMAIN [pending |-> p, patches |-> q, labels |-> l, alloc |-> a] = Fields
    BY DEF Fields
  <2> QED BY <2>1 DEF Init
<1>3. phase = "idle"
  BY DEF Init
<1> QED BY <1>1, <1>2, <1>3 DEF Inv

\* A step that leaves the encoding alone and enters neither pass.
LEMMA OtherSteps ==
    ASSUME Inv, UNCHANGED encoding, phase' \notin {"pass1", "pass2"}
    PROVE  Inv'
<1>1. /\ ir' = ir /\ trace' = trace /\ ctx' = ctx
      /\ phase' # "pass1" /\ phase' # "pass2"
  BY DEF encoding
<1> QED BY <1>1 DEF Inv, IsSeq

\* StartFunction: pass 1 starts with the prologue.
LEMMA StartInv ==
    ASSUME Inv, NEW f, StartFunction(f)
    PROVE  Inv'
<1> DEFINE c == reset_state(ctx, f)
           p == Prologue(c, f)
<1>1. DOMAIN ctx = Fields
  BY DEF Inv
<1>2. DOMAIN c = Fields /\ DOMAIN Encoded(c, p) = Fields
      /\ Encoded(c, p).alloc = p.alloc /\ Encoded(c, p).pending = p.pending
  <2>1. DOMAIN c = Fields
    BY <1>1, EncodedFields
  <2> QED BY <2>1, EncodedFields
<1>3. ir' = <<>> /\ func' = f
  BY DEF StartFunction
<1>4. IsSeq(ir)' /\ Len(ir') = 0
  <2>1. PICK u : u = ir'
    OBVIOUS
  <2>2. IsSeq(u)
    BY <2>1, <1>3, NoElements, ZenonT(30)
  <2>3. IsSeq(ir)'
    BY <2>1, <2>2 DEF IsSeq
  <2> QED BY <2>3, <1>3
<1>5. CASE f.label_count >= MAX_LABELS
  <2>1. phase' = "failed" /\ ctx' = c /\ trace' = trace
    BY <1>5 DEF StartFunction
  <2>2. DOMAIN ctx' = Fields
    BY <2>1, <1>2
  <2>3. IsSeq(trace)'
    BY <2>1 DEF Inv, IsSeq
  <2>4. phase' # "pass1" /\ phase' # "pass2"
    BY <2>1
  <2> QED BY <2>2, <2>3, <2>4, <1>4 DEF Inv
<1>6. CASE ~(f.label_count >= MAX_LABELS)
  <2>1. phase' = "pass1" /\ ctx' = Encoded(c, p) /\ size' = p.size /\ trace' = <<p>>
    BY <1>6 DEF StartFunction
  <2>2. DOMAIN ctx' = Fields
    BY <2>1, <1>2
  <2>3. IsSeq(trace)' /\ Len(trace') = 1 /\ trace'[1] = p
    <3>1. IsSeq(<<p>>) /\ Len(<<p>>) = 1 /\ <<p>>[1] = p
      BY Singleton, ZenonT(30)
    <3> QED BY <3>1, <2>1 DEF IsSeq
  <2>4. Prologue(reset_state(ctx', func'), func') = p
    <3>1. PICK d : d = ctx'
      OBVIOUS
    <3>2. DOMAIN d = Fields
      BY <3>1, <2>2
    <3>3. Prologue(reset_state(d, f), f) = p
      BY <3>2, <1>1, ResetForgets, ZenonT(30)
    <3> QED BY <3>1, <3>3, <1>3
  <2>5. TraceOfIr'
    <3>1. Len(trace') = Len(ir') + 1
      BY <2>3, <1>4
    <3>2. trace'[1] = Prologue(reset_state(ctx', func'), func')
      BY <2>3, <2>4
    <3>3. \A k \in 1 .. Len(ir') : trace'[k + 1] = Encode(trace'[k], trace'[k].size, ir'[k])
      BY <1>4
    <3> QED BY <3>1, <3>2, <3>3 DEF TraceOfIr
  <2>6. trace'[Len(ir') + 1] = Snapshot(ctx', size')
    <3>1. p = [alloc |-> p.alloc, pending |-> p.pending, size |-> p.size]
      BY DEF Prologue
    <3>2. ctx'.alloc = p.alloc /\ ctx'.pending = p.pending
      BY <2>1, <1>2
    <3>3. Snapshot(ctx', size') = p
      BY <3>1, <3>2, <2>1 DEF Snapshot
    <3> QED BY <3>3, <2>3, <1>4
  <2> QED BY <2>1, <2>2, <2>3, <2>5, <2>6, <1>4 DEF Inv
<1> QED BY <1>5, <1>6

\* The elements of a record built by encode_inst.
LEMMA EncodeShape ==
    ASSUME NEW c, NEW n, NEW inst
    PROVE  Encode(c, n, inst) = [alloc |-> Encode(c, n, inst).alloc,
                                 pending |-> Encode(c, n, inst).pending,
                                 size |-> Encode(c, n, inst).size]
BY DEF Encode

\* encode_inst reads nothing of the context but the allocator and the pending
\* arguments, not the patches or labels of pass 2: from equal snapshots it goes
\* to equal snapshots.
LEMMA EncodeSnapshot ==
    ASSUME NEW c, NEW n, NEW inst
    PROVE  Encode(Snapshot(c, n), Snapshot(c, n).size, inst) = Encode(c, n, inst)
<1>1. Snapshot(c, n).alloc = c.alloc /\ Snapshot(c, n).pending = c.pending /\ Snapshot(c, n).size = n
  BY DEF Snapshot
<1>2. Encode(Snapshot(c, n), n, inst) = Encode(c, n, inst)
  BY <1>1 DEF Encode, InstCode, Located
<1> QED BY <1>1, <1>2

\* SizeInst: pass 1 takes one more instruction.
LEMMA SizeInv ==
    ASSUME Inv, NEW inst, SizeInst(inst)
    PROVE  Inv'
<1> DEFINE e == Encode(ctx, size, inst)
<1>1. /\ phase = "pass1" /\ phase' = "pass1"
      /\ ir' = Append(ir, inst) /\ trace' = Append(trace, e)
      /\ ctx' = Encoded(ctx, e) /\ size' = e.size /\ func' = func
  BY DEF SizeInst
<1>2. /\ IsSeq(ir) /\ IsSeq(trace) /\ DOMAIN ctx = Fields /\ TraceOfIr
      /\ trace[Len(ir) + 1] = Snapshot(ctx, size)
  BY <1>1 DEF Inv
<1>3. /\ IsSeq(Append(ir, inst))
      /\ Len(ir) \in Nat
      /\ Len(Append(ir, inst)) = Len(ir) + 1
      /\ Append(ir, inst)[Len(ir) + 1] = inst
      /\ \A k \in 1 .. Len(ir) : Append(ir, inst)[k] = ir[k]
  BY <1>2, AppendSeq, ZenonT(30)
<1>4. /\ IsSeq(Append(trace, e))
      /\ Len(trace) \in Nat
      /\ Len(Append(trace, e)) = Len(trace) + 1
      /\ Append(trace, e)[Len(trace) + 1] = e
      /\ \A k \in 1 .. Len(trace) : Append(trace, e)[k] = trace[k]
  BY <1>2, AppendSeq, ZenonT(30)
<1>5. /\ DOMAIN ctx' = Fields /\ ctx'.alloc = e.alloc /\ ctx'.pending = e.pending
  <2>1. /\ DOMAIN Encoded(ctx, e) = Fields
        /\ Encoded(ctx, e).alloc = e.alloc /\ Encoded(ctx, e).pending = e.pending
    BY <1>2, EncodedFields, ZenonT(30)
  <2> QED BY <2>1, <1>1
<1>6. Encode(trace[Len(ir) + 1], trace[Len(ir) + 1].size, inst) = e
  <2>1. Encode(Snapshot(ctx, size), Snapshot(ctx, size).size, inst) = e
    BY EncodeSnapshot, ZenonT(30)
  <2>2. trace[Len(ir) + 1] = Snapshot(ctx, size)
    BY <1>2
  <2> HIDE DEF e
  <2> QED BY <2>1, <2>2
<1>7. e = [alloc |-> e.alloc, pending |-> e.pending, size |-> e.size]
  BY EncodeShape, ZenonT(30)
<1> HIDE DEF e
<1>8. Len(trace) = Len(ir) + 1
  BY <1>2 DEF TraceOfIr
<1>9. TraceOfIr'
  <2>1. Len(trace') = Len(ir') + 1
    BY <1>1, <1>3, <1>4, <1>8
  <2>2. trace'[1] = Prologue(reset_state(ctx', func'), func')
    <3>1. PICK d : d = ctx'
      OBVIOUS
    <3>2. DOMAIN d = Fields
      BY <3>1, <1>5
    <3>3. Prologue(reset_state(d, func), func) = Prologue(reset_state(ctx, func), func)
      BY <3>2, <1>2, ResetForgets, ZenonT(30)
    <3>4. trace[1] = Prologue(reset_state(ctx, func), func)
      BY <1>2 DEF TraceOfIr
    <3>5. trace'[1] = trace[1]
      BY <1>1, <1>3, <1>4, <1>8
    <3> QED BY <3>1, <3>3, <3>4, <3>5, <1>1
  <2>3. ASSUME NEW k \in 1 .. Len(ir')
        PROVE  trace'[k + 1] = Encode(trace'[k], trace'[k].size, ir'[k])
    <3>1. CASE k \in 1 .. Len(ir)
      <4>1. trace[k + 1] = Encode(trace[k], trace[k].size, ir[k])
        BY <3>1, <1>2 DEF TraceOfIr
      <4>2. trace'[k + 1] = trace[k + 1] /\ trace'[k] = trace[k] /\ ir'[k] = ir[k]
        BY <3>1, <1>1, <1>3, <1>4, <1>8
      <4> QED BY <4>1, <4>2
    <3>2. CASE k = Len(ir) + 1
      <4>1. trace'[k + 1] = e /\ trace'[k] = trace[Len(ir) + 1] /\ ir'[k] = inst
        BY <3>2, <1>1, <1>3, <1>4, <1>8
      <4> QED BY <4>1, <1>6
    <3>3. Len(ir') = Len(ir) + 1
      BY <1>1, <1>3
    <3>4. k \in 1 .. Len(ir) \/ k = Len(ir) + 1
      BY <3>3, <1>3
    <3> QED BY <3>1, <3>2, <3>4, Zenon
  <2> QED BY <2>1, <2>2, <2>3 DEF TraceOfIr
<1>10. trace'[Len(ir') + 1] = Snapshot(ctx', size')
  <2>1. trace'[Len(ir') + 1] = e
    BY <1>1, <1>3, <1>4, <1>8
  <2>2. Snapshot(ctx', size') = e
    BY <1>1, <1>5, <1>7 DEF Snapshot
  <2> QED BY <2>1, <2>2
<1>11. IsSeq(ir)' /\ IsSeq(trace)'
  BY <1>1, <1>3, <1>4 DEF IsSeq
<1> QED BY <1>1, <1>5, <1>9, <1>10, <1>11 DEF Inv

\* Allocate: pass 2 starts where pass 1 did.
LEMMA AllocateInv ==
    ASSUME Inv, Allocate
    PROVE  Inv'
<1> DEFINE c == reset_state(ctx, func)
           p == Prologue(c, func)
<1>1. /\ phase = "pass1" /\ phase' = "pass2" /\ predicted_size' = size
      /\ ir' = ir /\ trace' = trace /\ func' = func
      /\ ctx' = Encoded(c, p) /\ size' = p.size /\ pos' = 1
  BY DEF Allocate
<1>2. /\ IsSeq(ir) /\ IsSeq(trace) /\ DOMAIN ctx = Fields /\ TraceOfIr
      /\ trace[Len(ir) + 1] = Snapshot(ctx, size)
  BY <1>1 DEF Inv
<1>3. /\ DOMAIN ctx' = Fields /\ ctx'.alloc = p.alloc /\ ctx'.pending = p.pending
  <2>1. DOMAIN c = Fields
    BY <1>2, EncodedFields
  <2>2. /\ DOMAIN Encoded(c, p) = Fields
        /\ Encoded(c, p).alloc = p.alloc /\ Encoded(c, p).pending = p.pending
    BY <2>1, EncodedFields, ZenonT(30)
  <2> QED BY <2>2, <1>1
<1>4. trace[1] = p
  BY <1>2 DEF TraceOfIr
<1>5. TraceOfIr'
  <2>1. PICK d : d = ctx'
    OBVIOUS
  <2>2. DOMAIN d = Fields
    BY <2>1, <1>3
  <2>3. Prologue(reset_state(d, func), func) = p
    BY <2>2, <1>2, ResetForgets, ZenonT(30)
  <2> QED BY <2>1, <2>3, <1>1, <1>2, <1>4 DEF TraceOfIr
<1>6. trace'[pos'] = Snapshot(ctx', size')
  <2>1. p = [alloc |-> p.alloc, pending |-> p.pending, size |-> p.size]
    BY DEF Prologue
  <2>2. Snapshot(ctx', size') = p
    BY <2>1, <1>1, <1>3 DEF Snapshot
  <2> QED BY <2>2, <1>1, <1>4
<1>7. predicted_size' = trace'[Len(ir') + 1].size
  BY <1>1, <1>2 DEF Snapshot
<1>8. Len(ir) \in Nat
  BY <1>2, AppendSeq, ZenonT(30)
<1>9. pos' \in 1 .. Len(ir') + 1
  BY <1>1, <1>8
<1>10. IsSeq(ir)' /\ IsSeq(trace)'
  BY <1>1, <1>2 DEF IsSeq
<1> QED BY <1>1, <1>3, <1>5, <1>6, <1>7, <1>9, <1>10 DEF Inv

\* EmitInst: pass 2 takes the instruction pass 1 took there.
LEMMA EmitInv ==
    ASSUME Inv, EmitInst
    PROVE  Inv'
<1> DEFINE inst == ir[pos]
           e == Encode(ctx, size, inst)
           c == Encoded(ctx, e)
<1>1. /\ phase = "pass2" /\ pos <= Len(ir) /\ size' = e.size /\ pos' = pos + 1
      /\ phase' = "pass2" \/ phase' = "aborted"
      /\ ir' = ir /\ trace' = trace /\ func' = func /\ predicted_size' = predicted_size
  BY DEF EmitInst
<1>2. /\ IsSeq(ir) /\ IsSeq(trace) /\ DOMAIN ctx = Fields /\ TraceOfIr
      /\ pos \in 1 .. Len(ir) + 1
      /\ trace[pos] = Snapshot(ctx, size)
      /\ predicted_size = trace[Len(ir) + 1].size
  BY <1>1 DEF Inv
<1>3. Len(ir) \in Nat
  BY <1>2, AppendSeq, ZenonT(30)
<1>4. e = [alloc |-> e.alloc, pending |-> e.pending, size |-> e.size]
  BY EncodeShape, ZenonT(30)
<1>5. DOMAIN c = Fields /\ c.alloc = e.alloc /\ c.pending = e.pending
  BY <1>2, EncodedFields, ZenonT(30)
<1>6. DOMAIN ctx' = Fields /\ ctx'.alloc = e.alloc /\ ctx'.pending = e.pending
  <2>1. \/ \E l, loc : ctx' = EmitJump(c, l, loc).ctx
        \/ \E l, loc : ctx' = DefineLabel(c, l, loc)
        \/ ctx' = c
    BY DEF EmitInst
  <2> HIDE DEF c, e
  <2>2. CASE \E l, loc : ctx' = EmitJump(c, l, loc).ctx
    <3>1. PICK l, loc : ctx' = EmitJump(c, l, loc).ctx
      BY <2>2
    <3>2. /\ DOMAIN EmitJump(c, l, loc).ctx = Fields
          /\ EmitJump(c, l, loc).ctx.alloc = c.alloc
          /\ EmitJump(c, l, loc).ctx.pending = c.pending
      BY <1>5, JumpFields
    <3> QED BY <3>1, <3>2, <1>5
  <2>3. CASE \E l, loc : ctx' = DefineLabel(c, l, loc)
    <3>1. PICK l, loc : ctx' = DefineLabel(c, l, loc)
      BY <2>3
    <3>2. /\ DOMAIN DefineLabel(c, l, loc) = Fields
          /\ DefineLabel(c, l, loc).alloc = c.alloc
          /\ DefineLabel(c, l, loc).pending = c.pending
      BY <1>5, JumpFields
    <3> QED BY <3>1, <3>2, <1>5
  <2>4. CASE ctx' = c
    BY <2>4, <1>5
  <2> QED BY <2>1, <2>2, <2>3, <2>4
<1>7. trace[pos + 1] = e
  <2>1. Encode(Snapshot(ctx, size), Snapshot(ctx, size).size, inst) = e
    BY EncodeSnapshot, ZenonT(30)
  <2>2. trace[pos + 1] = Encode(trace[pos], trace[pos].size, ir[pos])
    BY <1>1, <1>2, <1>3 DEF TraceOfIr
  <2> HIDE DEF e
  <2> QED BY <2>1, <2>2, <1>2
<1> HIDE DEF e, c
<1>8. TraceOfIr'
  <2>1. PICK d : d = ctx'
    OBVIOUS
  <2>2. DOMAIN d = Fields
    BY <2>1, <1>6
  <2>3. Prologue(reset_state(d, func), func) = Prologue(reset_state(ctx, func), func)
    BY <2>2, <1>2, ResetForgets, ZenonT(30)
  <2> QED BY <2>1, <2>3, <1>1, <1>2 DEF TraceOfIr
<1>9. trace'[pos'] = Snapshot(ctx', size')
  <2>1. Snapshot(ctx', size') = e
    BY <1>1, <1>4, <1>6 DEF Snapshot
  <2> QED BY <2>1, <1>1, <1>7
<1>10. pos' \in 1 .. Len(ir') + 1
  BY <1>1, <1>2, <1>3
<1>11. predicted_size' = trace'[Len(ir') + 1].size
  BY <1>1, <1>2
<1>12. IsSeq(ir)' /\ IsSeq(trace)'
  BY <1>1, <1>2 DEF IsSeq
<1>13. phase' # "pass1"
  BY <1>1
<1> QED BY <1>6, <1>8, <1>9, <1>10, <1>11, <1>12, <1>13 DEF Inv

\* Every step keeps the invariant.
LEMMA NextInv == Inv /\ [Next]_vars => Inv'
<1> SUFFICES ASSUME Inv, [Next]_vars PROVE Inv'
  OBVIOUS
<1>1. ASSUME NEW f, StartFunction(f) PROVE Inv'
  BY <1>1, StartInv
<1>2. ASSUME NEW inst, SizeInst(inst) PROVE Inv'
  BY <1>2, SizeInv
<1>3. CASE Allocate
  BY <1>3, AllocateInv
<1>4. CASE AllocateFails
  BY <1>4, OtherSteps DEF AllocateFails
<1>5. CASE EmitInst
  BY <1>5, EmitInv
<1>6. CASE FinishFunction
  BY <1>6, OtherSteps DEF FinishFunction
<1>7. CASE StartLink
  BY <1>7, OtherSteps DEF StartLink
<1>8. CASE LinkSite
  BY <1>8, OtherSteps DEF LinkSite
<1>9. CASE FinishLink
  BY <1>9, OtherSteps DEF FinishLink
<1>10. CASE UNCHANGED vars
  <2>1. /\ ir' = ir /\ trace' = trace /\ ctx' = ctx /\ phase' = phase /\ size' = size
        /\ pos' = pos /\ predicted_size' = predicted_size /\ func' = func
    BY <1>10 DEF vars, encoding
  <2> QED BY <2>1 DEF Inv, IsSeq, TraceOfIr
<1> QED BY <1>1, <1>2, <1>3, <1>4, <1>5, <1>6, <1>7, <1>8, <1>9, <1>10 DEF Next

\* The inductive invariant holds throughout.
LEMMA Invariance == Spec => []Inv
BY InitInv, NextInv, PTL DEF Spec

\* At every instruction of pass 2, of every function of every program, the JIT
\* context and the byte count are those pass 1 had there: reset_state leaves
\* nothing behind, and neither labels, patches, call sites nor linking reach
\* the allocator, the pending arguments or the size.
THEOREM PassesAlwaysAgree == Spec => []PassesAgree
<1>1. Inv => PassesAgree
  BY DEF Inv, PassesAgree, Snapshot
<1> QED BY <1>1, Invariance, PTL

\* Hence the "size mismatch" abort of jit_compile_function is unreachable: when
\* pass 2 has emitted every instruction it has written what pass 1 predicted.
SizesMatch == phase = "pass2" /\ pos > Len(ir) => size = predicted_size

\* No function reaches the comparison of the sizes with different sizes.
THEOREM NeverMismatched == Spec => []SizesMatch
<1>1. Inv => SizesMatch
  <2> SUFFICES ASSUME Inv, phase = "pass2", pos > Len(ir) PROVE size = predicted_size
    BY DEF SizesMatch
  <2>1. /\ IsSeq(ir) /\ pos \in 1 .. Len(ir) + 1 /\ trace[pos] = Snapshot(ctx, size)
        /\ predicted_size = trace[Len(ir) + 1].size
    BY DEF Inv
  <2>2. Len(ir) \in Nat
    BY <2>1, AppendSeq, ZenonT(30)
  <2>3. pos = Len(ir) + 1
    BY <2>1, <2>2
  <2> QED BY <2>1, <2>3 DEF Snapshot
<1> QED BY <1>1, Invariance, PTL

-----------------------------------------------------------------------------
(* Jumps and calls *)

\* Jumps and calls leave a field of the code open when they are emitted.
HasField(k) == ir[k].opcode \in Jumps \cup {"CALL"}

\* The offset of the displacement or of the immediate in the function, as pass 1
\* knows it.
Field(k) ==
    IF ir[k].opcode \in Jumps THEN trace[k + 1].size - 4
    ELSE trace[k].size + ImmediateAt(InstCode(trace[k], ir[k]))

\* An instruction pass 1 has seen: a label within the limit, a field inside it.
InstOk(k) ==
    /\ ir[k].opcode \in Ops
    /\ ir[k].opcode \in Jumps \cup {"LABEL"} => ir[k].label \in 0 .. MAX_LABELS - 1
    /\ HasField(k) => Field(k) \in trace[k].size .. trace[k + 1].size - 1

IsLabel(k) == ir[k].opcode = "LABEL"

\* The function at hand: instructions take up bytes one after the other, a field
\* lies inside its instruction, a label is placed once.
CodeInv ==
    /\ \A k \in 1 .. Len(ir) + 1 : trace[k].size \in Nat /\ IsSeq(trace[k].pending)
    /\ \A j, k \in 1 .. Len(ir) + 1 : j <= k => trace[j].size <= trace[k].size
    /\ \A k \in 1 .. Len(ir) : InstOk(k)
    /\ \A j, k \in 1 .. Len(ir) : IsLabel(j) /\ IsLabel(k) /\ ir[j].label = ir[k].label => j = k

\* Nothing but the IR and the trace counts for CodeInv and the fields.
LEMMA CodeKept ==
    ASSUME CodeInv, ir' = ir, trace' = trace
    PROVE  CodeInv' /\ \A k : Field(k)' = Field(k) /\ HasField(k)' = HasField(k)
<1>1. \A k : Field(k)' = Field(k) /\ HasField(k)' = HasField(k) /\ IsLabel(k)' = IsLabel(k)
  BY DEF Field, HasField, IsLabel
<1>2. \A k : InstOk(k)' = InstOk(k)
  BY <1>1 DEF InstOk
<1> QED BY <1>1, <1>2 DEF CodeInv

\* The fields of a function follow each other, below its size.
LEMMA FieldsApart ==
    ASSUME CodeInv, IsSeq(ir), NEW j \in 1 .. Len(ir), HasField(j)
    PROVE  /\ Field(j) \in Nat
           /\ Field(j) < trace[Len(ir) + 1].size
           /\ \A k \in 1 .. Len(ir) : HasField(k) /\ j < k => Field(j) < Field(k)
<1>1. Len(ir) \in Nat
  BY SeqLen
<1>2. ASSUME NEW k \in 1 .. Len(ir), HasField(k)
      PROVE  /\ Field(k) \in trace[k].size .. trace[k + 1].size - 1
             /\ trace[k].size \in Nat /\ trace[k + 1].size \in Nat /\ trace[Len(ir) + 1].size \in Nat
             /\ trace[k + 1].size <= trace[Len(ir) + 1].size
  <2>1. k \in 1 .. Len(ir) + 1 /\ k + 1 \in 1 .. Len(ir) + 1 /\ Len(ir) + 1 \in 1 .. Len(ir) + 1 /\ k + 1 <= Len(ir) + 1
    BY <1>1
  <2>2. InstOk(k)
    BY DEF CodeInv
  <2>3. Field(k) \in trace[k].size .. trace[k + 1].size - 1
    BY <2>2, <1>2 DEF InstOk
  <2> QED BY <2>1, <2>3 DEF CodeInv
<1>3. Field(j) \in Nat /\ Field(j) < trace[Len(ir) + 1].size
  BY <1>2
<1>4. ASSUME NEW k \in 1 .. Len(ir), HasField(k), j < k PROVE Field(j) < Field(k)
  <2>1. j + 1 \in 1 .. Len(ir) + 1 /\ k \in 1 .. Len(ir) + 1 /\ j + 1 <= k
    BY <1>1, <1>4
  <2>2. trace[j + 1].size <= trace[k].size
    BY <2>1 DEF CodeInv
  <2>3. Field(j) \in trace[j].size .. trace[j + 1].size - 1 /\ Field(k) \in trace[k].size .. trace[k + 1].size - 1
        /\ trace[j].size \in Nat /\ trace[j + 1].size \in Nat /\ trace[k].size \in Nat /\ trace[k + 1].size \in Nat
    BY <1>2, <1>4
  <2>4. PICK a, b, c, d, f, g : /\ a = trace[j].size /\ b = trace[j + 1].size /\ c = trace[k].size
                                /\ d = trace[k + 1].size /\ f = Field(j) /\ g = Field(k)
    OBVIOUS
  <2>5. a \in Nat /\ b \in Nat /\ c \in Nat /\ d \in Nat /\ f \in a .. b - 1 /\ g \in c .. d - 1 /\ b <= c
    BY <2>2, <2>3, <2>4
  <2>6. f < g
    BY ONLY <2>5
  <2> QED BY <2>4, <2>6
<1> QED BY <1>3, <1>4

\* What may come next in pass 1: a known opcode, a label of the function, and a
\* label is not placed twice.
LEMMA Candidate ==
    ASSUME NEW inst \in Candidates
    PROVE  /\ inst.opcode \in Ops
           /\ inst.opcode \in Jumps \cup {"LABEL"} => inst.label \in load.labels
           /\ inst.opcode = "LABEL" => ~Placed(inst.label)
<1>1. \A S : \A o \in WithDest(S) \cup NotInArgs(S) : o \in S
  BY DEF WithDest, NotInArgs
<1>2. CASE \E o \in WithDest({"CONST"}) \cap NotInArgs({"CONST"}) :
             inst = [opcode |-> o, dest |-> NextVreg, imm |-> 1]
  BY <1>1, <1>2 DEF Ops, Jumps
<1>3. CASE \E o \in WithDest({"ADD"}) \cap NotInArgs({"ADD"}), v \in Defined, w \in Defined :
             inst = [opcode |-> o, dest |-> NextVreg, src_1 |-> v, src_2 |-> w]
  BY <1>1, <1>3 DEF Ops, Jumps
<1>4. CASE \E o \in WithDest({"ARG"}), v \in Defined : inst = [opcode |-> o, src_1 |-> v]
  BY <1>1, <1>4 DEF Ops, Jumps
<1>5. CASE \E o \in WithDest({"CALL"}), f \in load.callees :
             inst = [opcode |-> o, dest |-> NextVreg, func |-> f]
  BY <1>1, <1>5 DEF Ops, Jumps
<1>6. CASE \E o \in NotInArgs({"RET"}), v \in Defined : inst = [opcode |-> o, src_1 |-> v]
  BY <1>1, <1>6 DEF Ops, Jumps
<1>7. CASE \E o \in NotInArgs({"JMP"}), l \in load.labels : inst = [opcode |-> o, label |-> l]
  BY <1>1, <1>7 DEF Ops, Jumps
<1>8. CASE \E o \in NotInArgs({"JZ"}), v \in Defined, l \in load.labels :
             inst = [opcode |-> o, src_1 |-> v, label |-> l]
  BY <1>1, <1>8 DEF Ops, Jumps
<1>9. CASE \E o \in NotInArgs({"LABEL"}), l \in {m \in load.labels : ~Placed(m)} :
             inst = [opcode |-> o, label |-> l]
  BY <1>1, <1>9 DEF Ops, Jumps
<1> HIDE DEF WithDest, NotInArgs, NextVreg, Defined
<1> QED BY <1>2, <1>3, <1>4, <1>5, <1>6, <1>7, <1>8, <1>9 DEF Candidates

\* SizeInst: the next instruction starts where the last one ended.
LEMMA CodeGrows ==
    ASSUME Inv, CodeInv, \A l \in load.labels : l \in 0 .. MAX_LABELS - 1,
           NEW inst \in Candidates, SizeInst(inst)
    PROVE  CodeInv'
<1> DEFINE e == Encode(ctx, size, inst)
<1>n. PICK n : n = Len(ir)
  OBVIOUS
<1>1. /\ phase = "pass1" /\ ir' = Append(ir, inst) /\ trace' = Append(trace, e)
  BY DEF SizeInst
<1>2. /\ IsSeq(ir) /\ IsSeq(trace) /\ Len(trace) = n + 1
      /\ trace[n + 1] = Snapshot(ctx, size)
  BY <1>n, <1>1 DEF Inv, TraceOfIr
<1>3. n \in Nat
  BY <1>n, <1>2, SeqLen
<1>4. /\ Len(ir') = n + 1 /\ ir'[n + 1] = inst /\ \A k \in 1 .. n : ir'[k] = ir[k]
  <2>1. /\ Len(Append(ir, inst)) = n + 1 /\ Append(ir, inst)[n + 1] = inst
        /\ \A k \in 1 .. n : Append(ir, inst)[k] = ir[k]
    BY <1>n, <1>2, AppendSeq
  <2> QED BY <2>1, <1>1, Zenon
<1>5. /\ trace'[n + 2] = e /\ \A k \in 1 .. n + 1 : trace'[k] = trace[k]
  <2>1. /\ Append(trace, e)[Len(trace) + 1] = e
        /\ \A k \in 1 .. Len(trace) : Append(trace, e)[k] = trace[k]
    BY <1>2, AppendSeq, ZenonT(30)
  <2>2. Len(trace) + 1 = n + 2 /\ Len(trace) = n + 1
    BY <1>2, <1>3
  <2> HIDE DEF e
  <2> QED BY <2>1, <2>2, <1>1
<1>6. size \in Nat /\ IsSeq(ctx.pending) /\ trace[n + 1].size = size
  <2>1. trace[n + 1].size = size /\ trace[n + 1].pending = ctx.pending
    BY <1>2 DEF Snapshot
  <2>2. n + 1 \in 1 .. n + 1
    BY <1>3
  <2> QED BY <1>n, <2>1, <2>2 DEF CodeInv
<1>7. /\ inst.opcode \in Ops
      /\ inst.opcode \in Jumps \cup {"LABEL"} => inst.label \in load.labels
      /\ inst.opcode = "LABEL" => ~Placed(inst.label)
  BY Candidate
<1>8. /\ e.size \in Nat /\ size <= e.size /\ IsSeq(e.pending)
      /\ inst.opcode \in Jumps => size <= e.size - 4
      /\ inst.opcode = "CALL" => size + ImmediateAt(InstCode(ctx, inst)) \in size .. e.size - 1
  BY <1>6, <1>7, InstructionSize
<1>9. InstCode(trace[n + 1], inst) = InstCode(ctx, inst)
  BY <1>2 DEF Snapshot, InstCode, Located
<1> HIDE DEF e
<1>10. \A k \in 1 .. n + 2 : k \in 1 .. n + 1 \/ k = n + 2
  BY <1>3
<1>11. \A k \in 1 .. n + 1 : k \in 1 .. n \/ k = n + 1
  BY <1>3
<1>12. \A k \in 1 .. n + 2 : trace'[k].size \in Nat /\ IsSeq(trace'[k].pending)
  BY <1>n, <1>5, <1>8, <1>10 DEF CodeInv
<1>13. ASSUME NEW j \in 1 .. n + 2, NEW k \in 1 .. n + 2, j <= k
       PROVE  trace'[j].size <= trace'[k].size
  <2>1. CASE k \in 1 .. n + 1
    <3>1. j \in 1 .. n + 1
      BY <2>1, <1>3, <1>13
    <3>2. trace[j].size <= trace[k].size
      BY <1>n, <3>1, <2>1, <1>13 DEF CodeInv
    <3> QED BY <3>1, <3>2, <2>1, <1>5
  <2>2. CASE k = n + 2 /\ j \in 1 .. n + 1
    <3>1. n + 1 \in 1 .. n + 1 /\ j <= n + 1
      BY <2>2, <1>3
    <3>2. trace[j].size <= trace[n + 1].size /\ trace[j].size \in Nat
      BY <1>n, <3>1, <2>2 DEF CodeInv
    <3>3. trace'[j] = trace[j] /\ trace'[k] = e
      BY <2>2, <1>5
    <3>4. trace[j].size <= e.size
      BY <3>2, <1>6, <1>8
    <3> QED BY <3>3, <3>4
  <2>3. CASE k = n + 2 /\ j = n + 2
    <3>1. trace'[j] = e /\ trace'[k] = e
      BY <2>3, <1>5
    <3>2. e.size <= e.size
      BY <1>8
    <3> QED BY <3>1, <3>2
  <2> QED BY <2>1, <2>2, <2>3, <1>10
<1>14. ASSUME NEW k \in 1 .. n PROVE InstOk(k)'
  <2>1. k \in 1 .. n + 1 /\ k + 1 \in 1 .. n + 1
    BY <1>3
  <2>2. ir'[k] = ir[k] /\ trace'[k] = trace[k] /\ trace'[k + 1] = trace[k + 1]
    BY <2>1, <1>4, <1>5
  <2>3. InstOk(k)
    BY <1>n DEF CodeInv
  <2> QED BY <2>2, <2>3 DEF InstOk, HasField, Field
<1>15. InstOk(n + 1)'
  <2>1. n + 1 \in 1 .. n + 1 /\ n + 1 + 1 = n + 2
    BY <1>3
  <2>2. ir'[n + 1] = inst /\ trace'[n + 1] = trace[n + 1] /\ trace'[n + 1 + 1] = e
    BY <2>1, <1>4, <1>5
  <2>3. trace'[n + 1].size = size /\ InstCode(trace'[n + 1], ir'[n + 1]) = InstCode(ctx, inst)
    BY <2>2, <1>6, <1>9
  <2>4. HasField(n + 1)' => Field(n + 1)' \in trace'[n + 1].size .. trace'[n + 1 + 1].size - 1
    <3>1. CASE inst.opcode \in Jumps
      <4>1. Field(n + 1)' = e.size - 4
        BY <3>1, <2>2 DEF Field
      <4>2. e.size - 4 \in size .. e.size - 1
        BY <3>1, <1>6, <1>8
      <4> QED BY <4>1, <4>2, <2>2, <2>3
    <3>2. CASE inst.opcode \notin Jumps /\ inst.opcode = "CALL"
      <4>1. Field(n + 1)' = size + ImmediateAt(InstCode(ctx, inst))
        BY <3>2, <2>2, <2>3 DEF Field
      <4>2. size + ImmediateAt(InstCode(ctx, inst)) \in size .. e.size - 1
        BY <3>2, <1>8, Zenon
      <4> QED BY <4>1, <4>2, <2>2, <2>3
    <3>3. CASE inst.opcode \notin Jumps /\ inst.opcode # "CALL"
      BY <3>3, <2>2 DEF HasField
    <3> QED BY <3>1, <3>2, <3>3
  <2>5. ir'[n + 1].opcode \in Jumps \cup {"LABEL"} => ir'[n + 1].label \in 0 .. MAX_LABELS - 1
    BY <2>2, <1>7, Zenon
  <2> QED BY <2>2, <2>4, <2>5, <1>7, Zenon DEF InstOk
<1>16. ASSUME NEW j \in 1 .. n + 1, NEW k \in 1 .. n + 1,
              IsLabel(j)', IsLabel(k)', ir'[j].label = ir'[k].label
       PROVE  j = k
  <2>1. ASSUME NEW i \in 1 .. n, IsLabel(i)', IsLabel(n + 1)' PROVE ir'[i].label # ir'[n + 1].label
    <3>1. ir'[i] = ir[i] /\ ir'[n + 1] = inst
      BY <1>4
    <3>2. inst.opcode = "LABEL" /\ ir[i].opcode = "LABEL"
      BY <3>1, <2>1 DEF IsLabel
    <3>3. ~Placed(inst.label)
      BY <3>2, <1>7
    <3>4. ir[i].label # inst.label
      BY <1>n, <3>2, <3>3 DEF Placed
    <3> QED BY <3>1, <3>4
  <2>2. CASE j \in 1 .. n /\ k \in 1 .. n
    <3>1. ir'[j] = ir[j] /\ ir'[k] = ir[k]
      BY <2>2, <1>4
    <3>2. IsLabel(j) /\ IsLabel(k) /\ ir[j].label = ir[k].label
      BY <3>1, <1>16 DEF IsLabel
    <3> QED BY <1>n, <3>2, <2>2 DEF CodeInv
  <2> QED BY <2>1, <2>2, <1>11, <1>16, Zenon
<1>17. Len(ir') + 1 = n + 2
  BY <1>n, <1>3, <1>4
<1>18. \A k \in 1 .. n + 1 : InstOk(k)'
  BY <1>11, <1>14, <1>15, Zenon
<1> QED BY <1>n, <1>4, <1>12, <1>13, <1>16, <1>17, <1>18, Zenon DEF CodeInv

\* The instructions pass 2 has emitted.
Before(S) == {k \in 1 .. pos - 1 : ir[k].opcode \in S}

\* The address of the field of instruction k.
Address(k) == base + Field(k)

\* The fields and the calls pass 2 has emitted, and the fields of finished code.
NewFields == {Address(k) : k \in Before(Jumps \cup {"CALL"})}

NewCalls == {[loc |-> Address(k), func |-> ir[k].func] : k \in Before({"CALL"})}

OldFields == {j.loc : j \in jumps} \cup {c.loc : c \in calls}

\* Pass 2: the labels passed are the known ones, every jump emitted holds the
\* displacement to its label or waits among the patches, and what waits there
\* waits for a label to come.
PassInv ==
    /\ base \in Nat
    /\ used = base + predicted_size
    /\ \A k \in 1 .. Len(ir) : ir[k].opcode \in Jumps =>
          \E i \in 1 .. Len(ir) : IsLabel(i) /\ ir[i].label = ir[k].label
    /\ DOMAIN ctx.labels = {ir[i].label : i \in Before({"LABEL"})}
    /\ \A i \in Before({"LABEL"}) : ctx.labels[ir[i].label] = base + trace[i].size
    /\ \A k \in Before(Jumps) :
          \/ /\ ir[k].label \in DOMAIN ctx.labels
             /\ memory[Address(k)] = Displacement(Address(k), ctx.labels[ir[k].label])
          \/ [label |-> ir[k].label, loc |-> Address(k)] \in ctx.patches
    /\ \A p \in ctx.patches :
          /\ p.label \notin DOMAIN ctx.labels
          /\ \E k \in Before(Jumps) : p.label = ir[k].label /\ p.loc = Address(k)

\* Code memory: the fields of finished functions below bound, and new ones.
MemOk(new, bound) ==
    /\ used \in Nat
    /\ DOMAIN memory = OldFields \cup new
    /\ \A x \in OldFields : x \in Int /\ x < bound

\* Call site i is that of call c.
IsSite(i, c) == c.loc = call_sites[i].patch_location /\ c.func = call_sites[i].target_name

\* The call sites are the first of the calls, in the order of their addresses.
SitesOk(all) ==
    /\ IsSeq(call_sites)
    /\ \A i \in 1 .. Len(call_sites) :
          call_sites[i].patch_location \in Int /\ \E c \in all : IsSite(i, c)
    /\ \A i, j \in 1 .. Len(call_sites) :
          i < j => call_sites[i].patch_location < call_sites[j].patch_location
    /\ \A c \in all :
          \/ \E i \in 1 .. Len(call_sites) : IsSite(i, c)
          \/ /\ Len(call_sites) >= MAX_CALL_SITES
             /\ \A i \in 1 .. Len(call_sites) : call_sites[i].patch_location < c.loc

\* The immediate of call site i is the address of a function of that name.
LinkedTo(i) == \E j \in DOMAIN registry :
    /\ registry[j].name = call_sites[i].target_name
    /\ memory[call_sites[i].patch_location] = registry[j].code_addr

\* What the fields of finished functions hold.
Finished ==
    /\ JumpsLand
    /\ \A j \in jumps, c \in calls : j.loc # c.loc
    /\ IsFiniteSet(calls)

\* The inductive invariant of jumps, calls and code memory.
LinkInv ==
    /\ phase \in Phases \ {"aborted"}
    /\ load \in Loads
    /\ Finished
    /\ phase \in {"pass1", "pass2"} => CodeInv
    /\ phase = "pass1" => \A l \in load.labels : l \in 0 .. MAX_LABELS - 1
    /\ phase = "pass2" => PassInv /\ MemOk(NewFields, base) /\ SitesOk(calls \cup NewCalls)
    /\ phase \in {"idle", "pass1", "linking", "linked"} => MemOk({}, used) /\ SitesOk(calls)
    /\ phase \in {"idle", "pass1", "pass2"} => site = 1
    /\ phase = "linking" => /\ site \in 1 .. Len(call_sites) + 1
                            /\ success => \A i \in 1 .. site - 1 : LinkedTo(i)
    /\ phase = "linked" => \A i \in 1 .. Len(call_sites) : LinkedTo(i)

\* Nothing is compiled in the initial state.
LEMMA InitLink == Init => LinkInv
<1> SUFFICES ASSUME Init PROVE LinkInv
  OBVIOUS
<1>1. /\ phase = "idle" /\ load \in Loads /\ jumps = {} /\ calls = {} /\ memory = <<>> /\ used = STACK_ALIGNMENT
      /\ call_sites = <<>> /\ site = 1
  BY DEF Init
<1>2. IsSeq(call_sites) /\ Len(call_sites) = 0
  <2>1. IsSeq(call_sites)
    BY <1>1, NoElements, ZenonT(30)
  <2> QED BY <2>1, <1>1
<1>3. MemOk({}, used)
  <2>1. OldFields = {}
    BY <1>1 DEF OldFields
  <2>2. DOMAIN memory = {}
    BY <1>1
  <2> QED BY <2>1, <2>2, <1>1 DEF MemOk, STACK_ALIGNMENT
<1>4. SitesOk(calls)
  BY <1>1, <1>2 DEF SitesOk
<1>5. Finished
  BY <1>1, FS_EmptySet DEF Finished, JumpsLand
<1> QED BY <1>1, <1>3, <1>4, <1>5 DEF LinkInv, Phases

\* A step that leaves the finished functions, memory and call sites alone.
LEMMA LinkKept ==
    ASSUME jumps' = jumps, calls' = calls, memory' = memory, used' = used, call_sites' = call_sites
    PROVE  /\ Finished => Finished'
           /\ MemOk({}, used) => MemOk({}, used)'
           /\ SitesOk(calls) => SitesOk(calls)'
           /\ OldFields' = OldFields
<1>1. Finished => Finished'
  BY DEF Finished, JumpsLand
<1>2. OldFields' = OldFields
  BY DEF OldFields
<1>3. MemOk({}, used) => MemOk({}, used)'
  BY <1>2 DEF MemOk
<1>4. SitesOk(calls) => SitesOk(calls)'
  BY DEF SitesOk, IsSite, IsSeq
<1> QED BY <1>1, <1>2, <1>3, <1>4

\* StartFunction: no instruction yet, and every label of the function is within
\* the limit.
LEMMA StartLinkInv ==
    ASSUME Inv, LinkInv, NEW f \in Functions, StartFunction(f)
    PROVE  LinkInv'
<1>1. /\ phase = "idle" /\ load' = load /\ jumps' = jumps /\ calls' = calls /\ memory' = memory
      /\ used' = used /\ call_sites' = call_sites /\ site' = site /\ ir' = <<>>
  BY DEF StartFunction, linking, history
<1>2. Finished' /\ MemOk({}, used)' /\ SitesOk(calls)' /\ load' \in Loads /\ site' = 1
  BY <1>1, LinkKept DEF LinkInv
<1>3. CASE f.label_count >= MAX_LABELS
  <2>1. phase' = "failed"
    BY <1>3 DEF StartFunction
  <2> QED BY <2>1, <1>2 DEF LinkInv, Phases
<1>4. CASE ~(f.label_count >= MAX_LABELS)
  <2> DEFINE p == Prologue(reset_state(ctx, f), f)
  <2>1. phase' = "pass1" /\ trace' = <<p>>
    BY <1>4 DEF StartFunction
  <2>2. f.params \in Nat /\ f.label_count \in {Cardinality(load.labels), MAX_LABELS}
    <3>1. f.params \in load.params /\ f.label_count \in {Cardinality(load.labels), MAX_LABELS}
      BY DEF Functions
    <3>2. load.params \subseteq Nat
      BY LoadsAssumption DEF LinkInv
    <3> QED BY <3>1, <3>2
  <2>3. p.size \in Nat /\ IsSeq(p.pending)
    BY <2>2, PrologueSize DEF Inv
  <2> HIDE DEF p
  <2>4. Len(ir') = 0 /\ trace'[1] = p
    BY <1>1, <2>1
  <2>5. CodeInv'
    <3>1. \A k \in 1 .. Len(ir') + 1 : k = 1
      BY <2>4
    <3>2. \A k \in 1 .. Len(ir') : FALSE
      BY <2>4
    <3>3. \A k \in 1 .. Len(ir') + 1 : trace'[k].size \in Nat /\ IsSeq(trace'[k].pending)
      BY <3>1, <2>3, <2>4
    <3>4. \A j, k \in 1 .. Len(ir') + 1 : j <= k => trace'[j].size <= trace'[k].size
      BY <3>1, <2>3, <2>4
    <3> QED BY <3>2, <3>3, <3>4 DEF CodeInv
  <2>6. \A l \in load'.labels : l \in 0 .. MAX_LABELS - 1
    <3>1. IsFiniteSet(load.labels) /\ load.labels = 0 .. Cardinality(load.labels) - 1
      BY LoadsAssumption DEF LinkInv
    <3>2. Cardinality(load.labels) \in Nat
      BY <3>1, FS_CardinalityType
    <3>3. MAX_LABELS \in Nat
      BY LimitsAssumption
    <3>4. Cardinality(load.labels) < MAX_LABELS
      BY <1>4, <2>2, <3>2, <3>3
    <3> QED BY <1>1, <3>1, <3>2, <3>3, <3>4
  <2> QED BY <2>1, <2>5, <2>6, <1>2 DEF LinkInv, Phases
<1> QED BY <1>3, <1>4

\* SizeInst: pass 1 writes no code.
LEMMA SizeLinkInv ==
    ASSUME Inv, LinkInv, NEW inst \in Candidates, SizeInst(inst)
    PROVE  LinkInv'
<1>1. /\ phase = "pass1" /\ phase' = "pass1" /\ load' = load /\ jumps' = jumps /\ calls' = calls
      /\ memory' = memory /\ used' = used /\ call_sites' = call_sites /\ site' = site
  BY DEF SizeInst, linking, history
<1>2. Finished' /\ MemOk({}, used)' /\ SitesOk(calls)' /\ load' \in Loads /\ site' = 1
  BY <1>1, LinkKept DEF LinkInv
<1>3. CodeInv'
  BY <1>1, CodeGrows DEF LinkInv
<1>4. \A l \in load'.labels : l \in 0 .. MAX_LABELS - 1
  BY <1>1 DEF LinkInv
<1> QED BY <1>1, <1>2, <1>3, <1>4 DEF LinkInv, Phases

\* The buffer starts behind what is in use.
LEMMA Aligned == ASSUME NEW a \in Nat PROVE AlignForward(a) \in Nat /\ AlignForward(a) >= a
BY DEF AlignForward, STACK_ALIGNMENT

\* Allocate: nothing is emitted yet, and every jump has a label to go to.
LEMMA AllocateLinkInv ==
    ASSUME Inv, LinkInv, Allocate
    PROVE  LinkInv'
<1> DEFINE c == reset_state(ctx, func)
           p == Prologue(c, func)
<1>1. /\ phase = "pass1" /\ phase' = "pass2" /\ load' = load /\ jumps' = jumps /\ calls' = calls
      /\ memory' = memory /\ call_sites' = call_sites /\ site' = site /\ ir' = ir /\ trace' = trace
      /\ predicted_size' = size /\ base' = AlignForward(used) /\ used' = base' + size /\ pos' = 1
      /\ ctx' = Encoded(c, p)
      /\ \A l \in Targets : Placed(l)
  BY DEF Allocate, linking, history
<1>2. /\ Finished /\ MemOk({}, used) /\ SitesOk(calls) /\ CodeInv /\ load \in Loads /\ site = 1
      /\ IsSeq(ir) /\ trace[Len(ir) + 1] = Snapshot(ctx, size) /\ DOMAIN ctx = Fields
  BY <1>1 DEF LinkInv, Inv
<1>3. used \in Nat /\ base' \in Nat /\ base' >= used
  <2>1. used \in Nat
    BY <1>2 DEF MemOk
  <2> QED BY <2>1, <1>1, Aligned
<1>4. size \in Nat
  <2>1. Len(ir) + 1 \in 1 .. Len(ir) + 1
    BY <1>2, SeqLen
  <2>2. trace[Len(ir) + 1].size \in Nat
    BY <2>1, <1>2 DEF CodeInv
  <2> QED BY <2>2, <1>2 DEF Snapshot
<1>5. \A S : Before(S)' = {}
  BY <1>1 DEF Before
<1>6. NewFields' = {} /\ NewCalls' = {}
  BY <1>5 DEF NewFields, NewCalls
<1>7. Finished' /\ OldFields' = OldFields
  BY <1>1, <1>2 DEF Finished, JumpsLand, OldFields
<1>8. MemOk(NewFields, base)'
  <2>1. used' \in Nat
    BY <1>1, <1>3, <1>4
  <2>2. \A x \in OldFields : x \in Int /\ x < used
    BY <1>2 DEF MemOk
  <2>3. \A x \in OldFields' : x \in Int /\ x < base'
    BY <2>2, <1>3, <1>7
  <2>4. DOMAIN memory' = OldFields' \cup NewFields'
    BY <1>1, <1>2, <1>6, <1>7 DEF MemOk
  <2> QED BY <2>1, <2>3, <2>4 DEF MemOk
<1>9. SitesOk(calls \cup NewCalls)'
  <2>1. calls' \cup NewCalls' = calls
    BY <1>1, <1>6
  <2> QED BY <2>1, <1>1, <1>2 DEF SitesOk, IsSite, IsSeq
<1>10. ctx'.labels = <<>> /\ ctx'.patches = {}
  BY <1>1, <1>2 DEF reset_state, Encoded, Fields
<1>11. PassInv'
  <2>1. \A k \in 1 .. Len(ir) : ir[k].opcode \in Jumps =>
          \E i \in 1 .. Len(ir) : IsLabel(i) /\ ir[i].label = ir[k].label
    BY <1>1 DEF Targets, Placed, IsLabel
  <2>2. \A k \in 1 .. Len(ir') : ir'[k].opcode \in Jumps =>
          \E i \in 1 .. Len(ir') : IsLabel(i)' /\ ir'[i].label = ir'[k].label
    BY <2>1, <1>1 DEF IsLabel
  <2>3. DOMAIN ctx'.labels = {}
    BY <1>10
  <2> QED BY <2>2, <2>3, <1>1, <1>3, <1>5, <1>10 DEF PassInv
<1>12. CodeInv'
  BY <1>1, <1>2, CodeKept
<1> QED BY <1>1, <1>2, <1>7, <1>8, <1>9, <1>11, <1>12 DEF LinkInv, Phases

\* Addresses of fields are apart, and inside the buffer.
LEMMA Addresses ==
    ASSUME CodeInv, IsSeq(ir), base \in Nat, NEW j \in 1 .. Len(ir), HasField(j)
    PROVE  /\ Address(j) \in Nat /\ Address(j) >= base
           /\ Address(j) < base + trace[Len(ir) + 1].size
           /\ \A k \in 1 .. Len(ir) : HasField(k) =>
                 /\ j < k => Address(j) < Address(k)
                 /\ j # k => Address(j) # Address(k)
<1>1. /\ Field(j) \in Nat /\ Field(j) < trace[Len(ir) + 1].size
      /\ \A k \in 1 .. Len(ir) : HasField(k) /\ j < k => Field(j) < Field(k)
  BY FieldsApart
<1>2. trace[Len(ir) + 1].size \in Nat
  <2>1. Len(ir) + 1 \in 1 .. Len(ir) + 1
    BY SeqLen
  <2> QED BY <2>1 DEF CodeInv
<1>3. Address(j) \in Nat /\ Address(j) >= base /\ Address(j) < base + trace[Len(ir) + 1].size
  BY <1>1, <1>2 DEF Address
<1>4. ASSUME NEW k \in 1 .. Len(ir), HasField(k)
      PROVE  (j < k => Address(j) < Address(k)) /\ (j # k => Address(j) # Address(k))
  <2>1. Field(k) \in Nat /\ (k < j => Field(k) < Field(j))
    BY <1>4, FieldsApart
  <2>2. j < k => Field(j) < Field(k)
    BY <1>1, <1>4
  <2>3. j < k \/ k < j \/ j = k
    BY SeqLen
  <2> QED BY <2>1, <2>2, <2>3, <1>1 DEF Address
<1> QED BY <1>3, <1>4

\* EmitInst, whatever the instruction: the buffer is not overrun, and the context
\* is that of pass 1.
LEMMA EmitCommon ==
    ASSUME Inv, LinkInv, EmitInst
    PROVE  /\ phase = "pass2" /\ phase' = "pass2"
           /\ IsSeq(ir) /\ Len(ir) \in Nat /\ pos \in 1 .. Len(ir) /\ pos' = pos + 1
           /\ load' = load /\ ir' = ir /\ trace' = trace /\ base' = base /\ used' = used
           /\ predicted_size' = predicted_size /\ jumps' = jumps /\ calls' = calls
           /\ site' = site
           /\ CodeInv /\ CodeInv' /\ PassInv /\ MemOk(NewFields, base)
           /\ SitesOk(calls \cup NewCalls) /\ Finished /\ load \in Loads /\ site = 1
           /\ \A k : Field(k)' = Field(k) /\ HasField(k)' = HasField(k)
           /\ trace[pos] = Snapshot(ctx, size)
           /\ Encode(ctx, size, ir[pos]) = trace[pos + 1]
           /\ DOMAIN ctx = Fields
<1> DEFINE e == Encode(ctx, size, ir[pos])
<1>1. /\ phase = "pass2" /\ pos <= Len(ir) /\ pos' = pos + 1
      /\ phase' = IF Overrun(e.size) THEN "aborted" ELSE phase
      /\ load' = load /\ ir' = ir /\ trace' = trace /\ base' = base /\ used' = used
      /\ predicted_size' = predicted_size /\ jumps' = jumps /\ calls' = calls
      /\ site' = site
  BY DEF EmitInst, linking, history
<1>2. /\ IsSeq(ir) /\ pos \in 1 .. Len(ir) + 1 /\ trace[pos] = Snapshot(ctx, size)
      /\ predicted_size = trace[Len(ir) + 1].size /\ DOMAIN ctx = Fields /\ TraceOfIr
  BY <1>1 DEF Inv
<1>3. /\ CodeInv /\ PassInv /\ MemOk(NewFields, base)
      /\ SitesOk(calls \cup NewCalls) /\ Finished /\ load \in Loads /\ site = 1
  BY <1>1 DEF LinkInv
<1>4. Len(ir) \in Nat /\ pos \in 1 .. Len(ir)
  <2>1. Len(ir) \in Nat
    BY <1>2, SeqLen
  <2> QED BY <2>1, <1>1, <1>2
<1>5. CodeInv' /\ \A k : Field(k)' = Field(k) /\ HasField(k)' = HasField(k)
  BY <1>1, <1>3, CodeKept
<1>6. e = trace[pos + 1]
  <2>1. Encode(Snapshot(ctx, size), Snapshot(ctx, size).size, ir[pos]) = e
    BY EncodeSnapshot, ZenonT(30)
  <2>2. trace[pos + 1] = Encode(trace[pos], trace[pos].size, ir[pos])
    BY <1>2, <1>4 DEF TraceOfIr
  <2> HIDE DEF e
  <2> QED BY <2>1, <2>2, <1>2
<1> HIDE DEF e
<1>7. ~Overrun(e.size)
  <2>1. pos + 1 \in 1 .. Len(ir) + 1 /\ Len(ir) + 1 \in 1 .. Len(ir) + 1 /\ pos + 1 <= Len(ir) + 1
    BY <1>4
  <2>2. trace[pos + 1].size <= trace[Len(ir) + 1].size /\ trace[pos + 1].size \in Nat /\ trace[Len(ir) + 1].size \in Nat
    BY <2>1, <1>3 DEF CodeInv
  <2> QED BY <2>2, <1>2, <1>6 DEF Overrun
<1>8. phase' = "pass2"
  BY <1>1, <1>7
<1> QED BY <1>1, <1>2, <1>3, <1>4, <1>5, <1>6, <1>8 DEF e

\* What EmitInst does with labels, patches, fields and call sites.
LEMMA EmitKinds ==
    ASSUME Inv, LinkInv, EmitInst
    PROVE  \/ /\ ir[pos].opcode \in Jumps
              /\ ctx'.labels = ctx.labels
              /\ call_sites' = call_sites
              /\ \/ /\ ir[pos].label \in DOMAIN ctx.labels
                    /\ ctx'.patches = ctx.patches
                    /\ memory' = Written(memory, Address(pos),
                                         Displacement(Address(pos), ctx.labels[ir[pos].label]))
                 \/ /\ ir[pos].label \notin DOMAIN ctx.labels
                    /\ ctx'.patches = ctx.patches \cup {[label |-> ir[pos].label, loc |-> Address(pos)]}
                    /\ memory' = Written(memory, Address(pos), 0)
           \/ /\ ir[pos].opcode = "LABEL"
              /\ ctx'.labels = Written(ctx.labels, ir[pos].label, base + trace[pos].size)
              /\ ctx'.patches = {p \in ctx.patches : p.label # ir[pos].label}
              /\ call_sites' = call_sites
              /\ memory' = ApplyPatches(memory, ctx, ir[pos].label, base + trace[pos].size)
           \/ /\ ir[pos].opcode = "CALL"
              /\ ctx'.labels = ctx.labels /\ ctx'.patches = ctx.patches
              /\ memory' = Written(memory, Address(pos), Placeholder)
              /\ RecordCallSite(Address(pos), ir[pos].func)
           \/ /\ ir[pos].opcode \notin Jumps \cup {"LABEL", "CALL"}
              /\ ctx'.labels = ctx.labels /\ ctx'.patches = ctx.patches
              /\ memory' = memory /\ call_sites' = call_sites
<1> DEFINE inst == ir[pos]
           e == Encode(ctx, size, inst)
           c == Encoded(ctx, e)
           here == base + size
           loc == DisplacementAt(e.size)
           imm == here + ImmediateAt(InstCode(ctx, inst))
<1>1. /\ IsSeq(ir) /\ Len(ir) \in Nat /\ pos \in 1 .. Len(ir) /\ CodeInv /\ base \in Nat
      /\ trace[pos] = Snapshot(ctx, size) /\ e = trace[pos + 1] /\ DOMAIN ctx = Fields
  BY EmitCommon DEF PassInv
<1>2. c.labels = ctx.labels /\ c.patches = ctx.patches
  BY <1>1 DEF Encoded, Fields
<1>3. trace[pos].size = size /\ size \in Nat /\ trace[pos + 1].size \in Nat /\ InstOk(pos)
  <2>1. pos \in 1 .. Len(ir) + 1 /\ pos + 1 \in 1 .. Len(ir) + 1
    BY <1>1
  <2>2. trace[pos].size \in Nat /\ trace[pos + 1].size \in Nat /\ InstOk(pos)
    BY <2>1, <1>1 DEF CodeInv
  <2> QED BY <2>2, <1>1 DEF Snapshot
<1>4. InstCode(trace[pos], inst) = InstCode(ctx, inst)
  BY <1>1 DEF Snapshot, InstCode, Located
<1>5. /\ \/ /\ inst.opcode \in Jumps
            /\ ctx' = EmitJump(c, inst.label, loc).ctx
            /\ memory' = Written(memory, loc, EmitJump(c, inst.label, loc).rel)
            /\ call_sites' = call_sites
         \/ /\ inst.opcode = "LABEL"
            /\ IF inst.label >= MAX_LABELS THEN ctx' = c /\ UNCHANGED memory
               ELSE /\ ctx' = DefineLabel(c, inst.label, here)
                    /\ memory' = ApplyPatches(memory, c, inst.label, here)
            /\ call_sites' = call_sites
         \/ /\ inst.opcode = "CALL"
            /\ ctx' = c
            /\ memory' = Written(memory, imm, Placeholder)
            /\ RecordCallSite(imm, inst.func)
         \/ /\ inst.opcode \notin Jumps \cup {"LABEL", "CALL"}
            /\ ctx' = c
            /\ memory' = memory /\ call_sites' = call_sites
  BY Zenon DEF EmitInst
<1>6. inst.opcode \in Jumps => loc = Address(pos)
  <2>1. ASSUME inst.opcode \in Jumps PROVE loc = Address(pos)
    <3>1. Field(pos) = trace[pos + 1].size - 4
      BY <2>1 DEF Field
    <3>2. loc = base + trace[pos + 1].size - 4
      BY <1>1 DEF DisplacementAt
    <3> QED BY <3>1, <3>2, <1>1, <1>3 DEF Address
  <2> QED BY <2>1
<1>7. inst.opcode = "CALL" => imm = Address(pos)
  <2>1. ASSUME inst.opcode = "CALL" PROVE imm = Address(pos)
    <3>1. inst.opcode \notin Jumps /\ HasField(pos)
      BY <2>1 DEF Jumps, HasField
    <3>2. Field(pos) = size + ImmediateAt(InstCode(ctx, inst))
      BY <3>1, <1>3, <1>4 DEF Field
    <3>3. Field(pos) \in Nat
      BY <3>1, <1>1, FieldsApart
    <3>4. ImmediateAt(InstCode(ctx, inst)) \in Int
      <4>2. IsSeq(ctx.pending)
        <5>1. pos \in 1 .. Len(ir) + 1
          BY <1>1
        <5> QED BY <5>1, <1>1 DEF CodeInv, Snapshot
      <4>3. inst.opcode \in Ops
        BY <1>3 DEF InstOk
      <4> QED BY <4>2, <4>3, <2>1, <1>3, InstructionSize
    <3> QED BY <3>2, <3>4, <1>1, <1>3 DEF Address
  <2> QED BY <2>1
<1>8. here = base + trace[pos].size
  BY <1>3
<1>9. inst.opcode \in Jumps \cup {"LABEL"} => inst.label \in 0 .. MAX_LABELS - 1 /\ inst.label < MAX_LABELS
  <2>1. inst.opcode \in Jumps \cup {"LABEL"} => inst.label \in 0 .. MAX_LABELS - 1
    BY <1>3 DEF InstOk
  <2> QED BY <2>1, LimitsAssumption
<1>10. DOMAIN c = Fields
  BY <1>1, EncodedFields
<1> HIDE DEF inst, e, c, here, loc, imm
<1>11. CASE inst.opcode \in Jumps
  <2>1. /\ ctx' = EmitJump(c, inst.label, Address(pos)).ctx
        /\ memory' = Written(memory, Address(pos), EmitJump(c, inst.label, Address(pos)).rel)
        /\ call_sites' = call_sites
    BY <1>5, <1>6, <1>11 DEF Jumps
  <2>2. CASE inst.label \in DOMAIN ctx.labels
    <3>1. EmitJump(c, inst.label, Address(pos)) =
            [ctx |-> c, rel |-> ctx.labels[inst.label] - (Address(pos) + 4)]
      BY <2>2, <1>2, <1>9, <1>11 DEF EmitJump
    <3>2. ctx' = c /\ memory' = Written(memory, Address(pos), Displacement(Address(pos), ctx.labels[inst.label]))
      BY <3>1, <2>1 DEF Displacement
    <3> QED BY <3>2, <2>1, <2>2, <1>2, <1>11 DEF inst
  <2>3. CASE inst.label \notin DOMAIN ctx.labels
    <3>1. EmitJump(c, inst.label, Address(pos)) =
            [ctx |-> [c EXCEPT !.patches = @ \cup {[label |-> inst.label, loc |-> Address(pos)]}], rel |-> 0]
      BY <2>3, <1>2 DEF EmitJump
    <3>2. ctx' = [c EXCEPT !.patches = @ \cup {[label |-> inst.label, loc |-> Address(pos)]}]
          /\ memory' = Written(memory, Address(pos), 0)
      BY <3>1, <2>1
    <3>3. ctx'.labels = c.labels /\ ctx'.patches = c.patches \cup {[label |-> inst.label, loc |-> Address(pos)]}
      BY <3>2, <1>10 DEF Fields
    <3> QED BY <3>2, <3>3, <2>1, <2>3, <1>2, <1>11 DEF inst
  <2> QED BY <2>2, <2>3
<1>12. CASE inst.opcode = "LABEL"
  <2>1. ~(inst.label >= MAX_LABELS)
    BY <1>9, <1>12, LimitsAssumption
  <2>2. /\ ctx' = DefineLabel(c, inst.label, here)
        /\ memory' = ApplyPatches(memory, c, inst.label, here)
        /\ call_sites' = call_sites
    BY <1>5, <1>12, <2>1 DEF Jumps
  <2>3. ctx'.labels = Written(c.labels, inst.label, here) /\ ctx'.patches = c.patches \ PatchesOf(c, inst.label)
    <3> DEFINE new == Written(c.labels, inst.label, here)
               rest == c.patches \ PatchesOf(c, inst.label)
    <3>1. DefineLabel(c, inst.label, here) = [c EXCEPT !.labels = new, !.patches = rest]
      BY <1>10 DEF DefineLabel, Fields
    <3> HIDE DEF new, rest
    <3>2. ctx'.labels = new /\ ctx'.patches = rest
      BY <3>1, <2>2, <1>10 DEF Fields
    <3> QED BY <3>2 DEF new, rest
  <2>4. ctx'.patches = {p \in ctx.patches : p.label # inst.label}
    BY <2>3, <1>2 DEF PatchesOf
  <2>5. ApplyPatches(memory, c, inst.label, here) = ApplyPatches(memory, ctx, inst.label, here)
    BY <1>2 DEF ApplyPatches, PatchesOf
  <2> QED BY <2>2, <2>3, <2>4, <2>5, <1>2, <1>8, <1>12, Zenon DEF inst
<1>13. CASE inst.opcode = "CALL"
  BY <1>5, <1>7, <1>2, <1>13 DEF Jumps, inst
<1>14. CASE inst.opcode \notin Jumps \cup {"LABEL", "CALL"}
  BY <1>5, <1>2, <1>14, Zenon DEF inst
<1> QED BY <1>11, <1>12, <1>13, <1>14, Zenon

\* EmitInst adds one instruction to those emitted.
LEMMA BeforeNext ==
    ASSUME Inv, LinkInv, EmitInst
    PROVE  /\ \A k : Address(k)' = Address(k)
           /\ \A S, k : k \in Before(S)' <=> k \in Before(S) \/ (k = pos /\ ir[pos].opcode \in S)
           /\ \A S : \A k \in Before(S) : k \in 1 .. Len(ir) /\ k < pos /\ ir[k].opcode \in S
<1>1. /\ Len(ir) \in Nat /\ pos \in 1 .. Len(ir) /\ pos' = pos + 1 /\ ir' = ir /\ base' = base
      /\ \A k : Field(k)' = Field(k)
  BY EmitCommon
<1>2. \A k : Address(k)' = Address(k)
  BY <1>1 DEF Address
<1>3. ASSUME NEW S, NEW k
      PROVE  k \in Before(S)' <=> k \in Before(S) \/ (k = pos /\ ir[pos].opcode \in S)
  <2>1. k \in 1 .. pos' - 1 <=> k \in 1 .. pos - 1 \/ k = pos
    BY <1>1
  <2>2. k \in Before(S)' <=> k \in 1 .. pos' - 1 /\ ir[k].opcode \in S
    BY <1>1 DEF Before
  <2>3. k \in Before(S) <=> k \in 1 .. pos - 1 /\ ir[k].opcode \in S
    BY DEF Before
  <2> QED BY <2>1, <2>2, <2>3, Zenon
<1>4. ASSUME NEW S, NEW k \in Before(S) PROVE k \in 1 .. Len(ir) /\ k < pos /\ ir[k].opcode \in S
  BY <1>1 DEF Before
<1> QED BY <1>2, <1>3, <1>4

\* Fields written during pass 2 belong to the function at hand: what finished
\* functions hold stays.
LEMMA EmitMem ==
    ASSUME Inv, LinkInv, EmitInst, NEW W,
           \A x \in W : \E k \in 1 .. Len(ir) : HasField(k) /\ x = Address(k),
           DOMAIN memory' = DOMAIN memory \cup W,
           \A x \in DOMAIN memory : x \notin W => memory'[x] = memory[x],
           NewFields' = NewFields \cup W
    PROVE  Finished' /\ MemOk(NewFields, base)'
<1>1. /\ jumps' = jumps /\ calls' = calls /\ base' = base /\ used' = used /\ IsSeq(ir)
      /\ CodeInv /\ PassInv /\ MemOk(NewFields, base) /\ Finished
  BY EmitCommon
<1>2. base \in Nat
  BY <1>1 DEF PassInv
<1>3. \A x \in W : x \in Nat /\ x >= base
  BY <1>1, <1>2, Addresses
<1>4. OldFields' = OldFields
  BY <1>1 DEF OldFields
<1>5. ASSUME NEW x \in OldFields PROVE x \in DOMAIN memory /\ x \notin W
  <2>1. x \in Int /\ x < base /\ x \in DOMAIN memory
    BY <1>1 DEF MemOk
  <2> QED BY <2>1, <1>2, <1>3
<1>6. JumpsLand'
  <2> SUFFICES ASSUME NEW j \in jumps
               PROVE  j.loc \in DOMAIN memory' /\ memory'[j.loc] = Displacement(j.loc, j.target)
    BY <1>1 DEF JumpsLand
  <2>1. j.loc \in OldFields
    BY DEF OldFields
  <2>2. j.loc \in DOMAIN memory /\ j.loc \notin W
    BY <2>1, <1>5
  <2>3. memory[j.loc] = Displacement(j.loc, j.target)
    BY <1>1 DEF Finished, JumpsLand
  <2> QED BY <2>2, <2>3
<1>7. Finished'
  BY <1>1, <1>6 DEF Finished
<1>8. MemOk(NewFields, base)'
  <2>1. DOMAIN memory' = OldFields' \cup NewFields'
    BY <1>1, <1>4 DEF MemOk
  <2> QED BY <2>1, <1>1, <1>4 DEF MemOk
<1> QED BY <1>7, <1>8

\* An instruction that is no call leaves the call sites as they are.
LEMMA EmitSites ==
    ASSUME Inv, LinkInv, EmitInst, ir[pos].opcode # "CALL", call_sites' = call_sites
    PROVE  SitesOk(calls \cup NewCalls)'
<1>1. calls' = calls /\ ir' = ir /\ SitesOk(calls \cup NewCalls)
  BY EmitCommon
<1>2. \A k : k \in Before({"CALL"})' <=> k \in Before({"CALL"})
  BY BeforeNext
<1>3. Before({"CALL"})' = Before({"CALL"})
  BY <1>2
<1>4. \A k : Address(k)' = Address(k)
  BY BeforeNext
<1>5. NewCalls' = NewCalls
  BY <1>1, <1>3, <1>4 DEF NewCalls
<1> QED BY <1>1, <1>5 DEF SitesOk, IsSite, IsSeq

\* The new fields are those written.
LEMMA EmitFields ==
    ASSUME Inv, LinkInv, EmitInst
    PROVE  NewFields' = NewFields \cup (IF HasField(pos) THEN {Address(pos)} ELSE {})
<1> DEFINE S == Jumps \cup {"CALL"}
<1>1. \A k : Address(k)' = Address(k)
  BY BeforeNext
<1>2. \A k : k \in Before(S)' <=> k \in Before(S) \/ (k = pos /\ HasField(pos))
  BY BeforeNext, Zenon DEF HasField
<1>3. NewFields' = {Address(k) : k \in Before(S)'}
  BY <1>1 DEF NewFields
<1>4. NewFields = {Address(k) : k \in Before(S)}
  BY DEF NewFields
<1> HIDE DEF S
<1> QED BY <1>2, <1>3, <1>4

\* A jump is emitted.
LEMMA EmitJumpInv ==
    ASSUME Inv, LinkInv, EmitInst, ir[pos].opcode \in Jumps
    PROVE  LinkInv'
<1>1. /\ phase' = "pass2" /\ IsSeq(ir) /\ Len(ir) \in Nat /\ pos \in 1 .. Len(ir)
      /\ load' = load /\ ir' = ir /\ trace' = trace /\ base' = base /\ used' = used
      /\ predicted_size' = predicted_size /\ site' = site
      /\ CodeInv /\ CodeInv' /\ PassInv /\ MemOk(NewFields, base) /\ load \in Loads /\ site = 1
  BY EmitCommon
<1>2. /\ ctx'.labels = ctx.labels
      /\ call_sites' = call_sites
      /\ \/ /\ ir[pos].label \in DOMAIN ctx.labels
            /\ ctx'.patches = ctx.patches
            /\ memory' = Written(memory, Address(pos), Displacement(Address(pos), ctx.labels[ir[pos].label]))
         \/ /\ ir[pos].label \notin DOMAIN ctx.labels
            /\ ctx'.patches = ctx.patches \cup {[label |-> ir[pos].label, loc |-> Address(pos)]}
            /\ memory' = Written(memory, Address(pos), 0)
  BY EmitKinds, Zenon DEF Jumps
<1>3. HasField(pos) /\ ir[pos].opcode # "CALL" /\ ir[pos].opcode # "LABEL"
  BY DEF HasField, Jumps
<1>4. /\ DOMAIN memory' = DOMAIN memory \cup {Address(pos)}
      /\ \A x \in DOMAIN memory : x # Address(pos) => memory'[x] = memory[x]
  <2>1. PICK v : memory' = Written(memory, Address(pos), v)
    BY <1>2
  <2> QED BY <2>1 DEF Written
<1>5. Finished' /\ MemOk(NewFields, base)'
  <2>1. NewFields' = NewFields \cup {Address(pos)}
    BY <1>3, EmitFields
  <2>2. \A x \in {Address(pos)} : \E k \in 1 .. Len(ir) : HasField(k) /\ x = Address(k)
    BY <1>1, <1>3
  <2>3. PICK W : W = {Address(pos)}
    OBVIOUS
  <2>4. /\ \A x \in W : \E k \in 1 .. Len(ir) : HasField(k) /\ x = Address(k)
        /\ DOMAIN memory' = DOMAIN memory \cup W
        /\ \A x \in DOMAIN memory : x \notin W => memory'[x] = memory[x]
        /\ NewFields' = NewFields \cup W
    BY <2>1, <2>2, <2>3, <1>4
  <2> QED BY <2>4, EmitMem, Zenon
<1>6. SitesOk(calls \cup NewCalls)'
  BY <1>2, <1>3, EmitSites
<1>7. /\ \A k : Address(k)' = Address(k)
      /\ \A k : k \in Before(Jumps)' <=> k \in Before(Jumps) \/ k = pos
      /\ \A k : k \in Before({"LABEL"})' <=> k \in Before({"LABEL"})
      /\ \A k \in Before(Jumps) : k \in 1 .. Len(ir) /\ k < pos /\ ir[k].opcode \in Jumps
  BY <1>3, BeforeNext
<1>8. Before({"LABEL"})' = Before({"LABEL"})
  BY <1>7
<1>9. ASSUME NEW k \in Before(Jumps)
      PROVE  Address(k) \in DOMAIN memory /\ memory'[Address(k)] = memory[Address(k)]
  <2>1. k \in 1 .. Len(ir) /\ k # pos /\ HasField(k)
    BY <1>7, <1>1 DEF HasField
  <2>2. Address(k) # Address(pos)
    BY <2>1, <1>1, <1>3, Addresses DEF PassInv
  <2>3. k \in Before(Jumps \cup {"CALL"})
    BY DEF Before
  <2>4. Address(k) \in DOMAIN memory
    BY <2>3, <1>1 DEF MemOk, NewFields
  <2> QED BY <2>2, <2>4, <1>4
<1>10. PassInv'
  <2>1. ASSUME NEW k \in Before(Jumps)'
        PROVE  \/ /\ ir'[k].label \in DOMAIN ctx'.labels
                  /\ memory'[Address(k)'] = Displacement(Address(k)', ctx'.labels[ir'[k].label])
               \/ [label |-> ir'[k].label, loc |-> Address(k)'] \in ctx'.patches
    <3>1. CASE k \in Before(Jumps)
      <4>1. \/ /\ ir[k].label \in DOMAIN ctx.labels
               /\ memory[Address(k)] = Displacement(Address(k), ctx.labels[ir[k].label])
            \/ [label |-> ir[k].label, loc |-> Address(k)] \in ctx.patches
        BY <3>1, <1>1 DEF PassInv
      <4>2. memory'[Address(k)] = memory[Address(k)]
        BY <3>1, <1>9
      <4>3. ctx.patches \subseteq ctx'.patches
        BY <1>2
      <4>4. Address(k)' = Address(k)
        BY <1>7
      <4> QED BY <4>1, <4>2, <4>3, <4>4, <1>1, <1>2, Zenon
    <3>2. CASE k = pos
      <4>1. Address(k)' = Address(pos)
        BY <3>2, <1>7
      <4>2. \A v : Written(memory, Address(pos), v)[Address(pos)] = v
        BY DEF Written
      <4> QED BY <3>2, <4>1, <4>2, <1>1, <1>2
    <3> QED BY <3>1, <3>2, <1>7, Zenon
  <2>2. ASSUME NEW p \in ctx'.patches
        PROVE  /\ p.label \notin DOMAIN ctx'.labels
               /\ \E k \in Before(Jumps)' : p.label = ir'[k].label /\ p.loc = Address(k)'
    <3>1. CASE p \in ctx.patches
      <4>1. PICK k \in Before(Jumps) : p.label = ir[k].label /\ p.loc = Address(k)
        BY <3>1, <1>1 DEF PassInv
      <4>2. p.label \notin DOMAIN ctx'.labels
        BY <3>1, <1>1, <1>2 DEF PassInv
      <4> QED BY <4>1, <4>2, <1>1, <1>7, Zenon
    <3>2. CASE p = [label |-> ir[pos].label, loc |-> Address(pos)]
      <4>1. p.label = ir[pos].label /\ p.loc = Address(pos)
        BY <3>2
      <4>2. CASE p.label \in DOMAIN ctx'.labels
        <5>1. p \in ctx.patches
          BY <4>1, <4>2, <1>2
        <5> QED BY <5>1, <3>1
      <4> QED BY <4>1, <4>2, <1>1, <1>7, Zenon
    <3> QED BY <3>1, <3>2, <1>2
  <2>3. DOMAIN ctx'.labels = {ir'[i].label : i \in Before({"LABEL"})'}
    BY <1>1, <1>2, <1>8 DEF PassInv
  <2>4. \A i \in Before({"LABEL"})' : ctx'.labels[ir'[i].label] = base' + trace'[i].size
    BY <1>1, <1>2, <1>8 DEF PassInv
  <2>5. \A k \in 1 .. Len(ir') : ir'[k].opcode \in Jumps =>
          \E i \in 1 .. Len(ir') : IsLabel(i)' /\ ir'[i].label = ir'[k].label
    BY <1>1 DEF PassInv, IsLabel
  <2>6. base' \in Nat /\ used' = base' + predicted_size'
    BY <1>1 DEF PassInv
  <2> QED BY <2>1, <2>2, <2>3, <2>4, <2>5, <2>6 DEF PassInv
<1> QED BY <1>1, <1>5, <1>6, <1>10 DEF LinkInv, Phases

\* A label is passed: it becomes known, and the jumps that waited for it get their
\* displacement.
LEMMA EmitLabelInv ==
    ASSUME Inv, LinkInv, EmitInst, ir[pos].opcode = "LABEL"
    PROVE  LinkInv'
<1> DEFINE l == ir[pos].label
           here == base + trace[pos].size
           locs == {p.loc : p \in PatchesOf(ctx, l)}
<1>1. /\ phase' = "pass2" /\ IsSeq(ir) /\ Len(ir) \in Nat /\ pos \in 1 .. Len(ir)
      /\ load' = load /\ ir' = ir /\ trace' = trace /\ base' = base /\ used' = used
      /\ predicted_size' = predicted_size /\ site' = site
      /\ CodeInv /\ CodeInv' /\ PassInv /\ MemOk(NewFields, base) /\ load \in Loads /\ site = 1
  BY EmitCommon
<1>2. /\ ctx'.labels = Written(ctx.labels, l, here)
      /\ ctx'.patches = {p \in ctx.patches : p.label # l}
      /\ call_sites' = call_sites
      /\ memory' = ApplyPatches(memory, ctx, l, here)
  BY EmitKinds, Zenon DEF Jumps
<1>3. ~HasField(pos) /\ ir[pos].opcode # "CALL" /\ ir[pos].opcode \notin Jumps
  BY DEF HasField, Jumps
<1>4. /\ DOMAIN memory' = DOMAIN memory \cup locs
      /\ \A x \in DOMAIN memory : x \notin locs => memory'[x] = memory[x]
      /\ \A x \in locs : memory'[x] = Displacement(x, here)
  <2> HIDE DEF l, here
  <2> QED BY <1>2 DEF ApplyPatches
<1>5. /\ \A k : Address(k)' = Address(k)
      /\ \A k : k \in Before(Jumps)' <=> k \in Before(Jumps)
      /\ \A k : k \in Before({"LABEL"})' <=> k \in Before({"LABEL"}) \/ k = pos
      /\ \A S : \A k \in Before(S) : k \in 1 .. Len(ir) /\ k < pos /\ ir[k].opcode \in S
  BY <1>3, BeforeNext
<1>6. \A p \in ctx.patches : \E k \in Before(Jumps) : p.label = ir[k].label /\ p.loc = Address(k)
  BY <1>1 DEF PassInv
<1>7. \A x \in locs : \E k \in Before(Jumps) : l = ir[k].label /\ x = Address(k)
  BY <1>6 DEF PatchesOf
<1>8. Finished' /\ MemOk(NewFields, base)'
  <2>1. NewFields' = NewFields
    BY <1>3, EmitFields
  <2>2. \A k \in Before(Jumps) : k \in 1 .. Len(ir) /\ HasField(k) /\ k \in Before(Jumps \cup {"CALL"})
    BY <1>5 DEF HasField, Before
  <2>3. locs \subseteq NewFields
    BY <1>7, <2>2 DEF NewFields
  <2>4. \A x \in locs : \E k \in 1 .. Len(ir) : HasField(k) /\ x = Address(k)
    BY <1>7, <2>2
  <2>5. PICK W : W = locs
    OBVIOUS
  <2> HIDE DEF locs
  <2>6. /\ \A x \in W : \E k \in 1 .. Len(ir) : HasField(k) /\ x = Address(k)
        /\ DOMAIN memory' = DOMAIN memory \cup W
        /\ \A x \in DOMAIN memory : x \notin W => memory'[x] = memory[x]
        /\ NewFields' = NewFields \cup W
    BY <2>1, <2>3, <2>4, <2>5, <1>4
  <2> QED BY <2>6, EmitMem, Zenon
<1>9. SitesOk(calls \cup NewCalls)'
  BY <1>2, <1>3, EmitSites
<1>10. DOMAIN ctx.labels = {ir[i].label : i \in Before({"LABEL"})}
       /\ \A i \in Before({"LABEL"}) : ctx.labels[ir[i].label] = base + trace[i].size
  BY <1>1 DEF PassInv
<1>11. l \notin DOMAIN ctx.labels
  <2> SUFFICES ASSUME NEW i \in Before({"LABEL"}), ir[i].label = l PROVE FALSE
    BY <1>10
  <2>1. i \in 1 .. Len(ir) /\ i < pos /\ IsLabel(i) /\ IsLabel(pos)
    BY <1>5 DEF IsLabel
  <2>2. i = pos
    BY <2>1, <1>1 DEF CodeInv
  <2> QED BY <2>1, <2>2, <1>1
<1>12. /\ DOMAIN ctx'.labels = DOMAIN ctx.labels \cup {l}
       /\ ctx'.labels[l] = here
       /\ \A m \in DOMAIN ctx.labels : ctx'.labels[m] = ctx.labels[m]
  <2> HIDE DEF l, here
  <2> QED BY <1>2, <1>11 DEF Written
<1>13. PassInv'
  <2>1. ASSUME NEW k \in Before(Jumps)'
        PROVE  \/ /\ ir'[k].label \in DOMAIN ctx'.labels
                  /\ memory'[Address(k)'] = Displacement(Address(k)', ctx'.labels[ir'[k].label])
               \/ [label |-> ir'[k].label, loc |-> Address(k)'] \in ctx'.patches
    <3>1. k \in Before(Jumps) /\ Address(k)' = Address(k) /\ ir'[k] = ir[k]
      BY <1>1, <1>5
    <3>2. k \in 1 .. Len(ir) /\ HasField(k) /\ Address(k) \in DOMAIN memory
      <4>1. k \in Before(Jumps \cup {"CALL"})
        BY <3>1 DEF Before
      <4> QED BY <3>1, <4>1, <1>1, <1>5 DEF HasField, MemOk, NewFields
    <3>3. CASE /\ ir[k].label \in DOMAIN ctx.labels
               /\ memory[Address(k)] = Displacement(Address(k), ctx.labels[ir[k].label])
      <4>1. Address(k) \notin locs
        <5> SUFFICES ASSUME Address(k) \in locs PROVE FALSE
          OBVIOUS
        <5>1. PICK i \in Before(Jumps) : l = ir[i].label /\ Address(k) = Address(i)
          BY <1>7
        <5>2. i \in 1 .. Len(ir) /\ HasField(i)
          BY <1>5 DEF HasField
        <5>3. i = k
          BY <5>1, <5>2, <3>2, <1>1, Addresses DEF PassInv
        <5> QED BY <5>1, <5>3, <3>3, <1>11
      <4>2. memory'[Address(k)] = memory[Address(k)]
        BY <4>1, <3>2, <1>4
      <4> QED BY <3>1, <3>3, <4>2, <1>12
    <3>4. CASE [label |-> ir[k].label, loc |-> Address(k)] \in ctx.patches
      <4>1. CASE ir[k].label = l
        <5>1. Address(k) \in locs
          <6>1. PICK p \in ctx.patches : p = [label |-> ir[k].label, loc |-> Address(k)]
            BY <3>4
          <6>2. p.label = l /\ p.loc = Address(k)
            BY <6>1, <4>1
          <6> QED BY <6>2 DEF PatchesOf
        <5>2. memory'[Address(k)] = Displacement(Address(k), here)
          BY <5>1, <1>4
        <5> QED BY <3>1, <4>1, <5>2, <1>12
      <4>2. CASE ir[k].label # l
        <5>1. PICK p \in ctx.patches : p = [label |-> ir[k].label, loc |-> Address(k)]
          BY <3>4
        <5>2. p.label # l
          BY <5>1, <4>2
        <5>3. p \in ctx'.patches
          BY <5>2, <1>2
        <5> QED BY <5>1, <5>3, <3>1
      <4> QED BY <4>1, <4>2
    <3> QED BY <3>1, <3>3, <3>4, <1>1 DEF PassInv
  <2>2. ASSUME NEW p \in ctx'.patches
        PROVE  /\ p.label \notin DOMAIN ctx'.labels
               /\ \E k \in Before(Jumps)' : p.label = ir'[k].label /\ p.loc = Address(k)'
    <3>1. p \in ctx.patches
      BY <1>2
    <3>2. PICK k \in Before(Jumps) : p.label = ir[k].label /\ p.loc = Address(k)
      BY <3>1, <1>6
    <3>3. p.label # l /\ p.label \notin DOMAIN ctx.labels
      BY <3>1, <1>1, <1>2 DEF PassInv
    <3> QED BY <3>2, <3>3, <1>1, <1>5, <1>12, Zenon
  <2>3. DOMAIN ctx'.labels = {ir'[i].label : i \in Before({"LABEL"})'}
    <3>1. {ir'[i].label : i \in Before({"LABEL"})'} = {ir[i].label : i \in Before({"LABEL"})} \cup {l}
      BY <1>1, <1>5
    <3> QED BY <3>1, <1>10, <1>12
  <2>4. ASSUME NEW i \in Before({"LABEL"})' PROVE ctx'.labels[ir'[i].label] = base' + trace'[i].size
    <3>1. CASE i \in Before({"LABEL"})
      <4>1. ir[i].label \in DOMAIN ctx.labels /\ ctx.labels[ir[i].label] = base + trace[i].size
        BY <3>1, <1>10
      <4> QED BY <4>1, <1>1, <1>12
    <3>2. CASE i = pos
      BY <3>2, <1>1, <1>12
    <3> QED BY <3>1, <3>2, <1>5
  <2>5. \A k \in 1 .. Len(ir') : ir'[k].opcode \in Jumps =>
          \E i \in 1 .. Len(ir') : IsLabel(i)' /\ ir'[i].label = ir'[k].label
    BY <1>1 DEF PassInv, IsLabel
  <2>6. base' \in Nat /\ used' = base' + predicted_size'
    BY <1>1 DEF PassInv
  <2> QED BY <2>1, <2>2, <2>3, <2>4, <2>5, <2>6 DEF PassInv
<1> QED BY <1>1, <1>8, <1>9, <1>13 DEF LinkInv, Phases

\* Labels, patches and jumps stay when nothing but a field of its own is written.
LEMMA PassKept ==
    ASSUME Inv, LinkInv, EmitInst, ir[pos].opcode \notin Jumps \cup {"LABEL"},
           ctx'.labels = ctx.labels, ctx'.patches = ctx.patches,
           \A x \in DOMAIN memory : ~(HasField(pos) /\ x = Address(pos)) => memory'[x] = memory[x]
    PROVE  PassInv'
<1>1. /\ IsSeq(ir) /\ Len(ir) \in Nat /\ pos \in 1 .. Len(ir)
      /\ ir' = ir /\ trace' = trace /\ base' = base /\ used' = used
      /\ predicted_size' = predicted_size
      /\ CodeInv /\ PassInv /\ MemOk(NewFields, base)
  BY EmitCommon
<1>2. /\ \A k : Address(k)' = Address(k)
      /\ \A k : k \in Before(Jumps)' <=> k \in Before(Jumps)
      /\ \A k : k \in Before({"LABEL"})' <=> k \in Before({"LABEL"})
      /\ \A k \in Before(Jumps) : k \in 1 .. Len(ir) /\ k < pos /\ ir[k].opcode \in Jumps
  BY BeforeNext
<1>3. Before(Jumps)' = Before(Jumps) /\ Before({"LABEL"})' = Before({"LABEL"})
  BY <1>2
<1>4. ASSUME NEW k \in Before(Jumps)
      PROVE  memory'[Address(k)] = memory[Address(k)]
  <2>1. k \in 1 .. Len(ir) /\ k # pos /\ HasField(k)
    BY <1>2, <1>1 DEF HasField
  <2>2. HasField(pos) => Address(k) # Address(pos)
    BY <2>1, <1>1, Addresses DEF PassInv
  <2>3. k \in Before(Jumps \cup {"CALL"})
    BY DEF Before
  <2>4. Address(k) \in DOMAIN memory
    BY <2>3, <1>1 DEF MemOk, NewFields
  <2> QED BY <2>2, <2>4
<1>5. \A k \in Before(Jumps)' :
          \/ /\ ir'[k].label \in DOMAIN ctx'.labels
             /\ memory'[Address(k)'] = Displacement(Address(k)', ctx'.labels[ir'[k].label])
          \/ [label |-> ir'[k].label, loc |-> Address(k)'] \in ctx'.patches
  <2> SUFFICES ASSUME NEW k \in Before(Jumps)
               PROVE \/ /\ ir[k].label \in DOMAIN ctx.labels
                        /\ memory'[Address(k)] = Displacement(Address(k), ctx.labels[ir[k].label])
                     \/ [label |-> ir[k].label, loc |-> Address(k)] \in ctx.patches
    BY <1>1, <1>2, <1>3
  <2> QED BY <1>1, <1>4 DEF PassInv
<1>6. \A p \in ctx'.patches :
        /\ p.label \notin DOMAIN ctx'.labels
        /\ \E k \in Before(Jumps)' : p.label = ir'[k].label /\ p.loc = Address(k)'
  BY <1>1, <1>2, <1>3 DEF PassInv
<1>7. /\ DOMAIN ctx'.labels = {ir'[i].label : i \in Before({"LABEL"})'}
      /\ \A i \in Before({"LABEL"})' : ctx'.labels[ir'[i].label] = base' + trace'[i].size
  BY <1>1, <1>3 DEF PassInv
<1>8. \A k \in 1 .. Len(ir') : ir'[k].opcode \in Jumps =>
        \E i \in 1 .. Len(ir') : IsLabel(i)' /\ ir'[i].label = ir'[k].label
  BY <1>1 DEF PassInv, IsLabel
<1>9. base' \in Nat /\ used' = base' + predicted_size'
  BY <1>1 DEF PassInv
<1> QED BY <1>5, <1>6, <1>7, <1>8, <1>9 DEF PassInv

\* A call is emitted: its site is recorded while there is room.
LEMMA EmitCallInv ==
    ASSUME Inv, LinkInv, EmitInst, ir[pos].opcode = "CALL"
    PROVE  LinkInv'
<1>1. /\ phase' = "pass2" /\ IsSeq(ir) /\ Len(ir) \in Nat /\ pos \in 1 .. Len(ir)
      /\ load' = load /\ ir' = ir /\ base' = base /\ calls' = calls /\ site' = site
      /\ CodeInv /\ CodeInv' /\ PassInv /\ MemOk(NewFields, base) /\ SitesOk(calls \cup NewCalls)
      /\ load \in Loads /\ site = 1
  BY EmitCommon
<1>2. /\ ctx'.labels = ctx.labels /\ ctx'.patches = ctx.patches
      /\ memory' = Written(memory, Address(pos), Placeholder)
      /\ RecordCallSite(Address(pos), ir[pos].func)
  BY EmitKinds, Zenon DEF Jumps
<1>3. HasField(pos) /\ ir[pos].opcode \notin Jumps \cup {"LABEL"}
  BY DEF HasField, Jumps
<1>4. /\ DOMAIN memory' = DOMAIN memory \cup {Address(pos)}
      /\ \A x \in DOMAIN memory : x # Address(pos) => memory'[x] = memory[x]
  BY <1>2 DEF Written
<1>5. Finished' /\ MemOk(NewFields, base)'
  <2>1. NewFields' = NewFields \cup {Address(pos)}
    BY <1>3, EmitFields
  <2>2. PICK W : W = {Address(pos)}
    OBVIOUS
  <2>3. /\ \A x \in W : \E k \in 1 .. Len(ir) : HasField(k) /\ x = Address(k)
        /\ DOMAIN memory' = DOMAIN memory \cup W
        /\ \A x \in DOMAIN memory : x \notin W => memory'[x] = memory[x]
        /\ NewFields' = NewFields \cup W
    BY <2>1, <2>2, <1>1, <1>3, <1>4
  <2> QED BY <2>3, EmitMem, Zenon
<1>6. PassInv'
  BY <1>2, <1>3, <1>4, PassKept
<1>7. /\ \A k : Address(k)' = Address(k)
      /\ \A k : k \in Before({"CALL"})' <=> k \in Before({"CALL"}) \/ k = pos
      /\ \A k \in Before({"CALL"}) : k \in 1 .. Len(ir) /\ k < pos /\ ir[k].opcode = "CALL"
  BY BeforeNext
<1>0. PICK a, f, new, old : /\ a = Address(pos) /\ f = ir[pos].func
                            /\ new = [loc |-> a, func |-> f]
                            /\ old = calls \cup NewCalls
  OBVIOUS
<1>8. calls' \cup NewCalls' = old \cup {new}
  <2>1. NewCalls' = {[loc |-> Address(k), func |-> ir[k].func] : k \in Before({"CALL"})'}
    BY <1>1, <1>7 DEF NewCalls
  <2>2. NewCalls = {[loc |-> Address(k), func |-> ir[k].func] : k \in Before({"CALL"})}
    BY DEF NewCalls
  <2>3. NewCalls' = NewCalls \cup {new}
    BY <2>1, <2>2, <1>0, <1>7
  <2> QED BY <2>3, <1>0, <1>1
<1>9. a \in Int /\ \A c \in old : c.loc \in Int /\ c.loc < a
  <2>1. a \in Nat /\ a >= base /\ base \in Nat
    BY <1>0, <1>1, <1>3, Addresses DEF PassInv
  <2>2. ASSUME NEW c \in calls PROVE c.loc \in Int /\ c.loc < a
    <3>1. c.loc \in OldFields
      BY DEF OldFields
    <3>2. c.loc \in Int /\ c.loc < base
      BY <3>1, <1>1 DEF MemOk
    <3> QED BY <3>2, <2>1
  <2>3. ASSUME NEW c \in NewCalls PROVE c.loc \in Int /\ c.loc < a
    <3>1. PICK k \in Before({"CALL"}) : c = [loc |-> Address(k), func |-> ir[k].func]
      BY DEF NewCalls
    <3>2. c.loc = Address(k)
      BY <3>1
    <3>3. k \in 1 .. Len(ir) /\ k < pos /\ HasField(k)
      BY <1>7 DEF HasField
    <3>4. Address(k) \in Nat /\ Address(k) < Address(pos)
      BY <3>3, <1>1, <1>3, <2>1, Addresses
    <3> QED BY <3>2, <3>4, <1>0
  <2> QED BY <2>1, <2>2, <2>3, <1>0
<1>10. new.loc = a /\ new.func = f
  BY <1>0
<1>11. call_sites' = IF Len(call_sites) < MAX_CALL_SITES
                     THEN Append(call_sites, [patch_location |-> a, target_name |-> f])
                     ELSE call_sites
  BY <1>0, <1>2 DEF RecordCallSite
<1>12. SitesOk(old)
  BY <1>0, <1>1
<1>13. /\ IsSeq(call_sites) /\ Len(call_sites) \in Nat
       /\ \A i \in 1 .. Len(call_sites) :
             /\ call_sites[i].patch_location \in Int /\ call_sites[i].patch_location < a
             /\ \E c \in old : IsSite(i, c)
  <2>1. /\ IsSeq(call_sites)
        /\ \A i \in 1 .. Len(call_sites) :
             call_sites[i].patch_location \in Int /\ \E c \in old : IsSite(i, c)
    BY <1>12 DEF SitesOk
  <2>2. \A i \in 1 .. Len(call_sites) : call_sites[i].patch_location < a
    BY <2>1, <1>9 DEF IsSite
  <2> QED BY <2>1, <2>2, SeqLen
<1>14. CASE Len(call_sites) < MAX_CALL_SITES
  <2>0. PICK n, s : n = Len(call_sites) /\ s = [patch_location |-> a, target_name |-> f]
    OBVIOUS
  <2>1. call_sites' = Append(call_sites, s)
    BY <2>0, <1>11, <1>14
  <2>2. s.patch_location = a /\ s.target_name = f
    BY <2>0
  <2>3. /\ IsSeq(Append(call_sites, s)) /\ Len(Append(call_sites, s)) = n + 1
        /\ Append(call_sites, s)[n + 1] = s
        /\ \A k \in 1 .. n : Append(call_sites, s)[k] = call_sites[k]
    BY <2>0, <1>13, AppendSeq
  <2>4. /\ Len(call_sites') = n + 1 /\ call_sites'[n + 1] = s
        /\ \A k \in 1 .. n : call_sites'[k] = call_sites[k]
    BY <2>1, <2>3
  <2>5. IsSeq(call_sites)'
    BY <2>1, <2>3 DEF IsSeq
  <2>6. \A k \in 1 .. n + 1 : k \in 1 .. n \/ k = n + 1
    BY <2>0, <1>13
  <2>7. ASSUME NEW i \in 1 .. n, NEW c PROVE IsSite(i, c)' <=> IsSite(i, c)
    BY <2>4 DEF IsSite
  <2>8. IsSite(n + 1, new)'
    BY <2>2, <2>4, <1>10 DEF IsSite
  <2>9. \A i \in 1 .. n + 1 :
          call_sites'[i].patch_location \in Int /\ \E c \in old \cup {new} : IsSite(i, c)'
    <3>1. \A i \in 1 .. n :
            call_sites'[i].patch_location \in Int /\ \E c \in old \cup {new} : IsSite(i, c)'
      BY <2>0, <2>4, <2>7, <1>13
    <3>2. call_sites'[n + 1].patch_location \in Int /\ \E c \in old \cup {new} : IsSite(n + 1, c)'
      BY <2>2, <2>4, <2>8, <1>9
    <3> QED BY <3>1, <3>2, <2>6, Zenon
  <2>10. ASSUME NEW i \in 1 .. n + 1, NEW j \in 1 .. n + 1, i < j
         PROVE  call_sites'[i].patch_location < call_sites'[j].patch_location
    <3>1. CASE j \in 1 .. n
      <4>1. i \in 1 .. n
        BY <3>1, <2>10, <2>0, <1>13
      <4> QED BY <3>1, <4>1, <2>0, <2>4, <2>10, <1>12 DEF SitesOk
    <3>2. CASE j = n + 1
      <4>1. i \in 1 .. n
        BY <3>2, <2>10, <2>0, <1>13
      <4> QED BY <3>2, <4>1, <2>0, <2>2, <2>4, <1>13
    <3> QED BY <3>1, <3>2, <2>6
  <2>11. ASSUME NEW c \in old \cup {new}
         PROVE  \E i \in 1 .. n + 1 : IsSite(i, c)'
    <3>1. CASE c \in old
      <4>1. PICK i \in 1 .. n : IsSite(i, c)
        BY <3>1, <2>0, <1>12, <1>13, <1>14, LimitsAssumption DEF SitesOk
      <4>2. i \in 1 .. n + 1
        BY <2>0, <1>13
      <4> QED BY <4>1, <4>2, <2>7
    <3>2. CASE c = new
      <4>1. n + 1 \in 1 .. n + 1
        BY <2>0, <1>13
      <4> QED BY <3>2, <4>1, <2>8
    <3> QED BY <3>1, <3>2
  <2> QED
    <3>1. SitesOk(calls \cup NewCalls)'
      BY <2>4, <2>5, <2>9, <2>10, <2>11, <1>8 DEF SitesOk
    <3> QED BY <3>1, <1>1, <1>5, <1>6 DEF LinkInv, Phases
<1>15. CASE ~(Len(call_sites) < MAX_CALL_SITES)
  <2>1. call_sites' = call_sites
    BY <1>11, <1>15
  <2>2. Len(call_sites) >= MAX_CALL_SITES
    BY <1>13, <1>15, LimitsAssumption
  <2>3. \A i, c : IsSite(i, c)' <=> IsSite(i, c)
    BY <2>1 DEF IsSite
  <2>4. \A i \in 1 .. Len(call_sites) :
          call_sites[i].patch_location \in Int /\ \E c \in old \cup {new} : IsSite(i, c)
    BY <1>13
  <2>5. \A c \in old \cup {new} :
          \/ \E i \in 1 .. Len(call_sites) : IsSite(i, c)
          \/ /\ Len(call_sites) >= MAX_CALL_SITES
             /\ \A i \in 1 .. Len(call_sites) : call_sites[i].patch_location < c.loc
    BY <2>2, <1>10, <1>12, <1>13 DEF SitesOk
  <2>6. \A i, j \in 1 .. Len(call_sites) :
          i < j => call_sites[i].patch_location < call_sites[j].patch_location
    BY <1>12 DEF SitesOk
  <2>7. IsSeq(call_sites)'
    BY <2>1, <1>13 DEF IsSeq
  <2>8. SitesOk(calls \cup NewCalls)'
    BY <2>1, <2>3, <2>4, <2>5, <2>6, <2>7, <1>8 DEF SitesOk
  <2> QED BY <2>8, <1>1, <1>5, <1>6 DEF LinkInv, Phases
<1> QED BY <1>14, <1>15

\* Every other instruction writes no field.
LEMMA EmitOtherInv ==
    ASSUME Inv, LinkInv, EmitInst, ir[pos].opcode \notin Jumps \cup {"LABEL", "CALL"}
    PROVE  LinkInv'
<1>1. /\ phase' = "pass2" /\ load' = load /\ site' = site
      /\ CodeInv' /\ load \in Loads /\ site = 1
  BY EmitCommon
<1>2. /\ ctx'.labels = ctx.labels /\ ctx'.patches = ctx.patches
      /\ memory' = memory /\ call_sites' = call_sites
  BY EmitKinds, Zenon
<1>3. ~HasField(pos) /\ ir[pos].opcode \notin Jumps \cup {"LABEL"} /\ ir[pos].opcode # "CALL"
  BY DEF HasField
<1>4. Finished' /\ MemOk(NewFields, base)'
  <2>1. NewFields' = NewFields
    BY <1>3, EmitFields
  <2>2. PICK W : W = {}
    OBVIOUS
  <2>3. /\ \A x \in W : \E k \in 1 .. Len(ir) : HasField(k) /\ x = Address(k)
        /\ DOMAIN memory' = DOMAIN memory \cup W
        /\ \A x \in DOMAIN memory : x \notin W => memory'[x] = memory[x]
        /\ NewFields' = NewFields \cup W
    BY <2>1, <2>2, <1>2
  <2> QED BY <2>3, EmitMem, Zenon
<1>5. PassInv'
  BY <1>2, <1>3, PassKept
<1>6. SitesOk(calls \cup NewCalls)'
  BY <1>2, <1>3, EmitSites
<1> QED BY <1>1, <1>4, <1>5, <1>6 DEF LinkInv, Phases

\* EmitInst, for each kind of instruction.
LEMMA EmitLinkInv ==
    ASSUME Inv, LinkInv, EmitInst
    PROVE  LinkInv'
<1>1. \/ ir[pos].opcode \in Jumps
      \/ ir[pos].opcode = "LABEL"
      \/ ir[pos].opcode = "CALL"
      \/ ir[pos].opcode \notin Jumps \cup {"LABEL", "CALL"}
  OBVIOUS
<1> QED BY <1>1, EmitJumpInv, EmitLabelInv, EmitCallInv, EmitOtherInv, Zenon

\* Pass 2 is through: the sizes agree, and every instruction was emitted.
LEMMA AllEmitted ==
    ASSUME Inv, LinkInv, phase = "pass2", pos > Len(ir)
    PROVE  /\ IsSeq(ir) /\ Len(ir) \in Nat /\ CodeInv /\ PassInv
           /\ size = predicted_size
           /\ predicted_size = trace[Len(ir) + 1].size
           /\ \A S : Before(S) = {k \in 1 .. Len(ir) : ir[k].opcode \in S}
<1>1. /\ IsSeq(ir) /\ pos \in 1 .. Len(ir) + 1 /\ trace[pos] = Snapshot(ctx, size)
      /\ predicted_size = trace[Len(ir) + 1].size
  BY DEF Inv
<1>2. Len(ir) \in Nat
  BY <1>1, SeqLen
<1>3. pos = Len(ir) + 1
  BY <1>1, <1>2
<1>4. size = predicted_size
  BY <1>1, <1>3 DEF Snapshot
<1>5. pos - 1 = Len(ir)
  BY <1>2, <1>3
<1>6. \A S : Before(S) = {k \in 1 .. Len(ir) : ir[k].opcode \in S}
  BY <1>5 DEF Before
<1> QED BY <1>1, <1>2, <1>4, <1>6 DEF LinkInv

\* The calls of the function are those emitted.
LEMMA CallsEmitted ==
    ASSUME Inv, LinkInv, phase = "pass2", pos > Len(ir)
    PROVE  CallsOf = NewCalls /\ IsFiniteSet(NewCalls)
<1> DEFINE B == {k \in 1 .. Len(ir) : ir[k].opcode = "CALL"}
           imm(k) == LET code == InstCode(trace[k], ir[k])
                         n == CHOOSE i \in DOMAIN code : code[i].op = "movabs"
                     IN  Sizes(code)[n]
<1>1. /\ IsSeq(ir) /\ Len(ir) \in Nat /\ CodeInv /\ base \in Nat
      /\ Before({"CALL"}) = {k \in 1 .. Len(ir) : ir[k].opcode \in {"CALL"}}
  BY AllEmitted DEF PassInv
<1>2. Before({"CALL"}) = B
  BY <1>1
<1>3. ASSUME NEW k \in B PROVE base + trace[k].size + imm(k) - 8 = Address(k)
  <2>1. k \in 1 .. Len(ir) /\ k \in 1 .. Len(ir) + 1 /\ ir[k].opcode = "CALL" /\ ir[k].opcode \notin Jumps
    BY <1>1 DEF Jumps
  <2>2. trace[k].size \in Nat /\ IsSeq(trace[k].pending) /\ ir[k].opcode \in Ops
    BY <2>1, <1>1 DEF CodeInv, InstOk
  <2>3. /\ ImmediateAt(InstCode(trace[k], ir[k])) \in Nat
        /\ imm(k) = ImmediateAt(InstCode(trace[k], ir[k])) + 8
    BY <2>1, <2>2, InstructionSize
  <2>4. Address(k) = base + (trace[k].size + ImmediateAt(InstCode(trace[k], ir[k])))
    BY <2>1 DEF Address, Field
  <2> HIDE DEF imm
  <2> QED BY <2>2, <2>3, <2>4, <1>1
<1>4. CallsOf = {[loc |-> base + trace[k].size + imm(k) - 8, func |-> ir[k].func] : k \in B}
  BY DEF CallsOf
<1>5. CallsOf = {[loc |-> Address(k), func |-> ir[k].func] : k \in B}
  <2> HIDE DEF imm
  <2> QED BY <1>3, <1>4
<1>6. CallsOf = NewCalls
  BY <1>2, <1>5 DEF NewCalls
<1>7. IsFiniteSet(B)
  <2>1. IsFiniteSet(1 .. Len(ir))
    BY <1>1, FS_Interval
  <2>2. B \in SUBSET (1 .. Len(ir))
    OBVIOUS
  <2> HIDE DEF B
  <2> QED BY <2>1, <2>2, FS_Subset
<1>8. IsFiniteSet(NewCalls)
  <2> DEFINE f == [k \in B |-> [loc |-> Address(k), func |-> ir[k].func]]
  <2>1. f \in [B -> NewCalls] /\ \A y \in NewCalls : \E k \in B : f[k] = y
    BY <1>2 DEF NewCalls
  <2>2. f \in Surjection(B, NewCalls)
    <3> HIDE DEF f, B
    <3> QED BY <2>1 DEF Surjection
  <2> HIDE DEF f, B
  <2> QED BY <2>2, <1>7, FS_Surjection
<1> QED BY <1>6, <1>8

\* The jumps of the function hold their displacements.
LEMMA JumpsEmitted ==
    ASSUME Inv, LinkInv, phase = "pass2", pos > Len(ir)
    PROVE  /\ \A j \in JumpsOf : \E k \in Before(Jumps) :
                 j.loc = Address(k) /\ memory[j.loc] = Displacement(j.loc, j.target)
           /\ \A k \in Before(Jumps) : \E j \in JumpsOf : j.loc = Address(k)
<1>1. /\ IsSeq(ir) /\ Len(ir) \in Nat /\ CodeInv /\ PassInv /\ base \in Nat
      /\ \A S : Before(S) = {k \in 1 .. Len(ir) : ir[k].opcode \in S}
  BY AllEmitted DEF PassInv
<1> DEFINE lab(k) == CHOOSE j \in 1 .. Len(ir) : ir[j].opcode = "LABEL" /\ ir[j].label = ir[k].label
           rec(k) == [loc |-> base + trace[k + 1].size - 4, target |-> base + trace[lab(k)].size]
<1>2. JumpsOf = {rec(k) : k \in Before(Jumps)}
  <2>1. Before(Jumps) = {j \in 1 .. Len(ir) : ir[j].opcode \in Jumps}
    BY <1>1
  <2> QED BY <2>1 DEF JumpsOf
<1>3. ASSUME NEW k \in Before(Jumps)
      PROVE  /\ rec(k).loc = Address(k)
             /\ memory[Address(k)] = Displacement(Address(k), rec(k).target)
  <2>1. k \in 1 .. Len(ir) /\ ir[k].opcode \in Jumps
    BY <1>1
  <2>2. trace[k + 1].size \in Nat
    <3>1. k + 1 \in 1 .. Len(ir) + 1
      BY <2>1, <1>1
    <3> QED BY <3>1, <1>1 DEF CodeInv
  <2>3. Address(k) = base + (trace[k + 1].size - 4)
    BY <2>1 DEF Address, Field
  <2>4. rec(k).loc = Address(k) /\ rec(k).target = base + trace[lab(k)].size
    <3> HIDE DEF lab
    <3> QED BY <2>2, <2>3, <1>1
  <2>5. \E i \in 1 .. Len(ir) : ir[i].opcode = "LABEL" /\ ir[i].label = ir[k].label
    BY <2>1, <1>1 DEF PassInv, IsLabel
  <2>6. lab(k) \in 1 .. Len(ir) /\ ir[lab(k)].opcode = "LABEL" /\ ir[lab(k)].label = ir[k].label
    BY <2>5
  <2> HIDE DEF lab, rec
  <2>7. lab(k) \in Before({"LABEL"})
    BY <2>6, <1>1
  <2>8. ir[k].label \in DOMAIN ctx.labels /\ ctx.labels[ir[k].label] = base + trace[lab(k)].size
    BY <2>6, <2>7, <1>1 DEF PassInv
  <2>9. [label |-> ir[k].label, loc |-> Address(k)] \notin ctx.patches
    <3> SUFFICES ASSUME [label |-> ir[k].label, loc |-> Address(k)] \in ctx.patches PROVE FALSE
      OBVIOUS
    <3>1. [label |-> ir[k].label, loc |-> Address(k)].label \notin DOMAIN ctx.labels
      BY <1>1 DEF PassInv
    <3> QED BY <3>1, <2>8
  <2>10. memory[Address(k)] = Displacement(Address(k), ctx.labels[ir[k].label])
    BY <2>9, <1>1 DEF PassInv
  <2> QED BY <2>4, <2>8, <2>10
<1> HIDE DEF rec
<1> QED BY <1>2, <1>3

\* FinishFunction: the jumps and calls of the function join the others.
LEMMA FinishLinkInv ==
    ASSUME Inv, LinkInv, FinishFunction
    PROVE  LinkInv'
<1>1. /\ phase = "pass2" /\ pos > Len(ir) /\ load' = load /\ call_sites' = call_sites
      /\ used' = used /\ memory' = memory /\ site' = site
  BY DEF FinishFunction, encoding, linking
<1>2. /\ IsSeq(ir) /\ Len(ir) \in Nat /\ CodeInv /\ PassInv /\ base \in Nat
      /\ size = predicted_size /\ predicted_size = trace[Len(ir) + 1].size
      /\ \A S : Before(S) = {k \in 1 .. Len(ir) : ir[k].opcode \in S}
      /\ used = base + predicted_size
  BY <1>1, AllEmitted DEF PassInv
<1>3. MemOk(NewFields, base) /\ SitesOk(calls \cup NewCalls) /\ Finished /\ load \in Loads /\ site = 1
  BY <1>1 DEF LinkInv
<1>4. CASE Len(registry) >= MAX_FUNCTION_COUNT
  <2>1. phase' = "failed" /\ jumps' = jumps /\ calls' = calls
    BY <1>2, <1>4 DEF FinishFunction, history
  <2>2. Finished'
    BY <2>1, <1>1, <1>3 DEF Finished, JumpsLand
  <2> QED BY <2>1, <2>2, <1>1, <1>3 DEF LinkInv, Phases
<1>5. CASE ~(Len(registry) >= MAX_FUNCTION_COUNT)
  <2>1. phase' = "idle" /\ jumps' = jumps \cup JumpsOf /\ calls' = calls \cup NewCalls
    <3>1. phase' = "idle" /\ jumps' = jumps \cup JumpsOf /\ calls' = calls \cup CallsOf
      BY <1>2, <1>5 DEF FinishFunction
    <3> QED BY <3>1, <1>1, CallsEmitted
  <2>2. /\ \A j \in JumpsOf : \E k \in Before(Jumps) :
              j.loc = Address(k) /\ memory[j.loc] = Displacement(j.loc, j.target)
        /\ \A k \in Before(Jumps) : \E j \in JumpsOf : j.loc = Address(k)
    BY <1>1, JumpsEmitted
  <2>3. /\ \A c \in NewCalls : \E k \in Before({"CALL"}) : c.loc = Address(k)
        /\ \A k \in Before({"CALL"}) : \E c \in NewCalls : c.loc = Address(k)
    <3>1. ASSUME NEW c \in NewCalls PROVE \E k \in Before({"CALL"}) : c.loc = Address(k)
      <4>1. PICK k \in Before({"CALL"}) : c = [loc |-> Address(k), func |-> ir[k].func]
        BY DEF NewCalls
      <4> QED BY <4>1
    <3>2. ASSUME NEW k \in Before({"CALL"}) PROVE \E c \in NewCalls : c.loc = Address(k)
      <4>1. PICK c : c = [loc |-> Address(k), func |-> ir[k].func]
        OBVIOUS
      <4>2. c \in NewCalls /\ c.loc = Address(k)
        BY <4>1 DEF NewCalls
      <4> QED BY <4>2
    <3> QED BY <3>1, <3>2
  <2>4. ASSUME NEW k \in Before(Jumps \cup {"CALL"})
        PROVE  /\ k \in 1 .. Len(ir) /\ HasField(k) /\ Address(k) \in NewFields
               /\ Address(k) \in Nat /\ Address(k) >= base /\ Address(k) < used
               /\ k \in Before(Jumps) \/ k \in Before({"CALL"})
    <3>1. k \in 1 .. Len(ir) /\ ir[k].opcode \in Jumps \cup {"CALL"} /\ HasField(k)
      BY <1>2 DEF HasField
    <3>2. Address(k) \in Nat /\ Address(k) >= base /\ Address(k) < base + trace[Len(ir) + 1].size
      BY <3>1, <1>2, Addresses
    <3>3. k \in Before(Jumps) \/ k \in Before({"CALL"})
      BY <3>1, <1>2
    <3> QED BY <3>1, <3>2, <3>3, <1>2 DEF NewFields
  <2>5. Before(Jumps) \subseteq Before(Jumps \cup {"CALL"}) /\ Before({"CALL"}) \subseteq Before(Jumps \cup {"CALL"})
    BY DEF Before
  <2>6. NewFields = {j.loc : j \in JumpsOf} \cup {c.loc : c \in NewCalls}
    <3>1. ASSUME NEW x \in NewFields PROVE x \in {j.loc : j \in JumpsOf} \cup {c.loc : c \in NewCalls}
      <4>1. PICK k \in Before(Jumps \cup {"CALL"}) : x = Address(k)
        BY DEF NewFields
      <4> QED BY <4>1, <2>2, <2>3, <2>4
    <3>2. ASSUME NEW j \in JumpsOf PROVE j.loc \in NewFields
      BY <2>2, <2>4, <2>5
    <3>3. ASSUME NEW c \in NewCalls PROVE c.loc \in NewFields
      BY <2>3, <2>4, <2>5
    <3> QED BY <3>1, <3>2, <3>3
  <2>7. OldFields' = OldFields \cup NewFields
    BY <2>1, <2>6 DEF OldFields
  <2>8. /\ used \in Nat
        /\ DOMAIN memory = OldFields \cup NewFields
        /\ \A x \in OldFields : x \in Int /\ x < base
    BY <1>3 DEF MemOk
  <2>9. ASSUME NEW x \in NewFields PROVE x \in Int /\ x >= base /\ x < used
    <3>1. PICK k \in Before(Jumps \cup {"CALL"}) : x = Address(k)
      BY DEF NewFields
    <3>2. Address(k) \in Nat /\ Address(k) >= base /\ Address(k) < used
      BY <2>4
    <3> QED BY <3>1, <3>2
  <2>10. base <= used
    <3>1. Len(ir) + 1 \in 1 .. Len(ir) + 1
      BY <1>2
    <3>2. trace[Len(ir) + 1].size \in Nat
      BY <3>1, <1>2 DEF CodeInv
    <3> QED BY <3>2, <1>2
  <2>11. MemOk({}, used)'
    <3>1. \A x \in OldFields \cup NewFields : x \in Int /\ x < used
      BY <2>8, <2>9, <2>10, <1>2
    <3> QED BY <3>1, <2>7, <2>8, <1>1 DEF MemOk
  <2>12. SitesOk(calls)'
    BY <2>1, <1>1, <1>3 DEF SitesOk, IsSite, IsSeq
  <2>13. JumpsLand'
    <3> SUFFICES ASSUME NEW j \in jumps \cup JumpsOf
                 PROVE  j.loc \in DOMAIN memory /\ memory[j.loc] = Displacement(j.loc, j.target)
      BY <2>1, <1>1 DEF JumpsLand
    <3>1. CASE j \in jumps
      BY <3>1, <1>3 DEF Finished, JumpsLand
    <3>2. CASE j \in JumpsOf
      BY <3>2, <2>2, <2>6, <2>8
    <3> QED BY <3>1, <3>2
  <2>14. ASSUME NEW j \in jumps \cup JumpsOf, NEW c \in calls \cup NewCalls PROVE j.loc # c.loc
    <3>1. /\ j \in jumps => j.loc \in OldFields
          /\ c \in calls => c.loc \in OldFields
          /\ j \in JumpsOf => j.loc \in NewFields
          /\ c \in NewCalls => c.loc \in NewFields
      BY <2>6 DEF OldFields
    <3>2. CASE j \in jumps /\ c \in calls
      BY <3>2, <1>3 DEF Finished
    <3>3. CASE j \in jumps /\ c \in NewCalls
      BY <3>1, <3>3, <2>8, <2>9, <1>2
    <3>4. CASE j \in JumpsOf /\ c \in calls
      BY <3>1, <3>4, <2>8, <2>9, <1>2
    <3>5. CASE j \in JumpsOf /\ c \in NewCalls
      <4>1. PICK k \in Before(Jumps) : j.loc = Address(k)
        BY <3>5, <2>2
      <4>2. PICK i \in Before({"CALL"}) : c.loc = Address(i)
        BY <3>5, <2>3
      <4>3. k \in 1 .. Len(ir) /\ i \in 1 .. Len(ir) /\ HasField(k) /\ HasField(i)
        BY <2>4, <2>5
      <4>4. k # i
        BY <1>2 DEF Jumps
      <4> QED BY <4>1, <4>2, <4>3, <4>4, <1>2, Addresses
    <3> QED BY <3>2, <3>3, <3>4, <3>5
  <2>15. IsFiniteSet(calls \cup NewCalls)
    <3>1. IsFiniteSet(calls) /\ IsFiniteSet(NewCalls)
      BY <1>1, <1>3, CallsEmitted DEF Finished
    <3> QED BY <3>1, FS_Union
  <2>16. Finished'
    BY <2>1, <2>13, <2>14, <2>15 DEF Finished
  <2> QED BY <2>1, <2>11, <2>12, <2>16, <1>1, <1>3 DEF LinkInv, Phases
<1> QED BY <1>4, <1>5

\* LinkSite: only the immediate of the call at hand is written.
LEMMA SiteLinkInv ==
    ASSUME LinkInv, LinkSite
    PROVE  LinkInv'
<1>1. /\ phase = "linking" /\ phase' = "linking" /\ load' = load /\ call_sites' = call_sites
      /\ used' = used /\ registry' = registry /\ jumps' = jumps /\ calls' = calls
      /\ site <= Len(call_sites) /\ site' = site + 1
  BY DEF LinkSite, encoding, history
<1>2. /\ MemOk({}, used) /\ SitesOk(calls) /\ Finished /\ load \in Loads
      /\ site \in 1 .. Len(call_sites) + 1
      /\ success => \A i \in 1 .. site - 1 : LinkedTo(i)
  BY <1>1 DEF LinkInv
<1>3. /\ IsSeq(call_sites) /\ Len(call_sites) \in Nat /\ site \in 1 .. Len(call_sites)
  <2>1. IsSeq(call_sites)
    BY <1>2 DEF SitesOk
  <2> QED BY <2>1, <1>1, <1>2, SeqLen
<1>4. PICK a : a = call_sites[site].patch_location
  OBVIOUS
<1>5. OldFields' = OldFields
  BY <1>1 DEF OldFields
<1>6. SitesOk(calls)'
  BY <1>1, <1>2 DEF SitesOk, IsSite, IsSeq
<1>7. site' \in 1 .. Len(call_sites) + 1
  BY <1>1, <1>3
<1>8. CASE \E j \in DOMAIN registry : IsTarget(j, call_sites[site].target_name)
                                      /\ memory' = Written(memory, a, registry[j].code_addr)
                                      /\ success' = success
  <2>1. PICK j \in DOMAIN registry : IsTarget(j, call_sites[site].target_name)
                                     /\ memory' = Written(memory, a, registry[j].code_addr)
    BY <1>8
  <2>2. PICK c \in calls : c.loc = a
    BY <1>2, <1>3, <1>4 DEF SitesOk, IsSite
  <2>3. a \in OldFields /\ a \in DOMAIN memory
    BY <2>2, <1>2 DEF OldFields, MemOk
  <2>4. DOMAIN memory' = DOMAIN memory /\ memory'[a] = registry[j].code_addr
        /\ \A x \in DOMAIN memory : x # a => memory'[x] = memory[x]
    BY <2>1, <2>3 DEF Written
  <2>5. MemOk({}, used)'
    BY <2>4, <1>1, <1>2, <1>5 DEF MemOk
  <2>6. Finished'
    <3>1. JumpsLand'
      BY <2>2, <2>4, <1>1, <1>2 DEF JumpsLand, Finished
    <3> QED BY <3>1, <1>1, <1>2 DEF Finished
  <2>7. success' => \A i \in 1 .. site' - 1 : LinkedTo(i)'
    <3>1. registry[j].name = call_sites[site].target_name
      BY <2>1 DEF IsTarget
    <3>2. ASSUME NEW i \in 1 .. site' - 1, i # site, LinkedTo(i) PROVE LinkedTo(i)'
      <4>1. i \in 1 .. Len(call_sites) /\ i < site
        BY <3>2, <1>1, <1>3
      <4>2. call_sites[i].patch_location \in Int /\ a \in Int /\ call_sites[i].patch_location < a
        BY <4>1, <1>2, <1>3, <1>4 DEF SitesOk
      <4>3. PICK d \in calls : d.loc = call_sites[i].patch_location
        BY <4>1, <1>2 DEF SitesOk, IsSite
      <4>4. call_sites[i].patch_location \in DOMAIN memory
        BY <4>3, <1>2 DEF MemOk, OldFields
      <4>5. memory'[call_sites[i].patch_location] = memory[call_sites[i].patch_location]
        BY <4>2, <4>4, <2>4
      <4> QED BY <3>2, <4>5, <1>1 DEF LinkedTo
    <3>3. ASSUME NEW i \in 1 .. site' - 1, i = site PROVE LinkedTo(i)'
      BY <3>1, <3>3, <2>4, <1>1, <1>4 DEF LinkedTo
    <3>4. \A i \in 1 .. site' - 1 : i # site => i \in 1 .. site - 1
      BY <1>1, <1>3
    <3>5. success' = success
      BY <1>8
    <3> QED BY <3>2, <3>3, <3>4, <3>5, <1>2, Zenon
  <2> QED BY <2>5, <2>6, <2>7, <1>1, <1>2, <1>6, <1>7, Zenon DEF LinkInv, Phases
<1>9. CASE success' = FALSE /\ memory' = memory
  <2>1. Finished' /\ MemOk({}, used)'
    BY <1>1, <1>2, <1>9, LinkKept
  <2> QED BY <2>1, <1>1, <1>2, <1>6, <1>7, <1>9, Zenon DEF LinkInv, Phases
<1> QED BY <1>4, <1>8, <1>9 DEF LinkSite

\* FinishLink and StartLink move on, AllocateFails and an unchanged state keep what
\* was reached.
LEMMA OtherLinkInv ==
    ASSUME Inv, LinkInv, AllocateFails \/ StartLink \/ FinishLink \/ UNCHANGED vars
    PROVE  LinkInv'
<1>1. /\ load' = load /\ call_sites' = call_sites /\ used' = used /\ memory' = memory
      /\ jumps' = jumps /\ calls' = calls /\ site' = site /\ success' = success
      /\ ir' = ir /\ trace' = trace /\ ctx' = ctx /\ base' = base /\ pos' = pos
      /\ predicted_size' = predicted_size
  BY DEF AllocateFails, StartLink, FinishLink, vars, encoding, linking, history
<1>2. Finished' /\ load' \in Loads
  BY <1>1, LinkKept DEF LinkInv
<1>3. CASE AllocateFails
  <2>1. phase' \in {"failed", "crashed"}
    BY <1>3 DEF AllocateFails
  <2> QED BY <2>1, <1>2 DEF LinkInv, Phases
<1>4. CASE StartLink
  <2>1. phase = "idle" /\ phase' = "linking"
    BY <1>4 DEF StartLink
  <2>2. MemOk({}, used)' /\ SitesOk(calls)' /\ site = 1 /\ IsSeq(call_sites)
    BY <2>1, <1>1, LinkKept DEF LinkInv, SitesOk
  <2>3. Len(call_sites) \in Nat
    BY <2>2, SeqLen
  <2>4. site' \in 1 .. Len(call_sites') + 1 /\ \A i \in 1 .. site' - 1 : LinkedTo(i)'
    BY <2>2, <2>3, <1>1
  <2> QED BY <2>1, <2>2, <2>4, <1>2, Zenon DEF LinkInv, Phases
<1>5. CASE FinishLink
  <2>1. /\ phase = "linking" /\ site > Len(call_sites) /\ registry' = registry
        /\ (phase' = "linked" /\ success) \/ phase' = "failed"
    BY <1>5, Zenon DEF FinishLink
  <2>2. MemOk({}, used)' /\ SitesOk(calls)' /\ IsSeq(call_sites) /\ site \in 1 .. Len(call_sites) + 1
    BY <2>1, <1>1, LinkKept DEF LinkInv, SitesOk
  <2>3. site - 1 = Len(call_sites)
    BY <2>1, <2>2, SeqLen
  <2>4. CASE phase' = "linked" /\ success
    <3>1. \A i \in 1 .. Len(call_sites) : LinkedTo(i)
      BY <2>1, <2>3, <2>4 DEF LinkInv
    <3>2. \A i \in 1 .. Len(call_sites') : LinkedTo(i)'
      BY <3>1, <2>1, <1>1 DEF LinkedTo
    <3> QED BY <3>2, <2>2, <2>4, <1>2 DEF LinkInv, Phases
  <2>5. CASE phase' = "failed"
    BY <2>5, <1>2 DEF LinkInv, Phases
  <2> QED BY <2>1, <2>4, <2>5
<1>6. CASE UNCHANGED vars
  <2>1. phase' = phase /\ registry' = registry
    BY <1>6 DEF vars
  <2>2. \A i : LinkedTo(i)' <=> LinkedTo(i)
    BY <2>1, <1>1 DEF LinkedTo
  <2>3. phase \in {"pass1", "pass2"} => CodeInv'
    BY <1>1, CodeKept DEF LinkInv
  <2>4. phase = "pass2" => PassInv' /\ MemOk(NewFields, base)' /\ SitesOk(calls \cup NewCalls)'
    <3> SUFFICES ASSUME phase = "pass2" PROVE PassInv' /\ MemOk(NewFields, base)' /\ SitesOk(calls \cup NewCalls)'
      OBVIOUS
    <3>1. CodeInv /\ PassInv /\ MemOk(NewFields, base) /\ SitesOk(calls \cup NewCalls)
      BY DEF LinkInv
    <3>2. \A k : Field(k)' = Field(k) /\ HasField(k)' = HasField(k)
      BY <3>1, <1>1, CodeKept
    <3>3. \A k : Address(k)' = Address(k)
      BY <3>2, <1>1 DEF Address
    <3>4. \A S : Before(S)' = Before(S)
      BY <1>1 DEF Before
    <3>5. NewFields' = NewFields /\ NewCalls' = NewCalls /\ OldFields' = OldFields
      BY <3>3, <3>4, <1>1 DEF NewFields, NewCalls, OldFields
    <3>6. PassInv'
      BY <3>1, <3>3, <3>4, <1>1 DEF PassInv, IsLabel
    <3>7. MemOk(NewFields, base)'
      BY <3>1, <3>5, <1>1 DEF MemOk
    <3>8. SitesOk(calls \cup NewCalls)'
      BY <3>1, <3>5, <1>1 DEF SitesOk, IsSite, IsSeq
    <3> QED BY <3>6, <3>7, <3>8
  <2>5. phase \in {"idle", "pass1", "linking", "linked"} => MemOk({}, used)' /\ SitesOk(calls)'
    BY <1>1, LinkKept DEF LinkInv
  <2> QED BY <2>1, <2>2, <2>3, <2>4, <2>5, <1>1, <1>2, Zenon DEF LinkInv
<1> QED BY <1>3, <1>4, <1>5, <1>6

\* Every step keeps the invariant.
LEMMA NextLinkInv == Inv /\ LinkInv /\ [Next]_vars => LinkInv'
<1> SUFFICES ASSUME Inv, LinkInv, [Next]_vars PROVE LinkInv'
  OBVIOUS
<1>1. ASSUME NEW f \in Functions, StartFunction(f) PROVE LinkInv'
  BY <1>1, StartLinkInv
<1>2. ASSUME NEW inst \in Candidates, SizeInst(inst) PROVE LinkInv'
  BY <1>2, SizeLinkInv
<1>3. CASE Allocate
  BY <1>3, AllocateLinkInv
<1>4. CASE EmitInst
  BY <1>4, EmitLinkInv
<1>5. CASE FinishFunction
  BY <1>5, FinishLinkInv
<1>6. CASE LinkSite
  BY <1>6, SiteLinkInv
<1>7. CASE AllocateFails \/ StartLink \/ FinishLink \/ UNCHANGED vars
  BY <1>7, OtherLinkInv
<1> QED BY <1>1, <1>2, <1>3, <1>4, <1>5, <1>6, <1>7 DEF Next

\* The invariant holds throughout.
LEMMA LinkInvariance == Spec => []LinkInv
BY InitInv, InitLink, NextInv, NextLinkInv, PTL DEF Spec

\* Neither of the two calls of abort() in jit_compile_function is reached, whatever
\* the program: pass 2 never writes past the buffer and ends exactly at its end.
THEOREM NeverAborted == Spec => []NeverAborts
<1>1. LinkInv => NeverAborts
  BY DEF LinkInv, NeverAborts
<1> QED BY <1>1, LinkInvariance, PTL

\* As many calls come before one that is no call site as there are call sites.
LEMMA SitesPrecede ==
    ASSUME SitesOk(calls), IsFiniteSet(calls), NEW c \in calls, Len(call_sites) >= MAX_CALL_SITES,
           \A i \in 1 .. Len(call_sites) : call_sites[i].patch_location < c.loc
    PROVE  Cardinality({d \in calls : d.loc < c.loc}) >= MAX_CALL_SITES
<1> DEFINE S == 1 .. MAX_CALL_SITES
           T == {d \in calls : d.loc < c.loc}
           f == [i \in S |-> CHOOSE d \in calls : IsSite(i, d)]
<1>1. Len(call_sites) \in Nat /\ MAX_CALL_SITES \in Nat
  BY SeqLen, LimitsAssumption DEF SitesOk
<1>2. ASSUME NEW i \in S
      PROVE  /\ i \in 1 .. Len(call_sites) /\ f[i] \in calls
             /\ f[i].loc = call_sites[i].patch_location
  <2>1. i \in 1 .. Len(call_sites)
    BY <1>1
  <2>2. \E d \in calls : IsSite(i, d)
    BY <2>1 DEF SitesOk
  <2>3. f[i] \in calls /\ IsSite(i, f[i])
    BY <2>2
  <2> QED BY <2>1, <2>3 DEF IsSite
<1>3. f \in [S -> T]
  <2>1. \A i \in S : f[i] \in T
    <3> HIDE DEF f
    <3> QED BY <1>2
  <2>2. f = [i \in S |-> f[i]]
    OBVIOUS
  <2> HIDE DEF f, S, T
  <2> QED BY <2>1, <2>2
<1> HIDE DEF f
<1>4. ASSUME NEW i \in S, NEW j \in S, f[i] = f[j] PROVE i = j
  <2>1. call_sites[i].patch_location = call_sites[j].patch_location
    BY <1>2, <1>4
  <2>2. \A m, n \in 1 .. Len(call_sites) : m < n => call_sites[m].patch_location < call_sites[n].patch_location
    BY DEF SitesOk
  <2>3. call_sites[i].patch_location \in Int
    BY <1>2 DEF SitesOk
  <2>4. ~(i < j) /\ ~(j < i)
    BY <2>1, <2>2, <2>3, <1>2
  <2> QED BY <2>4, <1>1
<1>5. IsFiniteSet(T)
  <2>1. T \in SUBSET calls
    OBVIOUS
  <2> HIDE DEF T
  <2> QED BY <2>1, FS_Subset
<1>6. Cardinality(S) = MAX_CALL_SITES
  BY <1>1, FS_Interval
<1> HIDE DEF S, T
<1>7. f \in Injection(S, T)
  BY <1>3, <1>4 DEF Injection, IsInjective
<1>8. Cardinality(S) <= Cardinality(T)
  BY <1>5, <1>7, FS_Injection
<1>9. Cardinality(T) \in Nat
  BY <1>5, FS_CardinalityType
<1> QED BY <1>1, <1>6, <1>8, <1>9 DEF T

\* In every program, with any number of functions, jumps, labels and calls: the
\* jumps of finished code land behind their labels, nothing but displacements and
\* immediates is written a second time, and after a link that succeeded a call
\* holds the address of the function it names unless MAX_CALL_SITES calls precede it.
THEOREM LinkedAlways == Spec => []LinkedExactly
<1>1. LinkInv => LinkedExactly
  <2> SUFFICES ASSUME LinkInv PROVE LinkedExactly
    OBVIOUS
  <2>1. JumpsLand /\ IsFiniteSet(calls)
    BY DEF LinkInv, Finished
  <2>2. phase \in {"idle", "linking", "linked"} => MemOk({}, used) /\ SitesOk(calls)
    BY DEF LinkInv
  <2>3. OnlyFieldsPatched
    BY <2>2 DEF OnlyFieldsPatched, MemOk, OldFields
  <2>4. CallsResolved
    <3> SUFFICES ASSUME phase = "linked", NEW c \in calls
                 PROVE  \/ /\ c.loc \in DOMAIN memory
                           /\ \E j \in DOMAIN registry :
                                registry[j].name = c.func /\ memory[c.loc] = registry[j].code_addr
                        \/ Cardinality({d \in calls : d.loc < c.loc}) >= MAX_CALL_SITES
      BY DEF CallsResolved
    <3>1. MemOk({}, used) /\ SitesOk(calls) /\ \A i \in 1 .. Len(call_sites) : LinkedTo(i)
      BY DEF LinkInv
    <3>2. c.loc \in DOMAIN memory
      BY <3>1 DEF MemOk, OldFields
    <3>3. CASE \E i \in 1 .. Len(call_sites) : IsSite(i, c)
      BY <3>1, <3>2, <3>3 DEF IsSite, LinkedTo
    <3>4. CASE /\ Len(call_sites) >= MAX_CALL_SITES
               /\ \A i \in 1 .. Len(call_sites) : call_sites[i].patch_location < c.loc
      BY <3>1, <3>4, <2>1, SitesPrecede
    <3> QED BY <3>1, <3>3, <3>4 DEF SitesOk
  <2> QED BY <2>1, <2>3, <2>4 DEF LinkedExactly
<1> QED BY <1>1, LinkInvariance, PTL
===============================================================================
