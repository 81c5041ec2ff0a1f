---------------------------- MODULE Machine_proofs ----------------------------
(***************************************************************************)
(* Compiled code computes what the IR says and keeps the calling           *)
(* convention, for every function of straight-line code: any number of     *)
(* parameters, arguments, locals, virtual registers and instructions.      *)
(*                                                                         *)
(* The invariant says where everything lies between two IR instructions:   *)
(* the saved words of the frame, rsp, the local variables and the value of *)
(* every virtual register at its location.  Each encoder changes one       *)
(* location and otherwise only registers nothing is kept in (Effect), and  *)
(* locations, slots and saved words do not overlap.                        *)
(***************************************************************************)
EXTENDS Machine, NaturalsInduction, WellFoundedInduction, FiniteSetTheorems,
        SequenceTheorems, TLAPS

\* ---- natural numbers ----

\* Every nonempty set of natural numbers has a least element.
LEMMA Least ==
    ASSUME NEW T, T \subseteq Nat, T # {}
    PROVE  \E m \in T : \A k \in T : m <= k
<1> DEFINE R == OpToRel(<, Nat)
<1>1. IsWellFoundedOn(R, Nat)
  BY NatLessThanWellFounded
<1>2. \A a, b \in Nat : a < b => <<a, b>> \in R
  BY DEF OpToRel
<1> HIDE DEF R
<1>3. PICK m \in T : \A y \in T : ~(<<y, m>> \in R)
  BY <1>1, WFMin
<1>4. \A k \in T : k \in Nat /\ m \in Nat /\ ~(k < m)
  BY <1>2, <1>3, Zenon
<1>5. \A k \in T : m <= k
  BY <1>4
<1> QED BY <1>5

\* The induction theorems of the library take a predicate; Induction takes a set,
\* which the provers can instantiate: the set of the numbers with the property.

\* A set with 0 and the successors of its members has every natural number.
LEMMA Induction ==
    ASSUME NEW T, 0 \in T, \A n \in Nat : n \in T => n + 1 \in T
    PROVE  Nat \subseteq T
<1> SUFFICES ASSUME Nat \ T # {} PROVE FALSE
  OBVIOUS
<1>1. PICK m \in Nat \ T : \A k \in Nat \ T : m <= k
  BY Least
<1>2. m # 0
  OBVIOUS
<1>3. m - 1 \in Nat /\ ~(m <= m - 1)
  BY <1>2
<1>4. m - 1 \in T
  BY <1>1, <1>3
<1> QED BY <1>3, <1>4

\* ---- sequences ----

\* A sequence, of elements of whatever kind.
IsSeq(s) == \E S : s \in Seq(S)

\* A singleton is a sequence.
LEMMA Singleton == ASSUME NEW e PROVE IsSeq(<<e>>) /\ Len(<<e>>) = 1 /\ <<e>>[1] = e
<1>1. <<e>> \in Seq({e})
  OBVIOUS
<1> QED BY <1>1 DEF IsSeq

\* The length and the domain of a sequence.
LEMMA SeqLen == ASSUME NEW s, IsSeq(s) PROVE Len(s) \in Nat /\ DOMAIN s = 1 .. Len(s)
BY DEF IsSeq

\* A function on 1 .. n is a sequence of length n.
LEMMA Listed ==
    ASSUME NEW n \in Nat, NEW s, s = [i \in 1 .. n |-> s[i]]
    PROVE  IsSeq(s) /\ Len(s) = n
<1> DEFINE S == {s[i] : i \in 1 .. n}
<1>1. s \in [1 .. n -> S]
  OBVIOUS
<1>2. s \in Seq(S)
  BY <1>1, SeqDef
<1>3. Len(s) = n
  BY <1>1, <1>2
<1> QED BY <1>2, <1>3 DEF IsSeq

\* The elements of a concatenation.
LEMMA Joined ==
    ASSUME NEW s, NEW t, IsSeq(s), IsSeq(t)
    PROVE  /\ IsSeq(s \o t)
           /\ Len(s \o t) = Len(s) + Len(t)
           /\ \A i \in 1 .. Len(s) : (s \o t)[i] = s[i]
           /\ \A i \in 1 .. Len(t) : (s \o t)[Len(s) + i] = t[i]
<1>1. PICK S : s \in Seq(S)
  BY DEF IsSeq
<1>2. PICK T : t \in Seq(T)
  BY DEF IsSeq
<1>3. s \in Seq(S \cup T) /\ t \in Seq(S \cup T)
  BY <1>1, <1>2
<1> DEFINE U == S \cup T
<1> HIDE DEF U
<1>4. s \in Seq(U) /\ t \in Seq(U)
  BY <1>3 DEF U
<1>5. s \o t \in Seq(U)
  BY <1>4
<1>6. IsSeq(s \o t)
  BY <1>5 DEF IsSeq
<1> QED BY <1>4, <1>6

\* The function that FlattenSeq defines by recursion exists.
LEMMA FlattenExists ==
    ASSUME NEW seqs, NEW n \in Nat
    PROVE  \E f : f = [i \in 1 .. n |-> IF i = 1 THEN seqs[i] ELSE f[i - 1] \o seqs[i]]
<1> DEFINE J(x, i) == x \o seqs[i]
           T == {m \in Nat : \E f : f = [i \in 1 .. m |-> IF i = 1 THEN seqs[i] ELSE J(f[i - 1], i)]}
<1> HIDE DEF J
<1>1. 0 \in T
  <2> DEFINE f == [i \in 1 .. 0 |-> 0]
  <2>1. f = [i \in 1 .. 0 |-> IF i = 1 THEN seqs[i] ELSE J(f[i - 1], i)]
    OBVIOUS
  <2> HIDE DEF f
  <2> QED BY <2>1
<1>2. ASSUME NEW m \in Nat, m \in T PROVE m + 1 \in T
  <2>1. PICK f : f = [i \in 1 .. m |-> IF i = 1 THEN seqs[i] ELSE J(f[i - 1], i)]
    BY <1>2
  <2> DEFINE g == [i \in 1 .. m + 1 |->
                     IF i <= m THEN f[i] ELSE IF i = 1 THEN seqs[i] ELSE J(f[m], i)]
  <2>2. \A i \in 1 .. m + 1 : g[i] = IF i = 1 THEN seqs[i] ELSE J(g[i - 1], i)
    BY <2>1
  <2>3. g = [i \in 1 .. m + 1 |-> g[i]]
    OBVIOUS
  <2> HIDE DEF g
  <2>4. g = [i \in 1 .. m + 1 |-> IF i = 1 THEN seqs[i] ELSE J(g[i - 1], i)]
    BY <2>2, <2>3
  <2> QED BY <2>4
<1> HIDE DEF T
<1>3. n \in T
  BY <1>1, <1>2, Induction
<1> QED BY <1>3 DEF T, J

\* The empty sequence.
LEMMA NoElements == IsSeq(<<>>) /\ Len(<<>>) = 0
<1>1. <<>> \in Seq({1})
  OBVIOUS
<1> QED BY <1>1 DEF IsSeq

\* ---- running code ----

\* The function that Run defines by recursion exists.
LEMMA RunExists ==
    ASSUME NEW c, NEW code, NEW n \in Nat
    PROVE  \E f : f = [i \in 0 .. n |-> IF i = 0 THEN c ELSE Exec(f[i - 1], code[i])]
<1> DEFINE J(x, i) == Exec(x, code[i])
           T == {m \in Nat : \E f : f = [i \in 0 .. m |-> IF i = 0 THEN c ELSE J(f[i - 1], i)]}
<1> HIDE DEF J
<1>1. 0 \in T
  <2> DEFINE f == [i \in 0 .. 0 |-> c]
  <2>1. f = [i \in 0 .. 0 |-> IF i = 0 THEN c ELSE J(f[i - 1], i)]
    OBVIOUS
  <2> HIDE DEF f
  <2> QED BY <2>1
<1>2. ASSUME NEW m \in Nat, m \in T PROVE m + 1 \in T
  <2>1. PICK f : f = [i \in 0 .. m |-> IF i = 0 THEN c ELSE J(f[i - 1], i)]
    BY <1>2
  <2> DEFINE g == [i \in 0 .. m + 1 |-> IF i <= m THEN f[i] ELSE J(f[m], i)]
  <2>2. \A i \in 0 .. m + 1 : g[i] = IF i = 0 THEN c ELSE J(g[i - 1], i)
    BY <2>1
  <2>3. g = [i \in 0 .. m + 1 |-> g[i]]
    OBVIOUS
  <2> HIDE DEF g
  <2>4. g = [i \in 0 .. m + 1 |-> IF i = 0 THEN c ELSE J(g[i - 1], i)]
    BY <2>2, <2>3
  <2> QED BY <2>4
<1> HIDE DEF T
<1>3. n \in T
  BY <1>1, <1>2, Induction
<1> QED BY <1>3 DEF T, J

\* f is the states that the first n instructions of code lead through, from c on.
Steps(f, c, code, n) == f[0] = c /\ \A i \in 1 .. n : f[i] = Exec(f[i - 1], code[i])

\* The states a run goes through.
LEMMA RunOf ==
    ASSUME NEW c, NEW code, Len(code) \in Nat
    PROVE  \E f : Steps(f, c, code, Len(code)) /\ Run(c, code) = f[Len(code)]
<1> DEFINE n == Len(code)
           run == CHOOSE f : f = [i \in 0 .. n |-> IF i = 0 THEN c ELSE Exec(f[i - 1], code[i])]
<1>1. Run(c, code) = run[n]
  BY DEF Run
<1>2. run = [i \in 0 .. n |-> IF i = 0 THEN c ELSE Exec(run[i - 1], code[i])]
  BY RunExists
<1> HIDE DEF run
<1>3. run[0] = c
  BY <1>2
<1>4. ASSUME NEW i \in 1 .. n PROVE run[i] = Exec(run[i - 1], code[i])
  <2>1. i \in 0 .. n /\ i # 0
    OBVIOUS
  <2> QED BY <1>2, <2>1, Zenon
<1>5. Steps(run, c, code, n)
  BY <1>3, <1>4, Zenon DEF Steps
<1> QED BY <1>1, <1>5

\* Such states are determined by their first.
LEMMA RunIs ==
    ASSUME NEW c, NEW code, Len(code) \in Nat, NEW f, Steps(f, c, code, Len(code))
    PROVE  Run(c, code) = f[Len(code)]
<1> DEFINE n == Len(code)
<1>1. PICK g : Steps(g, c, code, n) /\ Run(c, code) = g[n]
  BY RunOf
<1> DEFINE T == {i \in Nat : i <= n => f[i] = g[i]}
<1>2. 0 \in T
  BY <1>1 DEF Steps
<1>3. ASSUME NEW i \in Nat, i \in T PROVE i + 1 \in T
  <2> SUFFICES ASSUME i + 1 <= n PROVE f[i + 1] = g[i + 1]
    OBVIOUS
  <2>1. i + 1 \in 1 .. n /\ (i + 1) - 1 = i /\ i <= n
    OBVIOUS
  <2>2. f[i] = g[i]
    BY <1>3, <2>1
  <2>3. f[i + 1] = Exec(f[i], code[i + 1]) /\ g[i + 1] = Exec(g[i], code[i + 1])
    BY <1>1, <2>1 DEF Steps
  <2> QED BY <2>2, <2>3
<1> HIDE DEF T
<1>4. n \in T
  BY <1>2, <1>3, Induction
<1> QED BY <1>1, <1>4 DEF T

\* No code, one instruction, code after code.
LEMMA RunNone == ASSUME NEW c PROVE Run(c, <<>>) = c
<1>1. Len(<<>>) = 0 /\ Len(<<>>) \in Nat
  OBVIOUS
<1>2. PICK f : Steps(f, c, <<>>, Len(<<>>)) /\ Run(c, <<>>) = f[Len(<<>>)]
  BY <1>1, RunOf
<1> QED BY <1>1, <1>2 DEF Steps

\* One instruction.
LEMMA RunOne == ASSUME NEW c, NEW ins PROVE Run(c, <<ins>>) = Exec(c, ins)
<1>1. Len(<<ins>>) = 1 /\ <<ins>>[1] = ins /\ 1 \in 1 .. 1 /\ 1 - 1 = 0 /\ 1 \in Nat
  OBVIOUS
<1>2. PICK f : Steps(f, c, <<ins>>, 1) /\ Run(c, <<ins>>) = f[1]
  <2> DEFINE code == <<ins>>
  <2>1. Len(code) = 1 /\ Len(code) \in Nat
    BY <1>1
  <2> HIDE DEF code
  <2>2. PICK f : Steps(f, c, code, Len(code)) /\ Run(c, code) = f[Len(code)]
    BY <2>1, RunOf
  <2> QED BY <2>1, <2>2 DEF code
<1>3. f[0] = c /\ f[1] = Exec(f[1 - 1], <<ins>>[1])
  BY <1>1, <1>2, Zenon DEF Steps
<1> QED BY <1>1, <1>2, <1>3

\* A piece of code after another.
LEMMA RunTwo ==
    ASSUME NEW c, NEW s, NEW t, IsSeq(s), IsSeq(t)
    PROVE  Run(c, s \o t) = Run(Run(c, s), t)
<1> DEFINE m == Len(s)
           n == Len(t)
           st == s \o t
<1>1. /\ m \in Nat /\ n \in Nat /\ Len(st) = m + n
      /\ \A i \in 1 .. m : st[i] = s[i]
      /\ \A i \in 1 .. n : st[m + i] = t[i]
  BY SeqLen, Joined
<1> HIDE DEF m, n, st
<1>2. PICK f : Steps(f, c, s, m) /\ Run(c, s) = f[m]
  BY <1>1, RunOf DEF m
<1>3. PICK g : Steps(g, f[m], t, n) /\ Run(f[m], t) = g[n]
  BY <1>1, RunOf DEF n
<1> DEFINE h == [i \in 0 .. m + n |-> IF i <= m THEN f[i] ELSE g[i - m]]
<1>4. h[0] = c /\ h[m + n] = g[n]
  BY <1>1, <1>2, <1>3 DEF Steps
<1>5. ASSUME NEW i \in 1 .. m + n PROVE h[i] = Exec(h[i - 1], st[i])
  <2>1. CASE i <= m
    <3>1. i \in 1 .. m /\ i \in 0 .. m + n /\ i - 1 \in 0 .. m + n /\ i - 1 <= m
      BY <1>1, <2>1
    <3>2. h[i] = f[i] /\ h[i - 1] = f[i - 1]
      BY <2>1, <3>1
    <3>3. f[i] = Exec(f[i - 1], s[i]) /\ st[i] = s[i]
      BY <1>1, <1>2, <3>1 DEF Steps
    <3> QED BY <3>2, <3>3
  <2>2. CASE i > m
    <3> DEFINE k == i - m
    <3>1. k \in 1 .. n /\ i = m + k /\ i \in 0 .. m + n /\ ~(i <= m) /\ i - 1 \in 0 .. m + n
      BY <1>1, <2>2
    <3>2. h[i] = g[k]
      BY <3>1
    <3>3. h[i - 1] = g[k - 1]
      <4>1. CASE k = 1
        <5>1. i - 1 = m /\ i - 1 <= m /\ k - 1 = 0
          BY <1>1, <4>1
        <5> QED BY <1>3, <3>1, <5>1 DEF Steps
      <4>2. CASE k # 1
        <5>1. ~(i - 1 <= m) /\ (i - 1) - m = k - 1
          BY <1>1, <3>1, <4>2
        <5> QED BY <3>1, <5>1
      <4> QED BY <4>1, <4>2
    <3>4. g[k] = Exec(g[k - 1], t[k]) /\ st[i] = t[k]
      BY <1>1, <1>3, <3>1 DEF Steps
    <3> QED BY <3>2, <3>3, <3>4
  <2> QED BY <1>1, <2>1, <2>2
<1> HIDE DEF h
<1>6. Run(c, st) = h[m + n]
  <2>1. Len(st) \in Nat /\ Len(st) = m + n
    BY <1>1
  <2>2. Steps(h, c, st, Len(st))
    BY <1>4, <1>5, <2>1, Zenon DEF Steps
  <2>3. Run(c, st) = h[Len(st)]
    BY <2>1, <2>2, RunIs
  <2> QED BY <2>1, <2>3
<1> QED BY <1>2, <1>3, <1>4, <1>6 DEF st

\* ---- the machine ----

\* A state of the machine.
IsCpu(c) ==
    /\ c = [regs |-> c.regs, mem |-> c.mem, rsp |-> c.rsp, flags |-> c.flags, jump |-> c.jump,
            nargs |-> c.nargs, aligned |-> c.aligned]
    /\ c.regs = [r \in Registers |-> c.regs[r]]
    /\ c.mem = [a \in DOMAIN c.mem |-> c.mem[a]]
    /\ c.rsp \in Int
    /\ c.aligned \in BOOLEAN

\* A register is set.
LEMMA RegSet ==
    ASSUME NEW c, IsCpu(c), NEW d \in Registers, NEW v
    PROVE  LET n == SetReg(c, d, v) IN
           /\ IsCpu(n)
           /\ n.regs[d] = v
           /\ \A r \in Registers : r # d => n.regs[r] = c.regs[r]
           /\ \A a : Read(n, a) = Read(c, a)
           /\ n.rsp = c.rsp /\ n.flags = c.flags /\ n.jump = c.jump /\ n.nargs = c.nargs
           /\ n.aligned = c.aligned
<1> DEFINE R == [c.regs EXCEPT ![d] = v]
           n == SetReg(c, d, v)
           k == [regs |-> R, mem |-> c.mem, rsp |-> c.rsp, flags |-> c.flags, jump |-> c.jump,
                 nargs |-> c.nargs, aligned |-> c.aligned]
<1>1. n = k
  <2>1. n = [c EXCEPT !.regs = R]
    BY DEF SetReg
  <2> HIDE DEF R
  <2> QED BY <2>1 DEF IsCpu
<1>2. /\ R = [r \in Registers |-> R[r]] /\ R[d] = v
      /\ \A r \in Registers : r # d => R[r] = c.regs[r]
  BY DEF IsCpu
<1> HIDE DEF R, n
<1>3. /\ k.regs = R /\ k.mem = c.mem /\ k.rsp = c.rsp /\ k.flags = c.flags /\ k.jump = c.jump
      /\ k.nargs = c.nargs /\ k.aligned = c.aligned
      /\ k = [regs |-> k.regs, mem |-> k.mem, rsp |-> k.rsp, flags |-> k.flags, jump |-> k.jump,
              nargs |-> k.nargs, aligned |-> k.aligned]
  OBVIOUS
<1> HIDE DEF k
<1>4. IsCpu(k)
  <2>1. /\ c.mem = [a \in DOMAIN c.mem |-> c.mem[a]] /\ c.rsp \in Int /\ c.aligned \in BOOLEAN
    BY DEF IsCpu
  <2> QED BY <1>2, <1>3, <2>1, Zenon DEF IsCpu
<1>5. \A a : Read(k, a) = Read(c, a)
  BY <1>3 DEF Read
<1> QED BY <1>1, <1>2, <1>3, <1>4, <1>5 DEF n

\* A word is written.
LEMMA WordWritten ==
    ASSUME NEW c, IsCpu(c), NEW d, NEW v
    PROVE  LET n == Write(c, d, v) IN
           /\ IsCpu(n)
           /\ Read(n, d) = v
           /\ \A a : a # d => Read(n, a) = Read(c, a)
           /\ n.regs = c.regs /\ n.rsp = c.rsp /\ n.flags = c.flags /\ n.jump = c.jump
           /\ n.nargs = c.nargs /\ n.aligned = c.aligned
<1> DEFINE M == With(c.mem, d, v)
           n == Write(c, d, v)
           k == [regs |-> c.regs, mem |-> M, rsp |-> c.rsp, flags |-> c.flags, jump |-> c.jump,
                 nargs |-> c.nargs, aligned |-> c.aligned]
<1>1. n = k
  <2>1. n = [c EXCEPT !.mem = M]
    <3>1. c.mem = c.mem
      OBVIOUS
    <3> QED BY DEF Write
  <2> HIDE DEF M
  <2> QED BY <2>1 DEF IsCpu
<1>2. /\ M = [a \in DOMAIN M |-> M[a]] /\ M[d] = v /\ d \in DOMAIN M
      /\ \A a : a # d => (a \in DOMAIN M <=> a \in DOMAIN c.mem)
      /\ \A a : a # d /\ a \in DOMAIN c.mem => M[a] = c.mem[a]
  <2>1. M = [a \in {d} \cup DOMAIN c.mem |-> IF a = d THEN v ELSE c.mem[a]]
    BY DEF With
  <2> HIDE DEF M
  <2> QED BY <2>1
<1> HIDE DEF M, n
<1>3. /\ k.regs = c.regs /\ k.mem = M /\ k.rsp = c.rsp /\ k.flags = c.flags /\ k.jump = c.jump
      /\ k.nargs = c.nargs /\ k.aligned = c.aligned
      /\ k = [regs |-> k.regs, mem |-> k.mem, rsp |-> k.rsp, flags |-> k.flags, jump |-> k.jump,
              nargs |-> k.nargs, aligned |-> k.aligned]
  OBVIOUS
<1> HIDE DEF k
<1>4. IsCpu(k)
  <2>1. /\ c.regs = [r \in Registers |-> c.regs[r]] /\ c.rsp \in Int /\ c.aligned \in BOOLEAN
    BY DEF IsCpu
  <2> QED BY <1>2, <1>3, <2>1, Zenon DEF IsCpu
<1>5. Read(k, d) = v
  BY <1>2, <1>3 DEF Read
<1>6. \A a : a # d => Read(k, a) = Read(c, a)
  BY <1>2, <1>3 DEF Read
<1> QED BY <1>1, <1>3, <1>4, <1>5, <1>6 DEF n

\* The other fields.
LEMMA RspSet ==
    ASSUME NEW c, IsCpu(c), NEW x \in Int
    PROVE  LET n == SetRsp(c, x) IN
           /\ IsCpu(n) /\ n.rsp = x /\ n.regs = c.regs /\ n.flags = c.flags /\ n.jump = c.jump
           /\ n.nargs = c.nargs /\ n.aligned = c.aligned /\ \A a : Read(n, a) = Read(c, a)
<1>1. SetRsp(c, x) = [regs |-> c.regs, mem |-> c.mem, rsp |-> x, flags |-> c.flags,
                      jump |-> c.jump, nargs |-> c.nargs, aligned |-> c.aligned]
  BY DEF IsCpu, SetRsp
<1> QED BY <1>1 DEF IsCpu, Read

\* The flags set, and nothing else.
LEMMA FlagsSet ==
    ASSUME NEW c, IsCpu(c), NEW x
    PROVE  LET n == SetFlags(c, x) IN
           /\ IsCpu(n) /\ n.flags = x /\ n.regs = c.regs /\ n.rsp = c.rsp /\ n.jump = c.jump
           /\ n.nargs = c.nargs /\ n.aligned = c.aligned /\ \A a : Read(n, a) = Read(c, a)
<1>1. SetFlags(c, x) = [regs |-> c.regs, mem |-> c.mem, rsp |-> c.rsp, flags |-> x,
                        jump |-> c.jump, nargs |-> c.nargs, aligned |-> c.aligned]
  BY DEF IsCpu, SetFlags
<1> QED BY <1>1 DEF IsCpu, Read

\* The observation set, and nothing else.
LEMMA JumpSet ==
    ASSUME NEW c, IsCpu(c), NEW x
    PROVE  LET n == SetJump(c, x) IN
           /\ IsCpu(n) /\ n.jump = x /\ n.regs = c.regs /\ n.rsp = c.rsp /\ n.flags = c.flags
           /\ n.nargs = c.nargs /\ n.aligned = c.aligned /\ \A a : Read(n, a) = Read(c, a)
<1>1. SetJump(c, x) = [regs |-> c.regs, mem |-> c.mem, rsp |-> c.rsp, flags |-> c.flags,
                       jump |-> x, nargs |-> c.nargs, aligned |-> c.aligned]
  BY DEF IsCpu, SetJump
<1> QED BY <1>1 DEF IsCpu, Read

\* ---- single instructions ----

\* A machine in the body of a function.
InFrame(c) == IsCpu(c) /\ c.regs[RBP] = <<"address", 0>>

\* Displacements are addresses.
LEMMA AtRbp == ASSUME NEW c, InFrame(c), NEW disp \in Int PROVE At(c, disp) = disp
BY DEF At, InFrame

\* What a store of this width puts into a word of memory.
Stored(width, v) ==
    IF width = 1 THEN <<"store1", v>> ELSE IF width = 4 THEN <<"store4", v>> ELSE v

\* ---- the effect of each instruction ----

\* mov reg, reg.
LEMMA RunMov ==
    ASSUME NEW c, NEW d, NEW s
    PROVE  /\ IsSeq(emit_mov_reg_reg(d, s))
           /\ Run(c, emit_mov_reg_reg(d, s)) = SetReg(c, d, IF s = RSP THEN <<"address", c.rsp>> ELSE c.regs[s])
<1> DEFINE ins == Ins("mov", 3, d, s)
<1>1. emit_mov_reg_reg(d, s) = <<ins>>
  BY DEF emit_mov_reg_reg
<1>2. Exec(c, ins) = SetReg(c, d, IF s = RSP THEN <<"address", c.rsp>> ELSE c.regs[s])
  BY DEF Exec, Ins, AluOps, ArithOps, LogicOps, ShiftOps, GroupOps
<1> HIDE DEF ins
<1> QED BY <1>1, <1>2, RunOne, Singleton

\* mov reg, imm64.
LEMMA RunImm ==
    ASSUME NEW c, NEW d, NEW s
    PROVE  /\ IsSeq(emit_mov_imm(d, s))
           /\ Run(c, emit_mov_imm(d, s)) = SetReg(c, d, <<"const", s>>)
<1> DEFINE ins == Ins("imm", 10, d, s)
<1>1. emit_mov_imm(d, s) = <<ins>>
  BY DEF emit_mov_imm
<1>2. Exec(c, ins) = SetReg(c, d, <<"const", s>>)
  BY DEF Exec, Ins, AluOps, ArithOps, LogicOps, ShiftOps, GroupOps
<1> HIDE DEF ins
<1> QED BY <1>1, <1>2, RunOne, Singleton

\* A load of a word.
LEMMA RunLoad ==
    ASSUME NEW c, NEW d, NEW s
    PROVE  /\ IsSeq(emit_load_param(d, s))
           /\ Run(c, emit_load_param(d, s)) = SetReg(c, d, Read(c, At(c, s)))
<1> DEFINE ins == Ins("load", 7, d, s)
<1>1. emit_load_param(d, s) = <<ins>>
  BY DEF emit_load_param
<1>2. Exec(c, ins) = SetReg(c, d, Read(c, At(c, s)))
  BY DEF Exec, Ins, AluOps, ArithOps, LogicOps, ShiftOps, GroupOps
<1> HIDE DEF ins
<1> QED BY <1>1, <1>2, RunOne, Singleton

\* A store of a word.
LEMMA RunStore ==
    ASSUME NEW c, NEW d, NEW s
    PROVE  /\ IsSeq(emit_store_local(s, d))
           /\ Run(c, emit_store_local(s, d)) = Write(c, At(c, d), c.regs[s])
<1> DEFINE ins == Ins("store", 7, d, s)
<1>1. emit_store_local(s, d) = <<ins>>
  BY DEF emit_store_local
<1>2. Exec(c, ins) = Write(c, At(c, d), c.regs[s])
  BY DEF Exec, Ins, AluOps, ArithOps, LogicOps, ShiftOps, GroupOps
<1> HIDE DEF ins
<1> QED BY <1>1, <1>2, RunOne, Singleton

\* A load of a local variable, by its width.
LEMMA RunLoadSized ==
    ASSUME NEW c, NEW d, NEW s, NEW w
    PROVE  /\ IsSeq(emit_load_signext(d, s, w))
           /\ Run(c, emit_load_signext(d, s, w)) = SetReg(c, d, Loaded(w, Read(c, At(c, s))))
<1> DEFINE ins == IF w = 1 THEN Ins("load1", 8, d, s) ELSE IF w = 4 THEN Ins("load4", 7, d, s) ELSE Ins("load", 7, d, s)
<1>1. emit_load_signext(d, s, w) = <<ins>>
  BY DEF emit_load_signext, emit_load_param
<1>2. Exec(c, ins) = SetReg(c, d, Loaded(w, Read(c, At(c, s))))
  BY DEF Exec, Ins, Loaded, AluOps, ArithOps, LogicOps, ShiftOps, GroupOps
<1> HIDE DEF ins
<1> QED BY <1>1, <1>2, RunOne, Singleton

\* A store to a local variable, by its width.
LEMMA RunStoreSized ==
    ASSUME NEW c, NEW d, NEW s, NEW w
    PROVE  /\ IsSeq(emit_store_sized(s, d, w))
           /\ Run(c, emit_store_sized(s, d, w)) = Write(c, At(c, d), Stored(w, c.regs[s]))
<1> DEFINE ins == IF w = 1 THEN Ins("store1", 7, d, s) ELSE IF w = 4 THEN Ins("store4", IF Extended(s) THEN 7 ELSE 6, d, s) ELSE Ins("store", 7, d, s)
<1>1. emit_store_sized(s, d, w) = <<ins>>
  BY DEF emit_store_sized, emit_store_local
<1>2. Exec(c, ins) = Write(c, At(c, d), Stored(w, c.regs[s]))
  BY DEF Exec, Ins, Stored, AluOps, ArithOps, LogicOps, ShiftOps, GroupOps
<1> HIDE DEF ins
<1> QED BY <1>1, <1>2, RunOne, Singleton

\* add, sub, and, or, xor.
LEMMA RunAlu ==
    ASSUME NEW c, NEW d, NEW s, NEW o \in AluOps
    PROVE  /\ IsSeq(emit_alu(o, d, s))
           /\ Run(c, emit_alu(o, d, s)) = SetReg(c, d, <<o, c.regs[d], c.regs[s]>>)
<1> DEFINE ins == Ins(o, 3, d, s)
<1>1. emit_alu(o, d, s) = <<ins>>
  BY DEF emit_alu
<1>2. Exec(c, ins) = SetReg(c, d, <<o, c.regs[d], c.regs[s]>>)
  BY DEF Exec, Ins, AluOps, ArithOps, LogicOps, ShiftOps, GroupOps
<1> HIDE DEF ins
<1> QED BY <1>1, <1>2, RunOne, Singleton

\* A shift by cl.
LEMMA RunShift ==
    ASSUME NEW c, NEW d, NEW s, NEW o \in ShiftOps
    PROVE  /\ IsSeq(<<Ins(o, 3, d, s)>>)
           /\ Run(c, <<Ins(o, 3, d, s)>>) = SetReg(c, d, <<o, c.regs[d], c.regs[s]>>)
<1> DEFINE ins == Ins(o, 3, d, s)
<1>1. <<Ins(o, 3, d, s)>> = <<ins>>
  BY DEF Ins
<1>2. Exec(c, ins) = SetReg(c, d, <<o, c.regs[d], c.regs[s]>>)
  BY DEF Exec, Ins, AluOps, ArithOps, LogicOps, ShiftOps, GroupOps
<1> HIDE DEF ins
<1> QED BY <1>1, <1>2, RunOne, Singleton

\* imul.
LEMMA RunMul ==
    ASSUME NEW c, NEW d, NEW s
    PROVE  /\ IsSeq(emit_imul_r64(d, s))
           /\ Run(c, emit_imul_r64(d, s)) = SetReg(c, d, <<"MUL", c.regs[d], c.regs[s]>>)
<1> DEFINE ins == Ins("imul", 4, d, s)
<1>1. emit_imul_r64(d, s) = <<ins>>
  BY DEF emit_imul_r64
<1>2. Exec(c, ins) = SetReg(c, d, <<"MUL", c.regs[d], c.regs[s]>>)
  BY DEF Exec, Ins, AluOps, ArithOps, LogicOps, ShiftOps, GroupOps
<1> HIDE DEF ins
<1> QED BY <1>1, <1>2, RunOne, Singleton

\* neg, and the bitwise not.
LEMMA RunGroup ==
    ASSUME NEW c, NEW d, NEW s, NEW o \in GroupOps
    PROVE  /\ IsSeq(<<Ins(o, 3, d, s)>>)
           /\ Run(c, <<Ins(o, 3, d, s)>>) = SetReg(c, d, <<o, c.regs[d]>>)
<1> DEFINE ins == Ins(o, 3, d, s)
<1>1. <<Ins(o, 3, d, s)>> = <<ins>>
  BY DEF Ins
<1>2. Exec(c, ins) = SetReg(c, d, <<o, c.regs[d]>>)
  BY DEF Exec, Ins, AluOps, ArithOps, LogicOps, ShiftOps, GroupOps
<1> HIDE DEF ins
<1> QED BY <1>1, <1>2, RunOne, Singleton

\* cqo, before a division.
LEMMA RunCqo ==
    ASSUME NEW c, NEW d, NEW s
    PROVE  /\ IsSeq(<<Ins("cqo", 2, d, s)>>)
           /\ Run(c, <<Ins("cqo", 2, d, s)>>) = SetReg(c, d, <<"sign of", c.regs[s]>>)
<1> DEFINE ins == Ins("cqo", 2, d, s)
<1>1. <<Ins("cqo", 2, d, s)>> = <<ins>>
  BY DEF Ins
<1>2. Exec(c, ins) = SetReg(c, d, <<"sign of", c.regs[s]>>)
  BY DEF Exec, Ins, AluOps, ArithOps, LogicOps, ShiftOps, GroupOps
<1> HIDE DEF ins
<1> QED BY <1>1, <1>2, RunOne, Singleton

\* idiv.
LEMMA RunIdiv ==
    ASSUME NEW c, NEW d, NEW s, c.regs[RDX] = <<"sign of", c.regs[d]>>
    PROVE  /\ IsSeq(<<Ins("idiv", 3, d, s)>>)
           /\ Run(c, <<Ins("idiv", 3, d, s)>>) = SetReg(SetReg(c, d, <<"DIV", c.regs[d], c.regs[s]>>), RDX, Junk)
<1> DEFINE ins == Ins("idiv", 3, d, s)
<1>1. <<Ins("idiv", 3, d, s)>> = <<ins>>
  BY DEF Ins
<1>2. Exec(c, ins) = SetReg(SetReg(c, d, <<"DIV", c.regs[d], c.regs[s]>>), RDX, Junk)
  BY DEF Exec, Ins, AluOps, ArithOps, LogicOps, ShiftOps, GroupOps
<1> HIDE DEF ins
<1> QED BY <1>1, <1>2, RunOne, Singleton

\* cmp.
LEMMA RunCmp ==
    ASSUME NEW c, NEW d, NEW s
    PROVE  /\ IsSeq(emit_cmp(d, s))
           /\ Run(c, emit_cmp(d, s)) = SetFlags(c, <<c.regs[d], c.regs[s]>>)
<1> DEFINE ins == Ins("cmp", 3, d, s)
<1>1. emit_cmp(d, s) = <<ins>>
  BY DEF emit_cmp
<1>2. Exec(c, ins) = SetFlags(c, <<c.regs[d], c.regs[s]>>)
  BY DEF Exec, Ins, AluOps, ArithOps, LogicOps, ShiftOps, GroupOps
<1> HIDE DEF ins
<1> QED BY <1>1, <1>2, RunOne, Singleton

\* test.
LEMMA RunTest ==
    ASSUME NEW c, NEW d
    PROVE  /\ IsSeq(emit_test(d, d))
           /\ Run(c, emit_test(d, d)) = SetFlags(c, <<c.regs[d], Zero>>)
<1> DEFINE ins == Ins("test", 3, d, d)
<1>1. emit_test(d, d) = <<ins>>
  BY DEF emit_test
<1>2. Exec(c, ins) = SetFlags(c, <<c.regs[d], Zero>>)
  BY DEF Exec, Ins, AluOps, ArithOps, LogicOps, ShiftOps, GroupOps
<1> HIDE DEF ins
<1> QED BY <1>1, <1>2, RunOne, Singleton

\* cmp with 0.
LEMMA RunCmpZero ==
    ASSUME NEW c, NEW d
    PROVE  /\ IsSeq(emit_cmp_zero(d))
           /\ Run(c, emit_cmp_zero(d)) = SetFlags(c, <<c.regs[d], Zero>>)
<1> DEFINE ins == Ins("cmp0", 4, d, 0)
<1>1. emit_cmp_zero(d) = <<ins>>
  BY DEF emit_cmp_zero
<1>2. Exec(c, ins) = SetFlags(c, <<c.regs[d], Zero>>)
  BY DEF Exec, Ins, AluOps, ArithOps, LogicOps, ShiftOps, GroupOps
<1> HIDE DEF ins
<1> QED BY <1>1, <1>2, RunOne, Singleton

\* setcc.
LEMMA RunSetcc ==
    ASSUME NEW c, NEW d, NEW s
    PROVE  /\ IsSeq(emit_setcc(s, d))
           /\ Run(c, emit_setcc(s, d)) = SetReg(c, d, <<"byte", <<s>> \o c.flags>>)
<1> DEFINE ins == Ins("setcc", IF d < 4 THEN 3 ELSE 4, d, s)
<1>1. emit_setcc(s, d) = <<ins>>
  BY DEF emit_setcc
<1>2. Exec(c, ins) = SetReg(c, d, <<"byte", <<s>> \o c.flags>>)
  BY DEF Exec, Ins, AluOps, ArithOps, LogicOps, ShiftOps, GroupOps
<1> HIDE DEF ins
<1> QED BY <1>1, <1>2, RunOne, Singleton

\* movzx.
LEMMA RunMovzx ==
    ASSUME NEW c, NEW d, NEW s
    PROVE  /\ IsSeq(emit_movzx(d, s))
           /\ Run(c, emit_movzx(d, s)) = SetReg(c, d, IF c.regs[s][1] = "byte" THEN c.regs[s][2] ELSE <<"byte of", c.regs[s]>>)
<1> DEFINE ins == Ins("movzx", 4, d, s)
<1>1. emit_movzx(d, s) = <<ins>>
  BY DEF emit_movzx
<1>2. Exec(c, ins) = SetReg(c, d, IF c.regs[s][1] = "byte" THEN c.regs[s][2] ELSE <<"byte of", c.regs[s]>>)
  BY DEF Exec, Ins, AluOps, ArithOps, LogicOps, ShiftOps, GroupOps
<1> HIDE DEF ins
<1> QED BY <1>1, <1>2, RunOne, Singleton

\* push.
LEMMA RunPush ==
    ASSUME NEW c, NEW d
    PROVE  /\ IsSeq(emit_push(d))
           /\ Run(c, emit_push(d)) = SetRsp(Write(c, c.rsp - WORD_SIZE, c.regs[d]), c.rsp - WORD_SIZE)
<1> DEFINE ins == Ins("push", IF Extended(d) THEN 2 ELSE 1, d, 0)
<1>1. emit_push(d) = <<ins>>
  BY DEF emit_push
<1>2. Exec(c, ins) = SetRsp(Write(c, c.rsp - WORD_SIZE, c.regs[d]), c.rsp - WORD_SIZE)
  BY DEF Exec, Ins, AluOps, ArithOps, LogicOps, ShiftOps, GroupOps
<1> HIDE DEF ins
<1> QED BY <1>1, <1>2, RunOne, Singleton

\* pop.
LEMMA RunPop ==
    ASSUME NEW c, NEW d
    PROVE  /\ IsSeq(emit_pop(d))
           /\ Run(c, emit_pop(d)) = SetRsp(SetReg(c, d, Read(c, c.rsp)), c.rsp + WORD_SIZE)
<1> DEFINE ins == Ins("pop", IF Extended(d) THEN 2 ELSE 1, d, 0)
<1>1. emit_pop(d) = <<ins>>
  BY DEF emit_pop
<1>2. Exec(c, ins) = SetRsp(SetReg(c, d, Read(c, c.rsp)), c.rsp + WORD_SIZE)
  BY DEF Exec, Ins, AluOps, ArithOps, LogicOps, ShiftOps, GroupOps
<1> HIDE DEF ins
<1> QED BY <1>1, <1>2, RunOne, Singleton

\* add to rsp.
LEMMA RunAddRsp ==
    ASSUME NEW c, NEW d
    PROVE  /\ IsSeq(emit_add_rsp(d))
           /\ Run(c, emit_add_rsp(d)) = SetRsp(c, c.rsp + d)
<1> DEFINE ins == Ins("addrsp", 7, d, 0)
<1>1. emit_add_rsp(d) = <<ins>>
  BY DEF emit_add_rsp
<1>2. Exec(c, ins) = SetRsp(c, c.rsp + d)
  BY DEF Exec, Ins, AluOps, ArithOps, LogicOps, ShiftOps, GroupOps
<1> HIDE DEF ins
<1> QED BY <1>1, <1>2, RunOne, Singleton

\* lea to rsp, of the epilogue.
LEMMA RunLeaRsp ==
    ASSUME NEW c, NEW d
    PROVE  /\ IsSeq(<<Ins("learsp", 4, d, 0)>>)
           /\ Run(c, <<Ins("learsp", 4, d, 0)>>) = SetRsp(c, At(c, d))
<1> DEFINE ins == Ins("learsp", 4, d, 0)
<1>1. <<Ins("learsp", 4, d, 0)>> = <<ins>>
  BY DEF Ins
<1>2. Exec(c, ins) = SetRsp(c, At(c, d))
  BY DEF Exec, Ins, AluOps, ArithOps, LogicOps, ShiftOps, GroupOps
<1> HIDE DEF ins
<1> QED BY <1>1, <1>2, RunOne, Singleton

\* A conditional jump records what it would jump on.
LEMMA RunJump ==
    ASSUME NEW c, NEW o \in {"JZ", "JNZ"}, NEW l
    PROVE  /\ IsSeq(emit_jump(o, l))
           /\ Run(c, emit_jump(o, l)) = SetJump(c, <<o, c.flags>>)
<1> DEFINE ins == Ins(o, IF o = "JMP" THEN 1 + 4 ELSE 2 + 4, l, 0)
<1>1. emit_jump(o, l) = <<ins>>
  BY DEF emit_jump
<1>2. Exec(c, ins) = SetJump(c, <<o, c.flags>>)
  BY DEF Exec, Ins, AluOps, ArithOps, LogicOps, ShiftOps, GroupOps
<1> HIDE DEF ins
<1> QED BY <1>1, <1>2, RunOne, Singleton

\* ret.
LEMMA RunRet ==
    ASSUME NEW c
    PROVE  /\ IsSeq(<<Ins("ret", 1, 0, 0)>>)
           /\ Run(c, <<Ins("ret", 1, 0, 0)>>) = SetRsp(SetJump(c, Read(c, c.rsp)), c.rsp + WORD_SIZE)
<1> DEFINE ins == Ins("ret", 1, 0, 0)
<1>1. <<Ins("ret", 1, 0, 0)>> = <<ins>>
  BY DEF Ins
<1>2. Exec(c, ins) = SetRsp(SetJump(c, Read(c, c.rsp)), c.rsp + WORD_SIZE)
  BY DEF Exec, Ins, AluOps, ArithOps, LogicOps, ShiftOps, GroupOps
<1> HIDE DEF ins
<1> QED BY <1>1, <1>2, RunOne, Singleton

\* The address of a callee is loaded and it is called.
LEMMA RunCall ==
    ASSUME NEW c, NEW func
    PROVE  /\ IsSeq(<<Ins("movabs", 10, func, 0), Ins("call", 2, RAX, 0)>>)
           /\ Run(c, <<Ins("movabs", 10, func, 0), Ins("call", 2, RAX, 0)>>) =
                CallResult(SetReg(c, RAX, <<"code of", func>>))
<1> DEFINE i == Ins("movabs", 10, func, 0)
           j == Ins("call", 2, RAX, 0)
<1>1. \A k : Exec(k, i) = SetReg(k, RAX, <<"code of", func>>)
  BY DEF Exec, Ins, AluOps, ArithOps, LogicOps, ShiftOps, GroupOps
<1>2. \A k : Exec(k, j) = CallResult(k)
  BY DEF Exec, Ins, AluOps, ArithOps, LogicOps, ShiftOps, GroupOps
<1> HIDE DEF i, j
<1>3. <<i, j>> = <<i>> \o <<j>>
  <2>1. <<i>> \in Seq({i, j}) /\ <<j>> \in Seq({i, j}) /\ <<i, j>> \in Seq({i, j})
    OBVIOUS
  <2>2. <<i>> \o <<j>> \in Seq({i, j}) /\ Len(<<i>> \o <<j>>) = 2
    BY <2>1
  <2>3. (<<i>> \o <<j>>)[1] = i /\ (<<i>> \o <<j>>)[2] = j
    BY <2>1
  <2> DEFINE t == <<i>> \o <<j>>
  <2> HIDE DEF t
  <2>4. t \in Seq({i, j}) /\ Len(t) = 2 /\ t[1] = i /\ t[2] = j
    BY <2>2, <2>3 DEF t
  <2>5. t = <<i, j>>
    BY <2>4
  <2> QED BY <2>5 DEF t
<1>4. IsSeq(<<i>>) /\ IsSeq(<<j>>)
  BY Singleton
<1>5. IsSeq(<<i, j>>)
  BY <1>3, <1>4, Joined
<1>6. Run(c, <<i, j>>) = Exec(Exec(c, i), j)
  <2>1. Run(c, <<i>> \o <<j>>) = Run(Run(c, <<i>>), <<j>>)
    BY <1>4, RunTwo
  <2>2. Run(c, <<i>>) = Exec(c, i) /\ Run(Exec(c, i), <<j>>) = Exec(Exec(c, i), j)
    BY RunOne
  <2> QED BY <1>3, <2>1, <2>2
<1> QED BY <1>1, <1>2, <1>5, <1>6 DEF i, j

\* ---- locations ----

\* n is c but for the registers of X and the flags.
Same(c, n, X) ==
    /\ InFrame(n)
    /\ \A r \in Registers \ X : n.regs[r] = c.regs[r]
    /\ \A a : Read(n, a) = Read(c, a)
    /\ n.rsp = c.rsp /\ n.jump = c.jump /\ n.nargs = c.nargs /\ n.aligned = c.aligned

\* A state like a state like another.
LEMMA SameThen ==
    ASSUME NEW c, NEW n, NEW p, NEW X, NEW Y, Same(c, n, X), Same(n, p, Y)
    PROVE  Same(c, p, X \cup Y)
BY Zenon DEF Same

\* The registers of the frame and of locations are no scratch registers.
LEMMA RegisterNumbers ==
    /\ RAX \in Registers /\ RCX \in Registers /\ RDX \in Registers /\ RBP \in Registers
    /\ RSP \in Registers /\ AllocatableRegs \subseteq Registers
    /\ \A r \in AllocatableRegs : r \notin {RAX, RCX, RDX, RBP, RSP}
    /\ RBP \notin {RAX, RCX, RDX, RSP}
    /\ RAX # RCX /\ RAX # RDX /\ RCX # RDX /\ RSP \notin {RAX, RCX, RDX}
    /\ AllocatableRegs = {RBX, R12, R13, R14, R15}
BY DEF AllocatableRegs, is_allocatable_register, Registers, RAX, RCX, RDX, RBX, RBP, RSP, R12, R13,
       R14, R15

\* A register other than rbp is set.
LEMMA OneSet ==
    ASSUME NEW c, InFrame(c), NEW d \in Registers, d # RBP, NEW v
    PROVE  LET n == SetReg(c, d, v) IN
           Same(c, n, {d}) /\ n.regs[d] = v /\ n.flags = c.flags
<1> DEFINE n == SetReg(c, d, v)
<1>1. /\ IsCpu(n) /\ n.regs[d] = v /\ \A r \in Registers : r # d => n.regs[r] = c.regs[r]
      /\ \A a : Read(n, a) = Read(c, a)
      /\ n.rsp = c.rsp /\ n.flags = c.flags /\ n.jump = c.jump /\ n.nargs = c.nargs
      /\ n.aligned = c.aligned
  BY RegSet DEF InFrame
<1> HIDE DEF n
<1>2. InFrame(n)
  BY <1>1, RegisterNumbers DEF InFrame
<1> QED BY <1>1, <1>2, Zenon DEF Same, n

\* The flags are set.
LEMMA FlagsOnly ==
    ASSUME NEW c, InFrame(c), NEW x
    PROVE  LET n == SetFlags(c, x) IN
           Same(c, n, {}) /\ n.flags = x /\ n.regs = c.regs
<1> DEFINE n == SetFlags(c, x)
<1>1. /\ IsCpu(n) /\ n.flags = x /\ n.regs = c.regs /\ n.rsp = c.rsp /\ n.jump = c.jump
      /\ n.nargs = c.nargs /\ n.aligned = c.aligned /\ \A a : Read(n, a) = Read(c, a)
  BY FlagsSet DEF InFrame
<1> HIDE DEF n
<1>2. InFrame(n)
  BY <1>1, Zenon DEF InFrame
<1> QED BY <1>1, <1>2, Zenon DEF Same, n

\* A location is a register or a slot.
LEMMA LocationKinds ==
    ASSUME NEW loc \in Locations
    PROVE  \/ InReg(loc) /\ ~OnStack(loc) /\ loc = LocReg(loc.reg) /\ loc.reg \in AllocatableRegs
           \/ OnStack(loc) /\ ~InReg(loc) /\ loc = LocStack(loc.offset) /\ loc.offset \in Int
<1>1. CASE loc \in [type : {"LOC_REG"}, reg : AllocatableRegs]
  BY <1>1 DEF InReg, OnStack, LocReg
<1>2. CASE loc \in [type : {"LOC_STACK"}, offset : Int]
  BY <1>2 DEF InReg, OnStack, LocStack
<1> QED BY <1>1, <1>2 DEF Locations

\* The content of a location depends on registers that are not scratch.
LEMMA SameContent ==
    ASSUME NEW c, InFrame(c), NEW n, NEW X, Same(c, n, X), NEW loc \in Locations,
           X \cap AllocatableRegs = {}
    PROVE  Content(n, loc) = Content(c, loc)
<1>1. CASE InReg(loc)
  BY <1>1, LocationKinds, RegisterNumbers DEF Same, Content
<1>2. CASE OnStack(loc)
  <2>1. ~InReg(loc) /\ loc.offset \in Int
    BY <1>2, LocationKinds
  <2>2. At(c, loc.offset) = loc.offset /\ At(n, loc.offset) = loc.offset
    BY <2>1, AtRbp DEF Same
  <2> QED BY <2>1, <2>2 DEF Same, Content
<1> QED BY <1>1, <1>2, LocationKinds

\* A scratch register gets the content of a location.
LEMMA Loading ==
    ASSUME NEW c, InFrame(c), NEW d \in {RAX, RCX, RDX}, NEW loc \in Locations
    PROVE  LET n == Run(c, load_location_to_reg(d, loc)) IN
           /\ IsSeq(load_location_to_reg(d, loc))
           /\ Same(c, n, {d}) /\ n.regs[d] = Content(c, loc) /\ n.flags = c.flags
<1>1. d \in Registers /\ d # RBP
  BY RegisterNumbers
<1>2. CASE InReg(loc)
  <2>1. ~OnStack(loc) /\ loc.reg # d /\ loc.reg # RSP
    BY <1>2, LocationKinds, RegisterNumbers
  <2>2. load_location_to_reg(d, loc) = emit_mov_reg_reg(d, loc.reg)
    BY <2>1 DEF load_location_to_reg
  <2>3. Run(c, emit_mov_reg_reg(d, loc.reg)) = SetReg(c, d, c.regs[loc.reg])
    BY <2>1, RunMov
  <2> DEFINE v == c.regs[loc.reg]
             n == SetReg(c, d, v)
  <2>4. Same(c, n, {d}) /\ n.regs[d] = v /\ n.flags = c.flags
    BY <1>1, OneSet
  <2>5. Content(c, loc) = v
    BY <1>2 DEF Content
  <2>6. IsSeq(emit_mov_reg_reg(d, loc.reg))
    BY RunMov
  <2> HIDE DEF n, v
  <2> QED BY <2>2, <2>3, <2>4, <2>5, <2>6 DEF n, v
<1>3. CASE OnStack(loc)
  <2>1. ~InReg(loc) /\ loc.offset \in Int
    BY <1>3, LocationKinds
  <2>2. load_location_to_reg(d, loc) = emit_load_param(d, loc.offset)
    BY <1>3 DEF load_location_to_reg
  <2>3. Run(c, emit_load_param(d, loc.offset)) = SetReg(c, d, Read(c, At(c, loc.offset)))
    BY RunLoad
  <2> QED BY <1>1, <2>1, <2>2, <2>3, OneSet, RunLoad DEF Content
<1> QED BY <1>2, <1>3, LocationKinds

\* n is c with v at loc.
Wrote(c, n, loc, v) ==
    /\ InFrame(n)
    /\ Content(n, loc) = v
    /\ \A r \in Registers : ~(InReg(loc) /\ loc.reg = r) => n.regs[r] = c.regs[r]
    /\ \A a : ~(OnStack(loc) /\ loc.offset = a) => Read(n, a) = Read(c, a)
    /\ n.rsp = c.rsp /\ n.jump = c.jump /\ n.nargs = c.nargs /\ n.aligned = c.aligned

\* A register that is a location is set.
LEMMA RegisterWrote ==
    ASSUME NEW c, InFrame(c), NEW loc \in Locations, InReg(loc), NEW v
    PROVE  Wrote(c, SetReg(c, loc.reg, v), loc, v)
<1> DEFINE d == loc.reg
           n == SetReg(c, d, v)
<1>1. d \in Registers /\ d # RBP /\ ~OnStack(loc)
  BY LocationKinds, RegisterNumbers
<1>2. Same(c, n, {d}) /\ n.regs[d] = v
  BY <1>1, OneSet
<1>3. Content(n, loc) = n.regs[d]
  BY DEF Content
<1> HIDE DEF n
<1> QED BY <1>1, <1>2, <1>3 DEF Same, Wrote, n

\* A slot is written.
LEMMA SlotWrote ==
    ASSUME NEW c, InFrame(c), NEW loc \in Locations, OnStack(loc), NEW v
    PROVE  Wrote(c, Write(c, At(c, loc.offset), v), loc, v)
<1> DEFINE d == loc.offset
           n == Write(c, d, v)
<1>1. d \in Int /\ ~InReg(loc) /\ At(c, d) = d
  BY LocationKinds, AtRbp
<1>2. /\ IsCpu(n) /\ Read(n, d) = v /\ \A a : a # d => Read(n, a) = Read(c, a)
      /\ n.regs = c.regs /\ n.rsp = c.rsp /\ n.jump = c.jump
      /\ n.nargs = c.nargs /\ n.aligned = c.aligned
  BY WordWritten DEF InFrame
<1> HIDE DEF n
<1>3. InFrame(n)
  BY <1>2 DEF InFrame
<1>4. Content(n, loc) = v
  BY <1>1, <1>2, <1>3, AtRbp DEF Content
<1> QED BY <1>1, <1>2, <1>3, <1>4 DEF Wrote, n

\* A location gets the content of a register.
LEMMA Storing ==
    ASSUME NEW c, InFrame(c), NEW s \in Registers, s # RSP, NEW loc \in Locations
    PROVE  LET n == Run(c, store_reg_to_location(loc, s)) IN
           /\ IsSeq(store_reg_to_location(loc, s))
           /\ Wrote(c, n, loc, c.regs[s])
<1>1. CASE InReg(loc) /\ loc.reg = s
  <2>1. store_reg_to_location(loc, s) = <<>>
    BY <1>1, LocationKinds DEF store_reg_to_location
  <2>2. Run(c, <<>>) = c
    BY RunNone
  <2>3. Content(c, loc) = c.regs[s]
    BY <1>1 DEF Content
  <2>4. Wrote(c, c, loc, c.regs[s])
    BY <2>3 DEF Wrote
  <2> QED BY <2>1, <2>2, <2>4, NoElements
<1>2. CASE InReg(loc) /\ loc.reg # s
  <2>1. store_reg_to_location(loc, s) = emit_mov_reg_reg(loc.reg, s)
    BY <1>2, LocationKinds DEF store_reg_to_location
  <2>2. Run(c, emit_mov_reg_reg(loc.reg, s)) = SetReg(c, loc.reg, c.regs[s])
    BY RunMov
  <2>3. IsSeq(emit_mov_reg_reg(loc.reg, s))
    BY RunMov
  <2> QED BY <1>2, <2>1, <2>2, <2>3, RegisterWrote
<1>3. CASE OnStack(loc)
  <2>1. store_reg_to_location(loc, s) = emit_store_local(s, loc.offset)
    BY <1>3 DEF store_reg_to_location
  <2>2. Run(c, emit_store_local(s, loc.offset)) = Write(c, At(c, loc.offset), c.regs[s])
    BY RunStore
  <2>3. IsSeq(emit_store_local(s, loc.offset))
    BY RunStore
  <2> QED BY <1>3, <2>1, <2>2, <2>3, SlotWrote
<1> QED BY <1>1, <1>2, <1>3, LocationKinds

\* What the body of a function relies on: n is c with v at loc, as far as
\* callee-saved registers and the memory of A go.
Effect(c, n, loc, v, A) ==
    /\ InFrame(n)
    /\ Content(n, loc) = v
    /\ \A r \in AllocatableRegs : ~(InReg(loc) /\ loc.reg = r) => n.regs[r] = c.regs[r]
    /\ \A a \in A : ~(OnStack(loc) /\ loc.offset = a) => Read(n, a) = Read(c, a)
    /\ n.rsp = c.rsp /\ n.jump = c.jump /\ n.aligned = c.aligned

\* Code that uses scratch registers and ends with a store.
LEMMA ComputeAndStore ==
    ASSUME NEW c, NEW code, IsSeq(code), NEW loc \in Locations, NEW v,
           Same(c, Run(c, code), {RAX, RCX, RDX}), Run(c, code).regs[RAX] = v
    PROVE  Effect(c, Run(c, code \o store_reg_to_location(loc, RAX)), loc, v, Int)
<1> DEFINE n == Run(c, code)
           p == Run(n, store_reg_to_location(loc, RAX))
<1>1. InFrame(n)
  BY DEF Same
<1>2. RAX \in Registers /\ RAX # RSP
  BY RegisterNumbers
<1>3. Wrote(n, p, loc, v) /\ IsSeq(store_reg_to_location(loc, RAX))
  BY <1>1, <1>2, Storing
<1>4. Run(c, code \o store_reg_to_location(loc, RAX)) = p
  BY <1>3, RunTwo
<1>5. Same(c, n, {RAX, RCX, RDX})
  OBVIOUS
<1>6. \A r \in AllocatableRegs : r \in Registers \ {RAX, RCX, RDX}
  BY RegisterNumbers
<1> HIDE DEF n, p
<1>7. Effect(c, p, loc, v, Int)
  BY <1>3, <1>5, <1>6 DEF Same, Wrote, Effect
<1> QED BY <1>4, <1>7

\* ---- operators ----

\* Code after code.
LEMMA CodeThen ==
    ASSUME NEW c, NEW s, NEW t, IsSeq(s), IsSeq(t), NEW X, NEW Y,
           Same(c, Run(c, s), X), Same(Run(c, s), Run(Run(c, s), t), Y)
    PROVE  /\ IsSeq(s \o t)
           /\ Run(c, s \o t) = Run(Run(c, s), t)
           /\ Same(c, Run(c, s \o t), X \cup Y)
<1>1. IsSeq(s \o t) /\ Run(c, s \o t) = Run(Run(c, s), t)
  BY Joined, RunTwo
<1>2. Same(c, Run(Run(c, s), t), X \cup Y)
  BY SameThen
<1> QED BY <1>1, <1>2

\* Fewer registers changed are no more.
LEMMA SameMore == ASSUME NEW c, NEW n, NEW X, NEW Y, X \subseteq Y, Same(c, n, X) PROVE Same(c, n, Y)
BY DEF Same

\* The right operand stays in its register or is loaded.
LoadRight(tmp, right) == IF InReg(right) THEN <<>> ELSE load_location_to_reg(tmp, right)

\* The right operand is where the operation of the encoder reads it.
LEMMA RightLoaded ==
    ASSUME NEW c, InFrame(c), NEW tmp \in {RCX, RDX}, NEW right \in Locations
    PROVE  LET n == Run(c, LoadRight(tmp, right)) IN
           /\ IsSeq(LoadRight(tmp, right))
           /\ Same(c, n, {tmp})
           /\ n.regs[RightReg(tmp, right)] = Content(c, right)
           /\ RightReg(tmp, right) \in Registers
           /\ RightReg(tmp, right) \notin {RAX, RBP, RSP}
           /\ RightReg(tmp, right) \in {tmp} \cup AllocatableRegs
<1>1. CASE InReg(right)
  <2>1. Run(c, <<>>) = c
    BY RunNone
  <2>2. Same(c, c, {tmp})
    BY DEF Same
  <2>3. Content(c, right) = c.regs[right.reg]
    BY <1>1 DEF Content
  <2>4. LoadRight(tmp, right) = <<>> /\ RightReg(tmp, right) = right.reg
    BY <1>1 DEF LoadRight, RightReg
  <2>5. right.reg \in AllocatableRegs
    BY <1>1, LocationKinds
  <2>6. right.reg \in Registers /\ right.reg \notin {RAX, RBP, RSP}
    BY <2>5, RegisterNumbers
  <2> QED BY <2>1, <2>2, <2>3, <2>4, <2>5, <2>6, NoElements
<1>2. CASE ~InReg(right)
  <2>1. LoadRight(tmp, right) = load_location_to_reg(tmp, right) /\ RightReg(tmp, right) = tmp
    BY <1>2 DEF LoadRight, RightReg
  <2>2. tmp \in Registers /\ tmp \notin {RAX, RBP, RSP}
    BY RegisterNumbers
  <2> DEFINE n == Run(c, load_location_to_reg(tmp, right))
  <2>3. IsSeq(load_location_to_reg(tmp, right)) /\ Same(c, n, {tmp}) /\ n.regs[tmp] = Content(c, right)
    BY Loading
  <2> HIDE DEF n
  <2> QED BY <2>1, <2>2, <2>3 DEF n
<1> QED BY <1>1, <1>2

\* Both operands are at hand.
LEMMA OperandsLoaded ==
    ASSUME NEW c, InFrame(c), NEW tmp \in {RCX, RDX}, NEW left \in Locations, NEW right \in Locations
    PROVE  LET n == Run(c, load_binary_operands(tmp, left, right)) IN
           /\ IsSeq(load_binary_operands(tmp, left, right))
           /\ Same(c, n, {RAX, RCX, RDX})
           /\ n.regs[RAX] = Content(c, left)
           /\ n.regs[RightReg(tmp, right)] = Content(c, right)
           /\ RightReg(tmp, right) \in Registers
           /\ RightReg(tmp, right) \notin {RAX, RBP, RSP}
<1> DEFINE s == load_location_to_reg(RAX, left)
           t == LoadRight(tmp, right)
           m == Run(c, s)
           n == Run(m, t)
<1>1. IsSeq(s) /\ Same(c, m, {RAX}) /\ m.regs[RAX] = Content(c, left)
  BY Loading
<1>2. InFrame(m)
  BY <1>1 DEF Same
<1>3. /\ IsSeq(t) /\ Same(m, n, {tmp})
      /\ n.regs[RightReg(tmp, right)] = Content(m, right)
      /\ RightReg(tmp, right) \in Registers
      /\ RightReg(tmp, right) \notin {RAX, RBP, RSP}
  BY <1>2, RightLoaded
<1>4. load_binary_operands(tmp, left, right) = s \o t
  BY DEF load_binary_operands, LoadRight
<1>5. IsSeq(s \o t) /\ Run(c, s \o t) = n /\ Same(c, n, {RAX} \cup {tmp})
  BY <1>1, <1>3, CodeThen
<1>6. Same(c, n, {RAX, RCX, RDX})
  BY <1>5, SameMore
<1>7. {RAX} \cap AllocatableRegs = {} /\ RAX \in Registers \ {tmp}
  BY RegisterNumbers
<1>8. Content(m, right) = Content(c, right)
  BY <1>1, <1>7, SameContent
<1>9. n.regs[RAX] = m.regs[RAX]
  BY <1>3, <1>7 DEF Same
<1> HIDE DEF s, t, m, n
<1> QED BY <1>1, <1>3, <1>4, <1>5, <1>6, <1>8, <1>9

\* Code whose last instruction before the store sets rax.
LEMMA SetAndStore ==
    ASSUME NEW c, NEW s, NEW t, IsSeq(s), IsSeq(t), NEW v, NEW loc \in Locations,
           Same(c, Run(c, s), {RAX, RCX, RDX}),
           Run(Run(c, s), t) = SetReg(Run(c, s), RAX, v)
    PROVE  Effect(c, Run(c, (s \o t) \o store_reg_to_location(loc, RAX)), loc, v, Int)
<1> DEFINE m == Run(c, s)
<1>1. InFrame(m) /\ RAX \in Registers /\ RAX # RBP
  BY RegisterNumbers DEF Same
<1>2. Same(m, SetReg(m, RAX, v), {RAX}) /\ SetReg(m, RAX, v).regs[RAX] = v
  BY <1>1, OneSet
<1>3. /\ IsSeq(s \o t) /\ Run(c, s \o t) = SetReg(m, RAX, v)
      /\ Same(c, Run(c, s \o t), {RAX, RCX, RDX} \cup {RAX})
  BY <1>2, CodeThen
<1>4. Same(c, Run(c, s \o t), {RAX, RCX, RDX})
  BY <1>3, SameMore
<1>5. Run(c, s \o t).regs[RAX] = v
  BY <1>2, <1>3
<1> HIDE DEF m
<1> QED BY <1>3, <1>4, <1>5, ComputeAndStore

\* Addition, subtraction and the bitwise operators.
LEMMA AluCode ==
    ASSUME NEW c, InFrame(c), NEW op \in AluOps, NEW dest \in Locations, NEW left \in Locations,
           NEW right \in Locations
    PROVE  Effect(c, Run(c, emit_standard_binary_op(op, dest, left, right)), dest,
                  <<op, Content(c, left), Content(c, right)>>, Int)
<1> DEFINE s == load_binary_operands(RDX, left, right)
           m == Run(c, s)
           q == RightReg(RDX, right)
           t == emit_alu(op, RAX, q)
<1>1. /\ IsSeq(s) /\ Same(c, m, {RAX, RCX, RDX})
      /\ m.regs[RAX] = Content(c, left) /\ m.regs[q] = Content(c, right)
  BY OperandsLoaded
<1>2. IsSeq(t) /\ Run(m, t) = SetReg(m, RAX, <<op, m.regs[RAX], m.regs[q]>>)
  BY RunAlu
<1>3. emit_standard_binary_op(op, dest, left, right) = (s \o t) \o store_reg_to_location(dest, RAX)
  BY DEF emit_standard_binary_op
<1> HIDE DEF s, m, q, t
<1> QED BY <1>1, <1>2, <1>3, SetAndStore DEF m

\* Multiplication.
LEMMA MulCode ==
    ASSUME NEW c, InFrame(c), NEW dest \in Locations, NEW left \in Locations, NEW right \in Locations
    PROVE  Effect(c, Run(c, encode_mul(dest, left, right)), dest,
                  <<"MUL", Content(c, left), Content(c, right)>>, Int)
<1> DEFINE s == load_binary_operands(RCX, left, right)
           m == Run(c, s)
           q == RightReg(RCX, right)
           t == emit_imul_r64(RAX, q)
<1>1. /\ IsSeq(s) /\ Same(c, m, {RAX, RCX, RDX})
      /\ m.regs[RAX] = Content(c, left) /\ m.regs[q] = Content(c, right)
  BY OperandsLoaded
<1>2. IsSeq(t) /\ Run(m, t) = SetReg(m, RAX, <<"MUL", m.regs[RAX], m.regs[q]>>)
  BY RunMul
<1>3. encode_mul(dest, left, right) = (s \o t) \o store_reg_to_location(dest, RAX)
  BY DEF encode_mul
<1> HIDE DEF s, m, q, t
<1> QED BY <1>1, <1>2, <1>3, SetAndStore DEF m

\* Shifts.
LEMMA ShiftCode ==
    ASSUME NEW c, InFrame(c), NEW op \in ShiftOps, NEW dest \in Locations, NEW left \in Locations,
           NEW right \in Locations
    PROVE  Effect(c, Run(c, emit_shift_op(op, dest, left, right)), dest,
                  <<op, Content(c, left), Content(c, right)>>, Int)
<1> DEFINE s1 == load_location_to_reg(RAX, left)
           s2 == load_location_to_reg(RCX, right)
           k == Run(c, s1)
           m == Run(k, s2)
           t == <<Ins(op, 3, RAX, RCX)>>
<1>1. IsSeq(s1) /\ Same(c, k, {RAX}) /\ k.regs[RAX] = Content(c, left)
  BY Loading
<1>2. InFrame(k)
  BY <1>1 DEF Same
<1>3. IsSeq(s2) /\ Same(k, m, {RCX}) /\ m.regs[RCX] = Content(k, right)
  BY <1>2, Loading
<1>4. {RAX} \cap AllocatableRegs = {} /\ RAX \in Registers \ {RCX}
  BY RegisterNumbers
<1>5. Content(k, right) = Content(c, right)
  BY <1>1, <1>4, SameContent
<1>6. m.regs[RAX] = k.regs[RAX]
  BY <1>3, <1>4 DEF Same
<1>7. IsSeq(s1 \o s2) /\ Run(c, s1 \o s2) = m /\ Same(c, m, {RAX} \cup {RCX})
  BY <1>1, <1>3, CodeThen
<1>8. Same(c, m, {RAX, RCX, RDX})
  BY <1>7, SameMore
<1>9. IsSeq(t) /\ Run(m, t) = SetReg(m, RAX, <<op, m.regs[RAX], m.regs[RCX]>>)
  BY RunShift
<1>10. emit_shift_op(op, dest, left, right) =
          ((s1 \o s2) \o t) \o store_reg_to_location(dest, RAX)
  BY DEF emit_shift_op
<1> HIDE DEF s1, s2, k, m, t
<1>11. m = Run(c, s1 \o s2)
  BY <1>7
<1> QED BY <1>1, <1>3, <1>5, <1>6, <1>7, <1>8, <1>9, <1>10, <1>11, SetAndStore

\* Division: the dividend is extended before the divisor is loaded, elsewhere.
LEMMA DivCode ==
    ASSUME NEW c, InFrame(c), NEW dest \in Locations, NEW left \in Locations, NEW right \in Locations
    PROVE  Effect(c, Run(c, encode_div(dest, left, right)), dest,
                  <<"DIV", Content(c, left), Content(c, right)>>, Int)
<1> DEFINE s1 == load_location_to_reg(RAX, left)
           s2 == <<Ins("cqo", 2, RDX, RAX)>>
           s3 == LoadRight(RCX, right)
           q == RightReg(RCX, right)
           t == <<Ins("idiv", 3, RAX, q)>>
           c1 == Run(c, s1)
           c2 == Run(c1, s2)
           c3 == Run(c2, s3)
           v == <<"DIV", c3.regs[RAX], c3.regs[q]>>
           c4 == SetReg(c3, RAX, v)
           c5 == SetReg(c4, RDX, Junk)
<1>1. IsSeq(s1) /\ Same(c, c1, {RAX}) /\ c1.regs[RAX] = Content(c, left)
  BY Loading
<1>2. InFrame(c1)
  BY <1>1 DEF Same
<1>3. IsSeq(s2) /\ c2 = SetReg(c1, RDX, <<"sign of", c1.regs[RAX]>>)
  BY RunCqo
<1>4. RDX \in Registers /\ RDX # RBP /\ RAX \in Registers /\ RAX # RBP /\ RAX # RDX /\ RCX # RDX
      /\ RAX # RCX
  BY RegisterNumbers
<1>5. Same(c1, c2, {RDX}) /\ c2.regs[RDX] = <<"sign of", c1.regs[RAX]>>
  <2> DEFINE x == <<"sign of", c1.regs[RAX]>>
             k == SetReg(c1, RDX, x)
  <2> HIDE DEF x
  <2>1. Same(c1, k, {RDX}) /\ k.regs[RDX] = x
    BY <1>2, <1>4, OneSet
  <2>2. c2 = k
    BY <1>3 DEF x
  <2> HIDE DEF k, c2
  <2> QED BY <2>1, <2>2 DEF x
<1>6. InFrame(c2)
  BY <1>5 DEF Same
<1>7. IsSeq(s3) /\ Same(c2, c3, {RCX}) /\ c3.regs[q] = Content(c2, right)
  BY <1>6, RightLoaded
<1> HIDE DEF s1, s2, s3, t, q
<1>8. IsSeq(s1 \o s2) /\ Run(c, s1 \o s2) = c2 /\ Same(c, c2, {RAX} \cup {RDX})
  <2>1. IsSeq(s2)
    BY <1>3
  <2>2. Same(c, Run(c, s1), {RAX}) /\ Same(Run(c, s1), Run(Run(c, s1), s2), {RDX}) /\ IsSeq(s1)
    BY <1>1, <1>5
  <2>3. c2 = Run(Run(c, s1), s2)
    OBVIOUS
  <2> HIDE DEF c1, c2
  <2> QED BY <2>1, <2>2, <2>3, CodeThen
<1>9. c2 = Run(c, s1 \o s2)
  BY <1>8
<1> HIDE DEF c1, c2
<1>10. /\ IsSeq((s1 \o s2) \o s3) /\ Run(c, (s1 \o s2) \o s3) = c3
       /\ Same(c, c3, ({RAX} \cup {RDX}) \cup {RCX})
  BY <1>7, <1>8, <1>9, CodeThen
<1> HIDE DEF c3
<1>11. Content(c2, right) = Content(c, right)
  <2>1. ({RAX} \cup {RDX}) \cap AllocatableRegs = {}
    BY RegisterNumbers
  <2> QED BY <1>8, <2>1, SameContent
<1>12. c3.regs[RAX] = Content(c, left) /\ c3.regs[RDX] = <<"sign of", c3.regs[RAX]>>
  BY <1>1, <1>4, <1>5, <1>7 DEF Same
<1>13. InFrame(c3)
  BY <1>10 DEF Same
<1>14. IsSeq(t) /\ Run(c3, t) = c5
  BY <1>12, RunIdiv DEF t
<1>15. Same(c3, c4, {RAX}) /\ c4.regs[RAX] = v
  BY <1>4, <1>13, OneSet
<1> HIDE DEF c4, v
<1>16. InFrame(c4)
  BY <1>15 DEF Same
<1>17. Same(c4, c5, {RDX})
  BY <1>4, <1>16, OneSet
<1> HIDE DEF c5
<1>18. Same(c3, c5, {RAX} \cup {RDX}) /\ c5.regs[RAX] = v
  <2>1. Same(c3, c5, {RAX} \cup {RDX})
    BY <1>15, <1>17, SameThen
  <2> QED BY <2>1, <1>4, <1>15, <1>17 DEF Same
<1> DEFINE s == (s1 \o s2) \o s3
<1>19. IsSeq(s) /\ Run(c, s) = c3 /\ Same(c, c3, {RAX, RCX, RDX})
  BY <1>10, SameMore
<1> HIDE DEF s
<1>20. /\ IsSeq(s \o t) /\ Run(c, s \o t) = c5
       /\ Same(c, c5, {RAX, RCX, RDX} \cup ({RAX} \cup {RDX}))
  BY <1>14, <1>18, <1>19, CodeThen
<1>21. Same(c, c5, {RAX, RCX, RDX})
  BY <1>20, SameMore
<1>22. encode_div(dest, left, right) = (s \o t) \o store_reg_to_location(dest, RAX)
  BY DEF encode_div, s, s1, s2, s3, t, q, LoadRight
<1>23. v = <<"DIV", Content(c, left), Content(c, right)>>
  BY <1>7, <1>11, <1>12 DEF v
<1> QED BY <1>18, <1>20, <1>21, <1>22, <1>23, ComputeAndStore

\* Negation and complement.
LEMMA GroupCode ==
    ASSUME NEW c, InFrame(c), NEW op \in GroupOps, NEW dest \in Locations, NEW src \in Locations
    PROVE  Effect(c, Run(c, encode_group(op, dest, src)), dest, <<op, Content(c, src)>>, Int)
<1> DEFINE s == load_location_to_reg(RAX, src)
           m == Run(c, s)
           t == <<Ins(op, 3, RAX, RAX)>>
<1>1. IsSeq(s) /\ Same(c, m, {RAX}) /\ m.regs[RAX] = Content(c, src)
  BY Loading
<1>2. Same(c, m, {RAX, RCX, RDX})
  BY <1>1, SameMore
<1>3. IsSeq(t) /\ Run(m, t) = SetReg(m, RAX, <<op, m.regs[RAX]>>)
  BY RunGroup
<1>4. encode_group(op, dest, src) = (s \o t) \o store_reg_to_location(dest, RAX)
  BY DEF encode_group
<1> HIDE DEF s, m, t
<1> QED BY <1>1, <1>2, <1>3, <1>4, SetAndStore DEF m

\* The tail of comparisons: the flags become a value in rax.
LEMMA FlagValue ==
    ASSUME NEW c, NEW s, IsSeq(s), NEW cc, NEW a, NEW b, NEW dest \in Locations,
           Same(c, Run(c, s), {RAX, RCX, RDX}), Run(c, s).flags = <<a, b>>
    PROVE  Effect(c, Run(c, ((s \o emit_setcc(cc, RAX)) \o emit_movzx(RAX, RAX))
                               \o store_reg_to_location(dest, RAX)),
                  dest, <<cc, a, b>>, Int)
<1> DEFINE t == emit_setcc(cc, RAX)
           u == emit_movzx(RAX, RAX)
           m == Run(c, s)
           n == SetReg(m, RAX, <<"byte", <<cc>> \o m.flags>>)
<1>1. InFrame(m) /\ RAX \in Registers /\ RAX # RBP
  BY RegisterNumbers DEF Same
<1>2. IsSeq(t) /\ Run(m, t) = n
  BY RunSetcc
<1>3. Same(m, n, {RAX}) /\ n.regs[RAX] = <<"byte", <<cc>> \o m.flags>>
  BY <1>1, OneSet
<1>4. IsSeq(u) /\ Run(n, u) = SetReg(n, RAX, IF n.regs[RAX][1] = "byte" THEN n.regs[RAX][2]
                                           ELSE <<"byte of", n.regs[RAX]>>)
  BY RunMovzx
<1>5. <<cc>> \o m.flags = <<cc, a, b>>
  <2> DEFINE S == {cc, a, b}
  <2>1. <<cc>> \in Seq(S) /\ <<a, b>> \in Seq(S) /\ <<cc, a, b>> \in Seq(S)
    OBVIOUS
  <2> DEFINE x == <<cc>> \o <<a, b>>
  <2>2. x \in Seq(S) /\ Len(x) = 3 /\ x[1] = cc /\ x[2] = a /\ x[3] = b
    BY <2>1
  <2> HIDE DEF x
  <2>3. x = <<cc, a, b>>
    BY <2>2
  <2> QED BY <2>3 DEF x
<1> HIDE DEF n, t, u
<1>6. Run(n, u) = SetReg(n, RAX, <<cc, a, b>>)
  <2>1. n.regs[RAX] = <<"byte", <<cc, a, b>>>>
    BY <1>3, <1>5
  <2>2. n.regs[RAX][1] = "byte" /\ n.regs[RAX][2] = <<cc, a, b>>
    BY <2>1
  <2> QED BY <1>4, <2>2
<1>7. /\ IsSeq(s \o t) /\ Run(c, s \o t) = n
      /\ Same(c, n, {RAX, RCX, RDX} \cup {RAX})
  BY <1>2, <1>3, CodeThen
<1>8. Same(c, n, {RAX, RCX, RDX})
  BY <1>7, SameMore
<1> HIDE DEF m
<1> QED BY <1>4, <1>6, <1>7, <1>8, SetAndStore DEF t, u

\* Comparisons.
LEMMA CmpCode ==
    ASSUME NEW c, InFrame(c), NEW cc, NEW dest \in Locations, NEW left \in Locations,
           NEW right \in Locations
    PROVE  Effect(c, Run(c, emit_comparison_op(cc, dest, left, right)), dest,
                  <<cc, Content(c, left), Content(c, right)>>, Int)
<1> DEFINE s == load_binary_operands(RCX, left, right)
           m == Run(c, s)
           q == RightReg(RCX, right)
           t == emit_cmp(RAX, q)
           x == <<m.regs[RAX], m.regs[q]>>
<1>1. /\ IsSeq(s) /\ Same(c, m, {RAX, RCX, RDX})
      /\ m.regs[RAX] = Content(c, left) /\ m.regs[q] = Content(c, right)
  BY OperandsLoaded
<1>2. InFrame(m)
  BY <1>1 DEF Same
<1>3. IsSeq(t) /\ Run(m, t) = SetFlags(m, x)
  BY RunCmp
<1>4. Same(m, SetFlags(m, x), {}) /\ SetFlags(m, x).flags = x
  BY <1>2, FlagsOnly
<1>5. /\ IsSeq(s \o t) /\ Run(c, s \o t) = SetFlags(m, x)
      /\ Same(c, Run(c, s \o t), {RAX, RCX, RDX} \cup {})
  BY <1>1, <1>3, <1>4, CodeThen
<1>6. Same(c, Run(c, s \o t), {RAX, RCX, RDX})
  BY <1>5, SameMore
<1>7. Run(c, s \o t).flags = <<Content(c, left), Content(c, right)>>
  BY <1>1, <1>4, <1>5
<1>8. emit_comparison_op(cc, dest, left, right) =
         (((s \o t) \o emit_setcc(cc, RAX)) \o emit_movzx(RAX, RAX)) \o store_reg_to_location(dest, RAX)
  BY DEF emit_comparison_op
<1> HIDE DEF s, m, q, t, x
<1> QED BY <1>5, <1>6, <1>7, <1>8, FlagValue

\* Logical negation.
LEMMA NotCode ==
    ASSUME NEW c, InFrame(c), NEW dest \in Locations, NEW src \in Locations
    PROVE  Effect(c, Run(c, encode_not(dest, src)), dest, <<"EQ", Content(c, src), Zero>>, Int)
<1> DEFINE s == load_location_to_reg(RAX, src)
           m == Run(c, s)
           t == emit_cmp_zero(RAX)
           x == <<m.regs[RAX], Zero>>
<1>1. IsSeq(s) /\ Same(c, m, {RAX}) /\ m.regs[RAX] = Content(c, src)
  BY Loading
<1>2. InFrame(m)
  BY <1>1 DEF Same
<1>3. IsSeq(t) /\ Run(m, t) = SetFlags(m, x)
  BY RunCmpZero
<1>4. Same(m, SetFlags(m, x), {}) /\ SetFlags(m, x).flags = x
  BY <1>2, FlagsOnly
<1>5. /\ IsSeq(s \o t) /\ Run(c, s \o t) = SetFlags(m, x)
      /\ Same(c, Run(c, s \o t), {RAX} \cup {})
  BY <1>1, <1>3, <1>4, CodeThen
<1>6. Same(c, Run(c, s \o t), {RAX, RCX, RDX})
  BY <1>5, SameMore
<1>7. Run(c, s \o t).flags = <<Content(c, src), Zero>>
  BY <1>1, <1>4, <1>5
<1>8. encode_not(dest, src) =
         (((s \o t) \o emit_setcc("EQ", RAX)) \o emit_movzx(RAX, RAX)) \o store_reg_to_location(dest, RAX)
  BY DEF encode_not
<1> HIDE DEF s, m, t, x
<1> QED BY <1>5, <1>6, <1>7, <1>8, FlagValue

\* Moves between locations.
LEMMA MovCode ==
    ASSUME NEW c, InFrame(c), NEW dest \in Locations, NEW src \in Locations
    PROVE  Effect(c, Run(c, encode_mov(dest, src)), dest, Content(c, src), Int)
<1>1. CASE InReg(dest) /\ dest = src
  <2>1. encode_mov(dest, src) = <<>> /\ Run(c, <<>>) = c
    BY <1>1, RunNone DEF encode_mov
  <2>2. Effect(c, c, dest, Content(c, src), Int)
    BY <1>1 DEF Effect
  <2> QED BY <2>1, <2>2
<1>2. CASE ~(InReg(dest) /\ dest = src)
  <2> DEFINE s == load_location_to_reg(RAX, src)
             m == Run(c, s)
  <2>1. IsSeq(s) /\ Same(c, m, {RAX}) /\ m.regs[RAX] = Content(c, src)
    BY Loading
  <2>2. Same(c, m, {RAX, RCX, RDX})
    BY <2>1, SameMore
  <2>3. encode_mov(dest, src) = s \o store_reg_to_location(dest, RAX)
    BY <1>2 DEF encode_mov
  <2> HIDE DEF s
  <2> QED BY <2>1, <2>2, <2>3, ComputeAndStore
<1> QED BY <1>1, <1>2

\* Constants.
LEMMA ConstCode ==
    ASSUME NEW c, InFrame(c), NEW dest \in Locations, NEW imm
    PROVE  Effect(c, Run(c, encode_const(dest, imm)), dest, <<"const", imm>>, Int)
<1> DEFINE s == emit_mov_imm(RAX, imm)
           v == <<"const", imm>>
           m == SetReg(c, RAX, v)
<1>1. IsSeq(s) /\ Run(c, s) = m
  BY RunImm
<1>2. RAX \in Registers /\ RAX # RBP
  BY RegisterNumbers
<1>3. Same(c, m, {RAX}) /\ m.regs[RAX] = v
  BY <1>2, OneSet
<1>4. Same(c, m, {RAX, RCX, RDX})
  BY <1>3, SameMore
<1>5. encode_const(dest, imm) = s \o store_reg_to_location(dest, RAX)
  BY DEF encode_const
<1> HIDE DEF s, v, m
<1> QED BY <1>1, <1>3, <1>4, <1>5, ComputeAndStore DEF v

\* A store in a register of what was stored is an effect.
LEMMA WroteEffect ==
    ASSUME NEW c, NEW n, NEW loc, NEW v, Wrote(c, n, loc, v)
    PROVE  Effect(c, n, loc, v, Int)
BY RegisterNumbers DEF Wrote, Effect

\* The slot of a local variable.
LocalSlot(idx) == LocStack(get_local_offset(idx))

\* The slot of a local variable is a location on the stack.
LEMMA LocalSlots ==
    ASSUME NEW idx \in Nat
    PROVE  /\ LocalSlot(idx) \in Locations /\ OnStack(LocalSlot(idx)) /\ ~InReg(LocalSlot(idx))
           /\ LocalSlot(idx).offset = get_local_offset(idx) /\ get_local_offset(idx) \in Int
<1>1. get_local_offset(idx) \in Int
  BY DEF get_local_offset, CALLEE_SAVED_SIZE, CALLEE_SAVED_COUNT, WORD_SIZE
<1> QED BY <1>1 DEF LocalSlot, LocStack, OnStack, InReg, Locations

\* Loads of local variables.
LEMMA LoadCode ==
    ASSUME NEW c, InFrame(c), NEW dest \in Locations, NEW idx \in Nat, NEW width
    PROVE  Effect(c, Run(c, encode_load(dest, idx, width)), dest,
                  Loaded(width, Read(c, get_local_offset(idx))), Int)
<1> DEFINE o == get_local_offset(idx)
           v == Loaded(width, Read(c, o))
<1>1. At(c, o) = o
  BY LocalSlots, AtRbp
<1>2. CASE InReg(dest)
  <2> DEFINE s == emit_load_signext(dest.reg, o, width)
  <2>1. IsSeq(s) /\ Run(c, s) = SetReg(c, dest.reg, v)
    BY <1>1, RunLoadSized
  <2>2. encode_load(dest, idx, width) = s
    BY <1>2 DEF encode_load
  <2> HIDE DEF s, v
  <2>3. Wrote(c, SetReg(c, dest.reg, v), dest, v)
    BY <1>2, RegisterWrote
  <2> QED BY <2>1, <2>2, <2>3, WroteEffect DEF v
<1>3. CASE ~InReg(dest)
  <2> DEFINE s == emit_load_signext(RAX, o, width)
             m == SetReg(c, RAX, v)
  <2>1. IsSeq(s) /\ Run(c, s) = m
    BY <1>1, RunLoadSized
  <2>2. encode_load(dest, idx, width) = s \o store_reg_to_location(dest, RAX)
    BY <1>3 DEF encode_load
  <2>3. RAX \in Registers /\ RAX # RBP
    BY RegisterNumbers
  <2>4. Same(c, m, {RAX}) /\ m.regs[RAX] = v
    BY <2>3, OneSet
  <2>5. Same(c, m, {RAX, RCX, RDX})
    BY <2>4, SameMore
  <2> HIDE DEF s, v, m
  <2> QED BY <2>1, <2>2, <2>4, <2>5, ComputeAndStore DEF v
<1> QED BY <1>2, <1>3

\* Stores to local variables.
LEMMA StoreCode ==
    ASSUME NEW c, InFrame(c), NEW src \in Locations, NEW idx \in Nat, NEW width
    PROVE  Effect(c, Run(c, encode_store(idx, src, width)), LocalSlot(idx),
                  Stored(width, Content(c, src)), Int)
<1> DEFINE o == get_local_offset(idx)
           loc == LocalSlot(idx)
<1>1. loc \in Locations /\ OnStack(loc) /\ loc.offset = o
  BY LocalSlots
<1>2. CASE InReg(src)
  <2> DEFINE s == emit_store_sized(src.reg, o, width)
             v == Stored(width, c.regs[src.reg])
  <2>1. Run(c, s) = Write(c, At(c, o), v)
    BY RunStoreSized
  <2>2. encode_store(idx, src, width) = s
    BY <1>2 DEF encode_store
  <2>3. v = Stored(width, Content(c, src))
    BY <1>2 DEF Content
  <2> HIDE DEF s, v, loc, o
  <2>4. Wrote(c, Write(c, At(c, loc.offset), v), loc, v)
    BY <1>1, SlotWrote
  <2> QED BY <1>1, <2>1, <2>2, <2>3, <2>4, WroteEffect DEF loc, o
<1>3. CASE ~InReg(src)
  <2> DEFINE t == load_location_to_reg(RAX, src)
             m == Run(c, t)
             s == emit_store_sized(RAX, o, width)
             v == Stored(width, m.regs[RAX])
             n == Write(m, At(m, o), v)
  <2>1. IsSeq(t) /\ Same(c, m, {RAX}) /\ m.regs[RAX] = Content(c, src)
    BY Loading
  <2>2. IsSeq(s) /\ Run(m, s) = n
    BY RunStoreSized
  <2>3. encode_store(idx, src, width) = t \o s
    BY <1>3 DEF encode_store
  <2>4. Run(c, t \o s) = n
    BY <2>1, <2>2, RunTwo
  <2>5. InFrame(m)
    BY <2>1 DEF Same
  <2> HIDE DEF s, t, m, loc, o, v
  <2>6. Wrote(m, Write(m, At(m, loc.offset), v), loc, v)
    BY <1>1, <2>5, SlotWrote
  <2>7. Wrote(m, n, loc, v)
    BY <1>1, <2>6
  <2> HIDE DEF n
  <2>8. Effect(c, n, loc, v, Int)
    BY <2>1, <2>7, RegisterNumbers DEF Same, Wrote, Effect
  <2>9. v = Stored(width, Content(c, src))
    BY <2>1 DEF v
  <2> QED BY <2>3, <2>4, <2>8, <2>9 DEF loc
<1> QED BY <1>2, <1>3

\* Conditional jumps: the flags compare the operand with zero.
LEMMA BranchCode ==
    ASSUME NEW c, InFrame(c), NEW op \in {"JZ", "JNZ"}, NEW src \in Locations, NEW label
    PROVE  LET n == Run(c, encode_branch(op, src, label)) IN
           /\ InFrame(n) /\ n.jump = <<op, <<Content(c, src), Zero>>>>
           /\ \A r \in AllocatableRegs : n.regs[r] = c.regs[r]
           /\ \A a : Read(n, a) = Read(c, a)
           /\ n.rsp = c.rsp /\ n.aligned = c.aligned
<1> DEFINE s == emit_jz_jnz(src)
           m == Run(c, s)
           x == <<Content(c, src), Zero>>
<1>1. IsSeq(s) /\ Same(c, m, {RAX}) /\ m.flags = x
  <2>1. CASE InReg(src)
    <3> DEFINE k == SetFlags(c, x)
    <3>1. s = emit_test(src.reg, src.reg) /\ c.regs[src.reg] = Content(c, src)
      BY <2>1 DEF emit_jz_jnz, Content
    <3>2. IsSeq(s) /\ m = k
      BY <3>1, RunTest
    <3>3. Same(c, k, {}) /\ k.flags = x
      BY FlagsOnly
    <3>4. Same(c, k, {RAX})
      BY <3>3, SameMore
    <3> HIDE DEF k, m, s, x
    <3> QED BY <3>2, <3>3, <3>4
  <2>2. CASE ~InReg(src)
    <3> DEFINE t == load_location_to_reg(RAX, src)
               k == Run(c, t)
               u == emit_cmp_zero(RAX)
               y == <<k.regs[RAX], Zero>>
               n == SetFlags(k, y)
    <3>1. IsSeq(t) /\ Same(c, k, {RAX}) /\ k.regs[RAX] = Content(c, src)
      BY Loading
    <3>2. InFrame(k)
      BY <3>1 DEF Same
    <3>3. IsSeq(u) /\ Run(k, u) = n
      BY RunCmpZero
    <3>4. s = t \o u
      BY <2>2 DEF emit_jz_jnz
    <3>5. Same(k, n, {}) /\ n.flags = y
      BY <3>2, FlagsOnly
    <3>6. IsSeq(t \o u) /\ Run(c, t \o u) = n /\ Same(c, n, {RAX} \cup {})
      BY <3>1, <3>3, <3>5, CodeThen
    <3>7. Same(c, n, {RAX})
      BY <3>6, SameMore
    <3>8. y = x
      BY <3>1
    <3> HIDE DEF s, t, u, n, x, y
    <3> QED BY <3>4, <3>5, <3>6, <3>7, <3>8
  <2> QED BY <2>1, <2>2
<1> DEFINE j == emit_jump(op, label)
           n == SetJump(m, <<op, m.flags>>)
<1>2. IsSeq(j) /\ Run(m, j) = n
  BY RunJump
<1>3. encode_branch(op, src, label) = s \o j
  BY DEF encode_branch
<1>4. Run(c, s \o j) = n
  BY <1>1, <1>2, RunTwo
<1>5. InFrame(m)
  BY <1>1 DEF Same
<1>6. /\ IsCpu(n) /\ n.jump = <<op, m.flags>> /\ n.regs = m.regs /\ n.rsp = m.rsp
      /\ n.aligned = m.aligned /\ \A a : Read(n, a) = Read(m, a)
  BY <1>5, JumpSet DEF InFrame
<1>7. \A r \in AllocatableRegs : r \in Registers \ {RAX}
  BY RegisterNumbers
<1> HIDE DEF n, m, s, j, x
<1>8. InFrame(n)
  BY <1>5, <1>6 DEF InFrame
<1>9. n.jump = <<op, x>>
  BY <1>1, <1>6
<1>10. /\ \A r \in AllocatableRegs : n.regs[r] = c.regs[r]
       /\ \A a : Read(n, a) = Read(c, a)
       /\ n.rsp = c.rsp /\ n.aligned = c.aligned
  BY <1>1, <1>6, <1>7 DEF Same
<1> QED BY <1>3, <1>4, <1>8, <1>9, <1>10 DEF x

\* ---- pieces of code, flattened ----

\* s is a list of n things.
IsList(s, n) == s = [i \in 1 .. n |-> s[i]]

\* g is the states between the pieces of code, from c on.
Pieces(g, c, seqs, n) ==
    /\ g[0] = c
    /\ \A i \in 1 .. n : g[i] = Run(g[i - 1], seqs[i])
    /\ Run(c, FlattenSeq(seqs)) = g[n]

\* Code in n pieces runs piece after piece.
LEMMA FlattenRun ==
    ASSUME NEW c, NEW n \in Nat, NEW seqs, IsList(seqs, n),
           \A i \in 1 .. n : IsSeq(seqs[i])
    PROVE  IsSeq(FlattenSeq(seqs)) /\ \E g : Pieces(g, c, seqs, n)
<1>1. Len(seqs) = n
  BY Listed DEF IsList
<1>2. CASE n = 0
  <2>1. seqs = <<>>
    BY <1>2 DEF IsList
  <2>2. FlattenSeq(seqs) = <<>>
    BY <1>1, <1>2, <2>1 DEF FlattenSeq
  <2>3. Run(c, <<>>) = c
    BY RunNone
  <2> DEFINE g == [i \in {0} |-> c]
  <2>4. g[0] = c
    OBVIOUS
  <2> HIDE DEF g
  <2>5. Pieces(g, c, seqs, n)
    BY <1>2, <2>2, <2>3, <2>4 DEF Pieces
  <2> QED BY <2>2, <2>5, NoElements
<1>3. CASE n # 0
  <2> DEFINE fl == CHOOSE f : f = [i \in 1 .. n |-> IF i = 1 THEN seqs[i] ELSE f[i - 1] \o seqs[i]]
  <2>1. FlattenSeq(seqs) = fl[n]
    <3>1. Len(seqs) # 0
      BY <1>1, <1>3
    <3> QED BY <1>1, <3>1, Zenon DEF FlattenSeq
  <2>2. fl = [i \in 1 .. n |-> IF i = 1 THEN seqs[i] ELSE fl[i - 1] \o seqs[i]]
    BY FlattenExists, Zenon
  <2> HIDE DEF fl
  <2>3. \A i \in 1 .. n : fl[i] = IF i = 1 THEN seqs[i] ELSE fl[i - 1] \o seqs[i]
    BY <2>2, Zenon
  <2> DEFINE g == [i \in 0 .. n |-> IF i = 0 THEN c ELSE Run(c, fl[i])]
             T == {i \in Nat : i + 1 <= n => IsSeq(fl[i + 1]) /\ g[i + 1] = Run(g[i], seqs[i + 1])}
  <2>4. g[0] = c /\ \A i \in 1 .. n : g[i] = Run(c, fl[i])
    OBVIOUS
  <2> HIDE DEF g
  <2>5. 0 \in T
    <3>1. 1 \in 1 .. n
      BY <1>3
    <3>2. fl[1] = seqs[1] /\ g[1] = Run(c, seqs[1])
      BY <2>3, <2>4, <3>1
    <3> QED BY <2>4, <3>1, <3>2
  <2>6. ASSUME NEW i \in Nat, i \in T PROVE i + 1 \in T
    <3> SUFFICES ASSUME (i + 1) + 1 <= n
                 PROVE  IsSeq(fl[(i + 1) + 1]) /\ g[(i + 1) + 1] = Run(g[i + 1], seqs[(i + 1) + 1])
      OBVIOUS
    <3> DEFINE k == (i + 1) + 1
    <3>1. k \in 1 .. n /\ i + 1 \in 1 .. n /\ k # 1 /\ k - 1 = i + 1 /\ i + 1 <= n
      OBVIOUS
    <3>2. IsSeq(fl[i + 1])
      BY <2>6, <3>1
    <3>3. fl[k] = fl[i + 1] \o seqs[k]
      BY <2>3, <3>1
    <3>4. IsSeq(fl[i + 1] \o seqs[k]) /\ Run(c, fl[i + 1] \o seqs[k]) = Run(Run(c, fl[i + 1]), seqs[k])
      BY <3>1, <3>2, Joined, RunTwo
    <3>5. g[k] = Run(c, fl[k]) /\ g[i + 1] = Run(c, fl[i + 1])
      BY <2>4, <3>1
    <3> HIDE DEF k
    <3>6. IsSeq(fl[k]) /\ g[k] = Run(g[i + 1], seqs[k])
      BY <3>3, <3>4, <3>5
    <3> QED BY <3>6 DEF k
  <2> HIDE DEF T
  <2>7. \A i \in Nat : i \in T
    BY <2>5, <2>6, Induction
  <2>8. \A i \in 1 .. n : IsSeq(fl[i]) /\ g[i] = Run(g[i - 1], seqs[i])
    <3> SUFFICES ASSUME NEW i \in 1 .. n PROVE IsSeq(fl[i]) /\ g[i] = Run(g[i - 1], seqs[i])
      OBVIOUS
    <3>1. i - 1 \in Nat /\ (i - 1) + 1 = i /\ i <= n
      OBVIOUS
    <3>2. i - 1 \in T
      BY <2>7, <3>1
    <3> QED BY <3>1, <3>2 DEF T
  <2>9. n \in 1 .. n
    BY <1>3
  <2>10. IsSeq(FlattenSeq(seqs)) /\ Pieces(g, c, seqs, n)
    BY <2>1, <2>4, <2>8, <2>9 DEF Pieces
  <2> QED BY <2>10
<1> QED BY <1>2, <1>3

\* One push, one pop.
LEMMA OnePush ==
    ASSUME NEW c, IsCpu(c), NEW d
    PROVE  LET n == Run(c, emit_push(d)) IN
           /\ IsSeq(emit_push(d))
           /\ IsCpu(n) /\ n.regs = c.regs /\ n.rsp = c.rsp - 8
           /\ Read(n, c.rsp - 8) = c.regs[d]
           /\ \A a : a # c.rsp - 8 => Read(n, a) = Read(c, a)
           /\ n.jump = c.jump /\ n.nargs = c.nargs /\ n.aligned = c.aligned
<1> DEFINE x == c.rsp - 8
           m == Write(c, x, c.regs[d])
           n == SetRsp(m, x)
<1>1. IsSeq(emit_push(d)) /\ Run(c, emit_push(d)) = n
  BY RunPush DEF WORD_SIZE
<1>2. x \in Int
  BY DEF IsCpu
<1> HIDE DEF x
<1>3. /\ IsCpu(m) /\ Read(m, x) = c.regs[d] /\ \A a : a # x => Read(m, a) = Read(c, a)
      /\ m.regs = c.regs /\ m.jump = c.jump /\ m.nargs = c.nargs /\ m.aligned = c.aligned
  BY WordWritten
<1> HIDE DEF m
<1>4. /\ IsCpu(n) /\ n.rsp = x /\ n.regs = m.regs /\ n.jump = m.jump
      /\ n.nargs = m.nargs /\ n.aligned = m.aligned /\ \A a : Read(n, a) = Read(m, a)
  BY <1>2, <1>3, RspSet
<1> HIDE DEF n
<1> QED BY <1>1, <1>3, <1>4 DEF x

\* A pop of one register.
LEMMA OnePop ==
    ASSUME NEW c, IsCpu(c), NEW d \in Registers
    PROVE  LET n == Run(c, emit_pop(d)) IN
           /\ IsSeq(emit_pop(d))
           /\ IsCpu(n) /\ n.rsp = c.rsp + 8
           /\ n.regs[d] = Read(c, c.rsp)
           /\ \A r \in Registers : r # d => n.regs[r] = c.regs[r]
           /\ \A a : Read(n, a) = Read(c, a)
           /\ n.jump = c.jump /\ n.nargs = c.nargs /\ n.aligned = c.aligned
<1> DEFINE x == c.rsp + 8
           v == Read(c, c.rsp)
           m == SetReg(c, d, v)
           n == SetRsp(m, x)
<1>1. IsSeq(emit_pop(d)) /\ Run(c, emit_pop(d)) = n
  BY RunPop DEF WORD_SIZE
<1>2. x \in Int
  BY DEF IsCpu
<1> HIDE DEF x, v
<1>3. /\ IsCpu(m) /\ m.regs[d] = v /\ \A r \in Registers : r # d => m.regs[r] = c.regs[r]
      /\ \A a : Read(m, a) = Read(c, a)
      /\ m.jump = c.jump /\ m.nargs = c.nargs /\ m.aligned = c.aligned
  BY RegSet
<1> HIDE DEF m
<1>4. /\ IsCpu(n) /\ n.rsp = x /\ n.regs = m.regs /\ n.jump = m.jump
      /\ n.nargs = m.nargs /\ n.aligned = m.aligned /\ \A a : Read(n, a) = Read(m, a)
  BY <1>2, <1>3, RspSet
<1> HIDE DEF n
<1> QED BY <1>1, <1>3, <1>4 DEF x, v

\* The two ways of pushing the content of a location.
PushVia(loc) == load_location_to_reg(RAX, loc) \o emit_push(RAX)
PushArg(loc) == IF InReg(loc) THEN emit_push(loc.reg) ELSE PushVia(loc)

\* A push of the value at a location, by either way the encoders have.
LEMMA LocationPushed ==
    ASSUME NEW c, InFrame(c), NEW loc \in Locations, NEW code \in {PushVia(loc), PushArg(loc)}
    PROVE  LET n == Run(c, code) IN
           /\ IsSeq(code)
           /\ InFrame(n) /\ \A r \in Registers \ {RAX} : n.regs[r] = c.regs[r]
           /\ n.rsp = c.rsp - 8
           /\ Read(n, c.rsp - 8) = Content(c, loc)
           /\ \A a : a # c.rsp - 8 => Read(n, a) = Read(c, a)
           /\ n.jump = c.jump /\ n.nargs = c.nargs /\ n.aligned = c.aligned
<1>1. RBP \in Registers /\ RBP # RAX
  BY RegisterNumbers
<1>2. CASE code = PushVia(loc)
  <2> DEFINE s == load_location_to_reg(RAX, loc)
             m == Run(c, s)
             t == emit_push(RAX)
             n == Run(m, t)
  <2>1. IsSeq(s) /\ Same(c, m, {RAX}) /\ m.regs[RAX] = Content(c, loc)
    BY Loading
  <2>2. IsCpu(m)
    BY <2>1 DEF Same, InFrame
  <2> HIDE DEF m, s
  <2>3. /\ IsSeq(t)
        /\ IsCpu(n) /\ n.regs = m.regs /\ n.rsp = m.rsp - 8
        /\ Read(n, m.rsp - 8) = m.regs[RAX]
        /\ \A a : a # m.rsp - 8 => Read(n, a) = Read(m, a)
        /\ n.jump = m.jump /\ n.nargs = m.nargs /\ n.aligned = m.aligned
    BY <2>2, OnePush
  <2>4. code = s \o t
    BY <1>2 DEF PushVia, s
  <2>5. IsSeq(s \o t) /\ Run(c, s \o t) = n
    BY <2>1, <2>3, Joined, RunTwo DEF m
  <2> HIDE DEF n, t
  <2>6. InFrame(n)
    BY <2>1, <2>3 DEF Same, InFrame
  <2> QED BY <2>1, <2>3, <2>4, <2>5, <2>6 DEF Same
<1>3. CASE code = PushArg(loc) /\ InReg(loc)
  <2> DEFINE d == loc.reg
             n == Run(c, emit_push(d))
  <2>1. code = emit_push(d) /\ Content(c, loc) = c.regs[d]
    BY <1>3 DEF PushArg, Content
  <2>2. /\ IsSeq(emit_push(d))
        /\ IsCpu(n) /\ n.regs = c.regs /\ n.rsp = c.rsp - 8
        /\ Read(n, c.rsp - 8) = c.regs[d]
        /\ \A a : a # c.rsp - 8 => Read(n, a) = Read(c, a)
        /\ n.jump = c.jump /\ n.nargs = c.nargs /\ n.aligned = c.aligned
    BY OnePush DEF InFrame
  <2> HIDE DEF n
  <2>3. InFrame(n)
    BY <2>2 DEF InFrame
  <2> QED BY <2>1, <2>2, <2>3 DEF n
<1>4. code = PushArg(loc) /\ ~InReg(loc) => code = PushVia(loc)
  BY DEF PushArg
<1> QED BY <1>2, <1>3, <1>4

\* n locations have been pushed, l[1] first.
Pushed(c, p, l, n) ==
    /\ InFrame(p) /\ \A r \in Registers \ {RAX} : p.regs[r] = c.regs[r]
    /\ p.rsp = c.rsp - 8 * n
    /\ \A j \in 1 .. n : Read(p, c.rsp - 8 * j) = Content(c, l[j])
    /\ \A a \in Int : a >= c.rsp => Read(p, a) = Read(c, a)
    /\ p.jump = c.jump /\ p.nargs = c.nargs /\ p.aligned = c.aligned

\* The pushes of a list of locations, one after the other.
LEMMA PushRun ==
    ASSUME NEW c, InFrame(c), NEW n \in Nat, NEW l, NEW seqs, IsList(seqs, n),
           \A i \in 1 .. n : /\ l[i] \in Locations
                             /\ OnStack(l[i]) => l[i].offset >= c.rsp
                             /\ seqs[i] \in {PushVia(l[i]), PushArg(l[i])}
    PROVE  IsSeq(FlattenSeq(seqs)) /\ Pushed(c, Run(c, FlattenSeq(seqs)), l, n)
<1>1. \A i \in 1 .. n : IsSeq(seqs[i])
  <2> SUFFICES ASSUME NEW i \in 1 .. n PROVE IsSeq(seqs[i])
    OBVIOUS
  <2> DEFINE code == seqs[i]
             loc == l[i]
  <2>1. loc \in Locations /\ code \in {PushVia(loc), PushArg(loc)}
    OBVIOUS
  <2> HIDE DEF code, loc
  <2>2. IsSeq(code)
    BY <2>1, LocationPushed
  <2> QED BY <2>2 DEF code
<1>2. IsSeq(FlattenSeq(seqs)) /\ \E g : Pieces(g, c, seqs, n)
  BY <1>1, FlattenRun, Zenon
<1>3. PICK g : Pieces(g, c, seqs, n)
  BY <1>2
<1> DEFINE T == {i \in Nat : i <= n => Pushed(c, g[i], l, i)}
<1>4. 0 \in T
  <2>1. c.rsp - 8 * 0 = c.rsp
    BY DEF InFrame, IsCpu
  <2> QED BY <1>3, <2>1 DEF Pushed, Pieces
<1>5. ASSUME NEW i \in Nat, i \in T PROVE i + 1 \in T
  <2> SUFFICES ASSUME i + 1 <= n PROVE Pushed(c, g[i + 1], l, i + 1)
    OBVIOUS
  <2> DEFINE p == g[i]
             k == i + 1
             q == g[k]
             loc == l[k]
             o == c.rsp
  <2>1. Pushed(c, p, l, i)
    BY <1>5
  <2>2. k \in 1 .. n /\ k - 1 = i /\ o \in Int
    BY DEF InFrame, IsCpu
  <2>3. q = Run(p, seqs[k])
    BY <1>3, <2>2 DEF Pieces
  <2>4. loc \in Locations /\ (OnStack(loc) => loc.offset >= o) /\ seqs[k] \in {PushVia(loc), PushArg(loc)}
    BY <2>2
  <2>5. InFrame(p) /\ p.rsp = o - 8 * i
    BY <2>1 DEF Pushed
  <2> HIDE DEF p, q, loc
  <2>6. /\ InFrame(q) /\ \A r \in Registers \ {RAX} : q.regs[r] = p.regs[r]
        /\ q.rsp = p.rsp - 8
        /\ Read(q, p.rsp - 8) = Content(p, loc)
        /\ \A a : a # p.rsp - 8 => Read(q, a) = Read(p, a)
        /\ q.jump = p.jump /\ q.nargs = p.nargs /\ q.aligned = p.aligned
    BY <2>3, <2>4, <2>5, LocationPushed
  <2>7. Content(p, loc) = Content(c, loc)
    <3>1. CASE InReg(loc)
      <4>1. loc.reg \in Registers \ {RAX}
        BY <2>4, <3>1, LocationKinds, RegisterNumbers
      <4> QED BY <2>1, <3>1, <4>1 DEF Pushed, Content
    <3>2. CASE OnStack(loc)
      <4>1. ~InReg(loc) /\ loc.offset \in Int /\ loc.offset >= o
        BY <2>4, <3>2, LocationKinds
      <4>2. At(p, loc.offset) = loc.offset /\ At(c, loc.offset) = loc.offset
        BY <2>5, <4>1, AtRbp
      <4> QED BY <2>1, <4>1, <4>2 DEF Pushed, Content
    <3> QED BY <2>4, <3>1, <3>2, LocationKinds
  <2>8. p.rsp - 8 = o - 8 * k
    BY <2>2, <2>5
  <2> HIDE DEF o
  <2>9. ASSUME NEW j \in 1 .. k PROVE Read(q, o - 8 * j) = Content(c, l[j])
    <3>1. CASE j = k
      BY <2>6, <2>7, <2>8, <3>1 DEF loc
    <3>2. CASE j # k
      <4>1. j \in 1 .. i /\ o - 8 * j # p.rsp - 8
        BY <2>2, <2>8, <3>2
      <4>2. Read(p, o - 8 * j) = Content(c, l[j])
        BY <2>1, <4>1 DEF Pushed, o
      <4> QED BY <2>6, <4>1, <4>2
    <3> QED BY <3>1, <3>2
  <2>10. ASSUME NEW a \in Int, a >= o PROVE Read(q, a) = Read(c, a)
    <3>1. a # p.rsp - 8
      BY <2>2, <2>8, <2>10
    <3> QED BY <2>1, <2>6, <2>10, <3>1 DEF Pushed, o
  <2>11. Pushed(c, q, l, k)
    <3>1. /\ \A r \in Registers \ {RAX} : q.regs[r] = c.regs[r]
          /\ q.jump = c.jump /\ q.nargs = c.nargs /\ q.aligned = c.aligned
      BY <2>1, <2>6 DEF Pushed
    <3>2. q.rsp = o - 8 * k
      BY <2>6, <2>8
    <3> QED BY <2>6, <2>9, <2>10, <3>1, <3>2 DEF Pushed, o
  <2> QED BY <2>11 DEF q
<1> HIDE DEF T
<1>6. n \in T
  BY <1>4, <1>5, Induction
<1>7. Pushed(c, g[n], l, n)
  BY <1>6 DEF T
<1> QED BY <1>2, <1>3, <1>7 DEF Pieces

\* n registers have been popped, rs[1] first.
Popped(c, p, rs, n) ==
    /\ IsCpu(p)
    /\ p.rsp = c.rsp + 8 * n
    /\ \A j \in 1 .. n : p.regs[rs[j]] = Read(c, c.rsp + 8 * (j - 1))
    /\ \A r \in Registers : (\A j \in 1 .. n : rs[j] # r) => p.regs[r] = c.regs[r]
    /\ \A a : Read(p, a) = Read(c, a)
    /\ p.jump = c.jump /\ p.nargs = c.nargs /\ p.aligned = c.aligned

\* The pops into different registers, one after the other.
LEMMA PopRun ==
    ASSUME NEW c, IsCpu(c), NEW n \in Nat, NEW rs,
           \A i \in 1 .. n : rs[i] \in Registers,
           \A i, j \in 1 .. n : rs[i] = rs[j] => i = j
    PROVE  LET code == FlattenSeq([i \in 1 .. n |-> emit_pop(rs[i])]) IN
           IsSeq(code) /\ Popped(c, Run(c, code), rs, n)
<1> DEFINE seqs == [i \in 1 .. n |-> emit_pop(rs[i])]
<1>1. IsList(seqs, n) /\ \A i \in 1 .. n : seqs[i] = emit_pop(rs[i])
  BY DEF IsList
<1> HIDE DEF seqs
<1>2. \A i \in 1 .. n : IsSeq(seqs[i])
  BY <1>1, RunPop
<1>3. IsSeq(FlattenSeq(seqs)) /\ \E g : Pieces(g, c, seqs, n)
  BY <1>1, <1>2, FlattenRun, Zenon
<1>4. PICK g : Pieces(g, c, seqs, n)
  BY <1>3
<1> DEFINE T == {i \in Nat : i <= n => Popped(c, g[i], rs, i)}
<1>5. 0 \in T
  <2>1. c.rsp + 8 * 0 = c.rsp
    BY DEF IsCpu
  <2> QED BY <1>4, <2>1 DEF Popped, Pieces
<1>6. ASSUME NEW i \in Nat, i \in T PROVE i + 1 \in T
  <2> SUFFICES ASSUME i + 1 <= n PROVE Popped(c, g[i + 1], rs, i + 1)
    OBVIOUS
  <2> DEFINE p == g[i]
             k == i + 1
             q == g[k]
             d == rs[k]
             o == c.rsp
  <2>1. Popped(c, p, rs, i)
    BY <1>6
  <2>2. k \in 1 .. n /\ k - 1 = i /\ o \in Int
    BY DEF IsCpu
  <2>3. q = Run(p, emit_pop(d)) /\ d \in Registers
    BY <1>1, <1>4, <2>2 DEF Pieces
  <2>4. IsCpu(p) /\ p.rsp = o + 8 * i
    BY <2>1 DEF Popped
  <2> HIDE DEF p, q, d
  <2>5. /\ IsCpu(q) /\ q.rsp = p.rsp + 8
        /\ q.regs[d] = Read(p, p.rsp)
        /\ \A r \in Registers : r # d => q.regs[r] = p.regs[r]
        /\ \A a : Read(q, a) = Read(p, a)
        /\ q.jump = p.jump /\ q.nargs = p.nargs /\ q.aligned = p.aligned
    BY <2>3, <2>4, OnePop
  <2>6. p.rsp + 8 = o + 8 * k
    BY <2>2, <2>4
  <2> HIDE DEF o
  <2>7. ASSUME NEW j \in 1 .. k PROVE q.regs[rs[j]] = Read(c, o + 8 * (j - 1))
    <3>1. CASE j = k
      <4>1. Read(p, p.rsp) = Read(c, o + 8 * (k - 1))
        BY <2>1, <2>2, <2>4 DEF Popped
      <4> QED BY <2>5, <3>1, <4>1 DEF d
    <3>2. CASE j # k
      <4>1. j \in 1 .. i /\ j \in 1 .. n
        BY <2>2, <3>2
      <4>2. p.regs[rs[j]] = Read(c, o + 8 * (j - 1))
        BY <2>1, <4>1 DEF Popped, o
      <4>3. rs[j] # d /\ rs[j] \in Registers
        BY <2>2, <3>2, <4>1 DEF d
      <4> QED BY <2>5, <4>2, <4>3
    <3> QED BY <3>1, <3>2
  <2>8. ASSUME NEW r \in Registers, \A j \in 1 .. k : rs[j] # r PROVE q.regs[r] = c.regs[r]
    <3>1. r # d
      BY <2>2, <2>8 DEF d
    <3>2. \A j \in 1 .. i : rs[j] # r
      BY <2>2, <2>8
    <3> QED BY <2>1, <2>5, <3>1, <3>2 DEF Popped
  <2>9. Popped(c, q, rs, k)
    <3>1. \A a : Read(q, a) = Read(c, a)
      BY <2>1, <2>5 DEF Popped
    <3>2. q.jump = c.jump /\ q.nargs = c.nargs /\ q.aligned = c.aligned
      BY <2>1, <2>5 DEF Popped
    <3>3. q.rsp = o + 8 * k
      BY <2>5, <2>6
    <3> QED BY <2>5, <2>7, <2>8, <3>1, <3>2, <3>3 DEF Popped, o
  <2> QED BY <2>9 DEF q
<1> HIDE DEF T
<1>7. n \in T
  BY <1>5, <1>6, Induction
<1>8. Popped(c, g[n], rs, n)
  BY <1>7 DEF T
<1> QED BY <1>3, <1>4, <1>8 DEF seqs, Pieces

\* ---- calls ----

\* rsp has moved by k.
Moved(c, n, k) ==
    /\ InFrame(n) /\ n.regs = c.regs /\ n.rsp = c.rsp + k
    /\ \A a : Read(n, a) = Read(c, a)
    /\ n.jump = c.jump /\ n.nargs = c.nargs /\ n.aligned = c.aligned

\* A move of rsp, or none.
LEMMA RspMoved ==
    ASSUME NEW c, InFrame(c), NEW k \in Int, NEW code,
           code = emit_add_rsp(k) \/ (code = <<>> /\ k = 0)
    PROVE  IsSeq(code) /\ Moved(c, Run(c, code), k)
<1>1. CASE code = emit_add_rsp(k)
  <2> DEFINE x == c.rsp + k
             n == SetRsp(c, x)
  <2>1. IsSeq(code) /\ Run(c, code) = n
    BY <1>1, RunAddRsp
  <2>2. x \in Int
    BY DEF InFrame, IsCpu
  <2> HIDE DEF x
  <2>3. /\ IsCpu(n) /\ n.rsp = x /\ n.regs = c.regs /\ n.jump = c.jump
        /\ n.nargs = c.nargs /\ n.aligned = c.aligned /\ \A a : Read(n, a) = Read(c, a)
    BY <2>2, RspSet DEF InFrame
  <2> HIDE DEF n
  <2> QED BY <2>1, <2>3 DEF x, Moved, InFrame
<1>2. CASE code = <<>> /\ k = 0
  <2>1. Run(c, <<>>) = c /\ IsSeq(<<>>)
    BY RunNone, NoElements
  <2>2. c.rsp + 0 = c.rsp
    BY DEF InFrame, IsCpu
  <2> QED BY <1>2, <2>1, <2>2 DEF Moved
<1> QED BY <1>1, <1>2

\* A callee keeps the registers and the memory of its caller.
LEMMA Called ==
    ASSUME NEW c, InFrame(c), c.rsp % 16 = 0, c.aligned = TRUE
    PROVE  LET n == CallResult(c) IN
           /\ InFrame(n) /\ n.regs[RAX] = <<"result", c.regs[RAX], ArgsAt(c, c.nargs)>>
           /\ \A r \in AllocatableRegs : n.regs[r] = c.regs[r]
           /\ \A a \in Int : a >= c.rsp => Read(n, a) = Read(c, a)
           /\ n.rsp = c.rsp /\ n.jump = c.jump /\ n.aligned = TRUE
<1> DEFINE v == <<"result", c.regs[RAX], ArgsAt(c, c.nargs)>>
           R == [r \in Registers |->
                    IF r = RAX THEN v ELSE IF r \in AbiSaved THEN c.regs[r] ELSE Junk]
           M == [a \in {b \in DOMAIN c.mem : b >= c.rsp} |-> c.mem[a]]
           n == CallResult(c)
           k == [regs |-> R, mem |-> M, rsp |-> c.rsp, flags |-> c.flags, jump |-> c.jump,
                 nargs |-> c.nargs, aligned |-> TRUE]
<1>1. n = k
  <2> HIDE DEF v
  <2>1. n = [c EXCEPT !.regs = R, !.mem = M, !.aligned = c.aligned /\ c.rsp % STACK_ALIGNMENT = 0]
    BY DEF CallResult, v
  <2> HIDE DEF R, M, n
  <2>2. (c.aligned /\ c.rsp % STACK_ALIGNMENT = 0) = TRUE
    BY DEF STACK_ALIGNMENT
  <2> DEFINE b == c.aligned /\ c.rsp % STACK_ALIGNMENT = 0
  <2>3. n = [c EXCEPT !.regs = R, !.mem = M, !.aligned = b]
    BY <2>1
  <2>4. b = TRUE
    BY <2>2
  <2> HIDE DEF b
  <2>5. c = [regs |-> c.regs, mem |-> c.mem, rsp |-> c.rsp, flags |-> c.flags, jump |-> c.jump,
             nargs |-> c.nargs, aligned |-> c.aligned]
    BY DEF InFrame, IsCpu
  <2> QED BY <2>3, <2>4, <2>5
<1>2. /\ R = [r \in Registers |-> R[r]] /\ R[RAX] = v
      /\ \A r \in AllocatableRegs : R[r] = c.regs[r]
      /\ R[RBP] = c.regs[RBP]
  <2>1. AllocatableRegs \subseteq AbiSaved /\ RBP \in AbiSaved
    BY RegisterNumbers DEF AbiSaved, R12, R13, R14, R15
  <2> HIDE DEF v
  <2> QED BY <2>1, RegisterNumbers
<1>3. /\ M = [a \in DOMAIN M |-> M[a]]
      /\ \A a \in Int : a >= c.rsp => (a \in DOMAIN M <=> a \in DOMAIN c.mem)
      /\ \A a \in DOMAIN M : M[a] = c.mem[a]
  OBVIOUS
<1> HIDE DEF R, M, n, v
<1>4. /\ k.regs = R /\ k.mem = M /\ k.rsp = c.rsp /\ k.flags = c.flags /\ k.jump = c.jump
      /\ k.nargs = c.nargs /\ k.aligned = TRUE
      /\ k = [regs |-> k.regs, mem |-> k.mem, rsp |-> k.rsp, flags |-> k.flags, jump |-> k.jump,
              nargs |-> k.nargs, aligned |-> k.aligned]
  OBVIOUS
<1> HIDE DEF k
<1>5. IsCpu(k)
  <2>1. c.rsp \in Int
    BY DEF InFrame, IsCpu
  <2>2. k.regs = [r \in Registers |-> k.regs[r]]
    BY <1>2, <1>4, Zenon
  <2>3. k.mem = [a \in DOMAIN k.mem |-> k.mem[a]]
    BY <1>3, <1>4, Zenon
  <2>4. k.rsp \in Int /\ k.aligned \in BOOLEAN
    BY <1>4, <2>1
  <2> QED BY <1>4, <2>2, <2>3, <2>4, Zenon DEF IsCpu
<1>6. InFrame(k)
  BY <1>2, <1>4, <1>5 DEF InFrame
<1>7. \A a \in Int : a >= c.rsp => Read(k, a) = Read(c, a)
  BY <1>3, <1>4 DEF Read
<1>8. k.regs[RAX] = v /\ \A r \in AllocatableRegs : k.regs[r] = c.regs[r]
  BY <1>2, <1>4
<1>9. n = k /\ k.rsp = c.rsp /\ k.jump = c.jump /\ k.aligned = TRUE
  BY <1>1, <1>4
<1> QED BY <1>6, <1>7, <1>8, <1>9 DEF v, n

\* The registers for arguments.
LEMMA ArgumentRegisters ==
    /\ \A i \in 1 .. 6 : arg_registers[i] \in Registers
    /\ \A i \in 1 .. 6 : arg_registers[i] \notin AllocatableRegs \cup {RAX, RBP, RSP}
    /\ \A i, j \in 1 .. 6 : arg_registers[i] = arg_registers[j] => i = j
    /\ AbiArgs = arg_registers
<1>1. /\ arg_registers[1] = 7 /\ arg_registers[2] = 6 /\ arg_registers[3] = 2
      /\ arg_registers[4] = 1 /\ arg_registers[5] = 8 /\ arg_registers[6] = 9
  BY DEF arg_registers, RDI, RSI, RDX, RCX, R8, R9
<1>2. AbiArgs = arg_registers
  BY DEF AbiArgs, arg_registers
<1>3. AllocatableRegs \cup {RAX, RBP, RSP} = {3, 12, 13, 14, 15, 0, 5, 4}
  BY RegisterNumbers DEF RBX, R12, R13, R14, R15, RAX, RBP, RSP
<1> HIDE DEF arg_registers
<1> QED BY <1>1, <1>2, <1>3 DEF Registers

\* The code before the call proper: pad, arguments on the stack, arguments in
\* registers.
CallSetup(locs, count, sa, ra) ==
    (((IF NeedsAlignment(sa) THEN emit_add_rsp(-(STACK_ALIGNMENT \div 2)) ELSE <<>>)
        \o FlattenSeq([i \in 1 .. sa |-> PushVia(locs[count + 1 - i])]))
        \o FlattenSeq([i \in 1 .. ra |-> PushArg(locs[ra + 1 - i])]))
        \o FlattenSeq([i \in 1 .. ra |-> emit_pop(arg_registers[i])])

\* The locations of n arguments, none of them below rsp.
Arguments(c, locs, n) ==
    \A i \in 1 .. n : locs[i] \in Locations /\ (OnStack(locs[i]) => locs[i].offset >= c.rsp)

\* What a callee with sa arguments on the stack and ra in registers finds.
SetUp(c, n, locs, sa, ra) ==
    /\ InFrame(n) /\ \A r \in AllocatableRegs : n.regs[r] = c.regs[r]
    /\ n.rsp = c.rsp - Cleanup(sa) /\ n.rsp % 16 = 0 /\ Cleanup(sa) \in Nat
    /\ \A a \in Int : a >= c.rsp => Read(n, a) = Read(c, a)
    /\ n.jump = c.jump /\ n.nargs = c.nargs /\ n.aligned = c.aligned
    /\ \A i \in 1 .. ra : n.regs[arg_registers[i]] = Content(c, locs[i])
    /\ \A i \in 7 .. sa + ra : Read(n, n.rsp + 8 * (i - 7)) = Content(c, locs[i])

\* The callee finds the arguments, and the stack aligned.
LEMMA CallSetupCode ==
    ASSUME NEW c, InFrame(c), NEW sa \in Nat, NEW ra \in 0 .. 6, sa > 0 => ra = 6, NEW locs,
           NEW count \in Nat, count = sa + ra,
           Arguments(c, locs, sa + ra), c.rsp % 16 = 0
    PROVE  /\ IsSeq(CallSetup(locs, count, sa, ra))
           /\ SetUp(c, Run(c, CallSetup(locs, count, sa, ra)), locs, sa, ra)
<1> DEFINE pad == IF NeedsAlignment(sa) THEN 8 ELSE 0
           A == IF NeedsAlignment(sa) THEN emit_add_rsp(-(STACK_ALIGNMENT \div 2)) ELSE <<>>
           seqsB == [i \in 1 .. sa |-> PushVia(locs[count + 1 - i])]
           lB == [i \in 1 .. sa |-> locs[count + 1 - i]]
           B == FlattenSeq(seqsB)
           seqsC == [i \in 1 .. ra |-> PushArg(locs[ra + 1 - i])]
           lC == [i \in 1 .. ra |-> locs[ra + 1 - i]]
           C == FlattenSeq(seqsC)
           D == FlattenSeq([i \in 1 .. ra |-> emit_pop(arg_registers[i])])
           c1 == Run(c, A)
           c2 == Run(c1, B)
           c3 == Run(c2, C)
           c4 == Run(c3, D)
           o == c.rsp
<1>1. /\ o \in Int /\ ra \in Nat /\ ra <= 6
      /\ pad \in {0, 8} /\ (pad = 8 <=> sa % 2 # 0)
      /\ Cleanup(sa) = 8 * sa + pad
  BY DEF InFrame, IsCpu, NeedsAlignment, Cleanup, STACK_ALIGNMENT
<1>2. IsSeq(A) /\ Moved(c, c1, 0 - pad)
  <2>1. A = emit_add_rsp(0 - pad) \/ (A = <<>> /\ 0 - pad = 0)
    <3>1. -(STACK_ALIGNMENT \div 2) = -8
      BY DEF STACK_ALIGNMENT
    <3>2. CASE NeedsAlignment(sa)
      <4>1. pad = 8 /\ A = emit_add_rsp(-8)
        BY <3>1, <3>2
      <4>2. 0 - pad = -8
        BY <4>1
      <4> QED BY <4>1, <4>2
    <3>3. CASE ~NeedsAlignment(sa)
      <4>1. pad = 0
        BY <3>3
      <4>2. A = <<>>
        BY <3>3
      <4> HIDE DEF pad
      <4>3. 0 - pad = 0
        BY <4>1
      <4> QED BY <4>2, <4>3
    <3> QED BY <3>2, <3>3
  <2>2. 0 - pad \in Int
    BY <1>1
  <2> HIDE DEF A, pad
  <2> QED BY <2>1, <2>2, RspMoved
<1> HIDE DEF pad, A, c1
<1>3. InFrame(c1) /\ c1.rsp = o - pad
  BY <1>1, <1>2 DEF Moved
<1>4. IsSeq(B) /\ Pushed(c1, c2, lB, sa)
  <2>1. IsList(seqsB, sa)
    BY DEF IsList
  <2>2. ASSUME NEW i \in 1 .. sa
        PROVE  /\ lB[i] \in Locations /\ (OnStack(lB[i]) => lB[i].offset >= c1.rsp)
               /\ seqsB[i] \in {PushVia(lB[i]), PushArg(lB[i])}
    <3>1. count + 1 - i \in 1 .. sa + ra
      BY <1>1
    <3>2. lB[i] = locs[count + 1 - i]
      OBVIOUS
    <3>3. seqsB[i] = PushVia(lB[i])
      OBVIOUS
    <3> HIDE DEF lB, seqsB
    <3>4. lB[i] \in Locations /\ (OnStack(lB[i]) => lB[i].offset >= o /\ lB[i].offset \in Int)
      BY <3>1, <3>2, LocationKinds DEF Arguments
    <3> QED BY <1>1, <1>3, <3>3, <3>4
  <2> HIDE DEF lB, seqsB
  <2> QED BY <1>3, <2>1, <2>2, PushRun
<1>5. \A i \in 1 .. sa : lB[i] = locs[count + 1 - i]
  OBVIOUS
<1> HIDE DEF c2, B, lB, seqsB
<1>6. InFrame(c2) /\ c2.rsp = o - pad - 8 * sa /\ c2.rsp <= o
  BY <1>1, <1>3, <1>4 DEF Pushed
<1>7. IsSeq(C) /\ Pushed(c2, c3, lC, ra)
  <2>1. IsList(seqsC, ra)
    BY DEF IsList
  <2>2. ASSUME NEW i \in 1 .. ra
        PROVE  /\ lC[i] \in Locations /\ (OnStack(lC[i]) => lC[i].offset >= c2.rsp)
               /\ seqsC[i] \in {PushVia(lC[i]), PushArg(lC[i])}
    <3>1. ra + 1 - i \in 1 .. sa + ra
      BY <1>1
    <3>2. lC[i] = locs[ra + 1 - i]
      OBVIOUS
    <3>3. seqsC[i] = PushArg(lC[i])
      OBVIOUS
    <3> HIDE DEF lC, seqsC
    <3>4. lC[i] \in Locations /\ (OnStack(lC[i]) => lC[i].offset >= o /\ lC[i].offset \in Int)
      BY <3>1, <3>2, LocationKinds DEF Arguments
    <3>5. OnStack(lC[i]) => lC[i].offset >= c2.rsp
      BY <1>1, <1>6, <3>4
    <3> QED BY <3>3, <3>4, <3>5
  <2> HIDE DEF lC, seqsC
  <2> QED BY <1>1, <1>6, <2>1, <2>2, PushRun
<1>8. \A i \in 1 .. ra : lC[i] = locs[ra + 1 - i]
  OBVIOUS
<1> HIDE DEF c3, C, lC, seqsC
<1>9. InFrame(c3) /\ c3.rsp = c2.rsp - 8 * ra
  BY <1>7 DEF Pushed
<1>10. IsSeq(D) /\ Popped(c3, c4, arg_registers, ra)
  <2>1. \A i \in 1 .. ra : i \in 1 .. 6
    BY <1>1
  <2>2. /\ \A i \in 1 .. ra : arg_registers[i] \in Registers
        /\ \A i, j \in 1 .. ra : arg_registers[i] = arg_registers[j] => i = j
    BY <2>1, ArgumentRegisters
  <2>3. IsCpu(c3)
    BY <1>9 DEF InFrame
  <2> QED BY <1>1, <2>2, <2>3, PopRun
<1> HIDE DEF c4, D
<1>11. IsSeq((A \o B) \o C) /\ IsSeq(A \o B)
  BY <1>2, <1>4, <1>7, Joined
<1>12. /\ IsSeq(((A \o B) \o C) \o D)
       /\ Run(c, ((A \o B) \o C) \o D) = c4
  <2>1. Run(c, A \o B) = c2
    BY <1>2, <1>4, RunTwo DEF c1, c2
  <2>2. Run(c, (A \o B) \o C) = c3
    BY <1>7, <1>11, <2>1, RunTwo DEF c3
  <2>3. Run(c, ((A \o B) \o C) \o D) = c4
    BY <1>10, <1>11, <2>2, RunTwo DEF c4
  <2> QED BY <1>10, <1>11, <2>3, Joined
<1>13. CallSetup(locs, count, sa, ra) = ((A \o B) \o C) \o D
  BY DEF CallSetup, A, B, C, D, seqsB, seqsC
<1>14. \A r \in AllocatableRegs \cup {RBP} :
          r \in Registers \ {RAX} /\ \A j \in 1 .. ra : arg_registers[j] # r
  <2>1. \A i \in 1 .. ra : i \in 1 .. 6
    BY <1>1
  <2> QED BY <2>1, ArgumentRegisters, RegisterNumbers
<1>15. \A r \in AllocatableRegs \cup {RBP} : c4.regs[r] = c.regs[r]
  <2>1. \A r \in AllocatableRegs \cup {RBP} : c4.regs[r] = c3.regs[r]
    BY <1>10, <1>14 DEF Popped
  <2>2. \A r \in AllocatableRegs \cup {RBP} : c3.regs[r] = c2.regs[r]
    BY <1>7, <1>14 DEF Pushed
  <2>3. \A r \in AllocatableRegs \cup {RBP} : c2.regs[r] = c1.regs[r]
    BY <1>4, <1>14 DEF Pushed
  <2>4. c1.regs = c.regs
    BY <1>2 DEF Moved
  <2> QED BY <2>1, <2>2, <2>3, <2>4
<1>16. InFrame(c4)
  <2>1. c4.regs[RBP] = c.regs[RBP]
    BY <1>15
  <2> QED BY <1>10, <2>1 DEF InFrame, Popped
<1>17. c4.rsp = o - Cleanup(sa)
  BY <1>1, <1>6, <1>9, <1>10 DEF Popped
<1>18. c4.rsp % 16 = 0 /\ Cleanup(sa) \in Nat
  <2> DEFINE m == IF pad = 8 THEN (sa + 1) \div 2 ELSE sa \div 2
  <2>1. m \in Int /\ 8 * sa + pad = 16 * m
    BY <1>1
  <2>2. o % 16 = 0
    OBVIOUS
  <2> HIDE DEF m, o
  <2>3. (o - 16 * m) % 16 = 0
    BY <1>1, <2>1, <2>2
  <2>4. c4.rsp = o - 16 * m
    BY <1>1, <1>17, <2>1
  <2> QED BY <1>1, <2>3, <2>4
<1>19. ASSUME NEW a \in Int, a >= o PROVE Read(c4, a) = Read(c, a)
  <2>1. a >= c1.rsp /\ a >= c2.rsp
    BY <1>1, <1>3, <1>6, <1>19
  <2>2. Read(c4, a) = Read(c3, a)
    BY <1>10 DEF Popped
  <2>3. Read(c3, a) = Read(c2, a)
    BY <1>7, <2>1 DEF Pushed
  <2>4. Read(c2, a) = Read(c1, a)
    BY <1>4, <2>1 DEF Pushed
  <2>5. Read(c1, a) = Read(c, a)
    BY <1>2 DEF Moved
  <2> QED BY <2>2, <2>3, <2>4, <2>5
<1>20. c4.jump = c.jump /\ c4.nargs = c.nargs /\ c4.aligned = c.aligned
  BY <1>2, <1>4, <1>7, <1>10 DEF Moved, Pushed, Popped
<1>21. ASSUME NEW i \in 1 .. sa + ra
       PROVE  Content(c1, locs[i]) = Content(c, locs[i]) /\ Content(c2, locs[i]) = Content(c, locs[i])
  <2> DEFINE loc == locs[i]
  <2>1. loc \in Locations /\ (OnStack(loc) => loc.offset >= o)
    BY DEF Arguments
  <2> HIDE DEF loc
  <2>2. CASE InReg(loc)
    <3>1. loc.reg \in Registers \ {RAX}
      BY <2>1, <2>2, LocationKinds, RegisterNumbers
    <3>2. c1.regs[loc.reg] = c.regs[loc.reg] /\ c2.regs[loc.reg] = c1.regs[loc.reg]
      BY <1>2, <1>4, <3>1 DEF Moved, Pushed
    <3> QED BY <2>2, <3>2 DEF Content, loc
  <2>3. CASE OnStack(loc)
    <3>1. ~InReg(loc) /\ loc.offset \in Int /\ loc.offset >= o
      BY <2>1, <2>3, LocationKinds
    <3>2. /\ At(c, loc.offset) = loc.offset /\ At(c1, loc.offset) = loc.offset
          /\ At(c2, loc.offset) = loc.offset
      BY <1>3, <1>6, <3>1, AtRbp
    <3>3. loc.offset >= c1.rsp
      BY <1>1, <1>3, <3>1
    <3>4. Read(c1, loc.offset) = Read(c, loc.offset) /\ Read(c2, loc.offset) = Read(c1, loc.offset)
      BY <1>2, <1>4, <3>1, <3>3 DEF Moved, Pushed
    <3> QED BY <3>1, <3>2, <3>4 DEF Content, loc
  <2> QED BY <2>1, <2>2, <2>3, LocationKinds
<1>22. ASSUME NEW i \in 1 .. ra PROVE c4.regs[arg_registers[i]] = Content(c, locs[i])
  <2> DEFINE j == ra + 1 - i
  <2>1. j \in 1 .. ra /\ ra + 1 - j = i /\ i \in 1 .. sa + ra
    <3>1. i \in Int /\ 1 <= i /\ i <= ra /\ ra \in Int /\ sa \in Nat
      BY <1>1
    <3> QED BY <3>1
  <2>2. c4.regs[arg_registers[i]] = Read(c3, c3.rsp + 8 * (i - 1))
    BY <1>10 DEF Popped
  <2>3. c3.rsp + 8 * (i - 1) = c2.rsp - 8 * j
    BY <1>1, <1>6, <1>9
  <2>4. Read(c3, c2.rsp - 8 * j) = Content(c2, lC[j])
    BY <1>7, <2>1 DEF Pushed
  <2>5. lC[j] = locs[i]
    BY <1>8, <2>1
  <2> HIDE DEF j
  <2> QED BY <1>21, <2>1, <2>2, <2>3, <2>4, <2>5
<1>23. ASSUME NEW i \in 7 .. sa + ra PROVE Read(c4, c4.rsp + 8 * (i - 7)) = Content(c, locs[i])
  <2> DEFINE j == count + 1 - i
             a == c4.rsp + 8 * (i - 7)
  <2>1. ra = 6 /\ j \in 1 .. sa /\ count + 1 - j = i /\ i \in 1 .. sa + ra
    <3>1. i \in Int /\ 7 <= i /\ i <= sa + ra
      BY <1>1
    <3>2. sa > 0
      BY <1>1, <3>1
    <3>3. ra = 6
      BY <3>2
    <3> QED BY <3>1, <3>3
  <2>2. a = c1.rsp - 8 * j /\ a >= c2.rsp /\ a \in Int
    BY <1>1, <1>3, <1>6, <1>17, <2>1
  <2>3. Read(c2, c1.rsp - 8 * j) = Content(c1, lB[j])
    BY <1>4, <2>1 DEF Pushed
  <2>4. lB[j] = locs[i]
    BY <1>5, <2>1
  <2> HIDE DEF j, a
  <2>5. Read(c4, a) = Read(c3, a) /\ Read(c3, a) = Read(c2, a)
    BY <1>7, <1>10, <2>2 DEF Pushed, Popped
  <2>6. Read(c4, a) = Content(c, locs[i])
    BY <1>21, <2>1, <2>2, <2>3, <2>4, <2>5
  <2> QED BY <2>6 DEF a
<1>24. SetUp(c, c4, locs, sa, ra)
  BY <1>15, <1>16, <1>17, <1>18, <1>19, <1>20, <1>22, <1>23 DEF SetUp
<1> QED BY <1>12, <1>13, <1>24

\* A call: the callee finds its arguments, its result goes to dest.
LEMMA CallCode ==
    ASSUME NEW c, InFrame(c), NEW dest \in Locations, NEW count \in Nat, NEW locs, IsList(locs, count),
           Arguments(c, locs, count), NEW func, c.rsp % 16 = 0, c.nargs = count, c.aligned = TRUE
    PROVE  Effect(c, Run(c, encode_call(dest, locs, func)), dest,
                  <<"result", <<"code of", func>>, [i \in 1 .. count |-> Content(c, locs[i])]>>,
                  {a \in Int : a >= c.rsp})
<1> DEFINE N == Len(locs)
           sa == IF N > SYS_V_MAX_REG_ARGS THEN N - SYS_V_MAX_REG_ARGS ELSE 0
           ra == N - sa
           S == CallSetup(locs, N, sa, ra)
           E == <<Ins("movabs", 10, func, 0), Ins("call", 2, RAX, 0)>>
           F == IF Cleanup(sa) > 0 THEN emit_add_rsp(Cleanup(sa)) ELSE <<>>
           G == store_reg_to_location(dest, RAX)
           args == [i \in 1 .. count |-> Content(c, locs[i])]
           v == <<"result", <<"code of", func>>, args>>
           o == c.rsp
<1>1. encode_call(dest, locs, func) = ((S \o E) \o F) \o G
  BY DEF encode_call, CallSetup, PushVia, PushArg
<1>2. N = count
  BY Listed DEF IsList
<1> HIDE DEF N
<1>3. /\ sa \in Nat /\ ra \in 0 .. 6 /\ (sa > 0 => ra = 6) /\ N = sa + ra /\ sa + ra = count
      /\ o \in Int /\ N \in Nat
  <2>1. N \in Nat /\ SYS_V_MAX_REG_ARGS = 6 /\ o \in Int
    BY <1>2 DEF SYS_V_MAX_REG_ARGS, InFrame, IsCpu
  <2>2. CASE N > 6
    <3>1. sa = N - 6 /\ ra = N - (N - 6)
      BY <2>1, <2>2
    <3> HIDE DEF sa, ra
    <3> QED BY <1>2, <2>1, <2>2, <3>1
  <2>3. CASE ~(N > 6)
    <3>1. sa = 0 /\ ra = N - 0
      BY <2>1, <2>3
    <3> HIDE DEF sa, ra
    <3> QED BY <1>2, <2>1, <2>3, <3>1
  <2> QED BY <2>2, <2>3
<1> DEFINE c1 == Run(c, S)
           c2 == SetReg(c1, RAX, <<"code of", func>>)
           c3 == CallResult(c2)
           c4 == Run(c3, F)
           c5 == Run(c4, G)
<1> HIDE DEF N, sa, ra, S, F, G, args
<1>4. IsSeq(S) /\ SetUp(c, c1, locs, sa, ra)
  <2>1. Arguments(c, locs, sa + ra)
    BY <1>3
  <2> QED BY <1>3, <2>1, CallSetupCode DEF S
<1> HIDE DEF c1
<1>5. IsSeq(E) /\ Run(c1, E) = c3
  BY RunCall
<1> HIDE DEF E
<1>6. Same(c1, c2, {RAX}) /\ c2.regs[RAX] = <<"code of", func>>
  <2> DEFINE x == <<"code of", func>>
             k == SetReg(c1, RAX, x)
  <2>1. RAX \in Registers /\ RAX # RBP /\ InFrame(c1)
    BY <1>4, RegisterNumbers DEF SetUp
  <2> HIDE DEF x
  <2>2. Same(c1, k, {RAX}) /\ k.regs[RAX] = x
    BY <2>1, OneSet
  <2> HIDE DEF k
  <2>3. c2 = k
    BY DEF k, x
  <2> HIDE DEF c2
  <2> QED BY <2>2, <2>3 DEF x
<1> HIDE DEF c2
<1>7. InFrame(c2) /\ c2.rsp = c1.rsp /\ c2.aligned = TRUE /\ c2.nargs = count
  BY <1>4, <1>6 DEF Same, SetUp
<1>8. /\ InFrame(c3) /\ c3.regs[RAX] = <<"result", c2.regs[RAX], ArgsAt(c2, c2.nargs)>>
      /\ \A r \in AllocatableRegs : c3.regs[r] = c2.regs[r]
      /\ \A a \in Int : a >= c2.rsp => Read(c3, a) = Read(c2, a)
      /\ c3.rsp = c2.rsp /\ c3.jump = c2.jump /\ c3.aligned = TRUE
  <2>1. c2.rsp % 16 = 0
    BY <1>4, <1>7 DEF SetUp
  <2> QED BY <1>7, <2>1, Called
<1> HIDE DEF c3
<1>9. ArgsAt(c2, c2.nargs) = args
  <2>1. ArgsAt(c2, count) = [i \in 1 .. count |->
            IF i <= 6 THEN c2.regs[AbiArgs[i]] ELSE Read(c2, c2.rsp + 8 * (i - 7))]
    BY DEF ArgsAt, WORD_SIZE
  <2>2. ASSUME NEW i \in 1 .. count
        PROVE  (IF i <= 6 THEN c2.regs[AbiArgs[i]] ELSE Read(c2, c2.rsp + 8 * (i - 7)))
                 = Content(c, locs[i])
    <3>1. CASE i <= 6
      <4>1. i \in 1 .. ra /\ i \in 1 .. 6
        BY <1>3, <3>1
      <4>2. AbiArgs[i] = arg_registers[i] /\ arg_registers[i] \in Registers \ {RAX}
        BY <4>1, ArgumentRegisters
      <4>3. c2.regs[arg_registers[i]] = c1.regs[arg_registers[i]]
        BY <1>6, <4>2 DEF Same
      <4>4. c1.regs[arg_registers[i]] = Content(c, locs[i])
        BY <1>4, <4>1 DEF SetUp
      <4> QED BY <3>1, <4>2, <4>3, <4>4
    <3>2. CASE ~(i <= 6)
      <4>1. i \in 7 .. sa + ra
        BY <1>3, <3>2
      <4>2. Read(c1, c1.rsp + 8 * (i - 7)) = Content(c, locs[i])
        BY <1>4, <4>1 DEF SetUp
      <4>3. Read(c2, c2.rsp + 8 * (i - 7)) = Read(c1, c1.rsp + 8 * (i - 7))
        BY <1>6, <1>7 DEF Same
      <4> QED BY <3>2, <4>2, <4>3
    <3> QED BY <3>1, <3>2
  <2> QED BY <1>7, <2>1, <2>2 DEF args
<1>10. IsSeq(F) /\ Moved(c3, c4, Cleanup(sa))
  <2>1. F = emit_add_rsp(Cleanup(sa)) \/ (F = <<>> /\ Cleanup(sa) = 0)
    BY <1>4 DEF F, SetUp
  <2>2. Cleanup(sa) \in Int
    BY <1>4 DEF SetUp
  <2> QED BY <1>8, <2>1, <2>2, RspMoved
<1> HIDE DEF c4
<1>11. InFrame(c4) /\ c4.regs[RAX] = v
  BY <1>6, <1>8, <1>9, <1>10 DEF Moved
<1>12. IsSeq(G) /\ Wrote(c4, c5, dest, v)
  <2>1. RAX \in Registers /\ RAX # RSP
    BY RegisterNumbers
  <2> HIDE DEF v
  <2> QED BY <1>11, <2>1, Storing DEF G
<1>13. Run(c, ((S \o E) \o F) \o G) = c5
  <2>1. IsSeq(S \o E) /\ Run(c, S \o E) = c3
    BY <1>4, <1>5, Joined, RunTwo DEF c1
  <2>2. IsSeq((S \o E) \o F) /\ Run(c, (S \o E) \o F) = c4
    BY <1>10, <2>1, Joined, RunTwo DEF c4
  <2>3. IsSeq(G)
    BY <1>12
  <2> QED BY <2>2, <2>3, RunTwo
<1> HIDE DEF c5
<1>14. \A r \in AllocatableRegs : c4.regs[r] = c.regs[r]
  <2>1. \A r \in AllocatableRegs : r \in Registers \ {RAX}
    BY RegisterNumbers
  <2> QED BY <1>4, <1>6, <1>8, <1>10, <2>1 DEF Same, Moved, SetUp
<1>15. \A a \in Int : a >= o => Read(c4, a) = Read(c, a)
  <2> SUFFICES ASSUME NEW a \in Int, a >= o PROVE Read(c4, a) = Read(c, a)
    OBVIOUS
  <2>1. a >= c2.rsp
    BY <1>3, <1>4, <1>7 DEF SetUp
  <2> QED BY <1>4, <1>6, <1>8, <1>10, <2>1 DEF Same, Moved, SetUp
<1>16. c4.rsp = o /\ c4.jump = c.jump /\ c4.aligned = c.aligned
  <2>1. (o - Cleanup(sa)) + Cleanup(sa) = o
    BY <1>3, <1>4 DEF SetUp
  <2> QED BY <1>4, <1>6, <1>8, <1>10, <2>1 DEF Same, Moved, SetUp
<1> HIDE DEF v
<1>17. Effect(c, c5, dest, v, {a \in Int : a >= o})
  BY <1>12, <1>14, <1>15, <1>16, RegisterNumbers DEF Wrote, Effect
<1> QED BY <1>1, <1>13, <1>17 DEF v, args

\* ---- the prologue and the return ----

\* The return address and the registers of the caller, in their places.
SavedWords(c) ==
    /\ Read(c, 8) = <<"return address">>
    /\ Read(c, 0) = Callers(RBP)
    /\ \A i \in 1 .. 5 : Read(c, -(8 * i)) = Callers(CalleeSaved[i])

\* The registers the prologue saves are those the convention says, each once.
LEMMA SavedRegisters ==
    /\ Len(CalleeSaved) = 5
    /\ \A i \in 1 .. 5 : CalleeSaved[i] \in AllocatableRegs
    /\ \A i \in 1 .. 5 : Reverse(CalleeSaved)[i] = CalleeSaved[6 - i]
    /\ \A i, j \in 1 .. 5 : CalleeSaved[i] = CalleeSaved[j] => i = j
    /\ \A r \in AllocatableRegs : \E i \in 1 .. 5 : CalleeSaved[i] = r
    /\ AbiSaved = AllocatableRegs \cup {RBP}
<1>1. /\ CalleeSaved[1] = 3 /\ CalleeSaved[2] = 12 /\ CalleeSaved[3] = 13
      /\ CalleeSaved[4] = 14 /\ CalleeSaved[5] = 15 /\ Len(CalleeSaved) = 5
  BY DEF CalleeSaved, RBX, R12, R13, R14, R15
<1>2. AllocatableRegs = {3, 12, 13, 14, 15}
  BY RegisterNumbers DEF RBX, R12, R13, R14, R15
<1>3. \A i \in 1 .. 5 : Reverse(CalleeSaved)[i] = CalleeSaved[6 - i]
  <2> SUFFICES ASSUME NEW i \in 1 .. 5 PROVE Reverse(CalleeSaved)[i] = CalleeSaved[6 - i]
    OBVIOUS
  <2>1. (5 - i) + 1 = 6 - i
    OBVIOUS
  <2> QED BY <1>1, <2>1 DEF Reverse
<1>4. AbiSaved = AllocatableRegs \cup {RBP}
  <2>1. AbiSaved = {3, 5} \cup (12 .. 15)
    BY DEF AbiSaved, RBX, RBP, R12, R15
  <2>2. 12 .. 15 = {12, 13, 14, 15}
    OBVIOUS
  <2> QED BY <1>2, <2>1, <2>2 DEF RBP
<1> HIDE DEF CalleeSaved
<1> QED BY <1>1, <1>2, <1>3, <1>4

\* The return leaves everything as the caller wants it.
LEMMA RetCode ==
    ASSUME NEW c, InFrame(c), NEW src \in Locations, SavedWords(c)
    PROVE  LET n == Run(c, encode_ret(src)) IN
           /\ n.jump = <<"return address">>
           /\ n.regs[RAX] = Content(c, src)
           /\ n.rsp = 16 /\ n.aligned = c.aligned
           /\ \A r \in AbiSaved : n.regs[r] = Callers(r)
<1> DEFINE A == load_location_to_reg(RAX, src)
           B == <<Ins("learsp", 4, -CALLEE_SAVED_SIZE, 0)>>
           rs == Reverse(CalleeSaved)
           C == FlattenSeq([i \in 1 .. 5 |-> emit_pop(rs[i])])
           D == emit_pop(RBP)
           E == <<Ins("ret", 1, 0, 0)>>
           c1 == Run(c, A)
           c2 == SetRsp(c1, At(c1, -CALLEE_SAVED_SIZE))
           c3 == Run(c2, C)
           c4 == Run(c3, D)
           k == SetJump(c4, Read(c4, c4.rsp))
           c5 == SetRsp(k, c4.rsp + WORD_SIZE)
<1>1. IsSeq(A) /\ Same(c, c1, {RAX}) /\ c1.regs[RAX] = Content(c, src)
  BY Loading
<1>2. InFrame(c1) /\ CALLEE_SAVED_SIZE = 40
  BY <1>1 DEF Same, CALLEE_SAVED_SIZE, CALLEE_SAVED_COUNT
<1> HIDE DEF A, c1
<1>3. At(c1, -CALLEE_SAVED_SIZE) = -40
  BY <1>2, AtRbp
<1>4. IsSeq(B) /\ Run(c1, B) = c2
  BY RunLeaRsp
<1> HIDE DEF B
<1>5. /\ IsCpu(c2) /\ c2.rsp = -40 /\ c2.regs = c1.regs /\ c2.jump = c1.jump
      /\ c2.nargs = c1.nargs /\ c2.aligned = c1.aligned /\ \A a : Read(c2, a) = Read(c1, a)
  <2> DEFINE x == At(c1, -CALLEE_SAVED_SIZE)
  <2>1. x \in Int /\ x = -40
    BY <1>3
  <2> HIDE DEF x
  <2> QED BY <1>2, <2>1, RspSet DEF InFrame, x
<1> HIDE DEF c2
<1>6. IsSeq(C) /\ Popped(c2, c3, rs, 5)
  <2>1. \A i \in 1 .. 5 : rs[i] \in Registers
    BY SavedRegisters, RegisterNumbers
  <2>2. \A i, j \in 1 .. 5 : rs[i] = rs[j] => i = j
    <3> SUFFICES ASSUME NEW i \in 1 .. 5, NEW j \in 1 .. 5, rs[i] = rs[j] PROVE i = j
      OBVIOUS
    <3>1. 6 - i \in 1 .. 5 /\ 6 - j \in 1 .. 5
      OBVIOUS
    <3>2. 6 - i = 6 - j
      BY <3>1, SavedRegisters
    <3> QED BY <3>2
  <2> HIDE DEF rs
  <2> QED BY <1>5, <2>1, <2>2, PopRun
<1>7. \A i \in 1 .. 5 : rs[i] = CalleeSaved[6 - i]
  BY SavedRegisters
<1> HIDE DEF C, c3, rs
<1>8. IsCpu(c3) /\ c3.rsp = 0
  BY <1>5, <1>6 DEF Popped
<1>9. /\ IsSeq(D) /\ IsCpu(c4) /\ c4.rsp = c3.rsp + 8
      /\ c4.regs[RBP] = Read(c3, c3.rsp)
      /\ \A r \in Registers : r # RBP => c4.regs[r] = c3.regs[r]
      /\ \A a : Read(c4, a) = Read(c3, a)
      /\ c4.jump = c3.jump /\ c4.nargs = c3.nargs /\ c4.aligned = c3.aligned
  BY <1>8, OnePop, RegisterNumbers
<1> HIDE DEF D, c4
<1>10. IsSeq(E) /\ Run(c4, E) = c5
  BY RunRet
<1>11. c5.jump = Read(c4, 8) /\ c5.rsp = 16 /\ c5.regs = c4.regs /\ c5.aligned = c4.aligned
  <2> DEFINE x == c4.rsp + WORD_SIZE
             v == Read(c4, c4.rsp)
  <2>1. x = 16 /\ v = Read(c4, 8) /\ x \in Int
    BY <1>8, <1>9 DEF WORD_SIZE
  <2> HIDE DEF x, v
  <2>2. /\ IsCpu(SetJump(c4, v)) /\ SetJump(c4, v).jump = v /\ SetJump(c4, v).regs = c4.regs
        /\ SetJump(c4, v).aligned = c4.aligned
    BY <1>9, JumpSet
  <2> DEFINE m == SetJump(c4, v)
  <2> HIDE DEF m
  <2>3. /\ SetRsp(m, x).rsp = x /\ SetRsp(m, x).regs = m.regs
        /\ SetRsp(m, x).jump = m.jump /\ SetRsp(m, x).aligned = m.aligned
    BY <2>1, <2>2, RspSet DEF m
  <2> QED BY <2>1, <2>2, <2>3 DEF m, x, v
<1> HIDE DEF E, c5
<1>12. encode_ret(src) = (((A \o B) \o C) \o D) \o E
  BY DEF encode_ret, A, B, C, D, E, rs
<1>13. Run(c, (((A \o B) \o C) \o D) \o E) = c5
  <2>1. IsSeq(A \o B) /\ Run(c, A \o B) = c2
    BY <1>1, <1>4, Joined, RunTwo DEF c1
  <2>2. IsSeq((A \o B) \o C) /\ Run(c, (A \o B) \o C) = c3
    BY <1>6, <2>1, Joined, RunTwo DEF c3
  <2>3. IsSeq(((A \o B) \o C) \o D) /\ Run(c, ((A \o B) \o C) \o D) = c4
    BY <1>9, <2>2, Joined, RunTwo DEF c4
  <2> QED BY <1>10, <2>3, RunTwo
<1>14. \A a : Read(c4, a) = Read(c, a) /\ Read(c3, a) = Read(c, a) /\ Read(c2, a) = Read(c, a)
  BY <1>1, <1>5, <1>6, <1>9 DEF Same, Popped
<1>15. c5.jump = <<"return address">> /\ c4.regs[RBP] = Callers(RBP) /\ c5.aligned = c.aligned
  BY <1>1, <1>5, <1>6, <1>8, <1>9, <1>11, <1>14 DEF SavedWords, Same, Popped
<1>16. c5.regs[RAX] = Content(c, src)
  <2>1. \A j \in 1 .. 5 : rs[j] # RAX
    <3> SUFFICES ASSUME NEW j \in 1 .. 5 PROVE rs[j] # RAX
      OBVIOUS
    <3>1. 6 - j \in 1 .. 5
      OBVIOUS
    <3>2. rs[j] \in AllocatableRegs
      BY <1>7, <3>1, SavedRegisters
    <3> QED BY <3>2, RegisterNumbers
  <2>2. c3.regs[RAX] = c2.regs[RAX]
    BY <1>6, <2>1, RegisterNumbers DEF Popped
  <2>3. c4.regs[RAX] = c3.regs[RAX]
    BY <1>9, RegisterNumbers
  <2> QED BY <1>1, <1>5, <1>11, <2>2, <2>3
<1>17. \A r \in AllocatableRegs : c4.regs[r] = Callers(r)
  <2> SUFFICES ASSUME NEW r \in AllocatableRegs PROVE c4.regs[r] = Callers(r)
    OBVIOUS
  <2>1. PICK i \in 1 .. 5 : CalleeSaved[i] = r
    BY SavedRegisters
  <2> DEFINE j == 6 - i
  <2>2. j \in 1 .. 5 /\ 6 - j = i /\ -40 + 8 * (j - 1) = -(8 * i)
    OBVIOUS
  <2>3. rs[j] = r
    BY <1>7, <2>1, <2>2
  <2>4. c3.regs[rs[j]] = Read(c2, c2.rsp + 8 * (j - 1))
    BY <1>6, <2>2 DEF Popped
  <2>5. Read(c2, -(8 * i)) = Callers(CalleeSaved[i])
    BY <1>14 DEF SavedWords
  <2>6. c4.regs[r] = c3.regs[r]
    BY <1>9, RegisterNumbers
  <2> HIDE DEF j
  <2> QED BY <1>5, <2>1, <2>2, <2>3, <2>4, <2>5, <2>6
<1>18. \A r \in AbiSaved : c5.regs[r] = Callers(r)
  BY <1>11, <1>15, <1>17, SavedRegisters
<1> QED BY <1>11, <1>12, <1>13, <1>15, <1>16, <1>18

\* n is c with v at loc, rax used up.
Placed(c, n, loc, v) ==
    /\ InFrame(n)
    /\ Content(n, loc) = v
    /\ \A r \in Registers \ {RAX} : ~(InReg(loc) /\ loc.reg = r) => n.regs[r] = c.regs[r]
    /\ \A a : ~(OnStack(loc) /\ loc.offset = a) => Read(n, a) = Read(c, a)
    /\ n.rsp = c.rsp /\ n.jump = c.jump /\ n.aligned = c.aligned

\* The value v of parameter i has arrived.
Arrived(c, i, v) ==
    /\ i <= 6 => c.regs[arg_registers[i]] = v
    /\ i > 6 => Read(c, 16 + 8 * (i - 7)) = v

\* A parameter goes to its location.
LEMMA ParamMoved ==
    ASSUME NEW c, InFrame(c), NEW loc \in Locations, NEW i \in Nat, i > 0, NEW v, Arrived(c, i, v)
    PROVE  IsSeq(MoveParam(i, loc)) /\ Placed(c, Run(c, MoveParam(i, loc)), loc, v)
<1> DEFINE disp == 2 * WORD_SIZE + (i - 1 - SYS_V_MAX_REG_ARGS) * WORD_SIZE
<1>1. disp \in Int /\ disp = 16 + 8 * (i - 7) /\ SYS_V_MAX_REG_ARGS = 6
  BY DEF WORD_SIZE, SYS_V_MAX_REG_ARGS
<1> DEFINE code == MoveParam(i, loc)
<1>2. CASE i <= 6
  <2> DEFINE r == arg_registers[i]
  <2>1. code = store_reg_to_location(loc, r)
    BY <1>1, <1>2 DEF MoveParam
  <2>2. i \in 1 .. 6
    BY <1>2
  <2>3. r \in Registers /\ r # RSP
    BY <2>2, ArgumentRegisters
  <2>4. c.regs[r] = v
    BY <1>2 DEF Arrived
  <2> HIDE DEF code, r
  <2>5. IsSeq(code) /\ Wrote(c, Run(c, code), loc, v)
    BY <2>1, <2>3, <2>4, Storing
  <2> QED BY <2>5 DEF Wrote, Placed, code
<1>3. CASE i > 6 /\ InReg(loc)
  <2>1. code = emit_load_param(loc.reg, disp)
    BY <1>1, <1>3 DEF MoveParam
  <2>2. At(c, disp) = disp /\ Read(c, disp) = v
    BY <1>1, <1>3, AtRbp DEF Arrived
  <2> HIDE DEF disp, code
  <2>3. IsSeq(code) /\ Run(c, code) = SetReg(c, loc.reg, v)
    BY <2>1, <2>2, RunLoad
  <2>4. Wrote(c, SetReg(c, loc.reg, v), loc, v)
    BY <1>3, RegisterWrote
  <2> QED BY <2>3, <2>4 DEF Wrote, Placed, code
<1>4. CASE i > 6 /\ ~InReg(loc)
  <2> DEFINE A == emit_load_param(RAX, disp)
             B == emit_store_local(RAX, loc.offset)
             m == SetReg(c, RAX, v)
             n == Write(m, At(m, loc.offset), m.regs[RAX])
  <2>1. code = A \o B
    BY <1>1, <1>4 DEF MoveParam
  <2>2. At(c, disp) = disp /\ Read(c, disp) = v
    BY <1>1, <1>4, AtRbp DEF Arrived
  <2>3. IsSeq(A) /\ Run(c, A) = m
    BY <2>2, RunLoad
  <2>4. IsSeq(B) /\ Run(m, B) = n
    BY RunStore
  <2>5. Same(c, m, {RAX}) /\ m.regs[RAX] = v
    BY RegisterNumbers, OneSet
  <2> HIDE DEF disp, A, B, code, m
  <2>6. IsSeq(A \o B) /\ Run(c, A \o B) = n
    BY <2>3, <2>4, Joined, RunTwo
  <2>7. InFrame(m) /\ OnStack(loc)
    BY <1>4, <2>5, LocationKinds DEF Same
  <2>8. Wrote(m, n, loc, v)
    BY <2>5, <2>7, SlotWrote
  <2> HIDE DEF n
  <2>9. Placed(c, n, loc, v)
    BY <2>5, <2>8 DEF Same, Wrote, Placed
  <2> QED BY <2>1, <2>6, <2>9 DEF code
<1> QED BY <1>2, <1>3, <1>4

\* Locations of parameters: apart from each other and from the saved words.
Apart(locs, n) ==
    /\ \A i \in 1 .. n : locs[i] \in Locations /\ (OnStack(locs[i]) => locs[i].offset < -40)
    /\ \A i, j \in 1 .. n : locs[i] = locs[j] => i = j

\* The first k parameters are at their locations.
ParamsPlaced(c, p, locs, k) ==
    /\ InFrame(p)
    /\ \A i \in 1 .. k : Content(p, locs[i]) = Param(i)
    /\ \A r \in Registers \ (AllocatableRegs \cup {RAX}) : p.regs[r] = c.regs[r]
    /\ \A a \in Int : a >= -40 => Read(p, a) = Read(c, a)
    /\ p.rsp = c.rsp /\ p.jump = c.jump /\ p.aligned = c.aligned

\* One parameter more.
LEMMA ParamThen ==
    ASSUME NEW c, NEW p, NEW q, NEW n \in Nat, NEW locs, Apart(locs, n), NEW k \in 1 .. n,
           InFrame(c), ParamsPlaced(c, p, locs, k - 1), Placed(p, q, locs[k], Param(k))
    PROVE  ParamsPlaced(c, q, locs, k)
<1> DEFINE loc == locs[k]
<1>1. loc \in Locations /\ (OnStack(loc) => loc.offset < -40)
  BY DEF Apart
<1>2. ASSUME NEW i \in 1 .. k PROVE Content(q, locs[i]) = Param(i)
  <2>1. CASE i = k
    BY <2>1 DEF Placed
  <2>2. CASE i # k
    <3> DEFINE other == locs[i]
    <3>1. i \in 1 .. k - 1 /\ i \in 1 .. n
      BY <2>2
    <3>2. Content(p, other) = Param(i)
      BY <3>1 DEF ParamsPlaced
    <3>3. other \in Locations /\ other # loc
      BY <2>2, <3>1 DEF Apart
    <3> HIDE DEF other, loc
    <3>4. CASE InReg(other)
      <4>1. other.reg \in Registers \ {RAX} /\ other = LocReg(other.reg)
        BY <3>3, <3>4, LocationKinds, RegisterNumbers
      <4>2. ~(InReg(loc) /\ loc.reg = other.reg)
        BY <1>1, <3>3, <4>1, LocationKinds
      <4>3. q.regs[other.reg] = p.regs[other.reg]
        BY <4>1, <4>2 DEF Placed, loc
      <4> QED BY <3>2, <3>4, <4>3 DEF Content, other
    <3>5. CASE OnStack(other)
      <4>1. ~InReg(other) /\ other.offset \in Int /\ other = LocStack(other.offset)
        BY <3>3, <3>5, LocationKinds
      <4>2. ~(OnStack(loc) /\ loc.offset = other.offset)
        BY <1>1, <3>3, <4>1, LocationKinds
      <4>3. Read(q, other.offset) = Read(p, other.offset)
        BY <4>2 DEF Placed, loc
      <4>4. At(p, other.offset) = other.offset /\ At(q, other.offset) = other.offset
        BY <4>1, AtRbp DEF Placed, ParamsPlaced
      <4> QED BY <3>2, <4>1, <4>3, <4>4 DEF Content, other
    <3> QED BY <3>3, <3>4, <3>5, LocationKinds
  <2> QED BY <2>1, <2>2
<1>3. \A r \in Registers \ (AllocatableRegs \cup {RAX}) : q.regs[r] = c.regs[r]
  <2> SUFFICES ASSUME NEW r \in Registers \ (AllocatableRegs \cup {RAX}) PROVE q.regs[r] = c.regs[r]
    OBVIOUS
  <2>1. ~(InReg(loc) /\ loc.reg = r)
    BY <1>1, LocationKinds
  <2>2. q.regs[r] = p.regs[r]
    BY <2>1 DEF Placed
  <2> QED BY <2>2 DEF ParamsPlaced
<1>4. \A a \in Int : a >= -40 => Read(q, a) = Read(c, a)
  <2> SUFFICES ASSUME NEW a \in Int, a >= -40 PROVE Read(q, a) = Read(c, a)
    OBVIOUS
  <2>1. ~(OnStack(loc) /\ loc.offset = a)
    BY <1>1, LocationKinds
  <2>2. Read(q, a) = Read(p, a)
    BY <2>1 DEF Placed
  <2> QED BY <2>2 DEF ParamsPlaced
<1> QED BY <1>2, <1>3, <1>4 DEF Placed, ParamsPlaced

\* All parameters go to their locations.
LEMMA ParamsMoved ==
    ASSUME NEW c, InFrame(c), NEW n \in Nat, NEW locs, Apart(locs, n),
           \A i \in 1 .. n : Arrived(c, i, Param(i))
    PROVE  LET code == FlattenSeq([i \in 1 .. n |-> MoveParam(i, locs[i])]) IN
           IsSeq(code) /\ ParamsPlaced(c, Run(c, code), locs, n)
<1> DEFINE seqs == [i \in 1 .. n |-> MoveParam(i, locs[i])]
<1>1. IsList(seqs, n) /\ \A i \in 1 .. n : seqs[i] = MoveParam(i, locs[i])
  BY DEF IsList
<1> HIDE DEF seqs
<1>2. \A i \in 1 .. n : IsSeq(seqs[i])
  <2> SUFFICES ASSUME NEW i \in 1 .. n PROVE IsSeq(seqs[i])
    OBVIOUS
  <2> DEFINE loc == locs[i]
             v == Param(i)
  <2>1. loc \in Locations /\ i \in Nat /\ i > 0 /\ Arrived(c, i, v)
    BY DEF Apart
  <2> HIDE DEF loc, v
  <2>2. IsSeq(MoveParam(i, loc))
    BY <2>1, ParamMoved
  <2> QED BY <1>1, <2>2 DEF loc
<1>3. IsSeq(FlattenSeq(seqs)) /\ \E g : Pieces(g, c, seqs, n)
  BY <1>1, <1>2, FlattenRun, Zenon
<1>4. PICK g : Pieces(g, c, seqs, n)
  BY <1>3
<1> DEFINE T == {i \in Nat : i <= n => ParamsPlaced(c, g[i], locs, i)}
<1>5. 0 \in T
  BY <1>4 DEF ParamsPlaced, Pieces
<1>6. ASSUME NEW i \in Nat, i \in T PROVE i + 1 \in T
  <2> SUFFICES ASSUME i + 1 <= n PROVE ParamsPlaced(c, g[i + 1], locs, i + 1)
    OBVIOUS
  <2> DEFINE p == g[i]
             k == i + 1
             q == g[k]
             loc == locs[k]
             v == Param(k)
  <2>1. k \in 1 .. n /\ k - 1 = i /\ k \in Nat /\ k > 0
    OBVIOUS
  <2>2. ParamsPlaced(c, p, locs, k - 1)
    BY <1>6, <2>1
  <2>3. q = Run(p, MoveParam(k, loc)) /\ loc \in Locations
    BY <1>1, <1>4, <2>1 DEF Pieces, Apart
  <2>4. InFrame(p)
    BY <2>2 DEF ParamsPlaced
  <2>5. Arrived(p, k, v)
    <3>1. Arrived(c, k, v)
      BY <2>1
    <3>2. k <= 6 => p.regs[arg_registers[k]] = c.regs[arg_registers[k]]
      <4> SUFFICES ASSUME k <= 6 PROVE p.regs[arg_registers[k]] = c.regs[arg_registers[k]]
        OBVIOUS
      <4>1. k \in 1 .. 6
        BY <2>1
      <4>2. arg_registers[k] \in Registers \ (AllocatableRegs \cup {RAX})
        BY <4>1, ArgumentRegisters
      <4> QED BY <2>2, <4>2 DEF ParamsPlaced
    <3>3. k > 6 => Read(p, 16 + 8 * (k - 7)) = Read(c, 16 + 8 * (k - 7))
      <4> DEFINE a == 16 + 8 * (k - 7)
      <4>1. k > 6 => a \in Int /\ a >= -40
        BY <2>1
      <4> HIDE DEF a
      <4>2. k > 6 => Read(p, a) = Read(c, a)
        BY <2>2, <4>1 DEF ParamsPlaced
      <4> QED BY <4>2 DEF a
    <3> QED BY <3>1, <3>2, <3>3 DEF Arrived
  <2> HIDE DEF p, q, loc, v
  <2>6. Placed(p, q, loc, v)
    BY <2>1, <2>3, <2>4, <2>5, ParamMoved
  <2>7. ParamsPlaced(c, q, locs, k)
    BY <2>1, <2>2, <2>6, ParamThen DEF loc, v
  <2> QED BY <2>7 DEF q
<1> HIDE DEF T
<1>7. n \in T
  BY <1>5, <1>6, Induction
<1>8. ParamsPlaced(c, g[n], locs, n)
  BY <1>7 DEF T
<1> QED BY <1>3, <1>4, <1>8 DEF seqs, Pieces

\* What the function finds at its entry.
LEMMA Entry ==
    ASSUME NEW c, NEW n \in Nat, c.regs = EntryRegs(n), c.mem = EntryMem(n)
    PROVE  /\ \A r \in AllocatableRegs \cup {RBP} : c.regs[r] = Callers(r)
           /\ Read(c, 8) = <<"return address">>
           /\ \A i \in 1 .. n : Arrived(c, i, Param(i))
<1>1. \A i \in 1 .. 6 : AbiArgs[i] = arg_registers[i] /\ AbiArgs[i] \in Registers
  BY ArgumentRegisters DEF AbiArgs, arg_registers
<1>2. ASSUME NEW r \in AllocatableRegs \cup {RBP} PROVE c.regs[r] = Callers(r)
  <2>1. r \in Registers
    BY RegisterNumbers
  <2>2. \A i \in 1 .. 6 : AbiArgs[i] # r
    <3>1. \A i \in 1 .. 6 : AbiArgs[i] \in {1, 2, 6, 7, 8, 9}
      BY DEF AbiArgs, RDI, RSI, RDX, RCX, R8, R9
    <3>2. r \in {3, 5, 12, 13, 14, 15}
      BY RegisterNumbers DEF RBX, RBP, R12, R13, R14, R15
    <3> QED BY <3>1, <3>2
  <2> QED BY <2>1, <2>2 DEF EntryRegs
<1>3. Read(c, 8) = <<"return address">>
  <2>1. EntryRsp = 8 /\ WORD_SIZE = 8
    BY DEF EntryRsp, WORD_SIZE
  <2>2. 8 \in {8 + 8 * k : k \in 0 .. (IF n > 6 THEN n - 6 ELSE 0)}
    <3>1. 0 \in 0 .. (IF n > 6 THEN n - 6 ELSE 0) /\ 8 = 8 + 8 * 0
      OBVIOUS
    <3> QED BY <3>1
  <2> DEFINE D == {8 + 8 * k : k \in 0 .. (IF n > 6 THEN n - 6 ELSE 0)}
  <2> HIDE DEF D
  <2>3. c.mem = [a \in D |-> IF a = 8 THEN <<"return address">> ELSE Param(6 + (a - 8) \div 8)]
    BY DEF EntryMem, EntryRsp, WORD_SIZE, D
  <2>4. 8 \in DOMAIN c.mem /\ c.mem[8] = <<"return address">>
    BY <2>2, <2>3 DEF D
  <2> QED BY <2>4 DEF Read
<1>4. ASSUME NEW i \in 1 .. n PROVE Arrived(c, i, Param(i))
  <2>1. ASSUME i <= 6 PROVE c.regs[arg_registers[i]] = Param(i)
    <3> DEFINE r == arg_registers[i]
    <3>1. i \in 1 .. 6
      BY <2>1
    <3>2. AbiArgs[i] = r /\ r \in Registers
      BY <1>1, <3>1
    <3>3. \A j \in 1 .. 6 : AbiArgs[j] = r => j = i
      BY <1>1, <3>1, ArgumentRegisters
    <3> HIDE DEF r
    <3>4. (CHOOSE j \in 1 .. 6 : AbiArgs[j] = r) = i
      BY <3>1, <3>2, <3>3
    <3>5. c.regs[r] = IF \E j \in 1 .. 6 : j <= n /\ AbiArgs[j] = r
                      THEN Param(CHOOSE j \in 1 .. 6 : AbiArgs[j] = r)
                      ELSE Callers(r)
      BY <3>2 DEF EntryRegs
    <3>6. \E j \in 1 .. 6 : j <= n /\ AbiArgs[j] = r
      BY <3>1, <3>2
    <3>7. c.regs[r] = Param(i)
      BY <3>4, <3>5, <3>6
    <3> QED BY <3>7 DEF r
  <2>2. ASSUME i > 6 PROVE Read(c, 16 + 8 * (i - 7)) = Param(i)
    <3> DEFINE a == 16 + 8 * (i - 7)
    <3>1. i - 6 \in 0 .. n - 6 /\ n > 6 /\ a = 8 + 8 * (i - 6) /\ a # 8
      BY <2>2
    <3>2. a \in {8 + 8 * k : k \in 0 .. (IF n > 6 THEN n - 6 ELSE 0)}
      BY <3>1
    <3>3. 6 + (a - 8) \div 8 = i
      BY <2>2
    <3>4. EntryRsp = 8 /\ WORD_SIZE = 8
      BY DEF EntryRsp, WORD_SIZE
    <3> HIDE DEF a
    <3>5. a \in DOMAIN c.mem /\ c.mem[a] = Param(6 + (a - 8) \div 8)
      BY <3>1, <3>2, <3>4 DEF EntryMem
    <3> QED BY <3>3, <3>5 DEF Read, a
  <2> QED BY <2>1, <2>2 DEF Arrived
<1> QED BY <1>2, <1>3, <1>4

\* The code of the prologue up to the parameters saves what the return restores.
SaveCode(size) ==
    ((emit_push(RBP) \o emit_mov_reg_reg(RBP, RSP))
        \o FlattenSeq([i \in 1 .. 5 |-> emit_push(CalleeSaved[i])]))
        \o (IF size > 0 THEN emit_add_rsp(-size) ELSE <<>>)

\* The frame is set up, the parameters are not moved yet.
Framed(c, p, size) ==
    /\ InFrame(p) /\ SavedWords(p)
    /\ p.rsp = -40 - size /\ p.jump = c.jump /\ p.aligned = c.aligned
    /\ \A r \in Registers \ {RAX, RBP} : p.regs[r] = c.regs[r]
    /\ \A a \in Int : a >= 8 => Read(p, a) = Read(c, a)

\* The registers and the stack of the caller.
AtEntry(c) ==
    /\ IsCpu(c) /\ c.rsp = 8
    /\ \A r \in AllocatableRegs \cup {RBP} : c.regs[r] = Callers(r)
    /\ Read(c, EntryRsp) = <<"return address">>

\* push rbp, mov rbp, and the pushes of the saved registers.
LEMMA FrameSetUp ==
    ASSUME NEW c, AtEntry(c), NEW size \in Nat
    PROVE  IsSeq(SaveCode(size)) /\ Framed(c, Run(c, SaveCode(size)), size)
<1> DEFINE A == emit_push(RBP)
           B == emit_mov_reg_reg(RBP, RSP)
           seqs == [i \in 1 .. 5 |-> emit_push(CalleeSaved[i])]
           l == [i \in 1 .. 5 |-> LocReg(CalleeSaved[i])]
           C == FlattenSeq(seqs)
           D == IF size > 0 THEN emit_add_rsp(-size) ELSE <<>>
           c1 == Run(c, A)
           c2 == Run(c1, B)
           c3 == Run(c2, C)
           c4 == Run(c3, D)
<1>1. /\ IsSeq(A) /\ IsCpu(c1) /\ c1.regs = c.regs /\ c1.rsp = 0
      /\ Read(c1, 0) = Callers(RBP)
      /\ \A a : a # 0 => Read(c1, a) = Read(c, a)
      /\ c1.jump = c.jump /\ c1.aligned = c.aligned
  <2> DEFINE x == c.rsp - 8
  <2>0. \A r \in AllocatableRegs \cup {RBP} : c.regs[r] = Callers(r)
    BY Zenon DEF AtEntry
  <2>1. x = 0 /\ c.regs[RBP] = Callers(RBP) /\ IsCpu(c)
    <3>1. c.rsp = 8 /\ IsCpu(c)
      BY Zenon DEF AtEntry
    <3>2. x = 0
      BY <3>1
    <3> QED BY <2>0, <3>1, <3>2, Zenon
  <2>2. /\ IsSeq(A) /\ IsCpu(c1) /\ c1.regs = c.regs /\ c1.rsp = x
        /\ Read(c1, x) = c.regs[RBP]
        /\ \A a : a # x => Read(c1, a) = Read(c, a)
        /\ c1.jump = c.jump /\ c1.nargs = c.nargs /\ c1.aligned = c.aligned
    BY <2>1, OnePush
  <2> HIDE DEF x
  <2> QED BY <2>1, <2>2
<1> HIDE DEF A, c1
<1>2. /\ IsSeq(B) /\ InFrame(c2) /\ c2.rsp = 0
      /\ \A r \in Registers : r # RBP => c2.regs[r] = c.regs[r]
      /\ \A a : Read(c2, a) = Read(c1, a)
      /\ c2.jump = c.jump /\ c2.aligned = c.aligned
  <2> DEFINE v == <<"address", 0>>
  <2>1. IsSeq(B) /\ c2 = SetReg(c1, RBP, v)
    BY <1>1, RunMov
  <2> HIDE DEF v, B, c2
  <2> DEFINE m == SetReg(c1, RBP, v)
  <2>2. /\ IsCpu(m) /\ m.regs[RBP] = v
        /\ \A r \in Registers : r # RBP => m.regs[r] = c1.regs[r]
        /\ \A a : Read(m, a) = Read(c1, a)
        /\ m.rsp = c1.rsp /\ m.jump = c1.jump /\ m.aligned = c1.aligned
    <3>1. IsCpu(c1) /\ RBP \in Registers
      BY <1>1, RegisterNumbers
    <3> QED BY <3>1, RegSet
  <2>6. c2 = m
    BY <2>1
  <2> HIDE DEF m
  <2>3. InFrame(c2)
    BY <2>6, <2>2 DEF InFrame, v
  <2>4. c2.rsp = 0 /\ c2.jump = c.jump /\ c2.aligned = c.aligned
    BY <1>1, <2>6, <2>2
  <2>5. c1.regs = c.regs
    BY <1>1
  <2> QED BY <2>1, <2>2, <2>3, <2>4, <2>5, <2>6
<1> HIDE DEF B, c2
<1>3. \A i \in 1 .. 5 : l[i] = LocReg(CalleeSaved[i]) /\ seqs[i] = emit_push(CalleeSaved[i])
  OBVIOUS
<1>4. IsList(seqs, 5)
  BY DEF IsList
<1> HIDE DEF seqs, l
<1>5. \A i \in 1 .. 5 : /\ l[i] \in Locations
                        /\ OnStack(l[i]) => l[i].offset >= c2.rsp
                        /\ seqs[i] \in {PushVia(l[i]), PushArg(l[i])}
                        /\ Content(c2, l[i]) = Callers(CalleeSaved[i])
  <2> SUFFICES ASSUME NEW i \in 1 .. 5
               PROVE  /\ l[i] \in Locations
                      /\ OnStack(l[i]) => l[i].offset >= c2.rsp
                      /\ seqs[i] \in {PushVia(l[i]), PushArg(l[i])}
                      /\ Content(c2, l[i]) = Callers(CalleeSaved[i])
    OBVIOUS
  <2> DEFINE r == CalleeSaved[i]
  <2>1. r \in AllocatableRegs /\ r # RBP /\ r \in Registers
    BY SavedRegisters, RegisterNumbers
  <2>2. l[i] = LocReg(r) /\ seqs[i] = emit_push(r)
    BY <1>3
  <2> HIDE DEF r
  <2>3. LocReg(r) \in Locations /\ InReg(LocReg(r)) /\ ~OnStack(LocReg(r)) /\ LocReg(r).reg = r
    BY <2>1 DEF LocReg, InReg, OnStack, Locations
  <2>4. PushArg(LocReg(r)) = emit_push(r)
    BY <2>3 DEF PushArg
  <2>5. Content(c2, LocReg(r)) = Callers(r)
    <3>1. c.regs[r] = Callers(r)
      BY <2>1, Zenon DEF AtEntry
    <3>2. c2.regs[r] = c.regs[r]
      BY <1>2, <2>1
    <3> QED BY <2>3, <3>1, <3>2 DEF Content
  <2> QED BY <2>2, <2>3, <2>4, <2>5 DEF r
<1>6. IsSeq(C) /\ Pushed(c2, c3, l, 5)
  <2> DEFINE n == 5
  <2>1. n \in Nat /\ n = 5
    OBVIOUS
  <2> HIDE DEF n
  <2>2. IsList(seqs, n)
    BY <1>4, <2>1
  <2>3. ASSUME NEW i \in 1 .. n
        PROVE  /\ l[i] \in Locations /\ (OnStack(l[i]) => l[i].offset >= c2.rsp)
               /\ seqs[i] \in {PushVia(l[i]), PushArg(l[i])}
    BY <1>5, <2>1
  <2>4. InFrame(c2)
    BY <1>2
  <2>5. IsSeq(C) /\ Pushed(c2, Run(c2, C), l, n)
    BY <2>1, <2>2, <2>3, <2>4, PushRun
  <2> QED BY <2>1, <2>5
<1> HIDE DEF C, c3
<1>7. /\ InFrame(c3) /\ c3.rsp = -40
      /\ \A r \in Registers \ {RAX} : c3.regs[r] = c2.regs[r]
      /\ \A j \in 1 .. 5 : Read(c3, -(8 * j)) = Callers(CalleeSaved[j])
      /\ \A a \in Int : a >= 0 => Read(c3, a) = Read(c2, a)
      /\ c3.jump = c2.jump /\ c3.aligned = c2.aligned
  <2> DEFINE o == c2.rsp
  <2>0. o = 0
    BY <1>2
  <2>1. \A j \in 1 .. 5 : o - 8 * j = -(8 * j)
    BY <2>0
  <2>2. \A j \in 1 .. 5 : Read(c3, -(8 * j)) = Callers(CalleeSaved[j])
    <3> SUFFICES ASSUME NEW j \in 1 .. 5 PROVE Read(c3, -(8 * j)) = Callers(CalleeSaved[j])
      OBVIOUS
    <3>1. Read(c3, c2.rsp - 8 * j) = Content(c2, l[j])
      BY <1>6 DEF Pushed
    <3> QED BY <1>5, <2>1, <3>1
  <2>3. c3.rsp = -40
    <3>1. c3.rsp = o - 8 * 5
      BY <1>6 DEF Pushed
    <3> HIDE DEF o
    <3> QED BY <2>0, <3>1
  <2>4. \A a \in Int : a >= o => Read(c3, a) = Read(c2, a)
    BY <1>6 DEF Pushed
  <2> QED BY <1>6, <2>0, <2>2, <2>3, <2>4 DEF Pushed
<1>8. IsSeq(D) /\ Moved(c3, c4, -size)
  <2> DEFINE k == -size
  <2>1. k \in Int /\ (D = emit_add_rsp(k) \/ (D = <<>> /\ k = 0))
    OBVIOUS
  <2> HIDE DEF k, D
  <2>2. IsSeq(D) /\ Moved(c3, Run(c3, D), k)
    BY <1>7, <2>1, RspMoved
  <2> QED BY <2>2 DEF k
<1> HIDE DEF D, c4
<1>9. Run(c, ((A \o B) \o C) \o D) = c4 /\ IsSeq(((A \o B) \o C) \o D)
  <2>0. Run(c, A) = c1 /\ Run(c1, B) = c2 /\ Run(c2, C) = c3 /\ Run(c3, D) = c4
    BY DEF c1, c2, c3, c4
  <2>a. IsSeq(A) /\ IsSeq(B) /\ IsSeq(C) /\ IsSeq(D)
    BY <1>1, <1>2, <1>6, <1>8
  <2>1. IsSeq(A \o B) /\ Run(c, A \o B) = c2
    BY <2>0, <2>a, Joined, RunTwo
  <2>2. IsSeq((A \o B) \o C) /\ Run(c, (A \o B) \o C) = c3
    BY <2>0, <2>a, <2>1, Joined, RunTwo
  <2> QED BY <2>0, <2>a, <2>2, Joined, RunTwo
<1>10. ((A \o B) \o C) \o D = SaveCode(size)
  BY DEF SaveCode, A, B, C, D, seqs
<1>11. SavedWords(c4)
  <2>1. Read(c4, EntryRsp) = <<"return address">>
    <3>1. EntryRsp \in Int /\ EntryRsp >= 0 /\ EntryRsp # 0
      BY DEF EntryRsp, WORD_SIZE
    <3>2. Read(c1, EntryRsp) = <<"return address">>
      BY <1>1, <3>1 DEF AtEntry
    <3> QED BY <1>2, <1>7, <1>8, <3>1, <3>2 DEF Moved
  <2>2. Read(c4, 0) = Callers(RBP)
    <3>1. Read(c3, 0) = Read(c1, 0)
      BY <1>2, <1>7
    <3> QED BY <1>1, <1>8, <3>1 DEF Moved
  <2>3. \A i \in 1 .. 5 : Read(c4, -(8 * i)) = Callers(CalleeSaved[i])
    BY <1>7, <1>8 DEF Moved
  <2> QED BY <2>1, <2>2, <2>3 DEF SavedWords, EntryRsp, WORD_SIZE
<1>12. \A a \in Int : a >= 8 => Read(c4, a) = Read(c, a)
  <2> SUFFICES ASSUME NEW a \in Int, a >= 8 PROVE Read(c4, a) = Read(c, a)
    OBVIOUS
  <2>1. a >= 0 /\ a # 0
    OBVIOUS
  <2> QED BY <1>1, <1>2, <1>7, <1>8, <2>1 DEF Moved
<1>13. \A r \in Registers \ {RAX, RBP} : c4.regs[r] = c.regs[r]
  BY <1>2, <1>7, <1>8 DEF Moved
<1>14. c4.rsp = -40 - size
  BY <1>7, <1>8 DEF Moved
<1>15. InFrame(c4) /\ c4.jump = c.jump /\ c4.aligned = c.aligned
  BY <1>2, <1>7, <1>8 DEF Moved
<1> QED BY <1>9, <1>10, <1>11, <1>12, <1>13, <1>14, <1>15 DEF Framed

\* The prologue sets up the frame and moves the parameters to their locations.
LEMMA PrologueCode ==
    ASSUME NEW c, IsCpu(c), NEW n \in Nat, c.rsp = 8, c.regs = EntryRegs(n), c.mem = EntryMem(n),
           NEW size \in Nat, NEW locs, IsList(locs, n), Apart(locs, n)
    PROVE  LET p == Run(c, encode_prologue(size, locs)) IN
           /\ InFrame(p) /\ SavedWords(p)
           /\ p.rsp = -40 - size /\ p.jump = c.jump /\ p.aligned = c.aligned
           /\ \A i \in 1 .. n : Content(p, locs[i]) = Param(i)
<1> DEFINE S == SaveCode(size)
           m == Run(c, S)
           P == FlattenSeq([i \in 1 .. n |-> MoveParam(i, locs[i])])
           p == Run(m, P)
<1>1. /\ \A r \in AllocatableRegs \cup {RBP} : c.regs[r] = Callers(r)
      /\ Read(c, EntryRsp) = <<"return address">>
      /\ \A i \in 1 .. n : Arrived(c, i, Param(i))
  BY Entry DEF EntryRsp, WORD_SIZE
<1>2. IsSeq(S) /\ Framed(c, m, size)
  <2>1. AtEntry(c)
    BY <1>1, Zenon DEF AtEntry
  <2> QED BY <2>1, FrameSetUp
<1> HIDE DEF S, m
<1>3. \A i \in 1 .. n : Arrived(m, i, Param(i))
  <2> SUFFICES ASSUME NEW i \in 1 .. n PROVE Arrived(m, i, Param(i))
    OBVIOUS
  <2>1. Arrived(c, i, Param(i))
    BY <1>1
  <2>2. ASSUME i <= 6 PROVE m.regs[arg_registers[i]] = c.regs[arg_registers[i]]
    <3>1. i \in 1 .. 6
      BY <2>2
    <3>2. arg_registers[i] \in Registers \ {RAX, RBP}
      BY <3>1, ArgumentRegisters
    <3> QED BY <1>2, <3>2 DEF Framed
  <2>3. ASSUME i > 6 PROVE Read(m, 16 + 8 * (i - 7)) = Read(c, 16 + 8 * (i - 7))
    <3> DEFINE a == 16 + 8 * (i - 7)
    <3>1. a \in Int /\ a >= 8
      BY <2>3
    <3> HIDE DEF a
    <3>2. Read(m, a) = Read(c, a)
      BY <1>2, <3>1 DEF Framed
    <3> QED BY <3>2 DEF a
  <2> QED BY <2>1, <2>2, <2>3 DEF Arrived
<1>4. InFrame(m)
  BY <1>2 DEF Framed
<1>5. IsSeq(P) /\ ParamsPlaced(m, p, locs, n)
  BY <1>3, <1>4, ParamsMoved
<1>6. encode_prologue(size, locs) = S \o P
  <2>1. Len(locs) = n
    BY Listed DEF IsList
  <2> QED BY <2>1 DEF encode_prologue, S, SaveCode
<1> HIDE DEF P, p
<1>7. Run(c, S \o P) = p
  BY <1>2, <1>5, RunTwo DEF m, p
<1>8. SavedWords(p)
  <2>1. \A a \in Int : a >= -40 => Read(p, a) = Read(m, a)
    BY <1>5 DEF ParamsPlaced
  <2>2. Read(p, 8) = Read(m, 8) /\ Read(p, 0) = Read(m, 0)
    BY <2>1
  <2>3. \A i \in 1 .. 5 : -(8 * i) \in Int /\ -(8 * i) >= -40
    OBVIOUS
  <2>4. \A i \in 1 .. 5 : Read(p, -(8 * i)) = Read(m, -(8 * i))
    BY <2>1, <2>3
  <2> QED BY <1>2, <2>2, <2>4 DEF Framed, SavedWords
<1> QED BY <1>2, <1>5, <1>6, <1>7, <1>8 DEF Framed, ParamsPlaced


\* ---- locations of virtual registers ----

\* An allocator in use, for n virtual registers.
AllocOk(a, n) ==
    /\ a \in [vreg_map : [0 .. n - 1 -> Locations \cup {NoLocation}],
              phys_regs : [Registers -> BOOLEAN],
              stack_base : Nat]
    /\ \A v \in 0 .. n - 1 : InReg(a.vreg_map[v]) => a.phys_regs[a.vreg_map[v].reg]
    /\ \A v \in 0 .. n - 1 : OnStack(a.vreg_map[v]) =>
            a.vreg_map[v].offset = SpillOffset(a.stack_base, v)
    /\ \A v, w \in 0 .. n - 1 :
            v # w /\ InReg(a.vreg_map[v]) /\ InReg(a.vreg_map[w])
                => a.vreg_map[v].reg # a.vreg_map[w].reg

\* Allocator b is a later than a.
Later(a, b, n) ==
    /\ AllocOk(b, n)
    /\ b.stack_base = a.stack_base
    /\ \A w \in 0 .. n - 1 : a.vreg_map[w] \in Locations => b.vreg_map[w] = a.vreg_map[w]

\* The register the scan of get_location finds is allocatable and was free.
LEMMA FirstFree ==
    ASSUME NEW phys \in [Registers -> BOOLEAN], \E r \in AllocatableRegs : ~phys[r]
    PROVE  LET r == CHOOSE q \in Registers : IsFirstFree(phys, q)
           IN  r \in AllocatableRegs /\ ~phys[r]
<1>1. AllocatableRegs = {3, 12, 13, 14, 15}
  BY RegisterNumbers DEF RBX, R12, R13, R14, R15
<1>2. \E r \in Registers : IsFirstFree(phys, r)
  BY <1>1 DEF IsFirstFree, Registers
<1>3. PICK q \in Registers : q = (CHOOSE r \in Registers : IsFirstFree(phys, r))
                             /\ IsFirstFree(phys, q)
  BY <1>2
<1> QED BY <1>3 DEF IsFirstFree

\* No location is none.
LEMMA NoneIsNone ==
    /\ NoLocation \notin Locations /\ ~InReg(NoLocation) /\ ~OnStack(NoLocation)
    /\ \A r \in AllocatableRegs : /\ LocReg(r) \in Locations /\ InReg(LocReg(r))
                                  /\ ~OnStack(LocReg(r)) /\ LocReg(r).reg = r
    /\ \A o \in Int : /\ LocStack(o) \in Locations /\ ~InReg(LocStack(o))
                      /\ OnStack(LocStack(o)) /\ LocStack(o).offset = o
<1>1. ~InReg(NoLocation) /\ ~OnStack(NoLocation)
  BY DEF NoLocation, InReg, OnStack
<1>2. NoLocation \notin Locations
  BY <1>1, LocationKinds
<1>3. \A r \in AllocatableRegs : /\ LocReg(r) \in Locations /\ InReg(LocReg(r))
                                 /\ ~OnStack(LocReg(r)) /\ LocReg(r).reg = r
  BY DEF LocReg, InReg, OnStack, Locations
<1>4. \A o \in Int : /\ LocStack(o) \in Locations /\ ~InReg(LocStack(o))
                     /\ OnStack(LocStack(o)) /\ LocStack(o).offset = o
  BY DEF LocStack, InReg, OnStack, Locations
<1> QED BY <1>1, <1>2, <1>3, <1>4

\* Displacements of the frame are integers.
LEMMA Offsets ==
    ASSUME NEW s \in Nat, NEW v \in Nat
    PROVE  SpillOffset(s, v) = -(48 + 8 * (s + v + 1)) /\ get_local_offset(v) = -(48 + 8 * (v + 1))
BY DEF SpillOffset, get_local_offset, CALLEE_SAVED_SIZE, CALLEE_SAVED_COUNT, STACK_ALIGNMENT, WORD_SIZE

\* get_location locates a virtual register and moves no other.
LEMMA Located ==
    ASSUME NEW n \in Nat, NEW a, AllocOk(a, n), NEW v \in 0 .. n - 1
    PROVE  Later(a, get_location(a, v), n) /\ get_location(a, v).vreg_map[v] \in Locations
<1> DEFINE b == get_location(a, v)
<1>1. CASE a.vreg_map[v] # NoLocation
  <2>1. b = a
    BY <1>1 DEF get_location
  <2>2. a.vreg_map[v] \in Locations
    BY <1>1 DEF AllocOk
  <2> QED BY <2>1, <2>2 DEF Later
<1>2. CASE a.vreg_map[v] = NoLocation /\ \E r \in AllocatableRegs : ~a.phys_regs[r]
  <2> DEFINE r == CHOOSE q \in Registers : IsFirstFree(a.phys_regs, q)
             p == [a.phys_regs EXCEPT ![r] = TRUE]
             m == [a.vreg_map EXCEPT ![v] = LocReg(r)]
  <2>1. r \in AllocatableRegs /\ ~a.phys_regs[r]
    BY <1>2, FirstFree DEF AllocOk
  <2>2. b = [a EXCEPT !.phys_regs[r] = TRUE, !.vreg_map[v] = LocReg(r)]
    BY <1>2 DEF get_location
  <2> HIDE DEF r, b
  <2>3. r \in Registers
    BY <2>1, RegisterNumbers
  <2>4. LocReg(r) \in Locations /\ InReg(LocReg(r)) /\ ~OnStack(LocReg(r)) /\ LocReg(r).reg = r
    BY <2>1, NoneIsNone
  <2>5. b = [vreg_map |-> m, phys_regs |-> p, stack_base |-> a.stack_base]
    BY <2>2 DEF AllocOk
  <2>6. p \in [Registers -> BOOLEAN] /\ m \in [0 .. n - 1 -> Locations \cup {NoLocation}]
    BY <2>3, <2>4 DEF AllocOk
  <2>7. /\ \A w \in 0 .. n - 1 : w # v => m[w] = a.vreg_map[w]
        /\ m[v] = LocReg(r)
        /\ \A q \in Registers : a.phys_regs[q] => p[q]
        /\ p[r]
    BY <2>3 DEF AllocOk
  <2> HIDE DEF p, m
  <2>8. b.vreg_map = m /\ b.phys_regs = p /\ b.stack_base = a.stack_base
    BY <2>5
  <2>9. b \in [vreg_map : [0 .. n - 1 -> Locations \cup {NoLocation}],
              phys_regs : [Registers -> BOOLEAN], stack_base : Nat]
    BY <2>5, <2>6 DEF AllocOk
  <2>10. \A w \in 0 .. n - 1 : InReg(m[w]) => p[m[w].reg] /\ (w # v => m[w].reg # r)
    <3> SUFFICES ASSUME NEW w \in 0 .. n - 1, InReg(m[w])
                 PROVE  p[m[w].reg] /\ (w # v => m[w].reg # r)
      OBVIOUS
    <3>1. CASE w = v
      BY <2>4, <2>7, <3>1
    <3>2. CASE w # v
      <4>1. a.phys_regs[m[w].reg] /\ m[w] \in Locations
        BY <2>7, <3>2, NoneIsNone DEF AllocOk
      <4>2. m[w].reg \in Registers
        BY <4>1, LocationKinds, RegisterNumbers
      <4> QED BY <2>1, <2>7, <4>1, <4>2
    <3> QED BY <3>1, <3>2
  <2>11. AllocOk(b, n)
    <3>1. \A w \in 0 .. n - 1 : OnStack(m[w]) => m[w].offset = SpillOffset(a.stack_base, w)
      BY <2>4, <2>7 DEF AllocOk
    <3>2. \A u, w \in 0 .. n - 1 : u # w /\ InReg(m[u]) /\ InReg(m[w]) => m[u].reg # m[w].reg
      BY <2>4, <2>7, <2>10 DEF AllocOk
    <3> QED BY <2>8, <2>9, <2>10, <3>1, <3>2 DEF AllocOk
  <2> QED BY <1>2, <2>4, <2>7, <2>8, <2>11, NoneIsNone DEF Later, b
<1>3. CASE a.vreg_map[v] = NoLocation /\ ~\E r \in AllocatableRegs : ~a.phys_regs[r]
  <2> DEFINE o == SpillOffset(a.stack_base, v)
             m == [a.vreg_map EXCEPT ![v] = LocStack(o)]
  <2>1. b = [a EXCEPT !.vreg_map[v] = LocStack(o)]
    BY <1>3 DEF get_location
  <2>2. o \in Int
    <3>1. a.stack_base \in Nat /\ v \in Nat
      BY DEF AllocOk
    <3> QED BY <3>1, Offsets
  <2> HIDE DEF o, b
  <2>3. LocStack(o) \in Locations /\ ~InReg(LocStack(o)) /\ LocStack(o).offset = o
    BY <2>2, NoneIsNone
  <2>4. b = [vreg_map |-> m, phys_regs |-> a.phys_regs, stack_base |-> a.stack_base]
    BY <2>1 DEF AllocOk
  <2>5. m \in [0 .. n - 1 -> Locations \cup {NoLocation}]
    BY <2>3 DEF AllocOk
  <2>6. m[v] = LocStack(o) /\ \A w \in 0 .. n - 1 : w # v => m[w] = a.vreg_map[w]
    BY DEF AllocOk
  <2> HIDE DEF m
  <2>7. b.vreg_map = m /\ b.phys_regs = a.phys_regs /\ b.stack_base = a.stack_base
    BY <2>4
  <2>8. AllocOk(b, n)
    <3>1. b \in [vreg_map : [0 .. n - 1 -> Locations \cup {NoLocation}],
                 phys_regs : [Registers -> BOOLEAN], stack_base : Nat]
      BY <2>4, <2>5 DEF AllocOk
    <3>2. \A w \in 0 .. n - 1 : OnStack(m[w]) => m[w].offset = SpillOffset(a.stack_base, w)
      BY <2>3, <2>6 DEF AllocOk, o
    <3>3. \A w \in 0 .. n - 1 : InReg(m[w]) => a.phys_regs[m[w].reg]
      BY <2>3, <2>6 DEF AllocOk
    <3>4. \A u, w \in 0 .. n - 1 : u # w /\ InReg(m[u]) /\ InReg(m[w]) => m[u].reg # m[w].reg
      BY <2>3, <2>6 DEF AllocOk
    <3> QED BY <2>7, <3>1, <3>2, <3>3, <3>4 DEF AllocOk
  <2> QED BY <1>3, <2>3, <2>6, <2>7, <2>8, NoneIsNone DEF Later, b
<1> QED BY <1>1, <1>2, <1>3

\* The function that Locate defines by recursion exists.
LEMMA LocateExists ==
    ASSUME NEW a, NEW s, NEW n \in Nat
    PROVE  \E f : f = [i \in 0 .. n |-> IF i = 0 THEN a ELSE get_location(f[i - 1], s[i])]
<1> DEFINE J(x, i) == get_location(x, s[i])
           T == {m \in Nat : \E f : f = [i \in 0 .. m |-> IF i = 0 THEN a ELSE J(f[i - 1], i)]}
<1> HIDE DEF J
<1>1. 0 \in T
  <2> DEFINE f == [i \in 0 .. 0 |-> a]
  <2>1. f = [i \in 0 .. 0 |-> IF i = 0 THEN a ELSE J(f[i - 1], i)]
    OBVIOUS
  <2> HIDE DEF f
  <2> QED BY <2>1
<1>2. ASSUME NEW m \in Nat, m \in T PROVE m + 1 \in T
  <2>1. PICK f : f = [i \in 0 .. m |-> IF i = 0 THEN a ELSE J(f[i - 1], i)]
    BY <1>2
  <2> DEFINE g == [i \in 0 .. m + 1 |-> IF i <= m THEN f[i] ELSE J(f[m], i)]
  <2>2. \A i \in 0 .. m + 1 : g[i] = IF i = 0 THEN a ELSE J(g[i - 1], i)
    BY <2>1
  <2>3. g = [i \in 0 .. m + 1 |-> g[i]]
    OBVIOUS
  <2> HIDE DEF g
  <2>4. g = [i \in 0 .. m + 1 |-> IF i = 0 THEN a ELSE J(g[i - 1], i)]
    BY <2>2, <2>3
  <2> QED BY <2>4
<1> HIDE DEF T
<1>3. n \in T
  BY <1>1, <1>2, Induction
<1> QED BY <1>3 DEF T, J

\* f is the allocator states that k requests lead through.
Leads(f, a, s, k) == f[0] = a /\ \A i \in 1 .. k : f[i] = get_location(f[i - 1], s[i])

\* Locate is reached by one request after the other.
LEMMA LocateOf ==
    ASSUME NEW a, NEW s, Len(s) \in Nat
    PROVE  \E f : Leads(f, a, s, Len(s)) /\ Locate(a, s) = f[Len(s)]
<1> DEFINE k == Len(s)
           f == CHOOSE g : g = [i \in 0 .. k |-> IF i = 0 THEN a ELSE get_location(g[i - 1], s[i])]
<1>1. Locate(a, s) = f[k]
  BY DEF Locate
<1>2. f = [i \in 0 .. k |-> IF i = 0 THEN a ELSE get_location(f[i - 1], s[i])]
  BY LocateExists
<1> HIDE DEF f
<1>3. f[0] = a
  BY <1>2
<1>4. ASSUME NEW i \in 1 .. k PROVE f[i] = get_location(f[i - 1], s[i])
  <2>1. i \in 0 .. k /\ i # 0
    OBVIOUS
  <2> QED BY <1>2, <2>1, Zenon
<1>5. Leads(f, a, s, k)
  BY <1>3, <1>4, Zenon DEF Leads
<1> QED BY <1>1, <1>5

\* A sequence of requests locates every virtual register of it.
Requests(s, k, n) == Len(s) = k /\ \A i \in 1 .. k : s[i] \in 0 .. n - 1

Locating(a, b, s, k, n) ==
    Later(a, b, n) /\ \A i \in 1 .. k : b.vreg_map[s[i]] \in Locations

\* After the requests of an instruction each of its operands has a location, and no other moved.
LEMMA LocateRun ==
    ASSUME NEW n \in Nat, NEW a, AllocOk(a, n), NEW s, NEW k \in Nat, Requests(s, k, n)
    PROVE  Locating(a, Locate(a, s), s, k, n)
<1>2. Len(s) = k
  BY DEF Requests
<1>1. PICK f : Leads(f, a, s, Len(s)) /\ Locate(a, s) = f[Len(s)]
  BY <1>2, LocateOf
<1>3. f[0] = a
  BY <1>1 DEF Leads
<1>4. \A i \in 1 .. k : f[i] = get_location(f[i - 1], s[i])
  BY <1>1, <1>2 DEF Leads
<1> DEFINE T == {j \in Nat : j <= k => Locating(a, f[j], s, j, n)}
<1>5. 0 \in T
  BY <1>3 DEF Locating, Later
<1>6. ASSUME NEW j \in Nat, j \in T PROVE j + 1 \in T
  <2> SUFFICES ASSUME j + 1 <= k PROVE Locating(a, f[j + 1], s, j + 1, n)
    OBVIOUS
  <2>1. j + 1 \in 1 .. k /\ (j + 1) - 1 = j /\ j <= k
    OBVIOUS
  <2> DEFINE p == f[j]
             q == f[j + 1]
             v == s[j + 1]
  <2>2. Locating(a, p, s, j, n)
    BY <1>6, <2>1
  <2>3. q = get_location(p, v) /\ v \in 0 .. n - 1
    BY <1>4, <2>1 DEF Requests
  <2>4. \A i \in 1 .. j : s[i] \in 0 .. n - 1
    BY <2>1 DEF Requests
  <2>5. \A i \in 1 .. j + 1 : i \in 1 .. j \/ s[i] = v
    OBVIOUS
  <2> HIDE DEF p, q, v
  <2>6. AllocOk(p, n)
    BY <2>2 DEF Locating, Later
  <2>7. Later(p, q, n) /\ q.vreg_map[v] \in Locations
    BY <2>3, <2>6, Located
  <2>8. \A i \in 1 .. j : q.vreg_map[s[i]] \in Locations
    BY <2>2, <2>4, <2>7 DEF Locating, Later
  <2>9. Later(a, q, n)
    BY <2>2, <2>7 DEF Locating, Later
  <2>10. Locating(a, q, s, j + 1, n)
    BY <2>5, <2>7, <2>8, <2>9 DEF Locating
  <2> QED BY <2>10 DEF q
<1> HIDE DEF T
<1>7. k \in T
  BY <1>5, <1>6, Induction
<1> QED BY <1>1, <1>2, <1>7 DEF T

\* A fresh allocator.
LEMMA FreshOk ==
    ASSUME NEW n \in Nat, NEW s \in Nat
    PROVE  /\ AllocOk(FreshAlloc(0 .. n - 1, s), n)
           /\ FreshAlloc(0 .. n - 1, s).stack_base = s
<1> DEFINE a == FreshAlloc(0 .. n - 1, s)
           m == [v \in 0 .. n - 1 |-> NoLocation]
           p == [r \in Registers |-> FALSE]
<1>1. a = [vreg_map |-> m, phys_regs |-> p, stack_base |-> s]
  BY DEF FreshAlloc
<1>2. /\ m \in [0 .. n - 1 -> Locations \cup {NoLocation}] /\ p \in [Registers -> BOOLEAN]
      /\ \A v \in 0 .. n - 1 : ~InReg(m[v]) /\ ~OnStack(m[v])
  BY NoneIsNone
<1> HIDE DEF a, m, p
<1>3. a.vreg_map = m /\ a.phys_regs = p /\ a.stack_base = s
  BY <1>1
<1> QED BY <1>1, <1>2, <1>3 DEF AllocOk, a

\* ---- the frame ----

\* rsp of the body: a multiple of 16, with the slots of the local variables and
\* of all virtual registers but the last above it.
LEMMA FrameRoom ==
    ASSUME NEW s \in Nat, NEW n \in Nat, n >= 1
    PROVE  LET size == calculate_aligned_stack_size(s, n)
               o == BodyRsp(s, n)
           IN  /\ size \in Nat /\ o = -40 - size /\ o \in Int
               /\ o % 16 = 0
               /\ \A v \in 0 .. n - 2 : SpillOffset(s, v) \in Int /\ SpillOffset(s, v) >= o
               /\ \A i \in 0 .. s - 1 : get_local_offset(i) \in Int /\ get_local_offset(i) >= o
<1> DEFINE raw == 8 * (s + n)
           rem == (56 + raw) % 16
           size == calculate_aligned_stack_size(s, n)
           o == BodyRsp(s, n)
<1>1. size = raw + (IF rem = 0 THEN 0 ELSE 16 - rem)
  BY DEF calculate_aligned_stack_size, CALLEE_SAVED_COUNT, STACK_ALIGNMENT, WORD_SIZE
<1>2. raw \in Nat /\ rem \in 0 .. 15
  OBVIOUS
<1>3. o = -(40 + size)
  BY DEF BodyRsp, CALLEE_SAVED_SIZE, CALLEE_SAVED_COUNT
<1>4. (56 + size) % 16 = 0
  BY <1>1, <1>2
<1> HIDE DEF size, o
<1>5. size \in Nat /\ size >= raw
  BY <1>1, <1>2
<1>6. o = -40 - size /\ o \in Int /\ o % 16 = 0
  BY <1>3, <1>4, <1>5
<1>7. ASSUME NEW v \in 0 .. n - 2 PROVE SpillOffset(s, v) \in Int /\ SpillOffset(s, v) >= o
  <2>1. SpillOffset(s, v) = -(48 + 8 * (s + v + 1))
    BY Offsets
  <2> QED BY <1>5, <1>6, <2>1
<1>8. ASSUME NEW i \in 0 .. s - 1 PROVE get_local_offset(i) \in Int /\ get_local_offset(i) >= o
  <2>1. get_local_offset(i) = -(48 + 8 * (i + 1))
    BY Offsets
  <2> QED BY <1>5, <1>6, <2>1
<1> QED BY <1>5, <1>6, <1>7, <1>8 DEF size, o

\* ---- the body of a function ----

\* Two located virtual registers share no register and no slot; no slot of a
\* virtual register is one of the frame or of a local variable.
LEMMA LocationsApart ==
    ASSUME NEW n \in Nat, NEW a, AllocOk(a, n), NEW v \in 0 .. n - 1, NEW loc, loc = a.vreg_map[v],
           loc \in Locations
    PROVE  /\ \A w \in 0 .. n - 1 : w # v => a.vreg_map[w] # loc
           /\ OnStack(loc) => /\ loc.offset \in Int /\ loc.offset < -40
                              /\ loc.offset = SpillOffset(a.stack_base, v)
                              /\ \A i \in 0 .. a.stack_base - 1 : loc.offset # get_local_offset(i)
<1>1. a.stack_base \in Nat
  BY DEF AllocOk
<1>2. ASSUME NEW w \in 0 .. n - 1, w # v PROVE a.vreg_map[w] # loc
  <2>1. CASE InReg(loc)
    BY <1>2, <2>1 DEF AllocOk
  <2>2. CASE OnStack(loc)
    <3> SUFFICES ASSUME a.vreg_map[w] = loc PROVE FALSE
      OBVIOUS
    <3>1. SpillOffset(a.stack_base, v) = SpillOffset(a.stack_base, w)
      BY <2>2 DEF AllocOk
    <3>2. /\ SpillOffset(a.stack_base, v) = -(48 + 8 * (a.stack_base + v + 1))
          /\ SpillOffset(a.stack_base, w) = -(48 + 8 * (a.stack_base + w + 1))
      BY <1>1, Offsets
    <3> DEFINE s == a.stack_base
    <3>3. s \in Nat /\ v \in Nat /\ w \in Nat
      BY <1>1
    <3>4. -(48 + 8 * (s + v + 1)) = -(48 + 8 * (s + w + 1))
      BY <3>1, <3>2
    <3> HIDE DEF s
    <3>5. v = w
      BY <3>3, <3>4
    <3> QED BY <1>2, <3>5
  <2> QED BY <2>1, <2>2, LocationKinds
<1>3. ASSUME OnStack(loc)
      PROVE  /\ loc.offset \in Int /\ loc.offset < -40
             /\ loc.offset = SpillOffset(a.stack_base, v)
             /\ \A i \in 0 .. a.stack_base - 1 : loc.offset # get_local_offset(i)
  <2>1. loc.offset = SpillOffset(a.stack_base, v)
    BY <1>3 DEF AllocOk
  <2>2. SpillOffset(a.stack_base, v) = -(48 + 8 * (a.stack_base + v + 1))
    BY <1>1, Offsets
  <2>3. \A i \in 0 .. a.stack_base - 1 : get_local_offset(i) = -(48 + 8 * (i + 1))
    BY <1>1, Offsets
  <2> QED BY <1>1, <2>1, <2>2, <2>3
<1> QED BY <1>2, <1>3

\* The frame of a function with s local variables and n virtual registers.
FrameOk(c, s, n) == InFrame(c) /\ SavedWords(c) /\ c.rsp = BodyRsp(s, n) /\ c.aligned = TRUE

\* The virtual registers of e are at their locations.
Holds(c, a, e) == \A v \in DOMAIN e : a.vreg_map[v] \in Locations /\ Content(c, a.vreg_map[v]) = e[v]

\* The local variables of ls are in their slots.
Stores(c, s, ls) ==
    \A i \in DOMAIN ls :
        i \in 0 .. s - 1 /\ Loaded(ls[i].width, Read(c, get_local_offset(i))) = ls[i].value

\* What is defined is 1 .. k, for a k from p on and below n.
Numbered(e, p, n) == \E k \in p .. n - 1 : DOMAIN e = 1 .. k

\* Between two IR instructions.
BodyOk(c, a, e, ls, p, n) ==
    /\ FrameOk(c, a.stack_base, n)
    /\ Holds(c, a, e)
    /\ Stores(c, a.stack_base, ls)
    /\ Numbered(e, p, n)

\* What a step leaves of a location it does not name.
LEMMA ContentKept ==
    ASSUME NEW c, InFrame(c), NEW m, NEW loc \in Locations, NEW v, NEW A, Effect(c, m, loc, v, A),
           NEW l \in Locations, l # loc, OnStack(l) => l.offset \in A
    PROVE  Content(m, l) = Content(c, l)
<1>1. CASE InReg(l)
  <2>1. l.reg \in AllocatableRegs /\ l = LocReg(l.reg)
    BY <1>1, LocationKinds
  <2>2. ~(InReg(loc) /\ loc.reg = l.reg)
    BY <2>1, LocationKinds
  <2> QED BY <1>1, <2>1, <2>2 DEF Effect, Content
<1>2. CASE OnStack(l)
  <2>1. ~InReg(l) /\ l.offset \in Int /\ l = LocStack(l.offset)
    BY <1>2, LocationKinds
  <2>2. ~(OnStack(loc) /\ loc.offset = l.offset)
    BY <2>1, LocationKinds
  <2>3. Read(m, l.offset) = Read(c, l.offset)
    BY <1>2, <2>2 DEF Effect
  <2>4. At(c, l.offset) = l.offset /\ At(m, l.offset) = l.offset
    BY <2>1, AtRbp DEF Effect
  <2> QED BY <2>1, <2>3, <2>4 DEF Content
<1> QED BY <1>1, <1>2, LocationKinds

\* The memory a step must keep: what lies at and above rsp.
Above(c) == {x \in Int : x >= c.rsp}

\* The frame survives a step that stores below the saved words.
LEMMA FrameKept ==
    ASSUME NEW s \in Nat, NEW n \in Nat, n >= 1, NEW c, FrameOk(c, s, n), NEW m,
           NEW loc \in Locations, OnStack(loc) => loc.offset < -40, NEW v, NEW A, Above(c) \subseteq A,
           Effect(c, m, loc, v, A)
    PROVE  FrameOk(m, s, n)
<1> DEFINE o == c.rsp
<1>1. o \in Int /\ o <= -40
  BY FrameRoom DEF FrameOk
<1>2. ASSUME NEW x \in Int, x >= -40 PROVE Read(m, x) = Read(c, x)
  <2>1. x \in A
    BY <1>1, <1>2 DEF Above
  <2>2. ~(OnStack(loc) /\ loc.offset = x)
    BY <1>2, LocationKinds
  <2> QED BY <2>1, <2>2 DEF Effect
<1>3. SavedWords(m)
  <2>1. SavedWords(c)
    BY DEF FrameOk
  <2>2. Read(m, 8) = Read(c, 8) /\ Read(m, 0) = Read(c, 0)
    BY <1>2
  <2>3. \A i \in 1 .. 5 : -(8 * i) \in Int /\ -(8 * i) >= -40
    OBVIOUS
  <2>4. \A i \in 1 .. 5 : Read(m, -(8 * i)) = Read(c, -(8 * i))
    BY <1>2, <2>3
  <2> QED BY <2>1, <2>2, <2>4 DEF SavedWords
<1> QED BY <1>3 DEF FrameOk, Effect

\* The local variables survive a step that stores elsewhere.
LEMMA StoresKept ==
    ASSUME NEW s \in Nat, NEW n \in Nat, n >= 1, NEW c, FrameOk(c, s, n), NEW m,
           NEW loc \in Locations, NEW v, NEW A, Above(c) \subseteq A, Effect(c, m, loc, v, A),
           OnStack(loc) => \A i \in 0 .. s - 1 : loc.offset # get_local_offset(i),
           NEW ls, Stores(c, s, ls)
    PROVE  Stores(m, s, ls)
<1> SUFFICES ASSUME NEW i \in DOMAIN ls
             PROVE  i \in 0 .. s - 1 /\ Loaded(ls[i].width, Read(m, get_local_offset(i))) = ls[i].value
  BY DEF Stores
<1>1. i \in 0 .. s - 1 /\ Loaded(ls[i].width, Read(c, get_local_offset(i))) = ls[i].value
  BY DEF Stores
<1> DEFINE x == get_local_offset(i)
<1>2. x \in Int /\ x >= c.rsp
  BY <1>1, FrameRoom DEF FrameOk
<1>3. x \in A /\ ~(OnStack(loc) /\ loc.offset = x)
  BY <1>1, <1>2 DEF Above
<1> HIDE DEF x
<1>4. Read(m, x) = Read(c, x)
  BY <1>3 DEF Effect
<1> QED BY <1>1, <1>4 DEF x

\* A step that gives virtual register d a value.
LEMMA HoldsAfter ==
    ASSUME NEW n \in Nat, NEW c, InFrame(c), NEW b, AllocOk(b, n), NEW e, Holds(c, b, e),
           DOMAIN e \subseteq 0 .. n - 1, NEW d \in 0 .. n - 1, NEW loc, loc = b.vreg_map[d],
           loc \in Locations, NEW m, NEW x, NEW A, Effect(c, m, loc, x, A),
           \A v \in DOMAIN e : OnStack(b.vreg_map[v]) => b.vreg_map[v].offset \in A
    PROVE  Holds(m, b, With(e, d, x))
<1> DEFINE f == With(e, d, x)
<1>1. /\ DOMAIN f = {d} \cup DOMAIN e /\ f[d] = x
      /\ \A v \in DOMAIN e : v # d => f[v] = e[v]
  BY DEF With
<1> HIDE DEF f
<1>2. ASSUME NEW v \in DOMAIN f
      PROVE  b.vreg_map[v] \in Locations /\ Content(m, b.vreg_map[v]) = f[v]
  <2>1. CASE v = d
    BY <1>1, <2>1 DEF Effect
  <2>2. CASE v # d
    <3> DEFINE l == b.vreg_map[v]
    <3>1. v \in DOMAIN e /\ f[v] = e[v]
      BY <1>1, <1>2, <2>2
    <3>2. l \in Locations /\ Content(c, l) = e[v]
      BY <3>1 DEF Holds
    <3>3. l # loc
      BY <2>2, <3>1, LocationsApart
    <3>4. OnStack(l) => l.offset \in A
      BY <3>1
    <3> HIDE DEF l
    <3>5. Content(m, l) = Content(c, l)
      BY <3>2, <3>3, <3>4, ContentKept
    <3> QED BY <3>1, <3>2, <3>5 DEF l
  <2> QED BY <2>1, <2>2
<1> QED BY <1>2 DEF Holds, f

\* A step that stores elsewhere.
LEMMA HoldsStill ==
    ASSUME NEW c, InFrame(c), NEW b, NEW e, Holds(c, b, e), NEW loc \in Locations,
           NEW m, NEW x, Effect(c, m, loc, x, Int), \A v \in DOMAIN e : b.vreg_map[v] # loc
    PROVE  Holds(m, b, e)
<1> SUFFICES ASSUME NEW v \in DOMAIN e
             PROVE  b.vreg_map[v] \in Locations /\ Content(m, b.vreg_map[v]) = e[v]
  BY DEF Holds
<1> DEFINE l == b.vreg_map[v]
<1>1. l \in Locations /\ Content(c, l) = e[v] /\ l # loc
  BY DEF Holds
<1>2. OnStack(l) => l.offset \in Int
  BY <1>1, LocationKinds
<1> HIDE DEF l
<1>3. Content(m, l) = Content(c, l)
  BY <1>1, <1>2, ContentKept
<1> QED BY <1>1, <1>3 DEF l

\* The addresses of located virtual registers are kept by a step that keeps A.
Covered(b, e, A) == \A v \in DOMAIN e : OnStack(b.vreg_map[v]) => b.vreg_map[v].offset \in A

\* The body after an instruction with a destination.
LEMMA ComputeKept ==
    ASSUME NEW n \in Nat, n >= 1, NEW p, NEW c, NEW b, AllocOk(b, n), NEW e, NEW ls,
           BodyOk(c, b, e, ls, p, n), DOMAIN e \subseteq 0 .. n - 1, NEW d \in 0 .. n - 1,
           NEW loc, loc = b.vreg_map[d], loc \in Locations, NEW m, NEW x, NEW A,
           Effect(c, m, loc, x, A), Above(c) \subseteq A, Covered(b, e, A),
           Numbered(With(e, d, x), p, n)
    PROVE  BodyOk(m, b, With(e, d, x), ls, p, n)
<1> DEFINE s == b.stack_base
<1>1. s \in Nat /\ FrameOk(c, s, n) /\ Holds(c, b, e) /\ Stores(c, s, ls)
  BY DEF AllocOk, BodyOk
<1>2. InFrame(c)
  BY <1>1 DEF FrameOk
<1>3. OnStack(loc) => loc.offset < -40 /\ \A i \in 0 .. s - 1 : loc.offset # get_local_offset(i)
  BY LocationsApart
<1> HIDE DEF s
<1>4. FrameOk(m, s, n)
  BY <1>1, <1>3, FrameKept
<1>5. Stores(m, s, ls)
  BY <1>1, <1>3, StoresKept
<1>6. Holds(m, b, With(e, d, x))
  BY <1>1, <1>2, HoldsAfter DEF Covered
<1> QED BY <1>4, <1>5, <1>6 DEF BodyOk, s

\* What a load reads back is what the store narrowed the value to.
LEMMA LoadedBack ==
    ASSUME NEW w, NEW x PROVE Loaded(w, Stored(w, x)) = Narrowed(w, x)
BY DEF Loaded, Stored, Narrowed

\* The local variables after a store to one.
LEMMA StoresAfter ==
    ASSUME NEW s \in Nat, NEW n \in Nat, n >= 1, NEW c, FrameOk(c, s, n), NEW ls, Stores(c, s, ls),
           NEW i \in 0 .. s - 1, NEW w, NEW x, NEW m, Effect(c, m, LocalSlot(i), Stored(w, x), Int)
    PROVE  Stores(m, s, With(ls, i, [width |-> w, value |-> Narrowed(w, x)]))
<1> DEFINE loc == LocalSlot(i)
           v == Stored(w, x)
           r == [width |-> w, value |-> Narrowed(w, x)]
           f == With(ls, i, r)
<1>1. i \in Nat /\ r.width = w /\ r.value = Narrowed(w, x)
  OBVIOUS
<1>2. /\ loc \in Locations /\ OnStack(loc) /\ ~InReg(loc)
      /\ loc.offset = get_local_offset(i) /\ get_local_offset(i) \in Int
  BY <1>1, LocalSlots
<1> HIDE DEF loc, v, r
<1>3. DOMAIN f = {i} \cup DOMAIN ls /\ f[i] = r /\ \A y \in DOMAIN ls : y # i => f[y] = ls[y]
  BY DEF With
<1> HIDE DEF f
<1>4. Effect(c, m, loc, v, Int)
  BY DEF loc, v
<1>5. ASSUME NEW y \in DOMAIN f
      PROVE  y \in 0 .. s - 1 /\ Loaded(f[y].width, Read(m, get_local_offset(y))) = f[y].value
  <2>1. CASE y = i
    <3>1. Content(m, loc) = v /\ InFrame(m)
      BY <1>4 DEF Effect
    <3>2. At(m, loc.offset) = loc.offset
      BY <1>2, <3>1, AtRbp
    <3>3. Read(m, get_local_offset(i)) = v
      BY <1>2, <3>1, <3>2 DEF Content
    <3>4. Loaded(w, v) = Narrowed(w, x)
      BY LoadedBack DEF v
    <3> QED BY <1>1, <1>3, <2>1, <3>3, <3>4
  <2>2. CASE y # i
    <3>1. y \in DOMAIN ls /\ f[y] = ls[y]
      BY <1>3, <1>5, <2>2
    <3>2. y \in 0 .. s - 1 /\ Loaded(ls[y].width, Read(c, get_local_offset(y))) = ls[y].value
      BY <3>1 DEF Stores
    <3>3. get_local_offset(y) = -(48 + 8 * (y + 1)) /\ get_local_offset(i) = -(48 + 8 * (i + 1))
      BY <3>2, Offsets
    <3>4. get_local_offset(y) \in Int /\ get_local_offset(y) # get_local_offset(i)
      BY <2>2, <3>2, <3>3
    <3>5. Read(m, get_local_offset(y)) = Read(c, get_local_offset(y))
      BY <1>2, <1>4, <3>4 DEF Effect
    <3> QED BY <3>1, <3>2, <3>5
  <2> QED BY <2>1, <2>2
<1> QED BY <1>5 DEF Stores, f, r

\* The body after a store.
LEMMA StoreKept ==
    ASSUME NEW n \in Nat, n >= 1, NEW p, NEW c, NEW b, AllocOk(b, n), NEW e, NEW ls,
           BodyOk(c, b, e, ls, p, n), DOMAIN e \subseteq 0 .. n - 1,
           NEW i \in 0 .. b.stack_base - 1, NEW w, NEW x, NEW m,
           Effect(c, m, LocalSlot(i), Stored(w, x), Int)
    PROVE  BodyOk(m, b, e, With(ls, i, [width |-> w, value |-> Narrowed(w, x)]), p, n)
<1> DEFINE s == b.stack_base
           loc == LocalSlot(i)
           v == Stored(w, x)
<1>1. s \in Nat /\ FrameOk(c, s, n) /\ Holds(c, b, e) /\ Stores(c, s, ls) /\ Numbered(e, p, n)
  BY DEF AllocOk, BodyOk
<1>2. InFrame(c)
  BY <1>1 DEF FrameOk
<1>3. i \in Nat /\ i \in 0 .. s - 1
  OBVIOUS
<1>4. /\ loc \in Locations /\ OnStack(loc) /\ loc.offset = get_local_offset(i)
      /\ get_local_offset(i) = -(48 + 8 * (i + 1))
  BY <1>3, LocalSlots, Offsets
<1>5. loc.offset < -40
  BY <1>3, <1>4
<1>6. \A u \in DOMAIN e : b.vreg_map[u] # loc
  <2> SUFFICES ASSUME NEW u \in DOMAIN e, b.vreg_map[u] = loc PROVE FALSE
    OBVIOUS
  <2>1. u \in 0 .. n - 1
    OBVIOUS
  <2> HIDE DEF loc
  <2>2. loc.offset # get_local_offset(i)
    BY <1>3, <1>4, <2>1, LocationsApart
  <2> QED BY <1>4, <2>2
<1>7. Stores(m, s, With(ls, i, [width |-> w, value |-> Narrowed(w, x)]))
  BY <1>1, <1>3, StoresAfter
<1>8. Effect(c, m, loc, v, Int)
  OBVIOUS
<1> HIDE DEF s, loc, v
<1>9. FrameOk(m, s, n)
  <2>1. Above(c) \subseteq Int
    BY DEF Above
  <2> QED BY <1>1, <1>4, <1>5, <1>8, <2>1, FrameKept
<1>10. Holds(m, b, e)
  BY <1>1, <1>2, <1>4, <1>6, <1>8, HoldsStill
<1> QED BY <1>1, <1>7, <1>9, <1>10 DEF BodyOk, s

\* More locations change nothing.
LEMMA BodyLater ==
    ASSUME NEW n \in Nat, NEW p, NEW c, NEW a, NEW b, Later(a, b, n), NEW e, NEW ls,
           BodyOk(c, a, e, ls, p, n), DOMAIN e \subseteq 0 .. n - 1
    PROVE  BodyOk(c, b, e, ls, p, n)
<1>1. b.stack_base = a.stack_base
  BY DEF Later
<1>2. Holds(c, b, e)
  BY DEF Later, BodyOk, Holds
<1> QED BY <1>1, <1>2 DEF BodyOk

\* The machine knows the number of arguments of the next call.
Counted(c, k) == [c EXCEPT !.nargs = k]

\* The count of arguments set, and nothing else.
LEMMA CountSet ==
    ASSUME NEW c, InFrame(c), NEW k
    PROVE  LET m == Counted(c, k) IN
           /\ InFrame(m) /\ m.regs = c.regs /\ m.mem = c.mem /\ m.rsp = c.rsp /\ m.jump = c.jump
           /\ m.nargs = k /\ m.aligned = c.aligned
           /\ \A a : Read(m, a) = Read(c, a)
           /\ \A loc : Content(m, loc) = Content(c, loc)
<1> DEFINE m == Counted(c, k)
<1>1. m = [regs |-> c.regs, mem |-> c.mem, rsp |-> c.rsp, flags |-> c.flags, jump |-> c.jump,
           nargs |-> k, aligned |-> c.aligned]
  BY DEF Counted, InFrame, IsCpu
<1> HIDE DEF m
<1>2. /\ m.regs = c.regs /\ m.mem = c.mem /\ m.rsp = c.rsp /\ m.flags = c.flags /\ m.jump = c.jump
      /\ m.nargs = k /\ m.aligned = c.aligned
      /\ m = [regs |-> m.regs, mem |-> m.mem, rsp |-> m.rsp, flags |-> m.flags, jump |-> m.jump,
              nargs |-> m.nargs, aligned |-> m.aligned]
  BY <1>1
<1>3. /\ c.regs = [r \in Registers |-> c.regs[r]] /\ c.mem = [a \in DOMAIN c.mem |-> c.mem[a]]
      /\ c.rsp \in Int /\ c.aligned \in BOOLEAN /\ c.regs[RBP] = <<"address", 0>>
  BY DEF InFrame, IsCpu
<1>4. InFrame(m)
  BY <1>2, <1>3, Zenon DEF InFrame, IsCpu
<1>5. \A a : Read(m, a) = Read(c, a)
  BY <1>2 DEF Read
<1>6. \A loc : Content(m, loc) = Content(c, loc)
  BY <1>2, <1>5 DEF Content, At
<1> QED BY <1>2, <1>4, <1>5, <1>6 DEF m

\* Between two instructions the count of arguments does not matter.
LEMMA BodyCounted ==
    ASSUME NEW n, NEW p, NEW c, NEW a, NEW e, NEW ls, BodyOk(c, a, e, ls, p, n), NEW k
    PROVE  BodyOk(Counted(c, k), a, e, ls, p, n)
<1> DEFINE m == Counted(c, k)
<1>1. InFrame(c)
  BY DEF BodyOk, FrameOk
<1>2. /\ InFrame(m) /\ m.rsp = c.rsp /\ m.aligned = c.aligned
      /\ \A x : Read(m, x) = Read(c, x)
      /\ \A loc : Content(m, loc) = Content(c, loc)
  BY <1>1, CountSet
<1> HIDE DEF m
<1>3. FrameOk(m, a.stack_base, n)
  BY <1>2 DEF BodyOk, FrameOk, SavedWords
<1>4. Holds(m, a, e)
  BY <1>2 DEF BodyOk, Holds
<1>5. Stores(m, a.stack_base, ls)
  BY <1>2 DEF BodyOk, Stores
<1> QED BY <1>3, <1>4, <1>5 DEF BodyOk, m

\* The next virtual register, and a parameter that is assigned.
LEMMA NumberedNext ==
    ASSUME NEW n \in Nat, NEW p \in Nat, NEW e, Numbered(e, p, n)
    PROVE  /\ DOMAIN e \subseteq 1 .. n - 1
           /\ Cardinality(DOMAIN e) \in p .. n - 1
           /\ DOMAIN e = 1 .. Cardinality(DOMAIN e)
           /\ \A x : Cardinality(DOMAIN e) + 1 < n =>
                        Numbered(With(e, Cardinality(DOMAIN e) + 1, x), p, n)
           /\ \A d \in 1 .. p : \A x : Numbered(With(e, d, x), p, n)
<1>1. PICK k \in p .. n - 1 : DOMAIN e = 1 .. k
  BY DEF Numbered
<1>2. Cardinality(DOMAIN e) = k
  <2>1. Cardinality(1 .. k) = IF 1 > k THEN 0 ELSE k - 1 + 1
    BY FS_Interval
  <2> QED BY <1>1, <2>1
<1>3. ASSUME NEW x, k + 1 < n PROVE Numbered(With(e, k + 1, x), p, n)
  <2>1. DOMAIN With(e, k + 1, x) = {k + 1} \cup DOMAIN e
    BY DEF With
  <2>2. {k + 1} \cup (1 .. k) = 1 .. k + 1 /\ k + 1 \in p .. n - 1
    BY <1>3
  <2> QED BY <1>1, <2>1, <2>2 DEF Numbered
<1>4. ASSUME NEW d \in 1 .. p, NEW x PROVE Numbered(With(e, d, x), p, n)
  <2>1. DOMAIN With(e, d, x) = {d} \cup DOMAIN e
    BY DEF With
  <2>2. {d} \cup (1 .. k) = 1 .. k
    OBVIOUS
  <2> QED BY <1>1, <2>1, <2>2 DEF Numbered
<1> QED BY <1>1, <1>2, <1>3, <1>4

\* ---- dispatch ----

BinaryOps == AluOps \cup CmpOps \cup ShiftOps \cup {"MUL", "DIV"}

\* The code of an instruction with two operands.
LEMMA BinaryCode ==
    ASSUME NEW c, InFrame(c), NEW inst, inst.opcode \in BinaryOps, NEW loc,
           loc[inst.dest] \in Locations, loc[inst.src_1] \in Locations, loc[inst.src_2] \in Locations
    PROVE  Effect(c, Run(c, Code(inst, loc, <<>>)), loc[inst.dest],
                  <<inst.opcode, Content(c, loc[inst.src_1]), Content(c, loc[inst.src_2])>>, Int)
<1> DEFINE op == inst.opcode
           d == loc[inst.dest]
           l == loc[inst.src_1]
           r == loc[inst.src_2]
           code == Code(inst, loc, <<>>)
<1>1. /\ op \in AluOps => code = emit_standard_binary_op(op, d, l, r)
      /\ op \in CmpOps => code = emit_comparison_op(op, d, l, r)
      /\ op \in ShiftOps => code = emit_shift_op(op, d, l, r)
      /\ op = "MUL" => code = encode_mul(d, l, r)
      /\ op = "DIV" => code = encode_div(d, l, r)
  <2>1. op \in AluOps => code = emit_standard_binary_op(op, d, l, r)
    BY DEF Code, AluOps, ArithOps, LogicOps, CmpOps, ShiftOps, GroupOps
  <2>2. op \in CmpOps => code = emit_comparison_op(op, d, l, r)
    BY DEF Code, AluOps, ArithOps, LogicOps, CmpOps, ShiftOps, GroupOps
  <2>3. op \in ShiftOps => code = emit_shift_op(op, d, l, r)
    BY DEF Code, AluOps, ArithOps, LogicOps, CmpOps, ShiftOps, GroupOps
  <2>4. op = "MUL" => code = encode_mul(d, l, r)
    BY DEF Code, AluOps, ArithOps, LogicOps, CmpOps, ShiftOps, GroupOps
  <2>5. op = "DIV" => code = encode_div(d, l, r)
    BY DEF Code, AluOps, ArithOps, LogicOps, CmpOps, ShiftOps, GroupOps
  <2> QED BY <2>1, <2>2, <2>3, <2>4, <2>5
<1>2. d \in Locations /\ l \in Locations /\ r \in Locations
  OBVIOUS
<1>3. \/ op \in AluOps \/ op \in CmpOps \/ op \in ShiftOps \/ op = "MUL" \/ op = "DIV"
  BY DEF BinaryOps
<1> HIDE DEF op, d, l, r, code
<1>4. CASE op \in AluOps
  BY <1>1, <1>2, <1>4, AluCode DEF op, d, l, r, code
<1>5. CASE op \in CmpOps
  BY <1>1, <1>2, <1>5, CmpCode DEF op, d, l, r, code
<1>6. CASE op \in ShiftOps
  BY <1>1, <1>2, <1>6, ShiftCode DEF op, d, l, r, code
<1>7. CASE op = "MUL"
  BY <1>1, <1>2, <1>7, MulCode DEF op, d, l, r, code
<1>8. CASE op = "DIV"
  BY <1>1, <1>2, <1>8, DivCode DEF op, d, l, r, code
<1> QED BY <1>3, <1>4, <1>5, <1>6, <1>7, <1>8

\* The value of an instruction with one operand of value v.
UnaryValue(op, v) ==
    IF op \in GroupOps THEN <<op, v>> ELSE IF op = "NOT" THEN <<"EQ", v, Zero>> ELSE v

\* The code of an instruction with one operand.
LEMMA UnaryCode ==
    ASSUME NEW c, InFrame(c), NEW inst, inst.opcode \in GroupOps \cup {"NOT", "MOV"}, NEW loc,
           loc[inst.dest] \in Locations, loc[inst.src_1] \in Locations
    PROVE  Effect(c, Run(c, Code(inst, loc, <<>>)), loc[inst.dest],
                  UnaryValue(inst.opcode, Content(c, loc[inst.src_1])), Int)
<1> DEFINE op == inst.opcode
           d == loc[inst.dest]
           l == loc[inst.src_1]
           code == Code(inst, loc, <<>>)
           x == Content(c, l)
<1>1. /\ op \in GroupOps => code = encode_group(op, d, l) /\ UnaryValue(op, x) = <<op, x>>
      /\ op = "NOT" => code = encode_not(d, l) /\ UnaryValue(op, x) = <<"EQ", x, Zero>>
      /\ op = "MOV" => code = encode_mov(d, l) /\ UnaryValue(op, x) = x
  BY DEF Code, UnaryValue, AluOps, ArithOps, LogicOps, CmpOps, ShiftOps, GroupOps
<1>2. d \in Locations /\ l \in Locations
  OBVIOUS
<1>3. op \in GroupOps \/ op = "NOT" \/ op = "MOV"
  OBVIOUS
<1> HIDE DEF op, d, l, code
<1>4. CASE op \in GroupOps
  BY <1>1, <1>2, <1>4, GroupCode DEF op, d, l, code
<1>5. CASE op = "NOT"
  BY <1>1, <1>2, <1>5, NotCode DEF op, d, l, code
<1>6. CASE op = "MOV"
  BY <1>1, <1>2, <1>6, MovCode DEF op, d, l, code
<1> QED BY <1>3, <1>4, <1>5, <1>6

\* The other codes.
LEMMA OtherCode ==
    ASSUME NEW inst, NEW loc, NEW args
    PROVE  /\ inst.opcode = "CONST" => Code(inst, loc, args) = encode_const(loc[inst.dest], inst.imm)
           /\ inst.opcode = "LOAD" =>
                Code(inst, loc, args) = encode_load(loc[inst.dest], inst.src_1, inst.width)
           /\ inst.opcode = "STORE" =>
                Code(inst, loc, args) = encode_store(inst.dest, loc[inst.src_1], inst.width)
           /\ inst.opcode \in {"JZ", "JNZ"} =>
                Code(inst, loc, args) = encode_branch(inst.opcode, loc[inst.src_1], inst.label)
           /\ inst.opcode = "CALL" =>
                Code(inst, loc, args) =
                    encode_call(loc[inst.dest], [i \in 1 .. Len(args) |-> loc[args[i]]], inst.func)
           /\ inst.opcode = "RET" => Code(inst, loc, args) = encode_ret(loc[inst.src_1])
BY DEF Code, AluOps, ArithOps, LogicOps, CmpOps, ShiftOps, GroupOps

\* What each instruction asks the allocator for.
LEMMA OperandsOf ==
    ASSUME NEW inst, NEW args
    PROVE  /\ inst.opcode \in BinaryOps => Operands(inst, args) = <<inst.dest, inst.src_1, inst.src_2>>
           /\ inst.opcode \in GroupOps \cup {"NOT", "MOV"} =>
                Operands(inst, args) = <<inst.dest, inst.src_1>>
           /\ inst.opcode \in {"CONST", "LOAD"} => Operands(inst, args) = <<inst.dest>>
           /\ inst.opcode \in {"STORE", "JZ", "JNZ", "RET"} => Operands(inst, args) = <<inst.src_1>>
           /\ inst.opcode = "CALL" => Operands(inst, args) = <<inst.dest>> \o Reverse(args)
BY DEF Operands, BinaryOps, AluOps, ArithOps, LogicOps, CmpOps, ShiftOps, GroupOps

\* What each instruction computes.
LEMMA ResultOf ==
    ASSUME NEW inst, NEW vals
    PROVE  /\ inst.opcode \in BinaryOps =>
                Result(inst, vals) = <<inst.opcode, env[inst.src_1], env[inst.src_2]>>
           /\ inst.opcode \in GroupOps \cup {"NOT", "MOV"} =>
                Result(inst, vals) = UnaryValue(inst.opcode, env[inst.src_1])
           /\ inst.opcode = "CONST" => Result(inst, vals) = <<"const", inst.imm>>
           /\ inst.opcode = "LOAD" => Result(inst, vals) = locals[inst.src_1].value
           /\ inst.opcode = "CALL" => Result(inst, vals) = <<"result", <<"code of", inst.func>>, vals>>
BY DEF Result, UnaryValue, BinaryOps, AluOps, ArithOps, LogicOps, CmpOps, ShiftOps, GroupOps

\* ---- the invariant ----

\* The machine at the entry.
Arriving(c, p) ==
    /\ IsCpu(c) /\ c.rsp = EntryRsp /\ c.regs = EntryRegs(p) /\ c.mem = EntryMem(p)
    /\ c.aligned = TRUE

\* The machine after the return.
Left(c, ev) ==
    /\ c.jump = <<"return address">> /\ <<"RET", c.regs[RAX]>> = ev
    /\ c.rsp = EntryRsp + WORD_SIZE /\ c.aligned = TRUE
    /\ \A r \in AbiSaved : c.regs[r] = Callers(r)

\* The inductive invariant: at the entry the registers and the stack of the
\* caller, in the body the frame with the saved words and every value at its
\* location, after the return what the caller expects.
IInv ==
    /\ load \in Loads
    /\ params \in Nat /\ vreg_count \in Nat /\ params < vreg_count
    /\ AllocOk(alloc, vreg_count)
    /\ phase \in {"entry", "body", "returned"}
    /\ phase = "entry" => Arriving(cpu, params) /\ locals = <<>> /\ cpu.jump = event
    /\ phase = "body" => BodyOk(cpu, alloc, env, locals, params, vreg_count) /\ cpu.jump = event
    /\ phase = "returned" => Left(cpu, event)

\* The initial states satisfy it.
LEMMA InitInv == Init => IInv
<1> SUFFICES ASSUME Init PROVE IInv
  OBVIOUS
<1>1. load \in Loads /\ params \in Nat
  BY LoadsAssumption DEF Init
<1>2. vreg_count \in Nat /\ params < vreg_count
  <2>1. PICK k \in 0 .. load.temps : vreg_count = params + 1 + k
    BY DEF Init
  <2>2. load.temps \in Nat
    BY <1>1, LoadsAssumption
  <2> QED BY <1>1, <2>1, <2>2
<1>3. AllocOk(alloc, vreg_count)
  <2>1. PICK s \in load.locals : alloc = FreshAlloc(0 .. vreg_count - 1, s)
    BY DEF Init
  <2>2. s \in Nat
    BY <1>1, LoadsAssumption
  <2> QED BY <1>2, <2>1, <2>2, FreshOk
<1>4. Arriving(cpu, params) /\ cpu.jump = event
  <2>1. cpu = [regs |-> EntryRegs(params), mem |-> EntryMem(params), rsp |-> EntryRsp,
               flags |-> <<Junk, Junk>>, jump |-> NoEvent, nargs |-> 0, aligned |-> TRUE]
    BY DEF Init
  <2> DEFINE g == <<Junk, Junk>>
             R == EntryRegs(params)
             M == EntryMem(params)
  <2>2. cpu = [regs |-> R, mem |-> M, rsp |-> EntryRsp, flags |-> g, jump |-> NoEvent,
               nargs |-> 0, aligned |-> TRUE]
    BY <2>1
  <2>3. R = [r \in Registers |-> R[r]] /\ M = [a \in DOMAIN M |-> M[a]]
    <3>1. R = [r \in Registers |-> R[r]]
      BY DEF EntryRegs
    <3>2. M = [a \in DOMAIN M |-> M[a]]
      BY DEF EntryMem
    <3> QED BY <3>1, <3>2
  <2> HIDE DEF g, R, M
  <2>4. /\ cpu.regs = R /\ cpu.mem = M /\ cpu.rsp = EntryRsp /\ cpu.flags = g
        /\ cpu.jump = NoEvent /\ cpu.nargs = 0 /\ cpu.aligned = TRUE
        /\ cpu = [regs |-> cpu.regs, mem |-> cpu.mem, rsp |-> cpu.rsp, flags |-> cpu.flags,
                  jump |-> cpu.jump, nargs |-> cpu.nargs, aligned |-> cpu.aligned]
    BY <2>2
  <2>5. EntryRsp \in Int
    BY DEF EntryRsp, WORD_SIZE
  <2>6. IsCpu(cpu)
    BY <2>3, <2>4, <2>5 DEF IsCpu
  <2>7. cpu.jump = event
    BY <2>4 DEF Init
  <2> QED BY <2>4, <2>6, <2>7 DEF Arriving, R, M
<1>5. phase = "entry" /\ locals = <<>>
  BY DEF Init
<1> QED BY <1>1, <1>2, <1>3, <1>4, <1>5 DEF IInv

\* The prologue.
LEMMA EnterInv == IInv /\ Enter => IInv'
<1> SUFFICES ASSUME IInv, Enter PROVE IInv'
  OBVIOUS
<1> DEFINE n == vreg_count
           p == params
           s == alloc.stack_base
           b == alloc'
           size == calculate_aligned_stack_size(s, n)
           req == [i \in 1 .. p |-> i]
           locs == [i \in 1 .. p |-> b.vreg_map[i]]
           c == cpu'
<1>1. /\ load \in Loads /\ p \in Nat /\ n \in Nat /\ p < n /\ AllocOk(alloc, n)
      /\ Arriving(cpu, p) /\ locals = <<>> /\ cpu.jump = event
  BY DEF IInv, Enter
<1>2. s \in Nat
  BY <1>1 DEF AllocOk
<1>3. b = Locate(alloc, req) /\ c = Run(cpu, encode_prologue(size, locs))
  BY DEF Enter
<1>4. Locating(alloc, b, req, p, n)
  <2>1. Requests(req, p, n)
    <3>1. Len(req) = p
      BY <1>1
    <3> QED BY <1>1, <3>1 DEF Requests
  <2> HIDE DEF req, n, p, b
  <2> QED BY <1>1, <1>3, <2>1, LocateRun
<1>5. AllocOk(b, n) /\ b.stack_base = s /\ \A i \in 1 .. p : b.vreg_map[i] \in Locations
  <2>1. Later(alloc, b, n) /\ \A i \in 1 .. p : b.vreg_map[req[i]] \in Locations
    BY <1>4 DEF Locating
  <2> QED BY <2>1 DEF Later
<1>6. IsList(locs, p) /\ \A i \in 1 .. p : locs[i] = b.vreg_map[i]
  BY DEF IsList
<1> HIDE DEF locs, req, b, c
<1>7. Apart(locs, p)
  <2>1. ASSUME NEW i \in 1 .. p PROVE locs[i] \in Locations /\ (OnStack(locs[i]) => locs[i].offset < -40)
    <3> DEFINE loc == locs[i]
    <3>1. i \in 0 .. n - 1 /\ loc = b.vreg_map[i] /\ loc \in Locations
      BY <1>1, <1>5, <1>6
    <3> HIDE DEF loc, n
    <3>2. OnStack(loc) => loc.offset < -40
      BY <1>1, <1>5, <3>1, LocationsApart
    <3> QED BY <3>1, <3>2 DEF loc
  <2>2. ASSUME NEW i \in 1 .. p, NEW j \in 1 .. p, locs[i] = locs[j] PROVE i = j
    <3> DEFINE loc == locs[i]
    <3>1. i \in 0 .. n - 1 /\ j \in 0 .. n - 1 /\ loc = b.vreg_map[i] /\ loc \in Locations
          /\ b.vreg_map[j] = loc
      BY <1>1, <1>5, <1>6, <2>2
    <3> HIDE DEF loc, n
    <3>2. j # i => b.vreg_map[j] # loc
      BY <1>1, <1>5, <3>1, LocationsApart
    <3> QED BY <3>1, <3>2
  <2> QED BY <2>1, <2>2 DEF Apart
<1>8. size \in Nat /\ BodyRsp(s, n) = -40 - size
  <2>1. n >= 1
    BY <1>1
  <2> HIDE DEF n, s
  <2> QED BY <1>1, <1>2, <2>1, FrameRoom
<1> HIDE DEF size, n, p, s
<1>9. /\ InFrame(c) /\ SavedWords(c) /\ c.rsp = -40 - size /\ c.jump = cpu.jump
      /\ c.aligned = cpu.aligned /\ \A i \in 1 .. p : Content(c, locs[i]) = Param(i)
  <2>1. /\ IsCpu(cpu) /\ cpu.rsp = 8 /\ cpu.regs = EntryRegs(p) /\ cpu.mem = EntryMem(p)
    BY <1>1 DEF Arriving, EntryRsp, WORD_SIZE
  <2> QED BY <1>1, <1>3, <1>6, <1>7, <1>8, <2>1, PrologueCode
<1>10. FrameOk(c, s, n)
  BY <1>1, <1>8, <1>9 DEF FrameOk, Arriving
<1>11. Holds(c, b, env')
  <2>1. DOMAIN env' = 1 .. p /\ \A i \in 1 .. p : env'[i] = Param(i)
    BY DEF Enter, p
  <2> QED BY <1>5, <1>6, <1>9, <2>1 DEF Holds
<1>12. Stores(c, s, locals')
  <2>1. locals' = <<>>
    BY <1>1 DEF Enter
  <2> QED BY <2>1 DEF Stores
<1>13. Numbered(env', p, n)
  <2>1. DOMAIN env' = 1 .. p
    BY DEF Enter, p
  <2>2. p \in p .. n - 1
    BY <1>1
  <2> QED BY <2>1, <2>2 DEF Numbered
<1>14. BodyOk(c, b, env', locals', p, n)
  BY <1>5, <1>10, <1>11, <1>12, <1>13 DEF BodyOk
<1>15. phase' = "body" /\ params' = params /\ vreg_count' = vreg_count /\ load' = load /\ event' = event
  BY DEF Enter
<1> QED BY <1>1, <1>5, <1>9, <1>14, <1>15 DEF IInv, b, c, n, p

\* ---- steps of the body ----

\* The machine and the allocator, about to run the code of an instruction.
Ready(c, b) ==
    /\ AllocOk(b, vreg_count) /\ b.stack_base = alloc.stack_base
    /\ BodyOk(c, b, env, locals, params, vreg_count) /\ c.jump = event

\* The invariant, without the body.
Typed ==
    /\ load \in Loads
    /\ params \in Nat /\ vreg_count \in Nat /\ params < vreg_count

\* What an instruction finds once its operands are located.
LEMMA Executed ==
    ASSUME IInv, NEW inst, NEW args, Execute(inst, args), NEW k \in Nat,
           Requests(Operands(inst, args), k, vreg_count)
    PROVE  LET c == Counted(cpu, Len(args)) IN
           /\ Ready(c, alloc') /\ InFrame(c) /\ c.nargs = Len(args)
           /\ \A i \in 1 .. k : alloc'.vreg_map[Operands(inst, args)[i]] \in Locations
           /\ cpu' = Run(c, Code(inst, alloc'.vreg_map, args))
           /\ Typed /\ phase = "body" /\ DOMAIN env \subseteq 1 .. vreg_count - 1
           /\ params' = params /\ vreg_count' = vreg_count /\ load' = load
<1> DEFINE c == Counted(cpu, Len(args))
           b == alloc'
           s == Operands(inst, args)
           m == Len(args)
<1>1. /\ Typed /\ phase = "body" /\ AllocOk(alloc, vreg_count)
      /\ BodyOk(cpu, alloc, env, locals, params, vreg_count) /\ cpu.jump = event
  BY DEF IInv, Execute, Typed
<1>2. b = Locate(alloc, s)
  BY DEF Execute
<1>3. cpu' = Run(c, Code(inst, b.vreg_map, args))
  BY DEF Execute, Counted
<1>4. /\ params' = params /\ vreg_count' = vreg_count /\ load' = load
  BY DEF Execute
<1>5. Requests(s, k, vreg_count) /\ vreg_count \in Nat /\ params \in Nat
  BY <1>1 DEF Typed
<1>6. InFrame(cpu) /\ Numbered(env, params, vreg_count)
  BY <1>1 DEF BodyOk, FrameOk
<1> HIDE DEF b, s, m, c
<1>7. Locating(alloc, b, s, k, vreg_count)
  BY <1>1, <1>2, <1>5, LocateRun
<1>8. /\ Later(alloc, b, vreg_count) /\ \A i \in 1 .. k : b.vreg_map[s[i]] \in Locations
  BY <1>7 DEF Locating
<1>9. DOMAIN env \subseteq 1 .. vreg_count - 1
  BY <1>5, <1>6, NumberedNext
<1>10. DOMAIN env \subseteq 0 .. vreg_count - 1
  BY <1>9
<1>11. BodyOk(cpu, b, env, locals, params, vreg_count)
  BY <1>1, <1>5, <1>8, <1>10, BodyLater
<1>12. BodyOk(Counted(cpu, m), b, env, locals, params, vreg_count)
  BY <1>11, BodyCounted
<1>13. InFrame(Counted(cpu, m)) /\ Counted(cpu, m).jump = cpu.jump /\ Counted(cpu, m).nargs = m
  BY <1>6, CountSet
<1>14. Ready(Counted(cpu, m), b)
  BY <1>1, <1>8, <1>12, <1>13 DEF Ready, Later
<1> QED BY <1>1, <1>3, <1>4, <1>8, <1>9, <1>13, <1>14 DEF c, b, s, m

\* An instruction with a destination.
LEMMA ComputeStep ==
    ASSUME Typed, phase = "body", NEW c, Ready(c, alloc'), NEW d \in 0 .. vreg_count - 1, NEW x,
           NEW A, alloc'.vreg_map[d] \in Locations, Effect(c, cpu', alloc'.vreg_map[d], x, A),
           Above(c) \subseteq A, Covered(alloc', env, A), DOMAIN env \subseteq 1 .. vreg_count - 1,
           Numbered(With(env, d, x), params, vreg_count), env' = With(env, d, x),
           params' = params, vreg_count' = vreg_count, load' = load,
           locals' = locals, phase' = phase, event' = event
    PROVE  IInv'
<1> DEFINE n == vreg_count
           b == alloc'
           loc == b.vreg_map[d]
           m == cpu'
           e == env
<1>1. n \in Nat /\ n >= 1 /\ AllocOk(b, n) /\ BodyOk(c, b, e, locals, params, n) /\ c.jump = event
  BY DEF Typed, Ready
<1>2. DOMAIN e \subseteq 0 .. n - 1 /\ d \in 0 .. n - 1
  BY <1>1
<1>3. loc \in Locations /\ Effect(c, m, loc, x, A) /\ Covered(b, e, A)
  OBVIOUS
<1>4. Numbered(With(e, d, x), params, n)
  OBVIOUS
<1>5. loc = b.vreg_map[d]
  OBVIOUS
<1>6. /\ params' = params /\ n' = n /\ env' = With(e, d, x) /\ locals' = locals
      /\ phase' = "body" /\ event' = event /\ load' = load
  OBVIOUS
<1> HIDE DEF loc, b, m, e, n
<1>7. BodyOk(m, b, With(e, d, x), locals, params, n)
  BY <1>1, <1>2, <1>3, <1>4, <1>5, ComputeKept
<1>8. m.jump = event
  BY <1>1, <1>3 DEF Effect
<1> QED BY <1>1, <1>6, <1>7, <1>8 DEF IInv, Typed, b, m, n

\* Integers cover every slot.
LEMMA CoveredByInt ==
    ASSUME NEW c, NEW b, Ready(c, b)
    PROVE  Above(c) \subseteq Int /\ Covered(b, env, Int)
<1>1. \A v \in DOMAIN env : b.vreg_map[v] \in Locations
  BY DEF Ready, BodyOk, Holds
<1> QED BY <1>1, LocationKinds DEF Above, Covered

\* The operands of the IR are at their locations.
LEMMA Found ==
    ASSUME NEW c, NEW b, Ready(c, b), NEW v \in DOMAIN env
    PROVE  b.vreg_map[v] \in Locations /\ Content(c, b.vreg_map[v]) = env[v]
BY DEF Ready, BodyOk, Holds

\* A destination ir_gen may name.
IsDest(d) == d = NextVreg \/ d \in 1 .. params

\* A destination is below vreg_count, and a value for it keeps what is defined an interval.
LEMMA Destinations ==
    ASSUME IInv, phase = "body", NEW d, IsDest(d), d < vreg_count, NEW x
    PROVE  d \in 1 .. vreg_count - 1 /\ Numbered(With(env, d, x), params, vreg_count)
<1>1. vreg_count \in Nat /\ params \in Nat /\ params < vreg_count
      /\ Numbered(env, params, vreg_count)
  BY DEF IInv, BodyOk
<1>2. CASE d = NextVreg
  <2> DEFINE k == Cardinality(DOMAIN env)
  <2>1. d = k + 1
    BY <1>2 DEF NextVreg, Defined
  <2>2. k \in params .. vreg_count - 1 /\ (k + 1 < vreg_count => Numbered(With(env, k + 1, x), params, vreg_count))
    BY <1>1, NumberedNext
  <2> HIDE DEF k
  <2> QED BY <1>1, <2>1, <2>2
<1>3. CASE d \in 1 .. params
  BY <1>1, <1>3, NumberedNext
<1> QED BY <1>2, <1>3 DEF IsDest

\* The value an instruction gives its destination.
ValueOf(inst, args) == Result(inst, [i \in 1 .. Len(args) |-> env[args[i]]])

\* A step that computes a value and puts it at its location keeps the invariant.
LEMMA ComputeInv ==
    ASSUME IInv, NEW inst, NEW args, Compute(inst, args), IsDest(inst.dest), NEW c,
           Ready(c, alloc'), NEW A, alloc'.vreg_map[inst.dest] \in Locations,
           Effect(c, cpu', alloc'.vreg_map[inst.dest], ValueOf(inst, args), A),
           Above(c) \subseteq A, Covered(alloc', env, A)
    PROVE  IInv'
<1> DEFINE d == inst.dest
           x == ValueOf(inst, args)
<1>1. /\ phase = "body" /\ d < vreg_count /\ env' = With(env, d, x)
      /\ params' = params /\ vreg_count' = vreg_count /\ load' = load
      /\ locals' = locals /\ phase' = phase /\ event' = event
  BY DEF Compute, Execute, ValueOf
<1>2. Typed /\ DOMAIN env \subseteq 1 .. vreg_count - 1
  BY <1>1, NumberedNext DEF Typed, IInv, BodyOk
<1>3. IsDest(d)
  OBVIOUS
<1>4. alloc'.vreg_map[d] \in Locations /\ Effect(c, cpu', alloc'.vreg_map[d], x, A)
  OBVIOUS
<1> HIDE DEF d, x
<1>5. d \in 1 .. vreg_count - 1 /\ Numbered(With(env, d, x), params, vreg_count)
  BY <1>1, <1>3, Destinations
<1>6. d \in 0 .. vreg_count - 1
  BY <1>5
<1> QED BY <1>1, <1>2, <1>4, <1>5, <1>6, ComputeStep

\* Requests for one, two and three virtual registers.
LEMMA ShortRequests ==
    ASSUME NEW n \in Nat, NEW u \in 1 .. n - 1, NEW v \in 1 .. n - 1, NEW w \in 1 .. n - 1
    PROVE  Requests(<<u>>, 1, n) /\ Requests(<<u, v>>, 2, n) /\ Requests(<<u, v, w>>, 3, n)
BY DEF Requests

\* Two operands.
LEMMA BinaryInv ==
    ASSUME IInv, NEW inst \in Binary, Compute(inst, <<>>)
    PROVE  IInv'
<1> DEFINE c == Counted(cpu, Len(<<>>))
           d == inst.dest
           l == inst.src_1
           r == inst.src_2
           b == alloc'
           n == vreg_count
           s == Operands(inst, <<>>)
<1>1. /\ inst.opcode \in BinaryOps /\ d = NextVreg /\ l \in DOMAIN env /\ r \in DOMAIN env
  BY DEF Binary, BinaryOps, Defined
<1>2. d < n /\ phase = "body" /\ Execute(inst, <<>>)
  BY DEF Compute, Execute
<1>3. /\ n \in Nat /\ DOMAIN env \subseteq 1 .. n - 1 /\ IsDest(d)
  BY <1>1, <1>2, NumberedNext DEF IInv, BodyOk, IsDest
<1>4. d \in 1 .. n - 1
  BY <1>2, <1>3, Destinations
<1>5. s = <<d, l, r>>
  BY <1>1, OperandsOf
<1>6. Requests(s, 3, n)
  BY <1>1, <1>3, <1>4, <1>5, ShortRequests
<1> DEFINE k == 3
<1>7. Requests(s, k, n) /\ k \in Nat /\ k = 3
  BY <1>6
<1> HIDE DEF s, k, c, b
<1>8. /\ Ready(c, b) /\ InFrame(c) /\ \A i \in 1 .. k : b.vreg_map[s[i]] \in Locations
      /\ cpu' = Run(c, Code(inst, b.vreg_map, <<>>))
  BY <1>2, <1>7, Executed DEF b, s, c
<1>9. b.vreg_map[d] \in Locations /\ b.vreg_map[l] \in Locations /\ b.vreg_map[r] \in Locations
  BY <1>5, <1>7, <1>8
<1>10. Content(c, b.vreg_map[l]) = env[l] /\ Content(c, b.vreg_map[r]) = env[r]
  BY <1>1, <1>8, Found
<1>11. ValueOf(inst, <<>>) = <<inst.opcode, env[l], env[r]>>
  BY <1>1, ResultOf DEF ValueOf
<1>12. Effect(c, cpu', b.vreg_map[d], <<inst.opcode, Content(c, b.vreg_map[l]), Content(c, b.vreg_map[r])>>, Int)
  BY <1>1, <1>8, <1>9, BinaryCode
<1>13. Effect(c, cpu', b.vreg_map[d], ValueOf(inst, <<>>), Int)
  BY <1>10, <1>11, <1>12
<1> QED BY <1>3, <1>8, <1>9, <1>13, CoveredByInt, ComputeInv DEF b

\* One operand.
LEMMA UnaryInv ==
    ASSUME IInv, NEW inst \in Unary \cup Move, Compute(inst, <<>>)
    PROVE  IInv'
<1> DEFINE c == Counted(cpu, Len(<<>>))
           d == inst.dest
           l == inst.src_1
           b == alloc'
           n == vreg_count
           s == Operands(inst, <<>>)
<1>1. /\ inst.opcode \in GroupOps \cup {"NOT", "MOV"} /\ IsDest(d) /\ l \in DOMAIN env
  BY DEF Unary, Move, Defined, IsDest
<1>2. d < n /\ phase = "body" /\ Execute(inst, <<>>)
  BY DEF Compute, Execute
<1>3. /\ n \in Nat /\ DOMAIN env \subseteq 1 .. n - 1
  BY <1>1, <1>2, NumberedNext DEF IInv, BodyOk
<1>4. d \in 1 .. n - 1
  BY <1>1, <1>2, <1>3, Destinations
<1>5. s = <<d, l>>
  BY <1>1, OperandsOf
<1>6. Requests(s, 2, n)
  BY <1>1, <1>3, <1>4, <1>5, ShortRequests
<1> DEFINE k == 2
<1>7. Requests(s, k, n) /\ k \in Nat /\ k = 2
  BY <1>6
<1> HIDE DEF s, k, c, b
<1>8. /\ Ready(c, b) /\ InFrame(c) /\ \A i \in 1 .. k : b.vreg_map[s[i]] \in Locations
      /\ cpu' = Run(c, Code(inst, b.vreg_map, <<>>))
  BY <1>2, <1>7, Executed DEF b, s, c
<1>9. b.vreg_map[d] \in Locations /\ b.vreg_map[l] \in Locations
  BY <1>5, <1>7, <1>8
<1>10. Content(c, b.vreg_map[l]) = env[l]
  BY <1>1, <1>8, Found
<1>11. ValueOf(inst, <<>>) = UnaryValue(inst.opcode, env[l])
  BY <1>1, ResultOf DEF ValueOf
<1>12. Effect(c, cpu', b.vreg_map[d], UnaryValue(inst.opcode, Content(c, b.vreg_map[l])), Int)
  BY <1>1, <1>8, <1>9, UnaryCode
<1>13. Effect(c, cpu', b.vreg_map[d], ValueOf(inst, <<>>), Int)
  BY <1>10, <1>11, <1>12
<1> QED BY <1>1, <1>8, <1>9, <1>13, CoveredByInt, ComputeInv DEF b

\* No operand but a constant or a local variable.
LEMMA ConstLoadInv ==
    ASSUME IInv, NEW inst \in Const \cup Load, Compute(inst, <<>>)
    PROVE  IInv'
<1> DEFINE c == Counted(cpu, Len(<<>>))
           d == inst.dest
           b == alloc'
           n == vreg_count
           s == Operands(inst, <<>>)
<1>1. /\ inst.opcode \in {"CONST", "LOAD"} /\ IsDest(d)
      /\ inst.opcode = "LOAD" => inst.src_1 \in DOMAIN locals /\ inst.width = locals[inst.src_1].width
  BY DEF Const, Load, IsDest
<1>2. d < n /\ phase = "body" /\ Execute(inst, <<>>)
  BY DEF Compute, Execute
<1>3. /\ n \in Nat /\ d \in 1 .. n - 1
  <2>1. n \in Nat
    BY DEF IInv
  <2> QED BY <1>1, <1>2, <2>1, Destinations
<1>4. s = <<d>>
  BY <1>1, OperandsOf
<1>5. Requests(s, 1, n)
  BY <1>3, <1>4, ShortRequests
<1> DEFINE k == 1
<1>6. Requests(s, k, n) /\ k \in Nat /\ k = 1
  BY <1>5
<1> HIDE DEF s, k, c, b
<1>7. /\ Ready(c, b) /\ InFrame(c) /\ \A i \in 1 .. k : b.vreg_map[s[i]] \in Locations
      /\ cpu' = Run(c, Code(inst, b.vreg_map, <<>>))
  BY <1>2, <1>6, Executed DEF b, s, c
<1> DEFINE loc == b.vreg_map[d]
           x == ValueOf(inst, <<>>)
<1>8. loc \in Locations
  BY <1>4, <1>6, <1>7
<1>9. CASE inst.opcode = "CONST"
  <2>1. cpu' = Run(c, encode_const(loc, inst.imm))
    BY <1>7, <1>9, OtherCode
  <2>2. x = <<"const", inst.imm>>
    BY <1>9, ResultOf DEF ValueOf
  <2> HIDE DEF loc, x
  <2>3. Effect(c, cpu', loc, x, Int)
    BY <1>7, <1>8, <2>1, <2>2, ConstCode
  <2> QED BY <1>1, <1>7, <1>8, <2>3, CoveredByInt, ComputeInv DEF b, loc, x
<1>10. CASE inst.opcode = "LOAD"
  <2> DEFINE i == inst.src_1
             w == inst.width
  <2>1. cpu' = Run(c, encode_load(loc, i, w))
    BY <1>7, <1>10, OtherCode
  <2>2. x = locals[i].value
    BY <1>10, ResultOf DEF ValueOf
  <2>3. i \in DOMAIN locals /\ w = locals[i].width
    BY <1>1, <1>10
  <2>4. i \in 0 .. b.stack_base - 1 /\ Loaded(w, Read(c, get_local_offset(i))) = x
    BY <1>7, <2>2, <2>3 DEF Ready, BodyOk, Stores
  <2>5. i \in Nat
    BY <2>4
  <2> HIDE DEF loc, x, i, w
  <2>6. Effect(c, cpu', loc, Loaded(w, Read(c, get_local_offset(i))), Int)
    BY <1>7, <1>8, <2>1, <2>5, LoadCode
  <2>7. Effect(c, cpu', loc, x, Int)
    BY <2>4, <2>6
  <2> QED BY <1>1, <1>7, <1>8, <2>7, CoveredByInt, ComputeInv DEF b, loc, x
<1> QED BY <1>1, <1>9, <1>10

\* An argument list: m virtual registers that are defined.
IsArgs(args, m) ==
    m \in Nat /\ IsList(args, m) /\ Len(args) = m /\ \A i \in 1 .. m : args[i] \in DOMAIN env

\* The arguments of a call are defined.
LEMMA ArgListIs ==
    ASSUME IInv, phase = "body", NEW args \in ArgLists
    PROVE  IsArgs(args, Len(args))
<1> DEFINE k == Cardinality(DOMAIN env)
<1>1. k \in Nat /\ DOMAIN env = 1 .. k
  <2>1. vreg_count \in Nat /\ params \in Nat /\ Numbered(env, params, vreg_count)
    BY DEF IInv, BodyOk
  <2> QED BY <2>1, NumberedNext
<1>2. Defined = DOMAIN env
  BY DEF Defined
<1>3. CASE Defined = {}
  <2>1. args = <<>>
    BY <1>3 DEF ArgLists
  <2>2. Len(<<>>) = 0 /\ <<>> = [i \in 1 .. 0 |-> <<>>[i]] /\ \A i \in 1 .. 0 : FALSE
    OBVIOUS
  <2> QED BY <2>1, <2>2 DEF IsArgs, IsList
<1>4. CASE Defined # {}
  <2>1. PICK m \in load.args, s \in Defined : args = [i \in 1 .. m |-> 1 + ((s + i) % k)]
    BY <1>2, <1>4 DEF ArgLists
  <2>2. m \in Nat
    BY LoadsAssumption DEF IInv
  <2>3. s \in 1 .. k
    BY <1>1, <1>2
  <2> HIDE DEF k
  <2>4. \A i \in 1 .. m : args[i] \in 1 .. k
    <3> SUFFICES ASSUME NEW i \in 1 .. m PROVE args[i] \in 1 .. k
      OBVIOUS
    <3>1. k > 0 /\ s + i \in Nat
      BY <1>1, <2>2, <2>3
    <3>2. (s + i) % k \in 0 .. k - 1
      BY <1>1, <3>1
    <3> QED BY <1>1, <2>1, <3>2
  <2>5. IsList(args, m)
    BY <2>1 DEF IsList
  <2>6. Len(args) = m
    BY <2>2, <2>5, Listed DEF IsList
  <2> QED BY <1>1, <2>2, <2>4, <2>5, <2>6 DEF IsArgs
<1> QED BY <1>3, <1>4

\* A sequence of one before another.
LEMMA Before ==
    ASSUME NEW S, NEW h \in Seq(S), Len(h) = 1, NEW t \in Seq(S)
    PROVE  h \o t \in Seq(S) /\ Len(h \o t) = 1 + Len(t) /\ (h \o t)[1] = h[1]
<1> DEFINE q == h \o t
<1>1. /\ q \in Seq(S) /\ Len(q) = Len(h) + Len(t)
      /\ \A i \in 1 .. Len(h) + Len(t) : q[i] = IF i <= Len(h) THEN h[i] ELSE t[i - Len(h)]
  BY ConcatProperties
<1>2. Len(t) \in Nat
  BY LenProperties
<1> HIDE DEF q
<1>3. q[1] = h[1]
  BY <1>1, <1>2
<1> QED BY <1>1, <1>3 DEF q

\* The destination and the arguments are requested.
LEMMA CallRequests ==
    ASSUME NEW n \in Nat, NEW d \in 0 .. n - 1, NEW m \in Nat, NEW args, IsList(args, m),
           \A i \in 1 .. m : args[i] \in 0 .. n - 1
    PROVE  Requests(<<d>> \o Reverse(args), m + 1, n) /\ (<<d>> \o Reverse(args))[1] = d
<1>1. args \in [1 .. m -> 0 .. n - 1]
  BY DEF IsList
<1>2. args \in Seq(0 .. n - 1) /\ Len(args) = m
  BY <1>1
<1> DEFINE t == Reverse(args)
           h == <<d>>
<1>3. t \in Seq(0 .. n - 1) /\ Len(t) = m
  <2>1. \A i \in 1 .. m : args[(m - i) + 1] \in 0 .. n - 1
    BY <1>1
  <2>2. t = [i \in 1 .. m |-> args[(m - i) + 1]]
    BY <1>2 DEF Reverse
  <2>3. t \in [1 .. m -> 0 .. n - 1]
    BY <2>1, <2>2
  <2> HIDE DEF t
  <2> QED BY <2>3
<1>4. h \in Seq(0 .. n - 1) /\ Len(h) = 1 /\ h[1] = d
  OBVIOUS
<1> HIDE DEF t, h
<1> DEFINE S == 0 .. n - 1
           q == h \o t
<1>5. q \in Seq(S) /\ Len(q) = m + 1 /\ q[1] = d
  <2>1. h \in Seq(S) /\ t \in Seq(S) /\ Len(h) = 1 /\ Len(t) = m /\ h[1] = d
    BY <1>3, <1>4
  <2> HIDE DEF S
  <2>2. q \in Seq(S) /\ Len(q) = 1 + Len(t) /\ q[1] = h[1]
    BY <2>1, Before
  <2>3. 1 + m = m + 1
    OBVIOUS
  <2> QED BY <2>1, <2>2, <2>3
<1> HIDE DEF q
<1>6. \A i \in 1 .. m + 1 : q[i] \in S
  BY <1>5
<1> QED BY <1>5, <1>6 DEF Requests, h, t, q

\* Below the last one, no virtual register has a slot under rsp.
LEMMA SlotsAbove ==
    ASSUME NEW c, NEW b, Ready(c, b), NEW v \in 0 .. vreg_count - 2, vreg_count \in Nat, vreg_count >= 1,
           b.vreg_map[v] \in Locations, OnStack(b.vreg_map[v])
    PROVE  b.vreg_map[v].offset \in Int /\ b.vreg_map[v].offset >= c.rsp
<1> DEFINE s == b.stack_base
           n == vreg_count
           loc == b.vreg_map[v]
<1>1. AllocOk(b, n) /\ s \in Nat /\ c.rsp = BodyRsp(s, n)
  BY DEF Ready, AllocOk, BodyOk, FrameOk
<1>2. v \in 0 .. n - 1 /\ loc \in Locations /\ OnStack(loc) /\ n \in Nat /\ n >= 1
      /\ loc = b.vreg_map[v] /\ v \in 0 .. n - 2
  OBVIOUS
<1> HIDE DEF loc, n
<1>3. loc.offset = SpillOffset(s, v)
  BY <1>1, <1>2 DEF AllocOk
<1>4. SpillOffset(s, v) \in Int /\ SpillOffset(s, v) >= BodyRsp(s, n)
  BY <1>1, <1>2, FrameRoom
<1> QED BY <1>1, <1>3, <1>4 DEF loc

\* A call.
LEMMA CallInv ==
    ASSUME IInv, NEW inst \in Call, NEW args \in ArgLists, Compute(inst, args)
    PROVE  IInv'
<1> DEFINE m == Len(args)
           c == Counted(cpu, m)
           d == inst.dest
           f == inst.func
           b == alloc'
           n == vreg_count
           s == Operands(inst, args)
           k == m + 1
           loc == b.vreg_map[d]
           locs == [i \in 1 .. m |-> b.vreg_map[args[i]]]
           A == Above(c)
<1>1. inst.opcode = "CALL" /\ d = NextVreg
  BY DEF Call
<1>2. d < n /\ phase = "body" /\ Execute(inst, args)
  BY DEF Compute, Execute
<1>3. IsArgs(args, m)
  BY <1>2, ArgListIs
<1>4. n \in Nat /\ IsDest(d) /\ d \in 1 .. n - 1 /\ DOMAIN env \subseteq 1 .. n - 2
  <2>1. n \in Nat /\ params \in Nat /\ Numbered(env, params, n) /\ IsDest(d)
    BY <1>1, <1>2 DEF IInv, BodyOk, IsDest
  <2> DEFINE q == Cardinality(DOMAIN env)
  <2>2. q \in Nat /\ DOMAIN env = 1 .. q
    BY <2>1, NumberedNext
  <2>3. d = q + 1
    BY <1>1 DEF NextVreg, Defined
  <2> HIDE DEF q
  <2>4. DOMAIN env \subseteq 1 .. n - 2 /\ d \in 1 .. n - 1
    BY <1>2, <2>1, <2>2, <2>3
  <2> QED BY <2>1, <2>4
<1>5. s = <<d>> \o Reverse(args)
  BY <1>1, OperandsOf
<1>6. m \in Nat /\ IsList(args, m) /\ \A i \in 1 .. m : args[i] \in DOMAIN env
  BY <1>3 DEF IsArgs
<1>7. Requests(s, k, n) /\ s[1] = d /\ k \in Nat /\ 1 \in 1 .. k
  <2>1. d \in 0 .. n - 1 /\ \A i \in 1 .. m : args[i] \in 0 .. n - 1
    BY <1>4, <1>6
  <2>2. Requests(<<d>> \o Reverse(args), m + 1, n) /\ (<<d>> \o Reverse(args))[1] = d
    <3> HIDE DEF m, n, d
    <3> QED BY <1>4, <1>6, <2>1, CallRequests
  <2>3. m + 1 \in Nat /\ 1 \in 1 .. m + 1
    BY <1>6
  <2> QED BY <1>5, <2>2, <2>3
<1> HIDE DEF s, k, c, b
<1>8. /\ Ready(c, b) /\ InFrame(c) /\ c.nargs = m
      /\ \A i \in 1 .. k : b.vreg_map[s[i]] \in Locations
      /\ cpu' = Run(c, Code(inst, b.vreg_map, args))
  BY <1>2, <1>7, Executed DEF b, s, c
<1>9. loc \in Locations
  BY <1>7, <1>8
<1>10. cpu' = Run(c, encode_call(loc, locs, f))
  BY <1>1, <1>8, OtherCode
<1>11. IsList(locs, m) /\ \A i \in 1 .. m : locs[i] = b.vreg_map[args[i]]
  BY DEF IsList
<1>12. \A v \in DOMAIN env : OnStack(b.vreg_map[v]) =>
           b.vreg_map[v].offset \in Int /\ b.vreg_map[v].offset >= c.rsp
  <2> SUFFICES ASSUME NEW v \in DOMAIN env, OnStack(b.vreg_map[v])
               PROVE  b.vreg_map[v].offset \in Int /\ b.vreg_map[v].offset >= c.rsp
    OBVIOUS
  <2>1. v \in 0 .. n - 2 /\ n >= 1
    BY <1>4
  <2>2. b.vreg_map[v] \in Locations
    BY <1>8, Found
  <2> QED BY <1>4, <1>8, <2>1, <2>2, SlotsAbove
<1> HIDE DEF locs, loc
<1>13. Arguments(c, locs, m)
  <2> SUFFICES ASSUME NEW i \in 1 .. m
               PROVE  locs[i] \in Locations /\ (OnStack(locs[i]) => locs[i].offset >= c.rsp)
    BY DEF Arguments
  <2>1. args[i] \in DOMAIN env /\ locs[i] = b.vreg_map[args[i]]
    BY <1>6, <1>11
  <2> QED BY <1>8, <1>12, <2>1, Found
<1>14. c.rsp % 16 = 0 /\ c.aligned = TRUE
  <2>1. c.rsp = BodyRsp(b.stack_base, n) /\ c.aligned = TRUE /\ b.stack_base \in Nat
    BY <1>8 DEF Ready, BodyOk, FrameOk, AllocOk
  <2>2. n >= 1
    BY <1>4
  <2> QED BY <1>4, <2>1, <2>2, FrameRoom
<1> DEFINE got == [i \in 1 .. m |-> Content(c, locs[i])]
           vals == [i \in 1 .. m |-> env[args[i]]]
<1>15. got = vals
  <2>1. \A i \in 1 .. m : Content(c, locs[i]) = env[args[i]]
    BY <1>6, <1>8, <1>11, Found
  <2> QED BY <2>1
<1>16. Effect(c, cpu', loc, <<"result", <<"code of", f>>, got>>, A)
  <2>1. A = {a \in Int : a >= c.rsp}
    BY DEF Above
  <2> HIDE DEF m, f, A
  <2>2. Effect(c, Run(c, encode_call(loc, locs, f)), loc, <<"result", <<"code of", f>>, got>>,
               {a \in Int : a >= c.rsp})
    BY <1>6, <1>8, <1>9, <1>11, <1>13, <1>14, CallCode
  <2> QED BY <1>10, <2>1, <2>2
<1>17. ValueOf(inst, args) = <<"result", <<"code of", f>>, vals>>
  BY <1>1, ResultOf DEF ValueOf
<1> HIDE DEF got, vals, A
<1>18. Effect(c, cpu', loc, ValueOf(inst, args), A)
  BY <1>15, <1>16, <1>17
<1>19. Above(c) \subseteq A /\ Covered(b, env, A)
  BY <1>12 DEF Covered, Above, A
<1> QED BY <1>4, <1>8, <1>9, <1>18, <1>19, ComputeInv DEF b, loc

\* A store to a local variable.
LEMMA StoreInv ==
    ASSUME IInv, NEW inst \in Store, StoreLocal(inst)
    PROVE  IInv'
<1> DEFINE c == Counted(cpu, Len(<<>>))
           i == inst.dest
           v == inst.src_1
           w == inst.width
           b == alloc'
           n == vreg_count
           s == Operands(inst, <<>>)
           k == 1
<1>1. /\ inst.opcode = "STORE" /\ i \in 0 .. alloc.stack_base - 1 /\ v \in DOMAIN env
  BY DEF Store, Defined
<1>2. Execute(inst, <<>>) /\ phase = "body"
  BY DEF StoreLocal, Execute
<1>3. n \in Nat /\ n >= 1 /\ DOMAIN env \subseteq 1 .. n - 1
  <2>1. n \in Nat /\ params \in Nat /\ params < n /\ Numbered(env, params, n)
    BY <1>2 DEF IInv, BodyOk
  <2> QED BY <2>1, NumberedNext
<1>4. s = <<v>> /\ Requests(s, k, n) /\ k \in Nat /\ k = 1
  <2>1. s = <<v>>
    BY <1>1, OperandsOf
  <2>2. Requests(<<v>>, 1, n)
    BY <1>1, <1>3, ShortRequests
  <2> QED BY <2>1, <2>2
<1> HIDE DEF s, k, c, b
<1>5. /\ Ready(c, b) /\ InFrame(c) /\ cpu' = Run(c, Code(inst, b.vreg_map, <<>>))
      /\ Typed /\ params' = params /\ vreg_count' = vreg_count /\ load' = load
  BY <1>2, <1>4, Executed DEF b, s, c
<1> DEFINE src == b.vreg_map[v]
           x == env[v]
           rec == [width |-> w, value |-> Narrowed(w, x)]
<1>6. src \in Locations /\ Content(c, src) = x
  BY <1>1, <1>5, Found
<1>7. cpu' = Run(c, encode_store(i, src, w))
  BY <1>1, <1>5, OtherCode
<1>8. i \in 0 .. b.stack_base - 1 /\ i \in Nat
  BY <1>1, <1>5 DEF Ready
<1>9. locals' = With(locals, i, rec) /\ env' = env /\ phase' = "body" /\ event' = event
  BY <1>2 DEF StoreLocal
<1> HIDE DEF src, x, i, w
<1>10. Effect(c, cpu', LocalSlot(i), Stored(w, Content(c, src)), Int)
  BY <1>5, <1>6, <1>7, <1>8, StoreCode
<1>11. Effect(c, cpu', LocalSlot(i), Stored(w, x), Int)
  BY <1>6, <1>10
<1>12. /\ AllocOk(b, n) /\ BodyOk(c, b, env, locals, params, n) /\ c.jump = event
       /\ DOMAIN env \subseteq 0 .. n - 1
  BY <1>3, <1>5 DEF Ready
<1>13. BodyOk(cpu', b, env, With(locals, i, rec), params, n)
  <2> DEFINE q == cpu'
  <2>1. Effect(c, q, LocalSlot(i), Stored(w, x), Int)
    BY <1>11
  <2> HIDE DEF n, q
  <2>2. BodyOk(q, b, env, With(locals, i, rec), params, n)
    BY <1>3, <1>8, <1>12, <2>1, StoreKept
  <2> QED BY <2>2 DEF q
<1>14. cpu'.jump = event
  BY <1>11, <1>12 DEF Effect
<1> HIDE DEF rec
<1> QED BY <1>5, <1>9, <1>12, <1>13, <1>14 DEF IInv, Typed, b, n

\* A step that changes no register that holds a value and no memory.
LEMMA BodyStill ==
    ASSUME NEW n \in Nat, NEW p, NEW c, NEW b, AllocOk(b, n), NEW e, NEW ls,
           BodyOk(c, b, e, ls, p, n), NEW m, InFrame(m),
           \A r \in AllocatableRegs : m.regs[r] = c.regs[r], \A a : Read(m, a) = Read(c, a),
           m.rsp = c.rsp, m.aligned = c.aligned
    PROVE  BodyOk(m, b, e, ls, p, n)
<1>1. FrameOk(m, b.stack_base, n)
  BY DEF BodyOk, FrameOk, SavedWords
<1>2. Stores(m, b.stack_base, ls)
  BY DEF BodyOk, Stores
<1>3. InFrame(c)
  BY DEF BodyOk, FrameOk
<1>4. ASSUME NEW v \in DOMAIN e
      PROVE  b.vreg_map[v] \in Locations /\ Content(m, b.vreg_map[v]) = e[v]
  <2> DEFINE l == b.vreg_map[v]
  <2>1. l \in Locations /\ Content(c, l) = e[v]
    BY DEF BodyOk, Holds
  <2> HIDE DEF l
  <2>2. CASE InReg(l)
    <3>1. l.reg \in AllocatableRegs
      BY <2>1, <2>2, LocationKinds
    <3> QED BY <2>1, <2>2, <3>1 DEF Content, l
  <2>3. CASE OnStack(l)
    <3>1. ~InReg(l) /\ l.offset \in Int
      BY <2>1, <2>3, LocationKinds
    <3>2. At(c, l.offset) = l.offset /\ At(m, l.offset) = l.offset
      BY <1>3, <3>1, AtRbp
    <3>3. Content(m, l) = Content(c, l)
      BY <3>1, <3>2 DEF Content
    <3> QED BY <2>1, <3>3 DEF l
  <2> QED BY <2>1, <2>2, <2>3, LocationKinds
<1> QED BY <1>1, <1>2, <1>4 DEF BodyOk, Holds

\* A conditional jump.
LEMMA BranchInv ==
    ASSUME IInv, NEW inst \in Branch, TestCondition(inst)
    PROVE  IInv'
<1> DEFINE c == Counted(cpu, Len(<<>>))
           v == inst.src_1
           o == inst.opcode
           b == alloc'
           n == vreg_count
           s == Operands(inst, <<>>)
           k == 1
           m == cpu'
<1>1. /\ o \in {"JZ", "JNZ"} /\ v \in DOMAIN env
  BY DEF Branch, Defined
<1>2. Execute(inst, <<>>) /\ phase = "body"
  BY DEF TestCondition, Execute
<1>3. n \in Nat /\ DOMAIN env \subseteq 1 .. n - 1
  BY <1>2, NumberedNext DEF IInv, BodyOk
<1>4. s = <<v>> /\ Requests(s, k, n) /\ k \in Nat /\ k = 1
  <2>1. s = <<v>>
    BY <1>1, OperandsOf
  <2>2. Requests(<<v>>, 1, n)
    BY <1>1, <1>3, ShortRequests
  <2> QED BY <2>1, <2>2
<1> HIDE DEF s, k, c, b
<1>5. /\ Ready(c, b) /\ InFrame(c) /\ cpu' = Run(c, Code(inst, b.vreg_map, <<>>))
      /\ Typed /\ params' = params /\ vreg_count' = vreg_count /\ load' = load
  BY <1>2, <1>4, Executed DEF b, s, c
<1> DEFINE src == b.vreg_map[v]
<1>6. src \in Locations /\ Content(c, src) = env[v]
  BY <1>1, <1>5, Found
<1>7. m = Run(c, encode_branch(o, src, inst.label))
  BY <1>1, <1>5, OtherCode
<1>8. /\ locals' = locals /\ env' = env /\ phase' = "body"
      /\ event' = <<o, <<env[v], Zero>>>>
  BY <1>2 DEF TestCondition
<1>9. /\ AllocOk(b, n) /\ BodyOk(c, b, env, locals, params, n)
  BY <1>5 DEF Ready
<1> DEFINE label == inst.label
<1> HIDE DEF src, m, o, n, label
<1>10. /\ InFrame(m) /\ m.jump = <<o, <<Content(c, src), Zero>>>>
       /\ \A r \in AllocatableRegs : m.regs[r] = c.regs[r]
       /\ \A a : Read(m, a) = Read(c, a)
       /\ m.rsp = c.rsp /\ m.aligned = c.aligned
  <2>1. m = Run(c, encode_branch(o, src, label))
    BY <1>7 DEF label
  <2> QED BY <1>1, <1>5, <1>6, <2>1, BranchCode
<1>11. BodyOk(m, b, env, locals, params, n)
  BY <1>3, <1>9, <1>10, BodyStill
<1>12. m.jump = event'
  BY <1>6, <1>8, <1>10
<1> QED BY <1>5, <1>8, <1>9, <1>11, <1>12 DEF IInv, Typed, b, m, n

\* The return.
LEMMA ReturnInv ==
    ASSUME IInv, NEW v \in Defined, Return(v)
    PROVE  IInv'
<1> DEFINE inst == [opcode |-> "RET", src_1 |-> v]
           c == Counted(cpu, Len(<<>>))
           b == alloc'
           n == vreg_count
           s == Operands(inst, <<>>)
           k == 1
           m == cpu'
<1>1. inst.opcode = "RET" /\ inst.src_1 = v /\ v \in DOMAIN env
  BY DEF Defined
<1>2. Execute(inst, <<>>) /\ phase = "body" /\ phase' = "returned" /\ event' = <<"RET", env[v]>>
  BY DEF Return, Execute
<1> HIDE DEF inst
<1>3. n \in Nat /\ DOMAIN env \subseteq 1 .. n - 1
  BY <1>2, NumberedNext DEF IInv, BodyOk
<1>4. s = <<v>> /\ Requests(s, k, n) /\ k \in Nat /\ k = 1
  <2>1. s = <<v>>
    BY <1>1, OperandsOf
  <2>2. Requests(<<v>>, 1, n)
    BY <1>1, <1>3, ShortRequests
  <2> QED BY <2>1, <2>2
<1> HIDE DEF s, k, c, b
<1>5. /\ Ready(c, b) /\ InFrame(c) /\ cpu' = Run(c, Code(inst, b.vreg_map, <<>>))
      /\ Typed /\ params' = params /\ vreg_count' = vreg_count /\ load' = load
  BY <1>2, <1>4, Executed DEF b, s, c
<1> DEFINE src == b.vreg_map[v]
<1>6. src \in Locations /\ Content(c, src) = env[v]
  BY <1>1, <1>5, Found
<1>7. m = Run(c, encode_ret(src))
  BY <1>1, <1>5, OtherCode
<1>8. AllocOk(b, n) /\ SavedWords(c) /\ c.aligned = TRUE
  BY <1>5 DEF Ready, BodyOk, FrameOk
<1> HIDE DEF src, m, n
<1>9. /\ m.jump = <<"return address">> /\ m.regs[RAX] = Content(c, src)
      /\ m.rsp = 16 /\ m.aligned = c.aligned
      /\ \A r \in AbiSaved : m.regs[r] = Callers(r)
  BY <1>5, <1>6, <1>7, <1>8, RetCode
<1>10. EntryRsp + WORD_SIZE = 16
  BY DEF EntryRsp, WORD_SIZE
<1>11. <<"RET", m.regs[RAX]>> = event'
  BY <1>2, <1>6, <1>9
<1>12. Left(m, event')
  BY <1>8, <1>9, <1>10, <1>11 DEF Left
<1> QED BY <1>2, <1>5, <1>8, <1>12 DEF IInv, Typed, b, m, n

\* Every step keeps the invariant.
LEMMA NextInv == IInv /\ [Next]_vars => IInv'
<1> SUFFICES ASSUME IInv, [Next]_vars PROVE IInv'
  OBVIOUS
<1>1. CASE Enter
  BY <1>1, EnterInv
<1>2. ASSUME NEW inst \in Binary \cup Unary \cup Move \cup Const \cup Load, Compute(inst, <<>>)
      PROVE  IInv'
  BY <1>2, BinaryInv, UnaryInv, ConstLoadInv
<1>3. ASSUME NEW inst \in Call, NEW args \in ArgLists, Compute(inst, args) PROVE IInv'
  BY <1>3, CallInv
<1>4. ASSUME NEW inst \in Store, StoreLocal(inst) PROVE IInv'
  BY <1>4, StoreInv
<1>5. ASSUME NEW inst \in Branch, TestCondition(inst) PROVE IInv'
  BY <1>5, BranchInv
<1>6. ASSUME NEW v \in Defined, Return(v) PROVE IInv'
  BY <1>6, ReturnInv
<1>7. CASE UNCHANGED vars
  BY <1>7 DEF vars, IInv
<1> QED BY <1>1, <1>2, <1>3, <1>4, <1>5, <1>6, <1>7 DEF Next

\* What the invariant is for.
LEMMA InvRuns == IInv => RunsAsIR
<1> SUFFICES ASSUME IInv PROVE RunsAsIR
  OBVIOUS
<1>1. ValuesKept
  <2> SUFFICES ASSUME phase = "body"
               PROVE  /\ \A v \in Defined : Content(cpu, alloc.vreg_map[v]) = env[v]
                      /\ \A i \in DOMAIN locals :
                            Loaded(locals[i].width, Read(cpu, At(cpu, get_local_offset(i))))
                                = locals[i].value
    BY DEF ValuesKept
  <2>1. BodyOk(cpu, alloc, env, locals, params, vreg_count) /\ AllocOk(alloc, vreg_count)
    BY DEF IInv
  <2>2. \A v \in Defined : Content(cpu, alloc.vreg_map[v]) = env[v]
    BY <2>1 DEF BodyOk, Holds, Defined
  <2>3. ASSUME NEW i \in DOMAIN locals
        PROVE  Loaded(locals[i].width, Read(cpu, At(cpu, get_local_offset(i)))) = locals[i].value
    <3>1. /\ i \in 0 .. alloc.stack_base - 1 /\ alloc.stack_base \in Nat
          /\ Loaded(locals[i].width, Read(cpu, get_local_offset(i))) = locals[i].value
      BY <2>1 DEF BodyOk, Stores, AllocOk
    <3>2. get_local_offset(i) \in Int
      BY <3>1, LocalSlots
    <3>3. At(cpu, get_local_offset(i)) = get_local_offset(i)
      BY <2>1, <3>2, AtRbp DEF BodyOk, FrameOk
    <3> QED BY <3>1, <3>3
  <2> QED BY <2>2, <2>3
<1>2. BranchesOnCondition
  BY DEF BranchesOnCondition, IInv
<1> QED BY <1>1, <1>2 DEF RunsAsIR

\* The invariant keeps the convention.
LEMMA InvConvention == IInv => ConventionKept
<1> SUFFICES ASSUME IInv PROVE ConventionKept
  OBVIOUS
<1>1. CallsAligned
  BY DEF CallsAligned, IInv, Arriving, BodyOk, FrameOk, Left
<1>2. StackBalanced
  BY DEF StackBalanced, IInv, BodyOk, FrameOk
<1>3. ReturnsClean
  BY DEF ReturnsClean, IInv, Left
<1> QED BY <1>1, <1>2, <1>3 DEF ConventionKept

\* Every virtual register and every local variable keeps its value, and branches
\* test the value the IR names, in every function of straight-line code: any
\* number of parameters, virtual registers, local variables and arguments.
THEOREM CompiledRunsAsIR == Spec => []RunsAsIR
<1>1. Init => IInv
  BY InitInv
<1>2. IInv /\ [Next]_vars => IInv'
  BY NextInv
<1>3. IInv => RunsAsIR
  BY InvRuns
<1> QED BY <1>1, <1>2, <1>3, PTL DEF Spec

\* Every call is made with an aligned stack, every call leaves the stack as it
\* was, and a return leaves rsp, the callee-saved registers and rax as the
\* caller of the function expects them.
THEOREM ConventionAlwaysKept == Spec => []ConventionKept
<1>1. Init => IInv
  BY InitInv
<1>2. IInv /\ [Next]_vars => IInv'
  BY NextInv
<1>3. IInv => ConventionKept
  BY InvConvention
<1> QED BY <1>1, <1>2, <1>3, PTL DEF Spec
===============================================================================
