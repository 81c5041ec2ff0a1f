--------------------------- MODULE RegAlloc_proofs ---------------------------
(***************************************************************************)
(* Proofs about the register allocator, for every number of virtual        *)
(* registers and of local variables.                                       *)
(***************************************************************************)
EXTENDS RegAlloc, TLAPS

Allocs == [vreg_map : [Vregs -> Locations \cup {NoLocation}],
           phys_regs : [Registers -> BOOLEAN],
           stack_base : 0 .. MaxLocals]

\* A register some virtual register lives in is marked busy.
BusyMarked ==
    \A v \in Vregs : InReg(alloc.vreg_map[v]) => alloc.phys_regs[alloc.vreg_map[v].reg]

\* A spilled virtual register of the function lives in the slot of its number.
SpillsNumbered ==
    \A v \in Vregs : OnStack(alloc.vreg_map[v]) =>
        /\ v \in 1 .. vreg_count - 1
        /\ alloc.vreg_map[v].offset = SpillOffset(alloc.stack_base, v)

\* No machine register is handed out twice.
RegsDistinct ==
    \A v, w \in Vregs :
        /\ v # w
        /\ InReg(alloc.vreg_map[v])
        /\ InReg(alloc.vreg_map[w])
        => alloc.vreg_map[v].reg # alloc.vreg_map[w].reg

\* The inductive invariant.
Inv == TypeOK /\ BusyMarked /\ SpillsNumbered /\ RegsDistinct

\* Allocator state b is a after a request for v: nothing else moved, and v had a
\* location, gets a free machine register or gets its own slot.
Locates(a, v, b) ==
    /\ b.stack_base = a.stack_base
    /\ \A w \in Vregs : w # v => b.vreg_map[w] = a.vreg_map[w]
    /\ \A r \in Registers : a.phys_regs[r] => b.phys_regs[r]
    /\ \/ b = a
       \/ /\ a.vreg_map[v] = NoLocation
          /\ InReg(b.vreg_map[v])
          /\ b.vreg_map[v].reg \in Registers
          /\ ~a.phys_regs[b.vreg_map[v].reg]
          /\ b.phys_regs[b.vreg_map[v].reg]
       \/ /\ a.vreg_map[v] = NoLocation
          /\ b.vreg_map[v] = LocStack(SpillOffset(a.stack_base, v))

\* The register the scan of get_location finds is allocatable and was free.
LEMMA FirstFree ==
    ASSUME NEW phys \in [Registers -> BOOLEAN],
           \E r \in AllocatableRegs : ~phys[r]
    PROVE  LET r == CHOOSE q \in Registers : IsFirstFree(phys, q)
           IN  r \in AllocatableRegs /\ ~phys[r]
<1>1. \A r \in Registers : is_allocatable_register(r)
            => r \in {3, 12, 13, 14, 15}
  BY DEF Registers, is_allocatable_register, RBX, R12, R15
<1>2. \E r \in Registers : IsFirstFree(phys, r)
  BY <1>1 DEF IsFirstFree, AllocatableRegs, Registers
<1>3. PICK q \in Registers : q = (CHOOSE r \in Registers : IsFirstFree(phys, r))
                             /\ IsFirstFree(phys, q)
  BY <1>2
<1> QED BY <1>3 DEF IsFirstFree

\* get_location has one of the three outcomes of Locates.
LEMMA GetLocation ==
    ASSUME NEW a \in Allocs, NEW v \in Vregs, NEW b, b = get_location(a, v)
    PROVE  b \in Allocs /\ Locates(a, v, b)
<1>1. CASE a.vreg_map[v] # NoLocation
  BY <1>1 DEF get_location, Locates
<1>2. CASE a.vreg_map[v] = NoLocation /\ \E r \in AllocatableRegs : ~a.phys_regs[r]
  <2> DEFINE r == CHOOSE q \in Registers : IsFirstFree(a.phys_regs, q)
  <2>1. r \in AllocatableRegs /\ ~a.phys_regs[r]
    BY <1>2, FirstFree DEF Allocs
  <2>2. b = [a EXCEPT !.phys_regs[r] = TRUE, !.vreg_map[v] = LocReg(r)]
    BY <1>2 DEF get_location
  <2> HIDE DEF r
  <2>3. r \in Registers
    BY <2>1 DEF AllocatableRegs
  <2>4. LocReg(r) \in Locations /\ InReg(LocReg(r)) /\ LocReg(r).reg = r
    BY <2>1 DEF Locations, LocReg, InReg
  <2>5. /\ b \in Allocs
        /\ b.stack_base = a.stack_base
        /\ b.phys_regs = [a.phys_regs EXCEPT ![r] = TRUE]
        /\ b.vreg_map = [a.vreg_map EXCEPT ![v] = LocReg(r)]
    <3> DEFINE p == [a.phys_regs EXCEPT ![r] = TRUE]
               m == [a.vreg_map EXCEPT ![v] = LocReg(r)]
    <3>1. b = [vreg_map |-> m, phys_regs |-> p, stack_base |-> a.stack_base]
      BY <2>2 DEF Allocs
    <3>2. p \in [Registers -> BOOLEAN] /\ m \in [Vregs -> Locations \cup {NoLocation}]
      BY <2>3, <2>4 DEF Allocs
    <3> HIDE DEF p, m
    <3>3. b \in Allocs
      BY <3>1, <3>2 DEF Allocs
    <3> QED BY <3>1, <3>3 DEF p, m
  <2>6. /\ \A w \in Vregs : w # v => b.vreg_map[w] = a.vreg_map[w]
        /\ b.vreg_map[v] = LocReg(r)
        /\ \A q \in Registers : a.phys_regs[q] => b.phys_regs[q]
        /\ b.phys_regs[r]
    BY <2>3, <2>5 DEF Allocs
  <2> QED BY <1>2, <2>1, <2>3, <2>4, <2>5, <2>6 DEF Locates
<1>3. CASE a.vreg_map[v] = NoLocation /\ ~\E r \in AllocatableRegs : ~a.phys_regs[r]
  <2> DEFINE o == SpillOffset(a.stack_base, v)
  <2>1. b = [a EXCEPT !.vreg_map[v] = LocStack(o)]
    BY <1>3 DEF get_location
  <2>2. o \in Int
    BY MaxLocalsAssumption, MaxVregsAssumption
    DEF SpillOffset, Allocs, Vregs, CALLEE_SAVED_SIZE, CALLEE_SAVED_COUNT, STACK_ALIGNMENT
  <2>3. LocStack(o) \in Locations
    BY <2>2 DEF Locations, LocStack
  <2> HIDE DEF o
  <2>4. /\ b \in Allocs
        /\ b.stack_base = a.stack_base
        /\ b.phys_regs = a.phys_regs
        /\ b.vreg_map[v] = LocStack(o)
        /\ \A w \in Vregs : w # v => b.vreg_map[w] = a.vreg_map[w]
    BY <2>1, <2>3 DEF Allocs
  <2> QED BY <1>3, <2>4 DEF o, Locates
<1> QED BY <1>1, <1>2, <1>3

\* A fresh allocator satisfies the invariant.
LEMMA FreshOK ==
    ASSUME NEW s \in 0 .. MaxLocals
    PROVE  LET a == FreshAlloc(Vregs, s) IN
           /\ a \in Allocs
           /\ \A v \in Vregs : ~InReg(a.vreg_map[v]) /\ ~OnStack(a.vreg_map[v])
BY DEF FreshAlloc, Allocs, InReg, OnStack, NoLocation

\* The initial states satisfy the invariant.
LEMMA InitInv == Init => Inv
BY FreshOK DEF Init, Inv, TypeOK, BusyMarked, SpillsNumbered, RegsDistinct, Allocs

\* reset_state establishes the invariant again.
LEMMA ResetInv ==
    ASSUME NEW s \in 0 .. MaxLocals, NEW c \in 1 .. MaxVregs, ResetState(s, c)
    PROVE  Inv'
<1>1. /\ alloc' \in Allocs
      /\ \A v \in Vregs : ~InReg(alloc'.vreg_map[v]) /\ ~OnStack(alloc'.vreg_map[v])
  BY FreshOK DEF ResetState
<1> QED BY <1>1 DEF ResetState, Inv, TypeOK, BusyMarked, SpillsNumbered, RegsDistinct, Allocs

\* A call of get_location keeps it.
LEMMA RequestInv ==
    ASSUME Inv, NEW v \in 1 .. vreg_count - 1, Request(v)
    PROVE  Inv'
<1>1. v \in Vregs
  BY MaxVregsAssumption DEF Inv, TypeOK, Vregs
<1>2. alloc \in Allocs /\ vreg_count' = vreg_count
  BY DEF Inv, TypeOK, Allocs, Request
<1> DEFINE a == alloc
           b == alloc'
<1>3. b \in Allocs /\ Locates(a, v, b)
  <2>1. b = get_location(a, v)
    BY DEF Request
  <2>2. PICK u : u = b
    OBVIOUS
  <2> QED BY <1>1, <1>2, <2>1, <2>2, GetLocation, ZenonT(30)
<1>4. TypeOK'
  BY <1>2, <1>3 DEF TypeOK, Inv, Allocs
<1>5. ASSUME NEW w \in Vregs, InReg(a.vreg_map[w])
      PROVE  a.vreg_map[w].reg \in Registers
  <2>1. a.vreg_map[w] \in Locations \cup {NoLocation}
    BY <1>2 DEF Allocs
  <2> QED BY <2>1, <1>5 DEF Locations, NoLocation, InReg, AllocatableRegs
<1>6. CASE b = a
  BY <1>6, <1>2, <1>4 DEF Inv, BusyMarked, SpillsNumbered, RegsDistinct
<1>7. CASE /\ InReg(b.vreg_map[v])
           /\ b.vreg_map[v].reg \in Registers
           /\ ~a.phys_regs[b.vreg_map[v].reg]
           /\ b.phys_regs[b.vreg_map[v].reg]
  <2>1. BusyMarked'
    BY <1>3, <1>5, <1>7 DEF BusyMarked, Inv, Locates
  <2>2. ~OnStack(b.vreg_map[v])
    BY <1>7 DEF InReg, OnStack
  <2>3. SpillsNumbered'
    BY <1>2, <1>3, <2>2 DEF SpillsNumbered, Inv, Locates
  <2>4. RegsDistinct'
    BY <1>3, <1>7 DEF RegsDistinct, BusyMarked, Inv, Locates
  <2> QED BY <1>4, <2>1, <2>3, <2>4 DEF Inv
<1>8. CASE b.vreg_map[v] = LocStack(SpillOffset(a.stack_base, v))
  <2>1. ~InReg(b.vreg_map[v]) /\ b.vreg_map[v].offset = SpillOffset(a.stack_base, v)
    BY <1>8 DEF InReg, LocStack
  <2>2. BusyMarked'
    BY <1>3, <1>5, <2>1 DEF BusyMarked, Inv, Locates
  <2>3. SpillsNumbered'
    BY <1>2, <1>3, <2>1 DEF SpillsNumbered, Inv, Locates
  <2>4. RegsDistinct'
    BY <1>3, <2>1 DEF RegsDistinct, Inv, Locates
  <2> QED BY <1>4, <2>2, <2>3, <2>4 DEF Inv
<1> QED BY <1>3, <1>6, <1>7, <1>8 DEF Locates

\* Every step keeps the invariant.
LEMMA NextInv == Inv /\ [Next]_vars => Inv'
<1> SUFFICES ASSUME Inv, [Next]_vars PROVE Inv'
  OBVIOUS
<1>1. CASE UNCHANGED vars
  BY <1>1 DEF vars, Inv, TypeOK, BusyMarked, SpillsNumbered, RegsDistinct
<1>2. ASSUME NEW s \in 0 .. MaxLocals, NEW c \in 1 .. MaxVregs, ResetState(s, c)
      PROVE  Inv'
  BY <1>2, ResetInv
<1>3. ASSUME NEW v \in 1 .. vreg_count - 1, Request(v)
      PROVE  Inv'
  BY <1>3, RequestInv
<1> QED BY <1>1, <1>2, <1>3 DEF Next

\* The inductive invariant holds throughout.
LEMMA Invariance == Spec => []Inv
BY InitInv, NextInv, PTL DEF Spec

-----------------------------------------------------------------------------

\* The type invariant of the allocator holds for every size of a function.
THEOREM Typing == Spec => []TypeOK
<1>1. Inv => TypeOK
  BY DEF Inv
<1> QED BY <1>1, Invariance, PTL

\* Distinct virtual registers never share a register or a byte of the frame.
THEOREM NeverShared == Spec => []NoSharing
<1>1. Inv => NoSharing
  <2> SUFFICES ASSUME Inv, NEW v \in Located, NEW w \in Located, v # w
               PROVE  LET l == alloc.vreg_map[v]
                          m == alloc.vreg_map[w]
                      IN  /\ InReg(l) /\ InReg(m) => l.reg # m.reg
                          /\ OnStack(l) /\ OnStack(m) => Apart(l.offset, m.offset)
    BY DEF NoSharing
  <2>1. v \in Vregs /\ w \in Vregs /\ alloc.stack_base \in 0 .. MaxLocals
    BY DEF Located, Inv, TypeOK
  <2>2. Apart(SpillOffset(alloc.stack_base, v), SpillOffset(alloc.stack_base, w))
    BY <2>1, MaxVregsAssumption, MaxLocalsAssumption
    DEF Apart, SpillOffset, Vregs, CALLEE_SAVED_SIZE, CALLEE_SAVED_COUNT,
        STACK_ALIGNMENT, WORD_SIZE
  <2> QED BY <2>1, <2>2 DEF Inv, RegsDistinct, SpillsNumbered
<1> QED BY <1>1, Invariance, PTL

\* Spilled registers stay clear of locals and of the saved registers.
THEOREM SpillsAlwaysClear == Spec => []SpillsClear
<1>1. Inv => SpillsClear
  <2> SUFFICES ASSUME Inv, NEW v \in Located, OnStack(alloc.vreg_map[v])
               PROVE  LET o == alloc.vreg_map[v].offset IN
                      /\ \A idx \in 0 .. alloc.stack_base - 1 :
                            Apart(o, get_local_offset(idx))
                      /\ o + WORD_SIZE <= -(CALLEE_SAVED_SIZE + WORD_SIZE)
    BY DEF SpillsClear
  <2>1. /\ v \in Nat
        /\ alloc.stack_base \in Nat
        /\ alloc.vreg_map[v].offset = SpillOffset(alloc.stack_base, v)
    BY MaxVregsAssumption, MaxLocalsAssumption
    DEF Located, Inv, TypeOK, SpillsNumbered, Vregs
  <2> QED BY <2>1
          DEF Apart, SpillOffset, get_local_offset, CALLEE_SAVED_SIZE,
              CALLEE_SAVED_COUNT, STACK_ALIGNMENT, WORD_SIZE
<1> QED BY <1>1, Invariance, PTL

\* What the prologue subtracts: the raw size, rounded up to an odd number of
\* words because seven words have been pushed before.
LEMMA StackSize ==
    ASSUME NEW s \in Nat, NEW c \in Nat
    PROVE  calculate_aligned_stack_size(s, c) =
              IF (s + c) % 2 = 1 THEN (s + c) * 8 ELSE (s + c) * 8 + 8
<1>1. PICK k \in Nat : s + c = 2 * k \/ s + c = 2 * k + 1
  BY (s + c) \div 2 \in Nat, 
     s + c = 2 * ((s + c) \div 2) + ((s + c) % 2), (s + c) % 2 \in 0 .. 1
<1>2. CASE s + c = 2 * k
  <2>1. (56 + (s + c) * 8) % 16 = 8 /\ (s + c) % 2 = 0
    BY <1>2
  <2> QED BY <2>1
          DEF calculate_aligned_stack_size, WORD_SIZE, STACK_ALIGNMENT, CALLEE_SAVED_COUNT
<1>3. CASE s + c = 2 * k + 1
  <2>1. (56 + (s + c) * 8) % 16 = 0 /\ (s + c) % 2 = 1
    BY <1>3
  <2> QED BY <2>1
          DEF calculate_aligned_stack_size, WORD_SIZE, STACK_ALIGNMENT, CALLEE_SAVED_COUNT
<1> QED BY <1>1, <1>2, <1>3

\* At most the slot of the last virtual register lies below rsp.
THEOREM BelowRspIsLast == Spec => []OnlyLastSlotBelowRsp
<1>1. Inv => OnlyLastSlotBelowRsp
  <2> SUFFICES ASSUME Inv, NEW v \in Located, OnStack(alloc.vreg_map[v]),
                      alloc.vreg_map[v].offset < BodyRsp(alloc.stack_base, vreg_count)
               PROVE  LET o == alloc.vreg_map[v].offset
                          rsp == BodyRsp(alloc.stack_base, vreg_count)
                      IN  /\ v = vreg_count - 1
                          /\ o = rsp - WORD_SIZE
                          /\ (alloc.stack_base + vreg_count) % 2 = 1
    BY DEF OnlyLastSlotBelowRsp
  <2>1. /\ v \in 1 .. vreg_count - 1
        /\ vreg_count \in Nat
        /\ alloc.stack_base \in Nat
        /\ alloc.vreg_map[v].offset = SpillOffset(alloc.stack_base, v)
    BY MaxVregsAssumption, MaxLocalsAssumption
    DEF Located, Inv, TypeOK, SpillsNumbered
  <2> DEFINE size == calculate_aligned_stack_size(alloc.stack_base, vreg_count)
             n == alloc.stack_base + vreg_count
  <2>2. size = IF n % 2 = 1 THEN n * 8 ELSE n * 8 + 8
    BY <2>1, StackSize
  <2>3. SpillOffset(alloc.stack_base, v) < -(40 + size)
    BY <2>1 DEF BodyRsp, CALLEE_SAVED_SIZE, CALLEE_SAVED_COUNT
  <2>4. SpillOffset(alloc.stack_base, v) = -(48 + (alloc.stack_base + v + 1) * 8)
    BY <2>1 DEF SpillOffset, CALLEE_SAVED_SIZE, CALLEE_SAVED_COUNT, STACK_ALIGNMENT
  <2>5. n % 2 = 1 /\ v = vreg_count - 1
    BY <2>1, <2>2, <2>3, <2>4
  <2> QED BY <2>1, <2>2, <2>4, <2>5
          DEF BodyRsp, CALLEE_SAVED_SIZE, CALLEE_SAVED_COUNT, WORD_SIZE
<1> QED BY <1>1, Invariance, PTL

\* rsp is 16-byte aligned in the body of every function.
THEOREM AlwaysAligned == Spec => []BodyAligned
<1>1. Inv => BodyAligned
  <2> SUFFICES ASSUME Inv PROVE BodyAligned
    OBVIOUS
  <2>1. alloc.stack_base \in Nat /\ vreg_count \in Nat
    BY MaxVregsAssumption, MaxLocalsAssumption DEF Inv, TypeOK
  <2> DEFINE size == calculate_aligned_stack_size(alloc.stack_base, vreg_count)
             n == alloc.stack_base + vreg_count
  <2>2. size = IF n % 2 = 1 THEN n * 8 ELSE n * 8 + 8
    BY <2>1, StackSize
  <2>3. PICK k \in Int : 40 + size = 16 * k
    <3>1. n = 2 * (n \div 2) + (n % 2) /\ n \div 2 \in Nat /\ n % 2 \in {0, 1}
      BY <2>1
    <3>2. 40 + size = 16 * (n \div 2 + 3)
      BY <2>1, <2>2, <3>1
    <3>3. n \div 2 + 3 \in Int
      BY <3>1
    <3> QED BY <3>2, <3>3, ZenonT(20)
  <2>4. -(40 + size) = 16 * (-k)
    BY <2>3
  <2>5. (-(40 + size)) % 16 = 0
    BY <2>3, <2>4
  <2> QED BY <2>5
          DEF BodyAligned, BodyRsp, CALLEE_SAVED_SIZE, CALLEE_SAVED_COUNT, STACK_ALIGNMENT
<1> QED BY <1>1, Invariance, PTL

\* Within a pass no location is ever changed.
THEOREM AlwaysStable == Spec => LocationsStable
<1>1. ASSUME Inv, NEW v \in 1 .. vreg_count - 1, Request(v), NEW w \in Located
      PROVE  alloc'.vreg_map[w] = alloc.vreg_map[w]
  <2>1. v \in Vregs /\ alloc \in Allocs
    BY <1>1, MaxVregsAssumption DEF Inv, TypeOK, Vregs, Allocs
  <2>2. PICK u : u = alloc'
    OBVIOUS
  <2>3. u = get_location(alloc, v)
    BY <1>1, <2>2 DEF Request
  <2>4. Locates(alloc, v, u)
    BY <2>1, <2>3, GetLocation
  <2> QED BY <1>1, <2>2, <2>4 DEF Locates, Located
<1>2. Inv /\ [Next]_vars => [IsReset \/ KeepsLocations]_vars
  BY <1>1 DEF Next, IsReset, KeepsLocations
<1> QED BY <1>2, Invariance, PTL DEF Spec, LocationsStable
==============================================================================
