-------------------------------- MODULE Frame --------------------------------
(***************************************************************************)
(* The stack frame of a compiled function and the places a virtual         *)
(* register can live in (srcs/jit/jit.c, srcs/jit/encoders.c).             *)
(*                                                                         *)
(*      rbp + 16 ..   arguments 7, 8, ... of the caller                    *)
(*      rbp +  8      return address                                       *)
(*      rbp           saved rbp                                            *)
(*      rbp - 40 ..   rbx, r12, r13, r14, r15                              *)
(*      rbp - 48      pad                                                  *)
(*      below         stack_count locals, then one slot per virtual        *)
(*                    register                                             *)
(*                                                                         *)
(* An offset is relative to rbp; a slot at offset o occupies the bytes     *)
(* o .. o + WORD_SIZE - 1.                                                 *)
(***************************************************************************)
EXTENDS Integers

WORD_SIZE == 8
STACK_ALIGNMENT == 16
CALLEE_SAVED_COUNT == 5
CALLEE_SAVED_SIZE == CALLEE_SAVED_COUNT * 8
SYS_V_MAX_REG_ARGS == 6

RAX == 0
RCX == 1
RDX == 2
RBX == 3
RSP == 4
RBP == 5
RSI == 6
RDI == 7
R8 == 8
R9 == 9
R12 == 12
R13 == 13
R14 == 14
R15 == 15

Registers == 0 .. 15

\* The first six entries of arg_registers: the others are never read.
arg_registers == <<RDI, RSI, RDX, RCX, R8, R9>>

\* The order in which the prologue pushes them.
CalleeSaved == <<RBX, R12, R13, R14, R15>>

is_allocatable_register(r) == r = RBX \/ r \in R12 .. R15

AllocatableRegs == {r \in Registers : is_allocatable_register(r)}

\* The offset of local variable idx.
get_local_offset(idx) == -(CALLEE_SAVED_SIZE + WORD_SIZE + (idx + 1) * WORD_SIZE)

\* Wrong: spill slots start where the locals start.
SpillOffset_OverLocals(stack_base, v) ==
    -(CALLEE_SAVED_SIZE + STACK_ALIGNMENT \div 2 + (v + 1) * (STACK_ALIGNMENT \div 2))

\* The offset of virtual register v when it does not get a machine register.
SpillOffset(stack_base, v) ==
    -(CALLEE_SAVED_SIZE + STACK_ALIGNMENT \div 2
        + (stack_base + v + 1) * (STACK_ALIGNMENT \div 2))

\* Wrong: room for the locals only, not for the spills.
calculate_aligned_stack_size_NoSpills(stack_count, vreg_count) ==
    LET raw_locals_size == stack_count * WORD_SIZE
        bytes_pushed == WORD_SIZE * 2 + CALLEE_SAVED_COUNT * WORD_SIZE
        remainder == (bytes_pushed + raw_locals_size) % STACK_ALIGNMENT
    IN  raw_locals_size + (IF remainder = 0 THEN 0 ELSE STACK_ALIGNMENT - remainder)

\* Wrong: rounds up without the seven words pushed before.
calculate_aligned_stack_size_NoPushes(stack_count, vreg_count) ==
    LET raw_locals_size == (stack_count + vreg_count) * WORD_SIZE
        remainder == raw_locals_size % STACK_ALIGNMENT
    IN  raw_locals_size + (IF remainder = 0 THEN 0 ELSE STACK_ALIGNMENT - remainder)

\* What the prologue subtracts from rsp after its six pushes.
calculate_aligned_stack_size(stack_count, vreg_count) ==
    LET raw_locals_size == (stack_count + vreg_count) * WORD_SIZE
        bytes_pushed == WORD_SIZE * 2 + CALLEE_SAVED_COUNT * WORD_SIZE
        remainder == (bytes_pushed + raw_locals_size) % STACK_ALIGNMENT
    IN  raw_locals_size + (IF remainder = 0 THEN 0 ELSE STACK_ALIGNMENT - remainder)

\* rsp, relative to rbp, in the body of the function.
BodyRsp(stack_count, vreg_count) ==
    -(CALLEE_SAVED_SIZE + calculate_aligned_stack_size(stack_count, vreg_count))

NoLocation == [type |-> "LOC_NONE"]
LocReg(r) == [type |-> "LOC_REG", reg |-> r]
LocStack(o) == [type |-> "LOC_STACK", offset |-> o]

InReg(loc) == loc.type = "LOC_REG"
OnStack(loc) == loc.type = "LOC_STACK"

\* Location structs an allocator can hand out.
Locations == [type : {"LOC_REG"}, reg : AllocatableRegs]
                \cup [type : {"LOC_STACK"}, offset : Int]

\* Wrong: takes registers the encoders use as scratch, too.
IsFirstFree_Any(phys_regs, r) ==
    ~phys_regs[r] /\ \A q \in Registers : q < r => phys_regs[q]

\* The scan of get_location takes the free register with the least number.
IsFirstFree(phys_regs, r) ==
    /\ r \in AllocatableRegs
    /\ ~phys_regs[r]
    /\ \A q \in AllocatableRegs : q < r => phys_regs[q]

\* Wrong: the register is not marked busy.
get_location_NotMarked(alloc, v) ==
    IF alloc.vreg_map[v] # NoLocation THEN alloc
    ELSE IF \E r \in AllocatableRegs : ~alloc.phys_regs[r]
    THEN [alloc EXCEPT !.vreg_map[v] =
            LocReg(CHOOSE q \in Registers : IsFirstFree(alloc.phys_regs, q))]
    ELSE [alloc EXCEPT !.vreg_map[v] = LocStack(SpillOffset(alloc.stack_base, v))]

\* Wrong: a register that has a location gets another one.
get_location_Again(alloc, v) ==
    IF \E r \in AllocatableRegs : ~alloc.phys_regs[r]
    THEN LET r == CHOOSE q \in Registers : IsFirstFree(alloc.phys_regs, q)
         IN  [alloc EXCEPT !.phys_regs[r] = TRUE, !.vreg_map[v] = LocReg(r)]
    ELSE [alloc EXCEPT !.vreg_map[v] = LocStack(SpillOffset(alloc.stack_base, v))]

\* get_location, as the allocator state it leaves: [vreg_map, phys_regs,
\* stack_base].  The location it returns is the entry of v in the new map.
get_location(alloc, v) ==
    IF alloc.vreg_map[v] # NoLocation THEN alloc
    ELSE IF \E r \in AllocatableRegs : ~alloc.phys_regs[r]
    THEN LET r == CHOOSE q \in Registers : IsFirstFree(alloc.phys_regs, q)
         IN  [alloc EXCEPT !.phys_regs[r] = TRUE, !.vreg_map[v] = LocReg(r)]
    ELSE [alloc EXCEPT !.vreg_map[v] = LocStack(SpillOffset(alloc.stack_base, v))]

\* What reset_state leaves of the allocator.
FreshAlloc(vregs, stack_base) ==
    [vreg_map |-> [v \in vregs |-> NoLocation],
     phys_regs |-> [r \in Registers |-> FALSE],
     stack_base |-> stack_base]
==============================================================================
