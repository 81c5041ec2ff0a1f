------------------------------- MODULE RegAlloc -------------------------------
(***************************************************************************)
(* The register allocator of the JIT (get_location in srcs/jit/jit.c) as   *)
(* jit_compile_function drives it: reset_state before each of the two      *)
(* passes over a function, then one request per operand an encoder names.  *)
(***************************************************************************)
EXTENDS Frame

CONSTANTS MaxVregs,       \* MAX_VREGS_PER_FUNCTION
          MaxLocals       \* bound: local variables of one function

ASSUME MaxVregsAssumption == MaxVregs \in Nat \ {0}
ASSUME MaxLocalsAssumption == MaxLocals \in Nat

Vregs == 0 .. MaxVregs - 1

VARIABLES alloc,          \* ctx->vreg_map, ctx->phys_regs, ctx->stack_base
          vreg_count      \* ir_func->vreg_count

vars == <<alloc, vreg_count>>

Init == /\ alloc \in {FreshAlloc(Vregs, s) : s \in 0 .. MaxLocals}
        /\ vreg_count \in 1 .. MaxVregs

\* reset_state at the start of a pass, over a function with these counts.
ResetState(stack_count, count) ==
    /\ alloc' = FreshAlloc(Vregs, stack_count)
    /\ vreg_count' = count

\* An encoder asks for the location of a virtual register.  Number 0 stands
\* for "no register" in the IR and never reaches an encoder.
Request(v) ==
    /\ alloc' = get_location(alloc, v)
    /\ UNCHANGED vreg_count

Next == \/ \E s \in 0 .. MaxLocals, c \in 1 .. MaxVregs : ResetState(s, c)
        \/ \E v \in 1 .. vreg_count - 1 : Request(v)

Spec == Init /\ [][Next]_vars

-----------------------------------------------------------------------------
(* Properties *)

\* The state of the allocator is well formed.
TypeOK ==
    /\ alloc \in [vreg_map : [Vregs -> Locations \cup {NoLocation}],
                  phys_regs : [Registers -> BOOLEAN],
                  stack_base : 0 .. MaxLocals]
    /\ vreg_count \in 1 .. MaxVregs

Located == {v \in Vregs : alloc.vreg_map[v] # NoLocation}

\* Two slots have no byte in common.
Apart(o, p) == o + WORD_SIZE <= p \/ p + WORD_SIZE <= o

\* Two virtual registers never share a machine register or a byte of the
\* frame: the allocator never frees a register, so nothing but the busy flags
\* keeps two live values apart.
NoSharing ==
    \A v, w \in Located : v # w =>
        LET l == alloc.vreg_map[v]
            m == alloc.vreg_map[w]
        IN  /\ InReg(l) /\ InReg(m) => l.reg # m.reg
            /\ OnStack(l) /\ OnStack(m) => Apart(l.offset, m.offset)

\* get_location numbers spill slots after the locals of the function: no spill
\* overlaps a local variable, a saved register or the pad.
SpillsClear ==
    \A v \in Located : OnStack(alloc.vreg_map[v]) =>
        LET o == alloc.vreg_map[v].offset IN
        /\ \A idx \in 0 .. alloc.stack_base - 1 : Apart(o, get_local_offset(idx))
        /\ o + WORD_SIZE <= -(CALLEE_SAVED_SIZE + WORD_SIZE)

\* The frame is one word short when stack_count + vreg_count is odd: the slot
\* of the last virtual register then lies just below rsp, and no other does.
OnlyLastSlotBelowRsp ==
    \A v \in Located : OnStack(alloc.vreg_map[v]) =>
        LET o == alloc.vreg_map[v].offset
            rsp == BodyRsp(alloc.stack_base, vreg_count)
        IN  o < rsp => /\ v = vreg_count - 1
                       /\ o = rsp - WORD_SIZE
                       /\ (alloc.stack_base + vreg_count) % 2 = 1

\* rsp is a multiple of 16 in the body: rbp is, after the return address and
\* the saved rbp have been pushed.
BodyAligned == BodyRsp(alloc.stack_base, vreg_count) % STACK_ALIGNMENT = 0

IsReset == \E s \in 0 .. MaxLocals, c \in 1 .. MaxVregs : ResetState(s, c)

KeepsLocations == \A v \in Located : alloc'.vreg_map[v] = alloc.vreg_map[v]

\* Within a pass a location, once handed out, is never changed: an encoder may
\* keep using what get_location told an earlier one.
LocationsStable == [][IsReset \/ KeepsLocations]_vars
==============================================================================
