--------------------------------- MODULE Jit ---------------------------------
(***************************************************************************)
(* Code generation (srcs/jit/jit.c, the jump, label and call encoders of   *)
(* srcs/jit/encoders.c).                                                   *)
(*                                                                         *)
(* jit_compile_pass compiles the functions one after the other.  Each is   *)
(* encoded twice: a pass without a buffer adds up the size, a pass into a  *)
(* buffer of that size writes the code, records call sites and resolves    *)
(* jumps; the two must agree to the byte.  jit_link_all then writes the    *)
(* address of every callee.                                                *)
(*                                                                         *)
(* The IR of a function is chosen while pass 1 walks over it: any sequence *)
(* with fresh destinations in which a label is placed once and the targets *)
(* of jumps are placed, before or after the jump.  Code memory is the map  *)
(* from the addresses of jump displacements and call immediates to their   *)
(* contents; other bytes never change once written.                        *)
(***************************************************************************)
EXTENDS Encoders

CONSTANTS Loads,            \* the classes of programs considered: records of
                            \*   program: the names of the functions, in order,
                            \*   callees: the names they may call,
                            \*   params, locals: the counts of each,
                            \*   opcodes: those that occur,
                            \*   labels: the labels of a function, 0 .. n - 1,
                            \*   temps: virtual registers that are no parameters,
                            \*   insts: IR instructions of one function
          MAX_LABELS,
          MAX_CALL_SITES,
          MAX_FUNCTION_COUNT

ASSUME LoadsAssumption ==
    \A l \in Loads : /\ l.program \in Seq(STRING)
                     /\ l.params \subseteq Nat
                     /\ IsFiniteSet(l.labels)
                     /\ l.labels = 0 .. Cardinality(l.labels) - 1
ASSUME LimitsAssumption == /\ MAX_LABELS \in Nat
                           /\ MAX_CALL_SITES \in Nat
                           /\ MAX_FUNCTION_COUNT \in Nat

VARIABLES load,             \* the class of the program at hand
          ctx,              \* JITContext: alloc, pending, patches, labels
          call_sites,       \* ctx->call_sites
          registry,         \* ctx->registry
          func,             \* the IRFunction at hand: params, stack_count, ...
          ir,               \* its instructions
          size,             \* bytes counted (pass 1) or written (pass 2)
          predicted_size,
          base,             \* result.code
          pos,              \* the next instruction of pass 2
          used,             \* bytes of the exec arena in use
          memory,           \* displacements and immediates in the code
          phase,
          site,             \* the next call site to link
          success,          \* the result of jit_link_all
          trace,            \* history: pass 1 before each instruction
          jumps, calls      \* history: the jumps and calls of compiled code

encoding == <<load, ctx, ir, size, predicted_size, base, pos, func, trace>>
linking == <<site, success>>
history == <<jumps, calls>>
vars == <<encoding, call_sites, registry, used, memory, phase, linking, history>>

Placeholder == -1           \* 0xDEADBEEFDEADBEEF
NULL == 0

Vregs(f) == 0 .. f.vreg_count - 1

\* Wrong: the registers of the last pass stay busy.
reset_state_KeepsBusy(c, f) ==
    [c EXCEPT !.pending = <<>>,
              !.patches = {},
              !.labels = <<>>,
              !.alloc = [FreshAlloc(Vregs(f), f.stack_count) EXCEPT !.phys_regs = c.alloc.phys_regs]]

\* Wrong: the labels of the last function stay known.
reset_state_KeepsLabels(c, f) ==
    [c EXCEPT !.pending = <<>>,
              !.patches = {},
              !.alloc = FreshAlloc(Vregs(f), f.stack_count)]

\* reset_state: everything a pass accumulates, never what the link needs.
reset_state(c, f) ==
    [c EXCEPT !.pending = <<>>,
              !.patches = {},
              !.labels = <<>>,
              !.alloc = FreshAlloc(Vregs(f), f.stack_count)]

\* encode_prologue and encode_inst: the context and the size after them.
Prologue(c, f) ==
    LET alloc == Locate(c.alloc, [i \in 1 .. f.params |-> i])
        code == encode_prologue(calculate_aligned_stack_size(f.stack_count, f.vreg_count),
                                [i \in 1 .. f.params |-> alloc.vreg_map[i]])
    IN  [alloc |-> alloc, pending |-> c.pending, size |-> Size(code)]

Located(c, inst) == Locate(c.alloc, Operands(inst, c.pending))

InstCode(c, inst) == Code(inst, Located(c, inst).vreg_map, c.pending)

Encode(c, n, inst) ==
    [alloc |-> Located(c, inst),
     pending |-> PendingAfter(inst, c.pending),
     size |-> n + Size(InstCode(c, inst))]

Encoded(c, e) == [c EXCEPT !.alloc = e.alloc, !.pending = e.pending]

Init ==
    /\ load \in Loads
    /\ ctx = [pending |-> <<>>, patches |-> {}, labels |-> <<>>, alloc |-> FreshAlloc({0}, 0)]
    /\ call_sites = <<>>
    /\ registry = <<>>
    /\ func = [name |-> "", params |-> 0, stack_count |-> 0, vreg_count |-> 1,
               label_count |-> 0]
    /\ ir = <<>>
    /\ size = 0
    /\ predicted_size = 0
    /\ base = NULL
    /\ pos = 1
    /\ used = STACK_ALIGNMENT      \* past the header of the arena block
    /\ memory = <<>>
    /\ phase = "idle"
    /\ site = 1
    /\ success = TRUE
    /\ trace = <<>>
    /\ jumps = {}
    /\ calls = {}

\* ---- the IR of the function at hand ----

NextVreg == func.params + 1 +
    Cardinality({k \in 1 .. Len(ir) : ir[k].opcode \in {"CONST", "ADD", "CALL"}})

Defined == 1 .. NextVreg - 1

Placed(l) == \E k \in 1 .. Len(ir) : ir[k].opcode = "LABEL" /\ ir[k].label = l

Targets == {ir[k].label : k \in {j \in 1 .. Len(ir) : ir[j].opcode \in Jumps}}

InArgs == ctx.pending # <<>>

\* The opcodes of S that may come next: between ARGs and CALL nothing else may, and
\* there are no more destinations than virtual registers.
WithDest(S) == IF NextVreg < func.vreg_count THEN load.opcodes \cap S ELSE {}
NotInArgs(S) == IF InArgs THEN {} ELSE load.opcodes \cap S

\* The instructions that may come next.
Candidates ==
    {[opcode |-> o, dest |-> NextVreg, imm |-> 1] :
        o \in WithDest({"CONST"}) \cap NotInArgs({"CONST"})}
    \cup {[opcode |-> o, dest |-> NextVreg, src_1 |-> v, src_2 |-> w] :
        o \in WithDest({"ADD"}) \cap NotInArgs({"ADD"}), v \in Defined, w \in Defined}
    \cup {[opcode |-> o, src_1 |-> v] : o \in WithDest({"ARG"}), v \in Defined}
    \cup {[opcode |-> o, dest |-> NextVreg, func |-> f] : o \in WithDest({"CALL"}), f \in load.callees}
    \cup {[opcode |-> o, src_1 |-> v] : o \in NotInArgs({"RET"}), v \in Defined}
    \cup {[opcode |-> o, label |-> l] : o \in NotInArgs({"JMP"}), l \in load.labels}
    \cup {[opcode |-> o, src_1 |-> v, label |-> l] :
        o \in NotInArgs({"JZ"}), v \in Defined, l \in load.labels}
    \cup {[opcode |-> o, label |-> l] :
        o \in NotInArgs({"LABEL"}), l \in {m \in load.labels : ~Placed(m)}}

\* ---- jit_compile_function ----

\* reset_state, the label limit, and the prologue of pass 1.
StartFunction(f) ==
    LET c == reset_state(ctx, f)
        p == Prologue(c, f)
    IN
    /\ phase = "idle"
    /\ Len(registry) < Len(load.program)
    /\ f.name = load.program[Len(registry) + 1]
    /\ func' = f
    /\ ir' = <<>>
    /\ IF f.label_count >= MAX_LABELS
       THEN /\ phase' = "failed"
            /\ ctx' = c
            /\ UNCHANGED <<size, trace>>
       ELSE /\ phase' = "pass1"
            /\ ctx' = Encoded(c, p)
            /\ size' = p.size
            /\ trace' = <<p>>
    /\ UNCHANGED <<load, predicted_size, base, pos, call_sites, registry, used, memory, linking, history>>

\* Pass 1: encode_inst without a buffer.
SizeInst(inst) ==
    LET e == Encode(ctx, size, inst) IN
    /\ phase = "pass1"
    /\ Len(ir) < load.insts
    /\ ir' = Append(ir, inst)
    /\ ctx' = Encoded(ctx, e)
    /\ size' = e.size
    /\ trace' = Append(trace, e)
    /\ UNCHANGED <<load, predicted_size, base, pos, func, call_sites, registry, used, memory,
                   phase, linking, history>>

AlignForward(a) == ((a + STACK_ALIGNMENT - 1) \div STACK_ALIGNMENT) * STACK_ALIGNMENT

\* The end of pass 1: the buffer is allocated, pass 2 starts with its prologue.
Allocate ==
    LET c == reset_state(ctx, func)
        p == Prologue(c, func)
    IN
    /\ phase = "pass1"
    /\ ~InArgs
    /\ \A l \in Targets : Placed(l)
    /\ predicted_size' = size
    /\ base' = AlignForward(used)
    /\ used' = base' + size
    /\ ctx' = Encoded(c, p)
    /\ size' = p.size
    /\ pos' = 1
    /\ phase' = "pass2"
    /\ UNCHANGED <<load, ir, func, trace, call_sites, registry, memory, linking, history>>

\* A failed allocation is reported and then ignored: pass 2 sees no buffer for
\* the prologue, but takes NULL plus its size for one.  Only a function without
\* instructions survives, to be registered at NULL.
AllocateFails ==
    /\ phase = "pass1"
    /\ ~InArgs
    /\ \A l \in Targets : Placed(l)
    /\ IF ir = <<>>
       THEN /\ phase' = "failed"
            /\ registry' = IF Len(registry) < MAX_FUNCTION_COUNT
                           THEN Append(registry, [name |-> func.name, code_addr |-> NULL,
                                             code_size |-> size])
                           ELSE registry
       ELSE phase' = "crashed" /\ UNCHANGED registry
    /\ UNCHANGED <<encoding, call_sites, used, memory, linking, history>>

\* The map m after v was written at a.
Written(m, a, v) == [x \in DOMAIN m \cup {a} |-> IF x = a THEN v ELSE m[x]]

\* emit_jump with a buffer: a known label gives the displacement, an unknown one
\* a patch.  The patches of the code are a list whose order makes no difference:
\* a label takes out all of its own.
EmitJump(c, l, loc) ==
    IF l < MAX_LABELS /\ l \in DOMAIN c.labels
    THEN [ctx |-> c, rel |-> c.labels[l] - (loc + 4)]
    ELSE [ctx |-> [c EXCEPT !.patches = @ \cup {[label |-> l, loc |-> loc]}], rel |-> 0]

\* patch_jump_offset.
Displacement(loc, target) == target - (loc + 4)

\* encode_label with a buffer: the label is defined, its patches are applied and
\* unlinked.
PatchesOf(c, l) == {p \in c.patches : p.label = l}

DefineLabel(c, l, here) ==
    [c EXCEPT !.labels = Written(@, l, here),
              !.patches = @ \ PatchesOf(c, l)]

ApplyPatches(m, c, l, here) ==
    LET locs == {p.loc : p \in PatchesOf(c, l)}
    IN  [a \in DOMAIN m \cup locs |-> IF a \in locs THEN Displacement(a, here) ELSE m[a]]

\* Wrong: the address of the opcode of the MOV.
ImmediateAt_Opcode(code) ==
    LET k == CHOOSE i \in DOMAIN code : code[i].op = "movabs"
    IN  Sizes(code)[k - 1]

\* The offset of the 8 bytes of the callee's address in the code of a CALL.
ImmediateAt(code) ==
    LET k == CHOOSE i \in DOMAIN code : code[i].op = "movabs"
    IN  Sizes(code)[k - 1] + 2

\* Wrong: every call site is written to the first entry of the table.
RecordCallSite_Overwrites(loc, f) ==
    call_sites' = <<[patch_location |-> loc, target_name |-> f]>>

\* encode_call: the call site is recorded while there is room.
RecordCallSite(loc, f) ==
    call_sites' = IF Len(call_sites) < MAX_CALL_SITES
                  THEN Append(call_sites, [patch_location |-> loc, target_name |-> f])
                  ELSE call_sites

\* The four bytes of displacement end the code of a jump.
DisplacementAt(end) == base + end - 4

\* Wrong: a buffer that is just full counts as overrun.
Overrun_OffByOne(n) == n >= predicted_size

\* More was written than pass 1 counted.
Overrun(n) == n > predicted_size

\* Pass 2: encode_inst into the buffer.
EmitInst ==
    LET inst == ir[pos]
        e == Encode(ctx, size, inst)
        c == Encoded(ctx, e)
        here == base + size
        loc == DisplacementAt(e.size)
        imm == here + ImmediateAt(InstCode(ctx, inst))
    IN
    /\ phase = "pass2"
    /\ pos <= Len(ir)
    /\ size' = e.size
    /\ pos' = pos + 1
    /\ phase' = IF Overrun(e.size) THEN "aborted" ELSE phase
    /\ \/ /\ inst.opcode \in Jumps
          /\ LET j == EmitJump(c, inst.label, loc) IN
             ctx' = j.ctx /\ memory' = Written(memory, loc, j.rel)
          /\ UNCHANGED call_sites
       \/ /\ inst.opcode = "LABEL"
          /\ IF inst.label >= MAX_LABELS THEN ctx' = c /\ UNCHANGED memory
             ELSE /\ ctx' = DefineLabel(c, inst.label, here)
                  /\ memory' = ApplyPatches(memory, c, inst.label, here)
          /\ UNCHANGED call_sites
       \/ /\ inst.opcode = "CALL"
          /\ ctx' = c
          /\ memory' = Written(memory, imm, Placeholder)
          /\ RecordCallSite(imm, inst.func)
       \/ /\ inst.opcode \notin Jumps \cup {"LABEL", "CALL"}
          /\ ctx' = c
          /\ UNCHANGED <<memory, call_sites>>
    /\ UNCHANGED <<load, ir, predicted_size, base, func, trace, registry, used, linking, history>>

\* Where the IR says the jumps of the function go: pass 1 knows the offset at
\* which every instruction starts.
JumpsOf ==
    {[loc |-> base + trace[k + 1].size - 4,
      target |-> base + trace[CHOOSE j \in 1 .. Len(ir) :
                                ir[j].opcode = "LABEL" /\ ir[j].label = ir[k].label].size] :
        k \in {j \in 1 .. Len(ir) : ir[j].opcode \in Jumps}}

\* Where the addresses of the callees are: the last 8 bytes of each MOV.
CallsOf ==
    {LET code == InstCode(trace[k], ir[k])
         n == CHOOSE i \in DOMAIN code : code[i].op = "movabs"
     IN  [loc |-> base + trace[k].size + Sizes(code)[n] - 8, func |-> ir[k].func] :
        k \in {j \in 1 .. Len(ir) : ir[j].opcode = "CALL"}}

\* The sizes are compared and the function is registered.
FinishFunction ==
    /\ phase = "pass2"
    /\ pos > Len(ir)
    /\ IF size # predicted_size
       THEN phase' = "aborted" /\ UNCHANGED <<registry, history>>
       ELSE IF Len(registry) >= MAX_FUNCTION_COUNT
       THEN phase' = "failed" /\ UNCHANGED <<registry, history>>
       ELSE /\ phase' = "idle"
            /\ registry' = Append(registry, [name |-> func.name, code_addr |-> base,
                                           code_size |-> size])
            /\ jumps' = jumps \cup JumpsOf
            /\ calls' = calls \cup CallsOf
    /\ UNCHANGED <<encoding, call_sites, used, memory, linking>>

\* ---- jit_link_all ----

StartLink ==
    /\ phase = "idle"
    /\ Len(registry) = Len(load.program)
    /\ phase' = "linking"
    /\ UNCHANGED <<encoding, call_sites, registry, used, memory, linking, history>>

\* The first entry of the registry with that name.
IsTarget(j, name) ==
    /\ registry[j].name = name
    /\ \A i \in 1 .. j - 1 : registry[i].name # name

LinkSite ==
    LET s == call_sites[site] IN
    /\ phase = "linking"
    /\ site <= Len(call_sites)
    /\ \/ \E j \in DOMAIN registry :
             /\ IsTarget(j, s.target_name)
             /\ memory' = Written(memory, s.patch_location, registry[j].code_addr)
             /\ UNCHANGED success
       \/ /\ \A j \in DOMAIN registry : registry[j].name # s.target_name
          /\ success' = FALSE
          /\ UNCHANGED memory
    /\ site' = site + 1
    /\ UNCHANGED <<encoding, call_sites, registry, used, phase, history>>

FinishLink ==
    /\ phase = "linking"
    /\ site > Len(call_sites)
    /\ phase' = IF success THEN "linked" ELSE "failed"
    /\ UNCHANGED <<encoding, call_sites, registry, used, memory, linking, history>>

Functions == [name : Range(load.program), params : load.params, stack_count : load.locals,
              vreg_count : {p + 1 + k : p \in load.params, k \in 0 .. load.temps},
              label_count : {Cardinality(load.labels), MAX_LABELS}]

Next ==
    \/ \E f \in Functions : f.vreg_count \in f.params + 1 .. f.params + 1 + load.temps
                            /\ StartFunction(f)
    \/ \E inst \in Candidates : SizeInst(inst)
    \/ Allocate
    \/ AllocateFails
    \/ EmitInst
    \/ FinishFunction
    \/ StartLink
    \/ LinkSite
    \/ FinishLink

Spec == Init /\ [][Next]_vars

-----------------------------------------------------------------------------
(* Properties *)

Phases == {"idle", "pass1", "pass2", "linking", "linked", "failed", "crashed", "aborted"}

\* At every instruction of pass 2 the allocator, the pending arguments and the
\* bytes written are what pass 1 had there: nothing the first pass leaves in
\* the context reaches the second.
PassesAgree ==
    phase = "pass2" =>
        /\ trace[pos] = [alloc |-> ctx.alloc, pending |-> ctx.pending, size |-> size]
        /\ predicted_size = trace[Len(ir) + 1].size

\* Neither "buffer overrun" nor "size mismatch", the two calls of abort() in
\* jit_compile_function, is ever reached.
NeverAborts == phase # "aborted"

\* Every jump of a compiled function lands on the first byte after its label,
\* forward or backward, whatever other labels and functions came in between.
JumpsLand == \A j \in jumps :
    j.loc \in DOMAIN memory /\ memory[j.loc] = Displacement(j.loc, j.target)

\* Patching and linking write only to jump displacements and call immediates of
\* compiled code, never into another instruction.
OnlyFieldsPatched ==
    phase \in {"idle", "linking", "linked"} =>
        DOMAIN memory = {j.loc : j \in jumps} \cup {c.loc : c \in calls}

\* When the link succeeds every call in the code holds the address of the
\* function it names.  A placeholder is left only in a call that MAX_CALL_SITES
\* others precede: encode_call drops such a call site without a word.
CallsResolved ==
    phase = "linked" =>
        \A c \in calls :
            \/ /\ c.loc \in DOMAIN memory
               /\ \E j \in DOMAIN registry :
                    registry[j].name = c.func /\ memory[c.loc] = registry[j].code_addr
            \/ Cardinality({d \in calls : d.loc < c.loc}) >= MAX_CALL_SITES

\* Every field of the finished code that was left open holds its target, and
\* nothing but these fields was written a second time.
LinkedExactly == JumpsLand /\ OnlyFieldsPatched /\ CallsResolved
==============================================================================
