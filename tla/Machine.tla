------------------------------- MODULE Machine -------------------------------
(***************************************************************************)
(* The code the encoders emit, executed: an x86-64 machine runs the        *)
(* instructions of one compiled function next to an interpreter of its IR. *)
(*                                                                         *)
(* Values are terms: the result of an operation is the tuple of the        *)
(* operation and its operands, so two values are equal only when the same  *)
(* computation produced them and the comparison holds for all inputs.      *)
(* Memory is addressed in words relative to rbp of the running function.   *)
(* The program is any straight-line sequence ir_gen can emit: operands are *)
(* defined earlier, destinations are the next virtual register, ARGs come  *)
(* right before their CALL.  A callee is its ABI contract.                 *)
(***************************************************************************)
EXTENDS Encoders

CONSTANT Loads            \* the classes of functions considered: records of
                          \*   params, args, locals: the counts of each,
                          \*   opcodes, widths: those that occur,
                          \*   temps: virtual registers that are no parameters,
                          \*   steps: IR instructions, a call with its ARGs as one

ASSUME LoadsAssumption ==
    \A l \in Loads : /\ l.params \subseteq Nat /\ l.args \subseteq Nat /\ l.locals \subseteq Nat
                     /\ l.temps \in Nat

VARIABLES cpu,            \* registers, rsp, memory, flags and what was observed
          alloc,          \* ctx->vreg_map, phys_regs, stack_base of pass 2
          env,            \* the IR value of every virtual register defined so far
          locals,         \* the IR value of every local variable stored so far
          params,         \* func->function.param_count
          vreg_count,     \* ir_func->vreg_count
          phase,          \* "entry", "body" or "returned"
          event,          \* the last jump condition or the returned value of the IR
          steps,          \* IR instructions executed
          load            \* the class of the function at hand

vars == <<cpu, alloc, env, locals, params, vreg_count, phase, event, steps, load>>

Junk == <<"junk">>
Zero == <<"const", 0>>
NoEvent == <<"none">>

\* The System V contract, on which the code under test has no say.
AbiArgs == <<RDI, RSI, RDX, RCX, R8, R9>>
AbiSaved == {RBX, RBP} \cup (R12 .. R15)

EntryRsp == WORD_SIZE     \* the return address lies at rbp + 8

Callers(r) == <<"caller", r>>

\* The value of parameter i, as the caller passed it.
Param(i) == <<"param", i>>

\* What the caller leaves at the entry of a function with n parameters.
EntryRegs(n) ==
    [r \in Registers |->
        IF \E i \in 1 .. 6 : i <= n /\ AbiArgs[i] = r
        THEN Param(CHOOSE i \in 1 .. 6 : AbiArgs[i] = r)
        ELSE Callers(r)]

EntryMem(n) ==
    [a \in {EntryRsp + WORD_SIZE * k : k \in 0 .. (IF n > 6 THEN n - 6 ELSE 0)} |->
        IF a = EntryRsp THEN <<"return address">>
        ELSE Param(6 + (a - EntryRsp) \div WORD_SIZE)]

\* f, with v at x.
With(f, x, v) == [y \in {x} \cup DOMAIN f |-> IF y = x THEN v ELSE f[y]]

\* ---- the machine ----

Read(c, a) == IF a \in DOMAIN c.mem THEN c.mem[a] ELSE Junk
Write(c, a, v) == [c EXCEPT !.mem = With(@, a, v)]

\* The address rbp + disp.
At(c, disp) == c.regs[RBP][2] + disp

SetReg(c, r, v) == [c EXCEPT !.regs[r] = v]
SetRsp(c, v) == [c EXCEPT !.rsp = v]
SetFlags(c, v) == [c EXCEPT !.flags = v]
SetJump(c, v) == [c EXCEPT !.jump = v]

\* The arguments a callee with n parameters finds.
ArgsAt(c, n) == [i \in 1 .. n |->
    IF i <= 6 THEN c.regs[AbiArgs[i]] ELSE Read(c, c.rsp + WORD_SIZE * (i - 7))]

\* A call by the System V contract: the callee preserves rbx, rbp, r12..r15 and
\* the memory at and above rsp; it may overwrite everything else.
CallResult(c) ==
    [c EXCEPT
        !.regs = [r \in Registers |->
                    IF r = RAX THEN <<"result", c.regs[RAX], ArgsAt(c, c.nargs)>>
                    ELSE IF r \in AbiSaved THEN c.regs[r] ELSE Junk],
        !.mem = [a \in {b \in DOMAIN c.mem : b >= c.rsp} |-> c.mem[a]],
        !.aligned = @ /\ c.rsp % STACK_ALIGNMENT = 0]

\* One machine instruction.
Exec(c, ins) ==
    LET d == ins.d
        s == ins.s
    IN
    CASE ins.op = "mov" -> SetReg(c, d, IF s = RSP THEN <<"address", c.rsp>> ELSE c.regs[s])
      [] ins.op = "imm" -> SetReg(c, d, <<"const", s>>)
      [] ins.op = "load" -> SetReg(c, d, Read(c, At(c, s)))
      [] ins.op = "store" -> Write(c, At(c, d), c.regs[s])
      [] ins.op \in {"load1", "load4"} -> SetReg(c, d, <<ins.op, Read(c, At(c, s))>>)
      [] ins.op \in {"store1", "store4"} -> Write(c, At(c, d), <<ins.op, c.regs[s]>>)
      [] ins.op \in AluOps \cup ShiftOps -> SetReg(c, d, <<ins.op, c.regs[d], c.regs[s]>>)
      [] ins.op = "imul" -> SetReg(c, d, <<"MUL", c.regs[d], c.regs[s]>>)
      [] ins.op \in GroupOps -> SetReg(c, d, <<ins.op, c.regs[d]>>)
      [] ins.op = "cqo" -> SetReg(c, d, <<"sign of", c.regs[s]>>)
      [] ins.op = "idiv" ->
            IF c.regs[RDX] = <<"sign of", c.regs[d]>>
            THEN SetReg(SetReg(c, d, <<"DIV", c.regs[d], c.regs[s]>>), RDX, Junk)
            ELSE SetReg(SetReg(c, d, Junk), RDX, Junk)
      [] ins.op = "cmp" -> SetFlags(c, <<c.regs[d], c.regs[s]>>)
      [] ins.op \in {"cmp0", "test"} -> SetFlags(c, <<c.regs[d], Zero>>)
      [] ins.op = "setcc" -> SetReg(c, d, <<"byte", <<s>> \o c.flags>>)
      [] ins.op = "movzx" ->
            SetReg(c, d, IF c.regs[s][1] = "byte" THEN c.regs[s][2] ELSE <<"byte of", c.regs[s]>>)
      [] ins.op = "push" ->
            SetRsp(Write(c, c.rsp - WORD_SIZE, c.regs[d]), c.rsp - WORD_SIZE)
      [] ins.op = "pop" -> SetRsp(SetReg(c, d, Read(c, c.rsp)), c.rsp + WORD_SIZE)
      [] ins.op = "addrsp" -> SetRsp(c, c.rsp + d)
      [] ins.op = "learsp" -> SetRsp(c, At(c, d))
      [] ins.op = "movabs" -> SetReg(c, RAX, <<"code of", d>>)
      [] ins.op = "call" -> CallResult(c)
      [] ins.op \in {"JZ", "JNZ"} -> SetJump(c, <<ins.op, c.flags>>)
      [] ins.op = "ret" -> SetRsp(SetJump(c, Read(c, c.rsp)), c.rsp + WORD_SIZE)

\* The instructions of code, one after the other.
Run(c, code) ==
    LET run[i \in 0 .. Len(code)] == IF i = 0 THEN c ELSE Exec(run[i - 1], code[i])
    IN run[Len(code)]

\* ---- the IR ----

Defined == DOMAIN env

\* Where the IR and the machine keep a value.
Content(c, loc) == IF InReg(loc) THEN c.regs[loc.reg] ELSE Read(c, At(c, loc.offset))

\* The value an instruction with a destination gives it; args are the values of
\* the ARGs before a CALL.
Result(inst, args) ==
    CASE inst.opcode \in AluOps \cup CmpOps \cup ShiftOps \cup {"MUL", "DIV"} ->
            <<inst.opcode, env[inst.src_1], env[inst.src_2]>>
      [] inst.opcode \in GroupOps -> <<inst.opcode, env[inst.src_1]>>
      [] inst.opcode = "NOT" -> <<"EQ", env[inst.src_1], Zero>>
      [] inst.opcode = "MOV" -> env[inst.src_1]
      [] inst.opcode = "CONST" -> <<"const", inst.imm>>
      [] inst.opcode = "LOAD" -> locals[inst.src_1].value
      [] inst.opcode = "CALL" -> <<"result", <<"code of", inst.func>>, args>>

\* What a load of this width reads back from a store of value v.
Narrowed(width, v) ==
    IF width = 1 THEN <<"load1", <<"store1", v>>>>
    ELSE IF width = 4 THEN <<"load4", <<"store4", v>>>>
    ELSE v

NextVreg == Cardinality(Defined) + 1

\* ---- instructions ir_gen may emit next ----

Binary == {[opcode |-> o, dest |-> NextVreg, src_1 |-> v, src_2 |-> w] :
              o \in load.opcodes \cap (AluOps \cup CmpOps \cup ShiftOps \cup {"MUL", "DIV"}),
              v \in Defined, w \in Defined}
Unary == {[opcode |-> o, dest |-> NextVreg, src_1 |-> v] :
              o \in load.opcodes \cap (GroupOps \cup {"NOT"}), v \in Defined}
Move == {[opcode |-> o, dest |-> p, src_1 |-> v] :
              o \in load.opcodes \cap {"MOV"}, p \in 1 .. params, v \in Defined}
Const == {[opcode |-> o, dest |-> NextVreg, imm |-> NextVreg] : o \in load.opcodes \cap {"CONST"}}
\* A load has the width its slot was stored with: the analyzer annotates the
\* identifier with the type of the declaration that gen_var_decl stores by.
\* Lowering checks this of ir_gen, and shows the one exception, operands of >.
Load == {[opcode |-> o, dest |-> NextVreg, src_1 |-> i, width |-> locals[i].width] :
              o \in load.opcodes \cap {"LOAD"}, i \in DOMAIN locals}
Store == {[opcode |-> o, dest |-> i, src_1 |-> v, width |-> w] :
              o \in load.opcodes \cap {"STORE"}, i \in 0 .. alloc.stack_base - 1,
              v \in Defined, w \in load.widths}
Branch == {[opcode |-> o, src_1 |-> v, label |-> 0] :
              o \in load.opcodes \cap {"JZ", "JNZ"}, v \in Defined}
Call == {[opcode |-> o, dest |-> NextVreg, func |-> 1] : o \in load.opcodes \cap {"CALL"}}

\* Argument lists: the virtual registers in cyclic order from some start.
ArgLists == IF Defined = {} THEN {<<>>}
            ELSE {[i \in 1 .. n |-> 1 + ((s + i) % Cardinality(Defined))] :
                    n \in load.args, s \in Defined}

Init ==
    /\ load \in Loads
    /\ params \in load.params
    /\ vreg_count \in {params + 1 + k : k \in 0 .. load.temps}
    /\ \E s \in load.locals : alloc = FreshAlloc(0 .. vreg_count - 1, s)
    /\ cpu = [regs |-> EntryRegs(params), mem |-> EntryMem(params), rsp |-> EntryRsp,
              flags |-> <<Junk, Junk>>, jump |-> NoEvent, nargs |-> 0, aligned |-> TRUE]
    /\ env = <<>>
    /\ locals = <<>>
    /\ phase = "entry"
    /\ event = NoEvent
    /\ steps = 0

\* The prologue runs: stack frame, saved registers, parameters.
Enter ==
    /\ phase = "entry"
    /\ alloc' = Locate(alloc, [i \in 1 .. params |-> i])
    /\ cpu' = Run(cpu, encode_prologue(
                          calculate_aligned_stack_size(alloc.stack_base, vreg_count),
                          [i \in 1 .. params |-> alloc'.vreg_map[i]]))
    /\ env' = [i \in 1 .. params |-> Param(i)]
    /\ phase' = "body"
    /\ UNCHANGED <<locals, params, vreg_count, event, steps, load>>

\* The code of inst is generated and runs; args are the pending virtual registers.
Execute(inst, args) ==
    /\ phase = "body"
    /\ steps < load.steps
    /\ steps' = steps + 1
    /\ alloc' = Locate(alloc, Operands(inst, args))
    /\ cpu' = Run([cpu EXCEPT !.nargs = Len(args)], Code(inst, alloc'.vreg_map, args))
    /\ UNCHANGED <<params, vreg_count, load>>

\* An instruction that defines its destination.
Compute(inst, args) ==
    /\ inst.dest < vreg_count
    /\ Execute(inst, args)
    /\ env' = With(env, inst.dest, Result(inst, [i \in 1 .. Len(args) |-> env[args[i]]]))
    /\ UNCHANGED <<locals, phase, event>>

StoreLocal(inst) ==
    /\ Execute(inst, <<>>)
    /\ locals' = With(locals, inst.dest, [width |-> inst.width,
                                          value |-> Narrowed(inst.width, env[inst.src_1])])
    /\ UNCHANGED <<env, phase, event>>

TestCondition(inst) ==
    /\ Execute(inst, <<>>)
    /\ event' = <<inst.opcode, <<env[inst.src_1], Zero>>>>
    /\ UNCHANGED <<env, locals, phase>>

Return(v) ==
    /\ Execute([opcode |-> "RET", src_1 |-> v], <<>>)
    /\ phase' = "returned"
    /\ event' = <<"RET", env[v]>>
    /\ UNCHANGED <<env, locals>>

Next ==
    \/ Enter
    \/ \E inst \in Binary \cup Unary \cup Move \cup Const \cup Load : Compute(inst, <<>>)
    \/ \E inst \in Call, args \in ArgLists : Compute(inst, args)
    \/ \E inst \in Store : StoreLocal(inst)
    \/ \E inst \in Branch : TestCondition(inst)
    \/ \E v \in Defined : Return(v)

Spec == Init /\ [][Next]_vars

-----------------------------------------------------------------------------
(* Properties *)

\* What a load of this width makes of a word of memory.
Loaded(width, w) ==
    IF width = 1 THEN <<"load1", w>> ELSE IF width = 4 THEN <<"load4", w>> ELSE w

\* Every virtual register and every local variable keeps its value until it is
\* overwritten: no scratch register, push, spill or call destroys one that a
\* later instruction may read, the slot below rsp included.  The arguments a
\* callee finds are part of the value of its result.
ValuesKept ==
    phase = "body" =>
        /\ \A v \in Defined : Content(cpu, alloc.vreg_map[v]) = env[v]
        /\ \A i \in DOMAIN locals :
              Loaded(locals[i].width, Read(cpu, At(cpu, get_local_offset(i))))
                = locals[i].value

\* rsp is a multiple of 16 at every call, whatever the number of arguments.
CallsAligned == cpu.aligned

\* Pushes and pops of a call balance: between IR instructions rsp is where the
\* prologue put it.
StackBalanced == phase = "body" => cpu.rsp = BodyRsp(alloc.stack_base, vreg_count)

\* A conditional jump tests the value its IR instruction names, against zero.
BranchesOnCondition ==
    phase = "body" /\ event # NoEvent => cpu.jump = event

\* A function returns to its caller, with the value of its RET in rax and with
\* rsp and every callee-saved register as they were at the entry.
ReturnsClean ==
    phase = "returned" =>
        /\ cpu.jump = <<"return address">>
        /\ <<"RET", cpu.regs[RAX]>> = event
        /\ cpu.rsp = EntryRsp + WORD_SIZE
        /\ \A r \in AbiSaved : cpu.regs[r] = Callers(r)

\* The code computes what the IR says: values survive and branches are taken
\* on them.
RunsAsIR == ValuesKept /\ BranchesOnCondition

\* The calling convention is kept towards callees (alignment, and the stack as
\* it was after each call) and towards the caller.
ConventionKept == CallsAligned /\ StackBalanced /\ ReturnsClean
==============================================================================
