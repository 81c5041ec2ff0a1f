------------------------------- MODULE Encoders -------------------------------
(***************************************************************************)
(* The instruction encoders of the JIT (srcs/jit/encoders.c, helpers.c,    *)
(* emit.c): which machine instructions an IR instruction becomes, given    *)
(* where its virtual registers live.                                       *)
(*                                                                         *)
(* A machine instruction is its mnemonic, its operands and its length in   *)
(* bytes; the bytes themselves are abstracted.  An IR instruction is a     *)
(* record with the fields its format uses (incs/ir_ops.def).               *)
(***************************************************************************)
EXTENDS Frame, SequencesExt

\* Encoder classes of the opcodes, as the dispatch table assigns them.
ArithOps == {"ADD", "SUB"}
LogicOps == {"BAND", "BOR", "BXOR"}
AluOps == ArithOps \cup LogicOps
CmpOps == {"EQ", "NEQ", "LT", "LE", "GT", "GE"}
ShiftOps == {"LSHIFT", "RSHIFT", "URSHIFT"}
GroupOps == {"NEG", "BNOT"}
Jumps == {"JMP", "JZ", "JNZ"}

Ins(op, size, d, s) == [op |-> op, size |-> size, d |-> d, s |-> s]

Extended(r) == r >= 8

\* ---- emit.c ----

emit_mov_reg_reg(d, s) == <<Ins("mov", 3, d, s)>>
emit_load_param(d, disp) == <<Ins("load", 7, d, disp)>>
emit_store_local(s, disp) == <<Ins("store", 7, disp, s)>>
emit_mov_imm(d, imm) == <<Ins("imm", 10, d, imm)>>
emit_alu(op, d, s) == <<Ins(op, 3, d, s)>>
emit_imul_r64(d, s) == <<Ins("imul", 4, d, s)>>
emit_cmp(d, s) == <<Ins("cmp", 3, d, s)>>
emit_test(d, s) == <<Ins("test", 3, d, s)>>
emit_cmp_zero(d) == <<Ins("cmp0", 4, d, 0)>>
emit_setcc(cc, d) == <<Ins("setcc", IF d < 4 THEN 3 ELSE 4, d, cc)>>
emit_movzx(d, s) == <<Ins("movzx", 4, d, s)>>
emit_push(r) == <<Ins("push", IF Extended(r) THEN 2 ELSE 1, r, 0)>>
emit_pop(r) == <<Ins("pop", IF Extended(r) THEN 2 ELSE 1, r, 0)>>
emit_add_rsp(n) == <<Ins("addrsp", 7, n, 0)>>

\* Loads of one and four bytes sign-extend, every other width loads a word.
emit_load_signext(d, disp, width) ==
    IF width = 1 THEN <<Ins("load1", 8, d, disp)>>
    ELSE IF width = 4 THEN <<Ins("load4", 7, d, disp)>>
    ELSE emit_load_param(d, disp)

emit_store_sized(s, disp, width) ==
    IF width = 1 THEN <<Ins("store1", 7, disp, s)>>
    ELSE IF width = 4 THEN <<Ins("store4", IF Extended(s) THEN 7 ELSE 6, disp, s)>>
    ELSE emit_store_local(s, disp)

\* ---- helpers.c ----

load_location_to_reg(d, loc) ==
    IF OnStack(loc) THEN emit_load_param(d, loc.offset)
    ELSE IF loc.reg = d THEN <<>>
    ELSE emit_mov_reg_reg(d, loc.reg)

store_reg_to_location(loc, s) ==
    IF OnStack(loc) THEN emit_store_local(s, loc.offset)
    ELSE IF loc.reg = s THEN <<>>
    ELSE emit_mov_reg_reg(loc.reg, s)

\* The register that holds the right operand: its own, or tmp after a load.
RightReg(tmp, right) == IF InReg(right) THEN right.reg ELSE tmp

load_binary_operands(tmp, left, right) ==
    load_location_to_reg(RAX, left)
        \o (IF InReg(right) THEN <<>> ELSE load_location_to_reg(tmp, right))

emit_standard_binary_op(op, dest, left, right) ==
    load_binary_operands(RDX, left, right)
        \o emit_alu(op, RAX, RightReg(RDX, right))
        \o store_reg_to_location(dest, RAX)

emit_comparison_op(cc, dest, left, right) ==
    load_binary_operands(RCX, left, right)
        \o emit_cmp(RAX, RightReg(RCX, right))
        \o emit_setcc(cc, RAX)
        \o emit_movzx(RAX, RAX)
        \o store_reg_to_location(dest, RAX)

emit_shift_op(op, dest, left, right) ==
    load_location_to_reg(RAX, left)
        \o load_location_to_reg(RCX, right)
        \o <<Ins(op, 3, RAX, RCX)>>
        \o store_reg_to_location(dest, RAX)

\* ---- encoders.c ----

encode_mov(dest, src) ==
    IF InReg(dest) /\ dest = src THEN <<>>
    ELSE load_location_to_reg(RAX, src) \o store_reg_to_location(dest, RAX)

encode_const(dest, imm) == emit_mov_imm(RAX, imm) \o store_reg_to_location(dest, RAX)

encode_mul(dest, left, right) ==
    load_binary_operands(RCX, left, right)
        \o emit_imul_r64(RAX, RightReg(RCX, right))
        \o store_reg_to_location(dest, RAX)

\* Wrong: the divisor is loaded over the upper half of the dividend.
encode_div_Clobbered(dest, left, right) ==
    load_location_to_reg(RAX, left)
        \o <<Ins("cqo", 2, RDX, RAX)>>
        \o (IF InReg(right) THEN <<>> ELSE load_location_to_reg(RDX, right))
        \o <<Ins("idiv", 3, RAX, RightReg(RDX, right))>>
        \o store_reg_to_location(dest, RAX)

encode_div(dest, left, right) ==
    load_location_to_reg(RAX, left)
        \o <<Ins("cqo", 2, RDX, RAX)>>
        \o (IF InReg(right) THEN <<>> ELSE load_location_to_reg(RCX, right))
        \o <<Ins("idiv", 3, RAX, RightReg(RCX, right))>>
        \o store_reg_to_location(dest, RAX)

\* encode_neg and encode_not_bitwise.
encode_group(op, dest, src) ==
    load_location_to_reg(RAX, src)
        \o <<Ins(op, 3, RAX, RAX)>>
        \o store_reg_to_location(dest, RAX)

encode_not(dest, src) ==
    load_location_to_reg(RAX, src)
        \o emit_cmp_zero(RAX)
        \o emit_setcc("EQ", RAX)
        \o emit_movzx(RAX, RAX)
        \o store_reg_to_location(dest, RAX)

encode_store(idx, src, width) ==
    IF InReg(src) THEN emit_store_sized(src.reg, get_local_offset(idx), width)
    ELSE load_location_to_reg(RAX, src)
            \o emit_store_sized(RAX, get_local_offset(idx), width)

encode_load(dest, idx, width) ==
    IF InReg(dest) THEN emit_load_signext(dest.reg, get_local_offset(idx), width)
    ELSE emit_load_signext(RAX, get_local_offset(idx), width)
            \o store_reg_to_location(dest, RAX)

\* Wrong: a spilled condition is not loaded first.
emit_jz_jnz_NotLoaded(src) ==
    IF InReg(src) THEN emit_test(src.reg, src.reg) ELSE emit_cmp_zero(RAX)

\* The flags a conditional jump reads.
emit_jz_jnz(src) ==
    IF InReg(src) THEN emit_test(src.reg, src.reg)
    ELSE load_location_to_reg(RAX, src) \o emit_cmp_zero(RAX)

\* The opcode of a jump and its four bytes of displacement, which pass 1 counts
\* without emitting them.
emit_jump(opcode, label) ==
    <<Ins(opcode, IF opcode = "JMP" THEN 1 + 4 ELSE 2 + 4, label, 0)>>

encode_branch(opcode, src, label) == emit_jz_jnz(src) \o emit_jump(opcode, label)

\* Wrong: never pads the arguments on the stack.
NeedsAlignment_Never(stack_args) == FALSE

\* An odd number of arguments on the stack is padded to an even one.
NeedsAlignment(stack_args) == stack_args % 2 # 0

\* Wrong: forgets the pad.
Cleanup_NoPad(stack_args) == stack_args * (STACK_ALIGNMENT \div 2)

\* The bytes to drop after the call.
Cleanup(stack_args) ==
    (stack_args + (IF NeedsAlignment(stack_args) THEN 1 ELSE 0)) * (STACK_ALIGNMENT \div 2)

\* The argument vector of a call: locs are the locations of the pending ARGs.
encode_call(dest, locs, func) ==
    LET count == Len(locs)
        stack_args == IF count > SYS_V_MAX_REG_ARGS THEN count - SYS_V_MAX_REG_ARGS ELSE 0
        reg_args == count - stack_args
        PushVia(loc) == load_location_to_reg(RAX, loc) \o emit_push(RAX)
        PushArg(loc) == IF InReg(loc) THEN emit_push(loc.reg) ELSE PushVia(loc)
        cleanup == Cleanup(stack_args)
    IN  (IF NeedsAlignment(stack_args) THEN emit_add_rsp(-(STACK_ALIGNMENT \div 2)) ELSE <<>>)
        \o FlattenSeq([i \in 1 .. stack_args |-> PushVia(locs[count + 1 - i])])
        \o FlattenSeq([i \in 1 .. reg_args |-> PushArg(locs[reg_args + 1 - i])])
        \o FlattenSeq([i \in 1 .. reg_args |-> emit_pop(arg_registers[i])])
        \o <<Ins("movabs", 10, func, 0), Ins("call", 2, RAX, 0)>>
        \o (IF cleanup > 0 THEN emit_add_rsp(cleanup) ELSE <<>>)
        \o store_reg_to_location(dest, RAX)

\* Wrong: pops in the order of the pushes.
encode_ret_PushOrder(src) ==
    load_location_to_reg(RAX, src)
        \o <<Ins("learsp", 4, -CALLEE_SAVED_SIZE, 0)>>
        \o FlattenSeq([i \in 1 .. 5 |-> emit_pop(CalleeSaved[i])])
        \o emit_pop(RBP)
        \o <<Ins("ret", 1, 0, 0)>>

encode_ret(src) ==
    load_location_to_reg(RAX, src)
        \o <<Ins("learsp", 4, -CALLEE_SAVED_SIZE, 0)>>
        \o FlattenSeq([i \in 1 .. 5 |-> emit_pop(Reverse(CalleeSaved)[i])])
        \o emit_pop(RBP)
        \o <<Ins("ret", 1, 0, 0)>>

\* ---- jit.c ----

\* Parameter i (from 1) arrives in a register or above the return address.
MoveParam(i, loc) ==
    LET disp == 2 * WORD_SIZE + (i - 1 - SYS_V_MAX_REG_ARGS) * WORD_SIZE IN
    IF i <= SYS_V_MAX_REG_ARGS THEN store_reg_to_location(loc, arg_registers[i])
    ELSE IF InReg(loc) THEN emit_load_param(loc.reg, disp)
    ELSE emit_load_param(RAX, disp) \o emit_store_local(RAX, loc.offset)

encode_prologue(stack_size, params) ==
    emit_push(RBP)
        \o emit_mov_reg_reg(RBP, RSP)
        \o FlattenSeq([i \in 1 .. 5 |-> emit_push(CalleeSaved[i])])
        \o (IF stack_size > 0 THEN emit_add_rsp(-stack_size) ELSE <<>>)
        \o FlattenSeq([i \in 1 .. Len(params) |-> MoveParam(i, params[i])])

\* The virtual registers an encoder passes to get_location, in that order.
Operands(inst, pending) ==
    CASE inst.opcode \in AluOps \cup CmpOps \cup ShiftOps \cup {"MUL", "DIV"} ->
            <<inst.dest, inst.src_1, inst.src_2>>
      [] inst.opcode \in GroupOps \cup {"NOT", "MOV"} -> <<inst.dest, inst.src_1>>
      [] inst.opcode \in {"CONST", "LOAD"} -> <<inst.dest>>
      [] inst.opcode \in {"STORE", "JZ", "JNZ", "RET"} -> <<inst.src_1>>
      [] inst.opcode = "CALL" -> <<inst.dest>> \o Reverse(pending)
      [] OTHER -> <<>>

\* The allocator after requests for vregs, in this order.
Locate(alloc, vregs) ==
    LET located[i \in 0 .. Len(vregs)] ==
            IF i = 0 THEN alloc ELSE get_location(located[i - 1], vregs[i])
    IN located[Len(vregs)]

\* encode_inst: the code of inst once its operands are at loc.
Code(inst, loc, pending) ==
    CASE inst.opcode \in AluOps ->
            emit_standard_binary_op(inst.opcode, loc[inst.dest], loc[inst.src_1], loc[inst.src_2])
      [] inst.opcode \in CmpOps ->
            emit_comparison_op(inst.opcode, loc[inst.dest], loc[inst.src_1], loc[inst.src_2])
      [] inst.opcode \in ShiftOps ->
            emit_shift_op(inst.opcode, loc[inst.dest], loc[inst.src_1], loc[inst.src_2])
      [] inst.opcode = "MUL" -> encode_mul(loc[inst.dest], loc[inst.src_1], loc[inst.src_2])
      [] inst.opcode = "DIV" -> encode_div(loc[inst.dest], loc[inst.src_1], loc[inst.src_2])
      [] inst.opcode \in GroupOps ->
            encode_group(inst.opcode, loc[inst.dest], loc[inst.src_1])
      [] inst.opcode = "NOT" -> encode_not(loc[inst.dest], loc[inst.src_1])
      [] inst.opcode = "MOV" -> encode_mov(loc[inst.dest], loc[inst.src_1])
      [] inst.opcode = "CONST" -> encode_const(loc[inst.dest], inst.imm)
      [] inst.opcode = "LOAD" -> encode_load(loc[inst.dest], inst.src_1, inst.width)
      [] inst.opcode = "STORE" -> encode_store(inst.dest, loc[inst.src_1], inst.width)
      [] inst.opcode = "JMP" -> emit_jump("JMP", inst.label)
      [] inst.opcode \in {"JZ", "JNZ"} ->
            encode_branch(inst.opcode, loc[inst.src_1], inst.label)
      [] inst.opcode = "CALL" ->
            encode_call(loc[inst.dest], [i \in 1 .. Len(pending) |-> loc[pending[i]]], inst.func)
      [] inst.opcode = "RET" -> encode_ret(loc[inst.src_1])
      [] inst.opcode \in {"ARG", "LABEL"} -> <<>>

\* What encode_arg and encode_call leave in ctx->pending_call.
PendingAfter(inst, pending) ==
    CASE inst.opcode = "ARG" -> Append(pending, inst.src_1)
      [] inst.opcode = "CALL" -> <<>>
      [] OTHER -> pending

\* The bytes of the first i instructions, for every i.
Sizes(code) ==
    LET sum[i \in 0 .. Len(code)] == IF i = 0 THEN 0 ELSE sum[i - 1] + code[i].size IN sum

Size(code) == Sizes(code)[Len(code)]
==============================================================================
