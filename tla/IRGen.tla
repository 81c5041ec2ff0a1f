-------------------------------- MODULE IRGen --------------------------------
(***************************************************************************)
(* The IR generator (srcs/ir/ir_gen.c): the body of one analyzed function  *)
(* becomes a sequence of IR instructions.                                  *)
(*                                                                         *)
(* f is the IRFunction: code, vreg_count, label_count, stack_count, the    *)
(* symbol table at this point, and whether an error was recorded.  The     *)
(* symbol table is the scoped map that module SymbolTable implements: a    *)
(* function from names to symbols, put back at the end of a block.         *)
(***************************************************************************)
EXTENDS Semantic, TLC

CONSTANTS MAX_VREGS_PER_FUNCTION,
          MAX_IR_INSTRUCTIONS_PER_FUNCTION

\* Chunks of instructions are one sequence.  At the limit nothing is added.
emit(f, inst) ==
    IF Len(f.code) >= MAX_IR_INSTRUCTIONS_PER_FUNCTION THEN f
    ELSE [f EXCEPT !.code = Append(@, inst)]

\* Wrong: a register that does not exist is handed out.
ir_alloc_vreg_Unchecked(f) == [f |-> [f EXCEPT !.vreg_count = @ + 1], reg |-> f.vreg_count]

\* The next virtual register, or 0 and an error at the limit.
ir_alloc_vreg(f) ==
    IF f.vreg_count >= MAX_VREGS_PER_FUNCTION
    THEN [f |-> [f EXCEPT !.errors = TRUE], reg |-> 0]
    ELSE [f |-> [f EXCEPT !.vreg_count = @ + 1], reg |-> f.vreg_count]

NoCode(f) == [f |-> f, reg |-> 0]
Error(f) == [f EXCEPT !.errors = TRUE]

\* An instruction with a fresh destination.
EmitFresh(f, inst) ==
    LET Into(a) == IF a.reg = 0 THEN a
                   ELSE [f |-> emit(a.f, [inst EXCEPT !.dest = a.reg]), reg |-> a.reg]
    IN  Into(ir_alloc_vreg(f))

\* A right shift is logical when the analyzer gave its left operand an unsigned
\* type: of the 64-bit word, whatever the size of that type.
Operation(e) == IF e.type = "RSHIFT" /\ type_is_unsigned(e.kids[1].value_type)
                THEN "URSHIFT" ELSE e.type

Opcode(t) == CASE t = "EQUAL" -> "EQ"
               [] t = "NOT_EQUAL" -> "NEQ"
               [] t = "LESS" -> "LT"
               [] t = "LESS_EQUAL" -> "LE"
               [] t = "GREATER" -> "GT"
               [] t = "GREATER_EQUAL" -> "GE"
               [] t = "NEGATE" -> "NEG"
               [] t = "BIT_NOT" -> "BNOT"
               [] t = "BIT_AND" -> "BAND"
               [] t = "BIT_OR" -> "BOR"
               [] t = "BIT_XOR" -> "BXOR"
               [] OTHER -> t

\* gen_expression: the function after it and the register of the value, 0 when
\* there is none.
RECURSIVE gen_expression(_, _)

\* Operands or arguments from left to right, up to the first without a value.
Operands(f, kids) ==
    LET Then(r, k) == [f |-> k.f, regs |-> Append(r.regs, k.reg)]
        after[i \in 0 .. Len(kids)] ==
            IF i = 0 THEN [f |-> f, regs |-> <<>>]
            ELSE IF 0 \in Range(after[i - 1].regs) THEN after[i - 1]
            ELSE Then(after[i - 1], gen_expression(after[i - 1].f, kids[i]))
    IN  after[Len(kids)]

gen_number(f, e) ==
    EmitFresh(f, [opcode |-> "CONST", type |-> e.value_type, dest |-> 0, imm |-> e.value])

\* A parameter is its virtual register, a local is loaded.
gen_identifier(f, e) ==
    IF e.name \notin DOMAIN f.symbols THEN NoCode(Error(f))
    ELSE LET sym == f.symbols[e.name] IN
         IF sym.is_stack
         THEN EmitFresh(f, [opcode |-> "LOAD", type |-> e.value_type, dest |-> 0,
                            src_1 |-> sym.index])
         ELSE [f |-> f, reg |-> sym.index]

\* Wrong: an ARG follows the code of its own argument.
gen_call_ArgsInPlace(f, e) ==
    LET Pass(k) == emit(k.f, [opcode |-> "ARG", src_1 |-> k.reg])
        r[i \in 0 .. Len(e.kids)] ==
            IF i = 0 THEN f
            ELSE Pass(gen_expression(r[i - 1], e.kids[i]))
    IN  EmitFresh(r[Len(e.kids)],
                  [opcode |-> "CALL", type |-> e.value_type, dest |-> 0, func |-> e.name])

\* All arguments are computed before the first ARG: a call among them has its
\* own ARGs.
gen_call(f, e) ==
    LET Passed(args) ==
            LET after[i \in 0 .. Len(args.regs)] ==
                    IF i = 0 THEN args.f
                    ELSE emit(after[i - 1], [opcode |-> "ARG", src_1 |-> args.regs[i]])
            IN  after[Len(args.regs)]
        With(args) ==
            IF 0 \in Range(args.regs) THEN NoCode(args.f)
            ELSE EmitFresh(Passed(args),
                           [opcode |-> "CALL", type |-> e.value_type, dest |-> 0, func |-> e.name])
    IN  With(Operands(f, e.kids))

\* gen_unary and gen_binary_op.
GenOperator(f, e) ==
    LET On(args) ==
            IF 0 \in Range(args.regs) THEN NoCode(args.f)
            ELSE EmitFresh(args.f, [opcode |-> Opcode(Operation(e)), op |-> Operation(e),
                                    type |-> e.value_type, dest |-> 0, srcs |-> args.regs])
    IN  On(Operands(f, e.kids))

gen_expression(f, e) ==
    CASE e.type = "NUMBER" -> gen_number(f, e)
      [] e.type = "IDENTIFIER" -> gen_identifier(f, e)
      [] e.type = "CALL" -> gen_call(f, e)
      [] e.type \in UnaryOps \cup BinaryOps -> GenOperator(f, e)
      [] OTHER -> NoCode(Error(f))          \* a statement in an expression

\* ---- statements; last_reg has no reader and is left out ----

RECURSIVE gen_statement(_, _)

Jump(l) == [opcode |-> "JMP", label |-> l]
JumpIfZero(r, l) == [opcode |-> "JZ", src_1 |-> r, label |-> l]
Label(l) == [opcode |-> "LABEL", label |-> l]

\* The branches, after the condition in register reg.
Branches(f, reg, s, label) ==
    LET hasElse == Len(s.kids) = 3
        g == [f EXCEPT !.label_count = @ + (IF hasElse THEN 2 ELSE 1)]
        Otherwise(then) ==
            IF hasElse
            THEN emit(gen_statement(emit(emit(then, Jump(label + 1)), Label(label)), s.kids[3]),
                      Label(label + 1))
            ELSE emit(then, Label(label))
    IN  IF reg = 0 THEN g
        ELSE Otherwise(gen_statement(emit(g, JumpIfZero(reg, label)), s.kids[2]))

gen_if(f, s) ==
    LET If(c) == Branches(c.f, c.reg, s, c.f.label_count)
    IN  If(gen_expression(f, s.kids[1]))

gen_while(f, s) ==
    LET start == f.label_count
        Repeat(c) ==
            IF c.reg = 0 THEN c.f
            ELSE emit(emit(gen_statement(emit(c.f, JumpIfZero(c.reg, start + 1)), s.kids[2]),
                           Jump(start)),
                      Label(start + 1))
    IN  Repeat(gen_expression(emit([f EXCEPT !.label_count = @ + 2], Label(start)), s.kids[1]))

\* The name is bound before its initializer is generated.
gen_var_decl(f, s) ==
    LET slot == f.stack_count
        g == [f EXCEPT !.stack_count = @ + 1,
                       !.symbols = (s.name :> [index |-> slot, is_stack |-> TRUE]) @@ @]
        Stored(init) ==
            IF init.reg = 0 THEN init.f
            ELSE emit(init.f, [opcode |-> "STORE", type |-> s.var_type, dest |-> slot,
                               src_1 |-> init.reg])
    IN  Stored(IF s.kids # <<>> THEN gen_expression(g, s.kids[1])
               ELSE EmitFresh(g, [opcode |-> "CONST", type |-> s.var_type, dest |-> 0, imm |-> 0]))

gen_assignment(f, s) ==
    LET sym == f.symbols[s.name]
        Stored(val) ==
            IF val.reg = 0 THEN val.f
            ELSE emit(val.f, [opcode |-> IF sym.is_stack THEN "STORE" ELSE "MOV",
                              type |-> s.value_type, dest |-> sym.index, src_1 |-> val.reg])
    IN  IF s.name \notin DOMAIN f.symbols THEN Error(f)
        ELSE Stored(gen_expression(f, s.kids[1]))

\* A return without a value leaves no instruction.
gen_return(f, s) ==
    LET Returned(val) ==
            IF val.reg = 0 THEN val.f
            ELSE emit(val.f, [opcode |-> "RET", type |-> s.value_type, src_1 |-> val.reg])
    IN  IF s.kids = <<>> THEN f ELSE Returned(gen_expression(f, s.kids[1]))

GenAll(f, kids) ==
    LET r[i \in 0 .. Len(kids)] == IF i = 0 THEN f ELSE gen_statement(r[i - 1], kids[i])
    IN  r[Len(kids)]

\* Wrong: the names of the block stay bound.
gen_block_NoRestore(f, s) == GenAll(f, s.kids)

gen_block(f, s) == [GenAll(f, s.kids) EXCEPT !.symbols = f.symbols]

gen_statement(f, s) ==
    CASE s.type = "VAR_DECL" -> gen_var_decl(f, s)
      [] s.type = "ASSIGNMENT" -> gen_assignment(f, s)
      [] s.type = "RETURN" -> gen_return(f, s)
      [] s.type = "BLOCK" -> gen_block(f, s)
      [] s.type = "IF" -> gen_if(f, s)
      [] s.type = "WHILE" -> gen_while(f, s)
      [] OTHER -> gen_expression(f, s).f

\* ir_gen of a function: parameters get the first virtual registers.  No code
\* is returned when they do not fit, or when the instruction limit is reached.
\* stack_count is never set: it starts with what the arena holds.
ir_gen(params, body, stack_count) ==
    LET fits == Len(params) < MAX_VREGS_PER_FUNCTION
        start == [code |-> <<>>, vreg_count |-> Len(params) + 1, label_count |-> 0,
                  stack_count |-> stack_count, errors |-> ~fits,
                  symbols |-> [n \in {params[i].name : i \in DOMAIN params} |->
                                [index |-> Max({i \in DOMAIN params : params[i].name = n}),
                                 is_stack |-> FALSE]]]
        Full(f) == Len(f.code) >= MAX_IR_INSTRUCTIONS_PER_FUNCTION
        Finished(f) == [f EXCEPT !.errors = @ \/ Full(f)] @@ [returned |-> ~Full(f)]
    IN  IF ~fits THEN start @@ [returned |-> FALSE] ELSE Finished(GenAll(start, body))
==============================================================================
