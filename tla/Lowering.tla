------------------------------- MODULE Lowering -------------------------------
(***************************************************************************)
(* A function from its tree to its result: semantic_analyze, ir_gen, and   *)
(* the execution of the IR, next to a direct evaluation of the tree.       *)
(*                                                                         *)
(* The function is compiled only when the analysis reports no error, as in *)
(* main; what ir_gen records does not stop the compiler.  Local variables  *)
(* live in slots of one word that hold anything before they are written.   *)
(* Modules Machine and Jit take the shape of the IR for granted: IrAsJit-  *)
(* Expects is that assumption.                                             *)
(***************************************************************************)
EXTENDS IRGen

CONSTANTS Programs,        \* the functions considered: [params, return_type, bodies]
          ArgValues,       \* the values the parameters may have
          StackStarts,     \* the values stack_count may start with
          Garbage,         \* what a slot may hold before it is written
          MaxIterations,   \* bound: loop iterations of the tree
          MaxExecuted      \* bound: IR instructions executed

VARIABLES body,            \* the statements of the function, later annotated
          params,          \* its parameters, records of name and type
          return_type,
          phase,           \* "parsed", "rejected", "analyzed", "generated", "ran"
          warned,          \* a warning was recorded
          f,               \* the IRFunction
          args,            \* the values of the parameters
          result           \* what the IR did

vars == <<body, params, return_type, phase, warned, f, args, result>>

NoFunction == [code |-> <<>>]

Init ==
    /\ \E prog \in Programs :
          params = prog.params /\ return_type = prog.return_type /\ body \in prog.bodies
    /\ args = <<>>
    /\ phase = "parsed"
    /\ warned = FALSE
    /\ f = NoFunction
    /\ result = <<>>

Analyze ==
    /\ phase = "parsed"
    /\ \E a \in {analyze_node(params, return_type, body)} :
          /\ phase' = IF a.ok THEN "analyzed" ELSE "rejected"
          /\ body' = a.body
          /\ warned' = a.warn
    /\ UNCHANGED <<params, return_type, f, args, result>>

Generate ==
    /\ phase = "analyzed"
    /\ \E s \in StackStarts : f' = ir_gen(params, body, s)
    /\ phase' = "generated"
    /\ UNCHANGED <<body, params, return_type, warned, args, result>>

\* ---- the IR, executed ----

\* The values of type t, and the one that v becomes there.  A bool is an unsigned
\* byte, as in types.def.
Holds(v, t) == IF type_is_unsigned(t) THEN v \in 0 .. Width(type_size(t)) - 1 ELSE Fits(v, t)

Converted(v, t) == IF type_is_unsigned(t) THEN v % Width(type_size(t))
                   ELSE SignExtend(v, Width(type_size(t)))

\* What a call of n returns: a value of its type that depends on each argument.
Callee(n, v) == Converted(v[1] - v[2], Functions[n].return_type)

IndexOf(code, l) == CHOOSE i \in DOMAIN code : code[i].opcode = "LABEL" /\ code[i].label = l

\* One instruction of state m: registers, slots, pending arguments, the calls
\* made so far.
ExecIR(m, inst) ==
    LET Word(v) == SignExtend(v, Modulus(8))
        Set(r, v) == [m EXCEPT !.regs = (r :> Word(v)) @@ @, !.pc = @ + 1]
        size == Modulus(type_size(inst.type))
        slot == m.slots[inst.src_1]
    IN
    CASE inst.opcode = "CONST" -> Set(inst.dest, inst.imm)
      [] inst.opcode = "MOV" -> Set(inst.dest, m.regs[inst.src_1])
      [] inst.opcode = "LOAD" -> Set(inst.dest, SignExtend(slot, size))
      [] inst.opcode = "STORE" ->
            [m EXCEPT !.slots[inst.dest] = @ - (@ % size) + (m.regs[inst.src_1] % size),
                      !.pc = @ + 1]
      [] inst.opcode = "ARG" ->
            [m EXCEPT !.pending = Append(@, m.regs[inst.src_1]), !.pc = @ + 1]
      [] inst.opcode = "CALL" ->
            [Set(inst.dest, Callee(inst.func, m.pending)) EXCEPT !.pending = <<>>,
                                                      !.calls = Append(@, m.pending)]
      [] inst.opcode = "RET" -> [m EXCEPT !.kind = "return", !.value = m.regs[inst.src_1]]
      [] inst.opcode = "LABEL" -> [m EXCEPT !.pc = @ + 1]
      [] inst.opcode = "JMP" -> [m EXCEPT !.pc = IndexOf(f.code, inst.label)]
      [] inst.opcode = "JZ" ->
            [m EXCEPT !.pc = IF m.regs[inst.src_1] = 0 THEN IndexOf(f.code, inst.label) ELSE @ + 1]
      [] OTHER -> Set(inst.dest,
                      Apply(inst.op, [i \in DOMAIN inst.srcs |-> m.regs[inst.srcs[i]]]))

\* A function whose code ends without a RET runs into whatever follows it.
RECURSIVE RunIR(_, _)
RunIR(m, fuel) ==
    IF m.kind # "running" THEN m
    ELSE IF m.pc > Len(f.code) THEN [m EXCEPT !.kind = "end"]
    ELSE IF fuel = 0 THEN [m EXCEPT !.kind = "loops"]
    ELSE RunIR(ExecIR(m, f.code[m.pc]), fuel - 1)

Outcome(m) == [kind |-> m.kind, value |-> m.value, calls |-> m.calls]

\* The IR runs as it stands; with recorded errors too, but then nothing is
\* said about it here (finding of module Driver).
Run ==
    /\ phase = "generated"
    /\ f.returned /\ ~f.errors
    /\ args' \in {a \in [DOMAIN params -> ArgValues] :
                   \A i \in DOMAIN params : Holds(a[i], params[i].type)}
    /\ \E g \in Garbage :
         result' = Outcome(RunIR([pc |-> 1, regs |-> args', slots |-> [i \in 0 .. f.stack_count - 1 |-> g],
                                  pending |-> <<>>, calls |-> <<>>, kind |-> "running", value |-> 0],
                                 MaxExecuted))
    /\ phase' = "ran"
    /\ UNCHANGED <<body, params, return_type, warned, f>>

Next == Analyze \/ Generate \/ Run

Spec == Init /\ [][Next]_vars

-----------------------------------------------------------------------------
(* The meaning of the tree, by the rules of C and whatever types the         *)
(* analyzer notes in it: variables are cells of their type in nested scopes, *)
(* every name denotes its innermost declaration, operands are promoted.      *)
(* bad collects where the code computes something else, or may:              *)
(*   "overflow"    a signed operation whose result does not fit its type     *)
(*   "wraps"       an unsigned one, which C computes modulo 2^bits           *)
(*   "sign"        a value read with the other sign, no bits cut off         *)
(*   "unpromoted"  bits cut off the result of an operator that C computes in *)
(*                 a wider type than the analyzer                            *)
(*   "lossy"       bits cut off any other value                              *)
(*   "self"        an initializer that mentions its own variable             *)

Lookup(env, n) == Max({i \in DOMAIN env : n \in DOMAIN env[i]})

\* The type that C converts both operands to.
Common(s, t) ==
    LET a == Promoted(s)
        b == Promoted(t)
    IN  IF type_size(b) > type_size(a) \/ (type_size(b) = type_size(a) /\ type_is_unsigned(b))
        THEN b ELSE a

MixingOps == {"BIT_AND", "BIT_OR", "BIT_XOR"}

\* The type of an expression in C.
RECURSIVE TypeOf(_, _)
TypeOf(env, e) ==
    LET t == [i \in DOMAIN e.kids |-> TypeOf(env, e.kids[i])] IN
    CASE e.type = "NUMBER" -> IF Fits(e.value, "INT") THEN "INT" ELSE "INT64"
      [] e.type = "IDENTIFIER" -> env[Lookup(env, e.name)][e.name].type
      [] e.type = "CALL" -> Functions[e.name].return_type
      [] e.type \in ArithOps \cup MixingOps -> Common(t[1], t[2])
      [] e.type \in {"NEGATE", "BIT_NOT", "LSHIFT", "RSHIFT"} -> Promoted(t[1])
      [] OTHER -> "INT"

\* The analyzer takes the larger of two types smaller than int as it is, and the
\* left one of & | ^.
RECURSIVE Unpromoted(_, _)
Unpromoted(env, e) ==
    LET size(i) == type_size(TypeOf(env, e.kids[i])) IN
    /\ e.type \in ArithOps \cup BitOps \cup {"NEGATE", "BIT_NOT"}
    /\ \/ e.type \notin BitOps /\ \A i \in DOMAIN e.kids : size(i) < type_size("INT")
       \/ e.type \in MixingOps /\ size(1) < size(2)
       \/ \E i \in DOMAIN e.kids : Unpromoted(env, e.kids[i])

\* The value v of expression e becomes one of type to.  A constant in the signed
\* range of an unsigned type has its sign read differently there.
Lost(env, v, e, to) ==
    LET from == TypeOf(env, e) IN
    CASE Holds(v, to) -> {}
      [] ~Holds(v, from) -> {"overflow"}
      [] type_size(to) >= type_size(from) -> {"sign"}
      [] type_is_unsigned(to) /\ IsConst(e) /\ Fits(v, to) -> {"sign"}
      [] Unpromoted(env, e) -> {"unpromoted"}
      [] OTHER -> {"lossy"}

\* Value, trouble and calls of an expression, from those of its parts.
Value(v, b, c) == [value |-> v, bad |-> b, calls |-> c]

CallValue(env, e, vals, bad, calls) ==
    LET types == Functions[e.name].params
        conv == [i \in DOMAIN vals |-> Converted(vals[i], types[i])]
    IN  Value(Callee(e.name, conv),
              bad \cup UNION {Lost(env, vals[i], e.kids[i], types[i]) : i \in DOMAIN vals},
              Append(calls, conv))

\* A negative operand that C converts to an unsigned type, or that the code takes
\* for unsigned although C does not: operand 1 of a right shift.
SignRead(env, e, vals) ==
    LET t == [i \in DOMAIN e.kids |-> TypeOf(env, e.kids[i])] IN
    \/ /\ e.type \in ArithOps \cup MixingOps \cup CmpOps \cup {"GREATER"}
       /\ type_is_unsigned(Common(t[1], t[2]))
       /\ \E i \in DOMAIN vals : vals[i] < 0
    \/ e.type = "RSHIFT" /\ vals[1] < 0 /\ type_is_unsigned(e.kids[1].value_type)

OperatorValue(env, e, vals, bad, calls) ==
    LET v == Apply(e.type, vals)
        t == TypeOf(env, e)
    IN  Value(Converted(v, "INT64"),
              bad \cup {b \in {"overflow", "wraps", "sign"} :
                         CASE b = "overflow" -> ~Holds(v, "INT64")
                           [] b = "wraps" -> type_is_unsigned(t) /\ ~Holds(v, t)
                           [] b = "sign" -> SignRead(env, e, vals)},
              calls)

RECURSIVE Eval(_, _)
Eval(env, e) ==
    LET sub == [i \in DOMAIN e.kids |-> Eval(env, e.kids[i])]
        vals == [i \in DOMAIN sub |-> sub[i].value]
        bad == UNION {sub[i].bad : i \in DOMAIN sub}
        calls[i \in 0 .. Len(sub)] == IF i = 0 THEN <<>> ELSE calls[i - 1] \o sub[i].calls
    IN
    CASE e.type = "NUMBER" -> Value(e.value, {}, <<>>)
      [] e.type = "IDENTIFIER" -> Value(env[Lookup(env, e.name)][e.name].value, {}, <<>>)
      [] e.type = "CALL" -> CallValue(env, e, vals, bad, calls[Len(sub)])
      [] OTHER -> OperatorValue(env, e, vals, bad, calls[Len(sub)])

RECURSIVE Mentions(_, _)
Mentions(e, n) == \/ e.type = "IDENTIFIER" /\ e.name = n
                  \/ \E i \in DOMAIN e.kids : Mentions(e.kids[i], n)

\* Statements: state st has the scopes env, the outcome so far and the
\* iterations left.
RECURSIVE Exec(_, _)

ExecAll(st, kids) ==
    LET r[i \in 0 .. Len(kids)] == IF i = 0 THEN st ELSE Exec(r[i - 1], kids[i])
    IN  r[Len(kids)]

\* The trouble and the calls of an expression are noted.
Noted(st, r) == [st EXCEPT !.bad = @ \cup r.bad, !.calls = @ \o r.calls]

\* While the condition, evaluated to c, holds.
RECURSIVE Loop(_, _, _)
Loop(st, s, c) ==
    LET Again(next) == IF next.kind = "running" THEN Loop(next, s, Eval(next.env, s.kids[1])) ELSE next
    IN  IF c.value = 0 THEN Noted(st, c)
        ELSE IF st.fuel = 0 THEN [st EXCEPT !.kind = "loops"]
        ELSE Again(Exec([Noted(st, c) EXCEPT !.fuel = @ - 1], s.kids[2]))

\* w becomes the value of the variable that scope i of st has for s.name.
Bound(st, s, i, t, w) == [st EXCEPT !.env[i] = (s.name :> [type |-> t, value |-> w]) @@ @]

\* The value v of the expression of s is converted to type t.
Conversion(st, s, v, t) ==
    [Noted(st, v) EXCEPT !.bad = @ \cup Lost(st.env, v.value, s.kids[1], t)]

Assigned(st, s, v, i, t) == Bound(Conversion(st, s, v, t), s, i, t, Converted(v.value, t))

\* A statement whose expression or condition, if it has one, evaluates to v.
ExecWith(st, s, v) ==
    LET own == IF Mentions(s.kids[1], s.name) THEN {"self"} ELSE {} IN
    CASE s.type = "VAR_DECL" ->
            IF s.kids = <<>> THEN Bound(st, s, Len(st.env), s.var_type, 0)
            ELSE [Assigned(st, s, v, Len(st.env), s.var_type) EXCEPT !.bad = @ \cup own]
      [] s.type = "ASSIGNMENT" ->
            Assigned(st, s, v, Lookup(st.env, s.name),
                     st.env[Lookup(st.env, s.name)][s.name].type)
      [] s.type = "RETURN" ->
            IF s.kids = <<>> THEN [st EXCEPT !.kind = "return"]
            ELSE [Conversion(st, s, v, return_type)
                    EXCEPT !.kind = "return", !.value = Converted(v.value, return_type)]
      [] s.type = "IF" ->
            IF v.value = 0 /\ Len(s.kids) = 2 THEN Noted(st, v)
            ELSE Exec(Noted(st, v), s.kids[IF v.value # 0 THEN 2 ELSE 3])
      [] s.type = "WHILE" -> Loop(st, s, v)
      [] s.type = "BLOCK" ->
            [ExecAll([st EXCEPT !.env = Append(@, <<>>)], s.kids)
                EXCEPT !.env = SubSeq(@, 1, Len(st.env))]

Statements == {"VAR_DECL", "ASSIGNMENT", "RETURN", "IF", "WHILE", "BLOCK"}

Exec(st, s) ==
    IF st.kind # "running" THEN st
    ELSE IF s.type \in Statements THEN ExecWith(st, s, Eval(st.env, s.kids[1]))
    ELSE Noted(st, Eval(st.env, s))

Meaning ==
    ExecAll([env |-> <<[n \in {params[i].name : i \in DOMAIN params} |->
                          LET i == CHOOSE j \in DOMAIN params : params[j].name = n
                          IN  [type |-> params[i].type, value |-> args[i]]]>>,
             kind |-> "running", value |-> 0, calls |-> <<>>, bad |-> {}, fuel |-> MaxIterations],
            body)

-----------------------------------------------------------------------------
(* Properties *)

\* Code without a recorded error does what its function says: the same calls in
\* the same order with the same arguments, and the same returned value; it ends
\* without a RET exactly when the function ends without a return.  Scopes and
\* shadowing, order of evaluation, nested calls, branches, loops and the widths
\* of loads and stores all have a part in this.  Nothing is said of a function
\* that returns nothing: gen_return leaves no RET there.
SameMeaning ==
    (phase = "ran" /\ return_type # "VOID") =>
        \A m \in {Meaning} :
            m.bad = {} /\ m.kind # "loops" =>
                /\ result.kind = IF m.kind = "running" THEN "end" ELSE m.kind
                /\ result.calls = m.calls
                /\ result.kind = "return" => result.value = m.value

\* A conversion (of an initializer, an assignment, an argument or a return) that
\* cuts bits off a value has been warned about at compile time, whatever path
\* leads there, with two exceptions that check_type_compatibility does not see:
\* the value is that of an operator whose type the analyzer takes too small
\* ("unpromoted": char + char is a char to it), or a constant that is negative
\* and becomes unsigned (uint8 f() { return 0 - 1; }).  A change of sign between
\* types of one size cuts off nothing and is never warned about.
LossWarned == phase = "ran" /\ "lossy" \in Meaning.bad => warned

\* A statement with an expression the analyzer does not visit.
RECURSIVE Unvisited(_)
Unvisited(s) == \/ s.type = "GREATER"
                \/ \E i \in DOMAIN s.kids :
                     \/ Unvisited(s.kids[i])
                     \/ s.kids[i].type = "ASSIGNMENT" /\ s.type \notin {"IF", "WHILE", "BLOCK"}
                     \/ i = 1 /\ s.kids[i].type = "ASSIGNMENT" /\ s.type # "BLOCK"

\* What the analyzer accepts, the generator can translate: its own errors are
\* those of the two limits, or of expressions the analyzer does not visit.
GeneratorErrorsExplained ==
    phase \in {"generated", "ran"} /\ f.errors =>
        \/ f.vreg_count = MAX_VREGS_PER_FUNCTION
        \/ Len(f.code) = MAX_IR_INSTRUCTIONS_PER_FUNCTION
        \/ \E i \in DOMAIN body : Unvisited(body[i])

\* The IR without a recorded error is what the code generator relies on: a label
\* is placed once and every jump has its label; destinations are the next
\* virtual register, or a parameter for MOV; operands have been defined before;
\* ARGs stand right before their CALL and are as many as its callee has
\* parameters; slots are those the function counted; the limits are kept.
IrAsJitExpects ==
    phase = "generated" /\ f.returned /\ ~f.errors =>
        LET code == f.code
            Fresh == {i \in DOMAIN code : code[i].opcode \notin
                        {"MOV", "STORE", "ARG", "RET", "LABEL", "JMP", "JZ"}}
            DefinedAt(i) == Len(params) + Cardinality({j \in Fresh : j < i})
            Sources(inst) == IF "srcs" \in DOMAIN inst THEN Range(inst.srcs)
                             ELSE IF inst.opcode # "LOAD" /\ "src_1" \in DOMAIN inst
                             THEN {inst.src_1} ELSE {}
            PlacedAt(l) == {i \in DOMAIN code : code[i].opcode = "LABEL" /\ code[i].label = l}
            ArgAt(i) == i \in DOMAIN code /\ code[i].opcode = "ARG"
        IN  /\ f.vreg_count <= MAX_VREGS_PER_FUNCTION
            /\ Len(code) < MAX_IR_INSTRUCTIONS_PER_FUNCTION
            /\ \A i \in DOMAIN code :
              LET inst == code[i] IN
              /\ i \in Fresh => inst.dest = DefinedAt(i) + 1
              /\ Sources(inst) \subseteq 1 .. DefinedAt(i)
              /\ inst.opcode = "MOV" => inst.dest \in DOMAIN params
              /\ inst.opcode \in {"JMP", "JZ", "LABEL"} => Cardinality(PlacedAt(inst.label)) = 1
              /\ inst.opcode \in {"JMP", "JZ", "LABEL"} => inst.label < f.label_count
              /\ inst.opcode = "STORE" => inst.dest < f.stack_count
              /\ inst.opcode = "LOAD" => inst.src_1 < f.stack_count
              /\ ArgAt(i) => i < Len(code) /\ code[i + 1].opcode \in {"ARG", "CALL"}
              /\ inst.opcode = "CALL" =>
                    LET n == Len(Functions[inst.func].params) IN
                    /\ \A k \in 1 .. n : ArgAt(i - k)
                    /\ ~ArgAt(i - n - 1)
==============================================================================
