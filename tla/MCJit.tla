-------------------------------- MODULE MCJit --------------------------------
(* Three classes of programs.  Jumps and calls of two functions, where a jump, *)
(* a label, a patch or a call site of the first can leak into the second; with *)
(* the calls, one more than MAX_CALL_SITES.  One function with every other     *)
(* kind of instruction, whose parameters and temporaries spill.                *)
EXTENDS Jit

Flow ==
    [program |-> <<"f", "main">>, callees |-> {"main"}, params |-> {1}, locals |-> {0},
     opcodes |-> {"JMP", "JZ", "LABEL"}, labels |-> {0, 1}, temps |-> 0, insts |-> 4]

Calling ==
    [program |-> <<"f", "main">>, callees |-> {"f", "main", "missing"}, params |-> {1},
     locals |-> {0}, opcodes |-> {"ARG", "CALL"}, labels |-> {}, temps |-> 2, insts |-> 3]

Computing ==
    [program |-> <<"main">>, callees |-> {"main"}, params |-> {0, 6}, locals |-> {0},
     opcodes |-> {"CONST", "ADD", "ARG", "CALL", "RET"}, labels |-> {}, temps |-> 2, insts |-> 3]

MCLoads == {Flow, Calling, Computing}
==============================================================================
