------------------------------ MODULE MCMachine ------------------------------
(* Two classes of functions.  Every kind of instruction in short functions: *)
(* operands in registers, in spill slots and in parameters.  Calls with       *)
(* arguments in registers and on the stack, an odd and an even number of      *)
(* them, from functions whose own parameters fill registers and stack.        *)
EXTENDS Machine

Instructions ==
    [params |-> {0, 4, 6}, args |-> {0, 1}, locals |-> {1},
     opcodes |-> {"ADD", "LT", "RSHIFT", "MUL", "DIV", "NEG", "NOT", "MOV", "CONST", "LOAD",
                  "STORE", "JZ"},
     widths |-> {1, 4, 8}, temps |-> 2, steps |-> 2]

Calls ==
    [params |-> {0, 5, 8}, args |-> {2, 7, 8}, locals |-> {0, 1},
     opcodes |-> {"CONST", "CALL", "STORE"},
     widths |-> {8}, temps |-> 2, steps |-> 3]

MCLoads == {Instructions, Calls}
==============================================================================
