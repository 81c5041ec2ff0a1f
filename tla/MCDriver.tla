------------------------------- MODULE MCDriver -------------------------------
(* main may call f with none or one argument, or both f and itself, which is  *)
(* one call more than call_sites takes; f comes with three types; g is the    *)
(* function too many, or has more parameters than are allowed.                *)
EXTENDS Driver

Decl(n, r, p, proto, cs) ==
    [name |-> n, ret |-> r, params |-> p, is_prototype |-> proto, calls |-> cs]

Call(f, n, v) == [func |-> f, args |-> n, visited |-> v]

MCDecls ==
    {Decl("main", "int", 0, FALSE, cs) :
        cs \in {{}, {Call("main", 0, TRUE), Call("f", 0, TRUE)}}
               \cup {{Call("f", n, v)} : n \in {0, 1}, v \in BOOLEAN}}
    \cup {Decl("f", r, p, proto, {}) : r \in {"int"}, p \in {0, 1}, proto \in BOOLEAN}
    \cup {Decl("f", "void", 0, TRUE, {}),
          Decl("f", "int", 1, FALSE, {Call("f", 1, TRUE)}),
          Decl("g", "int", 0, FALSE, {}),
          Decl("g", "int", 2, TRUE, {})}
===============================================================================
