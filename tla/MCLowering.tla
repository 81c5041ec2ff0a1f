----------------------------- MODULE MCLowering -----------------------------
(* Bodies of up to three statements, the middle one with nested blocks, a    *)
(* branch or a loop.  x is declared outside and may be shadowed with another *)
(* type; p is a parameter; f takes two arguments and is called with one too. *)
(* Then functions of two declarations and a return that mix the types of a   *)
(* parameter p, of the locals x and y, of g and of the function itself.      *)
EXTENDS Lowering

CONSTANTS Ops,            \* the binary operators that occur
          ReturnTypes,    \* their return types, when p is an int
          MixedOps,       \* the binary operators of the functions that mix types,
          MixedTypes      \* and the types of p and of these functions

MCFunctions == [f |-> [params |-> <<"INT", "INT">>, return_type |-> "INT"],
                g |-> [params |-> <<"CHAR", "UINT8">>, return_type |-> "UINT8"]]
MCArgValues == {-3, 1, 9}

Node(t, kids) == [type |-> t, value_type |-> "VOID", kids |-> kids]
Num(v) == [type |-> "NUMBER", value_type |-> "VOID", kids |-> <<>>, value |-> v]
Var(n) == [type |-> "IDENTIFIER", value_type |-> "VOID", kids |-> <<>>, name |-> n]
CallOf(kids) == [type |-> "CALL", value_type |-> "VOID", kids |-> kids, name |-> "f"]
Decl(t, n, kids) == [type |-> "VAR_DECL", value_type |-> "VOID", kids |-> kids, name |-> n, var_type |-> t]
Assign(n, e) == [type |-> "ASSIGNMENT", value_type |-> "VOID", kids |-> <<e>>, name |-> n]
Return(kids) == Node("RETURN", kids)
Block(kids) == Node("BLOCK", kids)

x == Var("x")
y == Var("y")
p == Var("p")
One == Num(1)

Binary == {Node(op, <<l, r>>) : op \in Ops, l \in {x, p}, r \in {One, x, y}}
Calls == {CallOf(<<x, p>>), CallOf(<<p, CallOf(<<x, One>>)>>), CallOf(<<CallOf(<<p, x>>), One>>),
          CallOf(<<x>>)}
Leaves == {One, Num(9), x, y, p}
Exprs == Leaves \cup Binary \cup Calls \cup {Node("NEGATE", <<x>>), Node("NOT", <<p>>)}

Simple == {Decl(t, n, <<>>) : t \in {"INT", "CHAR"}, n \in {"x", "y"}}
     \cup {Decl(t, "x", <<e>>) : t \in {"INT", "CHAR"}, e \in Leaves}
     \cup {Decl("INT", "y", <<e>>) : e \in Exprs}
     \cup {Assign(n, e) : n \in {"x", "y", "p"}, e \in Exprs}
     \cup {Return(<<e>>) : e \in Exprs} \cup {Return(<<>>)}
     \cup {CallOf(<<p, Node("NEGATE", <<x>>)>>)}

Inner == {Decl("INT", "x", <<One>>), Decl("CHAR", "x", <<>>), Decl("INT", "y", <<x>>),
          Assign("x", y), Assign("y", x), Return(<<x>>), CallOf(<<x, p>>)}
     \cup {Assign(n, e) : n \in {"x", "p"}, e \in Binary \ {Node(op, <<l, y>>) : op \in Ops, l \in {x, p}}}

Nested == {Block(<<s, t>>) : s \in Inner, t \in Inner}
Plain == Inner \ {s \in Inner : s.type = "VAR_DECL"}
Conditions == {x, p} \cup {Node(op, <<x, One>>) : op \in Ops}

Compound == Nested
     \cup {Node("IF", <<c, s>>) : c \in Conditions, s \in Plain}
     \cup {Node("IF", <<c, s, t>>) : c \in Conditions, s \in Plain, t \in Plain}
     \cup {Node("IF", <<Assign("x", p), Return(<<x>>)>>)}
     \cup {Node("WHILE", <<c, s>>) : c \in Conditions, s \in Plain}
     \cup {Node("WHILE", <<c, b>>) : c \in {x, p}, b \in Nested}

MCBodies ==
    {<<Decl(t, "x", <<e>>), s, Return(<<x>>)>> : t \in {"INT", "CHAR"}, e \in {p, Num(2)}, s \in Compound}
    \cup {<<Decl("INT", "x", <<p>>), Decl("CHAR", "y", <<One>>), s, Return(<<y>>)>> :
             s \in Compound \cup {Decl("INT", "z", <<One>>)}}
    \cup {<<Decl(t, "x", <<p>>), s>> \o tail :
            t \in {"INT", "CHAR"}, s \in Simple \cup Nested,
            tail \in {<<>>, <<Return(<<x>>)>>, <<Return(<<y>>)>>}}

Minus(e) == Node("NEGATE", <<e>>)
Sums == {Node(op, <<l, r>>) : op \in MixedOps, l \in {x, y, p, Minus(One)}, r \in {x, y, p, One}}
Mixed == Sums \cup {Minus(p), Minus(y), Num(2), Node("BIT_NOT", <<x>>)}
     \cup {Node(op, <<e, One>>) : op \in MixedOps, e \in Sums \cup {Minus(p)}}
     \cup {[CallOf(<<l, r>>) EXCEPT !.name = "g"] : l \in {x, p}, r \in {y, One, Minus(One)}}

MCMixed == {<<Decl("CHAR", "x", <<p>>), Decl(t, "y", <<Node("BIT_NOT", <<x>>)>>), Return(<<e>>)>> :
               t \in {"CHAR", "INT"}, e \in Mixed}

Function(t, r, bodies) ==
    [params |-> <<[name |-> "p", type |-> t]>>, return_type |-> r, bodies |-> bodies]

MCPrograms == {Function("INT", r, MCBodies) : r \in ReturnTypes}
         \cup {Function(t, r, MCMixed) : t \in MixedTypes, r \in MixedTypes}
==============================================================================
