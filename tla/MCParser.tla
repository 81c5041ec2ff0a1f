------------------------------ MODULE MCParser ------------------------------
(* Texts with free positions: expressions, statements and declarations of    *)
(* any tokens, and programs whose operators and operands vary.               *)
EXTENDS Parser

Fixed(s) == [i \in DOMAIN s |-> {s[i]}]
Free(n, S) == [i \in 1 .. n |-> S]
Start == Fixed(<<"INT", "IDENTIFIER", "LPAREN", "RPAREN", "LBRACE">>)
Any(choices) == [tokens |-> choices, valid |-> FALSE]
Valid(choices) == [tokens |-> choices, valid |-> TRUE]

Operators == {"MINUS", "STAR", "LESS", "EQUAL_EQUAL"}
Operand == {"IDENTIFIER"}
End == Fixed(<<"SEMICOLON", "RBRACE">>)

MCTexts ==
    {Any(Start \o Free(7, {"IDENTIFIER", "MINUS", "EQUAL", "LPAREN", "RPAREN", "COMMA",
                           "SEMICOLON"}) \o End),
     Any(Start \o Free(5, {"IF", "WHILE", "RETURN", "ELSE", "INT", "LPAREN", "RPAREN",
                           "IDENTIFIER", "SEMICOLON", "LBRACE", "RBRACE"})),
     Any(Free(6, {"INT", "TYPENAME", "VOID", "IDENTIFIER", "LPAREN", "RPAREN", "COMMA",
                  "SEMICOLON", "LBRACE", "RBRACE"})),
     Any(Fixed(<<"INT", "IDENTIFIER", "LPAREN", "RPAREN", "SEMICOLON", "CHAR", "IDENTIFIER", "LPAREN",
                 "RPAREN", "LBRACE">>) \o Free(3, {"INT", "IDENTIFIER", "RBRACE"})),
     Valid(Start \o <<Operand, Operators, Operand, Operators, {"MINUS", "BANG"}, Operand, Operators, Operand>>
                 \o End),
     Valid(Start \o <<Operand, {"EQUAL"}, {"LPAREN"}, Operand, Operators, Operand, {"RPAREN"},
                      Operators, Operand, {"LPAREN"}, Operand, Operators, Operand, {"COMMA"}, Operand,
                      {"RPAREN"}, Operators, {"NUMBER"}>> \o End),
     Valid(Fixed(<<"TYPENAME", "IDENTIFIER", "LPAREN">>)
           \o <<{"INT", "TYPENAME"}, Operand, {"COMMA"}, {"CHAR"}, Operand, {"RPAREN"}, {"LBRACE"}>>
           \o Fixed(<<"IF", "LPAREN", "IDENTIFIER", "RPAREN", "WHILE", "LPAREN", "NUMBER", "RPAREN",
                      "LBRACE", "INT", "IDENTIFIER", "EQUAL", "NUMBER", "SEMICOLON", "RBRACE", "ELSE",
                      "RETURN">>) \o <<{"IDENTIFIER", "NUMBER"}>> \o End
           \o Fixed(<<"VOID", "IDENTIFIER", "LPAREN", "VOID", "RPAREN", "SEMICOLON">>))}
==============================================================================
