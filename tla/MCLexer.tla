------------------------------- MODULE MCLexer -------------------------------
(* Files put together from pieces that can combine in misleading ways: up to *)
(* MaxPieces words, blanks, comment marks and signs, and every two symbols.  *)
EXTENDS Lexer, Functions, TLC

CONSTANT MaxPieces        \* bound: pieces in a file

MCLetters == {"i", "f", "_"}
MCDigits == {"1", "2"}
MCKeywords == <<"i", "f">> :> "IF"

Pieces == {<<"i", "f">>, <<"1", "2">>, <<" ">>, <<NL>>, <<"/">>, <<"*">>,
           <<"/", "*">>, <<"#">>, <<"=">>, <<"<">>, <<"@">>}

Symbols == {<<c>> : c \in {"+", "-", "*", "/", "(", ")", "{", "}", ";", ",", "!",
                           "=", ">", "<", "&", "|", "^", "~", "_", "\t"}}

Joined(pieces) == FoldFunction(LAMBDA piece, rest : piece \o rest, <<>>, pieces)

MCTexts == {Joined(file) : file \in UNION {[1 .. n -> Pieces] : n \in 0 .. MaxPieces}}
           \cup {Joined(file) : file \in [1 .. 2 -> Symbols]}
==============================================================================
