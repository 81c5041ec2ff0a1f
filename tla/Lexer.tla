-------------------------------- MODULE Lexer --------------------------------
(***************************************************************************)
(* The lexer (srcs/lexer/lexer.c, srcs/lexer/helpers.c): the parser asks   *)
(* for one token at a time until the end of the file.  A file is a         *)
(* sequence of characters; positions count from 1 and End is the position  *)
(* l->end points to.  A round of the loops that skip blanks and comments   *)
(* is a step; making the token is one more.                                *)
(***************************************************************************)
EXTENDS Integers, Sequences, FiniteSetsExt

CONSTANTS Texts,          \* the files
          Letters,        \* the characters isalpha accepts, and '_'
          Digits,         \* the characters isdigit accepts
          Keywords        \* spelling -> token, from lexer_tokens.def

VARIABLES text,           \* file->data
          lexer,          \* [curr, line, column]
          at,             \* in the loop of lexer_skip_whitespace ("blanks"), in the
                          \* one of is_comment ("comment"), or "returned"
          token,          \* the last token, from .. to - 1 its characters
          gap             \* where the search for it began

vars == <<text, lexer, at, token, gap>>

NL == "\n"
Blanks == {" ", "\t", "\r"}
NUL == "NUL"              \* what a peek past the end returns: no character

End == Len(text) + 1

\* The characters of comments, blanks and symbols.
Marks == Blanks \cup {NL, "#", "+", "-", "*", "/", "(", ")", "{", "}", ";", ",", "!",
                     "=", ">", "<", "&", "|", "^", "~"}

ASSUME TextsAssumption == \A t \in Texts : t \in Seq(STRING)
ASSUME LettersAssumption == Letters \cap Digits = {} /\ (Letters \cup Digits) \cap (Marks \cup {NUL}) = {}

-----------------------------------------------------------------------------
(* Moving *)

lexer_init == [curr |-> 1, line |-> 1, column |-> 1]

lexer_peek(l) == IF l.curr >= End THEN NUL ELSE text[l.curr]

lexer_peek_next(l) == IF l.curr + 1 >= End THEN NUL ELSE text[l.curr + 1]

lexer_advance(l) == [l EXCEPT !.curr = @ + 1, !.column = @ + 1]

\* A loop of lexer_advance up to q, over characters that are no newlines.
AdvanceTo(l, q) == [l EXCEPT !.curr = q, !.column = @ + (q - l.curr)]

\* The position, from p on, where a loop over the characters of Class stops.
RunEnd(p, Class) == Min({q \in p .. End : q = End \/ text[q] \notin Class})

\* What happens to the counters just before a newline is passed.
CountLine(l) == [l EXCEPT !.line = @ + 1, !.column = 1]

-----------------------------------------------------------------------------
(* Blanks and comments *)

\* '//' and '#' up to the newline, which they leave.
ToLineEnd(l) ==
    AdvanceTo(l, Min({q \in l.curr .. End : q = End \/ text[q] = NL}))

IsComment(l) == lexer_peek(l) = "/" /\ lexer_peek_next(l) \in {"/", "*"}

\* Where the loop of lexer_skip_whitespace ends.
IsCode(l) == lexer_peek(l) \notin Blanks \cup {NL, "#"} /\ ~IsComment(l)

Move(l, where) == lexer' = l /\ at' = where

\* Wrong: '/*/' opens and closes a comment.
is_comment_OneStep ==
    \/ lexer_peek_next(lexer) = "/" /\ Move(ToLineEnd(lexer), "blanks")
    \/ lexer_peek_next(lexer) = "*" /\ Move(lexer_advance(lexer), "comment")

is_comment ==
    \/ lexer_peek_next(lexer) = "/" /\ Move(ToLineEnd(lexer), "blanks")
    \/ lexer_peek_next(lexer) = "*" /\ Move(lexer_advance(lexer_advance(lexer)), "comment")

\* Wrong: a star at the end of the file is taken for the end of the comment.
Closes_PastEnd == lexer_peek(lexer) = "*" /\ lexer_peek_next(lexer) \in {"/", NUL}

Closes == lexer_peek(lexer) = "*" /\ lexer_peek_next(lexer) = "/"

\* Wrong: newlines in a comment are not counted.
Counted_Never == lexer

Counted == IF lexer_peek(lexer) = NL THEN CountLine(lexer) ELSE lexer

\* One round of is_comment inside '/*', up to and with '*/'; a comment that is
\* never closed ends with the file, silently.
BlockComment ==
    \/ lexer.curr >= End /\ Move(lexer, "blanks")
    \/ lexer.curr < End /\ Closes /\ Move(lexer_advance(lexer_advance(lexer)), "blanks")
    \/ lexer.curr < End /\ ~Closes /\ Move(lexer_advance(Counted), "comment")

\* One round of the loop.
lexer_skip_whitespace ==
    /\ \/ /\ at = "blanks" /\ lexer.curr < End
          /\ LET c == lexer_peek(lexer)
             IN \/ c \in Blanks /\ Move(lexer_advance(lexer), "blanks")
                \/ c = NL /\ Move(lexer_advance(CountLine(lexer)), "blanks")
                \/ c = "/" /\ is_comment
                \/ c = "#" /\ Move(ToLineEnd(lexer), "blanks")
       \/ at = "comment" /\ BlockComment
    /\ UNCHANGED <<text, token, gap>>

-----------------------------------------------------------------------------
(* Tokens *)

NoView == <<0, 0>>

\* The counters are those behind the token.
Token(l, type, view, from) ==
    [lexer |-> l,
     token |-> [type |-> type, view |-> view, line |-> l.line,
                column |-> l.column, from |-> from, to |-> l.curr]]

lexer_make_token(l, type, from) == Token(l, type, <<from, l.curr - from>>, from)
lexer_make_token_no_sv(l, type, from) == Token(l, type, NoView, from)

check_keyword(word) ==
    IF word \in DOMAIN Keywords THEN Keywords[word] ELSE "IDENTIFIER"

Number(l) ==
    lexer_make_token(AdvanceTo(l, RunEnd(l.curr, Digits)), "NUMBER", l.curr)

Word(l) ==
    LET q == RunEnd(l.curr, Letters \cup Digits)
    IN lexer_make_token(AdvanceTo(l, q),
                        check_keyword(SubSeq(text, l.curr, q - 1)), l.curr)

\* The cases of the switch: the token of a character alone, and the token of
\* a character and the one behind it.
Alone(c) ==
    CASE c = "+" -> "PLUS"       [] c = "-" -> "MINUS"
      [] c = "*" -> "STAR"       [] c = "/" -> "SLASH"
      [] c = "(" -> "LPAREN"     [] c = ")" -> "RPAREN"
      [] c = "{" -> "LBRACE"     [] c = "}" -> "RBRACE"
      [] c = ";" -> "SEMICOLON"  [] c = "," -> "COMMA"
      [] c = "&" -> "BIT_AND"    [] c = "|" -> "BIT_OR"
      [] c = "^" -> "BIT_XOR"    [] c = "~" -> "BIT_NOT"
      [] c = "!" -> "BANG"       [] c = "=" -> "EQUAL"
      [] c = ">" -> "GREATER"    [] c = "<" -> "LESS"
      [] OTHER -> "ERROR"

\* Wrong: '<<' and '>>' are not looked for.
Pair_EqualOnly(c, next) ==
    CASE c = "!" /\ next = "=" -> "BANG_EQUAL"
      [] c = "=" /\ next = "=" -> "EQUAL_EQUAL"
      [] c = ">" /\ next = "=" -> "GREATER_EQUAL"
      [] c = "<" /\ next = "=" -> "LESS_EQUAL"
      [] OTHER -> "NONE"

Pair(c, next) ==
    CASE c = "!" /\ next = "=" -> "BANG_EQUAL"
      [] c = "=" /\ next = "=" -> "EQUAL_EQUAL"
      [] c = ">" /\ next = "=" -> "GREATER_EQUAL"
      [] c = ">" /\ next = ">" -> "RSHIFT"
      [] c = "<" /\ next = "=" -> "LESS_EQUAL"
      [] c = "<" /\ next = "<" -> "LSHIFT"
      [] OTHER -> "NONE"

\* The tokens made without a view of the text.
Unviewed == {"BANG", "EQUAL", "GREATER", "LESS", "ERROR"}

Symbol(l) ==
    LET c == lexer_peek(l)
        after == lexer_advance(l)
        pair == Pair(c, lexer_peek(after))
    IN IF pair # "NONE"
       THEN lexer_make_token_no_sv(lexer_advance(after), pair, l.curr)
       ELSE IF Alone(c) \in Unviewed
            THEN lexer_make_token_no_sv(after, Alone(c), l.curr)
            ELSE lexer_make_token(after, Alone(c), l.curr)

\* Wrong: a character that starts no token is not passed.
TokenAt_ErrorStays(l) ==
    LET c == lexer_peek(l)
    IN CASE l.curr >= End -> lexer_make_token_no_sv(l, "EOF", l.curr)
         [] c \in Digits -> Number(l)
         [] c \in Letters -> Word(l)
         [] OTHER -> LET s == Symbol(l)
                     IN IF s.token.type = "ERROR"
                        THEN lexer_make_token_no_sv(l, "ERROR", l.curr) ELSE s

TokenAt(l) ==
    LET c == lexer_peek(l)
    IN CASE l.curr >= End -> lexer_make_token_no_sv(l, "EOF", l.curr)
         [] c \in Digits -> Number(l)
         [] c \in Letters -> Word(l)
         [] OTHER -> Symbol(l)

\* The end of lexer_next: the blanks are behind it.
lexer_next ==
    /\ at = "blanks"
    /\ IsCode(lexer)
    /\ LET t == TokenAt(lexer) IN lexer' = t.lexer /\ token' = t.token
    /\ at' = "returned"
    /\ UNCHANGED <<text, gap>>

-----------------------------------------------------------------------------

NoToken == [type |-> "NONE", view |-> NoView, line |-> 1, column |-> 1,
            from |-> 1, to |-> 1]

Init == /\ text \in Texts
        /\ lexer = lexer_init
        /\ at = "returned"
        /\ token = NoToken
        /\ gap = 1

\* parser_advance asks for the next token.
parser_advance ==
    /\ at = "returned"
    /\ token.type # "EOF"
    /\ at' = "blanks"
    /\ gap' = lexer.curr
    /\ UNCHANGED <<text, lexer, token>>

Next == parser_advance \/ lexer_skip_whitespace \/ lexer_next

\* The loops of the parser ask until they have seen the end of the file.
Spec == Init /\ [][Next]_vars /\ WF_vars(Next)

-----------------------------------------------------------------------------
(* Properties *)

\* A reference for comments, one character at a time: the mode behind each
\* prefix of the file t.
NextMode(mode, c, next) ==
    CASE mode \in {"code", "closed"} ->
            CASE c = "#" -> "line"
              [] c = "/" /\ next = "/" -> "line"
              [] c = "/" /\ next = "*" -> "opening"
              [] OTHER -> "code"
      [] mode = "line" -> IF c = NL THEN "code" ELSE "line"
      [] mode = "opening" -> "block"
      [] mode = "block" -> IF c = "*" /\ next = "/" THEN "closing" ELSE "block"
      [] mode = "closing" -> "closed"

Modes(t) == LET mode[i \in 0 .. Len(t)] ==
                   IF i = 0 THEN "code"
                   ELSE NextMode(mode[i - 1], t[i], IF i = Len(t) THEN NUL ELSE t[i + 1])
            IN mode

\* The characters that are neither blank nor part of a comment.
Code(t) == LET mode == Modes(t)
           IN {i \in 1 .. Len(t) : mode[i] = "code" /\ t[i] \notin Blanks \cup {NL}}

\* Tokens take all of the code and nothing else: what the lexer skips before a
\* token is blank or comment, and no token reaches into a comment, whatever
\* slashes, stars, hashes and newlines follow each other.  The cursor stays in
\* the file.
TokensCover ==
    at = "returned" =>
        LET code == Code(text)
        IN /\ token.to = lexer.curr /\ token.to <= End
           /\ \A i \in gap .. token.from - 1 : i \notin code
           /\ \A i \in token.from .. token.to - 1 : i \in code
           /\ token.type = "EOF" => token.to = End

\* The strings of lexer_tokens.def.
SPELLING ==
    [PLUS |-> <<"+">>, MINUS |-> <<"-">>, STAR |-> <<"*">>,
     SLASH |-> <<"/">>, BANG |-> <<"!">>, LSHIFT |-> <<"<", "<">>,
     RSHIFT |-> <<">", ">">>, BIT_AND |-> <<"&">>, BIT_XOR |-> <<"^">>,
     BIT_OR |-> <<"|">>, BIT_NOT |-> <<"~">>, EQUAL_EQUAL |-> <<"=", "=">>,
     BANG_EQUAL |-> <<"!", "=">>, LESS |-> <<"<">>, LESS_EQUAL |-> <<"<", "=">>,
     GREATER |-> <<">">>, GREATER_EQUAL |-> <<">", "=">>, EQUAL |-> <<"=">>,
     LPAREN |-> <<"(">>, RPAREN |-> <<")">>, SEMICOLON |-> <<";">>,
     LBRACE |-> <<"{">>, RBRACE |-> <<"}">>, COMMA |-> <<",">>]

\* The keywords have tokens of their own.
ASSUME KeywordsAssumption ==
    \A w \in DOMAIN Keywords :
        Keywords[w] \notin DOMAIN SPELLING \cup {"NONE", "EOF", "ERROR", "NUMBER", "IDENTIFIER"}

IsNumber(s) == \A i \in DOMAIN s : s[i] \in Digits
IsWord(s) == s[1] \in Letters /\ \A i \in DOMAIN s : s[i] \in Letters \cup Digits
IsSymbol(s) == \E t \in DOMAIN SPELLING : SPELLING[t] = s

\* A non-empty string of characters spells a token of the language.
Spells(s) == IsNumber(s) \/ IsWord(s) \/ IsSymbol(s)

SpellsType(s, type) ==
    CASE type = "NUMBER" -> IsNumber(s)
      [] type = "IDENTIFIER" -> IsWord(s) /\ s \notin DOMAIN Keywords
      [] type \in DOMAIN SPELLING -> s = SPELLING[type]
      [] type = "ERROR" -> Len(s) = 1 /\ ~Spells(s)
      [] OTHER -> s \in DOMAIN Keywords /\ Keywords[s] = type

\* Each token is spelled as its type says and is the longest one that starts
\* where it does: '<<=' is '<<' and '=', 'if1' is one name, '1if' is two
\* tokens.  Names and numbers come with a view of their spelling.
LongestMatch ==
    token.type \notin {"NONE", "EOF"} =>
        LET s == SubSeq(text, token.from, token.to - 1)
        IN /\ SpellsType(s, token.type)
           /\ token.to < End => ~Spells(Append(s, text[token.to]))
           /\ IsNumber(s) \/ IsWord(s) => token.view # NoView

\* The tokens are those of the text: all of its code, cut as the language says.
TokensExact == TokensCover /\ LongestMatch

Newlines == {i \in 1 .. token.to - 1 : text[i] = NL}

\* The place a diagnostic prints for a token: its line, and the column behind
\* it, which counts from one on the first line and from two on all others
\* (the newline sets the column to one before it is itself counted).
PlacesExact ==
    token.type # "NONE" =>
        /\ token.line = 1 + Cardinality(Newlines)
        /\ token.column = IF Newlines = {} THEN token.to
                          ELSE token.to - Max(Newlines) + 1

\* The lexer reaches the end of every file.
Finishes == <>(token.type = "EOF")
=============================================================================
