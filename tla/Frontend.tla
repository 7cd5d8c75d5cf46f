------------------------------ MODULE Frontend ------------------------------
(***************************************************************************)
(* The lexer and the parser (parser.c), character by character: next_token *)
(* with one token held back in peek, and the steps of parse_statement and  *)
(* parse_binary_expr between two tokens.                                   *)
(*                                                                         *)
(* A file is a sequence of units: letters, digits, the symbols, a "quote", *)
(* and a "space" (any white space).                                        *)
(***************************************************************************)
EXTENDS Ast, Integers, SequencesExt

\* The files: records of the text and of the script that it was written for,
\* as a set: {} when it was written for none.
CONSTANTS Units, Files

ASSUME FrontendAssumption == "quote" \in Units /\ \A f \in Files : f.text \in Seq(Units)

VARIABLES
  file,     \* the file that is read
  pos,      \* its next unit
  peek,     \* parse->peek: {} or {the token held back}
  pc,       \* what the parser does with the next token
  names,    \* varlist of the statement, token texts
  k,        \* index of the loop over varlist
  pending,  \* the left operand and operator of every unfinished expression
  left,     \* {} or {the expression parsed last}
  scope,    \* parse->scope: locals with their constant values
  script,   \* children of the script's sequence node
  taken     \* history: the tokens that the parser has used

vars == <<file, pos, peek, pc, names, k, pending, left, scope, script, taken>>

text == file.text

Digits  == {"1", "2"}
Symbols == {"(", ")", "[", "]", "{", "}", "=", ":", ";", ",", "*", "/", "+", "-", ".", "?", "<", ">"}
Opers   == [x \in {"+", "-", "*", "/"} |->
              CASE x = "+" -> "add" [] x = "-" -> "sub" [] x = "*" -> "mul" [] x = "/" -> "div"]

\* FOR_EACH_TOKEN_KW.
Keywords == [
  kAND |-> <<"a", "n", "d">>, kBREAK |-> <<"b", "r", "e", "a", "k">>, kDO |-> <<"d", "o">>,
  kELSE |-> <<"e", "l", "s", "e">>, kELSEIF |-> <<"e", "l", "s", "e", "i", "f">>, kEND |-> <<"e", "n", "d">>,
  kFALSE |-> <<"f", "a", "l", "s", "e">>, kFOR |-> <<"f", "o", "r">>,
  kFUNCTION |-> <<"f", "u", "n", "c", "t", "i", "o", "n">>, kIF |-> <<"i", "f">>, kIN |-> <<"i", "n">>,
  kLOCAL |-> <<"l", "o", "c", "a", "l">>, kNIL |-> <<"n", "i", "l">>, kNOT |-> <<"n", "o", "t">>,
  kOR |-> <<"o", "r">>, kREPEAT |-> <<"r", "e", "p", "e", "a", "t">>,
  kRETURN |-> <<"r", "e", "t", "u", "r", "n">>, kTHEN |-> <<"t", "h", "e", "n">>,
  kTRUE |-> <<"t", "r", "u", "e">>, kUNTIL |-> <<"u", "n", "t", "i", "l">>, kWHILE |-> <<"w", "h", "i", "l", "e">>]

iskeyword(str) == \E t \in DOMAIN Keywords : Keywords[t] = str
lex_keyword(str) == CHOOSE t \in DOMAIN Keywords : Keywords[t] = str

Token(type, str, end) == [type |-> type, text |-> str, end |-> end]
-----------------------------------------------------------------------------
(***************************************************************************)
(* next_token.  Each of the three kinds of longer tokens gives the position*)
(* behind it, or 0 if the loop that reads it never ends.                   *)
(***************************************************************************)

Visibles == Units \ {"space"}
NoDigits == Units \ Digits

\* The first place from q on of a unit of S, or 0.
First(q, S) ==
  LET isFirst(r) == text[r] \in S /\ \A earlier \in q .. r - 1 : text[earlier] \notin S
  IN  IF \E r \in q .. Len(text) : isFirst(r) THEN CHOOSE r \in q .. Len(text) : isFirst(r) ELSE 0

\* A string ends at the next quote; the end of the file is not looked for.
StringEnd(p) == LET q == First(p + 1, {"quote"}) IN IF q = 0 THEN 0 ELSE q + 1

\* A number has at most one dot. It may end with the file.
NumberEnd(p) ==
  LET behind(q) == LET r == First(q, NoDigits)
                   IN  IF r = 0 THEN Len(text) + 1 ELSE r
      q == behind(p + 1)
  IN  IF q <= Len(text) /\ text[q] = "." THEN behind(q + 1) ELSE q

\* The keywords whose letters stand from p on.
KeywordsAt(p) == {t \in DOMAIN Keywords : LET q == p + Len(Keywords[t]) - 1
                                         IN  q <= Len(text) /\ SubSeq(text, p, q) = Keywords[t]}

\* The nearest of several places, of which a 0 is none.
Nearest(places) == IF places \subseteq {0} THEN 0 ELSE Min(places \ {0})

\* Mutant: white space is no end of a word.
WordEndUnspaced(p) == Nearest({First(p + 1, Symbols)} \cup {p + Len(Keywords[t]) : t \in KeywordsAt(p)})

\* A word is cut behind the letters of a keyword. Any other ends before white
\* space or a symbol, and the end of the file is neither.
WordEnd(p) == Nearest({First(p + 1, Symbols \cup {"space"})} \cup {p + Len(Keywords[t]) : t \in KeywordsAt(p)})

WordType(str) == IF iskeyword(str) THEN lex_keyword(str) ELSE "kIDENTIFIER"

TokenFrom[p \in 0 .. Len(text)] ==
  LET read(type, end) == IF end = 0 THEN Token("endless", <<>>, 0)
                         ELSE Token(type, SubSeq(text, p, end - 1), end)
      unquoted(t) == Token(t.type, SubSeq(t.text, 2, Len(t.text) - 1), t.end)
  IN  CASE p = 0                  -> Token("kEOF", <<>>, Len(text) + 1)
        [] p # 0 /\ text[p] = "," -> read("kCOMMA", p + 1)
        [] p # 0 /\ text[p] = "=" -> read("kEQUALS", p + 1)
        [] p # 0 /\ text[p] \in DOMAIN Opers -> read(text[p], p + 1)
        [] p # 0 /\ text[p] = "quote"        -> unquoted(read("kLIT_STRING", StringEnd(p)))
        [] p # 0 /\ text[p] \in Digits       -> read("kLIT_NUMBER", NumberEnd(p))
        [] OTHER -> read(WordType(SubSeq(text, p, WordEnd(p) - 1)), WordEnd(p))

\* Behind white space, parser_next_real.
next_token == TokenFrom[First(pos, Visibles)]

\* The token that the parser meets next.
next == IF peek # {} THEN CHOOSE t \in peek : TRUE ELSE next_token

\* Mutant: a held token is never given up.
ConsumeHeld == /\ next.type # "endless"
               /\ pos' = next.end
               /\ peek' = peek
               /\ taken' = Append(taken, next)

\* CONSUME. A held token lies wholly before pos, so that pos stays.
Consume == /\ next.type # "endless"
           /\ pos' = next.end
           /\ peek' = {}
           /\ taken' = Append(taken, next)

\* DECONSUME, of the token met last: the file stays behind it.
Deconsume == /\ next.type # "endless"
             /\ pos' = next.end
             /\ peek' = {next}
             /\ taken' = taken

\* The lexer in a loop without end.
read_forever == /\ pc \in {"statement", "name", "names", "more", "unary", "operator", "comma"}
                /\ next.type = "endless"
                /\ pc' = "endless"
                /\ UNCHANGED <<file, pos, peek, names, k, pending, left, scope, script, taken>>
-----------------------------------------------------------------------------
Init == /\ file \in Files
        /\ pos = 1
        /\ peek = {}
        /\ pc = "parse"
        /\ names = <<>> /\ k = 0
        /\ pending = <<>> /\ left = {}
        /\ scope = <<>>
        /\ script = <<>>
        /\ taken = <<>>

\* Mutant: white space at the end of the file is skipped first.
AtEndSkipping == First(pos, Visibles) = 0

\* The file is asked, not the lexer: a held token makes no difference.
AtEnd == pos > Len(text)

\* parse's loop.
parse_while ==
  /\ pc = "parse" /\ ~AtEnd
  /\ pc' = "statement"
  /\ UNCHANGED <<file, pos, peek, names, k, pending, left, scope, script, taken>>

\* Behind the loop the return is put in front of the last statement. Without
\* a statement, array_last reads in front of the array.
parse_end ==
  /\ pc = "parse" /\ AtEnd
  /\ IF script = <<>>
     THEN pc' = "undefined" /\ script' = script
     ELSE /\ pc' = "done"
          /\ script' = InsertAt(script, Len(script), Return(Last(script).value))
  /\ UNCHANGED <<file, pos, peek, names, k, pending, left, scope, taken>>

\* Mutant: a token that begins no statement is passed over.
parse_statementLenient ==
  /\ pc = "statement" /\ Consume
  /\ pc' = IF next.type = "kLOCAL" THEN "name" ELSE "parse"
  /\ UNCHANGED <<file, names, k, pending, left, scope, script>>

\* Only a declaration begins a statement. (No token is a kSEMICOLON.)
parse_statement ==
  /\ pc = "statement" /\ Consume
  /\ pc' = IF next.type = "kLOCAL" THEN "name" ELSE "unexpected"
  /\ UNCHANGED <<file, names, k, pending, left, scope, script>>

\* What is no name ends the statement without a word.
parse_name ==
  /\ pc = "name" /\ Consume
  /\ IF next.type = "kIDENTIFIER"
     THEN names' = <<next.text>> /\ pc' = "names"
     ELSE names' = names /\ pc' = "parse"
  /\ UNCHANGED <<file, k, pending, left, scope, script>>

\* Behind a name: a further one, or the first value.
parse_names ==
  /\ pc = "names" /\ Consume
  /\ CASE next.type = "kCOMMA"  -> pc' = "more" /\ k' = k
       [] next.type = "kEQUALS" -> pc' = "unary" /\ k' = 1
       [] OTHER                 -> pc' = "unexpected" /\ k' = k
  /\ UNCHANGED <<file, names, pending, left, scope, script>>

\* A further name is whatever token comes.
parse_more ==
  /\ pc = "more" /\ Consume
  /\ names' = Append(names, next.text)
  /\ pc' = "names"
  /\ UNCHANGED <<file, k, pending, left, scope, script>>

\* atof: a dot at the end adds nothing. (No digit is a zero here.)
atof(str) == IF Last(str) = "." THEN Front(str) ELSE str

literal_of(t) == IF t.type = "kLIT_NUMBER" THEN Literal([number |-> atof(t.text)])
                                           ELSE Literal([string |-> t.text])

parse_unary_expr ==
  /\ pc = "unary" /\ Consume
  /\ IF next.type \in {"kLIT_STRING", "kLIT_NUMBER"}
     THEN left' = {literal_of(next)} /\ pc' = "operator"
     ELSE left' = left /\ pc' = "unexpected"
  /\ UNCHANGED <<file, names, k, pending, scope, script>>

\* Mutant: the token behind an expression is not put back.
parse_operatorLossy ==
  /\ pc = "operator"
  /\ \/ /\ next.type \in DOMAIN Opers /\ Consume
        /\ pending' = Append(pending, [left |-> left, oper |-> Opers[next.type]])
        /\ left' = {} /\ pc' = "unary"
     \/ /\ next.type \notin DOMAIN Opers /\ Consume
        /\ pc' = "init"
        /\ UNCHANGED <<pending, left>>
  /\ UNCHANGED <<file, names, k, scope, script>>

\* The loop of parse_binary_expr: an operator makes a call of its own for the
\* right operand; anything else is put back, and the call returns to the one
\* that waits for the operand, which meets the token again.
parse_operator ==
  /\ pc = "operator"
  /\ \/ /\ next.type \in DOMAIN Opers /\ Consume
        /\ pending' = Append(pending, [left |-> left, oper |-> Opers[next.type]])
        /\ left' = {} /\ pc' = "unary"
     \/ /\ next.type \notin DOMAIN Opers /\ Deconsume /\ pending # <<>>
        /\ left' = {BinaryOp(Last(pending).oper, l, r) : l \in Last(pending).left, r \in left}
        /\ pending' = Front(pending) /\ pc' = pc
     \/ /\ next.type \notin DOMAIN Opers /\ Deconsume /\ pending = <<>>
        /\ pc' = "init"
        /\ UNCHANGED <<pending, left>>
  /\ UNCHANGED <<file, names, k, scope, script>>

\* local_scope_local_lookup compares up to the length of the declared name.
local_scope_local_lookup(name) == {i \in 1 .. Len(scope) : IsPrefix(scope[i].name, name)}

init_value == CHOOSE e \in left : TRUE

\* Mutant: one value too many.
MoreNamesWaitTwice == k <= Len(names)

MoreNamesWait == k < Len(names)

\* The value of a name: declare it, store it, and go on if more names wait.
parse_init ==
  /\ pc = "init"
  /\ IF local_scope_local_lookup(names[k]) # {}
     THEN /\ pc' = "duplicate"
          /\ UNCHANGED <<scope, script, k, left>>
     ELSE /\ scope' = Append(scope, [name |-> names[k],
                                     value |-> {e \in left : e.type = "literal"}])
          /\ script' = Append(script, StoreLocal(names[k], init_value))
          /\ left' = {}
          /\ IF MoreNamesWait THEN k' = k + 1 /\ pc' = "comma"
                             ELSE k' = 0 /\ pc' = "parse"
  /\ UNCHANGED <<file, pos, peek, names, pending, taken>>

parse_comma ==
  /\ pc = "comma" /\ Consume
  /\ pc' = IF next.type = "kCOMMA" THEN "unary" ELSE "unexpected"
  /\ UNCHANGED <<file, names, k, pending, left, scope, script>>

Next == \/ parse_while \/ parse_end \/ parse_statement \/ parse_name \/ parse_names
        \/ parse_more \/ parse_unary_expr \/ parse_operator \/ parse_init \/ parse_comma
        \/ read_forever

Spec == Init /\ [][Next]_vars
FrontendSpec == Spec /\ WF_vars(Next)
-----------------------------------------------------------------------------
Ended == pc \in {"done", "unexpected", "duplicate", "undefined"}

\* Between names and values, the loop index lies in the list; one expression is
\* at hand where one is used, and a held token was read from the file.
TypeOK ==
  /\ pos \in 1 .. Len(text) + 1
  /\ \A t \in peek : t.end = pos
  /\ pc \in {"unary", "operator", "init", "comma"} => k \in 1 .. Len(names)
  /\ pc \in {"operator", "init"} => left # {}
  /\ pc \notin {"unary", "operator", "unexpected", "endless"} => pending = <<>>
  /\ Len(script) = Len(scope) + IF pc = "done" THEN 1 ELSE 0

Spelling(t) == IF t.type = "kLIT_STRING" THEN <<"quote">> \o t.text \o <<"quote">> ELSE t.text
Visible(str) ==
  LET visible[i \in 0 .. Len(str)] == IF i = 0 THEN <<>>
                                      ELSE IF str[i] = "space" THEN visible[i - 1]
                                      ELSE Append(visible[i - 1], str[i])
  IN  visible[Len(str)]

\* However tokens are held back and met again, those used, and the one that is
\* held, spell what was read of the file: next_token and DECONSUME lose no
\* unit, repeat none and change no order.
TokensInOrder ==
  LET spelled(ts) == FlattenSeq([i \in 1 .. Len(ts) |-> Spelling(ts[i])])
  IN  Visible(spelled(taken) \o spelled(SetToSeq(peek))) = Visible(SubSeq(text, 1, pos - 1))

\* The file ends in white space, and no quote is in it.
PlainFile == /\ text # <<>>
             /\ Last(text) = "space"
             /\ "quote" \notin ToSet(text)

\* A file that ends with its last line is used to its end: parse's test of the
\* file never hides a token that is still held.
NothingDropped == pc = "done" /\ PlainFile => \A t \in peek : t.type = "kEOF"

\* No name of a script begins with the letters of a keyword, at which next_token
\* would cut it, or with an earlier name, which the lookup would take for it.
PlainNames(s) ==
  \A j \in DOMAIN s : /\ \A t \in DOMAIN Keywords : ~IsPrefix(Keywords[t], s[j].local)
                      /\ \A i \in DOMAIN s : i < j => ~IsPrefix(s[i].local, s[j].local)

\* A file written for a script of plain names gives that script's tree: lexer,
\* lookahead and statements together compute what Ast!parse says, several names
\* and all.
ParsesBack == Ended => \A s \in file.script : PlainNames(s) => pc = "done" /\ script = parse(s)

\* Other names are not read, but neither is a script taken for another one: what
\* is left of a name that was cut stops the parser, now or in the next statement,
\* before the file is through. (Unless "local" is in it and begins a declaration:
\* dolocala declares a.)
NeverMisread ==
  LET holds(str) == \E i \in 1 .. Len(str) : IsPrefix(Keywords.kLOCAL, SubSeq(str, i, Len(str)))
  IN  pc = "done" => \A s \in file.script : (\A j \in DOMAIN s : ~holds(s[j].local)) => script = parse(s)

\* The parser comes to an end of a file written for a script, and of any file
\* of whole lines without strings, right or wrong: no token is met for ever.
Finishes == (PlainFile \/ file.script # {}) ~> Ended
=============================================================================
