----------------------------- MODULE ScriptText -----------------------------
(***************************************************************************)
(* What it is for a text to be written for a script: the tokens of its     *)
(* declarations stand in the text one behind the other, with white space,  *)
(* or nothing, between them. Each has a mark that says where it stands and *)
(* for what. This is the reading that the parser is held against: it       *)
(* speaks of the text and the script, and of no step of the parser.        *)
(***************************************************************************)
EXTENDS Frontend

IsSequence(q) == Len(q) \in Nat /\ DOMAIN q = 1 .. Len(q)

\* A name begins with what begins a word, and holds nothing that ends one: the
\* letters of no keyword stand at its beginning.
IsName(str) == /\ str # <<>>
               /\ str[1] \notin Digits \cup {"quote"}
               /\ ToSet(str) \cap (Symbols \cup {"space"}) = {}
               /\ \A t \in DOMAIN Keywords : ~IsPrefix(Keywords[t], str)

\* A number begins with a digit and has at most one dot.
IsNumber(str) == /\ str # <<>> /\ str[1] \in Digits
                 /\ ToSet(str) \subseteq Digits \cup {"."}
                 /\ \A i, j \in DOMAIN str : str[i] = "." /\ str[j] = "." => i = j

\* A string has a quote at both ends and no other.
IsQuoted(str) == /\ Len(str) >= 2 /\ str[1] = "quote" /\ str[Len(str)] = "quote"
                 /\ \A i \in 2 .. Len(str) - 1 : str[i] # "quote"

\* The text of a literal with the value v.
IsLiteral(str, v) == \/ IsNumber(str) /\ v = [number |-> atof(str)]
                     \/ IsQuoted(str) /\ v = [string |-> SubSeq(str, 2, Len(str) - 1)]

\* Statements with an operator between any two literals, and names of which
\* the lookup of local_scope takes none for an earlier one.
IsScript(s) ==
  /\ IsSequence(s) /\ Len(s) > 0
  /\ \A j \in DOMAIN s : IsSequence(s[j].lits) /\ Len(s[j].lits) > 0 /\ Len(s[j].opers) = Len(s[j].lits) - 1
  /\ \A i, j \in DOMAIN s : i < j => ~IsPrefix(s[i].local, s[j].local)

(***************************************************************************)
(* A mark says what its token is (role), where it begins and ends, the     *)
(* statements of its declaration (first to last), the statement that it is *)
(* for and, of a literal or operator, its place in there.                  *)
(***************************************************************************)
IsMark(s, t) ==
  /\ t.first \in DOMAIN s /\ t.last \in DOMAIN s /\ t.stmt \in t.first .. t.last
  /\ t.role \in {"literal", "operator"} => t.item \in DOMAIN s[t.stmt].lits
  /\ t.role = "operator" => t.item < Len(s[t.stmt].lits)
  /\ t.role = "local" => t.stmt = t.first

Ends(s, t) == t.role = "literal" /\ t.item = Len(s[t.stmt].lits)    \* its expression
Closes(s, t) == Ends(s, t) /\ t.stmt = t.last                         \* its declaration

\* Token u may come behind token t within a declaration: names, "=", expressions.
Continues(s, t, u) ==
  /\ u.first = t.first /\ u.last = t.last
  /\ \/ t.role = "local"    /\ u.role = "name"     /\ u.stmt = t.stmt
     \/ t.role = "name"     /\ u.role = "further"  /\ u.stmt = t.stmt + 1
     \/ t.role = "further"  /\ u.role = "name"     /\ u.stmt = t.stmt
     \/ t.role = "name"     /\ u.role = "equals"   /\ t.stmt = t.last /\ u.stmt = t.first
     \/ t.role = "equals"   /\ u.role = "literal"  /\ u.stmt = t.stmt /\ u.item = 1
     \/ t.role = "literal"  /\ u.role = "operator" /\ u.stmt = t.stmt /\ u.item = t.item
     \/ t.role = "operator" /\ u.role = "literal"  /\ u.stmt = t.stmt /\ u.item = t.item + 1
     \/ Ends(s, t)          /\ u.role = "comma"    /\ u.stmt = t.stmt + 1
     \/ t.role = "comma"    /\ u.role = "literal"  /\ u.stmt = t.stmt /\ u.item = 1

\* Or it begins the next one.
Follows(s, t, u) == \/ Continues(s, t, u)
                    \/ Closes(s, t) /\ u.role = "local" /\ u.first = t.last + 1

\* What a token is spelled like.
Spells(s, t, str) ==
  \/ t.role = "local"    /\ str = Keywords.kLOCAL
  \/ t.role = "name"     /\ str = s[t.stmt].local /\ IsName(str)
  \/ t.role = "equals"   /\ str = <<"=">>
  \/ t.role \in {"further", "comma"} /\ str = <<",">>
  \/ t.role = "operator" /\ \E u \in DOMAIN Opers : str = <<u>> /\ Opers[u] = s[t.stmt].opers[t.item]
  \/ t.role = "literal"  /\ IsLiteral(str, s[t.stmt].lits[t.item])

White(str, from, to) == \A r \in from .. to : str[r] = "space"

TextOf(str, t) == SubSeq(str, t.begin, t.end - 1)

\* The text str was written for the script s; marks says which token is where.
IsWritten(str, s, marks) ==
  /\ IsScript(s) /\ IsSequence(marks) /\ Len(marks) > 0
  /\ \A i \in DOMAIN marks :
       /\ IsMark(s, marks[i])
       /\ marks[i].begin \in DOMAIN str /\ marks[i].end \in marks[i].begin + 1 .. Len(str) + 1
       /\ Spells(s, marks[i], TextOf(str, marks[i]))
  /\ White(str, 1, marks[1].begin - 1) /\ marks[1].role = "local" /\ marks[1].first = 1
  /\ \A i \in 2 .. Len(marks) : /\ marks[i - 1].end <= marks[i].begin
                                /\ White(str, marks[i - 1].end, marks[i].begin - 1)
                                /\ Follows(s, marks[i - 1], marks[i])
  /\ White(str, Last(marks).end, Len(str)) /\ Closes(s, Last(marks)) /\ Last(marks).last = Len(s)

\* What a file gives as its script is what its text was written for, if the
\* names are plain.
FilesFit == \A f \in Files : \A s \in f.script : PlainNames(s) => \E marks : IsWritten(f.text, s, marks)
=============================================================================
