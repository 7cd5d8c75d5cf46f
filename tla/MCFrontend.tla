----------------------------- MODULE MCFrontend -----------------------------
(***************************************************************************)
(* All short files over a small alphabet, all short ends of a declaration, *)
(* and the files written for scripts.                                      *)
(***************************************************************************)
EXTENDS ScriptText, TLC

CONSTANTS MaxRuns,    \* of an arbitrary file
          MaxEnd      \* of an arbitrary end

\* Runs of units: "and" is a keyword that two of them make.
Runs == {<<"n", "d">>, Keywords.kLOCAL}
        \cup {<<u>> : u \in {"a", "1", ".", ",", "=", "+", "quote", "space"}}

\* The units of all runs, and the letters and symbols of scripts.
MCUnits == UNION {ToSet(run) : run \in Runs} \cup {"b", "e", "f", "i", "x", "2"} \cup DOMAIN Opers

Arbitrary == {FlattenSeq(runs) : runs \in BoundedSeq(Runs, MaxRuns)}
             \cup {Keywords.kLOCAL \o <<"a", "=", "1">> \o FlattenSeq(end) \o <<"space">> :
                     end \in BoundedSeq(Runs \ {<<"quote">>, <<".">>}, MaxEnd)}

\* Declarations: names, and an expression for each.
Number(str) == [number |-> str]
Exprs == {[lits |-> <<Number(<<"1">>)>>, opers |-> <<>>],
          [lits |-> <<Number(<<"1", "2">>), Number(<<"2", ".", "1">>)>>, opers |-> <<"sub">>],
          [lits |-> <<[string |-> <<"a", "space", ",">>], Number(<<"1">>), Number(<<"2">>)>>,
           opers |-> <<"add", "div">>]}
Decls == {d \in [names : {<<<<"a">>>>, <<<<"b", "a", "n", "d">>, <<"b">>>>}, inits : BoundedSeq(Exprs, 2)] :
            Len(d.names) = Len(d.inits)}
Decls2 == {d \in [names : {<<<<"c", "1">>>>, <<<<"d">>, <<"e", "n">>>>}, inits : BoundedSeq(Exprs, 2)] :
            Len(d.names) = Len(d.inits)}
Scripts == {<<d>> : d \in Decls} \cup {<<d, e>> : d \in Decls, e \in Decls2}

Statements(d) == [i \in 1 .. Len(d.names) |->
                    [local |-> d.names[i], lits |-> d.inits[i].lits, opers |-> d.inits[i].opers]]

\* Text: tokens with a gap between them, or none, and a line's end.
Spell(lit) == IF "number" \in DOMAIN lit THEN lit.number
              ELSE <<"quote">> \o lit.string \o <<"quote">>
Sign(oper) == CHOOSE u \in DOMAIN Opers : Opers[u] = oper
Joined(strs, gap) == FlattenSeq([i \in 1 .. Len(strs) |-> IF i = 1 THEN strs[i] ELSE gap \o strs[i]])
ExprText(e, gap) ==
  FlattenSeq([i \in 1 .. Len(e.lits) |->
                IF i = 1 THEN Spell(e.lits[i])
                ELSE gap \o <<Sign(e.opers[i - 1])>> \o gap \o Spell(e.lits[i])])
DeclText(d, gap) == Keywords.kLOCAL \o <<"space">> \o Joined(d.names, gap \o <<",">> \o gap)
                    \o gap \o <<"=">> \o gap
                    \o Joined([i \in 1 .. Len(d.inits) |-> ExprText(d.inits[i], gap)], <<",">> \o gap)
                    \o <<"space">>

ScriptsText(s, gap) == FlattenSeq([i \in 1 .. Len(s) |-> DeclText(s[i], gap)])
ScriptsTree(s) == FlattenSeq([i \in 1 .. Len(s) |-> Statements(s[i])])
Gaps == {<<>>, <<"space">>}

\* Declarations of Lua outside ScriptText: names that begin with a keyword (index,
\* done, band behind b, dolocala), in each place of a list and in front of a
\* declaration without them.
One == [lits |-> <<Number(<<"1">>)>>, opers |-> <<>>]
Declares(strs) == [names |-> strs, inits |-> [i \in DOMAIN strs |-> One]]
LuaNames == {<<<<"i", "n", "d", "e", "x">>>>, <<<<"d", "o", "n", "e">>, <<"b">>>>, <<<<"b">>, <<"d", "o", "n", "e">>>>,
             <<<<"b">>, <<"b", "a", "n", "d">>>>, <<<<"d", "o">> \o Keywords.kLOCAL \o <<"a">>>>}
LuaScripts == {<<Declares(strs)>> : strs \in LuaNames} \cup {<<Declares(strs), Declares(<<<<"f">>>>)>> : strs \in LuaNames}

Written == {[text |-> ScriptsText(s, gap), script |-> {ScriptsTree(s)}] : s \in Scripts \cup LuaScripts, gap \in Gaps}

MCFiles == Written \cup {[text |-> t, script |-> {}] : t \in Arbitrary}

\* The marks of a declaration behind n statements, in order, and their texts.
DeclMarks(d, n) ==
  LET last == Len(d.names)
      mark(role, i, item, str) == [role |-> role, stmt |-> n + i, item |-> item, first |-> n + 1,
                                   last |-> n + last, str |-> str]
      name(i)  == <<mark("name", i, 0, d.names[i])>>
      lit(i, j) == <<mark("literal", i, j, Spell(d.inits[i].lits[j]))>>
      expr(i) == FlattenSeq([j \in 1 .. Len(d.inits[i].lits) |->
                   IF j = 1 THEN lit(i, j)
                   ELSE <<mark("operator", i, j - 1, <<Sign(d.inits[i].opers[j - 1])>>)>> \o lit(i, j)])
  IN  <<mark("local", 1, 0, Keywords.kLOCAL)>>
      \o FlattenSeq([i \in 1 .. last |-> IF i = 1 THEN name(i) ELSE <<mark("further", i, 0, <<",">>)>> \o name(i)])
      \o <<mark("equals", 1, 0, <<"=">>)>>
      \o FlattenSeq([i \in 1 .. last |-> IF i = 1 THEN expr(i) ELSE <<mark("comma", i, 0, <<",">>)>> \o expr(i)])

\* Each token stands where the white space behind the last one ends.
Placed(marks, str) ==
  LET from(end) == CHOOSE b \in end .. Len(str) : str[b] # "space" /\ \A r \in end .. b - 1 : str[r] = "space"
      begin[i \in 1 .. Len(marks)] == from(IF i = 1 THEN 1 ELSE begin[i - 1] + Len(marks[i - 1].str))
  IN  [i \in 1 .. Len(marks) |-> [begin |-> begin[i], end |-> begin[i] + Len(marks[i].str)] @@ marks[i]]

MarksOf(s, gap) ==
  LET before(i) == SumFunction([j \in 1 .. i - 1 |-> Len(s[j].names)])
  IN  Placed(FlattenSeq([i \in 1 .. Len(s) |-> DeclMarks(s[i], before(i))]), ScriptsText(s, gap))

\* The files written for scripts are written so. That they are parsed back is proved of all such files.
ASSUME FilesWritten ==
  \A s \in Scripts, gap \in Gaps : IsWritten(ScriptsText(s, gap), ScriptsTree(s), MarksOf(s, gap))
=============================================================================
