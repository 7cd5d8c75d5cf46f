--------------------------- MODULE FrontendProofs ---------------------------
(***************************************************************************)
(* For any set of files: however tokens are held back and met again, those *)
(* that the parser used and the one that is held spell what was read of    *)
(* the file; a file that ends with its last line is used to its end; and   *)
(* the parser always has the names, operands and values that its place     *)
(* in the code takes for granted, and makes a program of them. And of each *)
(* file that was written for a script (ScriptText) it makes that script's  *)
(* tree.                                                                   *)
(*                                                                         *)
(* First come the recursive functions of Frontend and SequencesExt, of     *)
(* which induction shows how they treat one string behind another; then    *)
(* the loops of next_token and the token it gives; then the steps; last,   *)
(* how far the parser is in a file that was written for a script.          *)
(***************************************************************************)
EXTENDS ScriptText, SequenceTheorems, FiniteSetTheorems, WellFoundedInduction, TLAPS

\* Every set of numbers has a least one; the library's well-founded order says
\* so, and induction on the numbers up to n follows.
LEMMA LeastNumber ==
  ASSUME NEW S \in SUBSET Nat, S # {}
  PROVE  \E n \in S : \A m \in S : n <= m
<1> DEFINE R == OpToRel(<, Nat)
<1>1. IsWellFoundedOn(R, Nat)
  BY NatLessThanWellFounded
<1>2. \A m, n \in Nat : m < n => <<m, n>> \in R
  BY DEF OpToRel
<1> HIDE DEF R
<1>3. PICK n \in S : \A m \in S : ~ (<<m, n>> \in R)
  BY <1>1, WFMin
<1>4. ASSUME NEW m \in S PROVE n <= m
  <2>1. m \in Nat /\ n \in Nat
    OBVIOUS
  <2>2. ~ (m < n)
    BY <1>2, <1>3, <2>1, Zenon
  <2> QED  BY <2>1, <2>2
<1> QED  BY <1>4

\* What holds of a number when it holds of the smaller ones holds of all.
LEMMA Induction ==
  ASSUME NEW n \in Nat, NEW S, \A i \in 0 .. n : (\A j \in 0 .. i - 1 : j \in S) => i \in S
  PROVE  \A i \in 0 .. n : i \in S
<1> DEFINE Bad == {i \in 0 .. n : i \notin S}
<1> SUFFICES ASSUME Bad # {} PROVE FALSE
  OBVIOUS
<1>1. Bad \in SUBSET Nat
  OBVIOUS
<1>2. PICK i \in Bad : \A m \in Bad : i <= m
  <2> HIDE DEF Bad
  <2> QED  BY <1>1, LeastNumber
<1>3. \A j \in 0 .. i - 1 : j \in 0 .. n /\ ~ (i <= j)
  OBVIOUS
<1> QED  BY <1>2, <1>3

\* Strings of units.
Strs == Seq(Units)

\* To append to the second of two strings is to append to both.
LEMMA AppendConcat ==
  ASSUME NEW a \in Strs, NEW b \in Strs, NEW x \in Units
  PROVE  Append(a \o b, x) = a \o Append(b, x)
<1> DEFINE m == Len(a)
           n == Len(b)
           u == a \o b
           v == Append(b, x)
<1>1. m \in Nat /\ n \in Nat
  BY LenProperties DEF Strs
<1>2. u \in Strs /\ Len(u) = m + n /\ \A i \in 1 .. m + n : u[i] = IF i <= m THEN a[i] ELSE b[i - m]
  BY ConcatProperties DEF Strs
<1>3. v \in Strs /\ Len(v) = n + 1 /\ v[n + 1] = x /\ \A i \in 1 .. n : v[i] = b[i]
  BY AppendProperties DEF Strs
<1> HIDE DEF m, n, u, v
<1>4. /\ Append(u, x) \in Strs /\ Len(Append(u, x)) = m + n + 1
      /\ Append(u, x)[m + n + 1] = x /\ \A i \in 1 .. m + n : Append(u, x)[i] = u[i]
  BY <1>1, <1>2, AppendProperties DEF Strs
<1>5. /\ a \o v \in Strs /\ Len(a \o v) = m + n + 1
      /\ \A i \in 1 .. m + n + 1 : (a \o v)[i] = IF i <= m THEN a[i] ELSE v[i - m]
  <2>1. /\ a \o v \in Strs /\ Len(a \o v) = m + Len(v)
        /\ \A i \in 1 .. m + Len(v) : (a \o v)[i] = IF i <= m THEN a[i] ELSE v[i - m]
    BY <1>3, ConcatProperties DEF m, Strs
  <2>2. m + Len(v) = m + n + 1
    BY <1>1, <1>3
  <2> QED  BY <2>1, <2>2
<1>6. ASSUME NEW i \in 1 .. m + n + 1 PROVE Append(u, x)[i] = (a \o v)[i]
  <2>1. CASE i <= m
    BY <1>1, <1>2, <1>4, <1>5, <2>1
  <2>2. CASE i > m /\ i <= m + n
    <3>1. i - m \in 1 .. n /\ i \in 1 .. m + n /\ ~(i <= m)
      BY <1>1, <2>2
    <3> QED  BY <1>2, <1>3, <1>4, <1>5, <3>1
  <2>3. CASE i = m + n + 1
    <3>1. i - m = n + 1 /\ ~(i <= m)
      BY <1>1, <2>3
    <3> QED  BY <1>3, <1>4, <1>5, <2>3, <3>1
  <2>4. i <= m \/ (i > m /\ i <= m + n) \/ i = m + n + 1
    BY <1>1
  <2> QED  BY <2>1, <2>2, <2>3, <2>4
<1>7. Append(u, x) = a \o v
  BY <1>4, <1>5, <1>6, SeqEqual DEF Strs
<1> QED  BY <1>7 DEF u, v

\* The length and the units of a string.
LEMMA LengthOfStr ==
  ASSUME NEW s \in Strs
  PROVE  Len(s) \in Nat /\ DOMAIN s = 1 .. Len(s) /\ \A i \in 1 .. Len(s) : s[i] \in Units
  BY DEF Strs

\* f[i] is what can be seen of the first i units of s.
IsVisible(f, s) == /\ f[0] = <<>>
                   /\ \A i \in 1 .. Len(s) : f[i] = IF s[i] = "space" THEN f[i - 1] ELSE Append(f[i - 1], s[i])

VisibleFunction(f, s) == f = [i \in 0 .. Len(s) |-> IF i = 0 THEN <<>>
                                                    ELSE IF s[i] = "space" THEN f[i - 1]
                                                    ELSE Append(f[i - 1], s[i])]

\* There is such a function.
LEMMA VisibleExists ==
  ASSUME NEW s, Len(s) \in Nat
  PROVE  \E f : VisibleFunction(f, s)
<1> DEFINE n == Len(s)
           Body(g, i) == IF i = 0 THEN <<>> ELSE IF s[i] = "space" THEN g[i - 1] ELSE Append(g[i - 1], s[i])
           UpTo(g, m) == \A i \in 0 .. m : g[i] = Body(g, i)
           Good == {m \in 0 .. n : \E g : UpTo(g, m)}
<1>1. ASSUME NEW m \in 0 .. n, \A j \in 0 .. m - 1 : j \in Good
      PROVE  m \in Good
  <2>1. CASE m = 0
    <3>1. UpTo([i \in 0 .. n |-> <<>>], 0)
      OBVIOUS
    <3> QED  BY <2>1, <3>1
  <2>2. CASE m # 0
    <3>1. PICK g : UpTo(g, m - 1)
      <4>1. m - 1 \in 0 .. m - 1
        BY <2>2
      <4> QED  BY <1>1, <4>1
    <3> DEFINE h == [i \in 0 .. n |-> IF i = m THEN Body(g, m) ELSE g[i]]
    <3>2. ASSUME NEW i \in 0 .. m PROVE h[i] = Body(h, i)
      <4>1. CASE i = m
        BY <2>2, <4>1
      <4>2. CASE i # m
        <5>1. i \in 0 .. m - 1 /\ i \in 0 .. n /\ (i # 0 => i - 1 \in 0 .. n /\ i - 1 # m)
          BY <4>2
        <5>2. h[i] = g[i] /\ (i # 0 => h[i - 1] = g[i - 1])
          BY <4>2, <5>1
        <5> QED  BY <3>1, <5>1, <5>2
      <4> QED  BY <4>1, <4>2
    <3> HIDE DEF h
    <3>3. UpTo(h, m)
      BY <3>2
    <3> QED  BY <3>3
  <2> QED  BY <2>1, <2>2
<1>2. n \in Good
  <2> HIDE DEF Good
  <2>1. \A m \in 0 .. n : m \in Good
    BY <1>1, Induction
  <2> QED  BY <2>1
<1>3. PICK g : UpTo(g, n)
  BY <1>2
<1> DEFINE f == [i \in 0 .. n |-> g[i]]
<1>4. f = [i \in 0 .. n |-> Body(f, i)]
  <2>1. \A i \in 0 .. n : f[i] = Body(f, i)
    BY <1>3
  <2> QED  BY <2>1
<1> QED  BY <1>4 DEF VisibleFunction

\* Visible is its last value.
LEMMA VisibleIs ==
  ASSUME NEW s, Len(s) \in Nat
  PROVE  \E f : IsVisible(f, s) /\ Visible(s) = f[Len(s)]
<1> DEFINE visible == CHOOSE f : f = [i \in 0 .. Len(s) |-> IF i = 0 THEN <<>>
                                                            ELSE IF s[i] = "space" THEN f[i - 1]
                                                            ELSE Append(f[i - 1], s[i])]
<1>1. visible = [i \in 0 .. Len(s) |-> IF i = 0 THEN <<>>
                                       ELSE IF s[i] = "space" THEN visible[i - 1]
                                       ELSE Append(visible[i - 1], s[i])]
  <2>1. PICK g : VisibleFunction(g, s)
    BY VisibleExists
  <2>2. g = [i \in 0 .. Len(s) |-> IF i = 0 THEN <<>>
                                   ELSE IF s[i] = "space" THEN g[i - 1]
                                   ELSE Append(g[i - 1], s[i])]
    BY <2>1 DEF VisibleFunction
  <2> QED  BY <2>2
<1>2. IsVisible(visible, s)
  <2> HIDE DEF visible
  <2> DEFINE F == [i \in 0 .. Len(s) |-> IF i = 0 THEN <<>>
                                         ELSE IF s[i] = "space" THEN visible[i - 1]
                                         ELSE Append(visible[i - 1], s[i])]
  <2>1. visible = F
    BY <1>1
  <2>2. \A i \in 0 .. Len(s) : F[i] = IF i = 0 THEN <<>>
                                      ELSE IF s[i] = "space" THEN visible[i - 1]
                                      ELSE Append(visible[i - 1], s[i])
    OBVIOUS
  <2> HIDE DEF F
  <2> QED  BY <2>1, <2>2 DEF IsVisible
<1>3. Visible(s) = visible[Len(s)]
  BY DEF Visible
<1> QED  BY <1>2, <1>3

\* Its values are strings.
LEMMA VisibleTypes ==
  ASSUME NEW s \in Strs, NEW f, IsVisible(f, s)
  PROVE  \A i \in 0 .. Len(s) : f[i] \in Strs
<1> DEFINE n == Len(s)
           Good == {m \in 0 .. n : f[m] \in Strs}
<1>0. n \in Nat /\ \A i \in 1 .. n : s[i] \in Units
  BY LengthOfStr
<1>1. ASSUME NEW m \in 0 .. n, \A j \in 0 .. m - 1 : j \in Good
      PROVE  m \in Good
  <2>1. CASE m = 0
    <3>1. <<>> \in Strs /\ f[0] = <<>>
      BY DEF IsVisible, Strs
    <3> QED  BY <2>1, <3>1
  <2>2. CASE m # 0
    <3>1. m - 1 \in 0 .. m - 1 /\ m \in 1 .. n
      BY <1>0, <2>2
    <3>2. f[m - 1] \in Strs /\ s[m] \in Units
      BY <1>0, <1>1, <3>1
    <3>3. Append(f[m - 1], s[m]) \in Strs
      BY <3>2 DEF Strs
    <3>4. f[m] \in {f[m - 1], Append(f[m - 1], s[m])}
      BY <3>1 DEF IsVisible
    <3> QED  BY <3>2, <3>3, <3>4
  <2> QED  BY <1>0, <2>1, <2>2
<1> HIDE DEF Good, n
<1>2. \A m \in 0 .. n : m \in Good
  BY <1>0, <1>1, Induction
<1> QED  BY <1>2 DEF Good, n

\* What can be seen of s and t is what can be seen of s and then of t.
LEMMA VisibleConcat ==
  ASSUME NEW s \in Strs, NEW t \in Strs
  PROVE  /\ s \o t \in Strs
         /\ Visible(s) \in Strs
         /\ Visible(s \o t) = Visible(s) \o Visible(t)
<1> DEFINE l == Len(s)
           n == Len(t)
           u == s \o t
<1>1. /\ l \in Nat /\ n \in Nat /\ u \in Strs /\ Len(u) = l + n
      /\ \A i \in 1 .. l : u[i] = s[i]
      /\ \A i \in 1 .. n : u[l + i] = t[i]
  BY ConcatProperties DEF Strs
<1>2. PICK f : IsVisible(f, s) /\ Visible(s) = f[l]
  BY <1>1, VisibleIs
<1>3. PICK g : IsVisible(g, t) /\ Visible(t) = g[n]
  BY <1>1, VisibleIs
<1>4. PICK h : IsVisible(h, u) /\ Visible(u) = h[l + n]
  <2>1. Len(u) \in Nat /\ Len(u) = l + n
    BY <1>1
  <2> HIDE DEF u, l, n
  <2> QED  BY <2>1, VisibleIs
<1>5. /\ \A i \in 0 .. l : f[i] \in Strs
      /\ \A i \in 0 .. n : g[i] \in Strs
  BY <1>2, <1>3, VisibleTypes
<1>6. Visible(s) \in Strs
  BY <1>1, <1>2, <1>5
<1> HIDE DEF l, n, u
<1>7. \A i \in 0 .. l : h[i] = f[i]
  <2> DEFINE Good == {m \in 0 .. l : h[m] = f[m]}
  <2>1. ASSUME NEW m \in 0 .. l, \A j \in 0 .. m - 1 : j \in Good
        PROVE  m \in Good
    <3>1. CASE m = 0
      BY <1>2, <1>4, <3>1 DEF IsVisible
    <3>2. CASE m # 0
      <4>1. m - 1 \in 0 .. m - 1 /\ m \in 1 .. l /\ m \in 1 .. Len(u)
        BY <1>1, <3>2
      <4>2. h[m - 1] = f[m - 1] /\ u[m] = s[m]
        BY <1>1, <2>1, <4>1
      <4>3. m \in 1 .. Len(s)
        BY <4>1 DEF l
      <4> QED  BY <1>2, <1>4, <4>1, <4>2, <4>3 DEF IsVisible
    <3> QED  BY <3>1, <3>2
  <2> HIDE DEF Good
  <2>2. \A m \in 0 .. l : m \in Good
    BY <1>1, <2>1, Induction
  <2> QED  BY <2>2 DEF Good
<1>8. \A i \in 0 .. n : h[l + i] = f[l] \o g[i]
  <2> DEFINE Good == {m \in 0 .. n : h[l + m] = f[l] \o g[m]}
  <2>0. f[l] \in Strs
    BY <1>2, <1>6
  <2>1. ASSUME NEW m \in 0 .. n, \A j \in 0 .. m - 1 : j \in Good
        PROVE  m \in Good
    <3>1. CASE m = 0
      <4>1. g[0] = <<>> /\ l + 0 = l /\ l \in 0 .. l
        BY <1>1, <1>3 DEF IsVisible
      <4>2. f[l] \o <<>> = f[l]
        BY <2>0 DEF Strs
      <4> QED  BY <1>7, <3>1, <4>1, <4>2
    <3>2. CASE m # 0
      <4>1. m - 1 \in 0 .. m - 1 /\ m \in 1 .. n /\ l + m \in 1 .. Len(u) /\ (l + m) - 1 = l + (m - 1) /\ m - 1 \in 0 .. n
        BY <1>1, <3>2
      <4>2. h[l + (m - 1)] = f[l] \o g[m - 1] /\ u[l + m] = t[m]
        BY <1>1, <2>1, <4>1
      <4>3. m \in 1 .. Len(t)
        BY <4>1 DEF n
      <4>4. /\ h[l + m] = IF t[m] = "space" THEN h[l + (m - 1)] ELSE Append(h[l + (m - 1)], t[m])
            /\ g[m] = IF t[m] = "space" THEN g[m - 1] ELSE Append(g[m - 1], t[m])
        BY <1>3, <1>4, <4>1, <4>2, <4>3 DEF IsVisible
      <4>5. g[m - 1] \in Strs /\ t[m] \in Units
        BY <1>5, <4>1, <4>3, LengthOfStr
      <4>6. Append(f[l] \o g[m - 1], t[m]) = f[l] \o Append(g[m - 1], t[m])
        BY <2>0, <4>5, AppendConcat
      <4> QED  BY <4>2, <4>4, <4>6
    <3> QED  BY <3>1, <3>2
  <2> HIDE DEF Good
  <2>2. \A m \in 0 .. n : m \in Good
    BY <1>1, <2>1, Induction
  <2> QED  BY <2>2 DEF Good
<1>9. n \in 0 .. n
  BY <1>1
<1>10. Visible(u) = Visible(s) \o Visible(t)
  BY <1>2, <1>3, <1>4, <1>8, <1>9
<1> QED  BY <1>1, <1>6, <1>10 DEF u

\* White space cannot be seen.
LEMMA SpacesVanish ==
  ASSUME NEW s \in Strs, \A i \in 1 .. Len(s) : s[i] = "space"
  PROVE  Visible(s) = <<>>
<1> DEFINE n == Len(s)
<1>1. n \in Nat
  BY LengthOfStr
<1>2. PICK f : IsVisible(f, s) /\ Visible(s) = f[n]
  BY <1>1, VisibleIs
<1> DEFINE Good == {m \in 0 .. n : f[m] = <<>>}
<1>3. ASSUME NEW m \in 0 .. n, \A j \in 0 .. m - 1 : j \in Good
      PROVE  m \in Good
  <2>1. CASE m = 0
    BY <1>2, <2>1 DEF IsVisible
  <2>2. CASE m # 0
    <3>1. m - 1 \in 0 .. m - 1 /\ m \in 1 .. n
      BY <1>1, <2>2
    <3>2. f[m - 1] = <<>> /\ s[m] = "space"
      BY <1>3, <3>1
    <3> QED  BY <1>2, <3>1, <3>2 DEF IsVisible
  <2> QED  BY <2>1, <2>2
<1> HIDE DEF Good, n
<1>4. \A m \in 0 .. n : m \in Good
  BY <1>1, <1>3, Induction
<1> QED  BY <1>1, <1>2, <1>4 DEF Good
-----------------------------------------------------------------------------
Types == Units \cup {"endless", "kEOF", "kCOMMA", "kEQUALS", "kLIT_STRING", "kLIT_NUMBER", "kIDENTIFIER"}
         \cup DOMAIN Keywords
Tokens == [type : Types, text : Strs, end : Nat]
Spelled(ts) == FlattenSeq([i \in 1 .. Len(ts) |-> Spelling(ts[i])])

\* The spelling of a token is a string, quotes and all.
LEMMA SpellingTypes ==
  ASSUME NEW t \in Tokens
  PROVE  Spelling(t) \in Strs
<1> PICK s : s = t.text
  OBVIOUS
<1>1. s \in Strs
  BY DEF Tokens
<1>2. <<"quote">> \in Strs
  <2>2. \A u \in Units : <<u>> \in Seq(Units)
    OBVIOUS
  <2>3. "quote" \in Units
    BY FrontendAssumption
  <2> QED  BY <2>2, <2>3 DEF Strs
<1>3. <<"quote">> \o s \o <<"quote">> \in Strs
  <2> PICK q : q = <<"quote">>
    OBVIOUS
  <2>1. q \in Seq(Units) /\ s \in Seq(Units)
    BY <1>1, <1>2 DEF Strs
  <2>2. q \o s \in Seq(Units)
    BY <2>1, ConcatProperties, Zenon
  <2>3. (q \o s) \o q \in Seq(Units)
    BY <2>1, <2>2, ConcatProperties, Zenon
  <2> QED  BY <2>3 DEF Strs
<1> QED  BY <1>1, <1>3 DEF Spelling

\* f[i] is what the first i strings make.
IsFlat(f, s) == /\ Len(s) # 0 => f[1] = s[1]
                /\ \A i \in 2 .. Len(s) : f[i] = f[i - 1] \o s[i]

FlatFunction(f, s) == f = [i \in 1 .. Len(s) |-> IF i = 1 THEN s[i] ELSE f[i - 1] \o s[i]]

\* There is such a function.
LEMMA FlatExists ==
  ASSUME NEW s, Len(s) \in Nat
  PROVE  \E f : FlatFunction(f, s)
<1> DEFINE n == Len(s)
           Body(g, i) == IF i = 1 THEN s[i] ELSE g[i - 1] \o s[i]
           UpTo(g, m) == \A i \in 1 .. m : g[i] = Body(g, i)
           Good == {m \in 0 .. n : \E g : UpTo(g, m)}
<1>1. ASSUME NEW m \in 0 .. n, \A j \in 0 .. m - 1 : j \in Good
      PROVE  m \in Good
  <2>1. CASE m = 0
    <3>1. UpTo([i \in 1 .. n |-> <<>>], 0)
      OBVIOUS
    <3> QED  BY <2>1, <3>1
  <2>2. CASE m # 0
    <3>1. PICK g : UpTo(g, m - 1)
      <4>1. m - 1 \in 0 .. m - 1
        BY <2>2
      <4> QED  BY <1>1, <4>1
    <3> DEFINE h == [i \in 1 .. n |-> IF i = m THEN Body(g, m) ELSE g[i]]
    <3>2. ASSUME NEW i \in 1 .. m PROVE h[i] = Body(h, i)
      <4>1. CASE i = m
        <5>1. i \in 1 .. n /\ (i # 1 => i - 1 \in 1 .. n /\ i - 1 # m)
          BY <4>1
        <5>2. i # 1 => h[i - 1] = g[i - 1]
          BY <5>1
        <5> QED  BY <4>1, <5>1, <5>2
      <4>2. CASE i # m
        <5>1. i \in 1 .. m - 1 /\ i \in 1 .. n /\ (i # 1 => i - 1 \in 1 .. n /\ i - 1 # m)
          BY <4>2
        <5>2. h[i] = g[i] /\ (i # 1 => h[i - 1] = g[i - 1])
          BY <4>2, <5>1
        <5> QED  BY <3>1, <5>1, <5>2
      <4> QED  BY <4>1, <4>2
    <3> HIDE DEF h
    <3>3. UpTo(h, m)
      BY <3>2
    <3> QED  BY <3>3
  <2> QED  BY <2>1, <2>2
<1>2. n \in Good
  <2> HIDE DEF Good
  <2>1. \A m \in 0 .. n : m \in Good
    BY <1>1, Induction
  <2> QED  BY <2>1
<1>3. PICK g : UpTo(g, n)
  BY <1>2
<1> DEFINE f == [i \in 1 .. n |-> g[i]]
<1>4. f = [i \in 1 .. n |-> Body(f, i)]
  <2>1. \A i \in 1 .. n : f[i] = Body(f, i)
    BY <1>3
  <2> QED  BY <2>1
<1> QED  BY <1>4 DEF FlatFunction

\* FlattenSeq is its last value.
LEMMA FlatIs ==
  ASSUME NEW s, Len(s) \in Nat \ {0}
  PROVE  \E f : IsFlat(f, s) /\ FlattenSeq(s) = f[Len(s)]
<1> DEFINE flatten == CHOOSE f : f = [i \in 1 .. Len(s) |-> IF i = 1 THEN s[i] ELSE f[i - 1] \o s[i]]
<1>1. flatten = [i \in 1 .. Len(s) |-> IF i = 1 THEN s[i] ELSE flatten[i - 1] \o s[i]]
  <2>1. PICK g : FlatFunction(g, s)
    BY FlatExists
  <2>2. g = [i \in 1 .. Len(s) |-> IF i = 1 THEN s[i] ELSE g[i - 1] \o s[i]]
    BY <2>1 DEF FlatFunction
  <2> QED  BY <2>2
<1>2. IsFlat(flatten, s)
  <2> HIDE DEF flatten
  <2> DEFINE F == [i \in 1 .. Len(s) |-> IF i = 1 THEN s[i] ELSE flatten[i - 1] \o s[i]]
  <2>1. flatten = F
    BY <1>1
  <2>2. \A i \in 1 .. Len(s) : F[i] = IF i = 1 THEN s[i] ELSE flatten[i - 1] \o s[i]
    OBVIOUS
  <2> HIDE DEF F
  <2>3. \A i \in 1 .. Len(s) : flatten[i] = IF i = 1 THEN s[i] ELSE flatten[i - 1] \o s[i]
    BY <2>1, <2>2
  <2>4. 1 \in 1 .. Len(s) /\ flatten[1] = s[1]
    BY <2>3
  <2>5. \A i \in 2 .. Len(s) : i \in 1 .. Len(s) /\ i # 1
    OBVIOUS
  <2>6. \A i \in 2 .. Len(s) : flatten[i] = flatten[i - 1] \o s[i]
    BY <2>3, <2>5
  <2> QED  BY <2>4, <2>6 DEF IsFlat
<1>3. FlattenSeq(s) = flatten[Len(s)]
  BY DEF FlattenSeq
<1> QED  BY <1>2, <1>3

\* One token more.
LEMMA SpelledGrows ==
  ASSUME NEW ts \in Seq(Tokens), NEW t \in Tokens
  PROVE  /\ Spelled(ts) \in Strs
         /\ Spelled(Append(ts, t)) = Spelled(ts) \o Spelling(t)
<1> DEFINE n == Len(ts)
           us == Append(ts, t)
           a == [i \in 1 .. Len(ts) |-> Spelling(ts[i])]
           b == [i \in 1 .. Len(us) |-> Spelling(us[i])]
<1>1. n \in Nat /\ us \in Seq(Tokens) /\ Len(us) = n + 1 /\ us[n + 1] = t /\ \A i \in 1 .. n : us[i] = ts[i] /\ ts[i] \in Tokens
  BY LenProperties, AppendProperties, ElementOfSeq
<1>2. /\ Len(a) = n /\ \A i \in 1 .. n : a[i] = Spelling(ts[i])
      /\ Len(b) = n + 1 /\ \A i \in 1 .. n + 1 : b[i] = Spelling(us[i])
  <2> HIDE DEF us
  <2> QED  BY <1>1
<1>3. Spelled(ts) = FlattenSeq(a) /\ Spelled(us) = FlattenSeq(b)
  BY DEF Spelled
<1>4. Spelling(t) \in Strs /\ \A i \in 1 .. n : Spelling(ts[i]) \in Strs
  BY <1>1, SpellingTypes
<1> HIDE DEF n, us, a, b
<1>5. b[n + 1] = Spelling(t) /\ \A i \in 1 .. n : a[i] = b[i] /\ a[i] \in Strs
  BY <1>1, <1>2, <1>4
<1>6. CASE n = 0
  <2>1. a = <<>>
    BY <1>1, <1>6 DEF a, n
  <2>2. FlattenSeq(a) = <<>>
    <3>1. Len(a) = 0
      BY <1>2, <1>6
    <3> QED  BY <2>1, <3>1 DEF FlattenSeq
  <2>3. FlattenSeq(b) = Spelling(t)
    <3>1. Len(b) = 1 /\ b[1] = Spelling(t)
      BY <1>2, <1>5, <1>6
    <3>2. Len(b) \in Nat \ {0}
      BY <3>1
    <3>3. PICK g : IsFlat(g, b) /\ FlattenSeq(b) = g[Len(b)]
      BY <3>2, FlatIs, Zenon
    <3> QED  BY <3>1, <3>3 DEF IsFlat
  <2>4. <<>> \in Strs /\ <<>> \o Spelling(t) = Spelling(t)
    <3>1. PICK x : x = Spelling(t)
      OBVIOUS
    <3>2. <<>> \o x = x
      BY <1>4, <3>1, ConcatEmptySeq DEF Strs
    <3> QED  BY <3>1, <3>2 DEF Strs
  <2> QED  BY <1>3, <2>2, <2>3, <2>4 DEF us
<1>7. CASE n # 0
  <2>1. PICK f : IsFlat(f, a) /\ FlattenSeq(a) = f[n]
    BY <1>1, <1>2, <1>7, FlatIs
  <2>2. PICK g : IsFlat(g, b) /\ FlattenSeq(b) = g[n + 1]
    BY <1>1, <1>2, <1>7, FlatIs
  <2> DEFINE Good == {m \in 0 .. n : m # 0 => f[m] = g[m] /\ f[m] \in Strs}
  <2>3. ASSUME NEW m \in 0 .. n, \A j \in 0 .. m - 1 : j \in Good
        PROVE  m \in Good
    <3>1. CASE m = 0
      BY <3>1
    <3>2. CASE m = 1
      <4>1. f[1] = a[1] /\ g[1] = b[1] /\ 1 \in 1 .. n
        BY <1>1, <1>2, <1>7, <2>1, <2>2 DEF IsFlat
      <4> QED  BY <1>5, <3>2, <4>1
    <3>3. CASE m > 1
      <4>1. m - 1 \in 0 .. m - 1 /\ m \in 2 .. n /\ m \in 2 .. n + 1 /\ m \in 1 .. n /\ m - 1 # 0
        BY <1>1, <3>3
      <4>2. f[m - 1] = g[m - 1] /\ f[m - 1] \in Strs
        BY <2>3, <4>1
      <4>3. f[m] = f[m - 1] \o a[m] /\ g[m] = g[m - 1] \o b[m]
        BY <1>2, <2>1, <2>2, <4>1 DEF IsFlat
      <4>4. a[m] = b[m] /\ a[m] \in Strs
        BY <1>5, <4>1
      <4>5. f[m - 1] \o a[m] \in Strs
        BY <4>2, <4>4, VisibleConcat
      <4> QED  BY <4>2, <4>3, <4>4, <4>5
    <3> QED  BY <1>1, <3>1, <3>2, <3>3
  <2> HIDE DEF Good
  <2>4. \A m \in 0 .. n : m \in Good
    BY <1>1, <2>3, Induction
  <2>5. f[n] = g[n] /\ f[n] \in Strs
    BY <1>1, <1>7, <2>4 DEF Good
  <2>6. g[n + 1] = g[n] \o b[n + 1]
    <3>1. n + 1 \in 2 .. Len(b) /\ (n + 1) - 1 = n
      BY <1>1, <1>2, <1>7
    <3> QED  BY <2>2, <3>1 DEF IsFlat
  <2> QED  BY <1>3, <1>5, <2>1, <2>2, <2>5, <2>6 DEF us
<1> QED  BY <1>6, <1>7

\* No token spells nothing.
LEMMA SpelledNothing == Spelled(<<>>) = <<>>
  BY DEF Spelled, FlattenSeq

\* The sequence that the set peek makes.
LEMMA HeldSeq ==
  /\ SetToSeq({}) = <<>>
  /\ \A t : SetToSeq({t}) = <<t>>
<1>1. Cardinality({}) = 0 /\ \A t : Cardinality({t}) = 1
  BY FS_EmptySet, FS_Singleton
<1>2. SetToSeq({}) \in [1 .. 0 -> {}]
  <2>1. \E f : f \in [1 .. 0 -> {}] /\ IsInjective(f)
    <3> DEFINE e == [i \in 1 .. 0 |-> i]
    <3>1. e \in [1 .. 0 -> {}] /\ IsInjective(e)
      BY DEF IsInjective
    <3> QED  BY <3>1
  <2> QED  BY <1>1, <2>1 DEF SetToSeq
<1>3. SetToSeq({}) = <<>>
  BY <1>2
<1>4. ASSUME NEW t PROVE SetToSeq({t}) = <<t>>
  <2>1. \E f : f \in [1 .. 1 -> {t}] /\ IsInjective(f)
    <3> DEFINE e == [i \in 1 .. 1 |-> t]
    <3>1. e \in [1 .. 1 -> {t}] /\ IsInjective(e)
      BY DEF IsInjective
    <3> QED  BY <3>1
  <2>2. SetToSeq({t}) \in [1 .. 1 -> {t}]
    BY <1>1, <2>1 DEF SetToSeq
  <2>3. \A f : f \in [1 .. 1 -> {t}] => f = <<t>>
    OBVIOUS
  <2> QED  BY <2>2, <2>3
<1> QED  BY <1>3, <1>4
-----------------------------------------------------------------------------
\* What First says: e is the first place from q on of a unit of K, or 0.
FirstOf(s, q, K, e) ==
  \/ e = 0 /\ \A r \in q .. Len(s) : s[r] \notin K
  \/ /\ e \in q .. Len(s) /\ s[e] \in K
     /\ \A r \in q .. e - 1 : s[r] \notin K

\* First does so.
LEMMA FirstIs ==
  ASSUME text \in Strs, NEW q \in Nat \ {0}, NEW K
  PROVE  FirstOf(text, q, K, First(q, K))
<1> PICK s : s = text
  OBVIOUS
<1> DEFINE places == {r \in q .. Len(s) : s[r] \in K}
           isFirst(r) == s[r] \in K /\ \A earlier \in q .. r - 1 : s[earlier] \notin K
<1>0. First(q, K) = IF \E r \in q .. Len(s) : isFirst(r) THEN CHOOSE r \in q .. Len(s) : isFirst(r) ELSE 0
  BY DEF First
<1>1. Len(s) \in Nat
  BY LengthOfStr
<1>2. CASE places = {}
  <2>1. \A r \in q .. Len(s) : s[r] \notin K
    BY <1>2
  <2>2. First(q, K) = 0
    BY <1>0, <2>1
  <2> QED  BY <2>1, <2>2 DEF FirstOf
<1>3. CASE places # {}
  <2>1. places \in SUBSET Nat
    BY <1>1
  <2> HIDE DEF places
  <2>2. PICK r \in places : \A m \in places : r <= m
    BY <1>3, <2>1, LeastNumber
  <2>3. r \in q .. Len(s) /\ s[r] \in K
    BY <2>2 DEF places
  <2>4. ASSUME NEW i \in q .. r - 1, s[i] \in K PROVE FALSE
    <3>1. i \in q .. Len(s) /\ ~ (r <= i)
      BY <1>1, <2>3
    <3> QED  BY <2>2, <2>4, <3>1 DEF places
  <2>5. r \in q .. Len(s) /\ isFirst(r)
    BY <2>3, <2>4
  <2> DEFINE e == CHOOSE c \in q .. Len(s) : isFirst(c)
  <2>6. e \in q .. Len(s) /\ isFirst(e)
    BY <2>5
  <2>7. First(q, K) = e
    BY <1>0, <2>5
  <2> HIDE DEF e
  <2> QED  BY <2>6, <2>7 DEF FirstOf
<1> QED  BY <1>2, <1>3

\* A string that ends is two quotes long at least, and ends with one.
LEMMA StringEnds ==
  ASSUME text \in Strs, NEW p \in 1 .. Len(text), StringEnd(p) # 0
  PROVE  /\ StringEnd(p) \in p + 2 .. Len(text) + 1
         /\ text[StringEnd(p) - 1] = "quote"
<1> PICK s : s = text
  OBVIOUS
<1> DEFINE q == First(p + 1, {"quote"})
<1>1. Len(s) \in Nat /\ p + 1 \in Nat \ {0} /\ p \in 1 .. Len(s)
  BY LengthOfStr
<1>2. FirstOf(s, p + 1, {"quote"}, q)
  BY <1>1, FirstIs
<1>3. StringEnd(p) = IF q = 0 THEN 0 ELSE q + 1
  BY DEF StringEnd
<1> HIDE DEF q
<1>4. q # 0
  BY <1>3
<1>5. q \in p + 1 .. Len(s) /\ s[q] = "quote"
  BY <1>2, <1>4 DEF FirstOf
<1>6. StringEnd(p) = q + 1 /\ (q + 1) - 1 = q
  BY <1>3, <1>4, <1>5
<1>7. StringEnd(p) \in p + 2 .. Len(s) + 1
  BY <1>1, <1>5, <1>6
<1>8. s[StringEnd(p) - 1] = "quote"
  BY <1>5, <1>6
<1> QED  BY <1>7, <1>8

\* A number that ends with the file ends in a digit or a dot.
LEMMA NumberEnds ==
  ASSUME text \in Strs, NEW p \in 1 .. Len(text), text[p] \in Digits
  PROVE  /\ NumberEnd(p) \in p + 1 .. Len(text) + 1
         /\ NumberEnd(p) = Len(text) + 1 => text[Len(text)] \in Digits \cup {"."}
<1> PICK s : s = text
  OBVIOUS
<1> DEFINE L == Len(s)
           behind(i) == LET r == First(i, NoDigits) IN IF r = 0 THEN L + 1 ELSE r
<1>1. L \in Nat /\ p \in Nat /\ p >= 1 /\ p <= L /\ \A r \in 1 .. L : s[r] \in Units
  BY LengthOfStr
<1>2. ASSUME NEW i \in 1 .. L + 1
      PROVE  /\ behind(i) \in i .. L + 1
             /\ behind(i) = L + 1 /\ i # L + 1 => s[L] \in Digits
  <2> DEFINE r == First(i, NoDigits)
  <2>1. FirstOf(s, i, NoDigits, r)
    <3>1. i \in Nat \ {0}
      BY <1>1
    <3> QED  BY <3>1, FirstIs
  <2>2. behind(i) = IF r = 0 THEN L + 1 ELSE r
    OBVIOUS
  <2> HIDE DEF r, behind
  <2>3. CASE r = 0
    <3>1. i # L + 1 => L \in i .. L /\ L \in 1 .. L
      BY <1>1
    <3>2. ASSUME i # L + 1 PROVE s[L] \in Digits
      <4>1. s[L] \notin NoDigits
        <5>1. i .. L = i .. Len(s)
          BY DEF L
        <5>2. \A j \in i .. L : s[j] \notin NoDigits
          <6> HIDE DEF L
          <6>1. ~ (r \in i .. Len(s))
            BY <1>1, <2>3
          <6> QED  BY <2>1, <5>1, <6>1 DEF FirstOf
        <5> HIDE DEF L
        <5> QED  BY <3>1, <3>2, <5>2
      <4>2. s[L] \in Units
        BY <1>1, <3>1, <3>2
      <4> QED  BY <4>1, <4>2 DEF NoDigits
    <3> QED  BY <1>1, <2>2, <2>3, <3>2
  <2>4. CASE r # 0
    <3>1. r \in i .. L
      BY <2>1, <2>4 DEF FirstOf
    <3> QED  BY <1>1, <2>2, <2>4, <3>1
  <2> QED  BY <2>3, <2>4
<1> DEFINE q == behind(p + 1)
<1>3. NumberEnd(p) = IF q <= L /\ s[q] = "." THEN behind(q + 1) ELSE q
  BY DEF NumberEnd
<1>9. s[p] \in Digits
  OBVIOUS
<1> HIDE DEF L, behind
<1>4. q \in p + 1 .. L + 1 /\ (q = L + 1 => s[L] \in Digits)
  <2>1. p + 1 \in 1 .. L + 1
    BY <1>1
  <2>2. p + 1 = L + 1 => s[L] \in Digits
    BY <1>1, <1>9
  <2> QED  BY <1>2, <2>1, <2>2
<1> HIDE DEF q
<1>5. CASE q <= L /\ s[q] = "."
  <2>1. q + 1 \in 1 .. L + 1 /\ (q + 1 = L + 1 => q = L)
    BY <1>1, <1>4, <1>5
  <2>2. behind(q + 1) \in q + 1 .. L + 1 /\ (behind(q + 1) = L + 1 /\ q + 1 # L + 1 => s[L] \in Digits)
    BY <1>2, <2>1
  <2>3. NumberEnd(p) = behind(q + 1)
    BY <1>3, <1>5
  <2>4. q + 1 = L + 1 => s[L] = "."
    BY <1>5, <2>1
  <2>5. behind(q + 1) \in p + 1 .. L + 1
    BY <1>1, <1>4, <2>2
  <2> QED  BY <2>2, <2>3, <2>4, <2>5 DEF L
<1>6. CASE ~ (q <= L /\ s[q] = ".")
  BY <1>3, <1>4, <1>6 DEF L
<1> QED  BY <1>5, <1>6

\* The units from a to b.
LEMMA PartOf ==
  ASSUME NEW s \in Strs, NEW a \in Nat \ {0}, NEW b \in Nat, b <= Len(s), a <= b + 1
  PROVE  /\ SubSeq(s, a, b) \in Strs
         /\ Len(SubSeq(s, a, b)) = (b + 1) - a
         /\ \A i \in 1 .. (b + 1) - a : SubSeq(s, a, b)[i] = s[a + i - 1]
<1>1. Len(s) \in Nat /\ \A i \in 1 .. Len(s) : s[i] \in Units
  BY LengthOfStr
<1>2. a \in Int /\ b \in Int /\ \A i \in a .. b : s[i] \in Units
  BY <1>1
<1> PICK u : u = SubSeq(s, a, b)
  OBVIOUS
<1>3. /\ u \in Strs /\ Len(u) = IF a <= b THEN b - a + 1 ELSE 0
      /\ \A i \in 1 .. b - a + 1 : u[i] = s[a + i - 1]
  BY <1>2, SubSeqProperties DEF Strs
<1>4. (b + 1) - a = b - a + 1 /\ (~ (a <= b) => (b + 1) - a = 0)
  OBVIOUS
<1> QED  BY <1>3, <1>4

\* The nearest of several places is one of them, and none is nearer.
LEMMA NearestIs ==
  ASSUME NEW S \in SUBSET Nat
  PROVE  \/ Nearest(S) = 0 /\ S \subseteq {0}
         \/ Nearest(S) \in S \ {0} /\ \A m \in S \ {0} : Nearest(S) <= m
<1> PICK P : P = S \ {0}
  OBVIOUS
<1>1. CASE P = {}
  BY <1>1 DEF Nearest
<1>2. CASE P # {}
  <2>1. P \in SUBSET Nat
    OBVIOUS
  <2>2. \E n \in P : \A m \in P : n <= m
    BY <1>2, <2>1, LeastNumber
  <2>3. Nearest(S) = CHOOSE n \in P : \A m \in P : n <= m
    BY <1>2 DEF Nearest, Min
  <2> QED  BY <2>2, <2>3
<1> QED  BY <1>1, <1>2

\* The letters of the keywords.
Letters == {"a", "b", "c", "d", "e", "f", "h", "i", "k", "l", "n", "o", "p", "r", "s", "t", "u", "w"}

LEMMA LettersAre == Letters \cap (Symbols \cup Digits \cup {"space", "quote", "."}) = {}
  BY DEF Letters, Symbols, Digits

\* Each keyword has some letters, and only "local" begins with an "l".
IsSpelling(t, word) ==
  /\ t \notin {"kLIT_STRING", "endless"}
  /\ Len(word) \in 2 .. 8 /\ \A i \in 1 .. Len(word) : word[i] \in Letters
  /\ word[1] = "l" => t = "kLOCAL"

LEMMA KeywordsAre ==
  ASSUME NEW t \in DOMAIN Keywords
  PROVE  IsSpelling(t, Keywords[t])
<1>1. CASE t = "kAND" /\ Keywords[t] = <<"a", "n", "d">>
  BY <1>1 DEF IsSpelling, Letters
<1>2. CASE t = "kBREAK" /\ Keywords[t] = <<"b", "r", "e", "a", "k">>
  BY <1>2 DEF IsSpelling, Letters
<1>3. CASE t = "kDO" /\ Keywords[t] = <<"d", "o">>
  BY <1>3 DEF IsSpelling, Letters
<1>4. CASE t = "kELSE" /\ Keywords[t] = <<"e", "l", "s", "e">>
  BY <1>4 DEF IsSpelling, Letters
<1>5. CASE t = "kELSEIF" /\ Keywords[t] = <<"e", "l", "s", "e", "i", "f">>
  BY <1>5 DEF IsSpelling, Letters
<1>6. CASE t = "kEND" /\ Keywords[t] = <<"e", "n", "d">>
  BY <1>6 DEF IsSpelling, Letters
<1>7. CASE t = "kFALSE" /\ Keywords[t] = <<"f", "a", "l", "s", "e">>
  BY <1>7 DEF IsSpelling, Letters
<1>8. CASE t = "kFOR" /\ Keywords[t] = <<"f", "o", "r">>
  BY <1>8 DEF IsSpelling, Letters
<1>9. CASE t = "kFUNCTION" /\ Keywords[t] = <<"f", "u", "n", "c", "t", "i", "o", "n">>
  BY <1>9 DEF IsSpelling, Letters
<1>10. CASE t = "kIF" /\ Keywords[t] = <<"i", "f">>
  BY <1>10 DEF IsSpelling, Letters
<1>11. CASE t = "kIN" /\ Keywords[t] = <<"i", "n">>
  BY <1>11 DEF IsSpelling, Letters
<1>12. CASE t = "kLOCAL" /\ Keywords[t] = <<"l", "o", "c", "a", "l">>
  BY <1>12 DEF IsSpelling, Letters
<1>13. CASE t = "kNIL" /\ Keywords[t] = <<"n", "i", "l">>
  BY <1>13 DEF IsSpelling, Letters
<1>14. CASE t = "kNOT" /\ Keywords[t] = <<"n", "o", "t">>
  BY <1>14 DEF IsSpelling, Letters
<1>15. CASE t = "kOR" /\ Keywords[t] = <<"o", "r">>
  BY <1>15 DEF IsSpelling, Letters
<1>16. CASE t = "kREPEAT" /\ Keywords[t] = <<"r", "e", "p", "e", "a", "t">>
  BY <1>16 DEF IsSpelling, Letters
<1>17. CASE t = "kRETURN" /\ Keywords[t] = <<"r", "e", "t", "u", "r", "n">>
  BY <1>17 DEF IsSpelling, Letters
<1>18. CASE t = "kTHEN" /\ Keywords[t] = <<"t", "h", "e", "n">>
  BY <1>18 DEF IsSpelling, Letters
<1>19. CASE t = "kTRUE" /\ Keywords[t] = <<"t", "r", "u", "e">>
  BY <1>19 DEF IsSpelling, Letters
<1>20. CASE t = "kUNTIL" /\ Keywords[t] = <<"u", "n", "t", "i", "l">>
  BY <1>20 DEF IsSpelling, Letters
<1>21. CASE t = "kWHILE" /\ Keywords[t] = <<"w", "h", "i", "l", "e">>
  BY <1>21 DEF IsSpelling, Letters
<1> QED
  BY <1>1, <1>2, <1>3, <1>4, <1>5, <1>6, <1>7, <1>8, <1>9, <1>10, <1>11, <1>12, <1>13, <1>14, <1>15,
     <1>16, <1>17, <1>18, <1>19, <1>20, <1>21 DEF Keywords

\* A keyword stands at p with each of its letters.
LEMMA KeywordAt ==
  ASSUME text \in Strs, NEW p \in Nat \ {0}, NEW t \in KeywordsAt(p)
  PROVE  /\ t \in DOMAIN Keywords /\ IsSpelling(t, Keywords[t])
         /\ p + Len(Keywords[t]) \in p + 2 .. Len(text) + 1
         /\ SubSeq(text, p, (p + Len(Keywords[t])) - 1) = Keywords[t]
         /\ \A r \in p .. (p + Len(Keywords[t])) - 1 : text[r] \in Letters
         /\ text[p] = "l" => t = "kLOCAL"
<1> PICK word : word = Keywords[t]
  OBVIOUS
<1> PICK n : n = Len(word)
  OBVIOUS
<1>1. t \in DOMAIN Keywords /\ p + n - 1 <= Len(text) /\ SubSeq(text, p, p + n - 1) = word
  BY DEF KeywordsAt
<1>2. IsSpelling(t, word)
  BY <1>1, KeywordsAre
<1>3. n \in 2 .. 8 /\ (\A i \in 1 .. n : word[i] \in Letters) /\ (word[1] = "l" => t = "kLOCAL") /\ Len(text) \in Nat
  BY <1>2, LengthOfStr DEF IsSpelling
<1>4. p + n - 1 = (p + n) - 1 /\ p + n \in p + 2 .. Len(text) + 1
  BY <1>1, <1>3
<1>5. \A i \in 1 .. n : word[i] = text[p + i - 1]
  <2> PICK b : b = p + n - 1
    OBVIOUS
  <2>1. b \in Nat /\ b <= Len(text) /\ p <= b + 1 /\ (b + 1) - p = n
    BY <1>1, <1>3
  <2>2. \A i \in 1 .. (b + 1) - p : SubSeq(text, p, b)[i] = text[p + i - 1]
    BY <2>1, PartOf
  <2> QED  BY <1>1, <2>1, <2>2
<1>6. ASSUME NEW r \in p .. (p + n) - 1 PROVE text[r] \in Letters
  <2> PICK i : i = (r + 1) - p
    OBVIOUS
  <2>1. i \in 1 .. n /\ p + i - 1 = r
    BY <1>3
  <2> QED  BY <1>3, <1>5, <2>1
<1>7. text[p] = word[1]
  <2>1. 1 \in 1 .. n /\ p + 1 - 1 = p
    BY <1>3
  <2> QED  BY <1>5, <2>1
<1> QED  BY <1>1, <1>2, <1>3, <1>4, <1>6, <1>7

\* A word ends behind its first unit; with the file, only behind a letter.
LEMMA WordEnds ==
  ASSUME text \in Strs, NEW p \in 1 .. Len(text), WordEnd(p) # 0
  PROVE  /\ WordEnd(p) \in p + 1 .. Len(text) + 1
         /\ WordEnd(p) = Len(text) + 1 => text[Len(text)] # "space"
<1> PICK L : L = Len(text)
  OBVIOUS
<1> PICK q : q = First(p + 1, Symbols \cup {"space"})
  OBVIOUS
<1> PICK ends : ends = {p + Len(Keywords[t]) : t \in KeywordsAt(p)}
  OBVIOUS
<1>1. L \in Nat /\ p \in Nat \ {0} /\ p + 1 \in Nat \ {0} /\ p <= L
  BY LengthOfStr
<1>2. q = 0 \/ q \in p + 1 .. L
  BY <1>1, FirstIs DEF FirstOf
<1>3. ASSUME NEW m \in ends PROVE m \in p + 2 .. L + 1 /\ (m = L + 1 => text[L] # "space")
  <2>1. PICK t \in KeywordsAt(p) : m = p + Len(Keywords[t])
    OBVIOUS
  <2>2. m \in p + 2 .. L + 1 /\ \A r \in p .. m - 1 : text[r] \in Letters
    BY <1>1, <2>1, KeywordAt
  <2>3. m = L + 1 => L \in p .. m - 1
    BY <1>1, <2>2
  <2> QED  BY <2>2, <2>3, LettersAre
<1>4. ends \subseteq Nat /\ q \in Nat
  BY <1>1, <1>2, <1>3
<1> PICK e : e = WordEnd(p)
  OBVIOUS
<1>5. e \in {q} \cup ends
  <2> PICK S : S = {q} \cup ends
    OBVIOUS
  <2>1. e = Nearest(S)
    BY DEF WordEnd
  <2>2. S \in SUBSET Nat /\ e # 0
    BY <1>4
  <2>3. Nearest(S) = 0 \/ Nearest(S) \in S
    <3>1. S \in SUBSET Nat
      BY <2>2
    <3> QED  BY <3>1, NearestIs
  <2> QED  BY <2>1, <2>2, <2>3
<1>6. CASE e = q
  <2>1. e \in p + 1 .. L /\ e # L + 1
    BY <1>1, <1>2, <1>6
  <2>2. e \in p + 1 .. L + 1
    BY <1>1, <2>1
  <2> QED  BY <2>1, <2>2
<1>7. CASE e \in ends
  <2>1. e \in p + 2 .. L + 1 /\ (e = L + 1 => text[L] # "space")
    BY <1>3, <1>7
  <2>2. e \in p + 1 .. L + 1
    BY <1>1, <2>1
  <2> QED  BY <2>1, <2>2
<1> QED  BY <1>5, <1>6, <1>7

\* The type of a word.
LEMMA WordTypes ==
  ASSUME NEW str
  PROVE  WordType(str) \in DOMAIN Keywords \cup {"kIDENTIFIER"} /\ WordType(str) \notin {"kLIT_STRING", "endless"}
<1>1. iskeyword(str) => lex_keyword(str) \in DOMAIN Keywords
  BY DEF iskeyword, lex_keyword
<1>2. \A t \in DOMAIN Keywords : t \notin {"kLIT_STRING", "endless"}
  BY KeywordsAre DEF IsSpelling
<1> QED  BY <1>1, <1>2 DEF WordType
-----------------------------------------------------------------------------
\* A string in two parts.
LEMMA Parts ==
  ASSUME NEW s \in Strs, NEW a \in Nat, NEW b \in Nat, a <= b, b <= Len(s)
  PROVE  SubSeq(s, 1, b) = SubSeq(s, 1, a) \o SubSeq(s, a + 1, b)
<1>1. 1 \in 1 .. Len(s) + 1 /\ a \in 1 - 1 .. Len(s) /\ b \in a .. Len(s)
  BY LengthOfStr
<1> QED  BY <1>1, ConcatAdjacentSubSeq DEF Strs

\* The quotes of a string taken away and given back.
LEMMA Requoted ==
  ASSUME NEW u \in Strs, Len(u) >= 2, u[1] = "quote", u[Len(u)] = "quote"
  PROVE  /\ SubSeq(u, 2, Len(u) - 1) \in Strs
         /\ <<"quote">> \o SubSeq(u, 2, Len(u) - 1) \o <<"quote">> = u
<1> PICK n : n = Len(u)
  OBVIOUS
<1>1. n \in Nat /\ n >= 2
  BY LengthOfStr
<1>2. \A w \in Strs : Len(w) = 1 /\ w[1] = "quote" => w = <<"quote">>
  BY DEF Strs
<1>3. SubSeq(u, 1, n - 1) = SubSeq(u, 1, 1) \o SubSeq(u, 2, n - 1)
  <2>1. 1 + 1 = 2 /\ n - 1 \in Nat /\ 1 <= n - 1 /\ n - 1 <= Len(u)
    BY <1>1
  <2>2. SubSeq(u, 1, n - 1) = SubSeq(u, 1, 1) \o SubSeq(u, 1 + 1, n - 1)
    BY <2>1, Parts
  <2> QED  BY <2>1, <2>2
<1>4. SubSeq(u, 1, n) = SubSeq(u, 1, n - 1) \o SubSeq(u, n, n)
  <2>1. (n - 1) + 1 = n /\ n - 1 \in Nat /\ n - 1 <= n /\ n <= Len(u)
    BY <1>1
  <2>2. SubSeq(u, 1, n) = SubSeq(u, 1, n - 1) \o SubSeq(u, (n - 1) + 1, n)
    BY <1>1, <2>1, Parts
  <2> QED  BY <2>1, <2>2
<1>5. SubSeq(u, 1, n) = u
  BY SubSeqFull DEF Strs
<1>6. SubSeq(u, 1, 1) = <<"quote">>
  <2>1. (1 + 1) - 1 = 1 /\ 1 + 1 - 1 = 1 /\ 1 \in 1 .. 1 /\ 1 \in Nat \ {0} /\ 1 <= Len(u) /\ 1 <= 1 + 1
    BY <1>1
  <2>2. SubSeq(u, 1, 1) \in Strs /\ Len(SubSeq(u, 1, 1)) = 1 /\ SubSeq(u, 1, 1)[1] = u[1]
    BY <2>1, PartOf
  <2> QED  BY <1>2, <2>2
<1>7. SubSeq(u, n, n) = <<"quote">>
  <2>1. (n + 1) - n = 1 /\ n + 1 - 1 = n /\ 1 \in 1 .. 1 /\ n \in Nat \ {0} /\ n <= Len(u) /\ n <= n + 1
    BY <1>1
  <2>2. /\ SubSeq(u, n, n) \in Strs /\ Len(SubSeq(u, n, n)) = (n + 1) - n
        /\ \A i \in 1 .. (n + 1) - n : SubSeq(u, n, n)[i] = u[n + i - 1]
    BY <2>1, PartOf
  <2>3. SubSeq(u, n, n) \in Strs /\ Len(SubSeq(u, n, n)) = 1 /\ SubSeq(u, n, n)[1] = u[n]
    BY <2>1, <2>2
  <2> QED  BY <1>2, <2>3
<1>8. SubSeq(u, 2, n - 1) \in Strs
  <2>1. 2 \in Nat \ {0} /\ n - 1 \in Nat /\ n - 1 <= Len(u) /\ 2 <= (n - 1) + 1
    BY <1>1
  <2> QED  BY <2>1, PartOf
<1>9. <<"quote">> \o SubSeq(u, 2, n - 1) \o <<"quote">> = u
  BY <1>3, <1>4, <1>5, <1>6, <1>7
<1> QED  BY <1>8, <1>9

\* The token t was read from p on: it spells what can be seen up to its end.
ReadFrom(s, p, t) ==
  /\ t \in Tokens
  /\ t.end \in p .. Len(s) + 1
  /\ Visible(SubSeq(s, 1, t.end - 1)) = Visible(SubSeq(s, 1, p - 1)) \o Visible(Spelling(t))

\* Behind white space, what can be seen begins.
LEMMA Skipped ==
  ASSUME text \in Strs, pos \in 1 .. Len(text) + 1,
         NEW p \in pos .. Len(text) + 1, \A r \in pos .. p - 1 : text[r] \notin Visibles
  PROVE  Visible(SubSeq(text, 1, p - 1)) = Visible(SubSeq(text, 1, pos - 1))
<1> PICK s : s = text
  OBVIOUS
<1> PICK o : o = pos
  OBVIOUS
<1>1. Len(s) \in Nat /\ o \in Nat \ {0} /\ p \in Nat \ {0} /\ o <= p /\ p <= Len(s) + 1
  BY LengthOfStr
<1> PICK u : u = SubSeq(s, o, p - 1)
  OBVIOUS
<1>2. u \in Strs /\ Len(u) = p - o /\ \A i \in 1 .. p - o : u[i] = s[o + i - 1]
  <2>1. p - 1 \in Nat /\ p - 1 <= Len(s) /\ o <= (p - 1) + 1 /\ ((p - 1) + 1) - o = p - o
    BY <1>1
  <2>2. /\ u \in Strs /\ Len(u) = ((p - 1) + 1) - o
        /\ \A i \in 1 .. ((p - 1) + 1) - o : u[i] = s[o + i - 1]
    BY <1>1, <2>1, PartOf
  <2> QED  BY <2>1, <2>2
<1>3. ASSUME NEW i \in 1 .. Len(u) PROVE u[i] = "space"
  <2>1. o + i - 1 \in o .. p - 1 /\ o + i - 1 \in 1 .. Len(s) /\ i \in 1 .. p - o
    BY <1>1, <1>2
  <2>2. s[o + i - 1] \notin Visibles /\ s[o + i - 1] \in Units
    BY <2>1, LengthOfStr
  <2> QED  BY <1>2, <2>1, <2>2 DEF Visibles
<1>4. Visible(u) = <<>>
  BY <1>2, <1>3, SpacesVanish
<1> PICK a : a = SubSeq(s, 1, o - 1)
  OBVIOUS
<1>5. a \in Strs
  <2>1. o - 1 \in Nat /\ o - 1 <= Len(s) /\ 1 <= (o - 1) + 1 /\ 1 \in Nat \ {0}
    BY <1>1
  <2> QED  BY <2>1, PartOf
<1>6. SubSeq(s, 1, p - 1) = a \o u
  <2>1. o - 1 \in Nat /\ p - 1 \in Nat /\ o - 1 <= p - 1 /\ p - 1 <= Len(s) /\ (o - 1) + 1 = o
    BY <1>1
  <2>2. SubSeq(s, 1, p - 1) = SubSeq(s, 1, o - 1) \o SubSeq(s, (o - 1) + 1, p - 1)
    BY <2>1, Parts
  <2> QED  BY <2>1, <2>2
<1>7. Visible(a) \o <<>> = Visible(a)
  <2> PICK v : v = Visible(a)
    OBVIOUS
  <2>1. v \in Strs
    BY <1>5, VisibleConcat
  <2>2. v \o <<>> = v
    BY <2>1, ConcatEmptySeq DEF Strs
  <2> QED  BY <2>2
<1>8. Visible(a \o u) = Visible(a) \o Visible(u)
  BY <1>2, <1>5, VisibleConcat
<1> QED  BY <1>4, <1>6, <1>7, <1>8

\* The token's text, as next_token takes it from the file.
LEMMA Taken ==
  ASSUME text \in Strs, pos \in 1 .. Len(text) + 1,
         NEW p \in pos .. Len(text), \A r \in pos .. p - 1 : text[r] \notin Visibles,
         NEW e \in p + 1 .. Len(text) + 1
  PROVE  /\ SubSeq(text, p, e - 1) \in Strs
         /\ Len(SubSeq(text, p, e - 1)) = e - p
         /\ SubSeq(text, p, e - 1)[1] = text[p]
         /\ SubSeq(text, p, e - 1)[e - p] = text[e - 1]
         /\ Visible(SubSeq(text, 1, e - 1)) = Visible(SubSeq(text, 1, pos - 1)) \o Visible(SubSeq(text, p, e - 1))
<1> PICK s : s = text
  OBVIOUS
<1>1. /\ Len(s) \in Nat /\ pos \in Nat \ {0} /\ p \in Nat \ {0} /\ e \in Nat
      /\ pos <= p /\ p < e /\ e <= Len(s) + 1
  BY LengthOfStr
<1> PICK u : u = SubSeq(s, p, e - 1)
  OBVIOUS
<1>2. u \in Strs /\ Len(u) = e - p /\ \A i \in 1 .. e - p : u[i] = s[p + i - 1]
  <2>1. e - 1 \in Nat /\ e - 1 <= Len(s) /\ p <= (e - 1) + 1 /\ ((e - 1) + 1) - p = e - p
    BY <1>1
  <2>2. /\ u \in Strs /\ Len(u) = ((e - 1) + 1) - p
        /\ \A i \in 1 .. ((e - 1) + 1) - p : u[i] = s[p + i - 1]
    BY <1>1, <2>1, PartOf
  <2> QED  BY <2>1, <2>2
<1>3. u[1] = s[p] /\ u[e - p] = s[e - 1]
  <2>1. 1 \in 1 .. e - p /\ e - p \in 1 .. e - p /\ p + 1 - 1 = p /\ p + (e - p) - 1 = e - 1
    BY <1>1
  <2> QED  BY <1>2, <2>1
<1> PICK a : a = SubSeq(s, 1, p - 1)
  OBVIOUS
<1>4. a \in Strs
  <2>1. p - 1 \in Nat /\ p - 1 <= Len(s) /\ 1 <= (p - 1) + 1 /\ 1 \in Nat \ {0}
    BY <1>1
  <2> QED  BY <2>1, PartOf
<1>5. SubSeq(s, 1, e - 1) = a \o u
  <2>1. p - 1 \in Nat /\ e - 1 \in Nat /\ p - 1 <= e - 1 /\ e - 1 <= Len(s) /\ (p - 1) + 1 = p
    BY <1>1
  <2>2. SubSeq(s, 1, e - 1) = SubSeq(s, 1, p - 1) \o SubSeq(s, (p - 1) + 1, e - 1)
    BY <2>1, Parts
  <2> QED  BY <2>1, <2>2
<1>6. Visible(a \o u) = Visible(a) \o Visible(u)
  BY <1>2, <1>4, VisibleConcat
<1>7. Visible(a) = Visible(SubSeq(s, 1, pos - 1))
  <2>1. p \in pos .. Len(s) + 1
    BY <1>1
  <2> QED  BY <2>1, Skipped
<1> QED  BY <1>2, <1>3, <1>5, <1>6, <1>7

\* A token with its text as it stands in the file.
LEMMA PlainlyRead ==
  ASSUME text \in Strs, pos \in 1 .. Len(text) + 1,
         NEW p \in pos .. Len(text), \A r \in pos .. p - 1 : text[r] \notin Visibles,
         NEW e \in p + 1 .. Len(text) + 1,
         NEW type \in Types, type # "kLIT_STRING"
  PROVE  ReadFrom(text, pos, Token(type, SubSeq(text, p, e - 1), e))
<1> PICK u : u = SubSeq(text, p, e - 1)
  OBVIOUS
<1> PICK t : t = Token(type, u, e)
  OBVIOUS
<1>1. u \in Strs /\ Visible(SubSeq(text, 1, e - 1)) = Visible(SubSeq(text, 1, pos - 1)) \o Visible(u)
  BY Taken
<1>2. t.type = type /\ t.text = u /\ t.end = e
  BY DEF Token
<1>3. Len(text) \in Nat /\ e \in Nat /\ e \in pos .. Len(text) + 1
  BY LengthOfStr
<1>4. t \in Tokens
  BY <1>1, <1>3 DEF Token, Tokens
<1>5. Spelling(t) = u
  BY <1>2 DEF Spelling
<1> QED  BY <1>1, <1>2, <1>3, <1>4, <1>5 DEF ReadFrom

\* A string.
LEMMA QuotedRead ==
  ASSUME text \in Strs, pos \in 1 .. Len(text) + 1,
         NEW p \in pos .. Len(text), \A r \in pos .. p - 1 : text[r] \notin Visibles,
         text[p] = "quote",
         NEW e \in p + 2 .. Len(text) + 1, text[e - 1] = "quote",
         NEW u, u = SubSeq(text, p, e - 1)
  PROVE  ReadFrom(text, pos, Token("kLIT_STRING", SubSeq(u, 2, Len(u) - 1), e))
<1>3. Len(text) \in Nat /\ e \in Nat /\ e \in pos .. Len(text) + 1 /\ e \in p + 1 .. Len(text) + 1 /\ e - p >= 2
  BY LengthOfStr
<1>1. /\ u \in Strs /\ Visible(SubSeq(text, 1, e - 1)) = Visible(SubSeq(text, 1, pos - 1)) \o Visible(u)
      /\ Len(u) = e - p /\ u[1] = text[p] /\ u[e - p] = text[e - 1]
  BY <1>3, Taken
<1> PICK v : v = SubSeq(u, 2, Len(u) - 1)
  OBVIOUS
<1>2. v \in Strs /\ <<"quote">> \o v \o <<"quote">> = u
  BY <1>1, <1>3, Requoted
<1> PICK t : t = Token("kLIT_STRING", v, e)
  OBVIOUS
<1>4. t = [type |-> "kLIT_STRING", text |-> v, end |-> e]
  BY DEF Token
<1>8. t.type = "kLIT_STRING" /\ t.text = v
  BY <1>4
<1>5. t \in Tokens
  <2>1. "kLIT_STRING" \in Types
    BY DEF Types
  <2>2. \A type \in Types, str \in Strs, end \in Nat : [type |-> type, text |-> str, end |-> end] \in Tokens
    BY DEF Tokens
  <2> QED  BY <1>2, <1>3, <1>4, <2>1, <2>2
<1>6. Spelling(t) = u
  <2>1. Spelling(t) = <<"quote">> \o t.text \o <<"quote">>
    BY <1>8 DEF Spelling
  <2> QED  BY <1>2, <1>8, <2>1
<1>7. t.end = e
  BY <1>4
<1> QED  BY <1>1, <1>3, <1>5, <1>6, <1>7 DEF ReadFrom

\* The end of the file.
LEMMA EndRead ==
  ASSUME text \in Strs, pos \in 1 .. Len(text) + 1,
         \A r \in pos .. Len(text) : text[r] \notin Visibles
  PROVE  ReadFrom(text, pos, Token("kEOF", <<>>, Len(text) + 1))
<1> PICK n : n = Len(text)
  OBVIOUS
<1> PICK t : t = Token("kEOF", <<>>, n + 1)
  OBVIOUS
<1>1. n \in Nat /\ n + 1 \in pos .. Len(text) + 1 /\ (n + 1) - 1 = n
  BY LengthOfStr
<1>2. t.type = "kEOF" /\ t.text = <<>> /\ t.end = n + 1
  BY DEF Token
<1>3. t \in Tokens
  BY <1>1 DEF Token, Tokens, Types, Strs
<1>4. Spelling(t) = <<>>
  BY <1>2 DEF Spelling
<1>5. Visible(<<>>) = <<>>
  <2>1. <<>> \in Strs /\ \A i \in 1 .. Len(<<>>) : <<>>[i] = "space"
    BY DEF Strs
  <2> QED  BY <2>1, SpacesVanish
<1> PICK a : a = SubSeq(text, 1, pos - 1)
  OBVIOUS
<1>6. Visible(SubSeq(text, 1, n)) = Visible(a)
  <2>1. \A r \in pos .. (n + 1) - 1 : text[r] \notin Visibles
    BY <1>1
  <2>2. Visible(SubSeq(text, 1, (n + 1) - 1)) = Visible(SubSeq(text, 1, pos - 1))
    BY <1>1, <2>1, Skipped
  <2> QED  BY <1>1, <2>2
<1>7. a \in Strs
  <2>1. pos - 1 \in Nat /\ pos - 1 <= Len(text) /\ 1 <= (pos - 1) + 1 /\ 1 \in Nat \ {0}
    BY <1>1
  <2> QED  BY <2>1, PartOf
<1>8. Visible(a) \o <<>> = Visible(a)
  <2> PICK v : v = Visible(a)
    OBVIOUS
  <2>1. v \in Strs
    BY <1>7, VisibleConcat
  <2>2. v \o <<>> = v
    BY <2>1, ConcatEmptySeq DEF Strs
  <2> QED  BY <2>2
<1>9. Visible(SubSeq(text, 1, t.end - 1)) = Visible(a) \o Visible(Spelling(t))
  BY <1>1, <1>2, <1>4, <1>5, <1>6, <1>8
<1> QED  BY <1>1, <1>2, <1>3, <1>9 DEF ReadFrom
-----------------------------------------------------------------------------
\* The operators.
LEMMA OperUnits == DOMAIN Opers = {"+", "-", "*", "/"}
  BY DEF Opers

\* The cases exclude one another.
LEMMA Kinds ==
  ASSUME NEW x
  PROVE  /\ x = "," => x # "=" /\ x \notin DOMAIN Opers /\ x # "quote" /\ x \notin Digits
         /\ x = "=" => x # "," /\ x \notin DOMAIN Opers /\ x # "quote" /\ x \notin Digits
         /\ x \in DOMAIN Opers => x # "," /\ x # "=" /\ x # "quote" /\ x \notin Digits
         /\ x = "quote" => x # "," /\ x # "=" /\ x \notin DOMAIN Opers /\ x \notin Digits
         /\ x \in Digits => x # "," /\ x # "=" /\ x \notin DOMAIN Opers /\ x # "quote"
         /\ x \notin {",", "=", "quote"} \cup DOMAIN Opers \cup Digits =>
              x # "," /\ x # "=" /\ x \notin DOMAIN Opers /\ x # "quote" /\ x \notin Digits
<1>1. DOMAIN Opers = {"+", "-", "*", "/"} /\ Digits = {"1", "2"}
  BY OperUnits DEF Digits
<1>2. x \in DOMAIN Opers => x # "," /\ x # "=" /\ x # "quote" /\ x \notin Digits
  BY <1>1, Zenon
<1>3. x \in Digits => x # "," /\ x # "=" /\ x # "quote"
  BY <1>1, Zenon
<1>4. x \in {",", "=", "quote"} => x \notin DOMAIN Opers /\ x \notin Digits
  BY <1>2, <1>3, Zenon
<1>5. (x = "," => x # "=" /\ x # "quote") /\ (x = "=" => x # "quote")
  BY Zenon
<1> QED  BY <1>2, <1>3, <1>4, <1>5, Zenon

\* The token whose first unit is at p, behind which the file is at end.
ReadAt(p, type, end) == IF end = 0 THEN Token("endless", <<>>, 0)
                        ELSE Token(type, SubSeq(text, p, end - 1), end)
Unquoted(t) == Token(t.type, SubSeq(t.text, 2, Len(t.text) - 1), t.end)

\* The cases of next_token.
LEMMA TokenFromIs ==
  ASSUME NEW p \in 0 .. Len(text)
  PROVE  /\ p = 0 => TokenFrom[p] = Token("kEOF", <<>>, Len(text) + 1)
         /\ p # 0 =>
            /\ text[p] = "," => TokenFrom[p] = ReadAt(p, "kCOMMA", p + 1)
            /\ text[p] = "=" => TokenFrom[p] = ReadAt(p, "kEQUALS", p + 1)
            /\ text[p] \in DOMAIN Opers => TokenFrom[p] = ReadAt(p, text[p], p + 1)
            /\ text[p] = "quote" => TokenFrom[p] = Unquoted(ReadAt(p, "kLIT_STRING", StringEnd(p)))
            /\ text[p] \in Digits => TokenFrom[p] = ReadAt(p, "kLIT_NUMBER", NumberEnd(p))
            /\ text[p] \notin {",", "=", "quote"} \cup DOMAIN Opers \cup Digits =>
                 TokenFrom[p] = ReadAt(p, WordType(SubSeq(text, p, WordEnd(p) - 1)), WordEnd(p))
<1> DEFINE Body(i) == CASE i = 0                  -> Token("kEOF", <<>>, Len(text) + 1)
        [] i # 0 /\ text[i] = "," -> ReadAt(i, "kCOMMA", i + 1)
        [] i # 0 /\ text[i] = "=" -> ReadAt(i, "kEQUALS", i + 1)
        [] i # 0 /\ text[i] \in DOMAIN Opers -> ReadAt(i, text[i], i + 1)
        [] i # 0 /\ text[i] = "quote"        -> Unquoted(ReadAt(i, "kLIT_STRING", StringEnd(i)))
        [] i # 0 /\ text[i] \in Digits       -> ReadAt(i, "kLIT_NUMBER", NumberEnd(i))
        [] OTHER -> ReadAt(i, WordType(SubSeq(text, i, WordEnd(i) - 1)), WordEnd(i))
<1>1. TokenFrom = [i \in 0 .. Len(text) |-> Body(i)]
  BY DEF TokenFrom, ReadAt, Unquoted
<1>2. TokenFrom[p] = Body(p)
  <2> HIDE DEF Body
  <2> QED  BY <1>1
<1>3. p = 0 => Body(p) = Token("kEOF", <<>>, Len(text) + 1)
  OBVIOUS
<1>4. ASSUME p # 0, text[p] = "," PROVE Body(p) = ReadAt(p, "kCOMMA", p + 1)
  <2>1. text[p] # "=" /\ text[p] \notin DOMAIN Opers /\ text[p] # "quote" /\ text[p] \notin Digits
    BY <1>4, Kinds, Zenon
  <2> QED  BY <1>4, <2>1, Zenon
<1>5. ASSUME p # 0, text[p] = "=" PROVE Body(p) = ReadAt(p, "kEQUALS", p + 1)
  <2>1. text[p] # "," /\ text[p] \notin DOMAIN Opers /\ text[p] # "quote" /\ text[p] \notin Digits
    BY <1>5, Kinds, Zenon
  <2> QED  BY <1>5, <2>1, Zenon
<1>6. ASSUME p # 0, text[p] \in DOMAIN Opers PROVE Body(p) = ReadAt(p, text[p], p + 1)
  <2>1. text[p] # "," /\ text[p] # "=" /\ text[p] # "quote" /\ text[p] \notin Digits
    BY <1>6, Kinds, Zenon
  <2> QED  BY <1>6, <2>1, Zenon
<1>7. ASSUME p # 0, text[p] = "quote" PROVE Body(p) = Unquoted(ReadAt(p, "kLIT_STRING", StringEnd(p)))
  <2>1. text[p] # "," /\ text[p] # "=" /\ text[p] \notin DOMAIN Opers /\ text[p] \notin Digits
    BY <1>7, Kinds, Zenon
  <2> QED  BY <1>7, <2>1, Zenon
<1>8. ASSUME p # 0, text[p] \in Digits PROVE Body(p) = ReadAt(p, "kLIT_NUMBER", NumberEnd(p))
  <2>1. text[p] # "," /\ text[p] # "=" /\ text[p] \notin DOMAIN Opers /\ text[p] # "quote"
    BY <1>8, Kinds, Zenon
  <2> QED  BY <1>8, <2>1, Zenon
<1>9. ASSUME p # 0, text[p] \notin {",", "=", "quote"} \cup DOMAIN Opers \cup Digits
       PROVE  Body(p) = ReadAt(p, WordType(SubSeq(text, p, WordEnd(p) - 1)), WordEnd(p))
  <2>1. text[p] # "," /\ text[p] # "=" /\ text[p] \notin DOMAIN Opers /\ text[p] # "quote" /\ text[p] \notin Digits
    BY <1>9, Kinds, Zenon
  <2> QED  BY <1>9, <2>1, Zenon
<1> HIDE DEF Body
<1> QED  BY <1>2, <1>3, <1>4, <1>5, <1>6, <1>7, <1>8, <1>9, Zenon

\* The token that next_token gives: it spells what was read, and in a plain
\* file only the end of the file reaches its end.
LEMMA NextRead ==
  ASSUME text \in Strs, pos \in 1 .. Len(text) + 1, next_token.type # "endless"
  PROVE  /\ ReadFrom(text, pos, next_token)
         /\ PlainFile /\ next_token.type # "kEOF" => next_token.end <= Len(text)
<1> PICK p : p = First(pos, Visibles)
  OBVIOUS
<1> DEFINE read(type, end) == ReadAt(p, type, end)
<1> PICK t : t = next_token
  OBVIOUS
<1> PICK n : n = Len(text)
  OBVIOUS
<1>0. n \in Nat /\ pos \in Nat \ {0} /\ pos <= n + 1 /\ \A r \in 1 .. n : text[r] \in Units
  BY LengthOfStr
<1>1. FirstOf(text, pos, Visibles, p)
  BY <1>0, FirstIs
<1>2. p \in 0 .. Len(text) /\ t = TokenFrom[p]
  BY <1>0, <1>1 DEF FirstOf, next_token
<1>3. /\ p = 0 => t = Token("kEOF", <<>>, Len(text) + 1)
      /\ p # 0 =>
         /\ text[p] = "," => t = read("kCOMMA", p + 1)
         /\ text[p] = "=" => t = read("kEQUALS", p + 1)
         /\ text[p] \in DOMAIN Opers => t = read(text[p], p + 1)
         /\ text[p] = "quote" => t = Unquoted(read("kLIT_STRING", StringEnd(p)))
         /\ text[p] \in Digits => t = read("kLIT_NUMBER", NumberEnd(p))
         /\ text[p] \notin {",", "=", "quote"} \cup DOMAIN Opers \cup Digits =>
              t = read(WordType(SubSeq(text, p, WordEnd(p) - 1)), WordEnd(p))
  BY <1>2, TokenFromIs, Zenon
<1>4. \A type, end : /\ end = 0 => read(type, end).type = "endless"
                     /\ end # 0 => read(type, end) = Token(type, SubSeq(text, p, end - 1), end)
  BY DEF Token, ReadAt
<1>5. CASE p = 0
  <2>1. t = Token("kEOF", <<>>, Len(text) + 1)
    BY <1>3, <1>5
  <2>2. \A r \in pos .. Len(text) : text[r] \notin Visibles
    <3>1. ~ (p \in pos .. Len(text))
      BY <1>0, <1>5
    <3> QED  BY <1>1, <1>5, <3>1 DEF FirstOf
  <2>3. t.type = "kEOF"
    BY <2>1 DEF Token
  <2> QED  BY <2>1, <2>2, <2>3, EndRead
<1>6. CASE p # 0
  <2>1. p \in pos .. n /\ text[p] \in Visibles /\ \A r \in pos .. p - 1 : text[r] \notin Visibles
    BY <1>1, <1>6 DEF FirstOf
  <2>2. p \in 1 .. n /\ p \in pos .. Len(text) /\ p \in Nat /\ p <= n /\ text[p] \in Units /\ p \in 1 .. Len(text)
    BY <1>0, <2>1
  <2>3. PlainFile => text[n] = "space" /\ \A r \in 1 .. n : text[r] # "quote"
    BY <1>0, LengthOfStr DEF PlainFile, Last, ToSet
  <2>4. PlainFile => p # n
    BY <2>1, <2>3 DEF Visibles
  <2>5. ASSUME NEW type \in Types, type # "kLIT_STRING", NEW e, e # 0 => e \in p + 1 .. n + 1, t = read(type, e)
        PROVE  ReadFrom(text, pos, t) /\ t.end = e
    <3>1. e # 0
      BY <1>4, <2>5
    <3>2. t = Token(type, SubSeq(text, p, e - 1), e)
      BY <1>4, <2>5, <3>1
    <3>3. ReadFrom(text, pos, Token(type, SubSeq(text, p, e - 1), e))
      BY <2>1, <2>2, <2>5, <3>1, PlainlyRead
    <3>4. t.end = e
      BY <3>2 DEF Token
    <3> QED  BY <3>2, <3>3, <3>4
  <2>6. p + 1 # 0 /\ p + 1 \in p + 1 .. n + 1 /\ (p # n => p + 1 <= n)
    BY <1>0, <2>2
  <2>7. {"kCOMMA", "kEQUALS", "kLIT_NUMBER", "kIDENTIFIER"} \subseteq Types /\ Units \subseteq Types
    BY DEF Types
  <2>8. CASE text[p] = ","
    <3>1. t = read("kCOMMA", p + 1)
      BY <1>3, <1>6, <2>8, Zenon
    <3> HIDE DEF read
    <3>2. ReadFrom(text, pos, t) /\ t.end = p + 1
      BY <2>5, <2>6, <2>7, <3>1
    <3> QED  BY <2>4, <2>6, <3>2
  <2>9. CASE text[p] = "="
    <3>1. t = read("kEQUALS", p + 1)
      BY <1>3, <1>6, <2>9, Zenon
    <3> HIDE DEF read
    <3>2. ReadFrom(text, pos, t) /\ t.end = p + 1
      BY <2>5, <2>6, <2>7, <3>1
    <3> QED  BY <2>4, <2>6, <3>2
  <2>10. CASE text[p] \in DOMAIN Opers
    <3>0. text[p] \in {"+", "-", "*", "/"}
      BY <2>10, OperUnits
    <3>1. t = read(text[p], p + 1)
      BY <1>3, <1>6, <2>10, Zenon
    <3>3. text[p] \in Types /\ text[p] # "kLIT_STRING"
      BY <2>2, <2>7, <3>0
    <3> HIDE DEF read
    <3>2. ReadFrom(text, pos, t) /\ t.end = p + 1
      BY <2>5, <2>6, <3>1, <3>3
    <3> QED  BY <2>4, <2>6, <3>2
  <2>11. CASE text[p] = "quote"
    <3> DEFINE e == StringEnd(p)
    <3>1. t = Unquoted(read("kLIT_STRING", e))
      BY <1>3, <1>6, <2>11, Zenon
    <3>2. e # 0
      <4>1. SUFFICES ASSUME e = 0 PROVE FALSE
        OBVIOUS
      <4>2. t = Unquoted(Token("endless", <<>>, 0))
        BY <3>1, <4>1 DEF ReadAt
      <4>3. t.type = "endless"
        BY <4>2 DEF Token, Unquoted
      <4> QED  BY <4>3
    <3>3. e \in p + 2 .. Len(text) + 1 /\ text[e - 1] = "quote"
      BY <2>2, <3>2, StringEnds
    <3>4. read("kLIT_STRING", e) = Token("kLIT_STRING", SubSeq(text, p, e - 1), e)
      BY <3>2 DEF ReadAt
    <3>8. ASSUME NEW str, NEW end
          PROVE  Unquoted(Token("kLIT_STRING", str, end)) = Token("kLIT_STRING", SubSeq(str, 2, Len(str) - 1), end)
      BY DEF Token, Unquoted
    <3> HIDE DEF read, e
    <3> PICK u : u = SubSeq(text, p, e - 1)
      OBVIOUS
    <3>5. t = Token("kLIT_STRING", SubSeq(u, 2, Len(u) - 1), e)
      BY <3>1, <3>4, <3>8
    <3>6. ReadFrom(text, pos, t)
      BY <2>1, <2>2, <2>11, <3>3, <3>5, QuotedRead
    <3>7. ~ PlainFile
      <4>1. e - 1 \in 1 .. n
        BY <1>0, <2>2, <3>3
      <4> QED  BY <2>3, <3>3, <4>1
    <3> QED  BY <3>6, <3>7
  <2>12. CASE text[p] \in Digits
    <3> DEFINE e == NumberEnd(p)
    <3>1. t = read("kLIT_NUMBER", e)
      BY <1>3, <1>6, <2>12, Zenon
    <3> HIDE DEF read
    <3>2. e \in p + 1 .. n + 1 /\ (e = n + 1 => text[n] \in Digits \cup {"."})
      BY <2>2, <2>12, NumberEnds
    <3> HIDE DEF e
    <3>3. ReadFrom(text, pos, t) /\ t.end = e
      BY <2>5, <2>7, <3>1, <3>2
    <3>4. "space" \notin Digits \cup {"."}
      BY DEF Digits
    <3>5. PlainFile => e # n + 1
      BY <2>3, <3>2, <3>4
    <3>6. e # n + 1 => e <= n
      BY <1>0, <2>2, <3>2
    <3> QED  BY <3>3, <3>5, <3>6
  <2>13. CASE text[p] \notin {",", "=", "quote"} \cup DOMAIN Opers \cup Digits
    <3> DEFINE e == WordEnd(p)
               type == WordType(SubSeq(text, p, e - 1))
    <3>1. t = read(type, e)
      BY <1>3, <1>6, <2>13, Zenon
    <3>2. type \in Types /\ type # "kLIT_STRING"
      BY <2>7, WordTypes DEF Types
    <3> HIDE DEF read, type
    <3>3. e # 0 => e \in p + 1 .. n + 1 /\ (e = n + 1 => text[n] # "space")
      BY <2>2, WordEnds
    <3> HIDE DEF e
    <3>4. ReadFrom(text, pos, t) /\ t.end = e
      BY <2>5, <3>1, <3>2, <3>3
    <3>7. e # 0
      BY <1>4, <3>1
    <3>5. PlainFile => e # n + 1
      BY <2>3, <3>3, <3>7
    <3>6. e # n + 1 => e <= n
      BY <1>0, <2>2, <3>3, <3>7
    <3> QED  BY <3>4, <3>5, <3>6
  <2> QED  BY <2>8, <2>9, <2>10, <2>11, <2>12, <2>13, Zenon
<1> QED  BY <1>5, <1>6
-----------------------------------------------------------------------------
Plain(s) == s # <<>> /\ Last(s) = "space" /\ "quote" \notin ToSet(s)

\* A token that was read up to p: in a plain file only the last reaches the end.
ReadTo(s, p, t) ==
  /\ t \in Tokens /\ t.type # "endless" /\ t.end = p
  /\ Plain(s) /\ t.type # "kEOF" => p <= Len(s)

\* The lexer at place p of the text s, a token perhaps held: the tokens used,
\* and the one held, spell what was read.
Lexed(s, p, held, used) ==
  /\ s \in Strs
  /\ p \in 1 .. Len(s) + 1
  /\ held # {} => \E t : held = {t} /\ ReadTo(s, p, t)
  /\ used \in Seq(Tokens)
  /\ Visible(Spelled(used) \o Spelled(SetToSeq(held))) = Visible(SubSeq(s, 1, p - 1))

\* A token spells the same, used or held.
LEMMA SpelledOne ==
  ASSUME NEW used \in Seq(Tokens), NEW t \in Tokens
  PROVE  /\ Spelled(used) \in Strs
         /\ Spelled(used) \o Spelled(SetToSeq({})) = Spelled(used)
         /\ Spelled(used) \o Spelled(SetToSeq({t})) = Spelled(used) \o Spelling(t)
         /\ Spelled(Append(used, t)) \o Spelled(SetToSeq({})) = Spelled(used) \o Spelling(t)
<1> PICK u : u = Spelled(used)
  OBVIOUS
<1> PICK v : v = Spelling(t)
  OBVIOUS
<1>1. u \in Strs /\ v \in Strs /\ Spelled(Append(used, t)) = u \o v
  BY SpelledGrows, SpellingTypes
<1>2. \A w \in Strs : w \o <<>> = w /\ <<>> \o w = w
  BY ConcatEmptySeq DEF Strs
<1>3. Spelled(SetToSeq({})) = <<>>
  BY HeldSeq, SpelledNothing
<1>4. Spelled(SetToSeq({t})) = v
  <2>1. SetToSeq({t}) = Append(<<>>, t)
    <3>1. SetToSeq({t}) = <<t>>
      BY HeldSeq
    <3>2. <<t>> = Append(<<>>, t)
      OBVIOUS
    <3> QED  BY <3>1, <3>2
  <2>2. Spelled(Append(<<>>, t)) = Spelled(<<>>) \o v
    <3>1. <<>> \in Seq(Tokens)
      OBVIOUS
    <3> QED  BY <3>1, SpelledGrows
  <2> QED  BY <1>1, <1>2, <2>1, <2>2, SpelledNothing
<1>5. u \o v \in Strs
  BY <1>1, VisibleConcat
<1> QED  BY <1>1, <1>2, <1>3, <1>4, <1>5

\* The token met next, whether it was held or is read now.
LEMMA NextMet ==
  ASSUME Lexed(text, pos, peek, taken), next.type # "endless"
  PROVE  /\ next.end \in 1 .. Len(text) + 1
         /\ ReadTo(text, next.end, next)
         /\ Visible(Spelled(taken) \o Spelling(next)) = Visible(SubSeq(text, 1, next.end - 1))
<1> PICK n : n = next
  OBVIOUS
<1>0. text \in Strs /\ pos \in 1 .. Len(text) + 1 /\ taken \in Seq(Tokens) /\ Len(text) \in Nat
  BY LengthOfStr DEF Lexed
<1>1. CASE peek = {}
  <2>1. n = next_token
    BY <1>1 DEF next
  <2>2. ReadFrom(text, pos, n) /\ (PlainFile /\ n.type # "kEOF" => n.end <= Len(text))
    BY <1>0, <2>1, NextRead
  <2>3. /\ n \in Tokens /\ n.end \in pos .. Len(text) + 1
        /\ Visible(SubSeq(text, 1, n.end - 1)) = Visible(SubSeq(text, 1, pos - 1)) \o Visible(Spelling(n))
    BY <2>2 DEF ReadFrom
  <2>4. Visible(Spelled(taken)) = Visible(SubSeq(text, 1, pos - 1))
    BY <1>0, <1>1, <2>3, SpelledOne DEF Lexed
  <2>5. Visible(Spelled(taken) \o Spelling(n)) = Visible(Spelled(taken)) \o Visible(Spelling(n))
    BY <1>0, <2>3, SpelledOne, SpellingTypes, VisibleConcat
  <2>6. ReadTo(text, n.end, n)
    BY <2>2, <2>3 DEF ReadTo, Plain, PlainFile
  <2>7. n.end \in 1 .. Len(text) + 1
    BY <1>0, <2>3
  <2> QED  BY <2>3, <2>4, <2>5, <2>6, <2>7
<1>2. CASE peek # {}
  <2>1. PICK t : peek = {t} /\ ReadTo(text, pos, t)
    BY <1>2 DEF Lexed
  <2>2. n = t
    BY <2>1 DEF next
  <2>3. n \in Tokens /\ n.end = pos
    BY <2>1, <2>2 DEF ReadTo
  <2>4. Visible(Spelled(taken) \o Spelling(n)) = Visible(SubSeq(text, 1, pos - 1))
    BY <1>0, <2>1, <2>2, <2>3, SpelledOne DEF Lexed
  <2> QED  BY <1>0, <2>1, <2>2, <2>3, <2>4
<1> QED  BY <1>1, <1>2

\* CONSUME: the token met next is used, and none is held.
LEMMA Consumed ==
  ASSUME Lexed(text, pos, peek, taken), Consume, file' = file
  PROVE  Lexed(text', pos', peek', taken')
<1> PICK n : n = next
  OBVIOUS
<1>1. text' = text /\ pos' = n.end /\ peek' = {} /\ taken' = Append(taken, n) /\ n.type # "endless"
  BY DEF Consume, text
<1>2. /\ n.end \in 1 .. Len(text) + 1
      /\ ReadTo(text, n.end, n)
      /\ Visible(Spelled(taken) \o Spelling(n)) = Visible(SubSeq(text, 1, n.end - 1))
  BY <1>1, NextMet
<1>3. text \in Strs /\ taken \in Seq(Tokens) /\ n \in Tokens
  BY <1>2 DEF Lexed, ReadTo
<1>4. Append(taken, n) \in Seq(Tokens)
  BY <1>3
<1>5. Lexed(text, n.end, {}, Append(taken, n))
  BY <1>2, <1>3, <1>4, SpelledOne DEF Lexed
<1> QED  BY <1>1, <1>5

\* DECONSUME: the token met next is held.
LEMMA Deconsumed ==
  ASSUME Lexed(text, pos, peek, taken), Deconsume, file' = file
  PROVE  Lexed(text', pos', peek', taken')
<1> PICK n : n = next
  OBVIOUS
<1>1. text' = text /\ pos' = n.end /\ peek' = {n} /\ taken' = taken /\ n.type # "endless"
  BY DEF Deconsume, text
<1>2. /\ n.end \in 1 .. Len(text) + 1
      /\ ReadTo(text, n.end, n)
      /\ Visible(Spelled(taken) \o Spelling(n)) = Visible(SubSeq(text, 1, n.end - 1))
  BY <1>1, NextMet
<1>3. text \in Strs /\ taken \in Seq(Tokens) /\ n \in Tokens
  BY <1>2 DEF Lexed, ReadTo
<1>5. Lexed(text, n.end, {n}, taken)
  BY <1>2, <1>3, SpelledOne DEF Lexed
<1> QED  BY <1>1, <1>5
-----------------------------------------------------------------------------
IsList(s) == s \in Seq(ToSet(s))

(***************************************************************************)
(* The inductive invariant: the lexer's part, and the parser's.            *)
(***************************************************************************)
ParserInv ==
  /\ file \in Files
  /\ IsList(names) /\ (pc \in {"names", "more"} => names # <<>>)
  /\ pc \in {"unary", "operator", "init", "comma"} => k \in 1 .. Len(names)
  /\ pc \in {"operator", "init"} => left # {}
  /\ IsList(pending) /\ \A waiting \in ToSet(pending) : waiting.left # {}
  /\ pc \notin {"unary", "operator", "unexpected", "endless"} => pending = <<>>
  /\ IsList(script) /\ IsList(scope)
  /\ Len(script) = Len(scope) + IF pc = "done" THEN 1 ELSE 0
  /\ pc = "done" => pos > Len(text)

FrontendInv == Lexed(text, pos, peek, taken) /\ ParserInv

\* Lists, as the steps build them: longer by one element, or shorter by one.
LEMMA ListLength ==
  ASSUME NEW s, IsList(s)
  PROVE  Len(s) \in Nat /\ (s # <<>> => Len(s) > 0)
  BY DEF IsList

\* Any sequence is a list.
LEMMA ListOf ==
  ASSUME NEW S, NEW s \in Seq(S)
  PROVE  IsList(s)
<1>1. Len(s) \in Nat /\ s \in [1 .. Len(s) -> S]
  OBVIOUS
<1>2. \A i \in 1 .. Len(s) : s[i] \in ToSet(s)
  BY <1>1 DEF ToSet
<1>3. s \in [1 .. Len(s) -> ToSet(s)]
  BY <1>1, <1>2
<1> QED  BY <1>1, <1>3 DEF IsList

\* array_add.
LEMMA ListGrows ==
  ASSUME NEW s, IsList(s), NEW x
  PROVE  /\ IsList(Append(s, x)) /\ Append(s, x) # <<>>
         /\ Len(Append(s, x)) = Len(s) + 1
         /\ \A y \in ToSet(Append(s, x)) : y \in ToSet(s) \/ y = x
<1> DEFINE S == ToSet(s) \cup {x}
<1> PICK u : u = Append(s, x)
  OBVIOUS
<1>1. s \in Seq(S) /\ x \in S
  BY DEF IsList
<1>2. /\ u \in Seq(S) /\ Len(u) = Len(s) + 1 /\ Len(s) \in Nat
      /\ \A i \in 1 .. Len(s) : u[i] = s[i]
      /\ u[Len(s) + 1] = x
  BY <1>1, AppendProperties
<1>3. \A y \in ToSet(u) : y \in ToSet(s) \/ y = x
  BY <1>2 DEF ToSet
<1>4. u \in Seq(ToSet(u))
  BY <1>2 DEF ToSet
<1>5. u # <<>>
  BY <1>2
<1> QED  BY <1>2, <1>3, <1>4, <1>5 DEF IsList

\* The list without its last element.
LEMMA ListShrinks ==
  ASSUME NEW s, IsList(s), s # <<>>
  PROVE  /\ IsList(Front(s))
         /\ ToSet(Front(s)) \subseteq ToSet(s)
         /\ Last(s) \in ToSet(s)
<1> PICK n : n = Len(s)
  OBVIOUS
<1> PICK u : u = Front(s)
  OBVIOUS
<1>1. n \in Nat \ {0} /\ s \in Seq(ToSet(s)) /\ \A i \in 1 .. n : s[i] \in ToSet(s)
  BY DEF IsList
<1>2. u = SubSeq(s, 1, n - 1)
  BY DEF Front
<1>3. u \in Seq(ToSet(s))
  <2>1. 1 \in Int /\ n - 1 \in Int /\ \A i \in 1 .. n - 1 : s[i] \in ToSet(s)
    BY <1>1
  <2> QED  BY <1>2, <2>1, SubSeqProperties
<1>4. ToSet(u) \subseteq ToSet(s) /\ u \in Seq(ToSet(u))
  BY <1>3 DEF ToSet
<1>5. Last(s) \in ToSet(s)
  BY <1>1 DEF Last
<1> QED  BY <1>4, <1>5 DEF IsList

\* The return in front of the last statement.
LEMMA ListInserted ==
  ASSUME NEW s, IsList(s), s # <<>>, NEW x
  PROVE  /\ IsList(InsertAt(s, Len(s), x))
         /\ Len(InsertAt(s, Len(s), x)) = Len(s) + 1
         /\ \A y \in ToSet(InsertAt(s, Len(s), x)) : y \in ToSet(s) \/ y = x
<1> PICK n : n = Len(s)
  OBVIOUS
<1> DEFINE S == ToSet(s) \cup {x}
<1>1. n \in Nat \ {0} /\ s \in Seq(S) /\ \A i \in 1 .. n : s[i] \in S
  BY DEF IsList, ToSet
<1> PICK a : a = SubSeq(s, 1, n - 1)
  OBVIOUS
<1> PICK b : b = SubSeq(s, n, n)
  OBVIOUS
<1> PICK u : u = InsertAt(s, n, x)
  OBVIOUS
<1>2. u = (a \o <<x>>) \o b
  BY DEF InsertAt
<1> HIDE DEF S
<1>3. a \in Seq(S) /\ Len(a) = n - 1
  <2>1. 1 \in Int /\ n - 1 \in Int /\ \A i \in 1 .. n - 1 : s[i] \in S
    BY <1>1
  <2>2. a \in Seq(S) /\ Len(a) = IF 1 <= n - 1 THEN (n - 1) - 1 + 1 ELSE 0
    BY <2>1, SubSeqProperties
  <2> QED  BY <1>1, <2>2
<1>4. b \in Seq(S) /\ Len(b) = 1
  <2>1. n \in Int /\ \A i \in n .. n : s[i] \in S
    BY <1>1
  <2>2. b \in Seq(S) /\ Len(b) = IF n <= n THEN n - n + 1 ELSE 0
    BY <2>1, SubSeqProperties
  <2> QED  BY <1>1, <2>2
<1>5. <<x>> \in Seq(S) /\ Len(<<x>>) = 1
  BY DEF S
<1>6. a \o <<x>> \in Seq(S) /\ Len(a \o <<x>>) = n
  <2>1. a \o <<x>> \in Seq(S) /\ Len(a \o <<x>>) = Len(a) + Len(<<x>>)
    BY <1>3, <1>5, ConcatProperties
  <2> QED  BY <1>1, <1>3, <1>5, <2>1
<1>7. (a \o <<x>>) \o b \in Seq(S) /\ Len((a \o <<x>>) \o b) = n + 1
  <2> PICK c : c = a \o <<x>>
    OBVIOUS
  <2>1. c \o b \in Seq(S) /\ Len(c \o b) = Len(c) + Len(b)
    BY <1>4, <1>6, ConcatProperties
  <2> QED  BY <1>4, <1>6, <2>1
<1>8. u \in Seq(S) /\ Len(u) = n + 1
  BY <1>2, <1>7
<1>9. IsList(u)
  BY <1>8, ListOf
<1>10. \A y \in ToSet(u) : y \in S
  BY <1>8 DEF ToSet
<1>11. \A y \in ToSet(u) : y \in ToSet(s) \/ y = x
  BY <1>10 DEF S
<1> QED  BY <1>8, <1>9, <1>11

\* The list without elements.
LEMMA EmptyList == IsList(<<>>) /\ ToSet(<<>>) = {}
  BY DEF IsList, ToSet

\* The parser begins at the front of any of the files.
LEMMA InitInv == Init => FrontendInv
<1> SUFFICES ASSUME Init PROVE FrontendInv
  OBVIOUS
<1>1. /\ file \in Files /\ pos = 1 /\ peek = {} /\ pc = "parse" /\ names = <<>> /\ pending = <<>>
      /\ scope = <<>> /\ script = <<>> /\ taken = <<>>
  BY DEF Init
<1>2. text \in Strs /\ Len(text) \in Nat
  <2>1. text \in Strs
    BY <1>1, FrontendAssumption DEF text, Strs
  <2> QED  BY <2>1, LengthOfStr
<1>3. Spelled(<<>>) \o Spelled(SetToSeq({})) = <<>>
  <2>1. SetToSeq({}) = <<>> /\ Spelled(<<>>) = <<>>
    BY HeldSeq, SpelledNothing
  <2>2. <<>> \o <<>> = <<>>
    OBVIOUS
  <2> QED  BY <2>1, <2>2
<1>4. SubSeq(text, 1, 1 - 1) = <<>>
  <2>1. 1 \in Int /\ 1 - 1 \in Int /\ 1 - 1 < 1
    OBVIOUS
  <2> QED  BY <2>1, SubSeqEmpty
<1>5. Lexed(text, 1, {}, <<>>)
  <2>1. Visible(Spelled(<<>>) \o Spelled(SetToSeq({}))) = Visible(SubSeq(text, 1, 1 - 1))
    BY <1>3, <1>4
  <2>2. 1 \in 1 .. Len(text) + 1 /\ <<>> \in Seq(Tokens)
    BY <1>2
  <2> QED  BY <1>2, <2>1, <2>2 DEF Lexed
<1>6. ParserInv
  BY <1>1, EmptyList DEF ParserInv
<1> QED  BY <1>1, <1>5, <1>6 DEF FrontendInv
-----------------------------------------------------------------------------
\* A step that reads no token changes nothing for the lexer.
LEMMA LexedSame ==
  ASSUME Lexed(text, pos, peek, taken), UNCHANGED <<file, pos, peek, taken>>
  PROVE  Lexed(text', pos', peek', taken')
<1>1. text' = text /\ pos' = pos /\ peek' = peek /\ taken' = taken
  BY DEF text
<1> QED  BY <1>1

\* The lengths of the parser's lists.
LEMMA NoneWaits ==
  ASSUME ParserInv
  PROVE  /\ names = <<>> => Len(names) = 0
         /\ Len(names) \in Nat /\ Len(script) \in Nat /\ Len(scope) \in Nat
  BY ListLength DEF ParserInv

\* One lemma for each step.
LEMMA WhileInv == FrontendInv /\ parse_while => FrontendInv'
<1> SUFFICES ASSUME FrontendInv, parse_while PROVE FrontendInv'
  OBVIOUS
<1>1. ParserInv'
  BY DEF FrontendInv, ParserInv, parse_while
<1>2. Lexed(text', pos', peek', taken')
  BY LexedSame DEF FrontendInv, parse_while
<1> QED  BY <1>1, <1>2 DEF FrontendInv

LEMMA EndInv == FrontendInv /\ parse_end => FrontendInv'
<1> SUFFICES ASSUME FrontendInv, parse_end PROVE FrontendInv'
  OBVIOUS
<1>1. ParserInv'
  <2>1. CASE script = <<>>
    BY <2>1 DEF FrontendInv, ParserInv, parse_end
  <2>2. CASE script # <<>>
    <3>1. PICK x : script' = InsertAt(script, Len(script), x)
      BY <2>2 DEF parse_end
    <3>2. IsList(script') /\ Len(script') = Len(script) + 1
      BY <2>2, <3>1, ListInserted DEF FrontendInv, ParserInv
    <3>3. pc' = "done" /\ pc = "parse" /\ pos' > Len(text')
      BY <2>2 DEF parse_end, AtEnd, text
    <3>4. Len(script) = Len(scope) /\ Len(scope) \in Nat
      BY <3>3, NoneWaits DEF FrontendInv, ParserInv
    <3>5. /\ file' = file /\ names' = names /\ k' = k /\ pending' = pending /\ left' = left /\ scope' = scope
      BY DEF parse_end
    <3>6. Len(script') = Len(scope') + 1
      BY <3>2, <3>4, <3>5
    <3> QED  BY <3>2, <3>3, <3>5, <3>6 DEF FrontendInv, ParserInv
  <2> QED  BY <2>1, <2>2
<1>2. Lexed(text', pos', peek', taken')
  BY LexedSame DEF FrontendInv, parse_end
<1> QED  BY <1>1, <1>2 DEF FrontendInv

LEMMA StatementInv == FrontendInv /\ parse_statement => FrontendInv'
<1> SUFFICES ASSUME FrontendInv, parse_statement PROVE FrontendInv'
  OBVIOUS
<1>1. ParserInv'
  BY DEF FrontendInv, ParserInv, parse_statement
<1>2. Lexed(text', pos', peek', taken')
  BY Consumed DEF FrontendInv, parse_statement
<1> QED  BY <1>1, <1>2 DEF FrontendInv

LEMMA NameInv == FrontendInv /\ parse_name => FrontendInv'
<1> SUFFICES ASSUME FrontendInv, parse_name PROVE FrontendInv'
  OBVIOUS
<1>1. ParserInv'
  <2>1. IsList(names') /\ (pc' \in {"names", "more"} => names' # <<>>)
    <3>1. CASE next.type = "kIDENTIFIER"
      <4>1. names' = <<next.text>>
        BY <3>1 DEF parse_name
      <4>2. <<next.text>> \in Seq({next.text}) /\ <<next.text>> # <<>>
        OBVIOUS
      <4> QED  BY <4>1, <4>2, ListOf
    <3>2. CASE next.type # "kIDENTIFIER"
      BY <3>2 DEF parse_name, FrontendInv, ParserInv
    <3> QED  BY <3>1, <3>2
  <2>2. pc' \in {"names", "parse"} /\ pc = "name"
    BY DEF parse_name
  <2> QED  BY <2>1, <2>2 DEF FrontendInv, ParserInv, parse_name
<1>2. Lexed(text', pos', peek', taken')
  BY Consumed DEF FrontendInv, parse_name
<1> QED  BY <1>1, <1>2 DEF FrontendInv

LEMMA NamesInv == FrontendInv /\ parse_names => FrontendInv'
<1> SUFFICES ASSUME FrontendInv, parse_names PROVE FrontendInv'
  OBVIOUS
<1>1. ParserInv'
  <2>1. pc = "names" /\ names # <<>> /\ Len(names) \in Nat \ {0}
    BY ListLength DEF parse_names, FrontendInv, ParserInv
  <2>2. pc' \in {"more", "unary", "unexpected"} /\ (pc' = "unary" => k' = 1)
    BY DEF parse_names
  <2>3. pc' \in {"unary", "operator", "init", "comma"} => k' \in 1 .. Len(names)
    BY <2>1, <2>2
  <2> QED  BY <2>1, <2>2, <2>3 DEF FrontendInv, ParserInv, parse_names
<1>2. Lexed(text', pos', peek', taken')
  BY Consumed DEF FrontendInv, parse_names
<1> QED  BY <1>1, <1>2 DEF FrontendInv

LEMMA MoreInv == FrontendInv /\ parse_more => FrontendInv'
<1> SUFFICES ASSUME FrontendInv, parse_more PROVE FrontendInv'
  OBVIOUS
<1>1. ParserInv'
  <2>1. IsList(names') /\ names' # <<>>
    BY ListGrows DEF parse_more, FrontendInv, ParserInv
  <2> QED  BY <2>1 DEF FrontendInv, ParserInv, parse_more
<1>2. Lexed(text', pos', peek', taken')
  BY Consumed DEF FrontendInv, parse_more
<1> QED  BY <1>1, <1>2 DEF FrontendInv

LEMMA UnaryInv == FrontendInv /\ parse_unary_expr => FrontendInv'
<1> SUFFICES ASSUME FrontendInv, parse_unary_expr PROVE FrontendInv'
  OBVIOUS
<1>1. ParserInv'
  BY DEF FrontendInv, ParserInv, parse_unary_expr
<1>2. Lexed(text', pos', peek', taken')
  BY Consumed DEF FrontendInv, parse_unary_expr
<1> QED  BY <1>1, <1>2 DEF FrontendInv

LEMMA OperatorInv == FrontendInv /\ parse_operator => FrontendInv'
<1> SUFFICES ASSUME FrontendInv, parse_operator PROVE FrontendInv'
  OBVIOUS
<1>0. pc = "operator" /\ left # {} /\ k \in 1 .. Len(names)
  BY DEF parse_operator, FrontendInv, ParserInv
<1>1. CASE /\ next.type \in DOMAIN Opers /\ Consume
           /\ pending' = Append(pending, [left |-> left, oper |-> Opers[next.type]])
           /\ left' = {} /\ pc' = "unary"
  <2> PICK x : x = [left |-> left, oper |-> Opers[next.type]]
    OBVIOUS
  <2>1. x.left # {}
    BY <1>0
  <2>2. IsList(pending') /\ \A y \in ToSet(pending') : y \in ToSet(pending) \/ y = x
    BY <1>1, ListGrows DEF FrontendInv, ParserInv
  <2>3. \A waiting \in ToSet(pending') : waiting.left # {}
    BY <2>1, <2>2 DEF FrontendInv, ParserInv
  <2>4. ParserInv'
    BY <1>0, <1>1, <2>2, <2>3 DEF FrontendInv, ParserInv, parse_operator
  <2>5. Lexed(text', pos', peek', taken')
    BY <1>1, Consumed DEF FrontendInv, parse_operator
  <2> QED  BY <2>4, <2>5 DEF FrontendInv
<1>2. CASE /\ next.type \notin DOMAIN Opers /\ Deconsume /\ pending # <<>>
           /\ left' = {BinaryOp(Last(pending).oper, l, r) : l \in Last(pending).left, r \in left}
           /\ pending' = Front(pending) /\ pc' = pc
  <2>1. IsList(pending') /\ ToSet(pending') \subseteq ToSet(pending) /\ Last(pending) \in ToSet(pending)
    BY <1>2, ListShrinks DEF FrontendInv, ParserInv
  <2>2. Last(pending).left # {} /\ \A waiting \in ToSet(pending') : waiting.left # {}
    BY <2>1 DEF FrontendInv, ParserInv
  <2>3. left' # {}
    <3> PICK l : l \in Last(pending).left
      BY <2>2
    <3> PICK r : r \in left
      BY <1>0
    <3>1. BinaryOp(Last(pending).oper, l, r) \in left'
      BY <1>2
    <3> QED  BY <3>1
  <2>4. ParserInv'
    BY <1>0, <1>2, <2>1, <2>2, <2>3 DEF FrontendInv, ParserInv, parse_operator
  <2>5. Lexed(text', pos', peek', taken')
    BY <1>2, Deconsumed DEF FrontendInv, parse_operator
  <2> QED  BY <2>4, <2>5 DEF FrontendInv
<1>3. CASE /\ next.type \notin DOMAIN Opers /\ Deconsume /\ pending = <<>>
           /\ pc' = "init"
           /\ UNCHANGED <<pending, left>>
  <2>4. ParserInv'
    BY <1>0, <1>3 DEF FrontendInv, ParserInv, parse_operator
  <2>5. Lexed(text', pos', peek', taken')
    BY <1>3, Deconsumed DEF FrontendInv, parse_operator
  <2> QED  BY <2>4, <2>5 DEF FrontendInv
<1> QED  BY <1>1, <1>2, <1>3 DEF parse_operator

LEMMA InitStepInv == FrontendInv /\ parse_init => FrontendInv'
<1> SUFFICES ASSUME FrontendInv, parse_init PROVE FrontendInv'
  OBVIOUS
<1>0. /\ pc = "init" /\ left # {} /\ k \in 1 .. Len(names) /\ pending = <<>>
      /\ Len(script) = Len(scope) /\ Len(scope) \in Nat /\ Len(names) \in Nat
      /\ file' = file /\ names' = names /\ pending' = pending
  BY NoneWaits DEF parse_init, FrontendInv, ParserInv
<1>1. ParserInv'
  <2>1. CASE local_scope_local_lookup(names[k]) # {}
    <3>1. pc' = "duplicate" /\ UNCHANGED <<scope, script, k, left>>
      BY <2>1 DEF parse_init
    <3> QED  BY <1>0, <3>1 DEF FrontendInv, ParserInv
  <2>2. CASE local_scope_local_lookup(names[k]) = {}
    <3>1. PICK x, y : scope' = Append(scope, x) /\ script' = Append(script, y)
      BY <2>2 DEF parse_init
    <3>2. IsList(scope') /\ Len(scope') = Len(scope) + 1 /\ IsList(script') /\ Len(script') = Len(script) + 1
      BY <3>1, ListGrows DEF FrontendInv, ParserInv
    <3>3. pc' \in {"comma", "parse"} /\ (pc' = "comma" => MoreNamesWait /\ k' = k + 1)
      BY <2>2 DEF parse_init
    <3>4. pc' = "comma" => k' \in 1 .. Len(names)
      BY <1>0, <3>3 DEF MoreNamesWait
    <3>5. Len(script') = Len(scope') + 0
      BY <1>0, <3>2
    <3> QED  BY <1>0, <3>2, <3>3, <3>4, <3>5 DEF FrontendInv, ParserInv
  <2> QED  BY <2>1, <2>2
<1>2. Lexed(text', pos', peek', taken')
  BY LexedSame DEF FrontendInv, parse_init
<1> QED  BY <1>1, <1>2 DEF FrontendInv

LEMMA CommaInv == FrontendInv /\ parse_comma => FrontendInv'
<1> SUFFICES ASSUME FrontendInv, parse_comma PROVE FrontendInv'
  OBVIOUS
<1>1. ParserInv'
  BY DEF FrontendInv, ParserInv, parse_comma
<1>2. Lexed(text', pos', peek', taken')
  BY Consumed DEF FrontendInv, parse_comma
<1> QED  BY <1>1, <1>2 DEF FrontendInv

LEMMA ForeverInv == FrontendInv /\ read_forever => FrontendInv'
<1> SUFFICES ASSUME FrontendInv, read_forever PROVE FrontendInv'
  OBVIOUS
<1>1. ParserInv'
  BY DEF FrontendInv, ParserInv, read_forever
<1>2. Lexed(text', pos', peek', taken')
  BY LexedSame DEF FrontendInv, read_forever
<1> QED  BY <1>1, <1>2 DEF FrontendInv

LEMMA StutterInv == FrontendInv /\ UNCHANGED vars => FrontendInv'
<1> SUFFICES ASSUME FrontendInv, UNCHANGED vars PROVE FrontendInv'
  OBVIOUS
<1>1. ParserInv'
  BY DEF FrontendInv, ParserInv, vars, text
<1>2. Lexed(text', pos', peek', taken')
  BY LexedSame DEF FrontendInv, vars
<1> QED  BY <1>1, <1>2 DEF FrontendInv

\* All steps, and a stutter.
LEMMA StepInv == FrontendInv /\ [Next]_vars => FrontendInv'
  BY WhileInv, EndInv, StatementInv, NameInv, NamesInv, MoreInv, UnaryInv, OperatorInv,
     InitStepInv, CommaInv, ForeverInv, StutterInv DEF Next

\* The invariant that joins the lexer's part and the parser's always holds, for
\* any set of files.
THEOREM FrontendInvariant == Spec => []FrontendInv
  BY InitInv, StepInv, PTL DEF Spec

\* Whatever the files hold, the loop index of parse_statement lies in the list of
\* names when a value is parsed, no operand is missing where one is used, no
\* call of parse_binary_expr waits outside an expression, and a local was
\* declared for each store.
THEOREM TypeCorrect == Spec => []TypeOK
<1>1. FrontendInv => TypeOK
  BY DEF FrontendInv, ParserInv, Lexed, ReadTo, TypeOK
<1> QED  BY <1>1, FrontendInvariant, PTL

\* next_token, CONSUME and DECONSUME lose no visible unit of any file, repeat
\* none and change no order, however often a token is put back.
THEOREM InOrder == Spec => []TokensInOrder
<1>1. FrontendInv => TokensInOrder
  BY DEF FrontendInv, Lexed, TokensInOrder, Spelled
<1> QED  BY <1>1, FrontendInvariant, PTL

\* When parse ends on a file that ends with its last line, no token is held but
\* the end of the file: parse's test of the file hides no token.
THEOREM NothingLost == Spec => []NothingDropped
<1>1. FrontendInv => NothingDropped
  <2> SUFFICES ASSUME FrontendInv, pc = "done", PlainFile, NEW t \in peek PROVE t.type = "kEOF"
    BY DEF NothingDropped
  <2>1. ReadTo(text, pos, t) /\ text \in Strs /\ pos \in 1 .. Len(text) + 1
    BY DEF FrontendInv, Lexed
  <2>2. pos > Len(text) /\ Len(text) \in Nat /\ Plain(text)
    BY <2>1, LengthOfStr DEF FrontendInv, ParserInv, Plain, PlainFile
  <2>3. ~ (pos <= Len(text))
    BY <2>1, <2>2
  <2> QED  BY <2>1, <2>2, <2>3 DEF ReadTo
<1> QED  BY <1>1, FrontendInvariant, PTL
-----------------------------------------------------------------------------
\* E has the literals of strings and the operations of its expressions.
AreExprs(E) ==
  /\ \A str \in Strs : Literal([number |-> str]) \in E /\ Literal([string |-> str]) \in E
  /\ \A oper \in {"add", "sub", "mul", "div"}, l \in E, r \in E : BinaryOp(oper, l, r) \in E

IsStore(s, E) == \E x : \E v \in E : s = StoreLocal(x, v)

\* The trees at hand are made of them, and so are the statements.
TreeInv(E) ==
  /\ left \subseteq E
  /\ \A waiting \in ToSet(pending) : waiting.left \subseteq E /\ waiting.oper \in {"add", "sub", "mul", "div"}
  /\ pc # "done" => \A s \in ToSet(script) : IsStore(s, E)
  /\ \A s \in ToSet(script) : IsStatement(s, E)

\* A store of an expression is a statement.
LEMMA StoreIsStatement ==
  ASSUME NEW E, NEW s, IsStore(s, E)
  PROVE  IsStatement(s, E) /\ IsStatement(Return(s.value), E)
<1>1. PICK x : \E v \in E : s = StoreLocal(x, v)
  BY DEF IsStore
<1>2. PICK v \in E : s = StoreLocal(x, v)
  BY <1>1
<1>3. s.type = "store_local" /\ s.local = x /\ s.value = v
  BY <1>2 DEF StoreLocal
<1>4. Return(v).type = "return" /\ Return(v).value = v
  BY DEF Return
<1> QED  BY <1>2, <1>3, <1>4 DEF IsStatement

\* The text of a token is a string, and so is that of a number without its dot.
LEMMA LiteralRead ==
  ASSUME NEW E, AreExprs(E), NEW t \in Tokens
  PROVE  literal_of(t) \in E
<1> PICK str : str = t.text
  OBVIOUS
<1>1. str \in Strs
  BY DEF Tokens
<1>2. Front(str) \in Strs
  <2>1. Len(str) \in Nat /\ \A i \in 1 .. Len(str) : str[i] \in Units
    BY <1>1, LengthOfStr
  <2>2. 1 \in Int /\ Len(str) - 1 \in Int /\ \A i \in 1 .. Len(str) - 1 : str[i] \in Units
    BY <2>1
  <2> QED  BY <2>2, SubSeqProperties DEF Front, Strs
<1>3. atof(str) \in Strs
  BY <1>1, <1>2 DEF atof
<1> QED  BY <1>1, <1>3 DEF literal_of, AreExprs

\* Opers translates to the operators of binary nodes.
LEMMA OperNamed == \A x \in DOMAIN Opers : Opers[x] \in {"add", "sub", "mul", "div"}
  BY DEF Opers

LEMMA TreeStep ==
  ASSUME NEW E, AreExprs(E), FrontendInv, TreeInv(E), [Next]_vars
  PROVE  TreeInv(E)'
<1>0. Lexed(text, pos, peek, taken) /\ ParserInv
  BY DEF FrontendInv
<1>1. CASE /\ left' \in {left, {}} /\ pending' = pending /\ script' = script
           /\ pc' = "done" => pc = "done"
           /\ pc = "done" => pc' = "done"
  <2>1. left' \subseteq E
    BY <1>1 DEF TreeInv
  <2> QED  BY <1>1, <2>1 DEF TreeInv
<1>2. ASSUME parse_end PROVE TreeInv(E)'
  <2>1. /\ pc = "parse" /\ left' = left /\ pending' = pending
    BY <1>2 DEF parse_end
  <2>2. CASE script = <<>>
    BY <1>2, <2>1, <2>2 DEF parse_end, TreeInv
  <2>3. CASE script # <<>>
    <3> PICK x : x = Return(Last(script).value)
      OBVIOUS
    <3>1. pc' = "done" /\ script' = InsertAt(script, Len(script), x)
      BY <1>2, <2>3 DEF parse_end
    <3>2. IsList(script)
      BY <1>0 DEF ParserInv
    <3>3. \A s \in ToSet(script') : s \in ToSet(script) \/ s = x
      BY <2>3, <3>1, <3>2, ListInserted
    <3>4. Last(script) \in ToSet(script)
      BY <2>3, <3>2, ListShrinks
    <3>5. IsStatement(x, E)
      BY <2>1, <3>4, StoreIsStatement DEF TreeInv
    <3> QED  BY <2>1, <3>1, <3>3, <3>5 DEF TreeInv
  <2> QED  BY <2>2, <2>3
<1>3. ASSUME parse_unary_expr PROVE TreeInv(E)'
  <2>1. next \in Tokens
    BY <1>0, <1>3, NextMet DEF parse_unary_expr, Consume, ReadTo
  <2>2. literal_of(next) \in E
    BY <2>1, LiteralRead
  <2>3. pc = "unary" /\ pc' # "done" /\ left' \in {left, {literal_of(next)}} /\ pending' = pending /\ script' = script
    BY <1>3 DEF parse_unary_expr
  <2>4. left' \subseteq E
    BY <2>2, <2>3 DEF TreeInv
  <2> QED  BY <2>3, <2>4 DEF TreeInv
<1>4. ASSUME parse_operator PROVE TreeInv(E)'
  <2>0. pc = "operator" /\ pc' # "done" /\ script' = script
    BY <1>4 DEF parse_operator
  <2>1. CASE /\ next.type \in DOMAIN Opers
             /\ pending' = Append(pending, [left |-> left, oper |-> Opers[next.type]])
             /\ left' = {}
    <3> PICK x : x = [left |-> left, oper |-> Opers[next.type]]
      OBVIOUS
    <3>1. x.left \subseteq E /\ x.oper \in {"add", "sub", "mul", "div"}
      BY <2>1, OperNamed DEF TreeInv
    <3>2. \A y \in ToSet(pending') : y \in ToSet(pending) \/ y = x
      BY <1>0, <2>1, ListGrows DEF ParserInv
    <3> QED  BY <2>0, <2>1, <3>1, <3>2 DEF TreeInv
  <2>2. CASE /\ pending # <<>>
             /\ left' = {BinaryOp(Last(pending).oper, l, r) : l \in Last(pending).left, r \in left}
             /\ pending' = Front(pending)
    <3>1. ToSet(pending') \subseteq ToSet(pending) /\ Last(pending) \in ToSet(pending)
      BY <1>0, <2>2, ListShrinks DEF ParserInv
    <3>2. /\ Last(pending).left \subseteq E /\ Last(pending).oper \in {"add", "sub", "mul", "div"}
          /\ left \subseteq E
      BY <3>1 DEF TreeInv
    <3>3. left' \subseteq E
      BY <2>2, <3>2 DEF AreExprs
    <3> QED  BY <2>0, <3>1, <3>3 DEF TreeInv
  <2>3. CASE UNCHANGED <<pending, left>>
    BY <2>0, <2>3 DEF TreeInv
  <2> QED  BY <1>4, <2>1, <2>2, <2>3 DEF parse_operator
<1>5. ASSUME parse_init PROVE TreeInv(E)'
  <2>0. pc = "init" /\ pc' # "done" /\ pending' = pending /\ left # {}
    BY <1>0, <1>5 DEF parse_init, ParserInv
  <2>1. CASE local_scope_local_lookup(names[k]) # {}
    BY <1>5, <2>0, <2>1 DEF parse_init, TreeInv
  <2>2. CASE local_scope_local_lookup(names[k]) = {}
    <3> PICK x : x = StoreLocal(names[k], init_value)
      OBVIOUS
    <3>1. script' = Append(script, x) /\ left' = {}
      BY <1>5, <2>2 DEF parse_init
    <3>2. init_value \in E
      BY <2>0 DEF init_value, TreeInv
    <3>3. IsStore(x, E)
      BY <3>2 DEF IsStore
    <3>4. \A y \in ToSet(script') : y \in ToSet(script) \/ y = x
      BY <1>0, <3>1, ListGrows DEF ParserInv
    <3> QED  BY <2>0, <3>1, <3>3, <3>4, StoreIsStatement DEF TreeInv
  <2> QED  BY <2>1, <2>2
<1>6. ASSUME \/ parse_while \/ parse_statement \/ parse_name \/ parse_names
             \/ parse_more \/ parse_comma \/ read_forever \/ UNCHANGED vars
      PROVE  TreeInv(E)'
  <2>1. /\ left' \in {left, {}} /\ pending' = pending /\ script' = script
        /\ pc' = "done" => pc = "done"
        /\ pc = "done" => pc' = "done"
    BY <1>6 DEF parse_while, parse_statement, parse_name, parse_names, parse_more, parse_comma, read_forever, vars
  <2> QED  BY <1>1, <2>1
<1> QED  BY <1>2, <1>3, <1>4, <1>5, <1>6 DEF Next

\* Whatever the file, what parse makes of it is a program as graph_build takes
\* it: stores and returns of expressions, in any set that the constructors do not
\* lead out of. The smallest such set is one that BuilderAssumption allows, so that
\* the proofs about the builder (JitProofs) speak of every file that is parsed to its end.
THEOREM ParsedIsProgram ==
  ASSUME NEW CONSTANT E, AreExprs(E)
  PROVE  Spec => [](pc = "done" => IsProgram(script, E))
<1>1. Init => TreeInv(E)
  BY EmptyList DEF Init, TreeInv
<1>2. FrontendInv /\ TreeInv(E) /\ [Next]_vars => TreeInv(E)'
  BY TreeStep
<1>3. FrontendInv /\ TreeInv(E) => (pc = "done" => IsProgram(script, E))
  <2> SUFFICES ASSUME FrontendInv, TreeInv(E) PROVE IsProgram(script, E)
    OBVIOUS
  <2>1. IsList(script)
    BY DEF FrontendInv, ParserInv
  <2>2. Len(script) \in Nat /\ script = [i \in 1 .. Len(script) |-> script[i]]
    BY <2>1 DEF IsList
  <2>3. \A i \in 1 .. Len(script) : script[i] \in ToSet(script)
    BY <2>1 DEF IsList, ToSet
  <2> QED  BY <2>2, <2>3 DEF IsProgram, TreeInv
<1> QED  BY <1>1, <1>2, <1>3, FrontendInvariant, PTL DEF Spec
-----------------------------------------------------------------------------
\* The type and the text of the token that mark t stands for.
Quoted(str) == str[1] = "quote"
TypeOf(t, str) == CASE t.role = "local"  -> "kLOCAL"
                    [] t.role = "name"   -> "kIDENTIFIER"
                    [] t.role = "equals" -> "kEQUALS"
                    [] t.role \in {"further", "comma"} -> "kCOMMA"
                    [] t.role = "operator" -> str[1]
                    [] OTHER -> IF Quoted(str) THEN "kLIT_STRING" ELSE "kLIT_NUMBER"
TokenOf(t, str) == Token(TypeOf(t, str),
                         IF t.role = "literal" /\ Quoted(str) THEN SubSeq(str, 2, Len(str) - 1) ELSE str,
                         t.end)
EndToken == Token("kEOF", <<>>, Len(text) + 1)

\* The tokens used are the first ones; the one held is the next.
Behind(w) == IF Len(taken) = 0 THEN 1 ELSE w[Len(taken)].end
Upcoming(w) == IF Len(taken) < Len(w) THEN TokenOf(w[Len(taken) + 1], TextOf(text, w[Len(taken) + 1])) ELSE EndToken

Lookahead(w) == /\ Len(taken) \in 0 .. Len(w)
                /\ peek = {} => pos = Behind(w)
                /\ peek # {} => Len(taken) # 0 /\ peek = {Upcoming(w)}

\* The expression of a statement from literal i on.
Rest(stmt, i) ==
  LET expr[j \in 1 .. Len(stmt.lits)] ==
        IF j = Len(stmt.lits) THEN Literal(stmt.lits[j])
        ELSE BinaryOp(stmt.opers[j], Literal(stmt.lits[j]), expr[j + 1])
  IN  expr[i]

\* The stores of the first j statements are made, and their locals declared.
Built(s, j) == /\ Len(script) = j /\ Len(scope) = j
               /\ \A i \in 1 .. j : script[i] = StoreLocal(s[i].local, parse_binary_expr(s[i])) /\ scope[i].name = s[i].local

\* The names of the statements a to b are in varlist.
Named(s, a, b) == Len(names) = (b + 1) - a /\ \A i \in 1 .. (b + 1) - a : names[i] = s[a + i - 1].local

\* The calls for the first p literals of statement j wait for their right operand.
Waiting(s, j, p) == /\ Len(pending) = p
                    /\ \A i \in 1 .. p : pending[i] = [left |-> {Literal(s[j].lits[i])}, oper |-> s[j].opers[i]]

\* In the declaration of t, at the value of the statement j.
Valued(s, t, j) == Named(s, t.first, t.last) /\ k = (j + 1) - t.first

Between(s, w) == \/ Len(taken) = 0 /\ Built(s, 0)
                 \/ Len(taken) # 0 /\ peek # {} /\ Closes(s, w[Len(taken)]) /\ Built(s, w[Len(taken)].stmt)

\* What the parser has made of the tokens used.
Progress(s, w) ==
  LET c == w[Len(taken)] IN
  /\ pc \in {"parse", "statement", "name", "names", "more", "unary", "operator", "init", "comma", "done"}
  /\ pc = "done" => script = parse(s)
  /\ pc = "parse" => Between(s, w)
  /\ pc = "statement" => Between(s, w) /\ Len(taken) < Len(w)
  /\ pc \in {"name", "names", "more", "unary", "operator", "init", "comma"} => Len(taken) # 0
  /\ pc = "name"  => c.role = "local" /\ Built(s, c.first - 1)
  /\ pc = "names" => c.role = "name" /\ Built(s, c.first - 1) /\ Named(s, c.first, c.stmt)
  /\ pc = "more"  => c.role = "further" /\ Built(s, c.first - 1) /\ Named(s, c.first, c.stmt - 1)
  /\ pc = "unary" => /\ c.role \in {"equals", "comma", "operator"}
                     /\ Built(s, c.stmt - 1) /\ Valued(s, c, c.stmt)
                     /\ Waiting(s, c.stmt, IF c.role = "operator" THEN c.item ELSE 0)
  /\ pc = "operator" => /\ c.role = "literal" /\ Built(s, c.stmt - 1) /\ Valued(s, c, c.stmt)
                        /\ Waiting(s, c.stmt, Len(pending)) /\ Len(pending) < c.item
                        /\ IF Ends(s, c) THEN left = {Rest(s[c.stmt], Len(pending) + 1)}
                           ELSE Len(pending) = c.item - 1 /\ left = {Literal(s[c.stmt].lits[c.item])}
  /\ pc = "init"  => /\ Ends(s, c) /\ peek # {} /\ Built(s, c.stmt - 1) /\ Valued(s, c, c.stmt)
                     /\ left = {parse_binary_expr(s[c.stmt])}
  /\ pc = "comma" => Ends(s, c) /\ peek # {} /\ c.stmt < c.last /\ Built(s, c.stmt) /\ Valued(s, c, c.stmt + 1)

ReadInv(s, w) == Lookahead(w) /\ Progress(s, w)

-----------------------------------------------------------------------------
\* First, found.
LEMMA FirstAt ==
  ASSUME text \in Strs, NEW q \in Nat \ {0}, NEW K, NEW e \in q .. Len(text), text[e] \in K,
         \A r \in q .. e - 1 : text[r] \notin K
  PROVE  First(q, K) = e
<1> PICK d : d = First(q, K)
  OBVIOUS
<1> PICK s : s = text
  OBVIOUS
<1>1. FirstOf(s, q, K, d)
  BY FirstIs
<1>2. Len(s) \in Nat /\ e \in Nat /\ q \in Nat /\ e \in q .. Len(s) /\ s[e] \in K /\ \A r \in q .. e - 1 : s[r] \notin K
  BY LengthOfStr
<1>3. d \in q .. Len(s) /\ s[d] \in K /\ \A r \in q .. d - 1 : s[r] \notin K
  BY <1>1, <1>2 DEF FirstOf
<1>4. ~ (e \in q .. d - 1) /\ ~ (d \in q .. e - 1)
  BY <1>2, <1>3
<1>5. d = e
  BY <1>2, <1>3, <1>4
<1> QED  BY <1>5

\* First, not found.
LEMMA FirstNone ==
  ASSUME text \in Strs, NEW q \in Nat \ {0}, NEW K, \A r \in q .. Len(text) : text[r] \notin K
  PROVE  First(q, K) = 0
<1> PICK d : d = First(q, K)
  OBVIOUS
<1>1. FirstOf(text, q, K, d)
  BY FirstIs
<1>2. d = 0
  BY <1>1 DEF FirstOf
<1> QED  BY <1>2

\* "local" stands at p: no other keyword does, and nothing ends it earlier.
LEMMA LocalIs ==
  ASSUME text \in Strs, NEW p \in Nat \ {0}, p + 4 <= Len(text), SubSeq(text, p, p + 4) = Keywords.kLOCAL
  PROVE  WordEnd(p) = p + 5 /\ WordType(Keywords.kLOCAL) = "kLOCAL" /\ text[p] = "l"
<1> PICK q : q = First(p + 1, Symbols \cup {"space"})
  OBVIOUS
<1> PICK S : S = {q} \cup {p + Len(Keywords[t]) : t \in KeywordsAt(p)}
  OBVIOUS
<1>0. "kLOCAL" \in DOMAIN Keywords /\ Keywords.kLOCAL = <<"l", "o", "c", "a", "l">>
  BY DEF Keywords
<1>1. Len(Keywords.kLOCAL) = 5 /\ Keywords.kLOCAL[1] = "l"
  BY <1>0
<1>2. "kLOCAL" \in KeywordsAt(p)
  <2>1. p + Len(Keywords.kLOCAL) - 1 = p + 4
    BY <1>1
  <2> QED  BY <1>0, <2>1, Zenon DEF KeywordsAt
<1>3. text[p] = "l"
  <2> PICK b : b = p + 4
    OBVIOUS
  <2>1. b \in Nat /\ b <= Len(text) /\ p <= b + 1 /\ 1 \in 1 .. (b + 1) - p /\ p + 1 - 1 = p
    OBVIOUS
  <2>2. SubSeq(text, p, b)[1] = text[p + 1 - 1]
    BY <2>1, PartOf
  <2> QED  BY <1>1, <2>1, <2>2
<1>4. \A t \in KeywordsAt(p) : t = "kLOCAL"
  BY <1>3, KeywordAt
<1>5. \A r \in p .. p + 4 : text[r] \in Letters
  <2>1. (p + Len(Keywords.kLOCAL)) - 1 = p + 4
    BY <1>1
  <2> QED  BY <1>2, <2>1, KeywordAt
<1>6. q = 0 \/ q > p + 4
  <2>1. FirstOf(text, p + 1, Symbols \cup {"space"}, q) /\ Len(text) \in Nat
    BY FirstIs, LengthOfStr
  <2>2. q = 0 \/ (q \in p + 1 .. Len(text) /\ text[q] \in Symbols \cup {"space"})
    BY <2>1 DEF FirstOf
  <2>3. q \in p .. p + 4 => text[q] \notin Symbols \cup {"space"}
    BY <1>5, LettersAre
  <2> QED  BY <2>1, <2>2, <2>3
<1>7. S = {q, p + 5} /\ q \in Nat
  <2>1. {p + Len(Keywords[t]) : t \in KeywordsAt(p)} = {p + 5}
    BY <1>1, <1>2, <1>4
  <2>2. q \in Nat
    BY FirstIs, LengthOfStr DEF FirstOf
  <2> QED  BY <2>1, <2>2
<1>8. Nearest(S) = p + 5
  <2> PICK T : T = {q, p + 5}
    OBVIOUS
  <2> PICK e : e = Nearest(T)
    OBVIOUS
  <2>1. T \in SUBSET Nat /\ p + 5 \in T /\ p + 5 # 0 /\ \A m \in T : m # 0 => p + 5 <= m
    BY <1>6, <1>7
  <2>2. e \in T /\ e # 0 /\ \A m \in T : m # 0 => e <= m
    BY <2>1, NearestIs
  <2>3. e = p + 5
    BY <2>1, <2>2
  <2> QED  BY <1>7, <2>3
<1>9. WordType(Keywords.kLOCAL) = "kLOCAL"
  <2>1. \A t \in DOMAIN Keywords : Keywords[t] = Keywords.kLOCAL => t = "kLOCAL"
    BY <1>1, KeywordsAre DEF IsSpelling
  <2>2. iskeyword(Keywords.kLOCAL) /\ lex_keyword(Keywords.kLOCAL) = "kLOCAL"
    BY <1>0, <2>1 DEF iskeyword, lex_keyword
  <2> QED  BY <2>2 DEF WordType
<1> QED  BY <1>3, <1>8, <1>9 DEF WordEnd

\* next_token at the first unit of a token, one line for each kind of token.
LEMMA TokenAt ==
  ASSUME NEW p \in 1 .. Len(text), First(pos, Visibles) = p
  PROVE  /\ text[p] = "," => next_token = Token("kCOMMA", SubSeq(text, p, (p + 1) - 1), p + 1)
         /\ text[p] = "=" => next_token = Token("kEQUALS", SubSeq(text, p, (p + 1) - 1), p + 1)
         /\ text[p] \in DOMAIN Opers => next_token = Token(text[p], SubSeq(text, p, (p + 1) - 1), p + 1)
         /\ \A e : text[p] = "quote" /\ StringEnd(p) = e /\ e # 0 =>
              LET u == SubSeq(text, p, e - 1)
              IN  next_token = Token("kLIT_STRING", SubSeq(u, 2, Len(u) - 1), e)
         /\ \A e : text[p] \in Digits /\ NumberEnd(p) = e /\ e # 0 =>
              next_token = Token("kLIT_NUMBER", SubSeq(text, p, e - 1), e)
         /\ \A e : text[p] \notin {",", "=", "quote"} \cup DOMAIN Opers \cup Digits /\ WordEnd(p) = e /\ e # 0 =>
              next_token = Token(WordType(SubSeq(text, p, e - 1)), SubSeq(text, p, e - 1), e)
<1> PICK x : x = text[p]
  OBVIOUS
<1>1. p \in 0 .. Len(text) /\ p # 0 /\ p + 1 # 0 /\ next_token = TokenFrom[p]
  BY DEF next_token
<1>2. \A type, end : end # 0 => ReadAt(p, type, end) = Token(type, SubSeq(text, p, end - 1), end)
  BY DEF ReadAt
<1>3. \A str, end : Unquoted(Token("kLIT_STRING", str, end)) = Token("kLIT_STRING", SubSeq(str, 2, Len(str) - 1), end)
  BY DEF Token, Unquoted
<1>4. x = "," => next_token = ReadAt(p, "kCOMMA", p + 1)
  BY <1>1, TokenFromIs, Zenon
<1>5. x = "=" => next_token = ReadAt(p, "kEQUALS", p + 1)
  BY <1>1, TokenFromIs, Zenon
<1>6. x \in DOMAIN Opers => next_token = ReadAt(p, x, p + 1)
  BY <1>1, TokenFromIs, Zenon
<1>7. ASSUME NEW e, x = "quote", StringEnd(p) = e, e # 0
      PROVE  LET u == SubSeq(text, p, e - 1)
             IN  next_token = Token("kLIT_STRING", SubSeq(u, 2, Len(u) - 1), e)
  <2> PICK u : u = SubSeq(text, p, e - 1)
    OBVIOUS
  <2>1. next_token = Unquoted(ReadAt(p, "kLIT_STRING", e))
    BY <1>1, <1>7, TokenFromIs, Zenon
  <2>2. ReadAt(p, "kLIT_STRING", e) = Token("kLIT_STRING", u, e)
    BY <1>2, <1>7
  <2> QED  BY <1>3, <2>1, <2>2
<1>8. ASSUME NEW e, x \in Digits, NumberEnd(p) = e, e # 0
      PROVE  next_token = Token("kLIT_NUMBER", SubSeq(text, p, e - 1), e)
  <2>1. next_token = ReadAt(p, "kLIT_NUMBER", e)
    BY <1>1, <1>8, TokenFromIs, Zenon
  <2> QED  BY <1>2, <1>8, <2>1, Zenon
<1>9. ASSUME NEW e, x \notin {",", "=", "quote"} \cup DOMAIN Opers \cup Digits, WordEnd(p) = e, e # 0
      PROVE  next_token = Token(WordType(SubSeq(text, p, e - 1)), SubSeq(text, p, e - 1), e)
  <2>1. next_token = ReadAt(p, WordType(SubSeq(text, p, e - 1)), e)
    BY <1>1, <1>9, TokenFromIs, Zenon
  <2> QED  BY <1>2, <1>9, <2>1, Zenon
<1>10. /\ x = "," => next_token = Token("kCOMMA", SubSeq(text, p, (p + 1) - 1), p + 1)
       /\ x = "=" => next_token = Token("kEQUALS", SubSeq(text, p, (p + 1) - 1), p + 1)
       /\ x \in DOMAIN Opers => next_token = Token(x, SubSeq(text, p, (p + 1) - 1), p + 1)
  BY <1>1, <1>2, <1>4, <1>5, <1>6, Zenon
<1>11. \A e : x = "quote" /\ StringEnd(p) = e /\ e # 0 =>
         LET u == SubSeq(text, p, e - 1)
         IN  next_token = Token("kLIT_STRING", SubSeq(u, 2, Len(u) - 1), e)
  BY <1>7, Zenon
<1>12. \A e : x \in Digits /\ NumberEnd(p) = e /\ e # 0 =>
         next_token = Token("kLIT_NUMBER", SubSeq(text, p, e - 1), e)
  BY <1>8, Zenon
<1>13. \A e : x \notin {",", "=", "quote"} \cup DOMAIN Opers \cup Digits /\ WordEnd(p) = e /\ e # 0 =>
         next_token = Token(WordType(SubSeq(text, p, e - 1)), SubSeq(text, p, e - 1), e)
  BY <1>9, Zenon
<1> QED  BY <1>10, <1>11, <1>12, <1>13, Zenon

\* The units of a token in the text.
LEMMA UnitsOf ==
  ASSUME text \in Strs, NEW t, t.begin \in 1 .. Len(text), t.end \in t.begin + 1 .. Len(text) + 1,
         NEW str, str = TextOf(text, t)
  PROVE  /\ t.begin \in Nat \ {0} /\ t.end \in Nat /\ t.begin < t.end /\ t.end <= Len(text) + 1
         /\ str \in Strs /\ Len(str) = t.end - t.begin
         /\ str[1] = text[t.begin]
         /\ \A r \in t.begin .. t.end - 1 : (r + 1) - t.begin \in 1 .. Len(str) /\ text[r] = str[(r + 1) - t.begin]
<1> PICK b : b = t.begin
  OBVIOUS
<1> PICK e : e = t.end
  OBVIOUS
<1>1. Len(text) \in Nat /\ b \in Nat \ {0} /\ e \in Nat /\ b < e /\ e <= Len(text) + 1
  BY LengthOfStr
<1>2. str = SubSeq(text, b, e - 1) /\ e - 1 \in Nat /\ e - 1 <= Len(text) /\ b <= (e - 1) + 1 /\ ((e - 1) + 1) - b = e - b
  BY <1>1 DEF TextOf
<1>3. str \in Strs /\ Len(str) = e - b /\ \A i \in 1 .. e - b : str[i] = text[b + i - 1]
  <2>1. /\ SubSeq(text, b, e - 1) \in Strs
        /\ Len(SubSeq(text, b, e - 1)) = ((e - 1) + 1) - b
        /\ \A i \in 1 .. ((e - 1) + 1) - b : SubSeq(text, b, e - 1)[i] = text[b + i - 1]
    BY <1>1, <1>2, PartOf
  <2> QED  BY <1>2, <2>1
<1>4. str[1] = text[b]
  <2>1. 1 \in 1 .. e - b /\ b + 1 - 1 = b
    BY <1>1
  <2> QED  BY <1>3, <2>1
<1>5. ASSUME NEW r \in b .. e - 1 PROVE (r + 1) - b \in 1 .. Len(str) /\ text[r] = str[(r + 1) - b]
  <2>1. (r + 1) - b \in 1 .. e - b /\ b + ((r + 1) - b) - 1 = r
    BY <1>1
  <2> QED  BY <1>3, <2>1
<1> QED  BY <1>1, <1>3, <1>4, <1>5

\* The loops of next_token end where the tokens do. A string:
LEMMA StringIs ==
  ASSUME text \in Strs, NEW t, t.begin \in 1 .. Len(text), t.end \in t.begin + 1 .. Len(text) + 1,
         IsQuoted(TextOf(text, t))
  PROVE  StringEnd(t.begin) = t.end
<1> PICK b : b = t.begin
  OBVIOUS
<1> PICK e : e = t.end
  OBVIOUS
<1> PICK str : str = TextOf(text, t)
  OBVIOUS
<1>1. /\ b \in Nat \ {0} /\ e \in Nat /\ b < e /\ e <= Len(text) + 1 /\ Len(text) \in Nat
      /\ Len(str) = e - b
      /\ \A r \in b .. e - 1 : (r + 1) - b \in 1 .. Len(str) /\ text[r] = str[(r + 1) - b]
  BY UnitsOf, LengthOfStr
<1>2. /\ Len(str) >= 2 /\ str[Len(str)] = "quote" /\ \A i \in 2 .. Len(str) - 1 : str[i] # "quote"
  BY DEF IsQuoted
<1>3. text[e - 1] = "quote"
  <2>1. e - 1 \in b .. e - 1 /\ ((e - 1) + 1) - b = Len(str)
    BY <1>1
  <2> QED  BY <1>1, <1>2, <2>1
<1>4. ASSUME NEW r \in b + 1 .. (e - 1) - 1 PROVE text[r] \notin {"quote"}
  <2>1. r \in b .. e - 1 /\ (r + 1) - b \in 2 .. Len(str) - 1
    BY <1>1
  <2> QED  BY <1>1, <1>2, <2>1
<1>5. e - 1 \in b + 1 .. Len(text) /\ b + 1 \in Nat \ {0}
  BY <1>1, <1>2
<1>6. First(b + 1, {"quote"}) = e - 1
  <2> PICK m : m = e - 1
    OBVIOUS
  <2>1. m \in b + 1 .. Len(text) /\ text[m] \in {"quote"} /\ \A r \in b + 1 .. m - 1 : text[r] \notin {"quote"}
    BY <1>3, <1>4, <1>5
  <2>2. First(b + 1, {"quote"}) = m
    BY <1>5, <2>1, FirstAt
  <2> QED  BY <2>2
<1>7. e - 1 # 0 /\ (e - 1) + 1 = e
  BY <1>1, <1>5
<1> QED  BY <1>6, <1>7 DEF StringEnd

\* The units up to one place are a prefix of those up to a later one.
LEMMA PrefixIs ==
  ASSUME NEW s \in Strs, NEW b \in Nat \ {0}, NEW q \in Nat, NEW e \in Nat, b < q, q <= e, e <= Len(s) + 1
  PROVE  IsPrefix(SubSeq(s, b, q - 1), SubSeq(s, b, e - 1))
<1> PICK n : n = q - b
  OBVIOUS
<1>0. Len(s) \in Nat
  BY LengthOfStr
<1>1. /\ b \in 1 .. Len(s) /\ e - 1 \in 1 .. Len(s) /\ 1 \in 1 .. (e - 1) - b + 1 /\ n \in 1 .. (e - 1) - b + 1
      /\ b + 1 - 1 = b /\ b + n - 1 = q - 1
  BY <1>0
<1>2. \A d \in 1 .. Len(s) : n \in 1 .. d - b + 1 /\ 1 \in 1 .. d - b + 1 =>
        SubSeq(SubSeq(s, b, d), 1, n) = SubSeq(s, b + 1 - 1, b + n - 1)
  BY <1>1, SubSeqOfSubSeq DEF Strs
<1> PICK word : word = SubSeq(s, b, q - 1)
  OBVIOUS
<1> PICK str : str = SubSeq(s, b, e - 1)
  OBVIOUS
<1>3. SubSeq(str, 1, n) = word
  BY <1>1, <1>2
<1>4. word \in Strs /\ Len(word) = n
  <2>1. q - 1 \in Nat /\ q - 1 <= Len(s) /\ b <= (q - 1) + 1 /\ ((q - 1) + 1) - b = n
    BY <1>0
  <2> QED  BY <2>1, PartOf
<1>5. str \in Strs /\ Len(str) >= n
  <2>1. e - 1 \in Nat /\ e - 1 <= Len(s) /\ b <= (e - 1) + 1 /\ ((e - 1) + 1) - b >= n
    BY <1>0
  <2> QED  BY <2>1, PartOf
<1>6. SubSeq(word, 1, n) = word
  BY <1>4, SubSeqFull DEF Strs
<1> QED  BY <1>3, <1>4, <1>5, <1>6 DEF IsPrefix

\* A name, in front of white space or a symbol:
LEMMA NameIs ==
  ASSUME text \in Strs, NEW t, t.begin \in 1 .. Len(text), t.end \in t.begin + 1 .. Len(text),
         IsName(TextOf(text, t)), text[t.end] \in Symbols \cup {"space"}
  PROVE  WordEnd(t.begin) = t.end /\ WordType(TextOf(text, t)) = "kIDENTIFIER"
<1> PICK b : b = t.begin
  OBVIOUS
<1> PICK e : e = t.end
  OBVIOUS
<1> PICK str : str = TextOf(text, t)
  OBVIOUS
<1>1. /\ b \in Nat \ {0} /\ e \in Nat /\ b < e /\ e <= Len(text) /\ Len(text) \in Nat
      /\ str \in Strs /\ str = SubSeq(text, b, e - 1) /\ Len(str) = e - b
      /\ \A r \in b .. e - 1 : (r + 1) - b \in 1 .. Len(str) /\ text[r] = str[(r + 1) - b]
  <2>1. t.end \in t.begin + 1 .. Len(text) + 1 /\ Len(text) \in Nat
    BY LengthOfStr
  <2>2. /\ b \in Nat \ {0} /\ e \in Nat /\ b < e /\ str \in Strs /\ Len(str) = e - b
        /\ \A r \in b .. e - 1 : (r + 1) - b \in 1 .. Len(str) /\ text[r] = str[(r + 1) - b]
    BY <2>1, UnitsOf
  <2>3. str = SubSeq(text, b, e - 1)
    BY DEF TextOf
  <2>4. e <= Len(text)
    BY <2>1
  <2> QED  BY <2>1, <2>2, <2>3, <2>4
<1>2. \A i \in 1 .. Len(str) : str[i] \notin Symbols \cup {"space"}
  <2>1. \A i \in 1 .. Len(str) : str[i] \in ToSet(str)
    BY <1>1, LengthOfStr DEF ToSet
  <2> QED  BY <2>1 DEF IsName
<1>3. \A r \in b + 1 .. e - 1 : text[r] \notin Symbols \cup {"space"}
  <2>1. \A r \in b + 1 .. e - 1 : r \in b .. e - 1
    BY <1>1
  <2> QED  BY <1>1, <1>2, <2>1, ZenonT(60)
<1>4. e \in b + 1 .. Len(text) /\ b + 1 \in Nat \ {0}
  BY <1>1
<1>5. First(b + 1, Symbols \cup {"space"}) = e
  BY <1>3, <1>4, FirstAt
<1>6. \A word \in Strs : IsPrefix(word, word)
  BY LengthOfStr DEF IsPrefix
<1>7. WordType(str) = "kIDENTIFIER"
  <2>1. ASSUME NEW u \in DOMAIN Keywords PROVE Keywords[u] # str
    <3>1. ~ IsPrefix(Keywords[u], str)
      BY DEF IsName
    <3> QED  BY <1>1, <1>6, <3>1
  <2> QED  BY <2>1 DEF WordType, iskeyword
<1>8. ASSUME NEW u \in KeywordsAt(b) PROVE FALSE
  <2>1. PICK q : q = b + Len(Keywords[u])
    OBVIOUS
  <2>2. /\ u \in DOMAIN Keywords /\ q \in b + 2 .. Len(text) + 1 /\ SubSeq(text, b, q - 1) = Keywords[u]
        /\ \A r \in b .. q - 1 : text[r] \in Letters
    BY <1>1, <2>1, KeywordAt
  <2>3. q \in Nat /\ b < q
    BY <1>1, <2>2
  <2>4. q <= e
    <3>1. text[e] \notin Letters
      BY LettersAre
    <3>2. ~ (e \in b .. q - 1)
      BY <2>2, <3>1
    <3> QED  BY <1>1, <2>3, <3>2
  <2>5. IsPrefix(SubSeq(text, b, q - 1), SubSeq(text, b, e - 1))
    BY <1>1, <2>3, <2>4, PrefixIs
  <2>6. ~ IsPrefix(Keywords[u], str)
    BY <2>2 DEF IsName
  <2> QED  BY <1>1, <2>2, <2>5, <2>6
<1>9. WordEnd(b) = e
  <2> PICK S : S = {e}
    OBVIOUS
  <2>1. {First(b + 1, Symbols \cup {"space"})} \cup {b + Len(Keywords[u]) : u \in KeywordsAt(b)} = S
    BY <1>5, <1>8
  <2>2. S \in SUBSET Nat /\ e # 0
    BY <1>1
  <2>3. Nearest(S) = e
    BY <2>2, NearestIs
  <2> QED  BY <2>1, <2>3 DEF WordEnd
<1> QED  BY <1>7, <1>9

\* A number, in front of what continues none:
LEMMA NumberIs ==
  ASSUME text \in Strs, NEW t, t.begin \in 1 .. Len(text), t.end \in t.begin + 1 .. Len(text) + 1,
         IsNumber(TextOf(text, t)), t.end <= Len(text) => text[t.end] \notin Digits \cup {"."}
  PROVE  NumberEnd(t.begin) = t.end
<1> PICK b : b = t.begin
  OBVIOUS
<1> PICK e : e = t.end
  OBVIOUS
<1> PICK str : str = TextOf(text, t)
  OBVIOUS
<1> PICK L : L = Len(text)
  OBVIOUS
<1>1. /\ b \in Nat \ {0} /\ e \in Nat /\ b < e /\ e <= L + 1 /\ L \in Nat
      /\ str \in Strs /\ str[1] = text[b]
      /\ \A r \in b .. e - 1 : (r + 1) - b \in 1 .. Len(str) /\ text[r] = str[(r + 1) - b]
  BY UnitsOf, LengthOfStr
<1>2. /\ text[b] \in Digits
      /\ \A r \in b .. e - 1 : text[r] \in Digits \cup {"."}
      /\ \A r, m \in b .. e - 1 : text[r] = "." /\ text[m] = "." => r = m
  <2>1. \A i \in 1 .. Len(str) : str[i] \in ToSet(str) /\ i \in DOMAIN str
    BY <1>1, LengthOfStr DEF ToSet
  <2>2. ASSUME NEW r \in b .. e - 1, NEW m \in b .. e - 1, text[r] = ".", text[m] = "."
        PROVE  r = m
    <3>0. PICK i, j : i = (r + 1) - b /\ j = (m + 1) - b
      OBVIOUS
    <3>2. i \in DOMAIN str /\ j \in DOMAIN str /\ str[i] = "." /\ str[j] = "."
      BY <1>1, <2>1, <2>2, <3>0
    <3>1. (r + 1) - b = (m + 1) - b
      BY <3>0, <3>2 DEF IsNumber
    <3> QED  BY <1>1, <3>1
  <2>3. text[b] \in Digits /\ \A r \in b .. e - 1 : text[r] \in Digits \cup {"."}
    BY <1>1, <2>1 DEF IsNumber
  <2> QED  BY <2>2, <2>3
<1>3. \A r \in 1 .. L : text[r] \in Units
  BY LengthOfStr
<1> DEFINE behind(i) == LET r == First(i, NoDigits) IN IF r = 0 THEN L + 1 ELSE r
<1>4. ASSUME NEW i \in 1 .. L + 1, NEW j \in i .. L + 1, \A r \in i .. j - 1 : text[r] \in Digits,
             j <= L => text[j] \notin Digits
      PROVE  behind(i) = j
  <2>0. i \in Nat \ {0} /\ j \in Nat /\ \A r \in i .. j - 1 : text[r] \notin NoDigits
    BY <1>1, <1>4 DEF NoDigits
  <2>1. CASE j <= L
    <3>1. j \in i .. L /\ text[j] \in NoDigits
      BY <1>1, <1>3, <1>4, <2>1 DEF NoDigits
    <3>2. First(i, NoDigits) = j
      BY <2>0, <3>1, FirstAt
    <3> QED  BY <2>0, <3>1, <3>2
  <2>2. CASE ~ (j <= L)
    <3>1. j = L + 1 /\ \A r \in i .. L : r \in i .. j - 1
      BY <1>1, <1>4, <2>2
    <3>2. First(i, NoDigits) = 0
      BY <2>0, <3>1, FirstNone
    <3> QED  BY <3>1, <3>2
  <2> QED  BY <2>1, <2>2
<1> DEFINE q == behind(b + 1)
<1>5. NumberEnd(b) = IF q <= L /\ text[q] = "." THEN behind(q + 1) ELSE q
  BY DEF NumberEnd
<1>6. "." \notin Digits
  BY DEF Digits
<1> HIDE DEF behind
<1>7. CASE \A r \in b + 1 .. e - 1 : text[r] # "."
  <2>1. q = e
    <3>1. b + 1 \in 1 .. L + 1 /\ e \in b + 1 .. L + 1
      BY <1>1
    <3>2. \A r \in b + 1 .. e - 1 : r \in b .. e - 1 /\ text[r] \in Digits
      BY <1>1, <1>2, <1>7
    <3>3. e <= L => text[e] \notin Digits
      OBVIOUS
    <3> QED  BY <1>4, <3>1, <3>2, <3>3
  <2> HIDE DEF q
  <2> QED  BY <1>5, <2>1
<1>8. ASSUME NEW d \in b + 1 .. e - 1, text[d] = "." PROVE NumberEnd(b) = e
  <2>0. d \in b .. e - 1 /\ d <= L
    BY <1>1
  <2>1. q = d
    <3>1. b + 1 \in 1 .. L + 1 /\ d \in b + 1 .. L + 1
      BY <1>1
    <3>2. \A r \in b + 1 .. d - 1 : r \in b .. e - 1 /\ r # d
      BY <1>1
    <3>3. \A r \in b + 1 .. d - 1 : text[r] \in Digits
      BY <1>2, <1>8, <2>0, <3>2
    <3>4. d <= L => text[d] \notin Digits
      BY <1>6, <1>8
    <3> QED  BY <1>4, <3>1, <3>3, <3>4
  <2>2. behind(d + 1) = e
    <3>1. d + 1 \in 1 .. L + 1 /\ e \in d + 1 .. L + 1
      BY <1>1
    <3>2. \A r \in d + 1 .. e - 1 : r \in b .. e - 1 /\ r # d
      BY <1>1
    <3>3. \A r \in d + 1 .. e - 1 : text[r] \in Digits
      BY <1>2, <1>8, <2>0, <3>2
    <3>4. e <= L => text[e] \notin Digits
      OBVIOUS
    <3> QED  BY <1>4, <3>1, <3>3, <3>4
  <2> HIDE DEF q
  <2> QED  BY <1>5, <1>8, <2>0, <2>1, <2>2
<1> HIDE DEF q
<1> QED  BY <1>7, <1>8

\* What a mark's token begins with.
LEMMA SpellingBegins ==
  ASSUME NEW s, NEW t, NEW str \in Strs, Spells(s, t, str)
  PROVE  /\ str[1] # "space"
         /\ t.role \in {"equals", "further", "comma"} => str[1] \in Symbols
         /\ t.role # "literal" /\ t.role # "name" => str[1] \notin Digits \cup {"."}
         /\ t.role \in {"local", "name", "equals", "further", "comma", "operator", "literal"}
<1>1. Digits = {"1", "2"} /\ DOMAIN Opers = {"+", "-", "*", "/"}
  BY OperUnits DEF Digits
<1>2. CASE t.role = "local" /\ str = Keywords.kLOCAL
  <2>1. str[1] = "l"
    BY <1>2 DEF Keywords
  <2> QED  BY <1>1, <1>2, <2>1
<1>3. CASE t.role = "name" /\ IsName(str)
  <2>1. Len(str) # 0
    <3>1. str # <<>>
      BY <1>3 DEF IsName
    <3> QED  BY <3>1 DEF Strs
  <2>2. 1 \in DOMAIN str
    BY <2>1, LengthOfStr
  <2>3. str[1] \in ToSet(str)
    BY <2>2 DEF ToSet
  <2>4. str[1] # "space"
    BY <1>3, <2>3 DEF IsName
  <2> QED  BY <1>3, <2>4
<1>4. CASE t.role = "equals" /\ str = <<"=">>
  <2>1. str[1] = "=" /\ "=" \in Symbols
    BY <1>4 DEF Symbols
  <2> QED  BY <1>1, <1>4, <2>1
<1>5. CASE t.role \in {"further", "comma"} /\ str = <<",">>
  <2>1. "," \in Symbols /\ "," \notin Digits \cup {"."} /\ "," # "space"
    BY <1>1 DEF Symbols
  <2>2. str[1] = "," /\ t.role \in {"further", "comma"}
    BY <1>5, Zenon
  <2> QED  BY <2>1, <2>2, Zenon
<1>6. CASE t.role = "operator" /\ \E u \in DOMAIN Opers : str = <<u>>
  BY <1>1, <1>6
<1>7. CASE t.role = "literal" /\ (IsNumber(str) \/ IsQuoted(str))
  BY <1>1, <1>7 DEF IsNumber, IsQuoted
<1> QED  BY <1>2, <1>3, <1>4, <1>5, <1>6, <1>7 DEF Spells, IsLiteral

\* A token is read as what it was written for.
LEMMA WrittenRead ==
  ASSUME text \in Strs, pos \in 1 .. Len(text) + 1,
         NEW s, NEW t, t.begin \in pos .. Len(text), t.end \in t.begin + 1 .. Len(text) + 1,
         White(text, pos, t.begin - 1), Spells(s, t, TextOf(text, t)),
         t.role = "name" => t.end <= Len(text) /\ text[t.end] \in Symbols \cup {"space"},
         t.role = "literal" /\ t.end <= Len(text) => text[t.end] \notin Digits \cup {"."}
  PROVE  next_token = TokenOf(t, TextOf(text, t))
<1> PICK b : b = t.begin
  OBVIOUS
<1> PICK e : e = t.end
  OBVIOUS
<1> PICK str : str = TextOf(text, t)
  OBVIOUS
<1>0. pos \in Nat \ {0} /\ b \in 1 .. Len(text) /\ b \in pos .. Len(text) /\ Len(text) \in Nat
  BY LengthOfStr
<1>1. /\ b \in Nat \ {0} /\ e \in Nat /\ e # 0 /\ b < e /\ e <= Len(text) + 1
      /\ str \in Strs /\ Len(str) = e - b /\ str[1] = text[b]
  BY <1>0, UnitsOf
<1>2. str = SubSeq(text, b, e - 1)
  BY DEF TextOf
<1>3. Spells(s, t, str)
  OBVIOUS
<1>4. str[1] # "space"
  BY <1>1, <1>3, SpellingBegins
<1>5. First(pos, Visibles) = b
  <2>1. text[b] \in Visibles
    BY <1>0, <1>1, <1>4, LengthOfStr DEF Visibles
  <2>2. \A r \in pos .. b - 1 : text[r] \notin Visibles
    BY DEF White, Visibles
  <2> QED  BY <1>0, <2>1, <2>2, FirstAt
<1>6. \A u : str = <<u>> => e = b + 1 /\ text[b] = u
  <2> SUFFICES ASSUME NEW u, str = <<u>> PROVE e = b + 1 /\ text[b] = u
    OBVIOUS
  <2>1. Len(str) = 1 /\ str[1] = u
    OBVIOUS
  <2> QED  BY <1>1, <2>1
<1>7. CASE t.role = "local" /\ str = Keywords.kLOCAL
  <2>1. Len(str) = 5
    BY <1>7 DEF Keywords
  <2>2. e = b + 5 /\ e - 1 = b + 4 /\ b + 4 <= Len(text) /\ SubSeq(text, b, b + 4) = Keywords.kLOCAL
    <3>1. Len(str) = e - b /\ b \in Nat /\ e \in Nat /\ e <= Len(text) + 1
      BY <1>1
    <3>2. \A x, y, z \in Nat : x - y = 5 /\ x <= z + 1 => x = y + 5 /\ x - 1 = y + 4 /\ y + 4 <= z
      OBVIOUS
    <3>3. Len(text) \in Nat /\ e - b = 5
      BY <1>0, <1>7, <2>1, <3>1
    <3>4. e = b + 5 /\ e - 1 = b + 4 /\ b + 4 <= Len(text)
      BY <3>1, <3>2, <3>3, Zenon
    <3> QED  BY <1>2, <1>7, <3>4
  <2>3. WordEnd(b) = e /\ WordType(str) = "kLOCAL" /\ text[b] = "l"
    BY <1>1, <1>7, <2>2, LocalIs
  <2>4. text[b] \notin {",", "=", "quote"} \cup DOMAIN Opers \cup Digits
    BY <2>3, OperUnits DEF Digits
  <2>5. next_token = Token(WordType(SubSeq(text, b, e - 1)), SubSeq(text, b, e - 1), e)
    BY <1>0, <1>1, <1>5, <2>3, <2>4, TokenAt
  <2> QED  BY <1>2, <1>7, <2>3, <2>5 DEF TokenOf, TypeOf
<1>8. CASE t.role = "equals" /\ str = <<"=">>
  <2>1. next_token = Token("kEQUALS", SubSeq(text, b, (b + 1) - 1), b + 1) /\ e = b + 1
    BY <1>0, <1>1, <1>5, <1>6, <1>8, TokenAt
  <2> QED  BY <1>2, <1>8, <2>1 DEF TokenOf, TypeOf
<1>9. CASE t.role \in {"further", "comma"} /\ str = <<",">>
  <2>1. next_token = Token("kCOMMA", SubSeq(text, b, (b + 1) - 1), b + 1) /\ e = b + 1
    BY <1>0, <1>1, <1>5, <1>6, <1>9, TokenAt
  <2> QED  BY <1>2, <1>9, <2>1 DEF TokenOf, TypeOf
<1>10. CASE t.role = "operator" /\ \E u \in DOMAIN Opers : str = <<u>>
  <2>0. PICK u \in DOMAIN Opers : str = <<u>>
    BY <1>10
  <2>1. next_token = Token(text[b], SubSeq(text, b, (b + 1) - 1), b + 1) /\ e = b + 1 /\ text[b] = str[1]
    BY <1>0, <1>1, <1>5, <1>6, <2>0, TokenAt
  <2> QED  BY <1>2, <1>10, <2>1 DEF TokenOf, TypeOf
<1>11. CASE t.role = "name" /\ IsName(str)
  <2>1. WordEnd(b) = e /\ WordType(str) = "kIDENTIFIER"
    <3>1. t.end \in t.begin + 1 .. Len(text)
      BY <1>0, <1>1, <1>11
    <3> QED  BY <1>0, <1>11, <3>1, NameIs
  <2>2. text[b] \notin {",", "=", "quote"} \cup DOMAIN Opers \cup Digits
    <3>1. 1 \in 1 .. Len(str)
      BY <1>1
    <3>2. str[1] \in ToSet(str)
      BY <1>1, <3>1, LengthOfStr DEF ToSet
    <3>3. str[1] \notin Symbols /\ str[1] \notin Digits \cup {"quote"}
      BY <1>11, <3>2 DEF IsName
    <3> QED  BY <1>1, <3>3, OperUnits DEF Symbols
  <2>3. next_token = Token(WordType(SubSeq(text, b, e - 1)), SubSeq(text, b, e - 1), e)
    BY <1>0, <1>1, <1>5, <2>1, <2>2, TokenAt
  <2> QED  BY <1>2, <1>11, <2>1, <2>3 DEF TokenOf, TypeOf
<1>12. CASE t.role = "literal" /\ IsNumber(str)
  <2>1. NumberEnd(b) = e
    BY <1>0, <1>12, NumberIs
  <2>2. text[b] \in Digits
    BY <1>1, <1>12 DEF IsNumber
  <2>3. next_token = Token("kLIT_NUMBER", SubSeq(text, b, e - 1), e)
    BY <1>0, <1>1, <1>5, <2>1, <2>2, TokenAt
  <2>4. ~ Quoted(str)
    BY <1>1, <2>2 DEF Quoted, Digits
  <2> QED  BY <1>2, <1>12, <2>3, <2>4 DEF TokenOf, TypeOf
<1>13. CASE t.role = "literal" /\ IsQuoted(str)
  <2>1. StringEnd(b) = e
    BY <1>0, <1>13, StringIs
  <2>2. text[b] = "quote" /\ Quoted(str)
    BY <1>1, <1>13 DEF IsQuoted, Quoted
  <2>3. next_token = Token("kLIT_STRING", SubSeq(SubSeq(text, b, e - 1), 2, Len(SubSeq(text, b, e - 1)) - 1), e)
    BY <1>0, <1>1, <1>5, <2>1, <2>2, TokenAt
  <2> QED  BY <1>2, <1>13, <2>2, <2>3 DEF TokenOf, TypeOf
<1> QED  BY <1>3, <1>7, <1>8, <1>9, <1>10, <1>11, <1>12, <1>13 DEF Spells, IsLiteral

\* Nothing but white space is left.
LEMMA NothingRead ==
  ASSUME text \in Strs, pos \in 1 .. Len(text) + 1, White(text, pos, Len(text))
  PROVE  next_token = EndToken
<1>1. pos \in Nat \ {0} /\ \A r \in pos .. Len(text) : text[r] \notin Visibles
  BY LengthOfStr DEF White, Visibles
<1>2. First(pos, Visibles) = 0
  BY <1>1, FirstNone
<1>3. TokenFrom[0] = Token("kEOF", <<>>, Len(text) + 1)
  <2>1. 0 \in 0 .. Len(text)
    BY LengthOfStr
  <2> QED  BY <2>1, TokenFromIs
<1> QED  BY <1>2, <1>3 DEF next_token, EndToken

\* The parts of a script, a mark and its token.
LEMMA ScriptIs ==
  ASSUME NEW s, IsScript(s)
  PROVE  /\ Len(s) \in Nat \ {0} /\ DOMAIN s = 1 .. Len(s)
         /\ \A j \in 1 .. Len(s) : Len(s[j].lits) \in Nat \ {0} /\ DOMAIN s[j].lits = 1 .. Len(s[j].lits)
  BY DEF IsScript, IsSequence

LEMMA MarkIs ==
  ASSUME NEW s, IsScript(s), NEW t, IsMark(s, t)
  PROVE  /\ t.first \in 1 .. Len(s) /\ t.last \in 1 .. Len(s) /\ t.stmt \in t.first .. t.last
         /\ t.stmt \in 1 .. Len(s)
         /\ t.role \in {"literal", "operator"} => t.item \in 1 .. Len(s[t.stmt].lits)
         /\ t.role = "operator" => t.item < Len(s[t.stmt].lits)
         /\ t.role = "local" => t.stmt = t.first
<1>1. Len(s) \in Nat \ {0} /\ DOMAIN s = 1 .. Len(s)
  BY ScriptIs
<1>2. t.first \in 1 .. Len(s) /\ t.last \in 1 .. Len(s) /\ t.stmt \in t.first .. t.last
  BY <1>1 DEF IsMark
<1>3. t.stmt \in 1 .. Len(s)
  BY <1>1, <1>2
<1>4. DOMAIN s[t.stmt].lits = 1 .. Len(s[t.stmt].lits)
  BY <1>3, ScriptIs
<1> QED  BY <1>2, <1>3, <1>4 DEF IsMark

LEMMA TokenIs ==
  ASSUME NEW s, NEW t, NEW str, Spells(s, t, str)
  PROVE  /\ TokenOf(t, str).end = t.end /\ TokenOf(t, str).type # "endless"
         /\ t.role = "local" => TokenOf(t, str).type = "kLOCAL"
         /\ t.role = "name" => TokenOf(t, str).type = "kIDENTIFIER" /\ TokenOf(t, str).text = s[t.stmt].local
         /\ t.role = "equals" => TokenOf(t, str).type = "kEQUALS"
         /\ t.role \in {"further", "comma"} => TokenOf(t, str).type = "kCOMMA"
         /\ t.role = "operator" => TokenOf(t, str).type \in DOMAIN Opers
                                   /\ Opers[TokenOf(t, str).type] = s[t.stmt].opers[t.item]
         /\ t.role = "literal" => TokenOf(t, str).type \in {"kLIT_STRING", "kLIT_NUMBER"}
                                  /\ literal_of(TokenOf(t, str)) = Literal(s[t.stmt].lits[t.item])
<1> PICK token : token = TokenOf(t, str)
  OBVIOUS
<1>1. /\ token.end = t.end /\ token.type = TypeOf(t, str)
      /\ token.text = IF t.role = "literal" /\ Quoted(str) THEN SubSeq(str, 2, Len(str) - 1) ELSE str
  BY DEF TokenOf, Token
<1>2. CASE t.role = "local" /\ str = Keywords.kLOCAL
  BY <1>1, <1>2 DEF TypeOf
<1>3. CASE t.role = "name" /\ str = s[t.stmt].local
  BY <1>1, <1>3 DEF TypeOf
<1>4. CASE t.role = "equals" /\ str = <<"=">>
  BY <1>1, <1>4 DEF TypeOf
<1>5. CASE t.role \in {"further", "comma"} /\ str = <<",">>
  BY <1>1, <1>5 DEF TypeOf
<1>6. CASE t.role = "operator" /\ \E u \in DOMAIN Opers : str = <<u>> /\ Opers[u] = s[t.stmt].opers[t.item]
  <2>1. PICK u \in DOMAIN Opers : str = <<u>> /\ Opers[u] = s[t.stmt].opers[t.item]
    BY <1>6
  <2>2. token.type = u
    BY <1>1, <1>6, <2>1 DEF TypeOf
  <2>3. token.type # "endless"
    BY <2>1, <2>2, OperUnits
  <2> QED  BY <1>1, <1>6, <2>1, <2>2, <2>3
<1>7. CASE t.role = "literal" /\ IsNumber(str) /\ s[t.stmt].lits[t.item] = [number |-> atof(str)]
  <2>1. ~ Quoted(str)
    BY <1>7 DEF Quoted, IsNumber, Digits
  <2>2. token.type = "kLIT_NUMBER" /\ token.text = str
    BY <1>1, <1>7, <2>1 DEF TypeOf
  <2>3. literal_of(token) = Literal([number |-> atof(str)])
    BY <2>2 DEF literal_of
  <2> QED  BY <1>1, <1>7, <2>2, <2>3
<1>8. CASE t.role = "literal" /\ IsQuoted(str) /\ s[t.stmt].lits[t.item] = [string |-> SubSeq(str, 2, Len(str) - 1)]
  <2>1. Quoted(str)
    BY <1>8 DEF Quoted, IsQuoted
  <2>2. token.type = "kLIT_STRING" /\ token.text = SubSeq(str, 2, Len(str) - 1)
    BY <1>1, <1>8, <2>1 DEF TypeOf
  <2>3. literal_of(token) = Literal([string |-> SubSeq(str, 2, Len(str) - 1)])
    BY <2>2 DEF literal_of
  <2> QED  BY <1>1, <1>8, <2>2, <2>3
<1> QED  BY <1>2, <1>3, <1>4, <1>5, <1>6, <1>7, <1>8 DEF Spells, IsLiteral

\* Where the marks are.
LEMMA MarksAre ==
  ASSUME text \in Strs, NEW s, NEW w, IsWritten(text, s, w)
  PROVE  /\ IsScript(s) /\ Len(w) \in Nat \ {0} /\ Len(text) \in Nat
         /\ \A i \in 1 .. Len(w) :
              /\ IsMark(s, w[i]) /\ Spells(s, w[i], TextOf(text, w[i]))
              /\ w[i].begin \in 1 .. Len(text) /\ w[i].end \in w[i].begin + 1 .. Len(text) + 1
         /\ White(text, 1, w[1].begin - 1) /\ w[1].role = "local" /\ w[1].first = 1
         /\ \A i \in 1 .. Len(w) : i < Len(w) => /\ w[i].end <= w[i + 1].begin
                                                 /\ White(text, w[i].end, w[i + 1].begin - 1)
                                                 /\ Follows(s, w[i], w[i + 1])
         /\ White(text, w[Len(w)].end, Len(text)) /\ Closes(s, w[Len(w)]) /\ w[Len(w)].last = Len(s)
<1>1. IsScript(s) /\ Len(w) \in Nat \ {0} /\ DOMAIN w = 1 .. Len(w)
  BY DEF IsWritten, IsSequence
<1>2. Len(text) \in Nat /\ DOMAIN text = 1 .. Len(text)
  BY LengthOfStr
<1>3. \A i \in 1 .. Len(w) :
              /\ IsMark(s, w[i]) /\ Spells(s, w[i], TextOf(text, w[i]))
              /\ w[i].begin \in 1 .. Len(text) /\ w[i].end \in w[i].begin + 1 .. Len(text) + 1
  BY <1>1, <1>2 DEF IsWritten
<1>4. White(text, 1, w[1].begin - 1) /\ w[1].role = "local" /\ w[1].first = 1
  BY DEF IsWritten
<1>5. ASSUME NEW i \in 1 .. Len(w), i < Len(w)
      PROVE  /\ w[i].end <= w[i + 1].begin
             /\ White(text, w[i].end, w[i + 1].begin - 1)
             /\ Follows(s, w[i], w[i + 1])
  <2>1. i + 1 \in 2 .. Len(w) /\ (i + 1) - 1 = i
    BY <1>1, <1>5
  <2> QED  BY <2>1 DEF IsWritten
<1>6. White(text, w[Len(w)].end, Len(text)) /\ Closes(s, w[Len(w)]) /\ w[Len(w)].last = Len(s)
  BY DEF IsWritten, Last
<1> QED  BY <1>1, <1>2, <1>3, <1>4, <1>5, <1>6

\* What stands behind a token ends it.
LEMMA TokenEnds ==
  ASSUME text \in Strs, NEW s, NEW w, IsWritten(text, s, w), NEW i \in 1 .. Len(w)
  PROVE  /\ w[i].role = "name" => w[i].end <= Len(text) /\ text[w[i].end] \in Symbols \cup {"space"}
         /\ w[i].role = "literal" /\ w[i].end <= Len(text) => text[w[i].end] \notin Digits \cup {"."}
<1> PICK t : t = w[i]
  OBVIOUS
<1> PICK e : e = t.end
  OBVIOUS
<1>1. Len(w) \in Nat \ {0} /\ Len(text) \in Nat /\ e \in Nat /\ t.begin \in Nat
  BY MarksAre
<1>2. "space" \notin Digits \cup {"."}
  BY DEF Digits
<1>3. CASE i < Len(w)
  <2> PICK u : u = w[i + 1]
    OBVIOUS
  <2> PICK str : str = TextOf(text, u)
    OBVIOUS
  <2>1. /\ i + 1 \in 1 .. Len(w) /\ u.begin \in 1 .. Len(text) /\ u.end \in u.begin + 1 .. Len(text) + 1
        /\ e <= u.begin /\ White(text, e, u.begin - 1) /\ Follows(s, t, u) /\ Spells(s, u, str)
    <3>1. i + 1 \in 1 .. Len(w)
      BY <1>1, <1>3
    <3> QED  BY <1>3, <3>1, MarksAre
  <2>2. str \in Strs /\ str[1] = text[u.begin]
    BY <2>1, UnitsOf
  <2>3. e <= Len(text) /\ (text[e] = "space" \/ text[e] = str[1])
    <3>1. CASE e < u.begin
      <4>1. e \in e .. u.begin - 1
        BY <1>1, <2>1, <3>1
      <4> QED  BY <1>1, <2>1, <4>1 DEF White
    <3>2. CASE ~ (e < u.begin)
      BY <1>1, <2>1, <2>2, <3>2
    <3> QED  BY <3>1, <3>2
  <2>4. t.role = "name" => u.role \in {"further", "equals"}
    BY <2>1 DEF Follows, Continues, Closes, Ends
  <2>5. t.role = "literal" => u.role \in {"operator", "comma", "local"}
    BY <2>1 DEF Follows, Continues, Closes, Ends
  <2>6. /\ t.role = "name" => str[1] \in Symbols
        /\ t.role = "literal" => str[1] \notin Digits \cup {"."}
    BY <2>1, <2>2, <2>4, <2>5, SpellingBegins
  <2> QED  BY <1>2, <2>3, <2>6
<1>4. CASE ~ (i < Len(w))
  <2>1. i = Len(w)
    BY <1>1, <1>4
  <2>2. White(text, e, Len(text)) /\ t.role = "literal"
    BY <2>1, MarksAre DEF Closes, Ends
  <2>3. e <= Len(text) => text[e] = "space"
    BY <1>1, <2>2 DEF White
  <2> QED  BY <1>2, <2>2, <2>3
<1> QED  BY <1>3, <1>4

\* The token met next is the next one written, or the end of the file.
LEMMA NextIs ==
  ASSUME Lexed(text, pos, peek, taken), NEW s, NEW w, IsWritten(text, s, w), Lookahead(w)
  PROVE  /\ next = Upcoming(w) /\ next.type # "endless"
         /\ Len(taken) < Len(w) => next.end = w[Len(taken) + 1].end
<1> PICK n : n = Len(taken)
  OBVIOUS
<1>0. text \in Strs /\ pos \in 1 .. Len(text) + 1
  BY DEF Lexed
<1>1. n \in 0 .. Len(w) /\ Len(w) \in Nat \ {0} /\ Len(text) \in Nat
  BY <1>0, MarksAre DEF Lookahead
<1>2. Upcoming(w) = IF n < Len(w) THEN TokenOf(w[n + 1], TextOf(text, w[n + 1])) ELSE EndToken
  BY DEF Upcoming
<1>3. n < Len(w) => n + 1 \in 1 .. Len(w)
  BY <1>1
<1>4. next = Upcoming(w)
  <2>1. CASE peek # {}
    <3>1. peek = {Upcoming(w)}
      BY <2>1 DEF Lookahead
    <3> QED  BY <2>1, <3>1 DEF next
  <2>2. CASE peek = {}
    <3>1. next = next_token /\ pos = IF n = 0 THEN 1 ELSE w[n].end
      BY <2>2 DEF next, Lookahead, Behind
    <3>2. CASE n < Len(w)
      <4> PICK t : t = w[n + 1]
        OBVIOUS
      <4>1. /\ Spells(s, t, TextOf(text, t))
            /\ t.begin \in 1 .. Len(text) /\ t.end \in t.begin + 1 .. Len(text) + 1
        BY <1>0, <1>3, <3>2, MarksAre
      <4>2. t.begin \in pos .. Len(text) /\ White(text, pos, t.begin - 1)
        <5>1. CASE n = 0
          <6>1. pos = 1 /\ t = w[1]
            BY <3>1, <5>1
          <6>2. White(text, 1, t.begin - 1)
            BY <1>0, <6>1, MarksAre
          <6> QED  BY <4>1, <6>1, <6>2
        <5>2. CASE n # 0
          <6>1. n \in 1 .. Len(w) /\ pos = w[n].end
            BY <1>1, <3>1, <5>2
          <6>2. w[n].end <= t.begin /\ White(text, w[n].end, t.begin - 1)
            BY <1>0, <3>2, <6>1, MarksAre
          <6>3. pos \in Nat
            BY <1>0, <1>1
          <6> QED  BY <1>1, <4>1, <6>1, <6>2, <6>3
        <5> QED  BY <5>1, <5>2
      <4>3. /\ t.role = "name" => t.end <= Len(text) /\ text[t.end] \in Symbols \cup {"space"}
            /\ t.role = "literal" /\ t.end <= Len(text) => text[t.end] \notin Digits \cup {"."}
        BY <1>0, <1>3, <3>2, TokenEnds
      <4>4. next_token = TokenOf(t, TextOf(text, t))
        BY <1>0, <4>1, <4>2, <4>3, WrittenRead
      <4> QED  BY <1>2, <3>1, <3>2, <4>4
    <3>3. CASE ~ (n < Len(w))
      <4>1. n = Len(w) /\ n # 0
        BY <1>1, <3>3
      <4>2. White(text, pos, Len(text))
        BY <1>0, <3>1, <4>1, MarksAre
      <4> QED  BY <1>0, <1>2, <3>1, <3>3, <4>2, NothingRead
    <3> QED  BY <3>2, <3>3
  <2> QED  BY <2>1, <2>2
<1>5. CASE n < Len(w)
  <2>1. Spells(s, w[n + 1], TextOf(text, w[n + 1]))
    BY <1>0, <1>3, <1>5, MarksAre
  <2> QED  BY <1>2, <1>4, <1>5, <2>1, TokenIs
<1>6. CASE ~ (n < Len(w))
  <2>1. EndToken.type # "endless"
    BY DEF EndToken, Token
  <2> QED  BY <1>2, <1>4, <1>6, <2>1
<1> QED  BY <1>5, <1>6

\* Which tokens come behind which.
LEMMA FollowerIs ==
  ASSUME NEW s, IsScript(s), NEW t, NEW u, IsMark(s, t), IsMark(s, u), Follows(s, t, u)
  PROVE  /\ u.role # "local" => u.first = t.first /\ u.last = t.last
         /\ t.role = "local" => u.role = "name" /\ u.stmt = t.stmt
         /\ t.role = "name" => \/ u.role = "further" /\ u.stmt = t.stmt + 1
                               \/ u.role = "equals" /\ t.stmt = t.last /\ u.stmt = t.first
         /\ t.role = "further" => u.role = "name" /\ u.stmt = t.stmt
         /\ t.role \in {"equals", "comma"} => u.role = "literal" /\ u.stmt = t.stmt /\ u.item = 1
         /\ t.role = "operator" => u.role = "literal" /\ u.stmt = t.stmt /\ u.item = t.item + 1
         /\ t.role = "literal" /\ ~Ends(s, t) => u.role = "operator" /\ u.stmt = t.stmt /\ u.item = t.item
         /\ Ends(s, t) /\ t.stmt # t.last => u.role = "comma" /\ u.stmt = t.stmt + 1
         /\ Closes(s, t) => u.role = "local" /\ u.first = t.last + 1 /\ u.stmt = u.first
<1>1. /\ t.stmt \in Nat /\ t.last \in Nat /\ u.stmt \in u.first .. u.last /\ u.first \in Nat /\ u.last \in Nat
      /\ t.stmt \in t.first .. t.last
      /\ u.role = "operator" => u.item \in Nat /\ Len(s[u.stmt].lits) \in Nat /\ u.item < Len(s[u.stmt].lits)
      /\ u.role = "local" => u.stmt = u.first
  <2>1. /\ u.stmt \in 1 .. Len(s) /\ Len(s) \in Nat
        /\ u.role = "operator" => u.item \in 1 .. Len(s[u.stmt].lits) /\ u.item < Len(s[u.stmt].lits)
    BY ScriptIs, MarkIs
  <2>2. Len(s[u.stmt].lits) \in Nat
    BY <2>1, ScriptIs
  <2>3. /\ t.stmt \in t.first .. t.last /\ t.first \in 1 .. Len(s) /\ t.last \in 1 .. Len(s)
        /\ u.stmt \in u.first .. u.last /\ u.first \in 1 .. Len(s) /\ u.last \in 1 .. Len(s)
        /\ u.role = "local" => u.stmt = u.first
    BY MarkIs
  <2> QED  BY <2>1, <2>2, <2>3
<1>2. Ends(s, t) => u.role # "operator"
  <2> SUFFICES ASSUME Ends(s, t), u.role = "operator" PROVE FALSE
    OBVIOUS
  <2>1. u.stmt = t.stmt /\ u.item = t.item /\ t.item = Len(s[t.stmt].lits)
    BY DEF Follows, Continues, Ends
  <2> QED  BY <1>1, <2>1
<1>3. u.role = "comma" => ~Closes(s, t)
  <2> SUFFICES ASSUME u.role = "comma", Closes(s, t) PROVE FALSE
    OBVIOUS
  <2>1. u.last = t.last /\ u.stmt = t.stmt + 1 /\ t.stmt = t.last
    BY DEF Follows, Continues, Closes, Ends
  <2> QED  BY <1>1, <2>1
<1>4. CASE Continues(s, t, u)
  <2>1. u.first = t.first /\ u.last = t.last /\ u.role # "local"
    BY <1>4 DEF Continues
  <2>2. Closes(s, t) => FALSE
    BY <1>2, <1>3, <1>4 DEF Continues, Closes, Ends
  <2> QED  BY <1>2, <1>4, <2>1, <2>2 DEF Continues, Ends
<1>5. CASE Closes(s, t) /\ u.role = "local" /\ u.first = t.last + 1
  BY <1>1, <1>5 DEF Closes, Ends
<1> QED  BY <1>4, <1>5 DEF Follows

\* A token that does not close the last declaration has one behind it.
LEMMA MoreComes ==
  ASSUME text \in Strs, NEW s, NEW w, IsWritten(text, s, w), NEW n \in 0 .. Len(w),
         n = 0 \/ ~Closes(s, w[n]) \/ w[n].last # Len(s)
  PROVE  /\ n < Len(w) /\ n + 1 \in 1 .. Len(w) /\ IsMark(s, w[n + 1])
         /\ n # 0 => n \in 1 .. Len(w) /\ IsMark(s, w[n]) /\ Follows(s, w[n], w[n + 1])
<1>1. Len(w) \in Nat \ {0} /\ n # Len(w)
  BY MarksAre
<1>2. n < Len(w) /\ n + 1 \in 1 .. Len(w) /\ (n # 0 => n \in 1 .. Len(w))
  BY <1>1
<1> QED  BY <1>2, MarksAre

\* CONSUME goes to the next token.
LEMMA Advance ==
  ASSUME Lexed(text, pos, peek, taken), NEW s, NEW w, IsWritten(text, s, w), Lookahead(w),
         Consume, file' = file, Len(taken) < Len(w)
  PROVE  /\ Lookahead(w)' /\ Len(taken') = Len(taken) + 1 /\ peek' = {}
         /\ next = TokenOf(w[Len(taken) + 1], TextOf(text, w[Len(taken) + 1]))
<1> PICK n : n = Len(taken)
  OBVIOUS
<1>1. text \in Strs /\ taken \in Seq(Tokens)
  BY DEF Lexed
<1>2. n \in Nat /\ n \in 0 .. Len(w) /\ Len(w) \in Nat
  BY <1>1, MarksAre DEF Lookahead
<1>3. next = TokenOf(w[n + 1], TextOf(text, w[n + 1])) /\ next.end = w[n + 1].end
  BY NextIs DEF Upcoming
<1>4. pos' = next.end /\ peek' = {} /\ taken' = Append(taken, next)
  BY DEF Consume
<1>5. Len(taken') = n + 1
  <2>1. next \in Tokens
    BY NextIs, NextMet DEF ReadTo
  <2> QED  BY <1>1, <1>4, <2>1
<1>6. Lookahead(w)'
  BY <1>2, <1>3, <1>4, <1>5 DEF Lookahead, Behind
<1> QED  BY <1>3, <1>4, <1>5, <1>6

\* DECONSUME stays behind the one used last.
LEMMA HeldBack ==
  ASSUME Lexed(text, pos, peek, taken), NEW s, NEW w, IsWritten(text, s, w), Lookahead(w),
         Deconsume, file' = file, Len(taken) # 0
  PROVE  Lookahead(w)' /\ taken' = taken /\ peek' # {}
<1>1. next = Upcoming(w)
  BY NextIs
<1>2. peek' = {next} /\ taken' = taken /\ text' = text
  BY DEF Deconsume, text
<1>3. Upcoming(w)' = Upcoming(w)
  BY <1>2 DEF Upcoming, EndToken
<1> QED  BY <1>1, <1>2, <1>3 DEF Lookahead

LEMMA Unmoved ==
  ASSUME NEW w, Lookahead(w), UNCHANGED <<file, pos, peek, taken>>
  PROVE  Lookahead(w)'
  BY DEF Lookahead, Behind, Upcoming, EndToken, text

\* The equation of Rest.
LEMMA RestIs ==
  ASSUME NEW stmt, Len(stmt.lits) \in Nat \ {0}
  PROVE  /\ parse_binary_expr(stmt) = Rest(stmt, 1)
         /\ Rest(stmt, Len(stmt.lits)) = Literal(stmt.lits[Len(stmt.lits)])
         /\ \A i \in 1 .. Len(stmt.lits) : i < Len(stmt.lits) =>
              Rest(stmt, i) = BinaryOp(stmt.opers[i], Literal(stmt.lits[i]), Rest(stmt, i + 1))
<1> DEFINE n == Len(stmt.lits)
           Body(g, j) == IF j = n THEN Literal(stmt.lits[j]) ELSE BinaryOp(stmt.opers[j], Literal(stmt.lits[j]), g[j + 1])
           From(g, m) == \A j \in 1 .. n : n - m <= j => g[j] = Body(g, j)
           Good == {m \in 0 .. n : \E g : From(g, m)}
           expr == CHOOSE f : f = [j \in 1 .. n |-> IF j = n THEN Literal(stmt.lits[j])
                                                    ELSE BinaryOp(stmt.opers[j], Literal(stmt.lits[j]), f[j + 1])]
<1>1. ASSUME NEW m \in 0 .. n, \A j \in 0 .. m - 1 : j \in Good
      PROVE  m \in Good
  <2>1. CASE m = 0
    <3> DEFINE g == [j \in 1 .. n |-> Literal(stmt.lits[n])]
    <3>1. From(g, 0)
      OBVIOUS
    <3> HIDE DEF g
    <3> QED  BY <2>1, <3>1
  <2>2. CASE m # 0
    <3>1. PICK g : From(g, m - 1)
      <4>1. m - 1 \in 0 .. m - 1
        BY <2>2
      <4> QED  BY <1>1, <4>1
    <3> DEFINE h == [j \in 1 .. n |-> IF j = n - m THEN Body(g, n - m) ELSE g[j]]
    <3>2. ASSUME NEW j \in 1 .. n, n - m <= j PROVE h[j] = Body(h, j)
      <4>1. CASE j = n - m
        <5>1. j # n /\ j + 1 \in 1 .. n /\ j + 1 # n - m
          BY <2>2, <4>1
        <5>2. h[j] = Body(g, j) /\ h[j + 1] = g[j + 1]
          BY <4>1, <5>1
        <5> QED  BY <5>1, <5>2
      <4>2. CASE j # n - m
        <5>1. n - (m - 1) <= j /\ (j # n => j + 1 \in 1 .. n /\ j + 1 # n - m)
          BY <3>2, <4>2
        <5>2. h[j] = g[j] /\ (j # n => h[j + 1] = g[j + 1])
          BY <4>2, <5>1
        <5> QED  BY <3>1, <5>1, <5>2
      <4> QED  BY <4>1, <4>2
    <3> HIDE DEF h
    <3>3. From(h, m)
      BY <3>2
    <3> QED  BY <3>3
  <2> QED  BY <2>1, <2>2
<1>2. n \in Good
  <2> HIDE DEF Good
  <2>1. n \in Nat /\ \A m \in 0 .. n : m \in Good
    BY <1>1, Induction
  <2> QED  BY <2>1
<1>3. PICK g : From(g, n)
  BY <1>2
<1> DEFINE f == [j \in 1 .. n |-> g[j]]
<1>4. f = [j \in 1 .. n |-> Body(f, j)]
  <2>1. ASSUME NEW j \in 1 .. n PROVE f[j] = Body(f, j)
    <3>1. n - n <= j /\ (j # n => j + 1 \in 1 .. n)
      OBVIOUS
    <3>2. f[j] = g[j] /\ (j # n => f[j + 1] = g[j + 1])
      BY <3>1
    <3> QED  BY <1>3, <3>1, <3>2
  <2> QED  BY <2>1
<1>5. expr = [j \in 1 .. n |-> Body(expr, j)]
  BY <1>4
<1>6. parse_binary_expr(stmt) = expr[1] /\ \A i : Rest(stmt, i) = expr[i]
  BY DEF parse_binary_expr, Rest
<1> HIDE DEF expr
<1>7. \A j \in 1 .. n : expr[j] = Body(expr, j)
  BY <1>5
<1>8. n \in 1 .. n /\ 1 \in 1 .. n /\ n \in Nat
  OBVIOUS
<1> QED  BY <1>6, <1>7, <1>8

-----------------------------------------------------------------------------
\* The premises of every step.
LEMMA Reading ==
  ASSUME FrontendInv, NEW s, NEW w, IsWritten(text, s, w), ReadInv(s, w)
  PROVE  /\ Lexed(text, pos, peek, taken) /\ Lookahead(w) /\ Progress(s, w) /\ ParserInv /\ text \in Strs
         /\ IsScript(s) /\ Len(w) \in Nat \ {0} /\ Len(taken) \in 0 .. Len(w)
         /\ Len(taken) # 0 => IsMark(s, w[Len(taken)]) /\ Len(taken) \in 1 .. Len(w)
<1>1. Lexed(text, pos, peek, taken) /\ Lookahead(w) /\ Progress(s, w) /\ ParserInv
  BY DEF FrontendInv, ReadInv
<1>2. text \in Strs
  BY <1>1 DEF Lexed
<1>3. Len(w) \in Nat \ {0} /\ Len(taken) \in 0 .. Len(w)
  BY <1>1, <1>2, MarksAre DEF Lookahead
<1>4. Len(taken) # 0 => Len(taken) \in 1 .. Len(w)
  BY <1>3
<1> QED  BY <1>1, <1>2, <1>3, <1>4, MarksAre

\* Between two statements, the file is read to its end when every token was used.
LEMMA EndIs ==
  ASSUME FrontendInv, NEW s, NEW w, IsWritten(text, s, w), ReadInv(s, w), pc = "parse"
  PROVE  AtEnd <=> Len(taken) = Len(w)
<1> PICK n : n = Len(taken)
  OBVIOUS
<1>0. /\ Lexed(text, pos, peek, taken) /\ Lookahead(w) /\ Progress(s, w) /\ text \in Strs
      /\ Len(w) \in Nat \ {0} /\ n \in 0 .. Len(w) /\ IsScript(s) /\ Len(text) \in Nat
  BY Reading, LengthOfStr
<1>1. Between(s, w)
  BY <1>0 DEF Progress
<1>2. pos \in 1 .. Len(text) + 1 /\ \A t : peek = {t} => t.end = pos
  <2>1. ASSUME NEW t, peek = {t} PROVE t.end = pos
    <3>1. PICK held : peek = {held} /\ ReadTo(text, pos, held)
      BY <1>0, <2>1 DEF Lexed
    <3>2. held = t
      BY <2>1, <3>1
    <3> QED  BY <3>1, <3>2 DEF ReadTo
  <2> QED  BY <1>0, <2>1 DEF Lexed
<1>3. CASE n = Len(w)
  <2>1. peek # {}
    BY <1>0, <1>1, <1>3 DEF Between
  <2>2. peek = {EndToken}
    BY <1>0, <1>3, <2>1 DEF Lookahead, Upcoming
  <2>3. EndToken.end = Len(text) + 1
    BY DEF EndToken, Token
  <2>4. pos = Len(text) + 1
    BY <1>2, <2>2, <2>3
  <2> QED  BY <1>0, <1>3, <2>4 DEF AtEnd
<1>4. CASE n = 0
  <2>1. peek = {} /\ pos = 1
    BY <1>0, <1>4 DEF Lookahead, Behind
  <2>2. 1 \in 1 .. Len(w)
    BY <1>0
  <2>3. w[1].begin \in 1 .. Len(text)
    BY <1>0, <2>2, MarksAre
  <2>4. ~ (pos > Len(text)) /\ n # Len(w)
    BY <1>0, <1>4, <2>1, <2>3
  <2> QED  BY <2>4 DEF AtEnd
<1>5. CASE n # 0 /\ n # Len(w)
  <2> PICK t : t = w[n]
    OBVIOUS
  <2> PICK u : u = w[n + 1]
    OBVIOUS
  <2>1. n \in 1 .. Len(w) /\ n < Len(w) /\ n + 1 \in 1 .. Len(w) /\ n + 1 \in 0 .. Len(w) /\ n + 1 # 0
    BY <1>0, <1>5
  <2>2. peek # {} /\ Closes(s, t)
    BY <1>1, <1>5 DEF Between
  <2>3. IsMark(s, t) /\ IsMark(s, u) /\ Follows(s, t, u) /\ Spells(s, u, TextOf(text, u))
    BY <1>0, <2>1, MarksAre
  <2>4. u.role = "local"
    BY <1>0, <2>2, <2>3, FollowerIs
  <2>5. n + 1 < Len(w) /\ (n + 1) + 1 \in 1 .. Len(w)
    <3>1. ~Closes(s, u)
      BY <2>4 DEF Closes, Ends
    <3> QED  BY <1>0, <2>1, <3>1, MoreComes
  <2>6. u.end <= w[(n + 1) + 1].begin /\ w[(n + 1) + 1].begin \in 1 .. Len(text) /\ u.end \in Nat
    <3>1. u.end \in u.begin + 1 .. Len(text) + 1 /\ u.begin \in 1 .. Len(text)
      BY <1>0, <2>1, MarksAre
    <3> QED  BY <1>0, <2>1, <2>5, <3>1, MarksAre
  <2>7. peek = {TokenOf(u, TextOf(text, u))}
    BY <1>0, <2>1, <2>2 DEF Lookahead, Upcoming
  <2>8. pos = u.end
    BY <1>2, <2>3, <2>7, TokenIs
  <2>9. ~ (pos > Len(text))
    BY <1>0, <2>6, <2>8
  <2> QED  BY <1>5, <2>9 DEF AtEnd
<1> QED  BY <1>3, <1>4, <1>5

\* One lemma for each step.
LEMMA WhileRead ==
  ASSUME FrontendInv, NEW s, NEW w, IsWritten(text, s, w), ReadInv(s, w), parse_while
  PROVE  ReadInv(s, w)'
<1>0. Lookahead(w) /\ Progress(s, w) /\ Len(w) \in Nat \ {0} /\ Len(taken) \in 0 .. Len(w)
  BY Reading
<1>1. pc = "parse" /\ pc' = "statement" /\ UNCHANGED <<file, pos, peek, names, k, pending, left, scope, script, taken>>
  BY DEF parse_while
<1>2. Len(taken) < Len(w)
  <2>1. Len(taken) # Len(w)
    BY <1>1, EndIs DEF parse_while
  <2> QED  BY <1>0, <2>1
<1>3. Between(s, w)
  BY <1>0, <1>1 DEF Progress
<1>4. Between(s, w)'
  BY <1>1, <1>3 DEF Between, Built
<1>5. Progress(s, w)'
  BY <1>1, <1>2, <1>4 DEF Progress
<1>6. Lookahead(w)'
  BY <1>0, <1>1, Unmoved
<1> QED  BY <1>5, <1>6 DEF ReadInv

LEMMA StatementRead ==
  ASSUME FrontendInv, NEW s, NEW w, IsWritten(text, s, w), ReadInv(s, w), parse_statement
  PROVE  ReadInv(s, w)'
<1> PICK n : n = Len(taken)
  OBVIOUS
<1> PICK u : u = w[n + 1]
  OBVIOUS
<1>0. /\ Lexed(text, pos, peek, taken) /\ Lookahead(w) /\ Progress(s, w) /\ text \in Strs
      /\ Len(w) \in Nat \ {0} /\ n \in 0 .. Len(w) /\ IsScript(s)
      /\ n # 0 => IsMark(s, w[n]) /\ n \in 1 .. Len(w)
  BY Reading
<1>1. /\ pc = "statement" /\ Consume /\ UNCHANGED <<file, names, k, pending, left, scope, script>>
      /\ pc' = IF next.type = "kLOCAL" THEN "name" ELSE "unexpected"
  BY DEF parse_statement
<1>2. Between(s, w) /\ n < Len(w)
  BY <1>0, <1>1 DEF Progress
<1>3. n + 1 \in 1 .. Len(w) /\ IsMark(s, u) /\ Spells(s, u, TextOf(text, u))
  <2>1. n + 1 \in 1 .. Len(w)
    BY <1>0, <1>2
  <2> QED  BY <1>0, <2>1, MarksAre
<1>4. u.role = "local" /\ Built(s, u.first - 1)
  <2>1. CASE n = 0
    <3>1. Built(s, 0) /\ u.role = "local" /\ u.first = 1 /\ 1 - 1 = 0
      BY <1>0, <1>2, <2>1, MarksAre DEF Between
    <3> QED  BY <3>1
  <2>2. CASE n # 0
    <3>1. Closes(s, w[n]) /\ Built(s, w[n].stmt)
      BY <1>2, <2>2 DEF Between
    <3>2. Follows(s, w[n], u)
      BY <1>0, <1>2, <2>2, MarksAre
    <3>3. u.role = "local" /\ u.first = w[n].last + 1
      BY <1>0, <1>3, <2>2, <3>1, <3>2, FollowerIs
    <3>4. w[n].stmt = w[n].last /\ w[n].last \in 1 .. Len(s) /\ Len(s) \in Nat
      BY <1>0, <2>2, <3>1, MarkIs, ScriptIs DEF Closes
    <3>5. u.first - 1 = w[n].stmt
      BY <3>3, <3>4
    <3> QED  BY <3>1, <3>3, <3>5
  <2> QED  BY <2>1, <2>2
<1>5. Lookahead(w)' /\ Len(taken') = n + 1 /\ next = TokenOf(u, TextOf(text, u))
  BY <1>0, <1>1, <1>2, Advance
<1>6. pc' = "name"
  BY <1>1, <1>3, <1>4, <1>5, TokenIs
<1>7. Built(s, u.first - 1)'
  BY <1>1, <1>4 DEF Built
<1>8. n + 1 # 0
  BY <1>0
<1>9. Progress(s, w)'
  BY <1>4, <1>5, <1>6, <1>7, <1>8 DEF Progress
<1> QED  BY <1>5, <1>9 DEF ReadInv

\* The token that is used within a declaration.
LEMMA Consuming ==
  ASSUME FrontendInv, NEW s, NEW w, IsWritten(text, s, w), ReadInv(s, w),
         Consume, file' = file, Len(taken) # 0, ~Closes(s, w[Len(taken)])
  PROVE  /\ Lookahead(w)' /\ Len(taken') = Len(taken) + 1 /\ Len(taken') # 0 /\ peek' = {}
         /\ IsMark(s, w[Len(taken)]) /\ IsMark(s, w[Len(taken) + 1])
         /\ Follows(s, w[Len(taken)], w[Len(taken) + 1])
         /\ Spells(s, w[Len(taken) + 1], TextOf(text, w[Len(taken) + 1]))
         /\ next = TokenOf(w[Len(taken) + 1], TextOf(text, w[Len(taken) + 1]))
<1>0. /\ Lexed(text, pos, peek, taken) /\ Lookahead(w) /\ text \in Strs
      /\ Len(w) \in Nat \ {0} /\ Len(taken) \in 0 .. Len(w) /\ IsMark(s, w[Len(taken)])
  BY Reading
<1>1. /\ Len(taken) < Len(w) /\ Len(taken) + 1 \in 1 .. Len(w) /\ IsMark(s, w[Len(taken) + 1])
      /\ Follows(s, w[Len(taken)], w[Len(taken) + 1])
  BY <1>0, MoreComes
<1>2. Spells(s, w[Len(taken) + 1], TextOf(text, w[Len(taken) + 1]))
  BY <1>0, <1>1, MarksAre
<1>3. /\ Lookahead(w)' /\ Len(taken') = Len(taken) + 1 /\ peek' = {}
      /\ next = TokenOf(w[Len(taken) + 1], TextOf(text, w[Len(taken) + 1]))
  BY <1>0, <1>1, Advance
<1>4. Len(taken) + 1 # 0
  BY <1>0
<1> QED  BY <1>0, <1>1, <1>2, <1>3, <1>4

LEMMA NameRead ==
  ASSUME FrontendInv, NEW s, NEW w, IsWritten(text, s, w), ReadInv(s, w), parse_name
  PROVE  ReadInv(s, w)'
<1> PICK n : n = Len(taken)
  OBVIOUS
<1> PICK t : t = w[n]
  OBVIOUS
<1> PICK u : u = w[n + 1]
  OBVIOUS
<1>0. Progress(s, w) /\ IsScript(s)
  BY Reading
<1>1. /\ pc = "name" /\ Consume /\ UNCHANGED <<file, k, pending, left, scope, script>>
      /\ next.type = "kIDENTIFIER" => names' = <<next.text>> /\ pc' = "names"
  BY DEF parse_name
<1>2. n # 0 /\ t.role = "local" /\ Built(s, t.first - 1)
  BY <1>0, <1>1 DEF Progress
<1>3. /\ Lookahead(w)' /\ Len(taken') = n + 1 /\ n + 1 # 0
      /\ IsMark(s, t) /\ IsMark(s, u) /\ Follows(s, t, u) /\ Spells(s, u, TextOf(text, u))
      /\ next = TokenOf(u, TextOf(text, u))
  <2>1. ~Closes(s, t) /\ file' = file
    BY <1>1, <1>2 DEF Closes, Ends
  <2> QED  BY <1>1, <1>2, <2>1, Consuming
<1>4. u.role = "name" /\ u.stmt = t.stmt /\ u.first = t.first
  BY <1>0, <1>2, <1>3, FollowerIs
<1>5. t.stmt = t.first /\ u.first \in Nat
  BY <1>0, <1>2, <1>3, <1>4, MarkIs, ScriptIs
<1>6. pc' = "names" /\ names' = <<s[u.stmt].local>>
  BY <1>1, <1>3, <1>4, TokenIs
<1>7. Built(s, u.first - 1)'
  BY <1>1, <1>2, <1>4 DEF Built
<1>8. Named(s, u.first, u.stmt)'
  <2>1. u.stmt = u.first /\ (u.stmt + 1) - u.first = 1 /\ u.first + 1 - 1 = u.first
    BY <1>4, <1>5
  <2>2. Len(names') = 1 /\ names'[1] = s[u.stmt].local
    BY <1>6
  <2>3. \A i \in 1 .. 1 : i = 1
    OBVIOUS
  <2> QED  BY <2>1, <2>2, <2>3 DEF Named
<1>9. Progress(s, w)'
  BY <1>3, <1>4, <1>6, <1>7, <1>8 DEF Progress
<1> QED  BY <1>3, <1>9 DEF ReadInv

LEMMA NamesRead ==
  ASSUME FrontendInv, NEW s, NEW w, IsWritten(text, s, w), ReadInv(s, w), parse_names
  PROVE  ReadInv(s, w)'
<1> PICK n : n = Len(taken)
  OBVIOUS
<1> PICK t : t = w[n]
  OBVIOUS
<1> PICK u : u = w[n + 1]
  OBVIOUS
<1>0. Progress(s, w) /\ IsScript(s) /\ ParserInv
  BY Reading
<1>1. /\ pc = "names" /\ Consume /\ UNCHANGED <<file, names, pending, left, scope, script>>
      /\ next.type = "kCOMMA" => pc' = "more"
      /\ next.type = "kEQUALS" => pc' = "unary" /\ k' = 1
  BY DEF parse_names
<1>2. n # 0 /\ t.role = "name" /\ Built(s, t.first - 1) /\ Named(s, t.first, t.stmt)
  BY <1>0, <1>1 DEF Progress
<1>3. /\ Lookahead(w)' /\ Len(taken') = n + 1 /\ n + 1 # 0
      /\ IsMark(s, t) /\ IsMark(s, u) /\ Follows(s, t, u) /\ Spells(s, u, TextOf(text, u))
      /\ next = TokenOf(u, TextOf(text, u))
  <2>1. ~Closes(s, t) /\ file' = file
    BY <1>1, <1>2 DEF Closes, Ends
  <2> QED  BY <1>1, <1>2, <2>1, Consuming
<1>4. t.stmt \in Nat /\ t.first \in Nat
  BY <1>0, <1>3, MarkIs, ScriptIs
<1>5. CASE u.role = "further" /\ u.stmt = t.stmt + 1
  <2>1. u.first = t.first /\ u.stmt - 1 = t.stmt
    BY <1>0, <1>3, <1>4, <1>5, FollowerIs
  <2>2. pc' = "more"
    BY <1>1, <1>3, <1>5, TokenIs
  <2>3. Built(s, u.first - 1)' /\ Named(s, u.first, u.stmt - 1)'
    BY <1>1, <1>2, <2>1 DEF Built, Named
  <2>4. Progress(s, w)'
    BY <1>3, <1>5, <2>2, <2>3 DEF Progress
  <2> QED  BY <1>3, <2>4 DEF ReadInv
<1>6. CASE u.role = "equals" /\ t.stmt = t.last /\ u.stmt = t.first
  <2>1. u.first = t.first /\ u.last = t.last /\ u.last = t.stmt /\ u.stmt = u.first
    BY <1>0, <1>3, <1>6, FollowerIs
  <2>2. pc' = "unary" /\ k' = 1
    BY <1>1, <1>3, <1>6, TokenIs
  <2>3. Built(s, u.stmt - 1)' /\ Named(s, u.first, u.last)'
    BY <1>1, <1>2, <2>1 DEF Built, Named
  <2>4. Valued(s, u, u.stmt)'
    <3>1. (u.stmt + 1) - u.first = 1
      BY <1>4, <2>1
    <3> QED  BY <2>2, <2>3, <3>1 DEF Valued
  <2>5. Waiting(s, u.stmt, 0)'
    <3>1. pending' = <<>>
      BY <1>0, <1>1 DEF ParserInv
    <3> QED  BY <3>1 DEF Waiting
  <2>6. Progress(s, w)'
    BY <1>3, <1>6, <2>2, <2>3, <2>4, <2>5 DEF Progress
  <2> QED  BY <1>3, <2>6 DEF ReadInv
<1> QED  BY <1>0, <1>2, <1>3, <1>5, <1>6, FollowerIs

LEMMA MoreRead ==
  ASSUME FrontendInv, NEW s, NEW w, IsWritten(text, s, w), ReadInv(s, w), parse_more
  PROVE  ReadInv(s, w)'
<1> PICK n : n = Len(taken)
  OBVIOUS
<1> PICK t : t = w[n]
  OBVIOUS
<1> PICK u : u = w[n + 1]
  OBVIOUS
<1>0. Progress(s, w) /\ IsScript(s) /\ ParserInv
  BY Reading
<1>1. /\ pc = "more" /\ Consume /\ UNCHANGED <<file, k, pending, left, scope, script>>
      /\ names' = Append(names, next.text) /\ pc' = "names"
  BY DEF parse_more
<1>2. n # 0 /\ t.role = "further" /\ Built(s, t.first - 1) /\ Named(s, t.first, t.stmt - 1)
  BY <1>0, <1>1 DEF Progress
<1>3. /\ Lookahead(w)' /\ Len(taken') = n + 1 /\ n + 1 # 0
      /\ IsMark(s, t) /\ IsMark(s, u) /\ Follows(s, t, u) /\ Spells(s, u, TextOf(text, u))
      /\ next = TokenOf(u, TextOf(text, u))
  <2>1. ~Closes(s, t) /\ file' = file
    BY <1>1, <1>2 DEF Closes, Ends
  <2> QED  BY <1>1, <1>2, <2>1, Consuming
<1>4. u.role = "name" /\ u.stmt = t.stmt /\ u.first = t.first
  BY <1>0, <1>2, <1>3, FollowerIs
<1>5. u.stmt \in Nat /\ u.first \in Nat /\ u.first <= u.stmt
  BY <1>0, <1>3, <1>4, MarkIs, ScriptIs
<1>6. next.text = s[u.stmt].local
  BY <1>3, <1>4, TokenIs
<1>7. Named(s, u.first, u.stmt)'
  <2>1. names \in Seq(ToSet(names) \cup {next.text})
    BY <1>0 DEF ParserInv, IsList
  <2>2. Len(names) = u.stmt - u.first /\ \A i \in 1 .. u.stmt - u.first : names[i] = s[u.first + i - 1].local
    BY <1>2, <1>4, <1>5 DEF Named
  <2>3. /\ Len(names') = Len(names) + 1 /\ names'[Len(names) + 1] = next.text
        /\ \A i \in 1 .. Len(names) : names'[i] = names[i]
    BY <1>1, <2>1, AppendProperties
  <2>4. Len(names') = (u.stmt + 1) - u.first
    <3>1. Len(names') = (u.stmt - u.first) + 1
      BY <2>2, <2>3
    <3>2. \A a, b \in Nat : (b - a) + 1 = (b + 1) - a
      OBVIOUS
    <3> QED  BY <1>5, <3>1, <3>2
  <2>5. ASSUME NEW i \in 1 .. (u.stmt + 1) - u.first PROVE names'[i] = s[u.first + i - 1].local
    <3>1. CASE i = Len(names) + 1
      <4>1. u.first + i - 1 = u.stmt
        BY <1>5, <2>2, <3>1
      <4> QED  BY <1>6, <2>3, <3>1, <4>1
    <3>2. CASE i # Len(names) + 1
      <4>1. i \in 1 .. Len(names) /\ i \in 1 .. u.stmt - u.first
        <5>1. \A a, b \in Nat : \A j \in 1 .. (b + 1) - a : j # (b - a) + 1 => j \in 1 .. b - a
          OBVIOUS
        <5>2. i # (u.stmt - u.first) + 1
          BY <2>2, <3>2
        <5>3. i \in 1 .. u.stmt - u.first
          BY <1>5, <5>1, <5>2
        <5> QED  BY <2>2, <5>3
      <4> QED  BY <2>2, <2>3, <4>1
    <3> QED  BY <3>1, <3>2
  <2> QED  BY <2>4, <2>5 DEF Named
<1>8. Built(s, u.first - 1)'
  BY <1>1, <1>2, <1>4 DEF Built
<1>9. Progress(s, w)'
  BY <1>1, <1>3, <1>4, <1>7, <1>8 DEF Progress
<1> QED  BY <1>3, <1>9 DEF ReadInv

LEMMA UnaryRead ==
  ASSUME FrontendInv, NEW s, NEW w, IsWritten(text, s, w), ReadInv(s, w), parse_unary_expr
  PROVE  ReadInv(s, w)'
<1> PICK n : n = Len(taken)
  OBVIOUS
<1> PICK t : t = w[n]
  OBVIOUS
<1> PICK u : u = w[n + 1]
  OBVIOUS
<1>0. Progress(s, w) /\ IsScript(s) /\ ParserInv
  BY Reading
<1>1. /\ pc = "unary" /\ Consume /\ UNCHANGED <<file, names, k, pending, scope, script>>
      /\ next.type \in {"kLIT_STRING", "kLIT_NUMBER"} => left' = {literal_of(next)} /\ pc' = "operator"
  BY DEF parse_unary_expr
<1>2. /\ n # 0 /\ t.role \in {"equals", "comma", "operator"} /\ Built(s, t.stmt - 1) /\ Valued(s, t, t.stmt)
      /\ Waiting(s, t.stmt, IF t.role = "operator" THEN t.item ELSE 0)
  BY <1>0, <1>1 DEF Progress
<1>3. /\ Lookahead(w)' /\ Len(taken') = n + 1 /\ n + 1 # 0
      /\ IsMark(s, t) /\ IsMark(s, u) /\ Follows(s, t, u) /\ Spells(s, u, TextOf(text, u))
      /\ next = TokenOf(u, TextOf(text, u))
  <2>1. ~Closes(s, t) /\ file' = file
    BY <1>1, <1>2 DEF Closes, Ends
  <2> QED  BY <1>1, <1>2, <2>1, Consuming
<1>4. /\ u.role = "literal" /\ u.stmt = t.stmt /\ u.first = t.first /\ u.last = t.last
      /\ u.item = (IF t.role = "operator" THEN t.item ELSE 0) + 1
  BY <1>0, <1>2, <1>3, FollowerIs
<1>5. pc' = "operator" /\ left' = {Literal(s[u.stmt].lits[u.item])}
  BY <1>1, <1>3, <1>4, TokenIs
<1>6. Built(s, u.stmt - 1)' /\ Valued(s, u, u.stmt)'
  BY <1>1, <1>2, <1>4 DEF Built, Valued, Named
<1>7. u.item \in Nat /\ u.stmt \in 1 .. Len(s) /\ Len(s[u.stmt].lits) \in Nat \ {0}
  <2>1. u.stmt \in 1 .. Len(s) /\ u.item \in 1 .. Len(s[u.stmt].lits)
    BY <1>0, <1>3, <1>4, MarkIs
  <2> QED  BY <1>0, <2>1, ScriptIs
<1>8. Len(pending') = u.item - 1 /\ Waiting(s, u.stmt, Len(pending))'
  <2> PICK p : p = IF t.role = "operator" THEN t.item ELSE 0
    OBVIOUS
  <2>1. p \in Int
    <3>1. t.role = "operator" => t.item \in 1 .. Len(s[t.stmt].lits)
      BY <1>0, <1>3, MarkIs
    <3> QED  BY <1>4, <1>7, <3>1
  <2>2. Waiting(s, u.stmt, p) /\ u.item = p + 1 /\ pending' = pending
    BY <1>1, <1>2, <1>4
  <2>3. Len(pending) = p
    BY <2>2 DEF Waiting
  <2>4. Waiting(s, u.stmt, Len(pending))
    BY <2>2, <2>3
  <2> QED  BY <2>1, <2>2, <2>3, <2>4 DEF Waiting
<1>9. IF Ends(s, u) THEN left' = {Rest(s[u.stmt], Len(pending') + 1)}
      ELSE Len(pending') = u.item - 1 /\ left' = {Literal(s[u.stmt].lits[u.item])}
  <2>1. CASE Ends(s, u)
    <3>1. u.item = Len(s[u.stmt].lits) /\ Len(pending') + 1 = u.item
      BY <1>7, <1>8, <2>1 DEF Ends
    <3>2. Rest(s[u.stmt], u.item) = Literal(s[u.stmt].lits[u.item])
      BY <1>7, <3>1, RestIs
    <3> QED  BY <1>5, <2>1, <3>1, <3>2
  <2>2. CASE ~Ends(s, u)
    BY <1>5, <1>8, <2>2
  <2> QED  BY <2>1, <2>2
<1>10. Len(pending') < u.item
  BY <1>7, <1>8
<1>11. Progress(s, w)'
  BY <1>3, <1>4, <1>5, <1>6, <1>8, <1>9, <1>10 DEF Progress
<1> QED  BY <1>3, <1>11 DEF ReadInv

\* Behind an expression no operator comes, and what comes is put back.
LEMMA NoOperatorComes ==
  ASSUME FrontendInv, NEW s, NEW w, IsWritten(text, s, w), ReadInv(s, w), Len(taken) # 0, Ends(s, w[Len(taken)])
  PROVE  next.type \notin DOMAIN Opers
<1> PICK n : n = Len(taken)
  OBVIOUS
<1> PICK u : u = w[n + 1]
  OBVIOUS
<1>0. /\ Lexed(text, pos, peek, taken) /\ Lookahead(w) /\ text \in Strs /\ IsScript(s)
      /\ Len(w) \in Nat \ {0} /\ n \in 1 .. Len(w) /\ n \in 0 .. Len(w) /\ IsMark(s, w[n]) /\ n # 0
  BY Reading
<1>1. next = Upcoming(w)
  BY <1>0, NextIs
<1>2. CASE n < Len(w)
  <2>1. n + 1 \in 1 .. Len(w)
    BY <1>0, <1>2
  <2>2. IsMark(s, u) /\ Follows(s, w[n], u) /\ Spells(s, u, TextOf(text, u))
    BY <1>0, <1>2, <2>1, MarksAre
  <2>3. u.role \in {"comma", "local"}
    BY <1>0, <2>2, FollowerIs DEF Closes
  <2>4. next.type \in {"kCOMMA", "kLOCAL"}
    <3>1. next = TokenOf(u, TextOf(text, u))
      BY <1>1, <1>2 DEF Upcoming
    <3> QED  BY <2>2, <2>3, <3>1, TokenIs
  <2> QED  BY <2>4, OperUnits
<1>3. CASE ~(n < Len(w))
  <2>1. next.type = "kEOF"
    BY <1>1, <1>3 DEF Upcoming, EndToken, Token
  <2> QED  BY <2>1, OperUnits
<1> QED  BY <1>2, <1>3

LEMMA OperatorRead ==
  ASSUME FrontendInv, NEW s, NEW w, IsWritten(text, s, w), ReadInv(s, w), parse_operator
  PROVE  ReadInv(s, w)'
<1> PICK n : n = Len(taken)
  OBVIOUS
<1> PICK t : t = w[n]
  OBVIOUS
<1> PICK u : u = w[n + 1]
  OBVIOUS
<1> PICK stmt : stmt = s[t.stmt]
  OBVIOUS
<1> PICK p : p = Len(pending)
  OBVIOUS
<1>0. Progress(s, w) /\ IsScript(s) /\ ParserInv /\ Lexed(text, pos, peek, taken) /\ Lookahead(w)
  BY Reading
<1>1. pc = "operator" /\ UNCHANGED <<file, names, k, scope, script>>
  BY DEF parse_operator
<1>2. /\ n # 0 /\ t.role = "literal" /\ Built(s, t.stmt - 1) /\ Valued(s, t, t.stmt)
      /\ Waiting(s, t.stmt, p) /\ p < t.item
      /\ Ends(s, t) => left = {Rest(stmt, p + 1)}
      /\ ~Ends(s, t) => p = t.item - 1 /\ left = {Literal(stmt.lits[t.item])}
  BY <1>0, <1>1 DEF Progress
<1>3. Built(s, t.stmt - 1)' /\ Valued(s, t, t.stmt)'
  BY <1>1, <1>2 DEF Built, Valued, Named
<1>4. IsMark(s, t) /\ t.stmt \in 1 .. Len(s) /\ t.item \in 1 .. Len(stmt.lits) /\ Len(stmt.lits) \in Nat \ {0}
  <2>1. IsMark(s, t)
    BY <1>2, Reading
  <2>2. t.stmt \in 1 .. Len(s) /\ t.item \in 1 .. Len(stmt.lits)
    BY <1>0, <1>2, <2>1, MarkIs
  <2> QED  BY <1>0, <2>1, <2>2, ScriptIs
<1>5. p \in Nat /\ IsList(pending) /\ pending \in Seq(ToSet(pending))
  BY <1>0, ListLength DEF ParserInv, IsList
<1>6. \A i \in 1 .. p : pending[i] = [left |-> {Literal(stmt.lits[i])}, oper |-> stmt.opers[i]]
  BY <1>2 DEF Waiting
<1>7. CASE ~Ends(s, t)
  <2>1. ~Closes(s, t) /\ t.stmt = t.stmt
    BY <1>7 DEF Closes
  <2>2. /\ Follows(s, t, u) /\ Spells(s, u, TextOf(text, u)) /\ IsMark(s, u)
        /\ next = TokenOf(u, TextOf(text, u))
    <3>1. n < Len(w) /\ n + 1 \in 1 .. Len(w) /\ IsMark(s, u) /\ Follows(s, t, u) /\ text \in Strs /\ n \in 0 .. Len(w)
      BY <1>2, <2>1, Reading, MoreComes
    <3>2. Spells(s, u, TextOf(text, u))
      BY <3>1, MarksAre
    <3>3. next = Upcoming(w)
      BY <1>0, NextIs
    <3> QED  BY <3>1, <3>2, <3>3 DEF Upcoming
  <2>3. u.role = "operator" /\ u.stmt = t.stmt /\ u.item = t.item /\ u.first = t.first /\ u.last = t.last
    BY <1>0, <1>2, <1>4, <1>7, <2>2, FollowerIs
  <2>4. next.type \in DOMAIN Opers /\ Opers[next.type] = stmt.opers[u.item]
    BY <2>2, <2>3, TokenIs
  <2>5. /\ Consume /\ pc' = "unary"
        /\ pending' = Append(pending, [left |-> left, oper |-> Opers[next.type]])
    BY <2>4 DEF parse_operator
  <2>6. Lookahead(w)' /\ Len(taken') = n + 1 /\ n + 1 # 0
    BY <1>1, <1>2, <2>1, <2>5, Consuming
  <2>7. Waiting(s, u.stmt, u.item)'
    <3> PICK x : x = [left |-> left, oper |-> Opers[next.type]]
      OBVIOUS
    <3>1. x = [left |-> {Literal(stmt.lits[u.item])}, oper |-> stmt.opers[u.item]]
      BY <1>2, <1>7, <2>3, <2>4
    <3>2. pending \in Seq(ToSet(pending) \cup {x}) /\ x \in ToSet(pending) \cup {x} /\ pending' = Append(pending, x)
      BY <1>5, <2>5
    <3>3. Len(pending') = p + 1 /\ pending'[p + 1] = x /\ \A i \in 1 .. p : pending'[i] = pending[i]
      BY <3>2, AppendProperties
    <3>4. u.item = p + 1
      BY <1>2, <1>4, <1>5, <1>7, <2>3
    <3>5. ASSUME NEW i \in 1 .. u.item
          PROVE  pending'[i] = [left |-> {Literal(stmt.lits[i])}, oper |-> stmt.opers[i]]
      <4>1. CASE i = u.item
        BY <3>1, <3>3, <3>4, <4>1
      <4>2. CASE i # u.item
        <5>1. i \in 1 .. p
          BY <1>5, <3>4, <4>2
        <5> QED  BY <1>6, <3>3, <5>1
      <4> QED  BY <4>1, <4>2
    <3> QED  BY <2>3, <3>3, <3>4, <3>5 DEF Waiting
  <2>8. Built(s, u.stmt - 1)' /\ Valued(s, u, u.stmt)'
    BY <1>3, <2>3 DEF Valued, Named
  <2>9. Progress(s, w)'
    BY <2>3, <2>5, <2>6, <2>7, <2>8 DEF Progress
  <2> QED  BY <2>6, <2>9 DEF ReadInv
<1>8. CASE Ends(s, t)
  <2>1. next.type \notin DOMAIN Opers
    BY <1>2, <1>8, NoOperatorComes
  <2>2. Deconsume
    BY <2>1 DEF parse_operator
  <2>3. Lookahead(w)' /\ taken' = taken /\ peek' # {}
    BY <1>0, <1>1, <1>2, <2>2, HeldBack
  <2>4. CASE pending # <<>>
    <3>1. /\ left' = {BinaryOp(Last(pending).oper, l, r) : l \in Last(pending).left, r \in left}
          /\ pending' = Front(pending) /\ pc' = "operator"
      BY <1>1, <2>1, <2>4 DEF parse_operator
    <3>2. p \in 1 .. p /\ p < Len(stmt.lits) /\ p \in 1 .. Len(stmt.lits)
      <4>1. p > 0
        BY <1>5, <2>4, ListLength
      <4> QED  BY <1>2, <1>4, <1>5, <4>1, SMTT(60)
    <3>3. Last(pending) = [left |-> {Literal(stmt.lits[p])}, oper |-> stmt.opers[p]]
      BY <1>6, <3>2 DEF Last
    <3>4. left' = {Rest(stmt, p)}
      <4>1. left = {Rest(stmt, p + 1)}
        BY <1>2, <1>8
      <4>2. left' = {BinaryOp(stmt.opers[p], Literal(stmt.lits[p]), Rest(stmt, p + 1))}
        BY <3>1, <3>3, <4>1
      <4> QED  BY <1>4, <3>2, <4>2, RestIs
    <3>5. Len(pending') = p - 1 /\ \A i \in 1 .. p - 1 : pending'[i] = pending[i]
      <4>1. pending' = SubSeq(pending, 1, p - 1)
        BY <3>1 DEF Front
      <4>2. 1 \in Int /\ p - 1 \in Int /\ \A i \in 1 .. p - 1 : pending[i] \in ToSet(pending)
        BY <1>5 DEF ToSet
      <4>3. /\ Len(pending') = IF 1 <= p - 1 THEN (p - 1) - 1 + 1 ELSE 0
            /\ \A i \in 1 .. (p - 1) - 1 + 1 : pending'[i] = pending[1 + i - 1]
        BY <4>1, <4>2, SubSeqProperties
      <4>4. Len(pending') = p - 1
        BY <1>5, <3>2, <4>3
      <4>5. \A i \in 1 .. p - 1 : i \in 1 .. (p - 1) - 1 + 1 /\ 1 + i - 1 = i
        BY <1>5
      <4> QED  BY <4>3, <4>4, <4>5
    <3>6. Waiting(s, t.stmt, Len(pending))'
      <4>1. \A i \in 1 .. p - 1 : i \in 1 .. p
        BY <1>5
      <4> QED  BY <1>6, <3>5, <4>1 DEF Waiting
    <3>7. Len(pending') + 1 = p /\ Len(pending') < t.item
      BY <1>2, <1>4, <1>5, <3>5
    <3>8. left' = {Rest(stmt, Len(pending') + 1)}
      BY <3>4, <3>7
    <3>9. Progress(s, w)'
      BY <1>2, <1>3, <1>8, <2>3, <3>1, <3>6, <3>7, <3>8 DEF Progress
    <3> QED  BY <2>3, <3>9 DEF ReadInv
  <2>5. CASE pending = <<>>
    <3>1. pc' = "init" /\ left' = left
      BY <2>1, <2>5 DEF parse_operator
    <3>2. p = 0 /\ 0 + 1 = 1
      BY <2>5
    <3>3. left' = {parse_binary_expr(stmt)}
      BY <1>2, <1>4, <1>8, <3>1, <3>2, RestIs
    <3>4. Progress(s, w)'
      BY <1>2, <1>3, <1>8, <2>3, <3>1, <3>3 DEF Progress
    <3> QED  BY <2>3, <3>4 DEF ReadInv
  <2> QED  BY <2>4, <2>5
<1> QED  BY <1>7, <1>8

LEMMA CommaRead ==
  ASSUME FrontendInv, NEW s, NEW w, IsWritten(text, s, w), ReadInv(s, w), parse_comma
  PROVE  ReadInv(s, w)'
<1> PICK n : n = Len(taken)
  OBVIOUS
<1> PICK t : t = w[n]
  OBVIOUS
<1> PICK u : u = w[n + 1]
  OBVIOUS
<1>0. Progress(s, w) /\ IsScript(s) /\ ParserInv
  BY Reading
<1>1. /\ pc = "comma" /\ Consume /\ UNCHANGED <<file, names, k, pending, left, scope, script>>
      /\ next.type = "kCOMMA" => pc' = "unary"
  BY DEF parse_comma
<1>2. n # 0 /\ Ends(s, t) /\ t.stmt < t.last /\ Built(s, t.stmt) /\ Valued(s, t, t.stmt + 1)
  BY <1>0, <1>1 DEF Progress
<1>3. IsMark(s, t) /\ t.stmt \in Nat /\ t.last \in Nat
  <2>1. IsMark(s, t)
    BY <1>2, Reading
  <2> QED  BY <1>0, <2>1, MarkIs, ScriptIs
<1>4. t.stmt # t.last
  BY <1>2, <1>3
<1>5. /\ Lookahead(w)' /\ Len(taken') = n + 1 /\ n + 1 # 0
      /\ IsMark(s, u) /\ Follows(s, t, u) /\ Spells(s, u, TextOf(text, u))
      /\ next = TokenOf(u, TextOf(text, u))
  <2>1. ~Closes(s, t) /\ file' = file
    BY <1>1, <1>4 DEF Closes
  <2> QED  BY <1>1, <1>2, <2>1, Consuming
<1>6. u.role = "comma" /\ u.stmt = t.stmt + 1 /\ u.first = t.first /\ u.last = t.last
  BY <1>0, <1>2, <1>3, <1>4, <1>5, FollowerIs
<1>7. pc' = "unary"
  BY <1>1, <1>5, <1>6, TokenIs
<1>8. u.stmt - 1 = t.stmt
  BY <1>3, <1>6
<1>9. Built(s, u.stmt - 1)' /\ Valued(s, u, u.stmt)'
  BY <1>1, <1>2, <1>6, <1>8 DEF Built, Valued, Named
<1>10. Waiting(s, u.stmt, 0)'
  <2>1. pending' = <<>>
    BY <1>0, <1>1 DEF ParserInv
  <2> QED  BY <2>1 DEF Waiting
<1>11. Progress(s, w)'
  BY <1>5, <1>6, <1>7, <1>9, <1>10 DEF Progress
<1> QED  BY <1>5, <1>11 DEF ReadInv

LEMMA InitStepRead ==
  ASSUME FrontendInv, NEW s, NEW w, IsWritten(text, s, w), ReadInv(s, w), parse_init
  PROVE  ReadInv(s, w)'
<1> PICK n : n = Len(taken)
  OBVIOUS
<1> PICK t : t = w[n]
  OBVIOUS
<1> PICK j : j = t.stmt
  OBVIOUS
<1> PICK m : m = Len(names)
  OBVIOUS
<1>0. Progress(s, w) /\ IsScript(s) /\ ParserInv /\ Lookahead(w)
  BY Reading
<1>1. pc = "init" /\ UNCHANGED <<file, pos, peek, names, pending, taken>>
  BY DEF parse_init
<1>2. /\ n # 0 /\ Ends(s, t) /\ peek # {} /\ Built(s, j - 1) /\ Valued(s, t, j)
      /\ left = {parse_binary_expr(s[j])}
  BY <1>0, <1>1 DEF Progress
<1>3. /\ t.first \in Nat /\ t.last \in 1 .. Len(s) /\ j \in Nat \ {0} /\ Len(s) \in Nat /\ t.first <= j /\ j <= t.last
      /\ j \in 1 .. Len(s) /\ DOMAIN s = 1 .. Len(s)
  <2>1. IsMark(s, t)
    BY <1>2, Reading
  <2>2. t.first \in 1 .. Len(s) /\ t.last \in 1 .. Len(s) /\ j \in t.first .. t.last /\ j \in 1 .. Len(s)
    BY <1>0, <2>1, MarkIs
  <2> QED  BY <1>0, <2>2, ScriptIs
<1>4. k = (j + 1) - t.first /\ m = (t.last + 1) - t.first /\ names[k] = s[j].local
  <2>1. /\ k = (j + 1) - t.first /\ m = (t.last + 1) - t.first
        /\ \A i \in 1 .. (t.last + 1) - t.first : names[i] = s[t.first + i - 1].local
    BY <1>2 DEF Valued, Named
  <2>2. k \in 1 .. (t.last + 1) - t.first /\ t.first + k - 1 = j
    <3>1. \A a, b, c \in Nat : a <= b /\ b <= c => (b + 1) - a \in 1 .. (c + 1) - a /\ a + ((b + 1) - a) - 1 = b
      OBVIOUS
    <3>2. t.first \in Nat /\ j \in Nat /\ t.last \in Nat
      BY <1>3
    <3> QED  BY <1>3, <2>1, <3>1, <3>2, ZenonT(60)
  <2> QED  BY <2>1, <2>2
<1>5. local_scope_local_lookup(names[k]) = {}
  <2> SUFFICES ASSUME NEW i \in 1 .. Len(scope), IsPrefix(scope[i].name, names[k]) PROVE FALSE
    BY DEF local_scope_local_lookup
  <2>1. i \in 1 .. j - 1 /\ scope[i].name = s[i].local
    BY <1>2 DEF Built
  <2>2. i \in DOMAIN s /\ j \in DOMAIN s /\ i < j
    BY <1>3, <2>1
  <2>3. ~IsPrefix(s[i].local, s[j].local)
    BY <1>0, <2>2 DEF IsScript
  <2> QED  BY <1>4, <2>1, <2>3
<1>6. init_value = parse_binary_expr(s[j])
  BY <1>2 DEF init_value
<1>7. Built(s, j)'
  <2> PICK x : x = [name |-> names[k], value |-> {e \in left : e.type = "literal"}]
    OBVIOUS
  <2> PICK y : y = StoreLocal(names[k], init_value)
    OBVIOUS
  <2>1. scope' = Append(scope, x) /\ script' = Append(script, y)
    BY <1>5 DEF parse_init
  <2>2. x.name = s[j].local /\ y = StoreLocal(s[j].local, parse_binary_expr(s[j]))
    BY <1>4, <1>6
  <2>3. /\ Len(script) = j - 1 /\ Len(scope) = j - 1
        /\ \A i \in 1 .. j - 1 : script[i] = StoreLocal(s[i].local, parse_binary_expr(s[i])) /\ scope[i].name = s[i].local
    BY <1>2 DEF Built
  <2>4. /\ scope \in Seq(ToSet(scope) \cup {x}) /\ x \in ToSet(scope) \cup {x}
        /\ script \in Seq(ToSet(script) \cup {y}) /\ y \in ToSet(script) \cup {y}
    BY <1>0 DEF ParserInv, IsList
  <2>5. Len(scope') = Len(scope) + 1 /\ scope'[Len(scope) + 1] = x /\ \A i \in 1 .. Len(scope) : scope'[i] = scope[i]
    BY <2>1, <2>4, AppendProperties
  <2>6. Len(script') = Len(script) + 1 /\ script'[Len(script) + 1] = y /\ \A i \in 1 .. Len(script) : script'[i] = script[i]
    BY <2>1, <2>4, AppendProperties
  <2>7. (j - 1) + 1 = j /\ \A i \in 1 .. j : i = j \/ i \in 1 .. j - 1
    BY <1>3
  <2>8. Len(script') = j /\ Len(scope') = j
    BY <2>3, <2>5, <2>6, <2>7
  <2>9. ASSUME NEW i \in 1 .. j
        PROVE  script'[i] = StoreLocal(s[i].local, parse_binary_expr(s[i])) /\ scope'[i].name = s[i].local
    <3>1. CASE i = j
      BY <2>2, <2>3, <2>5, <2>6, <2>7, <3>1
    <3>2. CASE i \in 1 .. j - 1
      BY <2>3, <2>5, <2>6, <3>2
    <3> QED  BY <2>7, <3>1, <3>2
  <2> QED  BY <2>8, <2>9 DEF Built
<1>8. Lookahead(w)'
  BY <1>0, <1>1, Unmoved
<1>9. MoreNamesWait <=> j < t.last
  <2>1. \A a, b, c \in Nat : (b + 1) - a < (c + 1) - a <=> b < c
    OBVIOUS
  <2>2. t.first \in Nat /\ j \in Nat /\ t.last \in Nat
    BY <1>3
  <2>3. MoreNamesWait <=> (j + 1) - t.first < (t.last + 1) - t.first
    BY <1>4 DEF MoreNamesWait
  <2>4. (j + 1) - t.first < (t.last + 1) - t.first <=> j < t.last
    BY <2>1, <2>2
  <2> QED  BY <2>3, <2>4
<1>10. CASE j < t.last
  <2>1. k' = k + 1 /\ pc' = "comma"
    BY <1>5, <1>9, <1>10 DEF parse_init
  <2>2. Valued(s, t, j + 1)'
    <3>1. k' = ((j + 1) + 1) - t.first
      <4>1. \A a, b \in Nat : ((b + 1) - a) + 1 = ((b + 1) + 1) - a
        OBVIOUS
      <4>2. t.first \in Nat /\ j \in Nat
        BY <1>3
      <4> QED  BY <1>4, <2>1, <4>1, <4>2
    <3> QED  BY <1>1, <1>2, <3>1 DEF Valued, Named
  <2>3. Progress(s, w)'
    BY <1>1, <1>2, <1>7, <1>10, <2>1, <2>2 DEF Progress
  <2> QED  BY <1>8, <2>3 DEF ReadInv
<1>11. CASE ~(j < t.last)
  <2>1. pc' = "parse"
    BY <1>5, <1>9, <1>11 DEF parse_init
  <2>2. Closes(s, t)
    <3>1. j = t.last
      BY <1>3, <1>11
    <3> QED  BY <1>2, <3>1 DEF Closes
  <2>3. Between(s, w)'
    BY <1>1, <1>2, <1>7, <2>2 DEF Between
  <2>4. Progress(s, w)'
    BY <2>1, <2>3 DEF Progress
  <2> QED  BY <1>8, <2>4 DEF ReadInv
<1> QED  BY <1>10, <1>11

\* The stores of all statements, with the return put in front of the last, are the tree.
LEMMA TreeIs ==
  ASSUME NEW s, Len(s) \in Nat \ {0}, IsList(script), Built(s, Len(s))
  PROVE  InsertAt(script, Len(script), Return(Last(script).value)) = parse(s)
<1> PICK m : m = Len(s)
  OBVIOUS
<1> DEFINE stores == [i \in 1 .. m |-> StoreLocal(s[i].local, parse_binary_expr(s[i]))]
<1>1. Len(script) = m /\ \A i \in 1 .. m : script[i] = StoreLocal(s[i].local, parse_binary_expr(s[i]))
  BY DEF Built
<1>2. script = [i \in 1 .. m |-> script[i]]
  BY <1>1 DEF IsList
<1>3. script = stores
  BY <1>1, <1>2
<1> PICK x : x = Return(Last(script).value)
  OBVIOUS
<1>4. x = Return(stores[m].value)
  BY <1>1, <1>3 DEF Last
<1> HIDE DEF stores
<1> DEFINE S == ToSet(script) \cup {x}
<1>5. script \in Seq(S) /\ x \in S /\ script[m] \in S /\ m \in 1 .. Len(script)
  BY <1>1 DEF IsList, ToSet
<1> HIDE DEF S
<1> PICK a : a = SubSeq(script, 1, m - 1)
  OBVIOUS
<1>6. a \in Seq(S)
  <2>1. 1 \in Int /\ m - 1 \in Int /\ \A i \in 1 .. m - 1 : script[i] \in S
    BY <1>1, <1>5
  <2> QED  BY <2>1, SubSeqProperties
<1> PICK y : y = script[m]
  OBVIOUS
<1>7. SubSeq(script, m, m) = <<y>>
  <2> PICK b : b = SubSeq(script, m, m)
    OBVIOUS
  <2>1. m \in Int /\ \A i \in m .. m : script[i] \in S
    BY <1>5
  <2>2. /\ b \in Seq(S) /\ Len(b) = IF m <= m THEN m - m + 1 ELSE 0
        /\ \A i \in 1 .. m - m + 1 : b[i] = script[m + i - 1]
    BY <2>1, SubSeqProperties
  <2>3. m - m + 1 = 1 /\ m + 1 - 1 = m /\ m <= m
    BY <2>1
  <2>4. Len(b) = 1 /\ b[1] = y
    BY <2>2, <2>3
  <2>5. <<y>> \in Seq(S) /\ Len(<<y>>) = 1 /\ <<y>>[1] = y
    BY <1>5
  <2>6. \A i \in 1 .. Len(b) : b[i] = <<y>>[i]
    BY <2>4, <2>5
  <2> QED  BY <2>2, <2>4, <2>5, <2>6, SeqEqual
<1>8. InsertAt(script, Len(script), x) = (a \o <<x>>) \o <<y>>
  BY <1>1, <1>7 DEF InsertAt
<1>9. (a \o <<x>>) \o <<y>> = a \o (<<x>> \o <<y>>)
  BY <1>5, <1>6, ConcatAssociative
<1>10. <<x>> \o <<y>> = <<x, y>>
  <2>1. <<x>> \in Seq(S) /\ <<y>> \in Seq(S) /\ <<x, y>> \in Seq(S) /\ Len(<<x>>) = 1 /\ Len(<<y>>) = 1 /\ Len(<<x, y>>) = 2
    BY <1>5
  <2> PICK b : b = <<x>> \o <<y>>
    OBVIOUS
  <2>2. /\ b \in Seq(S) /\ Len(b) = Len(<<x>>) + Len(<<y>>)
        /\ \A i \in 1 .. Len(<<x>>) + Len(<<y>>) : b[i] = IF i <= Len(<<x>>) THEN <<x>>[i] ELSE <<y>>[i - Len(<<x>>)]
    BY <2>1, ConcatProperties
  <2>3. Len(b) = 2 /\ \A i \in 1 .. 2 : b[i] = IF i <= 1 THEN <<x>>[i] ELSE <<y>>[i - 1]
    BY <2>1, <2>2
  <2>4. b[1] = x /\ b[2] = y
    BY <2>3
  <2>5. \A i \in 1 .. 2 : b[i] = <<x, y>>[i]
    <3>1. \A i \in 1 .. 2 : i = 1 \/ i = 2
      OBVIOUS
    <3> QED  BY <2>4, <3>1
  <2>6. \A c \in Seq(S) : Len(c) = 2 /\ (\A i \in 1 .. 2 : b[i] = c[i]) => b = c
    BY <2>2, <2>3, SeqEqual
  <2> QED  BY <2>1, <2>5, <2>6
<1>11. parse(s) = a \o <<x, y>>
  <2>1. parse(s) = SubSeq(stores, 1, m - 1) \o <<Return(stores[m].value), stores[m]>>
    BY DEF parse, stores
  <2> QED  BY <1>3, <1>4, <2>1
<1> QED  BY <1>8, <1>9, <1>10, <1>11

LEMMA LastRead ==
  ASSUME FrontendInv, NEW s, NEW w, IsWritten(text, s, w), ReadInv(s, w), parse_end
  PROVE  ReadInv(s, w)'
<1> PICK n : n = Len(taken)
  OBVIOUS
<1>0. /\ Lookahead(w) /\ Progress(s, w) /\ ParserInv /\ text \in Strs /\ IsScript(s)
      /\ Len(w) \in Nat \ {0} /\ n \in 0 .. Len(w)
  BY Reading
<1>1. pc = "parse" /\ AtEnd /\ UNCHANGED <<file, pos, peek, names, k, pending, left, scope, taken>>
  BY DEF parse_end
<1>2. n = Len(w) /\ n # 0
  BY <1>0, <1>1, EndIs
<1>3. Built(s, Len(s))
  <2>1. Closes(s, w[n]) /\ Built(s, w[n].stmt)
    BY <1>0, <1>1, <1>2 DEF Progress, Between
  <2>2. w[n].last = Len(s)
    BY <1>0, <1>2, MarksAre
  <2>3. w[n].stmt = Len(s)
    BY <2>1, <2>2 DEF Closes
  <2> QED  BY <2>1, <2>3
<1>4. Len(s) \in Nat \ {0} /\ IsList(script)
  BY <1>0, ScriptIs DEF ParserInv
<1>5. script # <<>>
  BY <1>3, <1>4 DEF Built
<1>6. pc' = "done" /\ script' = parse(s)
  BY <1>3, <1>4, <1>5, TreeIs DEF parse_end
<1>7. Progress(s, w)'
  BY <1>6 DEF Progress
<1>8. Lookahead(w)'
  BY <1>0, <1>1, Unmoved
<1> QED  BY <1>7, <1>8 DEF ReadInv

\* In front of its first token.
LEMMA StartRead ==
  ASSUME Init, NEW s, NEW w, IsWritten(text, s, w)
  PROVE  ReadInv(s, w)
<1>0. FrontendInv
  BY InitInv
<1>1. text \in Strs
  BY <1>0 DEF FrontendInv, Lexed
<1>2. Len(w) \in Nat \ {0}
  BY <1>1, MarksAre
<1>3. pos = 1 /\ peek = {} /\ pc = "parse" /\ Len(taken) = 0 /\ Len(script) = 0 /\ Len(scope) = 0
  BY DEF Init
<1>4. Lookahead(w)
  BY <1>2, <1>3 DEF Lookahead, Behind
<1>5. Progress(s, w)
  BY <1>3 DEF Progress, Between, Built
<1> QED  BY <1>4, <1>5 DEF ReadInv

\* The lexer does not get lost, and a stutter changes nothing.
LEMMA ForeverRead ==
  ASSUME FrontendInv, NEW s, NEW w, IsWritten(text, s, w), ReadInv(s, w), read_forever
  PROVE  ReadInv(s, w)'
<1>1. next.type # "endless"
  BY Reading, NextIs
<1> QED  BY <1>1 DEF read_forever

LEMMA StutterRead ==
  ASSUME NEW s, NEW w, ReadInv(s, w), UNCHANGED vars
  PROVE  ReadInv(s, w)'
<1>1. UNCHANGED <<file, pos, peek, taken>> /\ UNCHANGED <<pc, names, k, pending, left, scope, script>>
  BY DEF vars
<1>2. Lookahead(w)'
  BY <1>1, Unmoved DEF ReadInv
<1>3. Progress(s, w)'
  <2>1. Progress(s, w)
    BY DEF ReadInv
  <2>2. Between(s, w)' <=> Between(s, w)
    BY <1>1 DEF Between, Built
  <2>3. \A i : Built(s, i)' <=> Built(s, i)
    BY <1>1 DEF Built
  <2>4. \A i, j : Named(s, i, j)' <=> Named(s, i, j)
    BY <1>1 DEF Named
  <2>5. \A t, j : Valued(s, t, j)' <=> Valued(s, t, j)
    BY <1>1 DEF Valued, Named
  <2>6. \A i, j : Waiting(s, i, j)' <=> Waiting(s, i, j)
    BY <1>1 DEF Waiting
  <2> QED  BY <1>1, <2>1, <2>2, <2>3, <2>4, <2>5, <2>6 DEF Progress
<1> QED  BY <1>2, <1>3 DEF ReadInv

\* It is so of every script that the text was written for, with any marks.
AllRead == \A s \in file.script : \A w : IsWritten(text, s, w) => ReadInv(s, w)

LEMMA StepRead == FrontendInv /\ AllRead /\ [Next]_vars => AllRead'
<1> SUFFICES ASSUME FrontendInv, AllRead, [Next]_vars, NEW s, s \in file'.script, NEW w, IsWritten(text', s, w)
             PROVE  ReadInv(s, w)'
  BY DEF AllRead
<1>1. file' = file
  BY DEF Next, parse_while, parse_end, parse_statement, parse_name, parse_names, parse_more, parse_unary_expr,
         parse_operator, parse_init, parse_comma, read_forever, vars
<1>2. IsWritten(text, s, w) /\ ReadInv(s, w)
  BY <1>1 DEF AllRead, text
<1> QED
  BY <1>2, WhileRead, LastRead, StatementRead, NameRead, NamesRead, MoreRead, UnaryRead, OperatorRead,
     InitStepRead, CommaRead, ForeverRead, StutterRead DEF Next

\* A file whose text was written for a script, whatever the white space between its
\* tokens, however many declarations, names and operators it has, is read back: the
\* parser stops nowhere but at its end, and the tree that it has then is that
\* script's, statement by statement, each value with its operators grouped as Ast says.
\* (The names are plain: of others, which next_token cuts, it is not so.)
THEOREM WrittenParsesBack ==
  ASSUME FilesFit
  PROVE  Spec => []ParsesBack
<1>1. Init => AllRead
  BY StartRead DEF AllRead
<1>2. FrontendInv /\ AllRead /\ [Next]_vars => AllRead'
  BY StepRead
<1>3. FrontendInv /\ AllRead => ParsesBack
  <2> SUFFICES ASSUME FrontendInv, AllRead, Ended, NEW s \in file.script, PlainNames(s)
                  PROVE  pc = "done" /\ script = parse(s)
    BY DEF ParsesBack
  <2>1. file \in Files
    BY DEF FrontendInv, ParserInv
  <2>2. PICK w : IsWritten(text, s, w)
    BY <2>1 DEF FilesFit, text
  <2>3. Progress(s, w)
    BY <2>2 DEF AllRead, ReadInv
  <2> QED  BY <2>3 DEF Progress, Ended
<1> QED  BY <1>1, <1>2, <1>3, FrontendInvariant, PTL DEF Spec
=============================================================================
