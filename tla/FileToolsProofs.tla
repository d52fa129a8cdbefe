-------------------------- MODULE FileToolsProofs ---------------------------
(***************************************************************************)
(* What the file tools do to files, for any number of tool calls, files,   *)
(* targets and failures, and for every text: what was approved, what is    *)
(* reported, what is left behind; what a watch tells, and what a glob      *)
(* finds, for any tree, call and changes by others.                        *)
(***************************************************************************)
EXTENDS FileTools, Watch, Glob, Recursion, SequenceTheorems

-----------------------------------------------------------------------------
(* Texts.  The two loops of an edit go on from a match to the place after   *)
(* it, and from any other place to the next one: they are functions of the  *)
(* place they start at, defined from the last place down.                   *)

Text == Seq(STRING)

\* The matches from a place on, and what is left from there on.
CountFrom(c, text, old) ==
    /\ c \in [1 .. Len(text) + 1 -> Nat] /\ c[Len(text) + 1] = 0
    /\ \A i \in 1 .. Len(text) :
          /\ Matches(text, old, i) => c[i] = 1 + c[i + Len(old)]
          /\ ~ Matches(text, old, i) => c[i] = c[i + 1]

RestFrom(rest, text, old, new) ==
    /\ rest \in [1 .. Len(text) + 1 -> Text] /\ rest[Len(text) + 1] = <<>>
    /\ \A i \in 1 .. Len(text) :
          /\ Matches(text, old, i) => rest[i] = new \o rest[i + Len(old)]
          /\ ~ Matches(text, old, i) => rest[i] = <<text[i]>> \o rest[i + 1]

\* Texts are put together in any order of the steps.
LEMMA TextsJoin == \A x, y, z \in Text : (x \o y) \o z = x \o (y \o z)
<1>1. SUFFICES ASSUME NEW x \in Seq(STRING), NEW y \in Seq(STRING), NEW z \in Seq(STRING)
               PROVE  (x \o y) \o z = x \o (y \o z)
  BY DEF Text
<1>2. QED BY ConcatAssociative

\* A match ends within the text.
LEMMA MatchEnds ==
    ASSUME NEW text \in Text, NEW old \in Text, old # <<>>, NEW i \in 1 .. Len(text)
    PROVE  Matches(text, old, i) => i + Len(old) \in i + 1 .. Len(text) + 1
<1>1. Len(old) \in Nat /\ Len(text) \in Nat /\ Len(old) # 0 BY LenProperties, EmptySeq DEF Text
<1>2. QED BY <1>1 DEF Matches

\* What countOccurrences computes, place by place.
LEMMA CountIs ==
    ASSUME NEW text \in Text, NEW old \in Text, old # <<>>
    PROVE  \E c : CountFrom(c, text, old) /\ CountOccurrences(text, old) = c[1]
<1> DEFINE n == Len(text)
           next == [i \in 1 .. n |-> IF Matches(text, old, i) THEN i + Len(old) ELSE i + 1]
           step == [p \in (1 .. n) \X Nat |-> IF Matches(text, old, p[1]) THEN 1 + p[2] ELSE p[2]]
           Body(c) == [i \in 1 .. n + 1 |->
                         IF i > n THEN 0
                         ELSE IF Matches(text, old, i) THEN 1 + c[i + Len(old)] ELSE c[i + 1]]
           chosen == CHOOSE c : c = Body(c)
<1>1. n \in Nat /\ \A i \in 1 .. n : Matches(text, old, i) => i + Len(old) \in i + 1 .. n + 1
  BY MatchEnds, LenProperties DEF Text
<1>2. next \in [1 .. n -> Nat] /\ \A i \in 1 .. n : next[i] \in i + 1 .. n + 1 
  <2> HIDE DEF n
  <2>1. QED BY <1>1
<1>3. step \in [(1 .. n) \X Nat -> Nat]
  <2> HIDE DEF n
  <2>1. QED BY <1>1
<1>4. PICK f \in [1 .. n + 1 -> Nat] : Computes(f, n, 0, next, step)
  <2> HIDE DEF n, next, step
  <2>1. FromTheEnd(n, Nat, 0, next, step) BY <1>1, <1>2, <1>3 DEF FromTheEnd
  <2>2. QED BY <2>1, RecursionDown
<1>5. \A i \in 1 .. n + 1 : f[i] = Body(f)[i]
  <2> HIDE DEF n
  <2>1. ASSUME NEW i \in 1 .. n
        PROVE  f[i] = IF Matches(text, old, i) THEN 1 + f[i + Len(old)] ELSE f[i + 1]
    <3>1. f[i] = step[<<i, f[next[i]]>>] /\ next[i] \in 1 .. n + 1
      <4> HIDE DEF next, step
      <4>1. QED BY <1>1, <1>2, <1>4 DEF Computes
    <3>2. f[next[i]] \in Nat BY <1>4, <3>1
    <3>3. next[i] = IF Matches(text, old, i) THEN i + Len(old) ELSE i + 1 OBVIOUS
    <3> HIDE DEF next
    <3>4. QED BY <3>1, <3>2, <3>3
  <2> HIDE DEF next, step
  <2>2. QED BY <1>1, <1>4, <2>1 DEF Computes
<1>6. f = Body(f)
  <2>1. f = [i \in 1 .. n + 1 |-> f[i]] BY <1>4
  <2>2. QED BY <1>5, <2>1
<1>7. chosen = Body(chosen) BY <1>6, Zenon
<1>8. CountOccurrences(text, old) = chosen[1] BY Zenon DEF CountOccurrences
<1> HIDE DEF chosen, n
<1>9. chosen[n + 1] = 0 /\ \A i \in 1 .. n : chosen[i] = IF Matches(text, old, i) THEN 1 + chosen[i + Len(old)] ELSE chosen[i + 1]
  BY <1>1, <1>7
<1> HIDE DEF next, step, Body
<1>10. 1 .. n + 1 \subseteq {i \in 1 .. n + 1 : chosen[i] \in Nat}
  <2> DEFINE S == {i \in 1 .. n + 1 : chosen[i] \in Nat}
  <2>1. n + 1 \in S BY <1>1, <1>9
  <2>2. ASSUME NEW i \in 1 .. n, \A j \in i + 1 .. n + 1 : j \in S PROVE i \in S BY <1>1, <1>9, <2>2
  <2> HIDE DEF S
  <2>3. QED BY <1>1, <2>1, <2>2, Downward DEF S
<1>11. chosen \in [1 .. n + 1 -> Nat] BY <1>7, <1>10 DEF Body
<1>12. CountFrom(chosen, text, old) BY <1>9, <1>11 DEF n, CountFrom
<1>13. QED BY <1>8, <1>12

\* What replacing every match computes, place by place.
LEMMA RestIs ==
    ASSUME NEW text \in Text, NEW old \in Text, NEW new \in Text, old # <<>>
    PROVE  \E rest : RestFrom(rest, text, old, new) /\ ReplaceEvery(text, old, new) = rest[1]
<1> DEFINE n == Len(text)
           empty == <<>>
           Taken(x) == new \o x
           Passed(j, x) == <<text[j]>> \o x
           next == [i \in 1 .. n |-> IF Matches(text, old, i) THEN i + Len(old) ELSE i + 1]
           step == [p \in (1 .. n) \X Text |-> IF Matches(text, old, p[1]) THEN Taken(p[2]) ELSE Passed(p[1], p[2])]
           Body(c) == [i \in 1 .. n + 1 |->
                         IF i > n THEN empty
                         ELSE IF Matches(text, old, i) THEN Taken(c[i + Len(old)]) ELSE Passed(i, c[i + 1])]
           chosen == CHOOSE c : c = Body(c)
<1>1. n \in Nat /\ \A i \in 1 .. n : Matches(text, old, i) => i + Len(old) \in i + 1 .. n + 1
  BY MatchEnds, LenProperties DEF Text
<1>2. empty \in Text /\ \A x \in Text : Taken(x) \in Text /\ \A j \in 1 .. n : Passed(j, x) \in Text
  BY DEF Text
<1>3. next \in [1 .. n -> Nat] /\ \A i \in 1 .. n : next[i] \in i + 1 .. n + 1 
  <2> HIDE DEF empty, Taken, Passed, n
  <2>1. QED BY <1>1, <1>2
<1>4. step \in [(1 .. n) \X Text -> Text]
  <2> HIDE DEF empty, Taken, Passed, n
  <2>1. QED BY <1>1, <1>2
<1>5. PICK f \in [1 .. n + 1 -> Text] : Computes(f, n, empty, next, step)
  <2> HIDE DEF empty, Taken, Passed, n, next, step
  <2>1. FromTheEnd(n, Text, empty, next, step) BY <1>1, <1>2, <1>3, <1>4 DEF FromTheEnd
  <2>2. QED BY <2>1, RecursionDown
<1>6. \A i \in 1 .. n + 1 : f[i] = Body(f)[i]
  <2> HIDE DEF empty, Taken, Passed, n
  <2>1. ASSUME NEW i \in 1 .. n
        PROVE  f[i] = IF Matches(text, old, i) THEN Taken(f[i + Len(old)]) ELSE Passed(i, f[i + 1])
    <3>1. f[i] = step[<<i, f[next[i]]>>] /\ next[i] \in 1 .. n + 1
      <4> HIDE DEF empty, Taken, Passed, next, step
      <4>1. QED BY <1>1, <1>3, <1>5 DEF Computes
    <3>2. f[next[i]] \in Text BY <1>5, <3>1
    <3>3. next[i] = IF Matches(text, old, i) THEN i + Len(old) ELSE i + 1 OBVIOUS
    <3> HIDE DEF next
    <3>4. QED BY <3>1, <3>2, <3>3
  <2> HIDE DEF empty, Taken, Passed, next, step
  <2>2. QED BY <1>1, <1>5, <2>1 DEF Computes
<1>7. f = Body(f)
  <2>1. f = [i \in 1 .. n + 1 |-> f[i]] BY <1>5
  <2>2. QED BY <1>6, <2>1
<1>8. chosen = Body(chosen) BY <1>7, Zenon
<1>9. ReplaceEvery(text, old, new) = chosen[1] BY Zenon DEF ReplaceEvery
<1> HIDE DEF chosen, n, empty, Taken, Passed
<1>10. chosen[n + 1] = empty /\ \A i \in 1 .. n : chosen[i] = IF Matches(text, old, i) THEN Taken(chosen[i + Len(old)]) ELSE Passed(i, chosen[i + 1])
  BY <1>1, <1>8
<1> HIDE DEF next, step, Body
<1>11. 1 .. n + 1 \subseteq {i \in 1 .. n + 1 : chosen[i] \in Text}
  <2> DEFINE S == {i \in 1 .. n + 1 : chosen[i] \in Text}
  <2>1. n + 1 \in S BY <1>1, <1>2, <1>10
  <2>2. ASSUME NEW i \in 1 .. n, \A j \in i + 1 .. n + 1 : j \in S PROVE i \in S
    <3>1. chosen[i + 1] \in Text BY <1>1, <2>2
    <3>2. Matches(text, old, i) => chosen[i + Len(old)] \in Text BY <1>1, <2>2
    <3>3. chosen[i] \in Text BY <1>2, <1>10, <3>1, <3>2
    <3>4. QED BY <1>1, <3>3
  <2> HIDE DEF S
  <2>3. QED BY <1>1, <2>1, <2>2, Downward DEF S
<1>12. chosen \in [1 .. n + 1 -> Text] BY <1>8, <1>11 DEF Body
<1>13. RestFrom(chosen, text, old, new) BY <1>10, <1>12, Zenon DEF n, empty, Taken, Passed, RestFrom
<1>14. QED BY <1>9, <1>13

\* The length of what is left of a text from a place on, of which the matches are
\* replaced, is that of the text but for the matches counted from there.
LEMMA LengthsAgree ==
    ASSUME NEW text \in Text, NEW old \in Text, NEW new \in Text, old # <<>>,
           NEW c, CountFrom(c, text, old), NEW rest, RestFrom(rest, text, old, new),
           NEW i \in 1 .. Len(text) + 1
    PROVE  Len(rest[i]) = Len(text) + 1 - i + c[i] * (Len(new) - Len(old))
<1> DEFINE n == Len(text)
           d == Len(new) - Len(old)
           S == {j \in 1 .. n + 1 : Len(rest[j]) = n + 1 - j + c[j] * d}
<1>1. n \in Nat /\ Len(old) \in Nat /\ Len(new) \in Nat /\ d \in Int
  BY LenProperties DEF Text
<1>2. n + 1 \in S
  <2>1. Len(rest[n + 1]) = 0 /\ c[n + 1] * d = 0 BY <1>1 DEF CountFrom, RestFrom
  <2>2. QED BY <1>1, <2>1
<1>3. ASSUME NEW j \in 1 .. n, \A k \in j + 1 .. n + 1 : k \in S PROVE j \in S
  <2>1. \A m \in Nat : m * d \in Int /\ (1 + m) * d = d + m * d
    <3> HIDE DEF d
    <3>1. QED BY <1>1
  <2>2. CASE Matches(text, old, j)
    <3> DEFINE k == j + Len(old)
    <3>1. k \in j + 1 .. n + 1 BY <2>2, MatchEnds
    <3>2. Len(rest[k]) = n + 1 - k + c[k] * d BY <1>3, <3>1
    <3>3. rest[j] = new \o rest[k] /\ c[j] = 1 + c[k] BY <2>2, Zenon DEF RestFrom, CountFrom
    <3>4. rest[k] \in Text /\ c[k] \in Nat BY <1>1, <3>1 DEF RestFrom, CountFrom
    <3>5. Len(rest[j]) = Len(new) + Len(rest[k]) BY <3>3, <3>4, ConcatProperties DEF Text
    <3>6. c[j] * d = d + c[k] * d /\ c[k] * d \in Int BY <2>1, <3>3, <3>4, Zenon
    <3>7. QED BY <1>1, <3>1, <3>2, <3>5, <3>6
  <2>3. CASE ~ Matches(text, old, j)
    <3>1. j + 1 \in j + 1 .. n + 1 /\ j + 1 \in 1 .. n + 1 BY <1>1
    <3>2. Len(rest[j + 1]) = n + 1 - (j + 1) + c[j + 1] * d BY <1>3, <3>1
    <3>3. rest[j] = <<text[j]>> \o rest[j + 1] /\ c[j] = c[j + 1] BY <2>3, Zenon DEF RestFrom, CountFrom
    <3>4. rest[j + 1] \in Text /\ c[j + 1] \in Nat BY <3>1, Zenon DEF RestFrom, CountFrom
    <3>5. Len(rest[j]) = 1 + Len(rest[j + 1]) BY <3>3, <3>4 DEF Text
    <3>6. c[j + 1] * d \in Int BY <2>1, <3>4, Zenon
    <3>7. Len(rest[j]) = n + 1 - j + c[j] * d
      <4> HIDE DEF n, d
      <4>1. QED BY <1>1, <3>2, <3>3, <3>5, <3>6
    <3>8. QED BY <1>1, <3>7
  <2>4. QED BY <2>2, <2>3
<1>4. i \in S
  <2> HIDE DEF S
  <2>1. QED BY <1>1, <1>2, <1>3, Downward
<1>5. QED BY <1>4

\* From the first match on there is one match: the text before it, what replaces it, and
\* the text after it.
OneFrom(text, old, new, rest, i, m) ==
    /\ m \in i .. Len(text) /\ Matches(text, old, m)
    /\ \A j \in i .. m - 1 : ~ Matches(text, old, j)
    /\ rest = SubSeq(text, i, m - 1) \o new \o SubSeq(text, m + Len(old), Len(text))

\* Where no match is counted the rest of the text stays, and where one is counted it is
\* replaced and nothing else.
LEMMA FewMatches ==
    ASSUME NEW text \in Text, NEW old \in Text, NEW new \in Text, old # <<>>,
           NEW c, CountFrom(c, text, old), NEW rest, RestFrom(rest, text, old, new),
           NEW i \in 1 .. Len(text) + 1
    PROVE  /\ c[i] = 0 => /\ rest[i] = SubSeq(text, i, Len(text))
                          /\ \A j \in i .. Len(text) : ~ Matches(text, old, j)
           /\ c[i] = 1 => \E m : OneFrom(text, old, new, rest[i], i, m)
<1> DEFINE n == Len(text)
           None(j) == /\ rest[j] = SubSeq(text, j, n)
                      /\ \A k \in j .. n : ~ Matches(text, old, k)
           S == {j \in 1 .. n + 1 : /\ c[j] = 0 => None(j)
                                    /\ c[j] = 1 => \E m : OneFrom(text, old, new, rest[j], j, m)}
<1>1. n \in Nat /\ Len(old) \in Nat /\ Len(old) # 0
  BY LenProperties, EmptySeq DEF Text
<1>2. n + 1 \in S
  <2>1. rest[n + 1] = <<>> /\ c[n + 1] = 0 BY DEF CountFrom, RestFrom
  <2>2. SubSeq(text, n + 1, n) = <<>> BY <1>1, SubSeqEmpty
  <2>3. n + 1 .. n = {} /\ n + 1 \in 1 .. n + 1 BY <1>1
  <2>4. None(n + 1) BY <2>1, <2>2, <2>3, Zenon
  <2>5. c[n + 1] # 1 BY <2>1
  <2>6. QED BY <2>3, <2>4, <2>5, Zenon
<1>3. ASSUME NEW j \in 1 .. n, \A k \in j + 1 .. n + 1 : k \in S PROVE j \in S
  <2>1. CASE Matches(text, old, j)
    <3> DEFINE k == j + Len(old)
    <3>1. k \in j + 1 .. n + 1 BY <2>1, MatchEnds
    <3>2. c[k] = 0 => rest[k] = SubSeq(text, k, n) BY <1>3, <3>1
    <3>3. rest[j] = new \o rest[k] /\ c[j] = 1 + c[k] BY <2>1, Zenon DEF RestFrom, CountFrom
    <3>4. c[k] \in Nat BY <1>1, <3>1 DEF CountFrom
    <3>5. ASSUME c[j] = 1 PROVE OneFrom(text, old, new, rest[j], j, j)
      <4>1. c[k] = 0
        <5> HIDE DEF k
        <5>1. QED BY <3>3, <3>4, <3>5
      <4>0. rest[j] = new \o SubSeq(text, k, n) BY <3>2, <3>3, <4>1, Zenon
      <4>2. SubSeq(text, j, j - 1) = <<>> BY <1>1, SubSeqEmpty
      <4>3. <<>> \o new = new BY ConcatEmptySeq DEF Text
      <4>4. rest[j] = SubSeq(text, j, j - 1) \o new \o SubSeq(text, k, n)
        BY <4>0, <4>2, <4>3, Zenon
      <4>5. QED BY <1>1, <2>1, <4>4 DEF OneFrom
    <3>6. c[j] # 0 BY <3>3, <3>4
    <3>7. QED BY <1>1, <3>5, <3>6
  <2>2. CASE ~ Matches(text, old, j)
    <3>1. j + 1 \in j + 1 .. n + 1 /\ j + 1 \in 1 .. n + 1 BY <1>1
    <3>2. rest[j] = <<text[j]>> \o rest[j + 1] /\ c[j] = c[j + 1] BY <2>2, Zenon DEF RestFrom, CountFrom
    <3>3. ASSUME c[j] = 0 PROVE None(j)
      <4>1. None(j + 1) BY <1>3, <3>1, <3>2, <3>3
      <4>2. SubSeq(text, j, n) = <<text[j]>> \o SubSeq(text, j + 1, n)
        BY <1>1, SubSeqRecursiveFirst DEF Text
      <4>3. \A k \in j .. n : k = j \/ k \in j + 1 .. n BY <1>1
      <4>4. QED BY <2>2, <3>2, <4>1, <4>2, <4>3
    <3>4. ASSUME c[j] = 1 PROVE \E m : OneFrom(text, old, new, rest[j], j, m)
      <4>1. PICK m : OneFrom(text, old, new, rest[j + 1], j + 1, m) BY <1>3, <3>1, <3>2, <3>4
      <4>2. /\ m \in j + 1 .. n /\ Matches(text, old, m)
            /\ \A k \in j + 1 .. m - 1 : ~ Matches(text, old, k)
            /\ rest[j + 1] = SubSeq(text, j + 1, m - 1) \o new \o SubSeq(text, m + Len(old), n)
        BY <4>1 DEF OneFrom
      <4> DEFINE a == SubSeq(text, j + 1, m - 1)
                 b == SubSeq(text, m + Len(old), n)
      <4>3. a \in Text /\ b \in Text /\ <<text[j]>> \in Text
        <5>1. m + Len(old) \in m + 1 .. n + 1 BY <1>1, <4>2, MatchEnds
        <5>2. a \in Text BY <1>1, <4>2, SubSeqProperties DEF Text
        <5>3. b \in Text BY <1>1, <4>2, <5>1, SubSeqProperties DEF Text
        <5>4. QED BY <5>2, <5>3 DEF Text
      <4>4. SubSeq(text, j, m - 1) = <<text[j]>> \o a
        BY <1>1, <4>2, SubSeqRecursiveFirst DEF Text
      <4>5. rest[j] = SubSeq(text, j, m - 1) \o new \o b
        <5> HIDE DEF a, b
        <5> DEFINE h == <<text[j]>>
        <5>1. a \in Seq(STRING) /\ b \in Seq(STRING) /\ h \in Seq(STRING) /\ new \in Seq(STRING)
          BY <4>3 DEF Text
        <5> HIDE DEF h
        <5>2. a \o new \in Seq(STRING) BY <5>1, ConcatProperties
        <5> DEFINE a_new == a \o new
        <5> HIDE DEF a, b, a_new
        <5>0. \A x, y, z \in Seq(STRING) : (x \o y) \o z = x \o (y \o z) BY TextsJoin, Zenon DEF Text
        <5>3. h \o (a_new \o b) = (h \o a_new) \o b BY <5>0, <5>1, <5>2, Zenon DEF a_new
        <5>4. h \o a_new = (h \o a) \o new BY <5>0, <5>1, Zenon DEF a_new
        <5>5. rest[j] = h \o (a_new \o b) BY <3>2, <4>2, Zenon DEF a, b, h, a_new
        <5>6. SubSeq(text, j, m - 1) = h \o a BY <4>4, Zenon DEF h
        <5>7. QED BY <5>3, <5>4, <5>5, <5>6, Zenon
      <4>6. \A k \in j .. m - 1 : ~ Matches(text, old, k)
        <5>1. \A k \in j .. m - 1 : k = j \/ k \in j + 1 .. m - 1 BY <1>1, <4>2
        <5>2. QED BY <2>2, <4>2, <5>1
      <4>7. m \in j .. n BY <1>1, <4>2
      <4>8. QED BY <4>2, <4>5, <4>6, <4>7 DEF OneFrom
    <3> HIDE DEF None
    <3>5. QED BY <1>1, <3>3, <3>4
  <2>3. QED BY <2>1, <2>2
<1>4. i \in S
  <2> HIDE DEF S
  <2>1. QED BY <1>1, <1>2, <1>3, Downward
<1>5. QED BY <1>4

\* What the subsequences of a sequence are.
LEMMA PieceOf ==
    ASSUME NEW s, NEW x \in SubSeqs(s) PROVE \E a \in 0 .. Len(s), b \in 0 .. Len(s) : x = SubSeq(s, a + 1, b)
  BY DEF SubSeqs

\* And that each piece is one.
LEMMA IsPiece ==
    ASSUME NEW s, NEW a \in 0 .. Len(s), NEW b \in 0 .. Len(s), NEW x, x = SubSeq(s, a + 1, b)
    PROVE  x \in SubSeqs(s)
  BY DEF SubSeqs

\* What occurs in the beginning of a text is what matches there and ends there.
LEMMA Occurs ==
    ASSUME NEW text \in Text, NEW old \in Text, old # <<>>, NEW i \in 0 .. Len(text)
    PROVE  old \in SubSeqs(SubSeq(text, 1, i))
           <=> \E k \in 1 .. i : k + Len(old) <= i + 1 /\ Matches(text, old, k)
<1> DEFINE start == SubSeq(text, 1, i)
<1>1. Len(text) \in Nat /\ Len(old) \in Nat /\ Len(old) # 0 /\ text \in Seq(STRING) /\ i \in Nat
  BY LenProperties, EmptySeq DEF Text
<1>2. start \in Seq(STRING) /\ Len(start) = i BY <1>1, SubSeqProperties
<1>3. ASSUME NEW a \in 0 .. i, NEW b \in 0 .. i
      PROVE  SubSeq(start, a + 1, b) = SubSeq(text, a + 1, b)
  <2>1. CASE b < a + 1 BY <1>1, <2>1, SubSeqEmpty
  <2>2. CASE a + 1 <= b
    <3>1. 1 \in 1 .. Len(text) /\ i \in 1 .. Len(text) /\ a + 1 \in 1 .. i - 1 + 1 /\ b \in 1 .. i - 1 + 1
      BY <1>1, <2>2
    <3>2. SubSeq(start, a + 1, b) = SubSeq(text, 1 + (a + 1) - 1, 1 + b - 1)
      BY <1>1, <3>1, SubSeqOfSubSeq
    <3>3. 1 + (a + 1) - 1 = a + 1 /\ 1 + b - 1 = b BY <3>1
    <3>4. QED BY <3>2, <3>3
  <2>3. QED BY <1>1, <2>1, <2>2
<1>4. ASSUME old \in SubSeqs(start)
      PROVE  \E k \in 1 .. i : k + Len(old) <= i + 1 /\ Matches(text, old, k)
  <2>1. PICK a \in 0 .. i, b \in 0 .. i : old = SubSeq(start, a + 1, b)
    <3> HIDE DEF start
    <3>1. \E a \in 0 .. Len(start), b \in 0 .. Len(start) : old = SubSeq(start, a + 1, b) BY <1>4, PieceOf
    <3>2. QED BY <1>2, <3>1
  <2>2. old = SubSeq(text, a + 1, b) BY <1>3, <2>1
  <2>3. a + 1 <= b BY <1>1, <2>2, SubSeqEmpty
  <2>4. Len(old) = b - (a + 1) + 1 BY <1>1, <2>2, <2>3, SubSeqProperties
  <2>5. (a + 1) + Len(old) - 1 = b /\ a + 1 \in 1 .. i /\ (a + 1) + Len(old) <= i + 1
        /\ (a + 1) + Len(old) <= Len(text) + 1
    BY <1>1, <2>3, <2>4
  <2>6. Matches(text, old, a + 1) BY <2>2, <2>5 DEF Matches
  <2>7. QED BY <2>5, <2>6
<1>5. ASSUME NEW k \in 1 .. i, k + Len(old) <= i + 1, Matches(text, old, k)
      PROVE  old \in SubSeqs(start)
  <2>1. k - 1 \in 0 .. i /\ k + Len(old) - 1 \in 0 .. i /\ (k - 1) + 1 = k BY <1>1, <1>5
  <2>2. old = SubSeq(text, k, k + Len(old) - 1) BY <1>5 DEF Matches
  <2>3. old = SubSeq(start, (k - 1) + 1, k + Len(old) - 1) BY <1>3, <2>1, <2>2
  <2> HIDE DEF start
  <2>4. QED BY <1>2, <2>1, <2>3, IsPiece
<1>6. QED BY <1>4, <1>5

\* Where nothing matches, the first match is replaced by leaving the text as it is.
LEMMA FirstOfNone ==
    ASSUME NEW text \in Text, NEW old \in Text, NEW new \in Text, old # <<>>,
           \A j \in 1 .. Len(text) : ~ Matches(text, old, j)
    PROVE  ReplaceFirstSubSeq(new, old, text) = text
<1>1. Len(text) \in Nat /\ text = SubSeq(text, 1, Len(text)) BY LenProperties, SubSeqFull DEF Text
<1>2. old \notin SubSeqs(text)
  <2>1. Len(text) \in 0 .. Len(text) BY <1>1
  <2>2. QED BY <1>1, <2>1, Occurs
<1>3. QED BY <1>2 DEF ReplaceFirstSubSeq

\* Where something matches, the leftmost match is replaced.
LEMMA FirstOfSome ==
    ASSUME NEW text \in Text, NEW old \in Text, NEW new \in Text, old # <<>>,
           NEW m \in 1 .. Len(text), Matches(text, old, m),
           \A j \in 1 .. m - 1 : ~ Matches(text, old, j)
    PROVE  ReplaceFirstSubSeq(new, old, text)
           = SubSeq(text, 1, m - 1) \o new \o SubSeq(text, m + Len(old), Len(text))
<1> DEFINE n == Len(text)
           e == m + Len(old) - 1
           In(i) == old \in SubSeqs(SubSeq(text, 1, i))
           last == CHOOSE i \in 0 .. n : In(i) /\ \A j \in 0 .. i - 1 : ~ In(j)
<1>1. n \in Nat /\ Len(old) \in Nat /\ Len(old) # 0 /\ text = SubSeq(text, 1, n)
  BY LenProperties, EmptySeq, SubSeqFull DEF Text
<1>2. e \in m .. n BY <1>1 DEF Matches
<1>3. \A i \in 0 .. n : In(i) <=> \E k \in 1 .. i : k + Len(old) <= i + 1 /\ Matches(text, old, k)
  BY Occurs
<1>4. In(e)
  <2>1. m \in 1 .. e /\ m + Len(old) <= e + 1 /\ e \in 0 .. n BY <1>1, <1>2
  <2> HIDE DEF e, In
  <2>2. QED BY <1>3, <2>1
<1>5. ASSUME NEW i \in 0 .. n, In(i) PROVE e <= i
  <2>1. PICK k \in 1 .. i : k + Len(old) <= i + 1 /\ Matches(text, old, k)
    <3> HIDE DEF In
    <3>1. QED BY <1>3, <1>5
  <2>2. ~ k \in 1 .. m - 1 BY <2>1
  <2>3. QED BY <1>1, <2>1, <2>2
<1>6. last = e
  <2> HIDE DEF In
  <2>1. In(e) /\ \A j \in 0 .. e - 1 : ~ In(j)
    <3>1. ASSUME NEW j \in 0 .. e - 1 PROVE ~ In(j)
      <4>1. j \in 0 .. n /\ ~ (e <= j) BY <1>1, <1>2
      <4>2. QED BY <1>5, <4>1
    <3>2. QED BY <1>4, <3>1
  <2>2. e \in 0 .. n BY <1>1, <1>2
  <2> DEFINE Good(i) == In(i) /\ \A j \in 0 .. i - 1 : ~ In(j)
  <2> HIDE DEF e
  <2>3. last \in 0 .. n /\ Good(last)
    <3>1. Good(e) BY <2>1
    <3> HIDE DEF Good
    <3>2. last = CHOOSE i \in 0 .. n : Good(i) BY Zenon DEF Good
    <3> HIDE DEF last, n
    <3>3. QED BY <2>2, <3>1, <3>2, Zenon
  <2> HIDE DEF last
  <2>4. e <= last BY <1>5, <2>3
  <2>5. ~ (e \in 0 .. last - 1) BY <1>4, <2>3
  <2>6. QED BY <1>1, <2>2, <2>3, <2>4, <2>5
<1>7. IndexFirstSubSeq(old, text) = m
  <2>1. IndexFirstSubSeq(old, text) = last - (Len(old) - 1) BY Zenon DEF IndexFirstSubSeq
  <2> HIDE DEF last
  <2>2. QED BY <1>1, <1>6, <2>1
<1>8. old \in SubSeqs(text)
  <2>1. n \in 0 .. n /\ m \in 1 .. n /\ m + Len(old) <= n + 1 BY <1>1, <1>2
  <2>2. In(n)
    <3> HIDE DEF In, n
    <3>1. QED BY <1>3, <2>1
  <2>3. QED BY <1>1, <2>2
<1>9. QED BY <1>7, <1>8, Zenon DEF ReplaceFirstSubSeq, ReplaceSubSeqAt

\* The three loops over a text agree.
LEMMA LoopsAgree ==
    ASSUME NEW text \in Text, NEW old \in Text, NEW new \in Text, old # <<>>
    PROVE  /\ Len(ReplaceEvery(text, old, new))
              = Len(text) + CountOccurrences(text, old) * (Len(new) - Len(old))
           /\ CountOccurrences(text, old) <= 1 =>
                  ReplaceEvery(text, old, new) = ReplaceFirstSubSeq(new, old, text)
<1>1. PICK c : CountFrom(c, text, old) /\ CountOccurrences(text, old) = c[1] BY CountIs
<1>2. PICK rest : RestFrom(rest, text, old, new) /\ ReplaceEvery(text, old, new) = rest[1] BY RestIs
<1>3. Len(text) \in Nat /\ 1 \in 1 .. Len(text) + 1 BY LenProperties DEF Text
<1>4. Len(rest[1]) = Len(text) + 1 - 1 + c[1] * (Len(new) - Len(old))
  BY <1>1, <1>2, <1>3, LengthsAgree
<1>5. c[1] \in Nat BY <1>1, <1>3 DEF CountFrom
<1>6. ASSUME c[1] = 0 PROVE rest[1] = ReplaceFirstSubSeq(new, old, text)
  <2>1. rest[1] = SubSeq(text, 1, Len(text)) /\ \A j \in 1 .. Len(text) : ~ Matches(text, old, j)
    BY <1>1, <1>2, <1>3, <1>6, FewMatches
  <2>2. rest[1] = text BY <2>1, SubSeqFull DEF Text
  <2>3. QED BY <2>1, <2>2, FirstOfNone
<1>7. ASSUME c[1] = 1 PROVE rest[1] = ReplaceFirstSubSeq(new, old, text)
  <2>1. PICK m : OneFrom(text, old, new, rest[1], 1, m) BY <1>1, <1>2, <1>3, <1>7, FewMatches
  <2>2. /\ m \in 1 .. Len(text) /\ Matches(text, old, m)
        /\ \A j \in 1 .. m - 1 : ~ Matches(text, old, j)
        /\ rest[1] = SubSeq(text, 1, m - 1) \o new \o SubSeq(text, m + Len(old), Len(text))
    BY <2>1, Zenon DEF OneFrom
  <2>3. QED BY <2>2, FirstOfSome
<1>8. Len(text) + 1 - 1 = Len(text) BY <1>3
<1>9. c[1] <= 1 => rest[1] = ReplaceFirstSubSeq(new, old, text) BY <1>5, <1>6, <1>7
<1>10. QED BY <1>1, <1>2, <1>4, <1>8, <1>9

\* What the loops make of a text is a text.
LEMMA LoopsMakeTexts ==
    ASSUME NEW text \in Text, NEW old \in Text, NEW new \in Text, old # <<>>
    PROVE  ReplaceEvery(text, old, new) \in Text /\ ReplaceFirstSubSeq(new, old, text) \in Text
<1>1. Len(text) \in Nat /\ Len(old) \in Nat /\ 1 \in 1 .. Len(text) + 1 BY LenProperties DEF Text
<1>2. ReplaceEvery(text, old, new) \in Text
  <2>1. PICK rest : RestFrom(rest, text, old, new) /\ ReplaceEvery(text, old, new) = rest[1] BY RestIs
  <2>2. QED BY <1>1, <2>1 DEF RestFrom
<1>3. ReplaceFirstSubSeq(new, old, text) \in Text
  <2> DEFINE Found == {i \in 1 .. Len(text) : Matches(text, old, i)}
  <2>1. CASE Found = {} BY <2>1, FirstOfNone
  <2>2. CASE Found # {}
    <3>1. PICK m \in Found : \A i \in Found : m <= i
      <4>1. Found \in SUBSET Nat BY <1>1
      <4> HIDE DEF Found
      <4>2. QED BY <2>2, <4>1, Least
    <3>2. m \in 1 .. Len(text) /\ Matches(text, old, m) BY <3>1
    <3>3. \A j \in 1 .. m - 1 : ~ Matches(text, old, j)
      <4>1. ASSUME NEW j \in 1 .. m - 1, Matches(text, old, j) PROVE FALSE
        <5>1. j \in Found /\ ~ (m <= j) BY <1>1, <3>2, <4>1
        <5>2. QED BY <3>1, <5>1
      <4>2. QED BY <4>1
    <3> HIDE DEF Found
    <3>4. ReplaceFirstSubSeq(new, old, text)
          = SubSeq(text, 1, m - 1) \o new \o SubSeq(text, m + Len(old), Len(text))
      BY <3>2, <3>3, FirstOfSome
    <3>5. SubSeq(text, 1, m - 1) \in Seq(STRING) /\ new \in Seq(STRING)
          /\ SubSeq(text, m + Len(old), Len(text)) \in Seq(STRING)
      BY <1>1, <3>2, SubSeqProperties DEF Text
    <3>6. SubSeq(text, 1, m - 1) \o new \in Seq(STRING) BY <3>5, ConcatProperties
    <3>7. QED BY <3>4, <3>5, <3>6, ConcatProperties DEF Text
  <2>3. QED BY <2>1, <2>2
<1>4. QED BY <1>2, <1>3

-----------------------------------------------------------------------------
(* The tool calls.                                                          *)

\* A call that has begun, and whether it has ended.
Begun(run) ==
    /\ run \in [at : Places \ {"idle"}, req : Requests, shown : Seq(Text \cup {Null}),
                read : SUBSET Nat, done : SUBSET Nat, result : Results]
    /\ Len(run.shown) = Len(run.req.targets)
    /\ run.read \cup run.done \subseteq 1 .. Len(run.req.targets)
    /\ run.at = "ended" <=> run.result # Null

\* The first few targets, and not all of them.
SomeFirst(run, targets) == \E k \in 0 .. Len(run.req.targets) - 1 : targets = 1 .. k

\* Where each tool gets to.
Place(run) ==
    /\ run.at = "reading" => run.req.tool \in {"edit", "patch"}
    /\ run.at \in {"renaming", "unlinking"} => run.req.tool = "edit"
    /\ run.at = "filling" => \/ run.req.tool = "write" /\ ~run.req.flag
                             \/ run.req.tool = "patch" /\ Null \notin ToSet(run.shown)
    /\ run.at \in {"trashing", "trashing again"} => run.req.tool = "trash"
    /\ run.at = "trashing again" => ~run.req.flag

\* What an edit and a write were approved for is a text.
ShowsText(run) ==
    run.req.tool \in {"edit", "write"} /\ run.at \notin {"reading", "ended"} => run.shown[1] \in Text

\* The targets that are done: none before the approval, none but by a patch while more
\* are to come, and the first ones where they are changed in order.
Progress(run) ==
    /\ run.at \in {"reading", "asking", "renaming", "unlinking"} => run.done = {}
    /\ run.at = "approved" /\ run.req.tool # "patch" => run.done = {}
    /\ run.at = "approved" /\ run.done # {} => Null \notin ToSet(run.shown)
    /\ run.at = "trashing" /\ ~run.req.flag => run.done = {}
    /\ run.at \in {"approved", "filling"} \/ (run.at = "trashing" /\ run.req.flag) =>
           SomeFirst(run, run.done)
    /\ run.at \in {"asking", "approved"} /\ run.req.tool = "trash" => SomeFirst(run, run.read)

\* What a call has returned is what it has done.
Report(run) ==
    /\ run.result = "ok" => run.done = 1 .. Len(run.req.targets)
    /\ run.result \in {"dry-run", "apply-refused", "path not found"} => run.done = {}

RunInv(run) == run = Idle \/ (Begun(run) /\ Place(run) /\ ShowsText(run) /\ Progress(run) /\ Report(run))

FileInv ==
    /\ disk \in [Paths -> Text \cup {Null}]
    /\ temps \in SUBSET Runs /\ IsFiniteSet(temps)
    /\ faults \in Nat /\ crashes \in Nat /\ others \in Nat
    /\ runs = [r \in Runs |-> runs[r]]
    /\ \A r \in Runs : RunInv(runs[r])

\* What a request asks for.
LEMMA Asked ==
    ASSUME NEW q \in Requests
    PROVE  /\ q \in Request /\ q.targets \in Seq(Target)
           /\ Len(q.targets) \in Nat \ {0} /\ DOMAIN q.targets = 1 .. Len(q.targets)
           /\ q.tool \in {"edit", "write"} => Len(q.targets) = 1
           /\ \A i \in 1 .. Len(q.targets) :
                 /\ q.targets[i].path \in Paths
                 /\ q.tool # "trash" => q.targets[i].new \in Text
                 /\ q.tool \in {"edit", "patch"} => q.targets[i].old \in Text
           /\ q.tool = "edit" => q.targets[1].old # <<>>
<1>1. q \in Request /\ q.targets # <<>> BY FileToolsAssumption
<1>2. q.targets \in Seq(Target) /\ q.tool \in {"edit", "patch", "write", "trash"} /\ q.flag \in BOOLEAN
  BY <1>1 DEF Request
<1>3. Len(q.targets) \in Nat \ {0} /\ DOMAIN q.targets = 1 .. Len(q.targets)
  BY <1>1, <1>2, EmptySeq, LenProperties
<1>4. ASSUME NEW i \in 1 .. Len(q.targets)
      PROVE  /\ q.targets[i].path \in Paths
             /\ q.tool # "trash" => q.targets[i].new \in Text
             /\ q.tool \in {"edit", "patch"} => q.targets[i].old \in Text
  <2>1. q.targets[i] \in Target BY <1>2, ElementOfSeq
  <2>2. /\ q.targets[i].new = Null <=> q.tool = "trash"
        /\ q.targets[i].old = Null <=> q.tool \in {"write", "trash"}
    BY <1>3, FileToolsAssumption
  <2>3. QED BY <1>2, <2>1, <2>2 DEF Target, Text
<1>5. QED BY <1>1, <1>2, <1>3, <1>4, FileToolsAssumption

\* A call that ends, with what it has done so far.
LEMMA EndsWell ==
    ASSUME NEW run, Begun(run), NEW result \in {"thrown", "failed", "died", "dry-run", "apply-refused", "path not found"},
           result \in {"dry-run", "apply-refused", "path not found"} => run.done = {}
    PROVE  RunInv([run EXCEPT !.at = "ended", !.result = result])
<1> DEFINE to == [run EXCEPT !.at = "ended", !.result = result]
<1>1. /\ to \in [at : Places \ {"idle"}, req : Requests, shown : Seq(Text \cup {Null}),
                 read : SUBSET Nat, done : SUBSET Nat, result : Results]
      /\ to.at = "ended" /\ to.result = result /\ to.req = run.req /\ to.shown = run.shown
      /\ to.read = run.read /\ to.done = run.done
  BY DEF Begun, Places, Results, Endings
<1>2. result # Null /\ result # "ok" BY FileToolsAssumption DEF Endings
<1> HIDE DEF to
<1>3. Begun(to) BY <1>1, <1>2 DEF Begun
<1>4. Place(to) /\ ShowsText(to) /\ Progress(to) BY <1>1 DEF Place, ShowsText, Progress
<1>5. Report(to) BY <1>1, <1>2 DEF Report
<1>6. QED BY <1>3, <1>4, <1>5 DEF RunInv, to

\* A call that has done everything.
LEMMA EndsDone ==
    ASSUME NEW run, Begun(run), NEW done, done = 1 .. Len(run.req.targets)
    PROVE  RunInv([run EXCEPT !.at = "ended", !.result = "ok", !.done = done])
<1> DEFINE to == [run EXCEPT !.at = "ended", !.result = "ok", !.done = done]
<1>0. Len(run.req.targets) \in Nat BY Asked DEF Begun
<1>1. /\ to \in [at : Places \ {"idle"}, req : Requests, shown : Seq(Text \cup {Null}),
                 read : SUBSET Nat, done : SUBSET Nat, result : Results]
      /\ to.at = "ended" /\ to.result = "ok" /\ to.req = run.req /\ to.shown = run.shown
      /\ to.read = run.read /\ to.done = done
  <2>1. done \in SUBSET Nat BY <1>0
  <2>2. QED BY <2>1 DEF Begun, Places, Results, Endings
<1>2. Null # "ok" BY FileToolsAssumption DEF Endings
<1> HIDE DEF to
<1>3. Begun(to) BY <1>1, <1>2 DEF Begun
<1>4. Place(to) /\ ShowsText(to) /\ Progress(to) BY <1>1 DEF Place, ShowsText, Progress
<1>5. Report(to) BY <1>1 DEF Report
<1>6. QED BY <1>3, <1>4, <1>5 DEF RunInv, to

\* A call that goes on to another place, if that is one it may be at.
LEMMA GoesWell ==
    ASSUME NEW run, Begun(run), run.at # "ended", NEW place \in Places \ {"idle", "ended"},
           Place([run EXCEPT !.at = place]), ShowsText([run EXCEPT !.at = place]),
           Progress([run EXCEPT !.at = place])
    PROVE  RunInv([run EXCEPT !.at = place])
<1> DEFINE to == [run EXCEPT !.at = place]
<1>1. /\ to \in [at : Places \ {"idle"}, req : Requests, shown : Seq(Text \cup {Null}),
                 read : SUBSET Nat, done : SUBSET Nat, result : Results]
      /\ to.at = place /\ to.result = run.result /\ to.req = run.req /\ to.shown = run.shown
      /\ to.read = run.read /\ to.done = run.done
  BY DEF Begun
<1>2. run.result = Null /\ Null \notin Endings BY FileToolsAssumption DEF Begun
<1> HIDE DEF to
<1>3. Begun(to) BY <1>1, <1>2 DEF Begun
<1>4. Report(to) BY <1>1, <1>2 DEF Report, Endings
<1>5. QED BY <1>3, <1>4 DEF RunInv, to

\* A tool call that takes a step leaves the others where they are.
LEMMA OneMoves ==
    ASSUME FileInv, NEW r \in Runs, NEW run, Step(r, run), RunInv(run)
    PROVE  /\ runs' = [s \in Runs |-> runs'[s]] /\ \A s \in Runs : RunInv(runs'[s])
           /\ runs'[r] = run /\ \A s \in Runs \ {r} : runs'[s] = runs[s]
<1>1. runs = [s \in Runs |-> runs[s]] /\ \A s \in Runs : RunInv(runs[s]) BY DEF FileInv
<1>2. runs' = [runs EXCEPT ![r] = run] BY DEF Step
<1>3. runs' = [s \in Runs |-> IF s = r THEN run ELSE runs[s]]
  <2> DEFINE f == runs
  <2> HIDE DEF f
  <2>1. f = [s \in Runs |-> f[s]] /\ runs' = [f EXCEPT ![r] = run] BY <1>1, <1>2 DEF f
  <2>2. QED BY <2>1 DEF f
<1>4. \A s \in Runs : runs'[s] = IF s = r THEN run ELSE runs[s] BY <1>3
<1>5. QED BY <1>1, <1>3, <1>4

\* A step of a tool call: it moves, and the files stay files of texts.
Moves(r) ==
    /\ disk' \in [Paths -> Text \cup {Null}]
    /\ \E run : Step(r, run) /\ RunInv(run)

\* A call that is not idle has begun.
LEMMA NotIdle ==
    ASSUME FileInv, NEW r \in Runs, runs[r].at # "idle"
    PROVE  /\ Begun(runs[r]) /\ Place(runs[r]) /\ ShowsText(runs[r]) /\ Progress(runs[r]) /\ Report(runs[r])
           /\ runs[r].req \in Requests
<1>1. Idle.at = "idle" BY DEF Idle
<1>2. RunInv(runs[r]) BY DEF FileInv
<1>3. Begun(runs[r]) /\ Place(runs[r]) /\ ShowsText(runs[r]) /\ Progress(runs[r]) /\ Report(runs[r])
  BY <1>1, <1>2, Zenon DEF RunInv
<1>4. QED BY <1>3 DEF Begun

\* A call that ends moves.
LEMMA EndsMoves ==
    ASSUME FileInv, NEW r \in Runs, runs[r].at # "idle",
           NEW result \in {"thrown", "failed", "died", "dry-run", "apply-refused", "path not found"},
           result \in {"dry-run", "apply-refused", "path not found"} => runs[r].done = {},
           Ends(r, result), disk' \in [Paths -> Text \cup {Null}]
    PROVE  Moves(r)
<1>1. RunInv([runs[r] EXCEPT !.at = "ended", !.result = result]) BY NotIdle, EndsWell
<1>2. QED BY <1>1, Zenon DEF Ends, Moves

\* The call begins: nothing is shown but what a write writes.
LEMMA CallMoves == ASSUME FileInv, NEW r \in Runs, NEW req \in Requests, Call(r, req) PROVE Moves(r)
<1> DEFINE shown == [i \in 1 .. Len(req.targets) |-> IF req.tool = "write" THEN req.targets[i].new ELSE Null]
           place == IF req.tool \in {"edit", "patch"} THEN "reading" ELSE "asking"
           to == [Idle EXCEPT !.at = place, !.req = req, !.shown = shown]
<1>1. /\ Len(req.targets) \in Nat \ {0} /\ DOMAIN req.targets = 1 .. Len(req.targets)
      /\ \A i \in 1 .. Len(req.targets) : req.tool = "write" => req.targets[i].new \in Text
      /\ req.tool \in {"edit", "patch", "write", "trash"}
  BY Asked DEF Request
<1>2. Step(r, to) /\ disk' = disk BY <1>1, Zenon DEF Call, FilesStay
<1>3. shown \in Seq(Text \cup {Null}) /\ Len(shown) = Len(req.targets)
  <2>1. \A i \in 1 .. Len(req.targets) : (IF req.tool = "write" THEN req.targets[i].new ELSE Null) \in Text \cup {Null}
    BY <1>1
  <2>2. shown \in Seq(Text \cup {Null}) BY <1>1, <2>1, IsASeq
  <2>3. DOMAIN shown = 1 .. Len(req.targets) OBVIOUS
  <2> HIDE DEF shown
  <2>4. DOMAIN shown = 1 .. Len(shown) /\ Len(shown) \in Nat BY <2>2, LenProperties
  <2>5. QED BY <1>1, <2>2, <2>3, <2>4
<1>4. req.tool = "write" => shown[1] \in Text BY <1>1
<1> HIDE DEF shown
<1>5. /\ to \in [at : Places \ {"idle"}, req : Requests, shown : Seq(Text \cup {Null}),
                 read : SUBSET Nat, done : SUBSET Nat, result : Results]
      /\ to.at = place /\ to.result = Null /\ to.req = req /\ to.shown = shown
      /\ to.read = {} /\ to.done = {}
  BY <1>3 DEF Idle, Places, Results
<1> HIDE DEF to
<1>6. Begun(to) /\ Place(to) BY <1>1, <1>3, <1>5 DEF Begun, Place
<1>7. ShowsText(to) BY <1>1, <1>4, <1>5 DEF ShowsText
<1>8. Progress(to)
  <2>1. SomeFirst(to, {})
    <3>1. 0 \in 0 .. Len(req.targets) - 1 /\ {} = 1 .. 0 BY <1>1
    <3>2. QED BY <1>5, <3>1 DEF SomeFirst
  <2>2. QED BY <1>5, <2>1 DEF Progress
<1>9. Report(to) BY <1>5, FileToolsAssumption DEF Report, Endings
<1>10. QED BY <1>2, <1>6, <1>7, <1>8, <1>9 DEF Moves, RunInv, FileInv

\* An edit has a text to show, or ends.
LEMMA ReadForEditMoves == ASSUME FileInv, NEW r \in Runs, ReadForEdit(r) PROVE Moves(r)
<1> DEFINE run == runs[r]
           target == Targets(r)[1]
           text == disk[target.path]
           seen == IF run.req.flag THEN ReplaceEvery(text, target.old, target.new)
                   ELSE ReplaceFirstSubSeq(target.new, target.old, text)
           to == [run EXCEPT !.at = "asking", !.shown[1] = seen]
<1>1. run.at = "reading" /\ run.req.tool = "edit" /\ disk' = disk
  BY DEF ReadForEdit, At, Tool, FilesStay
<1>2. Begun(run) /\ Progress(run) /\ run.req \in Requests BY <1>1, NotIdle
<1>3. disk \in [Paths -> Text \cup {Null}] BY DEF FileInv
<1>4. CASE Ends(r, "thrown") BY <1>1, <1>3, <1>4, EndsMoves
<1>5. CASE Step(r, to) /\ text # Null
  <2>1. /\ target.path \in Paths /\ target.old \in Text /\ target.old # <<>> /\ target.new \in Text
        /\ Len(run.req.targets) = 1
    BY <1>1, <1>2, Asked DEF Targets
  <2>2. text \in Text BY <1>3, <1>5, <2>1
  <2>3. seen \in Text
    <3> HIDE DEF target, text
    <3>1. QED BY <2>1, <2>2, LoopsMakeTexts
  <2> HIDE DEF seen
  <2>4. run.shown \in Seq(Text \cup {Null}) /\ 1 \in 1 .. Len(run.shown) BY <1>2, <2>1 DEF Begun
  <2>5. /\ [run.shown EXCEPT ![1] = seen] \in Seq(Text \cup {Null})
        /\ Len([run.shown EXCEPT ![1] = seen]) = Len(run.shown) /\ [run.shown EXCEPT ![1] = seen][1] = seen
    BY <2>3, <2>4, ExceptSeq
  <2>6. /\ to \in [at : Places \ {"idle"}, req : Requests, shown : Seq(Text \cup {Null}),
                   read : SUBSET Nat, done : SUBSET Nat, result : Results]
        /\ to.at = "asking" /\ to.result = run.result /\ to.req = run.req
        /\ to.shown = [run.shown EXCEPT ![1] = seen] /\ to.read = run.read /\ to.done = run.done
    BY <1>2, <2>5 DEF Begun, Places
  <2>7. run.result = Null BY <1>1, <1>2 DEF Begun
  <2> HIDE DEF to
  <2>8. Begun(to) BY <1>2, <2>5, <2>6, <2>7 DEF Begun
  <2>9. Place(to) /\ ShowsText(to) BY <1>1, <2>3, <2>5, <2>6 DEF Place, ShowsText
  <2>10. Progress(to) BY <1>1, <1>2, <2>6 DEF Progress
  <2>11. Report(to) BY <2>6, <2>7, FileToolsAssumption DEF Report, Endings
  <2>12. QED BY <1>1, <1>3, <1>5, <2>8, <2>9, <2>10, <2>11 DEF Moves, RunInv
<1>6. QED BY <1>4, <1>5, Zenon DEF ReadForEdit

\* What a patch makes of a file is a text, or nothing.
LEMMA PatchedIsText ==
    ASSUME FileInv, NEW q \in Requests, q.tool = "patch", NEW i \in 1 .. Len(q.targets)
    PROVE  ApplyPatch(TextAt(q.targets[i].path), q.targets[i]) \in Text \cup {Null}
<1> DEFINE target == q.targets[i]
           text == TextAt(target.path)
<1>1. target.path \in Paths /\ target.old \in Text /\ target.new \in Text BY Asked
<1>2. text \in Text
  <2>1. disk[target.path] \in Text \cup {Null} BY <1>1 DEF FileInv
  <2>2. <<>> \in Text BY DEF Text
  <2>3. QED BY <2>1, <2>2 DEF TextAt
<1> HIDE DEF target, text
<1>3. target.old # <<>> => ReplaceFirstSubSeq(target.new, target.old, text) \in Text
  BY <1>1, <1>2, LoopsMakeTexts
<1>4. ApplyPatch(text, target) \in Text \cup {Null} BY <1>1, <1>3 DEF ApplyPatch
<1>5. QED BY <1>4 DEF target, text

\* A target of a patch is read, and shown if the patch applies to it.
LEMMA DryRunFileMoves ==
    ASSUME FileInv, NEW r \in Runs, NEW i \in DOMAIN runs[r].shown, DryRunFile(r, i) PROVE Moves(r)
<1> DEFINE run == runs[r]
           patched == ApplyPatch(TextAt(Targets(r)[i].path), Targets(r)[i])
           Read(shown) == [run EXCEPT !.read = @ \cup {i}, !.shown = shown]
<1>1. run.at = "reading" /\ run.req.tool = "patch" /\ disk' = disk /\ disk \in [Paths -> Text \cup {Null}]
  BY DEF DryRunFile, At, Tool, FilesStay, FileInv
<1>2. Begun(run) /\ Progress(run) /\ run.req \in Requests /\ run.result = Null
  BY <1>1, NotIdle DEF Begun
<1>3. run.shown \in Seq(Text \cup {Null}) /\ i \in 1 .. Len(run.shown) /\ Len(run.shown) = Len(run.req.targets)
      /\ Len(run.shown) \in Nat
  BY <1>2, LenProperties DEF Begun
<1>4. patched \in Text \cup {Null} BY <1>1, <1>2, <1>3, PatchedIsText DEF Targets
<1>5. ASSUME NEW shown \in Seq(Text \cup {Null}), Len(shown) = Len(run.shown)
      PROVE  RunInv(Read(shown))
  <2>1. /\ Read(shown) \in [at : Places \ {"idle"}, req : Requests, shown : Seq(Text \cup {Null}),
                   read : SUBSET Nat, done : SUBSET Nat, result : Results]
        /\ Read(shown).at = "reading" /\ Read(shown).result = Null /\ Read(shown).req = run.req
        /\ Read(shown).shown = shown /\ Read(shown).read = run.read \cup {i} /\ Read(shown).done = run.done
    <3> HIDE DEF patched
    <3>1. run.read \cup {i} \in SUBSET Nat BY <1>2, <1>3 DEF Begun
    <3>2. QED BY <1>1, <1>2, <1>5, <3>1 DEF Begun, Places
  <2> DEFINE to == Read(shown)
  <2> HIDE DEF to, Read
  <2>2. Begun(to) BY <1>2, <1>3, <1>5, <2>1 DEF Begun, to
  <2>3. Place(to) /\ ShowsText(to) BY <1>1, <2>1 DEF Place, ShowsText, to
  <2>4. Progress(to) BY <1>1, <1>2, <2>1 DEF Progress, to
  <2>5. Report(to) BY <2>1, FileToolsAssumption DEF Report, Endings, to
  <2>6. QED BY <2>2, <2>3, <2>4, <2>5 DEF RunInv, to
<1>6. CASE Step(r, [run EXCEPT !.read = @ \cup {i}, !.shown[i] = patched])
  <2> HIDE DEF patched
  <2>1. [run.shown EXCEPT ![i] = patched] \in Seq(Text \cup {Null})
        /\ Len([run.shown EXCEPT ![i] = patched]) = Len(run.shown)
    BY <1>3, <1>4, ExceptSeq
  <2>2. RunInv(Read([run.shown EXCEPT ![i] = patched])) BY <1>5, <2>1, Zenon
  <2>3. [run EXCEPT !.read = @ \cup {i}, !.shown[i] = patched] = Read([run.shown EXCEPT ![i] = patched])
    BY <1>2 DEF Begun
  <2> HIDE DEF Read
  <2>4. QED BY <1>1, <1>6, <2>2, <2>3, Zenon DEF Moves
<1>7. CASE Step(r, [run EXCEPT !.read = @ \cup {i}])
  <2>1. RunInv(Read(run.shown)) BY <1>3, <1>5, Zenon
  <2>2. [run EXCEPT !.read = @ \cup {i}] = Read(run.shown) BY <1>2 DEF Begun
  <2> HIDE DEF Read
  <2>3. QED BY <1>1, <1>7, <2>1, <2>2, Zenon DEF Moves
<1>8. QED BY <1>6, <1>7, Zenon DEF DryRunFile

\* A patch of which all is read asks, or ends as a dry run.
LEMMA PatchIsReadMoves == ASSUME FileInv, NEW r \in Runs, PatchIsRead(r) PROVE Moves(r)
<1> DEFINE run == runs[r]
           to == [run EXCEPT !.at = "asking"]
<1>1. run.at = "reading" /\ run.req.tool = "patch" /\ disk' = disk /\ disk \in [Paths -> Text \cup {Null}]
  BY DEF PatchIsRead, At, Tool, FilesStay, FileInv
<1>2. Begun(run) /\ Progress(run) /\ run.done = {} BY <1>1, NotIdle DEF Progress
<1>3. CASE Ends(r, "dry-run") BY <1>1, <1>2, <1>3, EndsMoves
<1>4. CASE Goes(r, "asking")
  <2>1. to.at = "asking" /\ to.req = run.req /\ to.shown = run.shown /\ to.read = run.read /\ to.done = run.done
    BY <1>2 DEF Begun
  <2>2. Place(to) /\ ShowsText(to) /\ Progress(to)
    <3> HIDE DEF to
    <3>1. QED BY <1>1, <1>2, <2>1 DEF Place, ShowsText, Progress
  <2>3. RunInv(to) BY <1>1, <1>2, <2>2, GoesWell DEF Places
  <2>4. QED BY <1>1, <1>4, <2>3, Zenon DEF Moves, Goes
<1>5. QED BY <1>3, <1>4, Zenon DEF PatchIsRead

\* An approved call has done nothing yet.
LEMMA ApproveMoves == ASSUME FileInv, NEW r \in Runs, Approve(r) PROVE Moves(r)
<1> DEFINE run == runs[r]
           to == [run EXCEPT !.at = "approved"]
<1>1. run.at = "asking" /\ disk' = disk /\ disk \in [Paths -> Text \cup {Null}] /\ Goes(r, "approved")
  BY DEF Approve, At, FilesStay, FileInv
<1>2. Begun(run) /\ ShowsText(run) /\ Progress(run) /\ run.done = {} /\ run.req \in Requests
  BY <1>1, NotIdle DEF Progress
<1>3. to.at = "approved" /\ to.req = run.req /\ to.shown = run.shown /\ to.read = run.read /\ to.done = run.done
  BY <1>2 DEF Begun
<1>4. SomeFirst(to, {})
  <2>1. 0 \in 0 .. Len(to.req.targets) - 1 /\ {} = 1 .. 0 BY <1>2, <1>3, Asked
  <2>2. QED BY <2>1, Zenon DEF SomeFirst
<1>5. Place(to) /\ ShowsText(to) /\ Progress(to)
  <2> HIDE DEF to
  <2>1. Place(to) /\ ShowsText(to) BY <1>1, <1>2, <1>3 DEF Place, ShowsText
  <2>2. QED BY <1>1, <1>2, <1>3, <1>4, <2>1 DEF Progress, SomeFirst
<1>6. RunInv(to) BY <1>1, <1>2, <1>5, GoesWell DEF Places
<1>7. QED BY <1>1, <1>6, Zenon DEF Moves, Goes

\* A denied call has done nothing.
LEMMA DenyMoves == ASSUME FileInv, NEW r \in Runs, Deny(r) PROVE Moves(r)
<1>1. runs[r].at = "asking" /\ disk' = disk /\ disk \in [Paths -> Text \cup {Null}] /\ Ends(r, "thrown")
  BY DEF Deny, At, FilesStay, FileInv
<1>2. QED BY <1>1, EndsMoves

\* What a step changes is a target of an approved call, as it was approved.
AsShown(r) ==
    \A p \in Paths : disk'[p] # disk[p] =>
        /\ runs[r].at \notin {"idle", "reading", "asking"}
        /\ \E i \in DOMAIN Targets(r) : Targets(r)[i].path = p /\ disk'[p] \in Outcomes(r, i)

\* A target's file gets another text.
LEMMA TargetChanges ==
    ASSUME FileInv, NEW r \in Runs, runs[r].at \notin {"idle", "reading", "asking"},
           NEW i \in 1 .. Len(Targets(r)), NEW text \in Text \cup {Null}, text \in Outcomes(r, i),
           disk' = [disk EXCEPT ![Targets(r)[i].path] = text]
    PROVE  disk' \in [Paths -> Text \cup {Null}] /\ AsShown(r)
<1>1. runs[r].req \in Requests BY NotIdle
<1>2. DOMAIN Targets(r) = 1 .. Len(Targets(r)) /\ Targets(r)[i].path \in Paths
  BY <1>1, Asked DEF Targets
<1> DEFINE path == Targets(r)[i].path
<1>3. disk \in [Paths -> Text \cup {Null}] BY DEF FileInv
<1> HIDE DEF path
<1>4. path \in Paths /\ disk' = [disk EXCEPT ![path] = text] BY <1>2 DEF path
<1>5. disk' \in [Paths -> Text \cup {Null}] BY <1>3, <1>4
<1>6. ASSUME NEW p \in Paths, disk'[p] # disk[p] PROVE p = path /\ disk'[p] = text
  BY <1>3, <1>4, <1>6
<1>7. AsShown(r) BY <1>2, <1>6, Zenon DEF AsShown, path
<1>8. QED BY <1>5, <1>7

\* Where the files stay, nothing has to be approved.
LEMMA NothingChanges ==
    ASSUME disk' = disk, NEW r PROVE AsShown(r)
  BY DEF AsShown

\* The temporary file of an edit changes no other file.
LEMMA WriteTempMoves == ASSUME FileInv, NEW r \in Runs, WriteTemp(r) PROVE Moves(r)
<1> DEFINE run == runs[r]
           To(place) == [run EXCEPT !.at = place]
<1>1. /\ run.at = "approved" /\ run.req.tool = "edit" /\ disk' = disk /\ disk \in [Paths -> Text \cup {Null}]
      /\ Goes(r, "renaming") \/ Goes(r, "unlinking")
  BY DEF WriteTemp, At, Tool, FileInv
<1>2. Begun(run) /\ ShowsText(run) /\ Progress(run) /\ run.done = {}
  BY <1>1, NotIdle DEF Progress
<1>3. ASSUME NEW place \in {"renaming", "unlinking"} PROVE RunInv(To(place))
  <2> DEFINE to == To(place)
  <2>1. to.at = place /\ to.req = run.req /\ to.shown = run.shown /\ to.read = run.read /\ to.done = run.done
    BY <1>2 DEF Begun
  <2>2. Place(to) /\ ShowsText(to) /\ Progress(to)
    <3> HIDE DEF to, To
    <3>1. Place(to) BY <1>1, <2>1 DEF Place
    <3>2. ShowsText(to) BY <1>1, <1>2, <2>1 DEF ShowsText
    <3>3. Progress(to) BY <1>1, <1>2, <2>1 DEF Progress
    <3>4. QED BY <3>1, <3>2, <3>3
  <2>3. QED BY <1>1, <1>2, <2>2, GoesWell DEF Places
<1>4. QED BY <1>1, <1>3, Zenon DEF Moves, Goes

\* The rename puts what was shown in place.
LEMMA RenameMoves == ASSUME FileInv, NEW r \in Runs, Rename(r) PROVE Moves(r) /\ AsShown(r)
<1> DEFINE run == runs[r]
           to == [run EXCEPT !.at = "unlinking"]
<1>1. run.at = "renaming" /\ disk \in [Paths -> Text \cup {Null}]
  BY DEF Rename, At, FileInv
<1>2. Begun(run) /\ Place(run) /\ ShowsText(run) /\ Progress(run) /\ run.req \in Requests
      /\ run.req.tool = "edit" /\ Len(run.req.targets) = 1 /\ run.shown[1] \in Text /\ run.done = {}
  BY <1>1, NotIdle, Asked DEF Place, ShowsText, Progress
<1>3. CASE /\ disk' = [disk EXCEPT ![Targets(r)[1].path] = run.shown[1]]
           /\ Step(r, [run EXCEPT !.at = "ended", !.result = "ok", !.done = {1}])
  <2>1. {1} = 1 .. Len(run.req.targets) BY <1>2
  <2>2. RunInv([run EXCEPT !.at = "ended", !.result = "ok", !.done = {1}]) BY <1>2, <2>1, EndsDone
  <2>3. run.shown[1] \in Outcomes(r, 1) BY <1>2 DEF Outcomes, Tool
  <2>4. disk' \in [Paths -> Text \cup {Null}] /\ AsShown(r)
    <3>1. 1 \in 1 .. Len(Targets(r)) BY <1>2 DEF Targets
    <3>2. QED BY <1>1, <1>2, <1>3, <2>3, <3>1, TargetChanges
  <2>5. QED BY <1>3, <2>2, <2>4, Zenon DEF Moves
<1>4. CASE Goes(r, "unlinking") /\ disk' = disk
  <2>1. to.at = "unlinking" /\ to.req = run.req /\ to.shown = run.shown /\ to.read = run.read /\ to.done = run.done
    BY <1>2 DEF Begun
  <2>2. Place(to) /\ ShowsText(to) /\ Progress(to)
    <3> HIDE DEF to
    <3>1. Place(to) BY <1>2, <2>1 DEF Place
    <3>2. ShowsText(to) BY <1>2, <2>1 DEF ShowsText
    <3>3. Progress(to) BY <1>2, <2>1 DEF Progress
    <3>4. QED BY <3>1, <3>2, <3>3
  <2>3. RunInv(to) BY <1>1, <1>2, <2>2, GoesWell DEF Places
  <2>4. Moves(r) BY <1>1, <1>4, <2>3, Zenon DEF Moves, Goes
  <2>5. QED BY <1>4, <2>4, NothingChanges
<1>5. QED BY <1>3, <1>4, Zenon DEF Rename

\* An edit that removes its temporary file ends.
LEMMA UnlinkMoves == ASSUME FileInv, NEW r \in Runs, Unlink(r) PROVE Moves(r)
<1>1. runs[r].at = "unlinking" /\ disk' = disk /\ disk \in [Paths -> Text \cup {Null}] /\ Ends(r, "thrown")
  BY DEF Unlink, At, FileInv
<1>2. QED BY <1>1, EndsMoves

\* A patch that is refused has done nothing.
LEMMA RefusePatchMoves == ASSUME FileInv, NEW r \in Runs, RefusePatch(r) PROVE Moves(r)
<1>1. /\ runs[r].at = "approved" /\ disk' = disk /\ disk \in [Paths -> Text \cup {Null}]
      /\ Null \in ToSet(runs[r].shown) /\ Ends(r, "apply-refused")
  BY DEF RefusePatch, At, FilesStay, FileInv
<1>2. runs[r].done = {} BY <1>1, NotIdle DEF Progress
<1>3. QED BY <1>1, <1>2, EndsMoves

\* The target whose turn it is, where they are changed in order.
LEMMA CurrentIs ==
    ASSUME FileInv, NEW r \in Runs, runs[r].at # "idle", SomeFirst(runs[r], runs[r].done)
    PROVE  /\ Current(r) \in 1 .. Len(Targets(r)) /\ Len(Targets(r)) \in Nat
           /\ runs[r].done \cup {Current(r)} = 1 .. Current(r)
<1>1. PICK k \in 0 .. Len(Targets(r)) - 1 : runs[r].done = 1 .. k BY DEF SomeFirst, Targets
<1>2. Len(Targets(r)) \in Nat BY NotIdle, Asked DEF Targets
<1>3. Cardinality(1 .. k) = k BY <1>1, <1>2, FS_Interval
<1>4. Current(r) = k + 1 BY <1>1, <1>3 DEF Current
<1>5. 1 .. k \cup {k + 1} = 1 .. k + 1 BY <1>1, <1>2
<1>6. QED BY <1>1, <1>2, <1>4, <1>5

\* What a rewrite was approved for is a text.
LEMMA RewriteIsText ==
    ASSUME FileInv, NEW r \in Runs, runs[r].at \notin {"idle", "reading", "ended"}, Rewrites(r),
           NEW i \in 1 .. Len(Targets(r))
    PROVE  runs[r].shown[i] \in Text /\ Outcomes(r, i) = Prefixes(runs[r].shown[i])
<1> DEFINE run == runs[r]
<1>1. Begun(run) /\ ShowsText(run) /\ run.req \in Requests BY NotIdle
<1>2. run.shown \in Seq(Text \cup {Null}) /\ Len(run.shown) = Len(Targets(r)) BY <1>1 DEF Begun, Targets
<1>3. run.shown[i] \in Text \cup {Null} BY <1>2, ElementOfSeq
<1>4. run.shown[i] \in ToSet(run.shown) BY <1>2, LenProperties DEF ToSet
<1>5. run.shown[i] \in Text
  <2>1. CASE run.req.tool = "patch" BY <1>3, <1>4, <2>1 DEF Rewrites, Tool
  <2>2. CASE run.req.tool = "write"
    <3>1. i = 1 BY <1>1, <2>2, Asked DEF Targets
    <3>2. QED BY <1>1, <2>2, <3>1 DEF ShowsText
  <2>3. QED BY <2>1, <2>2 DEF Rewrites, Tool
<1>6. Tool(r) # "trash" /\ Tool(r) # "edit" /\ ~ (Tool(r) = "write" /\ run.req.flag) BY DEF Rewrites
<1>7. Outcomes(r, i) = Prefixes(run.shown[i]) BY <1>6 DEF Outcomes
<1>8. QED BY <1>5, <1>7

\* A prefix of a text is a text; the text is one, and so is the empty one.
LEMMA PrefixesAre ==
    ASSUME NEW text \in Text
    PROVE  Prefixes(text) \subseteq Text /\ text \in Prefixes(text) /\ <<>> \in Prefixes(text)
<1>1. Len(text) \in Nat /\ text = SubSeq(text, 1, Len(text)) BY LenProperties, SubSeqFull DEF Text
<1>2. ASSUME NEW l \in 0 .. Len(text) PROVE SubSeq(text, 1, l) \in Text
  BY <1>1, SubSeqProperties DEF Text
<1>3. SubSeq(text, 1, 0) = <<>> BY SubSeqEmpty
<1>4. \A l \in 0 .. Len(text) : SubSeq(text, 1, l) \in Prefixes(text) BY Zenon DEF Prefixes
<1>5. Len(text) \in 0 .. Len(text) /\ 0 \in 0 .. Len(text) BY <1>1
<1>6. text \in Prefixes(text) BY <1>1, <1>4, <1>5, Zenon
<1>7. <<>> \in Prefixes(text) BY <1>3, <1>4, <1>5, Zenon
<1>8. Prefixes(text) \subseteq Text BY <1>2, Zenon DEF Prefixes
<1>9. QED BY <1>6, <1>7, <1>8

\* A target that is done: the call has done all, or goes on to the next one.
LEMMA WrittenWell ==
    ASSUME FileInv, NEW r \in Runs, NEW place \in {"approved", "trashing"}, runs[r].at # "ended",
           runs[r].at # "idle", SomeFirst(runs[r], runs[r].done),
           place = "approved" => runs[r].at = "filling",
           place = "trashing" => runs[r].at = "trashing" /\ runs[r].req.flag
    PROVE  RunInv([runs[r] EXCEPT !.done = @ \cup {Current(r)},
                      !.at = IF Current(r) = Len(Targets(r)) THEN "ended" ELSE place,
                      !.result = IF Current(r) = Len(Targets(r)) THEN "ok" ELSE Null])
<1> DEFINE run == runs[r]
           k == Current(r)
           n == Len(Targets(r))
           to == [run EXCEPT !.done = @ \cup {k}, !.at = IF k = n THEN "ended" ELSE place,
                             !.result = IF k = n THEN "ok" ELSE Null]
<1>1. Begun(run) /\ Place(run) /\ ShowsText(run) /\ run.req \in Requests /\ run.result = Null
  BY NotIdle DEF Begun
<1>2. k \in 1 .. n /\ n \in Nat /\ run.done \cup {k} = 1 .. k /\ n = Len(run.req.targets)
  BY CurrentIs DEF Targets
<1> HIDE DEF k, n
<1>3. CASE k = n
  <2>1. RunInv([run EXCEPT !.at = "ended", !.result = "ok", !.done = run.done \cup {k}])
    BY <1>1, <1>2, <1>3, EndsDone
  <2>2. to = [run EXCEPT !.at = "ended", !.result = "ok", !.done = run.done \cup {k}]
    BY <1>1, <1>3 DEF Begun
  <2>3. QED BY <2>1, <2>2 DEF k, n
<1>4. CASE k # n
  <2>1. /\ to \in [at : Places \ {"idle"}, req : Requests, shown : Seq(Text \cup {Null}),
                   read : SUBSET Nat, done : SUBSET Nat, result : Results]
        /\ to.at = place /\ to.result = Null /\ to.req = run.req /\ to.shown = run.shown
        /\ to.read = run.read /\ to.done = 1 .. k
    <3>1. run.done \cup {k} = 1 .. k /\ 1 .. k \in SUBSET Nat BY <1>2
    <3>2. QED BY <1>1, <1>4, <3>1 DEF Begun, Places, Results
  <2>2. run.req.tool # "write"
    <3>1. run.req.tool = "write" => n = 1 BY <1>1, <1>2, Asked
    <3>2. n = 1 => k = n
      <4>1. k \in 1 .. n BY <1>2
      <4>2. QED BY <4>1
    <3>3. QED BY <1>4, <3>1, <3>2
  <2> HIDE DEF to
  <2>3. Begun(to)
    <3>1. 1 .. k \subseteq 1 .. n BY <1>2
    <3>2. QED BY <1>1, <1>2, <2>1, <3>1 DEF Begun
  <2>4. SomeFirst(to, to.done)
    <3>1. k \in 0 .. n - 1 BY <1>2, <1>4
    <3>2. QED BY <1>2, <2>1, <3>1 DEF SomeFirst
  <2>5. Place(to) BY <1>1, <2>1 DEF Place
  <2>6. to.req.tool # "edit" /\ to.req.tool # "write"
    <3>1. CASE place = "approved" BY <1>1, <2>1, <2>2, <3>1 DEF Place
    <3>2. CASE place = "trashing" BY <1>1, <2>1, <3>2 DEF Place
    <3>3. QED BY <3>1, <3>2
  <2>7. ShowsText(to) BY <2>6 DEF ShowsText
  <2>8. Progress(to)
    <3>1. CASE place = "approved"
      <4>1. run.req.tool = "patch" /\ Null \notin ToSet(run.shown) BY <1>1, <2>2, <3>1 DEF Place
      <4>2. QED BY <2>1, <2>4, <3>1, <4>1 DEF Progress
    <3>2. CASE place = "trashing" BY <2>1, <2>4, <3>2 DEF Progress
    <3>3. QED BY <3>1, <3>2
  <2>9. Report(to) BY <2>1, FileToolsAssumption DEF Report, Endings
  <2>10. RunInv(to) BY <2>3, <2>5, <2>7, <2>8, <2>9 DEF RunInv
  <2>11. QED BY <2>10 DEF to, k, n
<1>5. QED BY <1>3, <1>4

\* An opened file is empty.
LEMMA OpenFileMoves == ASSUME FileInv, NEW r \in Runs, OpenFile(r) PROVE Moves(r) /\ AsShown(r)
<1> DEFINE run == runs[r]
           to == [run EXCEPT !.at = "filling"]
<1>1. run.at = "approved" /\ Rewrites(r) /\ disk \in [Paths -> Text \cup {Null}]
  BY DEF OpenFile, At, FileInv
<1>2. Begun(run) /\ ShowsText(run) /\ Progress(run) /\ SomeFirst(run, run.done)
  BY <1>1, NotIdle DEF Progress
<1>3. CASE disk' = [disk EXCEPT ![PathOf(r)] = <<>>] /\ Goes(r, "filling")
  <2>1. to.at = "filling" /\ to.req = run.req /\ to.shown = run.shown /\ to.read = run.read /\ to.done = run.done
    BY <1>2 DEF Begun
  <2>2. Place(to) /\ ShowsText(to) /\ Progress(to)
    <3> HIDE DEF to
    <3>1. Place(to) BY <1>1, <2>1 DEF Place, Rewrites, Tool
    <3>2. ShowsText(to) BY <1>1, <1>2, <2>1 DEF ShowsText
    <3>3. Progress(to) BY <1>2, <2>1 DEF Progress, SomeFirst
    <3>4. QED BY <3>1, <3>2, <3>3
  <2>3. RunInv(to) BY <1>1, <1>2, <2>2, GoesWell DEF Places
  <2>4. Current(r) \in 1 .. Len(Targets(r)) BY <1>1, <1>2, CurrentIs
  <2>5. <<>> \in Outcomes(r, Current(r)) /\ <<>> \in Text
    BY <1>1, <2>4, RewriteIsText, PrefixesAre DEF Text
  <2>6. disk' \in [Paths -> Text \cup {Null}] /\ AsShown(r)
    BY <1>1, <1>3, <2>4, <2>5, TargetChanges DEF PathOf
  <2>7. QED BY <1>3, <2>3, <2>6, Zenon DEF Moves, Goes
<1>4. CASE Ends(r, "thrown") /\ disk' = disk
  <2>1. Moves(r) BY <1>1, <1>4, EndsMoves
  <2>2. QED BY <1>4, <2>1, NothingChanges
<1>5. QED BY <1>3, <1>4, Zenon DEF OpenFile

\* A filled file has what was shown, or a part of it.
LEMMA FillFileMoves == ASSUME FileInv, NEW r \in Runs, FillFile(r) PROVE Moves(r) /\ AsShown(r)
<1> DEFINE run == runs[r]
           text == run.shown[Current(r)]
<1>1. run.at = "filling" /\ disk \in [Paths -> Text \cup {Null}] BY DEF FillFile, At, FileInv
<1>2. Begun(run) /\ Place(run) /\ Progress(run) /\ SomeFirst(run, run.done) BY <1>1, NotIdle DEF Progress
<1>3. Current(r) \in 1 .. Len(Targets(r)) BY <1>1, <1>2, CurrentIs
<1>4. text \in Text /\ Outcomes(r, Current(r)) = Prefixes(text)
  <2>1. Rewrites(r) BY <1>1, <1>2 DEF Place, Rewrites, Tool
  <2>2. QED BY <1>1, <1>3, <2>1, RewriteIsText
<1> HIDE DEF text
<1>5. RunInv(Written(r)) BY <1>1, <1>2, WrittenWell, Zenon DEF Written
<1>6. ASSUME NEW written \in Prefixes(text), disk' = [disk EXCEPT ![PathOf(r)] = written]
      PROVE  disk' \in [Paths -> Text \cup {Null}] /\ AsShown(r)
  <2>1. written \in Text BY <1>4, PrefixesAre
  <2> DEFINE i == Current(r)
  <2>2. i \in 1 .. Len(Targets(r)) /\ written \in Outcomes(r, i) BY <1>3, <1>4
  <2>3. disk' = [disk EXCEPT ![Targets(r)[i].path] = written] BY <1>6, Zenon DEF PathOf
  <2> HIDE DEF i
  <2>4. written \in Text \cup {Null} /\ run.at \notin {"idle", "reading", "asking"} BY <1>1, <2>1
  <2>5. QED BY <2>2, <2>3, <2>4, TargetChanges
<1>7. CASE disk' = [disk EXCEPT ![PathOf(r)] = text] /\ Step(r, Written(r))
  <2>1. text \in Prefixes(text) BY <1>4, PrefixesAre
  <2>2. QED BY <1>5, <1>6, <1>7, <2>1, Zenon DEF Moves
<1>8. CASE disk' = disk /\ Step(r, Written(r))
  <2>1. Moves(r) BY <1>1, <1>5, <1>8, Zenon DEF Moves
  <2>2. QED BY <1>8, <2>1, NothingChanges
<1>9. CASE (\E written \in Prefixes(text) : disk' = [disk EXCEPT ![PathOf(r)] = written]) /\ Ends(r, "thrown")
  <2>1. disk' \in [Paths -> Text \cup {Null}] /\ AsShown(r) BY <1>6, <1>9, Zenon
  <2>2. Moves(r) BY <1>1, <1>9, <2>1, EndsMoves
  <2>3. QED BY <2>1, <2>2
<1>10. QED BY <1>7, <1>8, <1>9, Zenon DEF FillFile, text

\* An append puts what was shown after what the file holds.
LEMMA AppendFileMoves == ASSUME FileInv, NEW r \in Runs, AppendFile(r) PROVE Moves(r) /\ AsShown(r)
<1> DEFINE run == runs[r]
           path == Targets(r)[1].path
           text == TextAt(path) \o run.shown[1]
<1>1. run.at = "approved" /\ run.req.tool = "write" /\ run.req.flag /\ disk \in [Paths -> Text \cup {Null}]
  BY DEF AppendFile, At, Tool, FileInv
<1>2. Begun(run) /\ ShowsText(run) /\ Progress(run) /\ SomeFirst(run, run.done) /\ run.req \in Requests
  BY <1>1, NotIdle DEF Progress
<1>3. Len(Targets(r)) = 1 /\ path \in Paths /\ run.shown[1] \in Text
  BY <1>1, <1>2, Asked DEF Targets, ShowsText
<1>4. Current(r) = 1
  <2>1. Current(r) \in 1 .. 1 BY <1>1, <1>2, <1>3, CurrentIs
  <2>2. QED BY <2>1
<1>5. TextAt(path) \in Text
  <2>1. disk[path] \in Text \cup {Null} /\ <<>> \in Text BY <1>1, <1>3 DEF Text
  <2>2. QED BY <2>1 DEF TextAt
<1>6. text \in Text BY <1>3, <1>5, ConcatProperties DEF Text
<1>7. Outcomes(r, 1) = {text} BY <1>1 DEF Outcomes, Tool
<1>8. CASE /\ disk' = [disk EXCEPT ![PathOf(r)] = text]
           /\ Step(r, [run EXCEPT !.at = "ended", !.result = "ok", !.done = {1}])
  <2>1. {1} = 1 .. Len(run.req.targets) BY <1>3 DEF Targets
  <2>2. RunInv([run EXCEPT !.at = "ended", !.result = "ok", !.done = {1}]) BY <1>2, <2>1, EndsDone
  <2>3. disk' = [disk EXCEPT ![path] = text] BY <1>4, <1>8, Zenon DEF PathOf
  <2>4. 1 \in 1 .. Len(Targets(r)) BY <1>3
  <2>5. disk' \in [Paths -> Text \cup {Null}] /\ AsShown(r)
    <3> HIDE DEF text
    <3>1. QED BY <1>1, <1>6, <1>7, <2>3, <2>4, TargetChanges
  <2>6. QED BY <1>8, <2>2, <2>5, Zenon DEF Moves
<1>9. CASE Ends(r, "thrown") /\ disk' = disk
  <2>1. Moves(r) BY <1>1, <1>9, EndsMoves
  <2>2. QED BY <1>9, <2>1, NothingChanges
<1>10. /\ disk' = [disk EXCEPT ![PathOf(r)] = TextAt(PathOf(r)) \o run.shown[1]] => disk' = [disk EXCEPT ![PathOf(r)] = text]
  BY <1>4, Zenon DEF PathOf
<1> HIDE DEF text
<1>11. QED BY <1>8, <1>9, <1>10, Zenon DEF AppendFile

\* A trash looks at one path after the other.
LEMMA StatPathMoves == ASSUME FileInv, NEW r \in Runs, StatPath(r) PROVE Moves(r)
<1> DEFINE run == runs[r]
           n == Len(Targets(r))
           i == Cardinality(run.read) + 1
           to == [run EXCEPT !.read = @ \cup {i}, !.at = IF i = n THEN "trashing" ELSE @]
<1>1. run.at = "approved" /\ run.req.tool = "trash" /\ disk' = disk /\ disk \in [Paths -> Text \cup {Null}]
  BY DEF StatPath, At, Tool, FilesStay, FileInv
<1>2. Begun(run) /\ Progress(run) /\ run.done = {} /\ SomeFirst(run, run.read) /\ run.req \in Requests /\ run.result = Null
  BY <1>1, NotIdle DEF Progress, Begun
<1>3. i \in 1 .. n /\ n \in Nat /\ run.read \cup {i} = 1 .. i
  <2>1. PICK k \in 0 .. n - 1 : run.read = 1 .. k BY <1>2 DEF SomeFirst, Targets
  <2>2. n \in Nat BY <1>2, Asked DEF Targets
  <2>3. Cardinality(1 .. k) = k BY <2>1, <2>2, FS_Interval
  <2>4. i = k + 1 BY <2>1, <2>3
  <2>5. 1 .. k \cup {k + 1} = 1 .. k + 1 BY <2>1, <2>2
  <2>6. QED BY <2>1, <2>2, <2>4, <2>5
<1>4. CASE Ends(r, "path not found") BY <1>1, <1>2, <1>4, EndsMoves
<1>5. CASE Step(r, to)
  <2> HIDE DEF i, n
  <2>1. /\ to \in [at : Places \ {"idle"}, req : Requests, shown : Seq(Text \cup {Null}),
                   read : SUBSET Nat, done : SUBSET Nat, result : Results]
        /\ to.at = IF i = n THEN "trashing" ELSE "approved"
        /\ to.result = Null /\ to.req = run.req /\ to.shown = run.shown
        /\ to.read = 1 .. i /\ to.done = {}
    <3>1. run.read \cup {i} = 1 .. i /\ 1 .. i \in SUBSET Nat BY <1>3
    <3>2. QED BY <1>1, <1>2, <3>1 DEF Begun, Places
  <2> HIDE DEF to
  <2>2. 1 .. i \subseteq 1 .. n /\ n = Len(run.req.targets) BY <1>3 DEF n, Targets
  <2>3. Begun(to) BY <1>2, <2>1, <2>2 DEF Begun
  <2>4. Place(to) /\ ShowsText(to) BY <1>1, <2>1 DEF Place, ShowsText
  <2>5. i # n => SomeFirst(to, 1 .. i)
    <3>1. i # n => i \in 0 .. n - 1 BY <1>3
    <3>2. QED BY <2>1, <2>2, <3>1, Zenon DEF SomeFirst
  <2>6. SomeFirst(to, {})
    <3>1. 0 \in 0 .. n - 1 /\ {} = 1 .. 0 BY <1>3
    <3>2. QED BY <2>1, <2>2, <3>1, Zenon DEF SomeFirst
  <2>7. Progress(to) BY <1>1, <2>1, <2>5, <2>6 DEF Progress
  <2>8. Report(to) BY <2>1, FileToolsAssumption DEF Report, Endings
  <2>9. QED BY <1>1, <1>5, <2>3, <2>4, <2>7, <2>8 DEF Moves, RunInv
<1>6. QED BY <1>4, <1>5, Zenon DEF StatPath

\* A trash of one path, where they go one by one.
LEMMA TrashOneMoves == ASSUME FileInv, NEW r \in Runs, TrashOne(r) PROVE Moves(r) /\ AsShown(r)
<1> DEFINE run == runs[r]
           i == Current(r)
           to == [run EXCEPT !.done = @ \cup {Current(r)},
                     !.at = IF Current(r) = Len(Targets(r)) THEN "ended" ELSE "trashing",
                     !.result = IF Current(r) = Len(Targets(r)) THEN "ok" ELSE Null]
           written == [Written(r) EXCEPT !.at = IF @ = "approved" THEN "trashing" ELSE @]
<1>1. run.at = "trashing" /\ run.req.flag /\ disk \in [Paths -> Text \cup {Null}]
  BY DEF TrashOne, At, FileInv
<1>2. Begun(run) /\ Place(run) /\ Progress(run) /\ run.req.tool = "trash"
  BY <1>1, NotIdle DEF Place
<1>3. SomeFirst(run, run.done) BY <1>1, <1>2 DEF Progress
<1>4. i \in 1 .. Len(Targets(r)) BY <1>1, <1>3, CurrentIs
<1>5. Null \in Outcomes(r, i) BY <1>2 DEF Outcomes, Tool
<1>6. CASE disk' = [disk EXCEPT ![PathOf(r)] = Null] /\ Step(r, written)
  <2>1. RunInv(to) BY <1>1, <1>3, WrittenWell
  <2>2. written = to BY <1>2 DEF Written, Begun
  <2>3. disk' = [disk EXCEPT ![Targets(r)[i].path] = Null] BY <1>6, Zenon DEF PathOf
  <2> HIDE DEF i, to, written
  <2>4. disk' \in [Paths -> Text \cup {Null}] /\ AsShown(r) BY <1>1, <1>4, <1>5, <2>3, TargetChanges
  <2>5. QED BY <1>6, <2>1, <2>2, <2>4, Zenon DEF Moves
<1>7. CASE disk' = disk /\ \E result \in {"failed", "thrown"} : Ends(r, result)
  <2>1. Moves(r)
    <3>1. PICK result \in {"failed", "thrown"} : Ends(r, result) BY <1>7
    <3>2. QED BY <1>1, <1>7, <3>1, EndsMoves
  <2>2. QED BY <1>7, <2>1, NothingChanges
<1>8. QED BY <1>6, <1>7, Zenon DEF TrashOne

\* The platform's command takes away some of the targets.
LEMMA TrashManyMoves ==
    ASSUME FileInv, NEW r \in Runs, NEW place \in {"trashing", "trashing again"}, NEW failed,
           TrashMany(r, place, failed),
           \A done \in SUBSET (1 .. Len(Targets(r))) :
               runs[r].at = place => RunInv([failed EXCEPT !.done = @ \cup done])
    PROVE  Moves(r) /\ AsShown(r)
<1> DEFINE run == runs[r]
           Hit(p, gone) == \E i \in gone : Targets(r)[i].path = p
<1>1. run.at = place /\ disk \in [Paths -> Text \cup {Null}] BY DEF TrashMany, At, FileInv
<1>2. Begun(run) /\ Place(run) /\ run.req \in Requests /\ run.req.tool = "trash"
  BY <1>1, NotIdle DEF Place
<1>3. DOMAIN Targets(r) = 1 .. Len(Targets(r)) BY <1>2, Asked DEF Targets
<1>4. PICK gone \in SUBSET DOMAIN Targets(r) :
          /\ disk' = [p \in Paths |-> IF Hit(p, gone) THEN Null ELSE disk[p]]
          /\ \/ gone = DOMAIN Targets(r) /\ Step(r, [run EXCEPT !.at = "ended", !.result = "ok", !.done = gone])
             \/ Step(r, [failed EXCEPT !.done = @ \cup gone])
  BY Zenon DEF TrashMany
<1>5. disk' \in [Paths -> Text \cup {Null}]
  <2> HIDE DEF Hit
  <2>1. QED BY <1>1, <1>4
<1>6. AsShown(r)
  <2>1. ASSUME NEW p \in Paths, disk'[p] # disk[p] PROVE Hit(p, gone) /\ disk'[p] = Null
    <3> HIDE DEF Hit
    <3>1. QED BY <1>1, <1>4, <2>1
  <2>2. \A i \in DOMAIN Targets(r) : Null \in Outcomes(r, i) BY <1>2 DEF Outcomes, Tool
  <2>3. ASSUME NEW p \in Paths, disk'[p] # disk[p]
        PROVE  \E i \in DOMAIN Targets(r) : Targets(r)[i].path = p /\ disk'[p] \in Outcomes(r, i)
    <3>1. PICK i \in gone : Targets(r)[i].path = p BY <2>1, <2>3
    <3>2. i \in DOMAIN Targets(r) BY <1>4
    <3>3. disk'[p] = Null BY <2>1, <2>3
    <3>4. QED BY <2>2, <3>1, <3>2, <3>3
  <2>4. run.at \notin {"idle", "reading", "asking"} BY <1>1
  <2>5. QED BY <2>3, <2>4, Zenon DEF AsShown
<1>7. CASE gone = DOMAIN Targets(r) /\ Step(r, [run EXCEPT !.at = "ended", !.result = "ok", !.done = gone])
  <2>1. RunInv([run EXCEPT !.at = "ended", !.result = "ok", !.done = gone])
    BY <1>2, <1>3, <1>7, EndsDone DEF Targets
  <2>2. QED BY <1>5, <1>6, <1>7, <2>1, Zenon DEF Moves
<1>8. CASE Step(r, [failed EXCEPT !.done = @ \cup gone])
  <2>1. RunInv([failed EXCEPT !.done = @ \cup gone]) BY <1>1, <1>3, Zenon
  <2>2. QED BY <1>5, <1>6, <1>8, <2>1, Zenon DEF Moves
<1>9. QED BY <1>4, <1>7, <1>8

\* A first command for all the paths.
LEMMA GioTrashMoves == ASSUME FileInv, NEW r \in Runs, GioTrash(r) PROVE Moves(r) /\ AsShown(r)
<1> DEFINE run == runs[r]
           failed == [run EXCEPT !.at = "trashing again"]
<1>1. ASSUME NEW done \in SUBSET (1 .. Len(Targets(r))), run.at = "trashing"
      PROVE  RunInv([failed EXCEPT !.done = @ \cup done])
  <2> DEFINE to == [failed EXCEPT !.done = @ \cup done]
  <2>1. Begun(run) /\ Place(run) /\ ~run.req.flag /\ run.req.tool = "trash" /\ run.result = Null /\ run.req \in Requests
    BY <1>1, NotIdle DEF GioTrash, TrashMany, Place, Begun
  <2>2. Len(run.req.targets) \in Nat BY <2>1, Asked
  <2>3. /\ to \in [at : Places \ {"idle"}, req : Requests, shown : Seq(Text \cup {Null}),
                   read : SUBSET Nat, done : SUBSET Nat, result : Results]
        /\ to.at = "trashing again" /\ to.result = Null /\ to.req = run.req /\ to.shown = run.shown
        /\ to.read = run.read /\ to.done = run.done \cup done
    <3>0. done \in SUBSET Nat /\ run.done \in SUBSET Nat BY <2>1, <2>2 DEF Begun, Targets
    <3>1. run.done \cup done \in SUBSET Nat BY <3>0
    <3>2. QED BY <1>1, <2>1, <3>1 DEF Begun, Places
  <2> HIDE DEF to
  <2>4. Begun(to) BY <2>1, <2>3 DEF Begun, Targets
  <2>5. Place(to) /\ ShowsText(to) /\ Progress(to) BY <2>1, <2>3 DEF Place, ShowsText, Progress
  <2>6. Report(to) BY <2>3, FileToolsAssumption DEF Report, Endings
  <2>7. QED BY <2>4, <2>5, <2>6 DEF RunInv, to
<1> HIDE DEF failed
<1>2. TrashMany(r, "trashing", failed) BY DEF GioTrash, failed
<1>3. QED BY <1>1, <1>2, TrashManyMoves

\* A second one where the first has failed.
LEMMA TrashPutMoves == ASSUME FileInv, NEW r \in Runs, TrashPut(r) PROVE Moves(r) /\ AsShown(r)
<1> DEFINE run == runs[r]
           failed == [run EXCEPT !.at = "ended", !.result = "failed"]
<1>1. ASSUME NEW done \in SUBSET (1 .. Len(Targets(r))), run.at = "trashing again"
      PROVE  RunInv([failed EXCEPT !.done = @ \cup done])
  <2> DEFINE to == [failed EXCEPT !.done = @ \cup done]
  <2>1. Begun(run) /\ run.req \in Requests BY <1>1, NotIdle
  <2>2. Len(run.req.targets) \in Nat BY <2>1, Asked
  <2>3. /\ to \in [at : Places \ {"idle"}, req : Requests, shown : Seq(Text \cup {Null}),
                   read : SUBSET Nat, done : SUBSET Nat, result : Results]
        /\ to.at = "ended" /\ to.result = "failed" /\ to.req = run.req /\ to.shown = run.shown
        /\ to.read = run.read /\ to.done = run.done \cup done
    <3>0. done \in SUBSET Nat /\ run.done \in SUBSET Nat BY <2>1, <2>2 DEF Begun, Targets
    <3>1. run.done \cup done \in SUBSET Nat BY <3>0
    <3>2. QED BY <2>1, <3>1 DEF Begun, Places, Results, Endings
  <2> HIDE DEF to
  <2>4. "failed" # Null BY FileToolsAssumption DEF Endings
  <2>5. Begun(to) BY <2>1, <2>3, <2>4 DEF Begun, Targets
  <2>6. Place(to) /\ ShowsText(to) /\ Progress(to) BY <2>3 DEF Place, ShowsText, Progress
  <2>7. Report(to) BY <2>3 DEF Report
  <2>8. QED BY <2>5, <2>6, <2>7 DEF RunInv, to
<1> HIDE DEF failed
<1>2. TrashMany(r, "trashing again", failed) BY DEF TrashPut, failed
<1>3. QED BY <1>1, <1>2, TrashManyMoves

-----------------------------------------------------------------------------
(* Every step of every call, and of the others.                             *)

\* The steps that have to do with no temporary file.
PlainStep(r) ==
    \/ \E req \in Requests : Call(r, req)
    \/ ReadForEdit(r) \/ PatchIsRead(r)
    \/ \E i \in DOMAIN runs[r].shown : DryRunFile(r, i)
    \/ Approve(r) \/ Deny(r)
    \/ RefusePatch(r) \/ OpenFile(r) \/ FillFile(r) \/ AppendFile(r)
    \/ StatPath(r) \/ TrashOne(r) \/ GioTrash(r) \/ TrashPut(r)

TempStep(r) == WriteTemp(r) \/ Rename(r) \/ Unlink(r)

\* Each of these steps moves its call, and changes what was approved.
LEMMA PlainStepMoves ==
    ASSUME FileInv, NEW r \in Runs, PlainStep(r) PROVE Moves(r) /\ AsShown(r)
<1>1. ASSUME disk' = disk, Moves(r) PROVE Moves(r) /\ AsShown(r) BY <1>1, NothingChanges
<1>2. CASE \E req \in Requests : Call(r, req)
  <2>1. PICK req \in Requests : Call(r, req) BY <1>2
  <2>2. disk' = disk BY <2>1 DEF Call, FilesStay
  <2>3. QED BY <1>1, <2>1, <2>2, CallMoves
<1>3. CASE ReadForEdit(r)
  <2>1. disk' = disk BY <1>3 DEF ReadForEdit, FilesStay
  <2>2. QED BY <1>1, <1>3, <2>1, ReadForEditMoves
<1>4. CASE PatchIsRead(r)
  <2>1. disk' = disk BY <1>4 DEF PatchIsRead, FilesStay
  <2>2. QED BY <1>1, <1>4, <2>1, PatchIsReadMoves
<1>5. CASE \E i \in DOMAIN runs[r].shown : DryRunFile(r, i)
  <2>1. PICK i \in DOMAIN runs[r].shown : DryRunFile(r, i) BY <1>5
  <2>2. disk' = disk BY <2>1 DEF DryRunFile, FilesStay
  <2>3. QED BY <1>1, <2>1, <2>2, DryRunFileMoves
<1>6. CASE Approve(r)
  <2>1. disk' = disk BY <1>6 DEF Approve, FilesStay
  <2>2. QED BY <1>1, <1>6, <2>1, ApproveMoves
<1>7. CASE Deny(r)
  <2>1. disk' = disk BY <1>7 DEF Deny, FilesStay
  <2>2. QED BY <1>1, <1>7, <2>1, DenyMoves
<1>8. CASE RefusePatch(r)
  <2>1. disk' = disk BY <1>8 DEF RefusePatch, FilesStay
  <2>2. QED BY <1>1, <1>8, <2>1, RefusePatchMoves
<1>9. CASE StatPath(r)
  <2>1. disk' = disk BY <1>9 DEF StatPath, FilesStay
  <2>2. QED BY <1>1, <1>9, <2>1, StatPathMoves
<1>10. CASE OpenFile(r) BY <1>10, OpenFileMoves
<1>11. CASE FillFile(r) BY <1>11, FillFileMoves
<1>12. CASE AppendFile(r) BY <1>12, AppendFileMoves
<1>13. CASE TrashOne(r) BY <1>13, TrashOneMoves
<1>14. CASE GioTrash(r) BY <1>14, GioTrashMoves
<1>15. CASE TrashPut(r) BY <1>15, TrashPutMoves
<1>16. QED
  BY <1>2, <1>3, <1>4, <1>5, <1>6, <1>7, <1>8, <1>9, <1>10, <1>11, <1>12, <1>13, <1>14, <1>15, Zenon
     DEF PlainStep

\* So does each step of a temporary file.
LEMMA TempStepMoves ==
    ASSUME FileInv, NEW r \in Runs, TempStep(r) PROVE Moves(r) /\ AsShown(r)
<1>1. CASE WriteTemp(r)
  <2>1. disk' = disk BY <1>1 DEF WriteTemp
  <2>2. QED BY <1>1, <2>1, WriteTempMoves, NothingChanges
<1>2. CASE Rename(r) BY <1>2, RenameMoves
<1>3. CASE Unlink(r)
  <2>1. disk' = disk BY <1>3 DEF Unlink
  <2>2. QED BY <1>3, <2>1, UnlinkMoves, NothingChanges
<1>4. QED BY <1>1, <1>2, <1>3 DEF TempStep

\* What stays in these steps, and what is counted.
LEMMA PlainStepKeeps ==
    ASSUME NEW r, PlainStep(r)
    PROVE  /\ temps' = temps /\ crashes' = crashes /\ others' = others
           /\ faults' = faults \/ faults' = faults + 1
<1>1. ASSUME \E req \in Requests : Call(r, req)
      PROVE  temps' = temps /\ crashes' = crashes /\ others' = others /\ faults' = faults
  BY <1>1 DEF Call, FilesStay
<1>2. ASSUME ReadForEdit(r) \/ PatchIsRead(r) \/ \E i \in DOMAIN runs[r].shown : DryRunFile(r, i)
      PROVE  /\ temps' = temps /\ crashes' = crashes /\ others' = others
             /\ faults' = faults \/ faults' = faults + 1
  BY <1>2 DEF ReadForEdit, PatchIsRead, DryRunFile, FilesStay, Fault
<1>3. ASSUME Approve(r) \/ Deny(r) \/ RefusePatch(r) \/ StatPath(r)
      PROVE  /\ temps' = temps /\ crashes' = crashes /\ others' = others
             /\ faults' = faults \/ faults' = faults + 1
  BY <1>3 DEF Approve, Deny, RefusePatch, StatPath, FilesStay
<1>4. ASSUME OpenFile(r) \/ FillFile(r) \/ AppendFile(r) \/ TrashOne(r)
      PROVE  /\ temps' = temps /\ crashes' = crashes /\ others' = others
             /\ faults' = faults \/ faults' = faults + 1
  BY <1>4 DEF OpenFile, FillFile, AppendFile, TrashOne, Fault
<1>5. ASSUME NEW place, NEW failed, TrashMany(r, place, failed)
      PROVE  /\ temps' = temps /\ crashes' = crashes /\ others' = others
             /\ faults' = faults \/ faults' = faults + 1
  <2>1. temps' = temps /\ crashes' = crashes /\ others' = others BY <1>5 DEF TrashMany
  <2>2. UNCHANGED faults \/ Fault BY <1>5, Zenon DEF TrashMany
  <2>3. QED BY <2>1, <2>2 DEF Fault
<1>6. QED BY <1>1, <1>2, <1>3, <1>4, <1>5, Zenon DEF PlainStep, GioTrash, TrashPut

\* The same of the steps of a temporary file, which is the call's own.
LEMMA TempStepKeeps ==
    ASSUME NEW r, TempStep(r)
    PROVE  /\ temps' \in {temps, temps \cup {r}, temps \ {r}} /\ crashes' = crashes /\ others' = others
           /\ faults' = faults \/ faults' = faults + 1
<1>1. CASE WriteTemp(r) BY <1>1 DEF WriteTemp, Fault
<1>2. CASE Rename(r) BY <1>2 DEF Rename, Fault
<1>3. CASE Unlink(r) BY <1>3 DEF Unlink, Fault
<1>4. QED BY <1>1, <1>2, <1>3 DEF TempStep

\* A step is of one call, of another writer, or a crash.
LEMMA NextIs ==
    ASSUME Next
    PROVE  \/ \E r \in Runs : PlainStep(r) \/ TempStep(r)
           \/ \E p \in Paths, text \in Texts \cup {Null} : OtherWriter(p, text)
           \/ Crash
  BY Zenon DEF Next, PlainStep, TempStep

\* FileInv holds at first.
LEMMA FileInvStarts == Init => FileInv
<1>1. SUFFICES ASSUME Init PROVE FileInv OBVIOUS
<1>2. Texts \cup {Null} \subseteq Text \cup {Null} BY FileToolsAssumption DEF Text
<1>3. disk \in [Paths -> Text \cup {Null}] BY <1>1, <1>2 DEF Init
<1>4. \A r \in Runs : runs[r] = Idle BY <1>1 DEF Init
<1>5. runs = [r \in Runs |-> runs[r]] BY <1>1, <1>4 DEF Init
<1>6. IsFiniteSet({}) BY FS_EmptySet
<1>7. QED BY <1>1, <1>3, <1>4, <1>5, <1>6 DEF FileInv, Init, RunInv

\* And every step keeps it.
LEMMA FileInvIsKept == FileInv /\ [Next]_vars => FileInv'
<1>1. SUFFICES ASSUME FileInv, [Next]_vars PROVE FileInv' OBVIOUS
<1>2. ASSUME NEW r \in Runs, PlainStep(r) \/ TempStep(r) PROVE FileInv'
  <2>1. Moves(r) BY <1>1, <1>2, PlainStepMoves, TempStepMoves
  <2>2. PICK run : Step(r, run) /\ RunInv(run) BY <2>1, Zenon DEF Moves
  <2>3. runs' = [s \in Runs |-> runs'[s]] /\ \A s \in Runs : RunInv(runs'[s])
    BY <1>1, <2>2, OneMoves
  <2>4. /\ temps' \in {temps, temps \cup {r}, temps \ {r}} /\ crashes' = crashes /\ others' = others
        /\ faults' = faults \/ faults' = faults + 1
    BY <1>2, PlainStepKeeps, TempStepKeeps
  <2>5. temps' \in SUBSET Runs /\ faults' \in Nat /\ crashes' \in Nat /\ others' \in Nat
    BY <1>1, <2>4 DEF FileInv
  <2>6. IsFiniteSet(temps') BY <1>1, <2>4, FS_AddElement, FS_RemoveElement DEF FileInv
  <2>7. QED BY <2>1, <2>3, <2>5, <2>6, Zenon DEF FileInv, Moves
<1>3. ASSUME NEW p \in Paths, NEW text \in Texts \cup {Null}, OtherWriter(p, text) PROVE FileInv'
  <2>1. text \in Text \cup {Null} BY FileToolsAssumption DEF Text
  <2>2. disk' \in [Paths -> Text \cup {Null}] BY <1>1, <1>3, <2>1 DEF OtherWriter, FileInv
  <2>3. temps' = temps /\ runs' = runs /\ faults' = faults /\ crashes' = crashes /\ others' \in Nat
    BY <1>1, <1>3 DEF OtherWriter, FileInv
  <2>4. QED BY <1>1, <2>2, <2>3, Zenon DEF FileInv
<1>4. CASE Crash
  <2>1. disk' = disk /\ temps' = temps /\ faults' = faults /\ crashes' \in Nat /\ others' = others
    <3>1. UNCHANGED <<disk, temps, faults, others>> /\ crashes' = crashes + 1 BY <1>4, Zenon DEF Crash
    <3>2. QED BY <1>1, <3>1 DEF FileInv
  <2>2. runs' = [r \in Runs |-> IF runs[r].at \in {"idle", "ended"} THEN runs[r]
                               ELSE [runs[r] EXCEPT !.at = "ended", !.result = "died"]]
    BY <1>4, Zenon DEF Crash
  <2>3. ASSUME NEW r \in Runs PROVE RunInv(runs'[r])
    <3>1. CASE runs[r].at \in {"idle", "ended"} BY <1>1, <2>2, <3>1 DEF FileInv
    <3>2. CASE runs[r].at \notin {"idle", "ended"}
      <4>1. runs'[r] = [runs[r] EXCEPT !.at = "ended", !.result = "died"] BY <2>2, <3>2
      <4>2. RunInv([runs[r] EXCEPT !.at = "ended", !.result = "died"]) BY <1>1, <3>2, NotIdle, EndsWell
      <4>3. QED BY <4>1, <4>2
    <3>3. QED BY <3>1, <3>2
  <2>4. runs' = [r \in Runs |-> runs'[r]] BY <2>2
  <2>5. QED BY <1>1, <2>1, <2>3, <2>4, Zenon DEF FileInv
<1>5. CASE UNCHANGED vars BY <1>1, <1>5, Zenon DEF FileInv, vars
<1>6. QED BY <1>1, <1>2, <1>3, <1>4, <1>5, NextIs

-----------------------------------------------------------------------------
(* The theorems.                                                            *)

\* The file tools keep FileInv.
THEOREM FileToolsKeep == Spec => []FileInv
<1>1. Init => FileInv BY FileInvStarts
<1>2. FileInv /\ [Next]_vars => FileInv' BY FileInvIsKept
<1>3. QED BY <1>1, <1>2, PTL DEF Spec

\* Every variable of the file tools has its type, and a call has a result exactly when
\* it has ended.
THEOREM FileToolsTyped == Spec => []TypeOK
<1>1. FileInv => TypeOK
  <2>1. SUFFICES ASSUME FileInv PROVE TypeOK OBVIOUS
  <2>2. ASSUME NEW r \in Runs, runs[r] # Idle
        PROVE  /\ runs[r] \in [at : Places, req : Requests, shown : Seq(Seq(STRING) \cup {Null}),
                               read : SUBSET Nat, done : SUBSET Nat, result : Results]
               /\ Len(runs[r].shown) = Len(Targets(r))
               /\ runs[r].read \cup runs[r].done \subseteq DOMAIN Targets(r)
               /\ runs[r].at = "ended" <=> runs[r].result # Null
    <3>1. Begun(runs[r]) BY <2>1, <2>2 DEF FileInv, RunInv
    <3>2. runs[r].req \in Requests BY <3>1 DEF Begun
    <3>3. DOMAIN Targets(r) = 1 .. Len(runs[r].req.targets) BY <3>2, Asked DEF Targets
    <3>4. QED BY <3>1, <3>3 DEF Begun, Targets, Text
  <2>3. QED BY <2>1, <2>2, Zenon DEF FileInv, TypeOK, Text
<1>2. QED BY <1>1, FileToolsKeep, PTL

\* Of every text a file may hold the three loops of an edit agree, and every call has
\* done what it returns.
THEOREM FileReportsAreTrue == Spec => []ReportsTrue
<1>1. FileInv => ReportsTrue
  <2>1. SUFFICES ASSUME FileInv PROVE ReportsTrue OBVIOUS
  <2>2. CountsAgree
    <3>1. SUFFICES ASSUME NEW p \in Paths, NEW q \in Requests, disk[p] # Null, q.tool = "edit"
                   PROVE  LET change == q.targets[1]
                              count == CountOccurrences(disk[p], change.old)
                              all == ReplaceEvery(disk[p], change.old, change.new)
                          IN  /\ Len(all) = Len(disk[p]) + count * (Len(change.new) - Len(change.old))
                              /\ count <= 1 => all = ReplaceFirstSubSeq(change.new, change.old, disk[p])
      BY Zenon DEF CountsAgree
    <3>2. disk[p] \in Text BY <2>1, <3>1 DEF FileInv
    <3>3. q.targets[1].old \in Text /\ q.targets[1].old # <<>> /\ q.targets[1].new \in Text
      BY <3>1, Asked
    <3>4. QED BY <3>2, <3>3, LoopsAgree
  <2>3. ASSUME NEW r \in Runs
        PROVE  /\ runs[r].result = "ok" => runs[r].done = DOMAIN Targets(r)
               /\ runs[r].result \in {"dry-run", "apply-refused", "path not found"} => runs[r].done = {}
    <3>1. CASE runs[r] = Idle
      <4>1. runs[r].result = Null BY <3>1 DEF Idle
      <4>2. Null \notin {"ok", "dry-run", "apply-refused", "path not found"} BY FileToolsAssumption DEF Endings
      <4>3. QED BY <4>1, <4>2
    <3>2. CASE runs[r] # Idle
      <4>1. Begun(runs[r]) /\ Report(runs[r]) BY <2>1, <3>2 DEF FileInv, RunInv
      <4>2. runs[r].req \in Requests BY <4>1 DEF Begun
      <4>3. DOMAIN Targets(r) = 1 .. Len(runs[r].req.targets) BY <4>2, Asked DEF Targets
      <4>4. QED BY <4>1, <4>3 DEF Report
    <3>3. QED BY <3>1, <3>2
  <2>4. QED BY <2>2, <2>3 DEF ReportsTrue
<1>2. QED BY <1>1, FileToolsKeep, PTL

\* A step changes nothing but targets of an approved call, as they were approved.
LEMMA StepsAreApproved == FileInv /\ [Next]_vars =>
    [\A r \in Runs, p \in Paths :
          runs'[r] # runs[r] /\ disk'[p] # disk[p] =>
              /\ runs[r].at \notin {"idle", "reading", "asking"}
              /\ \E i \in DOMAIN Targets(r) :
                     Targets(r)[i].path = p /\ disk'[p] \in Outcomes(r, i)]_vars
<1> DEFINE Approved(r) == \A p \in Paths : runs'[r] # runs[r] /\ disk'[p] # disk[p] =>
              /\ runs[r].at \notin {"idle", "reading", "asking"}
              /\ \E i \in DOMAIN Targets(r) :
                     Targets(r)[i].path = p /\ disk'[p] \in Outcomes(r, i)
<1>1. SUFFICES ASSUME FileInv, Next, NEW r \in Runs PROVE Approved(r) BY Zenon
<1>2. ASSUME NEW s \in Runs, PlainStep(s) \/ TempStep(s) PROVE Approved(r)
  <2>1. Moves(s) /\ AsShown(s) BY <1>1, <1>2, PlainStepMoves, TempStepMoves
  <2>2. CASE s = r BY <2>1, <2>2, Zenon DEF AsShown
  <2>3. CASE s # r
    <3>1. PICK run : Step(s, run) /\ RunInv(run) BY <2>1, Zenon DEF Moves
    <3>2. runs'[r] = runs[r] BY <1>1, <2>3, <3>1, OneMoves
    <3>3. QED BY <3>2
  <2>4. QED BY <2>2, <2>3
<1>3. ASSUME NEW p \in Paths, NEW text \in Texts \cup {Null}, OtherWriter(p, text) PROVE Approved(r)
  <2>1. runs' = runs BY <1>3 DEF OtherWriter
  <2>2. QED BY <2>1
<1>4. CASE Crash
  <2>1. disk' = disk BY <1>4, Zenon DEF Crash
  <2>2. QED BY <2>1
<1> HIDE DEF Approved
<1>5. QED BY <1>1, <1>2, <1>3, <1>4, NextIs

\* A tool call changes nothing before its approval, and after it nothing but its targets,
\* into what it was approved for.
THEOREM FilesChangeAsApproved == Spec => AsApproved
<1>1. QED BY FileToolsKeep, StepsAreApproved, PTL DEF Spec, AsApproved

\* The temporary files that are left, and the ones that are to be removed.
Left == {r \in temps : runs[r].at = "ended"}
Removing == {r \in Runs : runs[r].at = "unlinking"}

\* A temporary file is of an edit that goes on or has ended.  One that is left took two
\* failing calls, and a call that is to remove one took one.
TempInv ==
    /\ \A r \in temps : runs[r].at \in {"renaming", "unlinking", "ended"}
    /\ IsFiniteSet(Removing)
    /\ crashes = 0 => 2 * Cardinality(Left) + Cardinality(Removing) <= faults

\* Where a call that takes a step goes, and that the others stay.
LEMMA StepGoes ==
    ASSUME FileInv, NEW r \in Runs, NEW run, Step(r, run)
    PROVE  runs'[r] = run /\ \A s \in Runs \ {r} : runs'[s] = runs[s]
<1>1. runs' = [runs EXCEPT ![r] = run] BY DEF Step
<1> DEFINE f == runs
<1>2. f = [s \in Runs |-> f[s]] BY Zenon DEF FileInv
<1> HIDE DEF f
<1>3. runs' = [f EXCEPT ![r] = run] BY <1>1 DEF f
<1>4. QED BY <1>2, <1>3 DEF f

\* A step that has to do with no temporary file is not of a call that has one.
LEMMA PlainStepPlaces ==
    ASSUME FileInv, NEW r \in Runs, PlainStep(r)
    PROVE  /\ runs[r].at \notin {"renaming", "unlinking", "ended"} /\ runs'[r].at # "unlinking"
           /\ \A s \in Runs \ {r} : runs'[s] = runs[s]
<1> DEFINE Fine == /\ runs[r].at \notin {"renaming", "unlinking", "ended"} /\ runs'[r].at # "unlinking"
                   /\ \A s \in Runs \ {r} : runs'[s] = runs[s]
           run == runs[r]
<1>1. ASSUME NEW to, Step(r, to), to.at # "unlinking", run.at \notin {"renaming", "unlinking", "ended"} PROVE Fine
  BY <1>1, StepGoes
<1>2. ASSUME run.at # "idle" PROVE Begun(run) BY <1>2, NotIdle
<1>3. ASSUME NEW place, place # "unlinking", Goes(r, place), run.at \notin {"idle", "renaming", "unlinking", "ended"}
      PROVE  Fine
  <2>1. [run EXCEPT !.at = place].at = place BY <1>2, <1>3 DEF Begun
  <2>2. QED BY <1>1, <1>3, <2>1, Zenon DEF Goes
<1>4. ASSUME NEW result, Ends(r, result), run.at \notin {"idle", "renaming", "unlinking", "ended"} PROVE Fine
  <2>1. [run EXCEPT !.at = "ended", !.result = result].at = "ended" BY <1>2, <1>4 DEF Begun
  <2>2. QED BY <1>1, <1>4, <2>1 DEF Ends
<1>0. SUFFICES Fine OBVIOUS
<1> HIDE DEF Fine
<1>5. ASSUME NEW req \in Requests, Call(r, req) PROVE Fine
  <2> DEFINE shown == [i \in DOMAIN req.targets |-> IF req.tool = "write" THEN req.targets[i].new ELSE Null]
             to == [Idle EXCEPT !.at = IF req.tool \in {"edit", "patch"} THEN "reading" ELSE "asking",
                                !.req = req, !.shown = shown]
  <2>1. Step(r, to) /\ run.at = "idle" BY <1>5, Zenon DEF Call, At
  <2> HIDE DEF shown
  <2>2. to.at # "unlinking" BY DEF Idle
  <2> HIDE DEF to
  <2>3. QED BY <1>1, <2>1, <2>2
<1>6. CASE ReadForEdit(r)
  <2> DEFINE seen(shown) == [run EXCEPT !.at = "asking", !.shown[1] = shown]
  <2>1. run.at = "reading" BY <1>6 DEF ReadForEdit, At
  <2>2. Ends(r, "thrown") \/ \E shown : Step(r, seen(shown)) BY <1>6, Zenon DEF ReadForEdit
  <2>3. \A shown : seen(shown).at = "asking" BY <1>2, <2>1 DEF Begun
  <2> HIDE DEF seen
  <2>4. CASE Ends(r, "thrown") BY <1>4, <2>1, <2>4
  <2>5. CASE \E shown : Step(r, seen(shown))
    <3>1. PICK shown : Step(r, seen(shown)) BY <2>5, Zenon
    <3>2. seen(shown).at # "unlinking" BY <2>3
    <3>3. QED BY <1>1, <2>1, <3>1, <3>2
  <2>6. QED BY <2>2, <2>4, <2>5
<1>7. CASE PatchIsRead(r) BY <1>3, <1>4, <1>7 DEF PatchIsRead, At
<1>8. ASSUME NEW i \in DOMAIN runs[r].shown, DryRunFile(r, i) PROVE Fine
  <2> DEFINE patched == ApplyPatch(TextAt(Targets(r)[i].path), Targets(r)[i])
             one == [run EXCEPT !.read = @ \cup {i}, !.shown[i] = patched]
             two == [run EXCEPT !.read = @ \cup {i}]
  <2>1. run.at = "reading" /\ (Step(r, one) \/ Step(r, two)) BY <1>8, Zenon DEF DryRunFile, At
  <2> HIDE DEF patched
  <2>2. one.at = "reading" /\ two.at = "reading" BY <1>2, <2>1 DEF Begun
  <2> HIDE DEF one, two
  <2>3. QED BY <1>1, <2>1, <2>2
<1>9. CASE Approve(r) BY <1>3, <1>9 DEF Approve, At
<1>10. CASE Deny(r) BY <1>4, <1>10 DEF Deny, At
<1>11. CASE RefusePatch(r) BY <1>4, <1>11 DEF RefusePatch, At
<1>12. CASE OpenFile(r) BY <1>3, <1>4, <1>12 DEF OpenFile, At
<1>13. ASSUME run.at # "idle" PROVE Written(r).at \in {"ended", "approved"} BY <1>2, <1>13 DEF Written, Begun
<1>14. CASE FillFile(r)
  <2>1. run.at = "filling" /\ (Step(r, Written(r)) \/ Ends(r, "thrown")) BY <1>14, Zenon DEF FillFile, At
  <2>2. Written(r).at # "unlinking" BY <1>13, <2>1
  <2>3. QED BY <1>1, <1>4, <2>1, <2>2
<1>15. CASE AppendFile(r)
  <2> DEFINE to == [run EXCEPT !.at = "ended", !.result = "ok", !.done = {1}]
  <2>1. run.at = "approved" /\ (Step(r, to) \/ Ends(r, "thrown")) BY <1>15, Zenon DEF AppendFile, At
  <2>2. to.at = "ended" BY <1>2, <2>1 DEF Begun
  <2> HIDE DEF to
  <2>3. QED BY <1>1, <1>4, <2>1, <2>2
<1>16. CASE StatPath(r)
  <2> DEFINE i == Cardinality(run.read) + 1
             to == [run EXCEPT !.read = @ \cup {i}, !.at = IF i = Len(Targets(r)) THEN "trashing" ELSE @]
  <2>1. run.at = "approved" /\ (Step(r, to) \/ Ends(r, "path not found")) BY <1>16, Zenon DEF StatPath, At
  <2> HIDE DEF i
  <2>2. to.at # "unlinking" BY <1>2, <2>1 DEF Begun
  <2> HIDE DEF to
  <2>3. QED BY <1>1, <1>4, <2>1, <2>2
<1>17. CASE TrashOne(r)
  <2> DEFINE to == [Written(r) EXCEPT !.at = IF @ = "approved" THEN "trashing" ELSE @]
  <2>1. run.at = "trashing" /\ (Step(r, to) \/ \E result : Ends(r, result)) BY <1>17, Zenon DEF TrashOne, At
  <2>2. to.at # "unlinking" BY <1>2, <2>1 DEF Begun, Written
  <2> HIDE DEF to
  <2>3. QED BY <1>1, <1>4, <2>1, <2>2
<1>18. ASSUME NEW place, NEW failed, TrashMany(r, place, failed), place \in {"trashing", "trashing again"},
              run.at = place => \A done : [failed EXCEPT !.done = @ \cup done].at # "unlinking"
       PROVE  Fine
  <2> DEFINE one(gone) == [run EXCEPT !.at = "ended", !.result = "ok", !.done = gone]
             two(gone) == [failed EXCEPT !.done = @ \cup gone]
  <2>1. run.at = place /\ \E gone : Step(r, one(gone)) \/ Step(r, two(gone)) BY <1>18, Zenon DEF TrashMany, At
  <2>2. \A gone : one(gone).at # "unlinking" BY <1>2, <1>18, <2>1 DEF Begun
  <2>3. \A gone : two(gone).at # "unlinking" BY <1>18, <2>1, Zenon
  <2> HIDE DEF one, two
  <2>4. PICK gone : Step(r, one(gone)) \/ Step(r, two(gone)) BY <2>1
  <2>5. run.at \notin {"renaming", "unlinking", "ended"} BY <1>18, <2>1
  <2>6. QED BY <1>1, <2>2, <2>3, <2>4, <2>5
<1>19. CASE GioTrash(r)
  <2> DEFINE failed == [run EXCEPT !.at = "trashing again"]
  <2>1. run.at = "trashing" => \A done : [failed EXCEPT !.done = @ \cup done].at # "unlinking"
    BY <1>2 DEF Begun
  <2>2. TrashMany(r, "trashing", failed) BY <1>19 DEF GioTrash
  <2> HIDE DEF failed
  <2>3. QED BY <1>18, <2>1, <2>2
<1>20. CASE TrashPut(r)
  <2> DEFINE failed == [run EXCEPT !.at = "ended", !.result = "failed"]
  <2>1. run.at = "trashing again" => \A done : [failed EXCEPT !.done = @ \cup done].at # "unlinking"
    BY <1>2 DEF Begun
  <2>2. TrashMany(r, "trashing again", failed) BY <1>20 DEF TrashPut
  <2> HIDE DEF failed
  <2>3. QED BY <1>18, <2>1, <2>2
<1>21. QED
  BY <1>5, <1>6, <1>7, <1>8, <1>9, <1>10, <1>11, <1>12, <1>14, <1>15, <1>16, <1>17, <1>19, <1>20, Zenon
     DEF PlainStep

\* Where what is left and what is to be removed stay, the counts do.
LEMMA TempCountStays ==
    ASSUME FileInv, TempInv, Left' = Left, Removing' = Removing, crashes' = crashes,
           faults' = faults \/ faults' = faults + 1,
           \A r \in temps' : runs'[r].at \in {"renaming", "unlinking", "ended"}
    PROVE  TempInv'
<1>1. IsFiniteSet(Left) /\ IsFiniteSet(Removing) BY FS_Subset DEF Left, FileInv, TempInv
<1>2. Cardinality(Left) \in Nat /\ Cardinality(Removing) \in Nat /\ faults \in Nat
  BY <1>1, FS_CardinalityType DEF FileInv
<1>3. crashes' = 0 => 2 * Cardinality(Left) + Cardinality(Removing) <= faults'
  BY <1>2 DEF TempInv
<1>4. QED BY <1>1, <1>3, Zenon DEF TempInv

\* It keeps the count of temporary files.
LEMMA PlainStepTemps ==
    ASSUME FileInv, TempInv, NEW r \in Runs, PlainStep(r) PROVE TempInv'
<1>1. temps' = temps /\ crashes' = crashes /\ (faults' = faults \/ faults' = faults + 1)
  BY PlainStepKeeps
<1>2. /\ runs[r].at \notin {"renaming", "unlinking", "ended"} /\ runs'[r].at # "unlinking"
      /\ \A s \in Runs \ {r} : runs'[s] = runs[s]
  BY PlainStepPlaces
<1>3. r \notin temps /\ temps \subseteq Runs BY <1>2 DEF TempInv, FileInv
<1>4. Left' = Left BY <1>1, <1>2, <1>3 DEF Left
<1>5. Removing' = Removing BY <1>2 DEF Removing
<1>6. \A s \in temps' : runs'[s].at \in {"renaming", "unlinking", "ended"}
  BY <1>1, <1>2, <1>3 DEF TempInv
<1>7. QED BY <1>1, <1>4, <1>5, <1>6, TempCountStays

\* So does a temporary file that is written, or fails to be,
LEMMA WriteTempTemps == ASSUME FileInv, TempInv, NEW r \in Runs, WriteTemp(r) PROVE TempInv'
<1>1. runs[r].at = "approved" /\ crashes' = crashes /\ temps' \in {temps, temps \cup {r}} /\ faults \in Nat
  BY DEF WriteTemp, At, FileInv
<1>2. Begun(runs[r]) BY <1>1, NotIdle
<1>3. r \notin temps /\ temps \subseteq Runs BY <1>1 DEF TempInv, FileInv
<1>4. ASSUME NEW place \in {"renaming", "unlinking"}, Goes(r, place)
      PROVE  runs'[r].at = place /\ \A s \in Runs \ {r} : runs'[s] = runs[s]
  <2>1. [runs[r] EXCEPT !.at = place].at = place BY <1>2 DEF Begun
  <2>2. QED BY <1>4, <2>1, StepGoes DEF Goes
<1>5. CASE Goes(r, "renaming") /\ temps' = temps \cup {r} /\ UNCHANGED faults
  <2>1. runs'[r].at = "renaming" /\ \A s \in Runs \ {r} : runs'[s] = runs[s] BY <1>4, <1>5
  <2>2. Left' = Left BY <1>3, <1>5, <2>1 DEF Left
  <2>3. Removing' = Removing BY <1>1, <2>1 DEF Removing
  <2>4. \A s \in temps' : runs'[s].at \in {"renaming", "unlinking", "ended"}
    BY <1>3, <1>5, <2>1 DEF TempInv
  <2>5. QED BY <1>1, <1>5, <2>2, <2>3, <2>4, TempCountStays
<1>6. CASE Goes(r, "unlinking") /\ Fault
  <2>1. runs'[r].at = "unlinking" /\ \A s \in Runs \ {r} : runs'[s] = runs[s] BY <1>4, <1>6
  <2>2. Left' = Left BY <1>1, <1>3, <2>1 DEF Left
  <2>3. Removing' = Removing \cup {r} /\ r \notin Removing BY <1>1, <2>1 DEF Removing
  <2>4. \A s \in temps' : runs'[s].at \in {"renaming", "unlinking", "ended"}
    BY <1>1, <1>3, <2>1 DEF TempInv
  <2>5. IsFiniteSet(Left) /\ IsFiniteSet(Removing) BY FS_Subset DEF Left, FileInv, TempInv
  <2>6. IsFiniteSet(Removing') /\ Cardinality(Removing') = Cardinality(Removing) + 1
    BY <2>3, <2>5, FS_AddElement
  <2>7. Cardinality(Left) \in Nat /\ Cardinality(Removing) \in Nat BY <2>5, FS_CardinalityType
  <2>8. faults' = faults + 1 BY <1>6 DEF Fault
  <2>9. crashes' = 0 => 2 * Cardinality(Left') + Cardinality(Removing') <= faults'
    <3>1. crashes' = 0 => 2 * Cardinality(Left) + Cardinality(Removing) <= faults BY <1>1 DEF TempInv
    <3>2. QED BY <1>1, <2>2, <2>6, <2>7, <2>8, <3>1
  <2>10. QED BY <2>4, <2>6, <2>9, Zenon DEF TempInv
<1>7. QED BY <1>5, <1>6, Zenon DEF WriteTemp

\* one that is renamed, or fails to be,
LEMMA RenameTemps == ASSUME FileInv, TempInv, NEW r \in Runs, Rename(r) PROVE TempInv'
<1> DEFINE done == [runs[r] EXCEPT !.at = "ended", !.result = "ok", !.done = {1}]
           to == [runs[r] EXCEPT !.at = "unlinking"]
<1>1. runs[r].at = "renaming" /\ crashes' = crashes /\ faults \in Nat
  BY DEF Rename, At, FileInv
<1>2. Begun(runs[r]) /\ temps \subseteq Runs BY <1>1, NotIdle DEF FileInv
<1>3. done.at = "ended" /\ to.at = "unlinking" BY <1>2 DEF Begun
<1> HIDE DEF done, to
<1>4. CASE temps' = temps \ {r} /\ Step(r, done) /\ UNCHANGED faults
  <2>1. runs'[r].at = "ended" /\ \A s \in Runs \ {r} : runs'[s] = runs[s] BY <1>3, <1>4, StepGoes
  <2>2. Left' = Left BY <1>1, <1>2, <1>4, <2>1 DEF Left
  <2>3. Removing' = Removing BY <1>1, <2>1 DEF Removing
  <2>4. \A s \in temps' : runs'[s].at \in {"renaming", "unlinking", "ended"}
    BY <1>2, <1>4, <2>1 DEF TempInv
  <2>5. QED BY <1>1, <1>4, <2>2, <2>3, <2>4, TempCountStays
<1>5. CASE Step(r, to) /\ Fault /\ temps' = temps
  <2>1. runs'[r].at = "unlinking" /\ \A s \in Runs \ {r} : runs'[s] = runs[s] BY <1>3, <1>5, StepGoes
  <2>2. Left' = Left BY <1>1, <1>2, <1>5, <2>1 DEF Left
  <2>3. Removing' = Removing \cup {r} /\ r \notin Removing BY <1>1, <2>1 DEF Removing
  <2>4. \A s \in temps' : runs'[s].at \in {"renaming", "unlinking", "ended"}
    BY <1>2, <1>5, <2>1 DEF TempInv
  <2>5. IsFiniteSet(Left) /\ IsFiniteSet(Removing) BY FS_Subset DEF Left, FileInv, TempInv
  <2>6. IsFiniteSet(Removing') /\ Cardinality(Removing') = Cardinality(Removing) + 1
    BY <2>3, <2>5, FS_AddElement
  <2>7. Cardinality(Left) \in Nat /\ Cardinality(Removing) \in Nat BY <2>5, FS_CardinalityType
  <2>8. faults' = faults + 1 BY <1>5 DEF Fault
  <2>9. crashes' = 0 => 2 * Cardinality(Left') + Cardinality(Removing') <= faults'
    <3>1. crashes' = 0 => 2 * Cardinality(Left) + Cardinality(Removing) <= faults BY <1>1 DEF TempInv
    <3>2. QED BY <1>1, <2>2, <2>6, <2>7, <2>8, <3>1
  <2>10. QED BY <2>4, <2>6, <2>9, Zenon DEF TempInv
<1>6. QED BY <1>4, <1>5, Zenon DEF Rename, Goes, done, to

\* one that is removed, or fails to be,
LEMMA UnlinkTemps == ASSUME FileInv, TempInv, NEW r \in Runs, Unlink(r) PROVE TempInv'
<1>1. runs[r].at = "unlinking" /\ crashes' = crashes /\ faults \in Nat /\ Ends(r, "thrown")
  BY DEF Unlink, At, FileInv
<1>2. Begun(runs[r]) /\ temps \subseteq Runs BY <1>1, NotIdle DEF FileInv
<1>3. runs'[r].at = "ended" /\ \A s \in Runs \ {r} : runs'[s] = runs[s]
  <2>1. [runs[r] EXCEPT !.at = "ended", !.result = "thrown"].at = "ended" BY <1>2 DEF Begun
  <2>2. QED BY <1>1, <2>1, StepGoes DEF Ends
<1>4. Removing' = Removing \ {r} /\ r \in Removing BY <1>1, <1>3 DEF Removing
<1>5. IsFiniteSet(Left) /\ IsFiniteSet(Removing) BY FS_Subset DEF Left, FileInv, TempInv
<1>6. IsFiniteSet(Removing') /\ Cardinality(Removing') = Cardinality(Removing) - 1
  BY <1>4, <1>5, FS_RemoveElement
<1>7. Cardinality(Left) \in Nat /\ Cardinality(Removing) \in Nat BY <1>5, FS_CardinalityType
<1>8. crashes' = 0 => 2 * Cardinality(Left) + Cardinality(Removing) <= faults BY <1>1 DEF TempInv
<1>9. CASE temps' = temps \ {r} /\ UNCHANGED faults
  <2>1. Left' = Left BY <1>1, <1>2, <1>3, <1>9 DEF Left
  <2>2. \A s \in temps' : runs'[s].at \in {"renaming", "unlinking", "ended"}
    BY <1>2, <1>3, <1>9 DEF TempInv
  <2>3. crashes' = 0 => 2 * Cardinality(Left') + Cardinality(Removing') <= faults'
    BY <1>1, <1>6, <1>7, <1>8, <1>9, <2>1
  <2>4. QED BY <1>6, <2>2, <2>3, Zenon DEF TempInv
<1>10. CASE r \in temps /\ Fault /\ temps' = temps
  <2>1. Left' = Left \cup {r} /\ r \notin Left BY <1>1, <1>2, <1>3, <1>10 DEF Left
  <2>2. \A s \in temps' : runs'[s].at \in {"renaming", "unlinking", "ended"}
    BY <1>2, <1>3, <1>10 DEF TempInv
  <2>3. Cardinality(Left') = Cardinality(Left) + 1 BY <1>5, <2>1, FS_AddElement
  <2>4. faults' = faults + 1 BY <1>10 DEF Fault
  <2>5. crashes' = 0 => 2 * Cardinality(Left') + Cardinality(Removing') <= faults'
    BY <1>1, <1>6, <1>7, <1>8, <2>3, <2>4
  <2>6. QED BY <1>6, <2>2, <2>5, Zenon DEF TempInv
<1>11. QED BY <1>9, <1>10, Zenon DEF Unlink

\* and a crash, after which nothing is counted.
LEMMA CrashTemps == ASSUME FileInv, TempInv, Crash PROVE TempInv'
<1>1. UNCHANGED <<disk, temps, faults, others>> /\ crashes' = crashes + 1 /\ crashes \in Nat
  BY Zenon DEF Crash, FileInv
<1>2. runs' = [r \in Runs |-> IF runs[r].at \in {"idle", "ended"} THEN runs[r]
                             ELSE [runs[r] EXCEPT !.at = "ended", !.result = "died"]]
  BY Zenon DEF Crash
<1>3. ASSUME NEW r \in Runs PROVE runs'[r].at \in {"idle", "ended"} /\ (runs'[r].at = "idle" => runs[r].at = "idle")
  <2>1. CASE runs[r].at \in {"idle", "ended"} BY <1>2, <2>1
  <2>2. CASE runs[r].at \notin {"idle", "ended"}
    <3>1. Begun(runs[r]) BY <2>2, NotIdle
    <3>2. [runs[r] EXCEPT !.at = "ended", !.result = "died"].at = "ended" BY <3>1 DEF Begun
    <3>3. QED BY <1>2, <2>2, <3>2
  <2>3. QED BY <2>1, <2>2
<1>4. \A r \in temps' : runs'[r].at \in {"renaming", "unlinking", "ended"}
  BY <1>1, <1>3 DEF TempInv, FileInv
<1>5. Removing' = {} BY <1>3 DEF Removing
<1>6. IsFiniteSet(Removing') BY <1>5, FS_EmptySet
<1>7. crashes' # 0 BY <1>1
<1>8. QED BY <1>4, <1>6, <1>7, Zenon DEF TempInv

\* The count holds at first.
LEMMA TempInvStarts == ASSUME Init PROVE TempInv
<1>1. temps = {} /\ faults = 0 /\ \A r \in Runs : runs[r].at = "idle" BY DEF Init, Idle
<1>2. Left = {} /\ Removing = {} BY <1>1 DEF Left, Removing
<1>3. Cardinality(Left) = 0 /\ Cardinality(Removing) = 0 /\ IsFiniteSet(Removing) BY <1>2, FS_EmptySet
<1>4. QED BY <1>1, <1>3 DEF TempInv

\* And every step keeps it.
LEMMA TempInvIsKept == FileInv /\ TempInv /\ [Next]_vars => TempInv'
<1>1. SUFFICES ASSUME FileInv, TempInv, [Next]_vars PROVE TempInv' OBVIOUS
<1>2. ASSUME NEW r \in Runs, TempStep(r) PROVE TempInv'
  BY <1>1, <1>2, WriteTempTemps, RenameTemps, UnlinkTemps DEF TempStep
<1>3. ASSUME NEW p \in Paths, NEW text \in Texts \cup {Null}, OtherWriter(p, text) PROVE TempInv'
  <2>1. UNCHANGED <<temps, runs, faults, crashes>> BY <1>3 DEF OtherWriter
  <2>2. QED BY <1>1, <2>1, Zenon DEF TempInv, Left, Removing
<1>4. CASE UNCHANGED vars BY <1>1, <1>4, Zenon DEF TempInv, Left, Removing, vars
<1>5. QED BY <1>1, <1>2, <1>3, <1>4, NextIs, PlainStepTemps, CrashTemps

\* Where the process does not die, a temporary file that an edit leaves behind took two
\* failing calls.
THEOREM TempFilesAreRemoved == Spec => []TempsRemoved
<1>1. FileInv /\ TempInv => TempsRemoved
  <2>1. SUFFICES ASSUME FileInv, TempInv PROVE TempsRemoved OBVIOUS
  <2>2. {r \in temps : At(r, "ended")} = Left BY DEF At, Left
  <2>3. IsFiniteSet(Left) /\ IsFiniteSet(Removing) BY <2>1, FS_Subset DEF Left, FileInv, TempInv
  <2>4. Cardinality(Left) \in Nat /\ Cardinality(Removing) \in Nat BY <2>3, FS_CardinalityType
  <2>5. crashes = 0 => 2 * Cardinality(Left) <= faults BY <2>1, <2>4 DEF TempInv, FileInv
  <2>6. QED BY <2>2, <2>5 DEF TempsRemoved
<1>2. Init => TempInv BY TempInvStarts
<1>3. FileInv /\ TempInv /\ [Next]_vars => TempInv' BY TempInvIsKept
<1>4. QED BY <1>1, <1>2, <1>3, FileToolsKeep, PTL DEF Spec

-----------------------------------------------------------------------------
(* The watch: the first event that ends it is the last of those before its  *)
(* end, and what it lists is all it was asked for of what it was told.      *)

Reported == WatchKinds \cup {"error"}
Listed(w) == w.call.events \cup {"error"}
Before(w) == Kept(SubSeq(w.happened, 1, w.settled), Listed(w))
Enough(w, seen) == seen # <<>> /\ (w.call.stopAfterFirst \/ Len(seen) >= w.call.maxEvents)

Watches ==
    [at : {"watching", "closing", "done"}, call : WatchCalls, deaf : BOOLEAN, armed : BOOLEAN,
     timedOut : BOOLEAN, collected : Seq(Reported), happened : Seq(Reported), settled : Nat,
     stopped : {"no", "events", "error", "abort", "deadline"}]

\* While a watch has not ended, nothing it saw would end it.
Open(w) == w.armed /\ ~w.timedOut /\ ~Enough(w, w.collected) /\ "error" \notin ToSet(w.collected)

\* When it has, what it saw up to then tells why.
Over(w, before) ==
    /\ IsPrefix(before, w.collected)
    /\ w.timedOut => ~Enough(w, before) /\ "error" \notin ToSet(before)
    /\ ~w.timedOut => Enough(w, before) \/ "error" \in ToSet(before) \/ (w.stopped = "abort" /\ ~w.deaf)

Listens(w) ==
    /\ w \in Watches
    /\ w.collected = Kept(w.happened, Listed(w))
    /\ IF w.at = "watching" THEN Open(w) ELSE w.settled <= Len(w.happened) /\ Over(w, Before(w))

ListensInv == watching = NoWatch \/ Listens(watching)

\* A sequence is a prefix of itself and of what it becomes with one element more.
LEMMA PrefixGrows ==
    ASSUME NEW S, NEW s \in Seq(S), NEW t \in Seq(S), NEW e \in S
    PROVE  IsPrefix(s, s) /\ (IsPrefix(s, t) => IsPrefix(s, Append(t, e)))
<1>1. IsPrefix(s, s) BY DEF IsPrefix
<1>2. ASSUME IsPrefix(s, t) PROVE IsPrefix(s, Append(t, e))
  <2>1. Len(s) <= Len(t) /\ SubSeq(s, 1, Len(s)) = SubSeq(t, 1, Len(s)) BY <1>2 DEF IsPrefix
  <2>2. Len(s) \in Nat /\ Len(t) \in Nat /\ Len(Append(t, e)) = Len(t) + 1 OBVIOUS
  <2>3. SubSeq(Append(t, e), 1, Len(s)) = SubSeq(t, 1, Len(s)) BY <2>1, <2>2
  <2>4. QED BY <2>1, <2>2, <2>3 DEF IsPrefix
<1>3. QED BY <1>1, <1>2

\* Up to a place that is there, one more element changes nothing.
LEMMA FrontStays ==
    ASSUME NEW S, NEW s \in Seq(S), NEW e \in S, NEW n \in Nat, n <= Len(s)
    PROVE  SubSeq(Append(s, e), 1, n) = SubSeq(s, 1, n) /\ SubSeq(s, 1, n) \in Seq(S)
OBVIOUS

\* What a watch keeps of what it is told, the next event included.
LEMMA KeepsListed ==
    ASSUME NEW w, w \in Watches, NEW e \in Reported
    PROVE  /\ Kept(Append(w.happened, e), Listed(w)) =
                  IF e \in Listed(w) THEN Append(Kept(w.happened, Listed(w)), e) ELSE Kept(w.happened, Listed(w))
           /\ Append(w.happened, e) \in Seq(Reported)
           /\ Append(w.collected, e) \in Seq(Reported)
           /\ Len(Append(w.happened, e)) = Len(w.happened) + 1
<1>1. w.happened \in Seq(Reported) /\ w.collected \in Seq(Reported) BY DEF Watches
<1> DEFINE h == w.happened
           c == w.collected
           T == Listed(w)
<1> HIDE DEF h, c, T
<1>2. h \in Seq(Reported) /\ c \in Seq(Reported) BY <1>1 DEF h, c
<1>3. Kept(Append(h, e), T) = IF e \in T THEN Append(Kept(h, T), e) ELSE Kept(h, T) BY <1>2, KeptAppend
<1>4. /\ Append(h, e) \in Seq(Reported) /\ Append(c, e) \in Seq(Reported)
      /\ Len(Append(h, e)) = Len(h) + 1
  BY <1>2
<1>5. QED BY <1>3, <1>4 DEF h, c, T

\* Ended is what was open: what it saw tells why.
LEMMA EndsOpen ==
    ASSUME NEW w, w \in Watches, w.collected = Kept(w.happened, Listed(w)), w.at = "watching",
           NEW v, v \in Watches, v.at = "closing", v.settled = Len(w.happened),
           v.call = w.call, v.deaf = w.deaf, v.happened = w.happened, v.collected = w.collected,
           v.timedOut => ~Enough(w, w.collected) /\ "error" \notin ToSet(w.collected),
           ~v.timedOut => \/ Enough(w, w.collected) \/ "error" \in ToSet(w.collected)
                          \/ (v.stopped = "abort" /\ ~v.deaf)
    PROVE  Listens(v)
<1>1. w.happened \in Seq(Reported) /\ w.collected \in Seq(Reported) BY DEF Watches
<1>2. SubSeq(w.happened, 1, Len(w.happened)) = w.happened BY <1>1, SubSeqFull
<1>3. Before(v) = w.collected BY <1>2 DEF Before, Listed
<1>4. IsPrefix(w.collected, w.collected) BY <1>1 DEF IsPrefix
<1>5. Over(v, Before(v)) BY <1>3, <1>4 DEF Over, Enough
<1>6. v.settled <= Len(v.happened) BY <1>1
<1>7. v.collected = Kept(v.happened, Listed(v)) BY DEF Listed
<1>8. QED BY <1>5, <1>6, <1>7 DEF Listens

\* What comes after the end changes nothing of what was before it.
LEMMA TellsTheSame ==
    ASSUME NEW w, Listens(w), w.at = "closing", NEW e \in Reported,
           NEW v, v \in Watches, v.at = "closing",
           v.call = w.call, v.deaf = w.deaf, v.settled = w.settled, v.timedOut = w.timedOut,
           v.stopped = w.stopped, v.happened = Append(w.happened, e),
           v.collected = IF e \in Listed(w) THEN Append(w.collected, e) ELSE w.collected
    PROVE  Listens(v)
<1>1. /\ w \in Watches /\ w.collected = Kept(w.happened, Listed(w))
      /\ w.settled <= Len(w.happened) /\ Over(w, Before(w))
  BY DEF Listens
<1>2. w.happened \in Seq(Reported) /\ w.collected \in Seq(Reported) /\ w.settled \in Nat BY <1>1 DEF Watches
<1>3. v.collected = Kept(v.happened, Listed(v)) /\ Len(v.happened) = Len(w.happened) + 1
  BY <1>1, KeepsListed DEF Listed
<1>4. /\ SubSeq(v.happened, 1, v.settled) = SubSeq(w.happened, 1, w.settled)
      /\ SubSeq(w.happened, 1, w.settled) \in Seq(Reported)
  BY <1>1, <1>2, FrontStays
<1> DEFINE before == Before(w)
<1>5. Before(v) = before BY <1>4 DEF Before, Listed
<1>6. before \in Seq(Reported \cap Listed(w)) BY <1>4, KeptType DEF Before
<1>7. before \in Seq(Reported) BY <1>6
<1> HIDE DEF before
<1>8. IsPrefix(before, w.collected) BY <1>1 DEF Over, before
<1>9. IsPrefix(before, Append(w.collected, e)) BY <1>2, <1>7, <1>8, PrefixGrows
<1>10. IsPrefix(before, v.collected) BY <1>8, <1>9
<1>11. Over(v, before) BY <1>1, <1>10 DEF Over, Enough, before
<1>12. v.settled <= Len(v.happened) BY <1>1, <1>2, <1>3
<1>13. QED BY <1>3, <1>5, <1>11, <1>12 DEF Listens

\* A watch that is told something goes on, or ends by it.
LEMMA ReportListens ==
    ASSUME ListensInv, NEW kind \in WatchKinds, WatcherReports(kind)
    PROVE  ListensInv'
<1> DEFINE u == watching
           w == [u EXCEPT !.happened = Append(@, kind),
                          !.collected = IF kind \in u.call.events THEN Append(@, kind) ELSE @]
<1>1. u.at \in {"watching", "closing"} /\ u # NoWatch BY DEF WatcherReports, NoWatch
<1>2. Listens(u) /\ u \in Watches /\ u.collected = Kept(u.happened, Listed(u))
  BY <1>1 DEF ListensInv, Listens
<1>3. kind \in Reported /\ (kind \in Listed(u) <=> kind \in u.call.events)
  BY WatchAssumption DEF Reported, Listed
<1>4. watching' = IF Stops(w, kind) THEN Cleanup(w, "events") ELSE w BY DEF WatcherReports
<1>5. /\ w.at = u.at /\ w.call = u.call /\ w.deaf = u.deaf /\ w.settled = u.settled
      /\ w.timedOut = u.timedOut /\ w.stopped = u.stopped /\ w.armed = u.armed
      /\ w.happened = Append(u.happened, kind)
      /\ w.collected = IF kind \in Listed(u) THEN Append(u.collected, kind) ELSE u.collected
  BY <1>2, <1>3 DEF Watches
<1>6. w \in Watches
  <2>1. w.happened \in Seq(Reported) /\ w.collected \in Seq(Reported)
    <3>1. u.collected \in Seq(Reported) BY <1>2 DEF Watches
    <3>2. QED BY <1>2, <1>3, <1>5, <3>1, KeepsListed
  <2>2. QED BY <1>2, <2>1 DEF Watches
<1>7. w.collected = Kept(w.happened, Listed(w)) BY <1>2, <1>3, <1>5, KeepsListed DEF Listed
<1> HIDE DEF w
<1>8. CASE u.at = "closing"
  <2>1. Cleanup(w, "events") = [w EXCEPT !.armed = FALSE] BY <1>5, <1>8 DEF Cleanup
  <2> DEFINE v == watching'
  <2>2. /\ v \in Watches /\ v.at = "closing" /\ v.call = u.call /\ v.deaf = u.deaf
        /\ v.settled = u.settled /\ v.timedOut = u.timedOut /\ v.stopped = u.stopped
        /\ v.happened = Append(u.happened, kind)
        /\ v.collected = IF kind \in Listed(u) THEN Append(u.collected, kind) ELSE u.collected
    <3>1. CASE Stops(w, kind)
      <4>1. v = [w EXCEPT !.armed = FALSE] BY <1>4, <2>1, <3>1
      <4> HIDE DEF v
      <4>2. QED BY <1>5, <1>6, <1>8, <4>1 DEF Watches
    <3>2. CASE ~Stops(w, kind)
      <4>1. v = w BY <1>4, <3>2
      <4> HIDE DEF v
      <4>2. QED BY <1>5, <1>6, <1>8, <4>1
    <3>3. QED BY <3>1, <3>2
  <2> HIDE DEF v
  <2>3. Listens(v) BY <1>2, <1>3, <1>8, <2>2, TellsTheSame
  <2>4. QED BY <2>3 DEF ListensInv, v, Listens, Watches, Over, Open, Before, Enough, Listed
<1>9. CASE u.at = "watching"
  <2>1. Open(u) BY <1>2, <1>9 DEF Listens
  <2>2. ~("error" \in ToSet(w.collected))
    <3>1. "error" \notin ToSet(u.collected) /\ "error" # kind BY <2>1, WatchAssumption DEF Open
    <3>2. u.collected \in Seq(Reported) BY <1>2 DEF Watches
    <3> DEFINE c == u.collected
    <3> HIDE DEF c
    <3>3. c \in Seq(Reported) /\ "error" \notin ToSet(c) BY <3>1, <3>2 DEF c
    <3>4. "error" \notin ToSet(Append(c, kind)) BY <3>1, <3>3 DEF ToSet
    <3>5. QED BY <1>5, <3>3, <3>4 DEF c
  <2>3. CASE Stops(w, kind)
    <3>1. Cleanup(w, "events") = [w EXCEPT !.armed = FALSE, !.at = "closing", !.settled = Len(w.happened),
                                           !.stopped = "events"]
      BY <1>5, <1>9 DEF Cleanup
    <3> DEFINE v == watching'
    <3>2. v = [w EXCEPT !.armed = FALSE, !.at = "closing", !.settled = Len(w.happened), !.stopped = "events"]
      BY <1>4, <2>3, <3>1
    <3>3. Enough(w, w.collected)
      <4>1. kind \in w.call.events /\ (w.call.stopAfterFirst \/ Len(w.collected) >= w.call.maxEvents)
        BY <2>3 DEF Stops
      <4>2. w.collected = Append(u.collected, kind) /\ u.collected \in Seq(Reported)
        BY <1>2, <1>3, <1>5, <4>1 DEF Watches
      <4>3. w.collected # <<>> BY <4>2
      <4>4. QED BY <4>1, <4>3 DEF Enough
    <3> HIDE DEF v
    <3>4. /\ v.at = "closing" /\ v.settled = Len(w.happened) /\ v.call = w.call /\ v.deaf = w.deaf
          /\ v.happened = w.happened /\ v.collected = w.collected /\ v.timedOut = FALSE
      BY <1>5, <1>6, <2>1, <3>2 DEF Watches, Open
    <3>5. v \in Watches
      <4>1. Len(w.happened) \in Nat BY <1>6 DEF Watches
      <4>2. QED BY <1>6, <3>2, <4>1 DEF Watches
    <3>6. w.at = "watching" BY <1>5, <1>9
    <3>7. Listens(v) BY <1>6, <1>7, <3>3, <3>4, <3>5, <3>6, EndsOpen
    <3>8. QED BY <3>7 DEF ListensInv, v, Listens, Watches, Over, Open, Before, Enough, Listed
  <2>4. CASE ~Stops(w, kind)
    <3>1. watching' = w BY <1>4, <2>4
    <3>2. ~Enough(w, w.collected)
      <4>1. CASE kind \in Listed(u) BY <1>3, <1>5, <2>4, <4>1 DEF Stops, Enough
      <4>2. CASE kind \notin Listed(u) BY <1>5, <2>1, <4>2 DEF Open, Enough
      <4>3. QED BY <4>1, <4>2
    <3>3. Listens(w) BY <1>5, <1>6, <1>7, <1>9, <2>1, <2>2, <3>2 DEF Listens, Open
    <3>4. QED BY <3>1, <3>3 DEF ListensInv, Listens, Watches, Over, Open, Before, Enough, Listed
  <2>5. QED BY <2>3, <2>4
<1>10. QED BY <1>1, <1>8, <1>9

\* An error ends a watch, and is listed whatever was asked for.
LEMMA FailureListens ==
    ASSUME ListensInv, WatcherFails
    PROVE  ListensInv'
<1> DEFINE u == watching
           w == [u EXCEPT !.happened = Append(@, "error"), !.collected = Append(@, "error")]
           v == watching'
<1>1. u.at \in {"watching", "closing"} /\ u # NoWatch BY DEF WatcherFails, NoWatch
<1>2. Listens(u) /\ u \in Watches /\ u.collected = Kept(u.happened, Listed(u))
  BY <1>1 DEF ListensInv, Listens
<1>3. "error" \in Reported /\ "error" \in Listed(u) BY DEF Reported, Listed
<1>4. v = Cleanup(w, "error") BY DEF WatcherFails
<1>5. /\ w.at = u.at /\ w.call = u.call /\ w.deaf = u.deaf /\ w.settled = u.settled
      /\ w.timedOut = u.timedOut /\ w.stopped = u.stopped
      /\ w.happened = Append(u.happened, "error") /\ w.collected = Append(u.collected, "error")
  BY <1>2 DEF Watches
<1> DEFINE error == "error"
<1>6. Append(u.happened, error) \in Seq(Reported) /\ Append(u.collected, error) \in Seq(Reported)
  <2>1. error \in Reported /\ error \in Listed(u) BY <1>3
  <2> HIDE DEF error, u
  <2>2. QED BY <1>2, <2>1, KeepsListed
<1>7. w \in Watches BY <1>2, <1>5, <1>6 DEF Watches
<1>8. w.collected = Kept(w.happened, Listed(w))
  <2>1. Kept(Append(u.happened, error), Listed(u)) = Append(Kept(u.happened, Listed(u)), error)
    <3>1. error \in Reported /\ error \in Listed(u) BY <1>3
    <3> HIDE DEF error, u
    <3>2. QED BY <1>2, <3>1, KeepsListed
  <2>2. Listed(w) = Listed(u) BY <1>5 DEF Listed
  <2>3. QED BY <1>2, <1>5, <2>1, <2>2
<1> HIDE DEF w
<1>9. CASE u.at = "closing"
  <2>1. v = [w EXCEPT !.armed = FALSE] BY <1>4, <1>5, <1>9 DEF Cleanup
  <2> HIDE DEF v
  <2>2. /\ v \in Watches /\ v.at = "closing" /\ v.call = u.call /\ v.deaf = u.deaf
        /\ v.settled = u.settled /\ v.timedOut = u.timedOut /\ v.stopped = u.stopped
        /\ v.happened = Append(u.happened, error) /\ v.collected = Append(u.collected, error)
    BY <1>5, <1>7, <1>9, <2>1 DEF Watches
  <2>3. Listens(v)
    <3>1. error \in Reported /\ v.collected = IF error \in Listed(u) THEN Append(u.collected, error) ELSE u.collected
      BY <1>3, <2>2
    <3> HIDE DEF error, u
    <3>2. Listens(u) /\ u.at = "closing" BY <1>2, <1>9
    <3>3. QED BY <2>2, <3>1, <3>2, TellsTheSame
  <2>4. QED BY <2>3 DEF ListensInv, v, Listens, Watches, Over, Open, Before, Enough, Listed
<1>10. CASE u.at = "watching"
  <2>1. Open(u) BY <1>2, <1>10 DEF Listens
  <2>2. v = [w EXCEPT !.armed = FALSE, !.at = "closing", !.settled = Len(w.happened), !.stopped = "error"]
    BY <1>4, <1>5, <1>10 DEF Cleanup
  <2>3. "error" \in ToSet(w.collected)
    <3> DEFINE c == u.collected
    <3>1. c \in Seq(Reported) BY <1>2 DEF Watches
    <3>2. w.collected = Append(c, error) BY <1>5
    <3> HIDE DEF c, error
    <3>3. Len(c) + 1 \in DOMAIN Append(c, error) /\ Append(c, error)[Len(c) + 1] = error BY <3>1
    <3>4. error \in ToSet(Append(c, error)) BY <3>3 DEF ToSet
    <3>5. QED BY <3>2, <3>4 DEF error
  <2> HIDE DEF v
  <2>4. /\ v.at = "closing" /\ v.settled = Len(w.happened) /\ v.call = w.call /\ v.deaf = w.deaf
        /\ v.happened = w.happened /\ v.collected = w.collected /\ v.timedOut = FALSE
    BY <1>5, <1>7, <2>1, <2>2 DEF Watches, Open
  <2>5. v \in Watches
    <3>1. Len(w.happened) \in Nat BY <1>7 DEF Watches
    <3>2. QED BY <1>7, <2>2, <3>1 DEF Watches
  <2>6. w.at = "watching" BY <1>5, <1>10
  <2>7. Listens(v) BY <1>7, <1>8, <2>3, <2>4, <2>5, <2>6, EndsOpen
  <2>8. QED BY <2>7 DEF ListensInv, v, Listens, Watches, Over, Open, Before, Enough, Listed
<1>11. QED BY <1>1, <1>9, <1>10

\* The deadline and an abort end a watch that nothing it saw had ended.
LEMMA StopListens ==
    ASSUME ListensInv, Deadline \/ AbortWatch
    PROVE  ListensInv'
<1> DEFINE w == watching
           v == watching'
<1>1. w.at = "watching" /\ w # NoWatch BY DEF Deadline, AbortWatch, NoWatch
<1>2. Listens(w) /\ w \in Watches /\ w.collected = Kept(w.happened, Listed(w)) /\ Open(w)
  BY <1>1 DEF ListensInv, Listens
<1>3. Len(w.happened) \in Nat BY <1>2 DEF Watches
<1>4. \/ v = [w EXCEPT !.timedOut = TRUE, !.armed = FALSE, !.at = "closing",
                       !.settled = Len(w.happened), !.stopped = "deadline"]
      \/ ~w.deaf /\ v = [w EXCEPT !.armed = FALSE, !.at = "closing", !.settled = Len(w.happened),
                                  !.stopped = "abort"]
  BY <1>1 DEF Deadline, AbortWatch, Cleanup
<1> HIDE DEF v, w
<1>5. v \in Watches BY <1>2, <1>3, <1>4 DEF Watches
<1>6. /\ v.at = "closing" /\ v.settled = Len(w.happened) /\ v.call = w.call /\ v.deaf = w.deaf
      /\ v.happened = w.happened /\ v.collected = w.collected
      /\ v.timedOut \/ (v.stopped = "abort" /\ ~v.deaf)
  BY <1>2, <1>4 DEF Watches
<1>7. ~Enough(w, w.collected) /\ "error" \notin ToSet(w.collected) BY <1>2 DEF Open
<1>8. Listens(v) BY <1>1, <1>2, <1>5, <1>6, <1>7, EndsOpen
<1>9. QED BY <1>8 DEF ListensInv, v, Listens, Watches, Over, Open, Before, Enough, Listed

\* The close changes nothing of what is told.
LEMMA CloseListens ==
    ASSUME ListensInv, WatchCloses
    PROVE  ListensInv'
<1> DEFINE w == watching
           v == watching'
<1>1. w.at = "closing" /\ w # NoWatch /\ v = [w EXCEPT !.at = "done"] BY DEF WatchCloses, NoWatch
<1>2. Listens(w) /\ w \in Watches BY <1>1 DEF ListensInv, Listens
<1> HIDE DEF v, w
<1>3. /\ v \in Watches /\ v.at = "done" /\ v.call = w.call /\ v.deaf = w.deaf /\ v.settled = w.settled
      /\ v.timedOut = w.timedOut /\ v.stopped = w.stopped
      /\ v.happened = w.happened /\ v.collected = w.collected
  BY <1>1, <1>2 DEF Watches
<1>4. Listens(v) BY <1>1, <1>2, <1>3 DEF Listens, Before, Over, Listed, Enough
<1>5. QED BY <1>4 DEF ListensInv, v, Listens, Watches, Over, Open, Before, Enough, Listed

\* A watch starts with nothing seen.
LEMMA CallListens ==
    ASSUME NEW call \in WatchCalls, NEW deaf \in BOOLEAN, CallWatch(call, deaf)
    PROVE  ListensInv'
<1> DEFINE v == watching'
<1>1. v = [at |-> "watching", call |-> call, deaf |-> deaf, armed |-> TRUE, timedOut |-> FALSE,
           collected |-> <<>>, happened |-> <<>>, settled |-> 0, stopped |-> "no"]
  BY DEF CallWatch
<1> HIDE DEF v
<1>2. <<>> \in Seq(Reported) OBVIOUS
<1>3. v \in Watches BY <1>1, <1>2 DEF Watches
<1>4. v.collected = Kept(v.happened, Listed(v)) BY <1>1, KeptEmpty
<1>5. Open(v) BY <1>1 DEF Open, Enough, ToSet
<1>6. Listens(v) BY <1>1, <1>3, <1>4, <1>5 DEF Listens
<1>7. QED BY <1>6 DEF ListensInv, v, Listens, Watches, Over, Open, Before, Enough, Listed

\* Whatever is told, in any order and also while it closes, a watch lists it as it was asked
\* to and ends for the reason that can be told from it; its deadline is armed until then.
THEOREM WatchesTell == WatchSpec => []WatchTells
<1>1. WatchInit => ListensInv BY DEF WatchInit, ListensInv
<1>2. ListensInv /\ [WatchNext]_watching => ListensInv'
  <2> SUFFICES ASSUME ListensInv, [WatchNext]_watching PROVE ListensInv' OBVIOUS
  <2>1. ASSUME NEW call \in WatchCalls, NEW deaf \in BOOLEAN, CallWatch(call, deaf) PROVE ListensInv'
    BY <2>1, CallListens
  <2>2. ASSUME NEW kind \in WatchKinds, WatcherReports(kind) PROVE ListensInv' BY <2>2, ReportListens
  <2>3. CASE UNCHANGED watching
    BY <2>3 DEF ListensInv, Listens, Watches, Over, Open, Before, Enough, Listed
  <2>4. QED BY <2>1, <2>2, <2>3, FailureListens, StopListens, CloseListens DEF WatchNext
<1>3. ListensInv => WatchTells
  <2> SUFFICES ASSUME ListensInv PROVE WatchTells OBVIOUS
  <2> DEFINE w == watching
  <2>1. CASE w = NoWatch BY <2>1 DEF WatchTells, NoWatch
  <2>2. CASE Listens(w)
    <3>1. w.at = "watching" => w.armed BY <2>2 DEF Listens, Open
    <3>2. ASSUME w.at \in {"closing", "done"}
          PROVE  /\ IsPrefix(Before(w), w.collected) /\ IsPrefix(w.collected, Kept(w.happened, Listed(w)))
                 /\ w.timedOut => ~Enough(w, Before(w)) /\ "error" \notin ToSet(Before(w))
                 /\ ~w.timedOut => Enough(w, Before(w)) \/ "error" \in ToSet(Before(w)) \/ (w.stopped = "abort" /\ ~w.deaf)
      <4>1. Over(w, Before(w)) /\ w.collected = Kept(w.happened, Listed(w)) BY <2>2, <3>2 DEF Listens
      <4>2. IsPrefix(w.collected, w.collected)
        <5>1. w.collected \in Seq(Reported) BY <2>2 DEF Listens, Watches
        <5>2. QED BY <5>1 DEF IsPrefix
      <4>3. QED BY <4>1, <4>2 DEF Over
    <3>3. QED BY <3>1, <3>2, Zenon DEF WatchTells, Before, Listed, Enough
  <2>3. QED BY <2>1, <2>2 DEF ListensInv
<1>4. QED BY <1>1, <1>2, <1>3, PTL DEF WatchSpec

-----------------------------------------------------------------------------
(* The walk of a glob: what is ahead of it is what its directories and the  *)
(* entries left of them lead to, and nothing twice.                         *)

\* To the provers a string that is written down is not in STRING.
Chars == STRING \cup {"/"}
Names == Seq(Seq(Chars))
On(p) == {p} \cup DirsAbove(p)

\* Names that begin another one.
LEMMA Beginnings ==
    ASSUME NEW p \in Names, NEW k \in 0 .. Len(p)
    PROVE  /\ Len(p) \in Nat
           /\ SubSeq(p, 1, k) \in Names /\ Len(SubSeq(p, 1, k)) = k
           /\ SubSeq(p, 1, k) = <<>> <=> k = 0
           /\ \A m \in 0 .. k : SubSeq(SubSeq(p, 1, k), 1, m) = SubSeq(p, 1, m)
<1> DEFINE S == Seq(Chars)
           q == SubSeq(p, 1, k)
<1>1. p \in Seq(S) /\ Len(p) \in Nat BY DEF Names
<1> HIDE DEF S
<1>2. \A i \in 1 .. k : p[i] \in S BY <1>1, ElementOfSeq
<1>3. q \in Seq(S) /\ Len(q) = k /\ \A i \in 1 .. k : q[i] = p[i] BY <1>1, <1>2, SubSeqProperties
<1>4. q = <<>> <=> k = 0 BY <1>1, <1>3, EmptySeq
<1>5. ASSUME NEW m \in 0 .. k PROVE SubSeq(q, 1, m) = SubSeq(p, 1, m)
  <2>1. /\ SubSeq(q, 1, m) \in Seq(S) /\ Len(SubSeq(q, 1, m)) = m
        /\ \A i \in 1 .. m : SubSeq(q, 1, m)[i] = q[i]
    <3>1. \A i \in 1 .. m : q[i] \in S BY <1>1, <1>2, <1>3
    <3> HIDE DEF q
    <3>2. QED BY <1>1, <3>1, SubSeqProperties
  <2>2. /\ SubSeq(p, 1, m) \in Seq(S) /\ Len(SubSeq(p, 1, m)) = m
        /\ \A i \in 1 .. m : SubSeq(p, 1, m)[i] = p[i]
    <3>1. \A i \in 1 .. m : p[i] \in S BY <1>1, <1>2
    <3>2. QED BY <1>1, <3>1, SubSeqProperties
  <2>3. \A i \in 1 .. m : q[i] = p[i] BY <1>1, <1>3
  <2> HIDE DEF q
  <2>4. QED BY <2>1, <2>2, <2>3, SeqEqual
<1>6. QED BY <1>1, <1>3, <1>4, <1>5 DEF S, Names

\* The way to a path.
LEMMA OnTheWay ==
    ASSUME NEW p \in Names, NEW q
    PROVE  /\ q \in On(p) <=> \E k \in 0 .. Len(p) : q = SubSeq(p, 1, k)
           /\ q \in DirsAbove(p) <=> \E k \in 0 .. Len(p) - 1 : q = SubSeq(p, 1, k)
           /\ q \in On(p) => q \in Names /\ Len(q) \in 0 .. Len(p) /\ q = SubSeq(p, 1, Len(q))
           /\ q \in DirsAbove(p) => Len(q) < Len(p)
<1>1. Len(p) \in Nat BY DEF Names
<1>2. SubSeq(p, 1, Len(p)) = p BY SubSeqFull DEF Names
<1>3. q \in DirsAbove(p) <=> \E k \in 0 .. Len(p) - 1 : q = SubSeq(p, 1, k) BY DEF DirsAbove
<1>4. q \in On(p) <=> \E k \in 0 .. Len(p) : q = SubSeq(p, 1, k)
  <2>1. ASSUME q = p PROVE \E k \in 0 .. Len(p) : q = SubSeq(p, 1, k)
    <3>1. Len(p) \in 0 .. Len(p) BY <1>1
    <3>2. QED BY <1>2, <2>1, <3>1
  <2>2. ASSUME NEW k \in 0 .. Len(p), q = SubSeq(p, 1, k) PROVE q \in On(p)
    <3>1. k = Len(p) \/ k \in 0 .. Len(p) - 1 BY <1>1
    <3>2. QED BY <1>2, <1>3, <2>2, <3>1 DEF On
  <2>3. \A k \in 0 .. Len(p) - 1 : k \in 0 .. Len(p) BY <1>1
  <2>4. QED BY <1>3, <2>1, <2>2, <2>3 DEF On
<1>5. ASSUME NEW k \in 0 .. Len(p), q = SubSeq(p, 1, k) PROVE q \in Names /\ Len(q) = k /\ q = SubSeq(p, 1, Len(q))
  BY <1>5, Beginnings
<1>6. q \in On(p) => q \in Names /\ Len(q) \in 0 .. Len(p) /\ q = SubSeq(p, 1, Len(q))
  BY <1>4, <1>5
<1>7. q \in DirsAbove(p) => Len(q) < Len(p)
  <2>1. SUFFICES ASSUME NEW k \in 0 .. Len(p) - 1, q = SubSeq(p, 1, k) PROVE Len(q) < Len(p) BY <1>3
  <2>2. k \in 0 .. Len(p) BY <1>1
  <2>3. QED BY <1>1, <1>5, <2>1, <2>2
<1>8. QED BY <1>3, <1>4, <1>6, <1>7

\* A path and the directories above it.
LEMMA Ways ==
    ASSUME NEW p \in Names, p # <<>>
    PROVE  /\ p \notin DirsAbove(p) /\ <<>> \in DirsAbove(p)
           /\ Front(p) \in Names /\ DirsAbove(p) = On(Front(p))
           /\ \A q, r \in On(p) : Len(q) = Len(r) => q = r
           /\ \A d \in DirsAbove(p) : \E q \in On(p) : q # <<>> /\ Front(q) = d
           /\ \A q \in On(p) : On(q) \subseteq On(p) /\ DirsAbove(q) \subseteq DirsAbove(p)
<1> DEFINE n == Len(p)
<1>1. n \in Nat \ {0} BY EmptySeq DEF Names
<1>2. p \notin DirsAbove(p) BY <1>1, OnTheWay
<1>3. <<>> \in DirsAbove(p)
  <2>1. 0 \in 0 .. n - 1 /\ SubSeq(p, 1, 0) = <<>> BY <1>1, Beginnings
  <2>2. \E k \in 0 .. n - 1 : <<>> = SubSeq(p, 1, k) BY <2>1, Zenon
  <2>3. QED BY <2>2, OnTheWay
<1>4. Front(p) \in Names /\ Len(Front(p)) = n - 1 /\ \A m \in 0 .. n - 1 : SubSeq(Front(p), 1, m) = SubSeq(p, 1, m)
  <2>1. n - 1 \in 0 .. n BY <1>1
  <2>2. QED BY <2>1, Beginnings DEF Front
<1>5. \A q : q \in DirsAbove(p) <=> q \in On(Front(p))
  <2> TAKE q
  <2> DEFINE f == Front(p)
  <2>1. f \in Names /\ Len(f) = n - 1 BY <1>4
  <2>2. q \in On(f) <=> \E k \in 0 .. Len(f) : q = SubSeq(f, 1, k)
    <3> HIDE DEF f
    <3>1. QED BY <2>1, OnTheWay
  <2> HIDE DEF f
  <2>3. q \in On(f) <=> \E k \in 0 .. n - 1 : q = SubSeq(f, 1, k) BY <2>1, <2>2
  <2>4. \A k \in 0 .. n - 1 : SubSeq(f, 1, k) = SubSeq(p, 1, k) BY <1>4 DEF f
  <2>5. q \in On(f) <=> \E k \in 0 .. n - 1 : q = SubSeq(p, 1, k) BY <2>3, <2>4
  <2>6. QED BY <2>5, OnTheWay DEF f
<1>6. ASSUME NEW q \in On(p), NEW r \in On(p), Len(q) = Len(r) PROVE q = r
  <2>1. q = SubSeq(p, 1, Len(q)) /\ r = SubSeq(p, 1, Len(r)) BY OnTheWay
  <2>2. QED BY <1>6, <2>1
<1>7. ASSUME NEW d \in DirsAbove(p) PROVE \E q \in On(p) : q # <<>> /\ Front(q) = d
  <2>1. PICK k \in 0 .. n - 1 : d = SubSeq(p, 1, k) BY OnTheWay
  <2> DEFINE q == SubSeq(p, 1, k + 1)
  <2>2. k + 1 \in 0 .. n /\ k \in 0 .. k + 1 /\ k + 1 # 0 /\ k + 1 - 1 = k BY <1>1
  <2>3. q \in On(p) BY <2>2, OnTheWay
  <2>4. q # <<>> /\ Len(q) = k + 1 /\ SubSeq(q, 1, k) = SubSeq(p, 1, k) BY <2>2, Beginnings
  <2> HIDE DEF q
  <2>5. Front(q) = d BY <2>1, <2>2, <2>4 DEF Front
  <2>6. QED BY <2>3, <2>4, <2>5
<1>8. ASSUME NEW q \in On(p) PROVE On(q) \subseteq On(p) /\ DirsAbove(q) \subseteq DirsAbove(p)
  <2>1. q \in Names /\ Len(q) \in 0 .. n /\ q = SubSeq(p, 1, Len(q)) BY OnTheWay
  <2>2. \A m \in 0 .. Len(q) : SubSeq(q, 1, m) = SubSeq(p, 1, m) BY <2>1, Beginnings
  <2>3. ASSUME NEW x \in On(q) PROVE x \in On(p)
    <3>1. PICK m \in 0 .. Len(q) : x = SubSeq(q, 1, m) BY <2>1, OnTheWay
    <3>2. m \in 0 .. n /\ x = SubSeq(p, 1, m) BY <1>1, <2>1, <2>2, <3>1
    <3>3. QED BY <3>2, OnTheWay
  <2>4. ASSUME NEW x \in DirsAbove(q) PROVE x \in DirsAbove(p)
    <3>1. PICK m \in 0 .. Len(q) - 1 : x = SubSeq(q, 1, m) BY <2>1, OnTheWay
    <3>2. m \in 0 .. Len(q) /\ m \in 0 .. n - 1 BY <1>1, <2>1
    <3>3. x = SubSeq(p, 1, m) BY <2>2, <3>1, <3>2
    <3>4. QED BY <3>2, <3>3, OnTheWay
  <2>5. QED BY <2>3, <2>4
<1>9. QED BY <1>2, <1>3, <1>4, <1>5, <1>6, <1>7, <1>8

\* Sequences of a larger set, and those a path's text is made of.
LEMMA Wider ==
    ASSUME NEW S, NEW T, S \subseteq T
    PROVE  Seq(S) \subseteq Seq(T)
<1>1. SUFFICES ASSUME NEW s \in Seq(S) PROVE s \in Seq(T) OBVIOUS
<1>2. PICK n \in Nat : s \in [1 .. n -> S] BY SeqDef
<1>3. s \in [1 .. n -> T] BY <1>2
<1>4. QED BY <1>2, <1>3, SeqDef

LEMMA Slash == <<>> \in Seq(Chars) /\ <<"/">> \in Seq(Chars)
<1> DEFINE S == Chars
<1>1. "/" \in S BY DEF Chars
<1>2. \A c \in S : <<c>> \in Seq(S) OBVIOUS
<1>3. <<>> \in Seq(S) OBVIOUS
<1>4. QED BY <1>1, <1>2, <1>3, Zenon


\* The text of a path, segment by segment.
Joins(t, parts) ==
    /\ t \in [0 .. Len(parts) -> Seq(Chars)] /\ t[0] = <<>>
    /\ \A i \in 1 .. Len(parts) : t[i] = t[i - 1] \o (IF i = 1 THEN <<>> ELSE <<"/">>) \o parts[i]

LEMMA JoinIs ==
    ASSUME NEW parts \in Names
    PROVE  \E t : Joins(t, parts) /\ JoinChars(parts) = t[Len(parts)]
<1> DEFINE n == Len(parts)
           V == Seq(Chars)
           Next1(i, x) == x \o (IF i = 1 THEN <<>> ELSE <<"/">>) \o parts[i]
           empty == <<>>
           step == [p \in (1 .. n) \X V |-> Next1(p[1], p[2])]
           Body(t) == [i \in 0 .. n |-> IF i = 0 THEN empty ELSE Next1(i, t[i - 1])]
           chosen == CHOOSE t : t = Body(t)
<1>1. n \in Nat /\ empty \in V /\ \A i \in 1 .. n : parts[i] \in V BY DEF Names
<1>2. \A i \in 1 .. n, x \in V : Next1(i, x) \in V
  <2> TAKE i \in 1 .. n, x \in V
  <2> DEFINE slash == IF i = 1 THEN <<>> ELSE <<"/">>
  <2>1. slash \in Seq(Chars) BY Slash
  <2>2. parts[i] \in Seq(Chars) /\ x \in Seq(Chars) BY <1>1 DEF V
  <2> HIDE DEF slash
  <2>3. x \o slash \in Seq(Chars) BY <2>1, <2>2
  <2>4. (x \o slash) \o parts[i] \in Seq(Chars) BY <2>2, <2>3
  <2>5. QED BY <2>4 DEF slash, V
<1> HIDE DEF Next1, V, empty
<1>3. step \in [(1 .. n) \X V -> V]
  <2> HIDE DEF n
  <2>1. QED BY <1>2
<1>4. PICK f \in [0 .. n -> V] : f[0] = empty /\ \A i \in 1 .. n : f[i] = step[<<i, f[i - 1]>>]
  <2> HIDE DEF n, step
  <2>1. FromTheStart(n, V, empty, step) BY <1>1, <1>3 DEF FromTheStart
  <2>2. QED BY <2>1, RecursionUp
<1>5. \A i \in 1 .. n : f[i] = Next1(i, f[i - 1])
  <2> TAKE i \in 1 .. n
  <2> HIDE DEF n
  <2>1. f[i - 1] \in V BY <1>1, <1>4
  <2>2. QED BY <1>4, <2>1
<1> HIDE DEF step
<1>6. f = Body(f)
  <2> HIDE DEF n
  <2>1. f = [i \in 0 .. n |-> f[i]] BY <1>4
  <2>2. ASSUME NEW i \in 0 .. n PROVE f[i] = Body(f)[i]
    <3>1. i = 0 \/ i \in 1 .. n BY <1>1
    <3>2. QED BY <1>4, <1>5, <3>1
  <2>3. QED BY <2>1, <2>2
<1>7. chosen = Body(chosen) BY <1>6, Zenon
<1>8. JoinChars(parts) = chosen[n] BY Zenon DEF JoinChars, Next1, empty
<1> HIDE DEF chosen
<1>9. chosen[0] = empty /\ \A i \in 1 .. n : chosen[i] = Next1(i, chosen[i - 1])
  <2>1. 0 \in 0 .. n /\ chosen[0] = empty BY <1>1, <1>7
  <2>2. ASSUME NEW i \in 1 .. n PROVE chosen[i] = Next1(i, chosen[i - 1])
    <3>1. i \in 0 .. n /\ i # 0 BY <1>1
    <3>2. chosen[i] = Body(chosen)[i] BY <1>7, Zenon
    <3>3. QED BY <3>1, <3>2, Zenon
  <2>3. QED BY <2>1, <2>2
<1>10. chosen = [i \in 0 .. n |-> chosen[i]]
  <2> DEFINE b == Body(chosen)
  <2>1. b = [i \in 0 .. n |-> b[i]] OBVIOUS
  <2>2. chosen = b BY <1>7
  <2> HIDE DEF b, Body
  <2>3. QED BY <2>1, <2>2
<1> HIDE DEF Body
<1>11. 0 .. n \subseteq {i \in 0 .. n : chosen[i] \in V}
  <2> DEFINE G == {i \in 0 .. n : chosen[i] \in V}
  <2>1. 0 \in G BY <1>1, <1>9
  <2>2. \A i \in 1 .. n : i - 1 \in G => i \in G BY <1>1, <1>2, <1>9
  <2> HIDE DEF G, n
  <2>3. QED BY <1>1, <2>1, <2>2, Upward DEF G
<1>12. chosen \in [0 .. n -> V]
  <2> HIDE DEF n
  <2>1. \A i \in 0 .. n : chosen[i] \in V BY <1>11
  <2>2. QED BY <1>10, <2>1
<1>13. Joins(chosen, parts) BY <1>9, <1>12 DEF Joins, V, empty, Next1
<1>14. QED BY <1>8, <1>13

\* The name of a directory with its slash is that of the path with an empty segment more.
LEMMA SlashAfter ==
    ASSUME NEW p \in Names, p # <<>>
    PROVE  JoinChars(Append(p, <<>>)) = JoinChars(p) \o <<"/">>
<1> DEFINE n == Len(p)
           nothing == <<>>
           q == Append(p, nothing)
<1>1. p \in Seq(Seq(Chars)) /\ nothing \in Seq(Chars) BY DEF Names
<1>2. /\ q \in Names /\ Len(q) = n + 1 /\ n \in Nat \ {0} /\ q[n + 1] = nothing
      /\ \A i \in 1 .. n : q[i] = p[i]
  <2> DEFINE S == Seq(Chars)
  <2>1. p \in Seq(S) /\ nothing \in S BY <1>1
  <2> HIDE DEF S, nothing
  <2>2. QED BY <2>1, AppendProperties, EmptySeq DEF S, Names
<1>3. PICK t : Joins(t, p) /\ JoinChars(p) = t[n] BY JoinIs
<1>4. PICK u : Joins(u, q) /\ JoinChars(q) = u[n + 1]
  <2> HIDE DEF q
  <2>1. QED BY <1>2, JoinIs
<1> HIDE DEF q
<1> DEFINE G == {i \in 0 .. n : u[i] = t[i]}
<1>5. 0 \in G BY <1>2, <1>3, <1>4 DEF Joins
<1>6. ASSUME NEW i \in 1 .. n, i - 1 \in G PROVE i \in G
  <2>1. i \in 1 .. Len(q) /\ q[i] = p[i] /\ u[i - 1] = t[i - 1] BY <1>2, <1>6
  <2>2. u[i] = u[i - 1] \o (IF i = 1 THEN <<>> ELSE <<"/">>) \o q[i] BY <1>4, <2>1 DEF Joins
  <2>3. t[i] = t[i - 1] \o (IF i = 1 THEN <<>> ELSE <<"/">>) \o p[i] BY <1>3 DEF Joins
  <2>4. u[i] = t[i] BY <2>1, <2>2, <2>3, Zenon
  <2>5. i \in 0 .. n BY <1>2
  <2>6. QED BY <2>4, <2>5
<1>7. 0 .. n \subseteq G
  <2> HIDE DEF G, n
  <2>1. QED BY <1>2, <1>5, <1>6, Upward
<1>8. u[n] = t[n] /\ t[n] \in Seq(Chars)
  <2>1. n \in 0 .. n BY <1>2
  <2>2. QED BY <1>3, <1>7, <2>1 DEF Joins
<1>9. u[n + 1] = u[n] \o <<"/">> \o nothing
  <2>1. n + 1 \in 1 .. Len(q) /\ n + 1 # 1 /\ n + 1 - 1 = n BY <1>2
  <2>2. \A i \in 1 .. Len(q) : u[i] = u[i - 1] \o (IF i = 1 THEN <<>> ELSE <<"/">>) \o q[i]
    BY <1>4 DEF Joins
  <2> DEFINE m == n + 1
  <2> HIDE DEF m
  <2>4. u[m] = u[m - 1] \o (IF m = 1 THEN <<>> ELSE <<"/">>) \o q[m] BY <2>1, <2>2, Zenon DEF m
  <2>5. m # 1 /\ m - 1 = n /\ q[m] = nothing BY <1>2, <2>1 DEF m
  <2>3. QED BY <2>4, <2>5 DEF m
<1>10. t[n] \o <<"/">> \o nothing = t[n] \o <<"/">>
  <2> DEFINE s == t[n] \o <<"/">>
  <2>1. <<"/">> \in Seq(Chars) BY Slash
  <2>2. s \in Seq(Chars) BY <1>8, <2>1, ConcatProperties
  <2> HIDE DEF s
  <2>3. s \o nothing = s BY <2>2, ConcatEmptySeq
  <2>4. QED BY <2>3 DEF s
<1>11. QED BY <1>3, <1>4, <1>8, <1>9, <1>10 DEF q

\* The paths of a glob.
LEMMA PathsAre ==
    /\ GlobPaths \subseteq Names \ {<<>>} /\ IsFiniteSet(GlobPaths)
    /\ \A p \in GlobPaths : DirsAbove(p) \subseteq GlobPaths \cup {<<>>}
    /\ \A p \in GlobPaths : Front(p) \in GlobPaths \cup {<<>>}
    /\ \A p \in GlobPaths : Rank(p) \in Nat /\ GlobOrder[Rank(p)] = p
<1>1. GlobOrder \in Seq(Names \ {<<>>})
  <2>1. Seq(STRING) \subseteq Seq(Chars) BY Wider DEF Chars
  <2>2. Seq(Seq(STRING)) \subseteq Names BY <2>1, Wider DEF Names
  <2>3. Seq(Seq(Seq(STRING)) \ {<<>>}) \subseteq Seq(Names \ {<<>>})
    <3> DEFINE S == Seq(Seq(STRING)) \ {<<>>}
               T == Names \ {<<>>}
    <3>1. S \subseteq T BY <2>2
    <3> HIDE DEF S, T
    <3>2. Seq(S) \subseteq Seq(T) BY <3>1, Wider
    <3>3. QED BY <3>2 DEF S, T
  <2>4. QED BY <2>3, GlobAssumption
<1> DEFINE S == Names \ {<<>>}
           n == Len(GlobOrder)
<1>2. GlobOrder \in [1 .. n -> S] /\ DOMAIN GlobOrder = 1 .. n /\ n \in Nat
  <2> HIDE DEF S
  <2>1. QED BY <1>1, LenProperties DEF S
<1>3. GlobPaths \subseteq S BY <1>2 DEF GlobPaths, ToSet
<1>4. IsFiniteSet(GlobPaths)
  <2>1. GlobOrder \in Surjection(1 .. n, GlobPaths)
    <3>1. GlobOrder \in [1 .. n -> GlobPaths] BY <1>2 DEF GlobPaths, ToSet
    <3>2. \A p \in GlobPaths : \E i \in 1 .. n : GlobOrder[i] = p BY <1>2 DEF GlobPaths, ToSet
    <3>3. QED BY <3>1, <3>2 DEF Surjection
  <2>2. IsFiniteSet(1 .. n) BY <1>2, FS_Interval
  <2>3. QED BY <2>1, <2>2, FS_Surjection
<1>5. \A p \in GlobPaths : DirsAbove(p) \subseteq GlobPaths \cup {<<>>}
  <2> TAKE p \in GlobPaths
  <2>1. DirsAbove(p) \ {<<>>} \subseteq GlobPaths BY GlobAssumption
  <2>2. QED BY <2>1
<1>6. \A p \in GlobPaths : Front(p) \in GlobPaths \cup {<<>>}
  <2> TAKE p \in GlobPaths
  <2>1. p \in Names /\ p # <<>> BY <1>3
  <2>2. Front(p) \in DirsAbove(p) BY <2>1, Ways DEF On
  <2>3. QED BY <1>5, <2>2
<1>7. ASSUME NEW p \in GlobPaths PROVE Rank(p) \in Nat /\ GlobOrder[Rank(p)] = p
  <2>1. \E i \in DOMAIN GlobOrder : GlobOrder[i] = p BY DEF GlobPaths, ToSet
  <2>2. Rank(p) \in DOMAIN GlobOrder /\ GlobOrder[Rank(p)] = p BY <2>1, Zenon DEF Rank
  <2>3. QED BY <1>2, <2>2
<1>8. QED BY <1>3, <1>4, <1>5, <1>6, <1>7

\* What the patterns of a call mean, which is what their expressions match.
LEMMA MatchIs ==
    ASSUME PatternsMean, NEW call \in GlobCalls, NEW p \in GlobPaths
    PROVE  /\ MatchesAny(call.patterns, JoinChars(p)) <=> \E pattern \in call.patterns : Means(pattern, p)
           /\ MatchesAny(call.ignore, JoinChars(p)) <=> \E pattern \in call.ignore : Means(pattern, p)
           /\ MatchesAny(call.ignore, JoinChars(p) \o <<"/">>) <=>
                  \E pattern \in call.ignore : Means(pattern, Append(p, <<>>))
<1>1. call.patterns \subseteq GlobPatterns /\ call.ignore \subseteq GlobPatterns BY GlobAssumption
<1>2. p \in ProbePaths /\ Append(p, <<>>) \in ProbePaths BY GlobAssumption
<1>3. \A pattern \in GlobPatterns, path \in ProbePaths :
          RegexTest(CompileGlob(GlobText(pattern)), JoinChars(path)) <=> Means(pattern, path)
  <2> TAKE pattern \in GlobPatterns, path \in ProbePaths
  <2>1. CASE Bare(pattern) BY <2>1, Zenon DEF Means
  <2>2. CASE ~Bare(pattern)
    <3>1. RegexTest(CompileGlob(GlobText(pattern)), JoinChars(path)) <=> Denotes(pattern, path)
      BY <2>2, Zenon DEF PatternsMean
    <3>2. QED BY <2>2, <3>1, Zenon DEF Means
  <2>3. QED BY <2>1, <2>2, Zenon
<1>4. JoinChars(p) \o <<"/">> = JoinChars(Append(p, <<>>)) BY PathsAre, SlashAfter
<1>5. QED BY <1>1, <1>2, <1>3, <1>4, Zenon DEF MatchesAny

\* Above what exists there are directories.
KindIn(tree, p) == IF p = <<>> THEN "dir" ELSE tree[p].kind

LEMMA DirsAreAbove ==
    ASSUME NEW tree, GlobTree(tree), NEW p \in GlobPaths, tree[p].kind # "none"
    PROVE  \A d \in DirsAbove(p) : KindIn(tree, d) = "dir"
<1> DEFINE n == Len(p)
           S == {i \in 1 .. n + 1 : i = n + 1 \/ KindIn(tree, SubSeq(p, 1, i - 1)) = "dir"}
<1>1. p \in Names /\ p # <<>> /\ n \in Nat BY PathsAre DEF Names
<1>2. n + 1 \in S BY <1>1
<1>3. ASSUME NEW i \in 1 .. n, \A j \in i + 1 .. n + 1 : j \in S PROVE i \in S
  <2> DEFINE q == SubSeq(p, 1, i)
  <2>1. i \in 0 .. n /\ i # 0 /\ i - 1 \in 0 .. i /\ i \in 1 .. n + 1 BY <1>1
  <2>2. q # <<>> /\ q \in On(p) /\ Len(q) = i /\ SubSeq(q, 1, i - 1) = SubSeq(p, 1, i - 1)
    <3>1. \E k \in 0 .. n : q = SubSeq(p, 1, k) BY <2>1
    <3>2. q \in On(p)
      <4> HIDE DEF q
      <4>1. QED BY <1>1, <3>1, OnTheWay
    <3>3. QED BY <1>1, <2>1, <3>2, Beginnings
  <2>3. q \in GlobPaths BY <2>2, PathsAre DEF On
  <2>4. tree[q] # Absent
    <3>1. CASE i = n
      <4>1. q = p BY <1>1, <3>1, SubSeqFull DEF Names
      <4> HIDE DEF q
      <4>2. QED BY <4>1 DEF Absent
    <3>2. CASE i # n
      <4>1. i + 1 \in S /\ i + 1 # n + 1 /\ i + 1 - 1 = i BY <1>1, <1>3, <3>2
      <4>2. KindIn(tree, q) = "dir" BY <4>1
      <4> HIDE DEF q
      <4>3. QED BY <2>2, <4>2 DEF KindIn, Absent
    <3>3. QED BY <3>1, <3>2
  <2>5. Front(q) = SubSeq(p, 1, i - 1) BY <2>2 DEF Front
  <2> HIDE DEF q
  <2>6. KindIn(tree, Front(q)) = "dir" BY <2>3, <2>4 DEF KindIn, GlobTree
  <2>7. QED BY <2>1, <2>5, <2>6
<1>4. 1 .. n + 1 \subseteq S
  <2> HIDE DEF S, n
  <2>1. QED BY <1>1, <1>2, <1>3, Downward
<1>5. ASSUME NEW d \in DirsAbove(p) PROVE KindIn(tree, d) = "dir"
  <2>1. PICK k \in 0 .. n - 1 : d = SubSeq(p, 1, k) BY <1>1, OnTheWay
  <2> DEFINE m == k + 1
  <2>5. m \in 1 .. n + 1 /\ m # n + 1 /\ m - 1 = k BY <1>1
  <2> HIDE DEF m
  <2>6. m \in S
    <3> HIDE DEF S
    <3>1. QED BY <1>4, <2>5
  <2>3. KindIn(tree, SubSeq(p, 1, m - 1)) = "dir" BY <2>5, <2>6
  <2>4. QED BY <2>1, <2>5, <2>3
<1>6. QED BY <1>5

\* What the numbers up to n are in an order.
Ordering(n, R) ==
    /\ \A i, j \in 1 .. n : i # j => <<i, j>> \in R \/ <<j, i>> \in R
    /\ \A i, j, k \in 1 .. n : <<i, j>> \in R /\ <<j, k>> \in R => <<i, k>> \in R

Sorting(o, k, R) ==
    /\ \A i, j \in 1 .. k : i < j => <<o[i], o[j]>> \in R
    /\ \A m \in 1 .. k : \E i \in 1 .. k : o[i] = m

\* They can be sorted: each is put before the first of the earlier ones that comes after it.
LEMMA SortingExists ==
    ASSUME NEW n \in Nat, NEW R, Ordering(n, R)
    PROVE  \E o \in [1 .. n -> 1 .. n] : Sorting(o, n, R)
<1> DEFINE G == {k \in 0 .. n : \E o \in [1 .. k -> 1 .. k] : Sorting(o, k, R)}
<1>1. 0 \in G
  <2> DEFINE o == [i \in 1 .. 0 |-> i]
  <2>1. o \in [1 .. 0 -> 1 .. 0] /\ Sorting(o, 0, R) BY DEF Sorting
  <2>2. \E x \in [1 .. 0 -> 1 .. 0] : Sorting(x, 0, R) BY <2>1, Zenon
  <2>3. 0 \in 0 .. n OBVIOUS
  <2>4. QED BY <2>2, <2>3, Zenon
<1>2. ASSUME NEW i \in 1 .. n, i - 1 \in G PROVE i \in G
  <2> DEFINE k == i - 1
  <2>1. k \in Nat /\ i = k + 1 /\ i \in 0 .. n /\ 1 .. i \subseteq 1 .. n /\ 1 .. k \subseteq 1 .. n OBVIOUS
  <2>2. PICK o \in [1 .. k -> 1 .. k] : Sorting(o, k, R) BY <1>2
  <2> HIDE DEF k
  <2> DEFINE T == {d \in 1 .. i : d = i \/ <<i, o[d]>> \in R}
  <2>3. i \in T /\ T \subseteq Nat BY <2>1
  <2>4. PICK d \in T : \A e \in T : d <= e
    <3> HIDE DEF T
    <3>1. QED BY <2>3, Least
  <2>5. d \in 1 .. i /\ (d = i \/ <<i, o[d]>> \in R) OBVIOUS
  <2>6. \A e \in 1 .. i : e < d => <<i, o[e]>> \notin R
    <3> TAKE e \in 1 .. i
    <3>1. SUFFICES ASSUME e < d, <<i, o[e]>> \in R PROVE FALSE OBVIOUS
    <3>2. e \in T BY <3>1
    <3>3. d <= e BY <2>4, <3>2
    <3>4. QED BY <2>5, <3>1, <3>3
  <2> HIDE DEF T
  <2> DEFINE r == [m \in 1 .. i |-> IF m < d THEN o[m] ELSE IF m = d THEN i ELSE o[m - 1]]
  <2>7. \A m \in 1 .. i : /\ m < d => m \in 1 .. k /\ r[m] = o[m]
                          /\ m = d => r[m] = i
                          /\ m > d => m - 1 \in 1 .. k /\ r[m] = o[m - 1] /\ m - 1 >= d
    BY <2>1, <2>5
  <2>8. \A m \in 1 .. k : o[m] \in 1 .. k /\ o[m] \in 1 .. n /\ o[m] # i BY <2>1, <2>2
  <2>9. r \in [1 .. i -> 1 .. i]
    <3>1. \A m \in 1 .. i : r[m] \in 1 .. i
      <4> TAKE m \in 1 .. i
      <4>1. m < d \/ m = d \/ m > d BY <2>1, <2>5
      <4>2. 1 .. k \subseteq 1 .. i /\ i \in 1 .. i BY <2>1
      <4> HIDE DEF r
      <4>3. QED BY <2>7, <2>8, <4>1, <4>2
    <3>2. QED BY <3>1
  <2> HIDE DEF r
  <2>10. \A e \in 1 .. k : e < d => <<o[e], i>> \in R
    <3> TAKE e \in 1 .. k
    <3>1. SUFFICES ASSUME e < d PROVE <<o[e], i>> \in R OBVIOUS
    <3>2. <<i, o[e]>> \notin R BY <2>1, <2>6, <3>1
    <3>3. o[e] # i /\ o[e] \in 1 .. n BY <2>8
    <3>4. QED BY <3>2, <3>3 DEF Ordering
  <2>11. \A e \in 1 .. k : e >= d => <<i, o[e]>> \in R
    <3> TAKE e \in 1 .. k
    <3>1. SUFFICES ASSUME e >= d PROVE <<i, o[e]>> \in R OBVIOUS
    <3>2. d \in 1 .. k /\ d # i BY <2>1, <2>5, <3>1
    <3>3. <<i, o[d]>> \in R BY <2>5, <3>2
    <3>4. e = d \/ <<o[d], o[e]>> \in R
      <4>1. e = d \/ d < e BY <2>1, <2>5, <3>1
      <4>2. QED BY <2>2, <3>2, <4>1 DEF Sorting
    <3>5. o[d] \in 1 .. n /\ o[e] \in 1 .. n BY <2>8, <3>2
    <3>6. QED BY <3>3, <3>4, <3>5 DEF Ordering
  <2>12. ASSUME NEW x \in 1 .. i, NEW y \in 1 .. i, x < y PROVE <<r[x], r[y]>> \in R
    <3>1. CASE y < d
      <4>1. x < d BY <2>1, <2>5, <2>12, <3>1
      <4>2. x \in 1 .. k /\ y \in 1 .. k /\ r[x] = o[x] /\ r[y] = o[y] BY <2>7, <3>1, <4>1
      <4>3. QED BY <2>2, <2>12, <4>2 DEF Sorting
    <3>2. CASE y = d
      <4>1. x < d BY <2>12, <3>2
      <4>2. x \in 1 .. k /\ r[x] = o[x] /\ r[y] = i BY <2>7, <3>2, <4>1
      <4>3. QED BY <2>10, <4>1, <4>2
    <3>3. CASE y > d
      <4>1. y - 1 \in 1 .. k /\ r[y] = o[y - 1] /\ y - 1 >= d BY <2>7, <3>3
      <4>2. CASE x < d
        <5>1. x \in 1 .. k /\ r[x] = o[x] BY <2>7, <4>2
        <5>2. x < y - 1 BY <2>1, <2>5, <4>1, <4>2, <5>1
        <5>3. QED BY <2>2, <4>1, <5>1, <5>2 DEF Sorting
      <4>3. CASE x = d
        <5>1. r[x] = i BY <2>7, <4>3
        <5>2. QED BY <2>11, <4>1, <5>1
      <4>4. CASE x > d
        <5>1. x - 1 \in 1 .. k /\ r[x] = o[x - 1] BY <2>7, <4>4
        <5>2. x - 1 < y - 1 BY <2>12
        <5>3. QED BY <2>2, <4>1, <5>1, <5>2 DEF Sorting
      <4>5. x < d \/ x = d \/ x > d BY <2>1, <2>5
      <4>6. QED BY <4>2, <4>3, <4>4, <4>5
    <3>4. y < d \/ y = d \/ y > d BY <2>1, <2>5
    <3>5. QED BY <3>1, <3>2, <3>3, <3>4
  <2>13. ASSUME NEW m \in 1 .. i PROVE \E x \in 1 .. i : r[x] = m
    <3>1. CASE m = i BY <2>5, <2>7, <3>1
    <3>2. CASE m # i
      <4>1. m \in 1 .. k BY <2>1, <3>2
      <4>2. PICK e \in 1 .. k : o[e] = m BY <2>2, <4>1 DEF Sorting
      <4>3. CASE e < d
        <5>1. e \in 1 .. i BY <2>1
        <5>2. r[e] = m BY <2>7, <4>2, <4>3, <5>1
        <5>3. QED BY <5>1, <5>2
      <4>4. CASE e >= d
        <5>1. e + 1 \in 1 .. i /\ e + 1 > d /\ e + 1 - 1 = e BY <2>1, <2>5, <4>4
        <5>2. r[e + 1] = o[e + 1 - 1] BY <2>7, <5>1
        <5>3. QED BY <4>2, <5>1, <5>2
      <4>5. e < d \/ e >= d BY <2>1, <2>5
      <4>6. QED BY <4>3, <4>4, <4>5
    <3>3. QED BY <3>1, <3>2
  <2>14. Sorting(r, i, R) BY <2>12, <2>13 DEF Sorting
  <2>15. QED BY <2>1, <2>9, <2>14
<1>3. 0 .. n \subseteq G
  <2> HIDE DEF G
  <2>1. QED BY <1>1, <1>2, Upward
<1>4. n \in G
  <2> HIDE DEF G
  <2>1. QED BY <1>3
<1>5. QED BY <1>4, Zenon

-----------------------------------------------------------------------------
(* The order of what is found.                                             *)

Hits == [path : GlobPaths, mtime : Nat]
Once(found) == \A i, j \in DOMAIN found : found[i].path = found[j].path => i = j
PathsOf(found) == {found[i].path : i \in DOMAIN found}
ComesBefore(found, byMtime, i, j) ==
    IF byMtime THEN found[i].mtime > found[j].mtime \/ (found[i].mtime = found[j].mtime /\ i < j)
    ELSE Rank(found[i].path) < Rank(found[j].path)

\* What is found twice is nothing, so that its order is one.
LEMMA OrderOfFound ==
    ASSUME NEW found \in Seq(Hits), Once(found), NEW byMtime
    PROVE  LET n == Len(found)
               R == {r \in (1 .. n) \X (1 .. n) : ComesBefore(found, byMtime, r[1], r[2])}
           IN  /\ n \in Nat /\ DOMAIN found = 1 .. n /\ Ordering(n, R)
               /\ \A i \in 1 .. n : ~ ComesBefore(found, byMtime, i, i)
<1> DEFINE n == Len(found)
           R == {r \in (1 .. n) \X (1 .. n) : ComesBefore(found, byMtime, r[1], r[2])}
           c(i, j) == ComesBefore(found, byMtime, i, j)
           rank(i) == Rank(found[i].path)
           time(i) == found[i].mtime
<1>1. n \in Nat /\ DOMAIN found = 1 .. n /\ \A i \in 1 .. n : found[i] \in Hits OBVIOUS
<1>2. \A i \in 1 .. n : time(i) \in Nat /\ rank(i) \in Nat
  <2> TAKE i \in 1 .. n
  <2>1. found[i].path \in GlobPaths /\ found[i].mtime \in Nat BY <1>1 DEF Hits
  <2>2. QED BY <2>1, PathsAre
<1>3. \A i, j \in 1 .. n : i # j => rank(i) # rank(j)
  <2> TAKE i, j \in 1 .. n
  <2>1. SUFFICES ASSUME rank(i) = rank(j) PROVE i = j OBVIOUS
  <2>2. found[i].path \in GlobPaths /\ found[j].path \in GlobPaths BY <1>1 DEF Hits
  <2>3. found[i].path = found[j].path BY <2>1, <2>2, PathsAre
  <2>4. QED BY <1>1, <2>3 DEF Once
<1>4. \A i, j : c(i, j) <=> IF byMtime THEN time(i) > time(j) \/ (time(i) = time(j) /\ i < j) ELSE rank(i) < rank(j)
  BY Zenon DEF ComesBefore
<1> HIDE DEF rank, time, c
<1>5. \A i, j \in 1 .. n : i # j => c(i, j) \/ c(j, i)
  <2> TAKE i, j \in 1 .. n
  <2>1. SUFFICES ASSUME i # j PROVE c(i, j) \/ c(j, i) OBVIOUS
  <2>2. i \in Nat /\ j \in Nat /\ rank(i) # rank(j) BY <1>3, <2>1
  <2>3. QED BY <1>2, <1>4, <2>1, <2>2
<1>6. \A i, j, k \in 1 .. n : c(i, j) /\ c(j, k) => c(i, k)
  <2> TAKE i, j, k \in 1 .. n
  <2>1. i \in Nat /\ j \in Nat /\ k \in Nat OBVIOUS
  <2>2. QED BY <1>2, <1>4, <2>1
<1>7. \A i \in 1 .. n : ~ c(i, i)
  <2> TAKE i \in 1 .. n
  <2>1. QED BY <1>2, <1>4
<1>8. \A i, j \in 1 .. n : <<i, j>> \in R <=> c(i, j) BY DEF c
<1> HIDE DEF R
<1>9. Ordering(n, R) BY <1>5, <1>6, <1>8 DEF Ordering
<1>10. QED BY <1>1, <1>7, <1>9 DEF R, c

\* What is sorted is what was found, in order.
LEMMA SortIs ==
    ASSUME NEW found \in Seq(Hits), Once(found), NEW byMtime
    PROVE  LET n == Len(found)
           IN  \E o \in [1 .. n -> 1 .. n] :
                  /\ SortFound(found, byMtime) = [i \in 1 .. n |-> found[o[i]].path]
                  /\ \A i, j \in 1 .. n : i < j => ComesBefore(found, byMtime, o[i], o[j])
                  /\ \A m \in 1 .. n : \E i \in 1 .. n : o[i] = m
                  /\ \A i, j \in 1 .. n : o[i] = o[j] => i = j
<1> DEFINE n == Len(found)
           R == {r \in (1 .. n) \X (1 .. n) : ComesBefore(found, byMtime, r[1], r[2])}
           D == DOMAIN found
           good(o) == /\ \A i, j \in D : i < j => ComesBefore(found, byMtime, o[i], o[j])
                      /\ \A m \in D : \E i \in D : o[i] = m
           chosen == CHOOSE o \in [D -> D] : good(o)
<1>1. /\ n \in Nat /\ DOMAIN found = 1 .. n /\ Ordering(n, R)
      /\ \A i \in 1 .. n : ~ ComesBefore(found, byMtime, i, i)
  BY OrderOfFound
<1>2. SortFound(found, byMtime) = [i \in D |-> found[chosen[i]].path]
  BY Zenon DEF SortFound, ComesBefore
<1>3. \E o \in [D -> D] : good(o)
  <2>1. PICK o \in [1 .. n -> 1 .. n] : Sorting(o, n, R)
    <3> HIDE DEF R, n
    <3>1. QED BY <1>1, SortingExists
  <2>2. \A i, j \in 1 .. n : <<o[i], o[j]>> \in R => ComesBefore(found, byMtime, o[i], o[j]) OBVIOUS
  <2> HIDE DEF R
  <2>3. good(o) BY <1>1, <2>1, <2>2 DEF Sorting
  <2>4. o \in [D -> D] BY <1>1, <2>1
  <2> HIDE DEF D, good
  <2>5. QED BY <2>3, <2>4
<1>4. chosen \in [1 .. n -> 1 .. n] /\ good(chosen)
  <2> HIDE DEF good, n, D
  <2>1. chosen \in [D -> D] /\ good(chosen) BY <1>3, Zenon
  <2>2. QED BY <1>1, <2>1 DEF D
<1> HIDE DEF chosen
<1>5. ASSUME NEW i \in 1 .. n, NEW j \in 1 .. n, chosen[i] = chosen[j] PROVE i = j
  <2>1. SUFFICES ASSUME i # j PROVE FALSE OBVIOUS
  <2>2. i < j \/ j < i BY <2>1
  <2>3. chosen[i] \in 1 .. n BY <1>4
  <2>4. QED BY <1>1, <1>4, <1>5, <2>2, <2>3
<1>6. SortFound(found, byMtime) = [i \in 1 .. n |-> found[chosen[i]].path] BY <1>1, <1>2
<1>7. /\ \A i, j \in 1 .. n : i < j => ComesBefore(found, byMtime, chosen[i], chosen[j])
      /\ \A m \in 1 .. n : \E i \in 1 .. n : chosen[i] = m
  BY <1>1, <1>4
<1>8. QED BY <1>4, <1>5, <1>6, <1>7, Zenon

-----------------------------------------------------------------------------
(* The walk.                                                               *)

Entry == [path : GlobPaths, kind : {"file", "dir"}]
Frames == [dir : GlobPaths \cup {<<>>}, read : BOOLEAN, left : Seq(Entry)]
Below(dir) == {p \in GlobPaths : dir \in DirsAbove(p)}

\* The paths a frame leads to, and those all of them do.
Ahead(f) ==
    IF f.read THEN {p \in GlobPaths : \E i \in DOMAIN f.left : f.left[i].path \in On(p)}
    ELSE Below(f.dir)
AllAhead(frames) == UNION {Ahead(frames[j]) : j \in DOMAIN frames}

\* A directory that is entered, and none above it, is meant by no ignored pattern.
Entered(call, dir) ==
    \A d \in On(dir) \ {<<>>}, ignored \in call.ignore :
        ~Means(ignored, d) /\ ~Means(ignored, Append(d, <<>>))

\* The entries left are of the directory, each once, and as they are but for what others
\* have touched.
FrameOK(call, tree, hit, f) ==
    /\ f \in Frames /\ Entered(call, f.dir)
    /\ \A i \in DOMAIN f.left :
          /\ Front(f.left[i].path) = f.dir
          /\ f.left[i].path \notin hit => f.left[i].kind = tree[f.left[i].path].kind
    /\ \A i, j \in DOMAIN f.left : f.left[i].path = f.left[j].path => i = j

FramesOK(call, tree, hit, frames) ==
    /\ frames \in Seq(Frames)
    /\ \A j \in DOMAIN frames : FrameOK(call, tree, hit, frames[j])
    /\ \A i, j \in DOMAIN frames : i # j => Ahead(frames[i]) \cap Ahead(frames[j]) = {}

\* What is found is meant, and is as it was but for what others have touched.
FoundOK(call, tree, hit, found) ==
    /\ found \in Seq(Hits) /\ Once(found)
    /\ \A i \in DOMAIN found :
          /\ Meant(call, found[i].path)
          /\ found[i].path \notin hit =>
                 tree[found[i].path].kind = "file" /\ tree[found[i].path].mtime = found[i].mtime

SteadyIn(tree, hit, unread) ==
    {p \in GlobPaths : /\ tree[p].kind = "file" /\ On(p) \cap hit = {}
                       /\ DirsAbove(p) \cap unread = {}}

Walks == [at : {"walking"}, call : GlobCalls, frames : Seq(Frames), found : Seq(Hits),
          truncated : BOOLEAN, unread : SUBSET (GlobPaths \cup {<<>>})]

\* What is wanted is found or ahead, unless the walk is truncated.
WalkOK(w, tree, hit) ==
    /\ w \in Walks
    /\ FramesOK(w.call, tree, hit, w.frames)
    /\ FoundOK(w.call, tree, hit, w.found)
    /\ PathsOf(w.found) \cap AllAhead(w.frames) = {}
    /\ w.truncated => Len(w.found) >= MaxCollected
    /\ ~w.truncated => \A p \in SteadyIn(tree, hit, w.unread) :
                           Meant(w.call, p) => p \in PathsOf(w.found) \cup AllAhead(w.frames)

WalkInv ==
    /\ GlobTree(globTree)
    /\ \/ walk = NoWalk
       \/ walk.at = "walking" /\ WalkOK(walk, globTree, touched)
       \/ walk.at \in {"done", "failed"} /\ WalksComplete

\* Without its last frame, a walk has that less ahead.
LEMMA FrameLeaves ==
    ASSUME NEW call, NEW tree, NEW hit, NEW frames, FramesOK(call, tree, hit, frames), frames # <<>>
    PROVE  /\ FramesOK(call, tree, hit, Front(frames)) /\ FrameOK(call, tree, hit, Last(frames))
           /\ AllAhead(frames) = AllAhead(Front(frames)) \cup Ahead(Last(frames))
           /\ AllAhead(Front(frames)) \cap Ahead(Last(frames)) = {}
<1> DEFINE n == Len(frames)
           f == Front(frames)
<1>1. frames \in Seq(Frames) /\ n \in Nat \ {0} /\ DOMAIN frames = 1 .. n BY DEF FramesOK
<1>2. f \in Seq(Frames) /\ DOMAIN f = 1 .. n - 1 /\ \A j \in 1 .. n - 1 : f[j] = frames[j]
  BY <1>1 DEF Front
<1>3. n \in DOMAIN frames /\ Last(frames) = frames[n] BY <1>1 DEF Last
<1> HIDE DEF f
<1>4. \A j \in 1 .. n - 1 : j \in DOMAIN frames /\ j # n
  <2> HIDE DEF n
  <2>1. \A j \in 1 .. n - 1 : j \in 1 .. n /\ j # n BY <1>1
  <2>2. QED BY <1>1, <2>1
<1>5. FramesOK(call, tree, hit, f) BY <1>2, <1>4 DEF FramesOK
<1>6. FrameOK(call, tree, hit, Last(frames)) BY <1>3 DEF FramesOK
<1>7. AllAhead(frames) = AllAhead(f) \cup Ahead(Last(frames))
  <2>1. \A j \in DOMAIN frames : j = n \/ j \in 1 .. n - 1 BY <1>1
  <2>2. QED BY <1>2, <1>3, <1>4, <2>1 DEF AllAhead
<1>8. AllAhead(f) \cap Ahead(Last(frames)) = {} BY <1>2, <1>3, <1>4 DEF AllAhead, FramesOK
<1>9. QED BY <1>5, <1>6, <1>7, <1>8 DEF f

\* A frame more, with other things ahead.
LEMMA FrameEnters ==
    ASSUME NEW call, NEW tree, NEW hit, NEW frames, FramesOK(call, tree, hit, frames),
           NEW g, FrameOK(call, tree, hit, g), AllAhead(frames) \cap Ahead(g) = {}
    PROVE  /\ FramesOK(call, tree, hit, Append(frames, g))
           /\ AllAhead(Append(frames, g)) = AllAhead(frames) \cup Ahead(g)
<1> DEFINE n == Len(frames)
           f == Append(frames, g)
<1>1. frames \in Seq(Frames) /\ n \in Nat /\ DOMAIN frames = 1 .. n BY DEF FramesOK
<1>2. g \in Frames BY DEF FrameOK
<1>3. f \in Seq(Frames) /\ DOMAIN f = 1 .. n + 1 /\ f[n + 1] = g /\ \A j \in 1 .. n : f[j] = frames[j]
  BY <1>1, <1>2
<1> HIDE DEF f
<1>4. \A j \in DOMAIN f : j = n + 1 \/ j \in 1 .. n BY <1>1, <1>3
<1>5. \A j \in 1 .. n : j \in DOMAIN f /\ j \in DOMAIN frames /\ j # n + 1 BY <1>1, <1>3
<1>6. n + 1 \in DOMAIN f BY <1>1, <1>3
<1>7. \A j \in 1 .. n : Ahead(frames[j]) \cap Ahead(g) = {} BY <1>1 DEF AllAhead
<1>8. ASSUME NEW i \in DOMAIN f, NEW j \in DOMAIN f, i # j PROVE Ahead(f[i]) \cap Ahead(f[j]) = {}
  <2>1. CASE i \in 1 .. n /\ j \in 1 .. n BY <1>1, <1>3, <1>8, <2>1 DEF FramesOK
  <2>2. CASE i = n + 1 /\ j \in 1 .. n BY <1>3, <1>7, <2>2
  <2>3. CASE j = n + 1 /\ i \in 1 .. n BY <1>3, <1>7, <2>3
  <2>4. QED BY <1>4, <1>8, <2>1, <2>2, <2>3
<1>9. \A j \in DOMAIN f : FrameOK(call, tree, hit, f[j]) BY <1>1, <1>3, <1>4 DEF FramesOK
<1>10. FramesOK(call, tree, hit, f) BY <1>3, <1>8, <1>9 DEF FramesOK
<1>11. AllAhead(f) = AllAhead(frames) \cup Ahead(g) BY <1>1, <1>3, <1>4, <1>5, <1>6 DEF AllAhead
<1>12. QED BY <1>10, <1>11 DEF f

\* The last frame becomes another one that leads to no more than it did.
LEMMA FrameChanges ==
    ASSUME NEW call, NEW tree, NEW hit, NEW frames, FramesOK(call, tree, hit, frames), frames # <<>>,
           NEW g, FrameOK(call, tree, hit, g), Ahead(g) \subseteq Ahead(Last(frames))
    PROVE  LET new == [frames EXCEPT ![Len(frames)] = g]
           IN  /\ FramesOK(call, tree, hit, new)
               /\ AllAhead(new) = AllAhead(Front(frames)) \cup Ahead(g)
               /\ new \in Seq(Frames) /\ new # <<>>
<1> DEFINE n == Len(frames)
           f == Front(frames)
           new == [frames EXCEPT ![Len(frames)] = g]
<1>1. frames \in Seq(Frames) /\ n \in Nat \ {0} /\ g \in Frames BY DEF FramesOK, FrameOK
<1>2. FramesOK(call, tree, hit, f) /\ AllAhead(f) \cap Ahead(Last(frames)) = {} BY FrameLeaves
<1>3. AllAhead(f) \cap Ahead(g) = {} BY <1>2
<1>4. /\ FramesOK(call, tree, hit, Append(f, g)) /\ AllAhead(Append(f, g)) = AllAhead(f) \cup Ahead(g)
  <2> HIDE DEF f
  <2>1. QED BY <1>2, <1>3, FrameEnters
<1>5. new = Append(f, g)
  <2>1. f \in Seq(Frames) /\ Len(f) = n - 1 /\ \A j \in 1 .. n - 1 : f[j] = frames[j]
    <3>1. f = SubSeq(frames, 1, n - 1) BY DEF Front
    <3>2. \A j \in 1 .. n - 1 : frames[j] \in Frames
      <4>1. \A j \in 1 .. n : frames[j] \in Frames BY <1>1, ElementOfSeq
      <4> HIDE DEF n
      <4>2. QED BY <1>1, <4>1
    <3> HIDE DEF n, f
    <3>3. n - 1 \in Nat BY <1>1
    <3>4. QED BY <1>1, <3>1, <3>2, <3>3, SubSeqProperties
  <2>2. new \in Seq(Frames) /\ Len(new) = n /\ \A j \in 1 .. n : new[j] = IF j = n THEN g ELSE frames[j]
    BY <1>1, ExceptSeq
  <2> HIDE DEF f, new
  <2>3. /\ Append(f, g) \in Seq(Frames) /\ Len(Append(f, g)) = n /\ Append(f, g)[n] = g
        /\ \A j \in 1 .. n - 1 : Append(f, g)[j] = f[j]
    BY <1>1, <2>1, AppendProperties
  <2>4. \A j \in 1 .. n : new[j] = Append(f, g)[j] BY <1>1, <2>1, <2>2, <2>3
  <2>5. QED BY <1>1, <2>2, <2>3, <2>4, SeqEqual
<1>6. new \in Seq(Frames) /\ new # <<>> BY <1>1, ExceptSeq
<1>7. QED BY <1>4, <1>5, <1>6

\* A step of the walk alone.
LEMMA WalkGoesOn ==
    ASSUME WalkInv, OnlyWalk, WalkOK(walk', globTree, touched)
    PROVE  WalkInv'
<1>1. walk'.at = "walking" BY DEF WalkOK, Walks
<1>2. globTree' = globTree /\ touched' = touched BY DEF OnlyWalk
<1>3. GlobTree(globTree') BY <1>2 DEF WalkInv
<1>4. WalkOK(walk', globTree', touched') BY <1>2
<1>5. QED BY <1>1, <1>3, <1>4 DEF WalkInv

\* A call fails only over a pattern that is not what it looks like.
LEMMA CallFails ==
    ASSUME WalkInv, PatternsMean, NEW call \in GlobCalls, CallGlob(call), ~Compiles(call)
    PROVE  WalkInv'
<1>1. walk' = [at |-> "failed", call |-> call] /\ globTree' = globTree BY DEF CallGlob, OnlyWalk
<1>2. PICK pattern \in call.patterns \cup call.ignore : ~Valid(CompileGlob(GlobText(pattern)))
  BY DEF Compiles
<1>3. pattern \in GlobPatterns BY GlobAssumption
<1>4. Bare(pattern) BY <1>2, <1>3, Zenon DEF PatternsMean
<1>5. WalksComplete' BY <1>1, <1>4 DEF WalksComplete
<1>6. QED BY <1>1, <1>5 DEF WalkInv

\* A walk that begins has everything ahead.
LEMMA WalkBegins ==
    ASSUME WalkInv, NEW call \in GlobCalls, CallGlob(call), Compiles(call)
    PROVE  WalkInv'
<1> DEFINE nothing == <<>>
           f == Unread(nothing)
           frames == <<f>>
           v == [at |-> "walking", call |-> call, frames |-> frames, found |-> nothing,
                 truncated |-> FALSE, unread |-> {}]
<1>1. walk' = v /\ OnlyWalk BY DEF CallGlob
<1>2. nothing \in Names /\ On(nothing) = {nothing}
  <2>1. nothing \in Names BY DEF Names
  <2>2. Len(nothing) = 0 OBVIOUS
  <2>3. DirsAbove(nothing) = {} BY <2>2 DEF DirsAbove
  <2>4. QED BY <2>1, <2>3 DEF On
<1>3. FrameOK(call, globTree, touched, f)
  <2>1. f \in Frames BY DEF Frames, Unread
  <2>2. Entered(call, nothing)
    <3> HIDE DEF nothing
    <3>1. On(nothing) \ {<<>>} = {} BY <1>2 DEF nothing
    <3>2. QED BY <3>1 DEF Entered
  <2>3. f.dir = nothing /\ f.left = <<>> /\ DOMAIN f.left = {} BY DEF Unread
  <2> HIDE DEF f, nothing
  <2>4. QED BY <2>1, <2>2, <2>3 DEF FrameOK
<1>4. Ahead(f) = GlobPaths
  <2>1. Ahead(f) = Below(nothing) BY DEF Ahead, Unread
  <2>2. \A p \in GlobPaths : nothing \in DirsAbove(p)
    <3> TAKE p \in GlobPaths
    <3>1. p \in Names /\ p # <<>> BY PathsAre
    <3>2. QED BY <3>1, Ways
  <2> HIDE DEF f, nothing
  <2>3. QED BY <2>1, <2>2 DEF Below
<1> HIDE DEF f
<1>5. frames \in Seq(Frames) /\ DOMAIN frames = {1} /\ frames[1] = f BY <1>3 DEF FrameOK
<1> HIDE DEF frames
<1>6. FramesOK(call, globTree, touched, frames) BY <1>3, <1>5 DEF FramesOK
<1>7. AllAhead(frames) = GlobPaths BY <1>4, <1>5 DEF AllAhead
<1>8. nothing \in Seq(Hits) /\ DOMAIN nothing = {} /\ Len(nothing) = 0 OBVIOUS
<1>9. FoundOK(call, globTree, touched, nothing) /\ PathsOf(nothing) = {}
  <2> HIDE DEF nothing
  <2>1. QED BY <1>8 DEF FoundOK, Once, PathsOf
<1> HIDE DEF nothing
<1>10. v \in Walks BY <1>5, <1>8 DEF Walks
<1>11. WalkOK(v, globTree, touched) BY <1>6, <1>7, <1>9, <1>10 DEF WalkOK, SteadyIn
<1> HIDE DEF v
<1>12. QED BY <1>1, <1>11, WalkGoesOn

\* A walk that leaves its last frame says so, or has nothing ahead there, or none that it
\* may not miss.
LEMMA WalkLeaves ==
    ASSUME NEW w, NEW tree, NEW hit, WalkOK(w, tree, hit), w.frames # <<>>,
           NEW truncated \in BOOLEAN, w.truncated => truncated,
           truncated => Len(w.found) >= MaxCollected,
           NEW unread \in SUBSET (GlobPaths \cup {<<>>}), w.unread \subseteq unread,
           ~truncated => Ahead(Last(w.frames)) \cap SteadyIn(tree, hit, unread) = {},
           NEW v, v = [w EXCEPT !.frames = Front(@), !.truncated = truncated, !.unread = unread]
    PROVE  WalkOK(v, tree, hit)
<1> DEFINE f == Front(w.frames)
<1>1. w \in Walks /\ FramesOK(w.call, tree, hit, w.frames) BY DEF WalkOK
<1>2. /\ FramesOK(w.call, tree, hit, f)
      /\ AllAhead(w.frames) = AllAhead(f) \cup Ahead(Last(w.frames))
  BY <1>1, FrameLeaves
<1>3. f \in Seq(Frames) BY <1>2 DEF FramesOK
<1> HIDE DEF f
<1>4. /\ v \in Walks /\ v.call = w.call /\ v.frames = f /\ v.found = w.found
      /\ v.truncated = truncated /\ v.unread = unread
  BY <1>1, <1>3 DEF Walks, f
<1>5. FoundOK(v.call, tree, hit, v.found) /\ FramesOK(v.call, tree, hit, v.frames) BY <1>2, <1>4 DEF WalkOK
<1>6. PathsOf(v.found) \cap AllAhead(v.frames) = {} BY <1>2, <1>4 DEF WalkOK
<1>7. SteadyIn(tree, hit, unread) \subseteq SteadyIn(tree, hit, w.unread) BY DEF SteadyIn
<1>8. ASSUME ~truncated, NEW p \in SteadyIn(tree, hit, unread), Meant(w.call, p)
      PROVE  p \in PathsOf(w.found) \cup AllAhead(f)
  <2>1. p \in PathsOf(w.found) \cup AllAhead(w.frames) BY <1>7, <1>8 DEF WalkOK
  <2>2. p \notin Ahead(Last(w.frames)) BY <1>8
  <2>3. QED BY <1>2, <2>1, <2>2
<1>9. QED BY <1>4, <1>5, <1>6, <1>8 DEF WalkOK

LEMMA CeilingKeeps ==
    ASSUME WalkInv, CeilingReached
    PROVE  WalkInv'
<1>1. WalkOK(walk, globTree, touched) /\ walk.frames # <<>> BY DEF CeilingReached, Walking, WalkInv, NoWalk
<1>2. walk' = [walk EXCEPT !.truncated = TRUE, !.frames = Front(@)] /\ OnlyWalk /\ Len(walk.found) >= MaxCollected
  BY DEF CeilingReached, Return, Full
<1>3. walk \in Walks BY <1>1 DEF WalkOK
<1>4. walk.unread \in SUBSET (GlobPaths \cup {<<>>}) BY <1>3 DEF Walks
<1>5. walk' = [walk EXCEPT !.frames = Front(@), !.truncated = TRUE, !.unread = walk.unread]
  BY <1>2, <1>3 DEF Walks
<1>6. WalkOK(walk', globTree, touched) BY <1>1, <1>2, <1>4, <1>5, WalkLeaves
<1>7. QED BY <1>2, <1>6, WalkGoesOn

LEMMA DirectoryEndKeeps ==
    ASSUME WalkInv, DirectoryEnds
    PROVE  WalkInv'
<1>1. WalkOK(walk, globTree, touched) /\ walk.frames # <<>> BY DEF DirectoryEnds, Walking, WalkInv, NoWalk
<1>2. walk' = [walk EXCEPT !.frames = Front(@)] /\ OnlyWalk /\ Frame.read /\ Frame.left = <<>>
  BY DEF DirectoryEnds, Return
<1>3. walk \in Walks BY <1>1 DEF WalkOK
<1>4. walk.unread \in SUBSET (GlobPaths \cup {<<>>}) /\ walk.truncated \in BOOLEAN BY <1>3 DEF Walks
<1>5. walk' = [walk EXCEPT !.frames = Front(@), !.truncated = walk.truncated, !.unread = walk.unread]
  BY <1>2, <1>3 DEF Walks
<1>6. Ahead(Last(walk.frames)) = {} BY <1>2 DEF Ahead, Frame
<1>7. WalkOK(walk', globTree, touched)
  <2>1. walk.truncated => Len(walk.found) >= MaxCollected BY <1>1 DEF WalkOK
  <2>2. QED BY <1>1, <1>4, <1>5, <1>6, <2>1, WalkLeaves
<1>8. QED BY <1>2, <1>7, WalkGoesOn

\* What is below a directory is what is on the way through one of its children.
LEMMA ThroughChildren ==
    ASSUME NEW p \in GlobPaths, NEW d
    PROVE  /\ d \in DirsAbove(p) => \E q \in On(p) \cap GlobPaths : Front(q) = d
           /\ \A q \in On(p) \cap GlobPaths : Front(q) = d => d \in DirsAbove(p)
           /\ \A q, r \in On(p) \cap GlobPaths : Front(q) = Front(r) => q = r
<1>1. p \in Names /\ p # <<>> BY PathsAre
<1>2. \A q \in On(p) : q # <<>> => q \in GlobPaths BY PathsAre DEF On
<1>3. ASSUME d \in DirsAbove(p) PROVE \E q \in On(p) \cap GlobPaths : Front(q) = d
  BY <1>1, <1>2, <1>3, Ways
<1>4. ASSUME NEW q \in On(p) \cap GlobPaths, Front(q) = d PROVE d \in DirsAbove(p)
  <2>1. q \in Names /\ q # <<>> BY PathsAre
  <2>2. d \in DirsAbove(q) BY <1>4, <2>1, Ways DEF On
  <2>3. QED BY <1>1, <2>2, Ways
<1>5. ASSUME NEW q \in On(p) \cap GlobPaths, NEW r \in On(p) \cap GlobPaths, Front(q) = Front(r) PROVE q = r
  <2>1. \A x \in GlobPaths : Len(x) \in Nat /\ Len(Front(x)) = Len(x) - 1
    <3> TAKE x \in GlobPaths
    <3>1. x \in Names /\ x # <<>> BY PathsAre
    <3>2. Len(x) \in Nat \ {0} BY <3>1, EmptySeq DEF Names
    <3>3. Len(x) - 1 \in 0 .. Len(x) BY <3>2
    <3>4. QED BY <3>1, <3>2, <3>3, Beginnings DEF Front
  <2>2. Len(q) = Len(r)
    <3>1. Len(q) - 1 = Len(r) - 1 /\ Len(q) \in Nat /\ Len(r) \in Nat BY <1>5, <2>1
    <3>2. QED BY <3>1
  <2>3. QED BY <1>1, <2>2, Ways
<1>6. QED BY <1>3, <1>4, <1>5

\* A directory that is read: its children are what was ahead, each once.
LEMMA ReadKeeps ==
    ASSUME WalkInv, ReadDirectory
    PROVE  WalkInv'
<1>1. WalkOK(walk, globTree, touched) /\ walk.frames # <<>>
  BY DEF ReadDirectory, Walking, WalkInv, NoWalk
<1>2. OnlyWalk /\ ~Frame.read /\ GlobTree(globTree) BY DEF ReadDirectory, WalkInv
<1> DEFINE w == walk
           n == Len(walk.frames)
           f == Frame
           d == f.dir
           C == Children(d)
<1>3. /\ w \in Walks /\ FramesOK(w.call, globTree, touched, w.frames) /\ FoundOK(w.call, globTree, touched, w.found)
      /\ PathsOf(w.found) \cap AllAhead(w.frames) = {}
  BY <1>1 DEF WalkOK
<1>4. FrameOK(w.call, globTree, touched, f) /\ AllAhead(w.frames) = AllAhead(Front(w.frames)) \cup Ahead(f)
  BY <1>1, <1>3, FrameLeaves DEF Frame
<1>5. Ahead(f) = Below(d) BY <1>2 DEF Ahead
<1>6. ASSUME NEW order \in SetToSeqs(C),
             walk' = [walk EXCEPT !.frames[n] =
                        [dir |-> d, read |-> TRUE,
                         left |-> [i \in DOMAIN order |-> [path |-> order[i], kind |-> KindAt(order[i])]]]]
      PROVE  WalkInv'
  <2> DEFINE m == Cardinality(C)
             left == [i \in 1 .. m |-> [path |-> order[i], kind |-> globTree[order[i]].kind]]
             g == [dir |-> d, read |-> TRUE, left |-> left]
             frames == [w.frames EXCEPT ![n] = g]
             v == [w EXCEPT !.frames = frames]
  <2>1. IsFiniteSet(C) /\ C \subseteq GlobPaths
    <3>1. C \subseteq GlobPaths BY DEF Children
    <3>2. QED BY <3>1, PathsAre, FS_Subset
  <2>2. m \in Nat BY <2>1, FS_CardinalityType
  <2>3. /\ order \in [1 .. m -> C] /\ DOMAIN order = 1 .. m
        /\ \A i, j \in 1 .. m : order[i] = order[j] => i = j
    <3> HIDE DEF C
    <3>1. QED BY DEF SetToSeqs
  <2>4. \A q \in C : \E i \in 1 .. m : order[i] = q
    <3> HIDE DEF C
    <3>1. order \in Injection(1 .. m, C) BY <2>3 DEF Injection, IsInjective
    <3>2. Cardinality(1 .. m) = m /\ IsFiniteSet(1 .. m)
      <4> HIDE DEF m
      <4>1. QED BY <2>2, FS_Interval
    <3>3. order \in Surjection(1 .. m, C) BY <2>1, <3>1, <3>2, FS_Injection
    <3>4. QED BY <3>3 DEF Surjection
  <2>5. \A q \in C : /\ q \in GlobPaths /\ Front(q) = d /\ KindAt(q) = globTree[q].kind
                     /\ globTree[q].kind \in {"file", "dir"}
    <3> TAKE q \in C
    <3>1. q \in GlobPaths /\ Front(q) = d /\ KindAt(q) # "none" /\ q # <<>> BY PathsAre DEF Children
    <3>2. KindAt(q) = globTree[q].kind BY <3>1 DEF KindAt
    <3>3. globTree[q] \in [kind : {"file", "dir"}, mtime : Nat] \cup {Absent} BY <1>2, <3>1 DEF GlobTree
    <3>4. QED BY <3>1, <3>2, <3>3 DEF Absent
  <2>6. \A i \in 1 .. m : order[i] \in C BY <2>3
  <2> HIDE DEF C, m
  <2>7. left \in Seq(Entry)
    <3>1. \A i \in 1 .. m : [path |-> order[i], kind |-> globTree[order[i]].kind] \in Entry
      BY <2>5, <2>6 DEF Entry
    <3>2. left \in [1 .. m -> Entry] BY <3>1
    <3> HIDE DEF left
    <3>3. QED BY <2>2, <3>2, SeqDef
  <2>8. /\ DOMAIN left = 1 .. m
        /\ \A i \in 1 .. m : left[i].path = order[i] /\ left[i].kind = globTree[order[i]].kind
    OBVIOUS
  <2>9. walk' = v
    <3>1. [i \in DOMAIN order |-> [path |-> order[i], kind |-> KindAt(order[i])]] = left
      BY <2>3, <2>5, <2>6
    <3> HIDE DEF left, f
    <3>2. QED BY <1>6, <3>1
  <2> HIDE DEF left
  <2>10. d \in GlobPaths \cup {<<>>} /\ Entered(w.call, d) BY <1>4 DEF FrameOK, Frames
  <2>11. FrameOK(w.call, globTree, touched, g)
    <3>1. g \in Frames BY <2>7, <2>10 DEF Frames
    <3>2. /\ \A i \in 1 .. m : Front(left[i].path) = d /\ left[i].kind = globTree[left[i].path].kind
          /\ \A i, j \in 1 .. m : left[i].path = left[j].path => i = j
      BY <2>3, <2>5, <2>6, <2>8
    <3> HIDE DEF f
    <3>3. QED BY <2>8, <2>10, <3>1, <3>2 DEF FrameOK
  <2>12. Ahead(g) = {p \in GlobPaths : \E i \in 1 .. m : order[i] \in On(p)} BY <2>8 DEF Ahead
  <2>13. Ahead(g) \subseteq Ahead(f)
    <3>1. SUFFICES ASSUME NEW p \in GlobPaths, NEW i \in 1 .. m, order[i] \in On(p) PROVE d \in DirsAbove(p)
      BY <1>5, <2>12 DEF Below
    <3>2. order[i] \in On(p) \cap GlobPaths /\ Front(order[i]) = d BY <2>5, <2>6, <3>1
    <3> HIDE DEF f
    <3>3. QED BY <3>2, ThroughChildren
  <2>14. \A p \in Ahead(f) : globTree[p].kind = "file" => p \in Ahead(g)
    <3>1. SUFFICES ASSUME NEW p \in GlobPaths, d \in DirsAbove(p), globTree[p].kind = "file"
                   PROVE  \E i \in 1 .. m : order[i] \in On(p)
      BY <1>5, <2>12 DEF Below
    <3>2. PICK q \in On(p) \cap GlobPaths : Front(q) = d
      <4> HIDE DEF f
      <4>1. QED BY <3>1, ThroughChildren
    <3>3. KindAt(q) # "none"
      <4>1. q # <<>> BY PathsAre
      <4>2. CASE q = p BY <3>1, <4>1, <4>2 DEF KindAt
      <4>3. CASE q \in DirsAbove(p)
        <5>1. KindIn(globTree, q) = "dir" BY <1>2, <3>1, <4>3, DirsAreAbove
        <5>2. QED BY <4>1, <5>1 DEF KindIn, KindAt
      <4>4. QED BY <4>2, <4>3 DEF On
    <3>4. q \in C BY <3>2, <3>3 DEF C, Children
    <3>5. QED BY <2>4, <3>2, <3>4
  <2> HIDE DEF g
  <2>15. /\ FramesOK(w.call, globTree, touched, frames) /\ frames \in Seq(Frames)
         /\ AllAhead(frames) = AllAhead(Front(w.frames)) \cup Ahead(g)
    <3>1. w.frames # <<>> /\ f = Last(w.frames) BY <1>1 DEF Frame
    <3>2. Ahead(g) \subseteq Ahead(Last(w.frames)) BY <2>13, <3>1
    <3> HIDE DEF f, w
    <3>3. QED BY <1>3, <2>11, <3>1, <3>2, FrameChanges DEF w
  <2> HIDE DEF frames
  <2>16. /\ v \in Walks /\ v.frames = frames /\ v.call = w.call /\ v.found = w.found
         /\ v.truncated = w.truncated /\ v.unread = w.unread
    BY <1>3, <2>15 DEF Walks
  <2>17. ASSUME ~w.truncated, NEW p \in SteadyIn(globTree, touched, w.unread), Meant(w.call, p)
         PROVE  p \in PathsOf(w.found) \cup AllAhead(frames)
    <3>1. p \in PathsOf(w.found) \cup AllAhead(w.frames) BY <1>1, <2>17 DEF WalkOK
    <3>2. globTree[p].kind = "file" BY DEF SteadyIn
    <3> HIDE DEF f
    <3>3. QED BY <1>4, <2>14, <2>15, <3>1, <3>2
  <2>18. PathsOf(w.found) \cap AllAhead(frames) = {}
    <3> HIDE DEF f
    <3>1. QED BY <1>3, <1>4, <2>13, <2>15
  <2> HIDE DEF v
  <2>19. WalkOK(v, globTree, touched) BY <1>1, <1>3, <2>15, <2>16, <2>17, <2>18 DEF WalkOK
  <2>20. WalkOK(walk', globTree, touched) BY <2>9, <2>19
  <2>21. QED BY <1>2, <2>20, WalkGoesOn
<1>7. ASSUME walk' = Return([walk EXCEPT !.unread = @ \cup {f.dir}])
      PROVE  WalkInv'
  <2> DEFINE unread == w.unread \cup {d}
  <2>1. unread \in SUBSET (GlobPaths \cup {<<>>}) /\ w.unread \subseteq unread /\ w.truncated \in BOOLEAN
    <3>1. d \in GlobPaths \cup {<<>>} BY <1>4 DEF FrameOK, Frames
    <3>2. w.unread \in SUBSET (GlobPaths \cup {<<>>}) /\ w.truncated \in BOOLEAN BY <1>3 DEF Walks
    <3> HIDE DEF f, w
    <3>3. QED BY <3>1, <3>2
  <2>2. Ahead(Last(w.frames)) \cap SteadyIn(globTree, touched, unread) = {}
    <3>1. \A p \in Below(d) : p \notin SteadyIn(globTree, touched, unread) BY DEF Below, SteadyIn
    <3>2. QED BY <1>5, <3>1 DEF Frame
  <2> HIDE DEF unread
  <2>3. walk' = [w EXCEPT !.frames = Front(@), !.truncated = w.truncated, !.unread = unread]
    <3>1. walk' = [w EXCEPT !.unread = unread, !.frames = Front(@)] BY <1>7 DEF Return, unread
    <3>2. QED BY <1>3, <3>1 DEF Walks
  <2>4. w.truncated => Len(w.found) >= MaxCollected BY <1>1 DEF WalkOK
  <2>5. WalkOK(w, globTree, touched) /\ w.frames # <<>> BY <1>1
  <2> HIDE DEF w, f
  <2>6. WalkOK(walk', globTree, touched) BY <2>1, <2>2, <2>3, <2>4, <2>5, WalkLeaves
  <2>7. QED BY <1>2, <2>6, WalkGoesOn
<1>8. QED BY <1>6, <1>7 DEF ReadDirectory

\* A frame without the first of its entries leads to all it did, but through that one.
LEMMA EntryLeaves ==
    ASSUME NEW call, NEW tree, NEW hit, NEW f, FrameOK(call, tree, hit, f), f.read, f.left # <<>>
    PROVE  LET e == Head(f.left)
               g == [f EXCEPT !.left = Tail(@)]
           IN  /\ e \in Entry /\ Front(e.path) = f.dir
               /\ e.path \notin hit => e.kind = tree[e.path].kind
               /\ FrameOK(call, tree, hit, g) /\ Ahead(g) \subseteq Ahead(f)
               /\ \A p \in GlobPaths : e.path \in On(p) => p \in Ahead(f) /\ p \notin Ahead(g)
               /\ \A p \in Ahead(f) \ Ahead(g) : e.path \in On(p)
<1> DEFINE left == f.left
           n == Len(left)
           e == Head(left)
           tail == Tail(left)
           g == [f EXCEPT !.left = tail]
<1>1. f \in Frames /\ left \in Seq(Entry) /\ left # <<>> BY DEF FrameOK, Frames
<1>2. /\ n \in Nat \ {0} /\ DOMAIN left = 1 .. n /\ e = left[1] /\ e \in Entry
      /\ tail \in Seq(Entry) /\ DOMAIN tail = 1 .. n - 1 /\ \A i \in 1 .. n - 1 : tail[i] = left[i + 1]
  <2> HIDE DEF left
  <2>1. QED BY <1>1
<1>3. /\ \A i \in 1 .. n : /\ Front(left[i].path) = f.dir /\ left[i].path \in GlobPaths
                           /\ left[i].path \notin hit => left[i].kind = tree[left[i].path].kind
      /\ \A i, j \in 1 .. n : left[i].path = left[j].path => i = j
  <2>1. \A i \in 1 .. n : left[i] \in Entry BY <1>1
  <2> HIDE DEF n
  <2>2. QED BY <1>2, <2>1 DEF FrameOK, Entry
<1>4. /\ g \in Frames /\ g.dir = f.dir /\ g.read /\ g.left = tail
  <2> HIDE DEF tail
  <2>1. QED BY <1>1, <1>2 DEF Frames
<1>5. \A i \in 1 .. n - 1 : i + 1 \in 1 .. n BY <1>2
<1>6. 1 \in 1 .. n BY <1>2
<1> HIDE DEF g, tail, e, n, left
<1>7. FrameOK(call, tree, hit, g)
  <2>1. \A i, j \in 1 .. n - 1 : left[i + 1].path = left[j + 1].path => i = j
    <3> TAKE i, j \in 1 .. n - 1
    <3>1. SUFFICES ASSUME left[i + 1].path = left[j + 1].path PROVE i = j OBVIOUS
    <3>2. i + 1 = j + 1 BY <1>3, <1>5, <3>1
    <3>3. QED BY <3>2
  <2>2. Entered(call, g.dir) BY <1>4 DEF FrameOK
  <2>3. \A i \in 1 .. n - 1 : /\ Front(tail[i].path) = f.dir
                              /\ tail[i].path \notin hit => tail[i].kind = tree[tail[i].path].kind
    BY <1>2, <1>3, <1>5
  <2>4. \A i, j \in 1 .. n - 1 : tail[i].path = tail[j].path => i = j BY <1>2, <2>1
  <2>5. QED BY <1>2, <1>4, <2>2, <2>3, <2>4 DEF FrameOK
<1>8. Ahead(f) = {p \in GlobPaths : \E i \in 1 .. n : left[i].path \in On(p)}
  BY <1>2 DEF Ahead, left
<1>9. Ahead(g) = {p \in GlobPaths : \E i \in 1 .. n - 1 : left[i + 1].path \in On(p)}
  <2>1. Ahead(g) = {p \in GlobPaths : \E i \in 1 .. n - 1 : tail[i].path \in On(p)} BY <1>2, <1>4 DEF Ahead
  <2>2. QED BY <1>2, <2>1
<1>10. Ahead(g) \subseteq Ahead(f) BY <1>5, <1>8, <1>9
<1>11. ASSUME NEW p \in GlobPaths, e.path \in On(p) PROVE p \in Ahead(f) /\ p \notin Ahead(g)
  <2>1. p \in Ahead(f) BY <1>2, <1>6, <1>8, <1>11
  <2>2. ASSUME NEW i \in 1 .. n - 1, left[i + 1].path \in On(p) PROVE FALSE
    <3>1. left[i + 1].path \in On(p) \cap GlobPaths /\ left[1].path \in On(p) \cap GlobPaths
      BY <1>2, <1>3, <1>5, <1>6, <1>11, <2>2
    <3>2. Front(left[i + 1].path) = Front(left[1].path) BY <1>3, <1>5, <1>6
    <3>3. left[i + 1].path = left[1].path BY <3>1, <3>2, ThroughChildren
    <3>4. i + 1 = 1 BY <1>3, <1>5, <1>6, <3>3
    <3>5. QED BY <3>4
  <2>3. QED BY <1>9, <2>1, <2>2
<1>12. ASSUME NEW p \in Ahead(f) \ Ahead(g) PROVE e.path \in On(p)
  <2>1. PICK i \in 1 .. n : left[i].path \in On(p) BY <1>8
  <2>2. p \in GlobPaths BY <1>8
  <2>3. CASE i = 1 BY <1>2, <2>1, <2>3
  <2>4. CASE i # 1
    <3>1. i - 1 \in 1 .. n - 1 /\ i - 1 + 1 = i BY <1>2, <2>4
    <3>2. p \in Ahead(g) BY <1>9, <2>1, <2>2, <3>1
    <3>3. QED BY <3>2
  <2>5. QED BY <2>3, <2>4
<1>13. /\ e \in Entry /\ Front(e.path) = f.dir
       /\ e.path \notin hit => e.kind = tree[e.path].kind
  BY <1>2, <1>3, <1>6
<1>14. g = [f EXCEPT !.left = Tail(@)] BY Zenon DEF g, tail, left
<1>15. QED BY <1>7, <1>10, <1>11, <1>12, <1>13, <1>14 DEF e, left

\* An entry that is visited: passed over where an ignored pattern means it, entered where it
\* is a directory, found where it is a file that is meant.
LEMMA VisitKeeps ==
    ASSUME WalkInv, PatternsMean, VisitEntry
    PROVE  WalkInv'
<1> DEFINE w == walk
           n == Len(walk.frames)
           f == Frame
           e == Head(f.left)
           q == e.path
           g == [f EXCEPT !.left = Tail(@)]
           frames == [w.frames EXCEPT ![n] = g]
           after == [w EXCEPT !.frames = frames]
           ignored == Ignored(e)
           matched == MatchesAny(w.call.patterns, JoinChars(q))
           tree == globTree
           hit == touched
           rest == AllAhead(Front(w.frames))
<1>1. WalkOK(w, tree, hit) /\ w.frames # <<>> /\ f = Last(w.frames) /\ f.read /\ f.left # <<>>
  BY DEF VisitEntry, Walking, WalkInv, NoWalk, Frame
<1>2. OnlyWalk /\ GlobTree(tree) BY DEF VisitEntry, WalkInv
<1>3. \/ ignored /\ walk' = after
      \/ ~ignored /\ e.kind = "dir" /\ walk' = [after EXCEPT !.frames = Append(@, Unread(q))]
      \/ /\ ~ignored /\ e.kind = "file"
         /\ walk' = IF matched THEN [after EXCEPT !.found = Append(@, [path |-> q, mtime |-> tree[q].mtime])]
                    ELSE after
  BY Zenon DEF VisitEntry, Frame, Last
<1>4. /\ w \in Walks /\ FramesOK(w.call, tree, hit, w.frames) /\ FoundOK(w.call, tree, hit, w.found)
      /\ PathsOf(w.found) \cap AllAhead(w.frames) = {}
  BY <1>1 DEF WalkOK
<1>5. w.call \in GlobCalls /\ w.found \in Seq(Hits) BY <1>4 DEF Walks
<1>6. /\ FrameOK(w.call, tree, hit, f) /\ AllAhead(w.frames) = rest \cup Ahead(f) /\ rest \cap Ahead(f) = {}
  BY <1>1, <1>4, FrameLeaves
<1>7. /\ e \in Entry /\ Front(q) = f.dir
      /\ q \notin hit => e.kind = tree[q].kind
      /\ FrameOK(w.call, tree, hit, g) /\ Ahead(g) \subseteq Ahead(f)
      /\ \A p \in GlobPaths : q \in On(p) => p \in Ahead(f) /\ p \notin Ahead(g)
      /\ \A p \in Ahead(f) \ Ahead(g) : q \in On(p)
  <2> HIDE DEF f
  <2>1. QED BY <1>1, <1>6, EntryLeaves
<1>8. q \in GlobPaths /\ q \in Names /\ q # <<>> /\ e.kind \in {"file", "dir"} BY <1>7, PathsAre DEF Entry
<1>9. DirsAbove(q) = On(f.dir) BY <1>7, <1>8, Ways
<1>10. Entered(w.call, f.dir) BY <1>6 DEF FrameOK
<1> HIDE DEF f, q, g
<1>11. /\ FramesOK(w.call, tree, hit, frames) /\ frames \in Seq(Frames) /\ AllAhead(frames) = rest \cup Ahead(g)
  <2>1. Ahead(g) \subseteq Ahead(Last(w.frames)) BY <1>1, <1>7
  <2> HIDE DEF w
  <2>2. QED BY <1>1, <1>4, <1>7, <2>1, FrameChanges DEF w
<1>12. /\ ignored <=> \/ \E pattern \in w.call.ignore : Means(pattern, q)
                      \/ e.kind = "dir" /\ \E pattern \in w.call.ignore : Means(pattern, Append(q, <<>>))
       /\ matched <=> \E pattern \in w.call.patterns : Means(pattern, q)
  <2>1. e.path = q BY DEF q
  <2> HIDE DEF e
  <2>2. QED BY <1>5, <1>8, <2>1, MatchIs DEF Ignored
<1> HIDE DEF e, frames, ignored, matched, rest
<1>13. /\ after \in Walks /\ after.frames = frames /\ after.call = w.call /\ after.found = w.found
       /\ after.truncated = w.truncated /\ after.unread = w.unread
  BY <1>4, <1>11 DEF Walks
<1>14. PathsOf(w.found) \cap AllAhead(frames) = {} BY <1>4, <1>6, <1>7, <1>11
\* What is wanted is found or ahead, or it is on the way through the entry.
<1>15. ASSUME ~w.truncated, NEW p \in SteadyIn(tree, hit, w.unread), Meant(w.call, p)
       PROVE  p \in PathsOf(w.found) \cup AllAhead(frames) \/ q \in On(p)
  <2>1. p \in PathsOf(w.found) \cup AllAhead(w.frames) BY <1>1, <1>15 DEF WalkOK
  <2>2. QED BY <1>6, <1>7, <1>11, <2>1
\* If it is, the entry is what it seems to be, and not ignored.
<1>16. ASSUME NEW p \in SteadyIn(tree, hit, w.unread), Meant(w.call, p), q \in On(p)
       PROVE  /\ q = p => e.kind = "file"
              /\ q # p => e.kind = "dir" /\ q \in DirsAbove(p)
              /\ ~ignored
  <2>1. p \in GlobPaths /\ tree[p].kind = "file" /\ On(p) \cap hit = {} BY DEF SteadyIn
  <2>2. q \notin hit BY <1>16, <2>1
  <2>3. q = p => e.kind = "file" BY <1>7, <2>1, <2>2
  <2>4. ASSUME q # p PROVE q \in DirsAbove(p) /\ e.kind = "dir"
    <3>1. q \in DirsAbove(p) BY <1>16, <2>4 DEF On
    <3>2. KindIn(tree, q) = "dir" BY <1>2, <2>1, <3>1, DirsAreAbove
    <3>3. QED BY <1>7, <1>8, <2>2, <3>1, <3>2 DEF KindIn
  <2>5. ~ignored
    <3>1. CASE q = p BY <1>12, <1>16, <2>3, <3>1 DEF Meant
    <3>2. CASE q # p
      <4>1. q \in DirsAbove(p) \ {<<>>} BY <1>8, <2>4, <3>2
      <4>2. \A pattern \in w.call.ignore : ~Means(pattern, q) /\ ~Means(pattern, Append(q, <<>>))
        BY <1>16, <4>1 DEF Meant
      <4>3. QED BY <1>12, <4>2
    <3>3. QED BY <3>1, <3>2
  <2>6. QED BY <2>3, <2>4, <2>5
\* Where it leads nowhere, the entry is passed over.
<1>17. ASSUME walk' = after, ignored \/ (e.kind = "file" /\ ~matched)
       PROVE  WalkOK(walk', tree, hit)
  <2>1. ASSUME ~w.truncated, NEW p \in SteadyIn(tree, hit, w.unread), Meant(w.call, p)
        PROVE  p \in PathsOf(w.found) \cup AllAhead(frames)
    <3>1. ASSUME q \in On(p) PROVE FALSE
      <4>1. q = p /\ ~matched BY <1>16, <1>17, <2>1, <3>1
      <4>2. QED BY <1>12, <2>1, <4>1 DEF Meant
    <3>2. QED BY <1>15, <2>1, <3>1
  <2> HIDE DEF after
  <2>2. WalkOK(after, tree, hit) BY <1>1, <1>4, <1>11, <1>13, <1>14, <2>1 DEF WalkOK
  <2>3. QED BY <1>17, <2>2
<1>18. ASSUME ~ignored, e.kind = "dir", walk' = [after EXCEPT !.frames = Append(@, Unread(q))]
       PROVE  WalkOK(walk', tree, hit)
  <2> DEFINE h == Unread(q)
             new == Append(frames, h)
             v == [w EXCEPT !.frames = new]
  <2>1. FrameOK(w.call, tree, hit, h)
    <3>1. h \in Frames /\ h.dir = q /\ DOMAIN h.left = {} BY <1>8 DEF Frames, Unread
    <3>2. Entered(w.call, q)
      <4>1. On(q) = {q} \cup On(f.dir) BY <1>9 DEF On
      <4>2. \A pattern \in w.call.ignore : ~Means(pattern, q) /\ ~Means(pattern, Append(q, <<>>))
        BY <1>12, <1>18
      <4>3. QED BY <1>10, <4>1, <4>2 DEF Entered
    <3> HIDE DEF h
    <3>3. QED BY <3>1, <3>2 DEF FrameOK
  <2>2. Ahead(h) = Below(q) BY DEF Ahead, Unread
  <2>3. \A p \in Below(q) : p \in Ahead(f) /\ p \notin Ahead(g) BY <1>7 DEF Below, On
  <2> HIDE DEF h
  <2>4. AllAhead(frames) \cap Ahead(h) = {} BY <1>6, <1>11, <2>2, <2>3
  <2>5. /\ FramesOK(w.call, tree, hit, new) /\ AllAhead(new) = AllAhead(frames) \cup Ahead(h)
    BY <1>11, <2>1, <2>4, FrameEnters
  <2>6. new \in Seq(Frames) BY <2>5 DEF FramesOK
  <2>7. PathsOf(w.found) \cap AllAhead(new) = {} BY <1>4, <1>6, <1>14, <2>2, <2>3, <2>5
  <2> HIDE DEF new
  <2>8. /\ v \in Walks /\ v.frames = new /\ v.call = w.call /\ v.found = w.found
        /\ v.truncated = w.truncated /\ v.unread = w.unread
    BY <1>4, <2>6 DEF Walks
  <2>9. walk' = v
    <3>1. walk' = [w EXCEPT !.frames = Append(frames, Unread(q))] BY <1>4, <1>11, <1>18 DEF Walks
    <3>2. QED BY <3>1 DEF new, h
  <2>10. ASSUME ~w.truncated, NEW p \in SteadyIn(tree, hit, w.unread), Meant(w.call, p)
         PROVE  p \in PathsOf(w.found) \cup AllAhead(new)
    <3>1. ASSUME q \in On(p) PROVE p \in Ahead(h)
      <4>1. q # p BY <1>16, <1>18, <2>10, <3>1
      <4>2. q \in DirsAbove(p) BY <1>16, <2>10, <3>1, <4>1
      <4>3. QED BY <2>2, <4>2 DEF Below, SteadyIn
    <3>2. QED BY <1>15, <2>5, <2>10, <3>1
  <2> HIDE DEF v
  <2>11. WalkOK(v, tree, hit) BY <1>1, <1>4, <2>5, <2>7, <2>8, <2>10 DEF WalkOK
  <2>12. QED BY <2>9, <2>11
<1>19. ASSUME ~ignored, e.kind = "file", matched,
              walk' = [after EXCEPT !.found = Append(@, [path |-> q, mtime |-> tree[q].mtime])]
       PROVE  WalkOK(walk', tree, hit)
  <2> DEFINE x == [path |-> q, mtime |-> tree[q].mtime]
             found == w.found
             m == Len(found)
             new == Append(found, x)
             v == [after EXCEPT !.found = new]
  <2>1. x \in Hits /\ x.path = q /\ x.mtime = tree[q].mtime
    <3>1. tree[q] \in [kind : {"file", "dir"}, mtime : Nat] \cup {Absent} BY <1>2, <1>8 DEF GlobTree
    <3>2. tree[q].mtime \in Nat BY <3>1 DEF Absent
    <3>3. QED BY <1>8, <3>2 DEF Hits
  <2> HIDE DEF x
  <2>2. /\ new \in Seq(Hits) /\ m \in Nat /\ DOMAIN found = 1 .. m /\ DOMAIN new = 1 .. m + 1 /\ Len(new) = m + 1
        /\ new[m + 1] = x /\ \A i \in 1 .. m : new[i] = found[i]
    BY <1>5, <2>1
  <2>3. PathsOf(new) = PathsOf(found) \cup {q}
    <3>1. \A i \in 1 .. m + 1 : i = m + 1 \/ i \in 1 .. m BY <2>2
    <3>2. 1 .. m \subseteq 1 .. m + 1 /\ m + 1 \in 1 .. m + 1 BY <2>2
    <3> HIDE DEF new, found
    <3>3. QED BY <2>1, <2>2, <3>1, <3>2 DEF PathsOf
  <2>4. q \in Ahead(f) /\ q \notin Ahead(g) BY <1>7, <1>8 DEF On
  <2>5. q \notin PathsOf(found) BY <1>4, <1>6, <2>4
  <2>6. Meant(w.call, q)
    <3>1. \E pattern \in w.call.patterns : Means(pattern, q) BY <1>12, <1>19
    <3>2. \A pattern \in w.call.ignore : ~Means(pattern, q) BY <1>12, <1>19
    <3>3. \A pattern \in w.call.ignore, d \in DirsAbove(q) \ {<<>>} :
              ~Means(pattern, d) /\ ~Means(pattern, Append(d, <<>>))
      BY <1>9, <1>10 DEF Entered
    <3>4. QED BY <3>1, <3>2, <3>3 DEF Meant
  <2>7. \A i \in 1 .. m : found[i].path # q BY <2>2, <2>5 DEF PathsOf
  <2>8. FoundOK(w.call, tree, hit, new)
    <3>1. /\ \A i \in 1 .. m : /\ Meant(w.call, found[i].path)
                               /\ found[i].path \notin hit =>
                                      tree[found[i].path].kind = "file" /\ tree[found[i].path].mtime = found[i].mtime
          /\ \A i, j \in 1 .. m : found[i].path = found[j].path => i = j
      BY <1>4, <2>2 DEF FoundOK, Once
    <3>2. \A i \in 1 .. m + 1 : i = m + 1 \/ i \in 1 .. m BY <2>2
    <3>3. q \notin hit => tree[q].kind = "file" BY <1>7, <1>19
    <3> HIDE DEF new, found, m
    <3>4. ASSUME NEW i \in 1 .. m + 1
          PROVE  /\ Meant(w.call, new[i].path)
                 /\ new[i].path \notin hit =>
                        tree[new[i].path].kind = "file" /\ tree[new[i].path].mtime = new[i].mtime
      BY <2>1, <2>2, <2>6, <3>1, <3>2, <3>3
    <3>5. ASSUME NEW i \in 1 .. m + 1, NEW j \in 1 .. m + 1, new[i].path = new[j].path PROVE i = j
      BY <2>1, <2>2, <2>7, <3>1, <3>2, <3>5
    <3>6. QED BY <2>2, <3>4, <3>5 DEF FoundOK, Once
  <2>9. PathsOf(new) \cap AllAhead(frames) = {}
    <3>1. q \notin AllAhead(frames) BY <1>6, <1>11, <2>4
    <3>2. QED BY <1>14, <2>3, <3>1
  <2>10. w.truncated => Len(new) >= MaxCollected
    <3>1. w.truncated => m >= MaxCollected BY <1>1 DEF WalkOK
    <3>2. MaxCollected \in Nat BY GlobAssumption
    <3>3. QED BY <2>2, <3>1, <3>2
  <2> HIDE DEF new
  <2>11. /\ v \in Walks /\ v.frames = frames /\ v.call = w.call /\ v.found = new
         /\ v.truncated = w.truncated /\ v.unread = w.unread
    <3> HIDE DEF after
    <3>1. QED BY <1>13, <2>2 DEF Walks
  <2>12. walk' = v
    <3>1. after.found = found BY <1>13
    <3> HIDE DEF after
    <3>2. QED BY <1>19, <3>1 DEF new, x
  <2>13. ASSUME ~w.truncated, NEW p \in SteadyIn(tree, hit, w.unread), Meant(w.call, p)
         PROVE  p \in PathsOf(new) \cup AllAhead(frames)
    <3>1. ASSUME q \in On(p) PROVE p = q BY <1>16, <1>19, <2>13, <3>1
    <3>2. QED BY <1>15, <2>3, <2>13, <3>1
  <2> HIDE DEF v
  <2>14. WalkOK(v, tree, hit) BY <1>11, <2>8, <2>9, <2>10, <2>11, <2>13 DEF WalkOK
  <2>15. QED BY <2>12, <2>14
<1>20. WalkOK(walk', tree, hit)
  <2>1. e.kind \in {"file", "dir"} BY <1>8
  <2> HIDE DEF after
  <2>2. QED BY <1>3, <1>17, <1>18, <1>19, <2>1
<1>21. QED BY <1>2, <1>20, WalkGoesOn

\* Others change one entry, and what was below it goes with it.
LEMMA OtherKeeps ==
    ASSUME WalkInv, NEW path \in GlobPaths, NEW kind \in {"none", "file", "dir"}, NEW mtime \in 1 .. MaxMtime,
           OtherChangesEntry(path, kind, mtime)
    PROVE  WalkInv'
<1> DEFINE tree == globTree
           gone == {p \in GlobPaths : path \in DirsAbove(p) /\ tree[p] # Absent}
           entry == IF kind = "none" THEN Absent ELSE [kind |-> kind, mtime |-> mtime]
           new == [p \in GlobPaths |-> IF p = path THEN entry ELSE IF p \in gone THEN Absent ELSE tree[p]]
           hit == touched \cup gone \cup {path}
<1>1. /\ walk.at = "walking" /\ KindAt(Front(path)) = "dir"
      /\ globTree' = new /\ touched' = hit /\ walk' = walk
  BY DEF OtherChangesEntry
<1>2. GlobTree(tree) /\ WalkOK(walk, tree, touched) BY <1>1 DEF WalkInv, NoWalk
<1>3. entry \in [kind : {"file", "dir"}, mtime : Nat] \cup {Absent}
  <2>1. mtime \in Nat OBVIOUS
  <2>2. QED BY <2>1
<1>4. \A p \in GlobPaths : tree[p] \in [kind : {"file", "dir"}, mtime : Nat] \cup {Absent}
  BY <1>2 DEF GlobTree
<1>5. path \in Names /\ path # <<>> /\ path \notin DirsAbove(path) BY PathsAre, Ways
<1> HIDE DEF entry, gone
<1>6. \A p \in GlobPaths : new[p] = IF p = path THEN entry ELSE IF p \in gone THEN Absent ELSE tree[p]
  OBVIOUS
<1>7. new \in [GlobPaths -> [kind : {"file", "dir"}, mtime : Nat] \cup {Absent}] BY <1>3, <1>4
<1> HIDE DEF new
\* A directory above what is not gone is not touched.
<1>8. ASSUME NEW p \in GlobPaths, path \notin DirsAbove(p), Front(p) # <<>>
      PROVE  Front(p) \in GlobPaths /\ new[Front(p)] = tree[Front(p)]
  <2>1. p \in Names /\ p # <<>> /\ Front(p) \in GlobPaths BY <1>8, PathsAre
  <2>2. DirsAbove(p) = On(Front(p)) BY <2>1, Ways
  <2>3. path # Front(p) /\ path \notin DirsAbove(Front(p)) BY <1>8, <2>2 DEF On
  <2>4. Front(p) \notin gone BY <2>3 DEF gone
  <2>5. QED BY <1>6, <2>1, <2>3, <2>4
<1>9. GlobTree(new)
  <2>1. ASSUME NEW p \in GlobPaths, new[p] # Absent, Front(p) # <<>> PROVE new[Front(p)].kind = "dir"
    <3>1. CASE p = path
      <4>1. new[Front(p)] = tree[Front(p)] BY <1>5, <1>8, <2>1, <3>1
      <4>2. QED BY <1>1, <2>1, <3>1, <4>1 DEF KindAt
    <3>2. CASE p # path
      <4>1. p \notin gone /\ tree[p] # Absent BY <1>6, <2>1, <3>2
      <4>2. path \notin DirsAbove(p) BY <4>1 DEF gone
      <4>3. tree[Front(p)].kind = "dir" BY <1>2, <2>1, <4>1 DEF GlobTree
      <4>4. QED BY <1>8, <2>1, <4>2, <4>3
    <3>3. QED BY <3>1, <3>2
  <2>2. QED BY <1>7, <2>1 DEF GlobTree
<1>10. \A p \in GlobPaths : p \notin hit => p \notin touched /\ new[p] = tree[p] BY <1>6
<1>11. touched \subseteq hit OBVIOUS
<1> HIDE DEF hit
<1>12. \A f : FrameOK(walk.call, tree, touched, f) => FrameOK(walk.call, new, hit, f)
  <2> TAKE f
  <2>1. SUFFICES ASSUME FrameOK(walk.call, tree, touched, f) PROVE FrameOK(walk.call, new, hit, f) OBVIOUS
  <2>2. \A i \in DOMAIN f.left : f.left[i].path \in GlobPaths
    <3>1. f.left \in Seq(Entry) BY <2>1 DEF FrameOK, Frames
    <3>2. \A i \in DOMAIN f.left : f.left[i] \in Entry BY <3>1
    <3>3. QED BY <3>2 DEF Entry
  <2>3. ASSUME NEW i \in DOMAIN f.left, f.left[i].path \notin hit
        PROVE  f.left[i].kind = new[f.left[i].path].kind
    <3>1. f.left[i].path \notin touched /\ new[f.left[i].path] = tree[f.left[i].path] BY <1>10, <2>2, <2>3
    <3>2. QED BY <2>1, <3>1 DEF FrameOK
  <2>4. QED BY <2>1, <2>3 DEF FrameOK
<1>13. FramesOK(walk.call, new, hit, walk.frames)
  <2>1. FramesOK(walk.call, tree, touched, walk.frames) BY <1>2 DEF WalkOK
  <2>2. QED BY <1>12, <2>1 DEF FramesOK
<1>14. FoundOK(walk.call, new, hit, walk.found)
  <2>1. FoundOK(walk.call, tree, touched, walk.found) BY <1>2 DEF WalkOK
  <2>2. \A i \in DOMAIN walk.found : walk.found[i].path \in GlobPaths
    <3>1. walk.found \in Seq(Hits) BY <2>1 DEF FoundOK
    <3>2. \A i \in DOMAIN walk.found : walk.found[i] \in Hits BY <3>1
    <3>3. QED BY <3>2 DEF Hits
  <2>3. ASSUME NEW i \in DOMAIN walk.found, walk.found[i].path \notin hit
        PROVE  /\ new[walk.found[i].path].kind = "file"
               /\ new[walk.found[i].path].mtime = walk.found[i].mtime
    <3>1. walk.found[i].path \notin touched /\ new[walk.found[i].path] = tree[walk.found[i].path]
      BY <1>10, <2>2, <2>3
    <3>2. QED BY <2>1, <3>1 DEF FoundOK
  <2>4. QED BY <2>1, <2>3 DEF FoundOK
<1>15. SteadyIn(new, hit, walk.unread) \subseteq SteadyIn(tree, touched, walk.unread)
  <2>1. SUFFICES ASSUME NEW p \in SteadyIn(new, hit, walk.unread) PROVE p \in SteadyIn(tree, touched, walk.unread)
    OBVIOUS
  <2>2. p \in GlobPaths /\ p \notin hit BY DEF SteadyIn, On
  <2>3. QED BY <1>10, <1>11, <2>2 DEF SteadyIn
<1>16. WalkOK(walk, new, hit) BY <1>2, <1>13, <1>14, <1>15 DEF WalkOK
<1>17. GlobTree(globTree') /\ WalkOK(walk', globTree', touched') /\ walk'.at = "walking" BY <1>1, <1>9, <1>16
<1>18. QED BY <1>17 DEF WalkInv

\* What a walk returns.
LEMMA ReturnKeeps ==
    ASSUME WalkInv, GlobReturns
    PROVE  WalkInv'
<1> DEFINE w == walk
           found == w.found
           n == Len(found)
           sorted == SortFound(found, w.call.byMtime)
           limit == w.call.limit
           m == IF n <= limit THEN n ELSE limit
           files == SubSeq(sorted, 1, m)
           v == [at |-> "done", call |-> w.call, unread |-> w.unread, full |-> Full,
                 files |-> SubSeq(sorted, 1, IF Len(sorted) <= limit THEN Len(sorted) ELSE limit),
                 truncated |-> w.truncated \/ Len(sorted) > limit]
<1>1. WalkOK(w, globTree, touched) /\ w.frames = <<>> BY DEF GlobReturns, WalkInv, NoWalk
<1>2. walk' = v /\ globTree' = globTree /\ touched' = touched BY Zenon DEF GlobReturns, OnlyWalk
<1>3. w \in Walks /\ FoundOK(w.call, globTree, touched, found) BY <1>1 DEF WalkOK
<1>4. found \in Seq(Hits) /\ Once(found) /\ n \in Nat /\ DOMAIN found = 1 .. n BY <1>3 DEF FoundOK
<1>5. limit \in Nat /\ w.call \in GlobCalls BY <1>3, GlobAssumption DEF Walks
<1>6. PICK o \in [1 .. n -> 1 .. n] :
          /\ sorted = [i \in 1 .. n |-> found[o[i]].path]
          /\ \A i, j \in 1 .. n : i < j => ComesBefore(found, w.call.byMtime, o[i], o[j])
          /\ \A k \in 1 .. n : \E i \in 1 .. n : o[i] = k
          /\ \A i, j \in 1 .. n : o[i] = o[j] => i = j
  <2> HIDE DEF w
  <2>1. QED BY <1>4, SortIs
<1> HIDE DEF w, found, sorted, n, limit
<1>7. m \in 0 .. n /\ m <= limit /\ (n <= limit => m = n) BY <1>4, <1>5
<1>8. \A i \in 1 .. n : found[o[i]] \in Hits /\ found[o[i]].path \in GlobPaths
  <2>1. \A i \in 1 .. n : found[i] \in Hits BY <1>4
  <2>2. QED BY <1>6, <2>1 DEF Hits
<1>9. sorted \in Seq(GlobPaths) /\ Len(sorted) = n /\ \A i \in 1 .. n : sorted[i] = found[o[i]].path
  <2>1. sorted \in [1 .. n -> GlobPaths] BY <1>6, <1>8
  <2>2. sorted \in Seq(GlobPaths) BY <1>4, <2>1, SeqDef
  <2>3. DOMAIN sorted = 1 .. n BY <2>1
  <2>4. Len(sorted) = n BY <1>4, <2>2, <2>3, LenProperties
  <2>5. QED BY <1>6, <2>2, <2>4
<1> HIDE DEF m
<1>10. /\ files \in Seq(GlobPaths) /\ Len(files) = m /\ DOMAIN files = 1 .. m /\ m \in Nat
       /\ \A i \in 1 .. m : i \in 1 .. n /\ files[i] = found[o[i]].path
  <2>1. 1 .. m \subseteq 1 .. n /\ m \in Nat BY <1>4, <1>7
  <2>2. \A i \in 1 .. m : sorted[i] \in GlobPaths BY <1>8, <1>9, <2>1
  <2>3. /\ files \in Seq(GlobPaths) /\ Len(files) = m /\ \A i \in 1 .. m : files[i] = sorted[i]
    <3>1. m \in Int /\ 1 \in Int /\ Len(SubSeq(sorted, 1, m)) = (IF 1 <= m THEN m - 1 + 1 ELSE 0)
      BY <2>1, <2>2, SubSeqProperties
    <3>2. \A i \in 1 .. m : m - 1 + 1 = m /\ 1 + i - 1 = i BY <2>1
    <3>3. QED BY <2>1, <2>2, <3>1, <3>2, SubSeqProperties
  <2> HIDE DEF files
  <2>4. DOMAIN files = 1 .. m BY <2>3, LenProperties
  <2>5. QED BY <1>9, <2>1, <2>3, <2>4
<1>11. walk'.at = "done" /\ walk'.call = w.call /\ walk'.unread = w.unread /\ walk'.full = Full
       /\ walk'.files = files /\ walk'.truncated = (w.truncated \/ n > limit)
  BY <1>2, <1>9 DEF m
<1> HIDE DEF files, v
<1>12. Full => Len(w.found) >= MaxCollected
  BY DEF Full, w
<1>13. ~Full => ~w.truncated
  BY <1>1 DEF WalkOK, Full, w
\* The found files by their places.
<1>14. ASSUME NEW f \in ToSet(files)
       PROVE  \E i \in 1 .. m : /\ i \in 1 .. n /\ f = files[i] /\ f = found[o[i]].path /\ f \in GlobPaths
                                /\ Meant(w.call, f)
                                /\ f \notin touched => globTree[f].kind = "file" /\ globTree[f].mtime = found[o[i]].mtime
  <2>1. PICK i \in 1 .. m : f = files[i] BY <1>10 DEF ToSet
  <2>2. i \in 1 .. n /\ f = found[o[i]].path /\ f \in GlobPaths BY <1>8, <1>10, <2>1
  <2>3. o[i] \in DOMAIN found BY <1>4, <1>6, <2>2
  <2>4. QED BY <1>3, <2>1, <2>2, <2>3 DEF FoundOK
<1>15. ASSUME NEW i \in 1 .. n, NEW j \in 1 .. n, i < j, NEW p, NEW q,
              p = found[o[i]].path, q = found[o[j]].path,
              globTree[p].mtime = found[o[i]].mtime, globTree[q].mtime = found[o[j]].mtime
       PROVE  IF w.call.byMtime THEN globTree[p].mtime >= globTree[q].mtime ELSE Rank(p) < Rank(q)
  <2>1. ComesBefore(found, w.call.byMtime, o[i], o[j]) BY <1>6, <1>15
  <2>2. found[o[i]].mtime \in Nat /\ found[o[j]].mtime \in Nat BY <1>8 DEF Hits
  <2>3. QED BY <1>15, <2>1, <2>2 DEF ComesBefore
<1>16. Steady' = SteadyIn(globTree, touched, w.unread)
  BY <1>2, <1>11 DEF Steady, SteadyIn, On
<1>17. ASSUME ~w.truncated, NEW p \in SteadyIn(globTree, touched, w.unread), Meant(w.call, p)
       PROVE  \E k \in 1 .. n : /\ p = found[o[k]].path /\ globTree[p].mtime = found[o[k]].mtime
                                /\ k <= m => p \in ToSet(files)
  <2>1. AllAhead(w.frames) = {} BY <1>1 DEF AllAhead
  <2>2. p \in PathsOf(found) BY <1>1, <1>17, <2>1 DEF WalkOK, found
  <2>3. PICK x \in 1 .. n : found[x].path = p BY <1>4, <2>2 DEF PathsOf
  <2>4. PICK k \in 1 .. n : o[k] = x BY <1>6, <2>3
  <2>5. p \notin touched BY DEF SteadyIn, On
  <2>6. globTree[p].mtime = found[x].mtime BY <1>3, <1>4, <2>3, <2>5 DEF FoundOK
  <2>7. ASSUME k <= m PROVE p \in ToSet(files)
    <3>1. k \in 1 .. m BY <1>10, <2>7
    <3>2. files[k] = p BY <1>10, <2>3, <2>4, <3>1
    <3>3. QED BY <1>10, <3>1, <3>2 DEF ToSet
  <2>8. QED BY <2>3, <2>4, <2>6, <2>7
<1>18. ASSUME ~walk'.truncated, NEW p \in Steady', Meant(w.call, p) PROVE p \in ToSet(files)
  <2>1. ~w.truncated /\ m = n
    <3>1. ~w.truncated /\ ~(n > limit) BY <1>11, <1>18
    <3>2. n <= limit BY <1>4, <1>5, <3>1
    <3>3. QED BY <1>7, <3>1, <3>2
  <2>2. PICK k \in 1 .. n : k <= m => p \in ToSet(files) BY <1>16, <1>17, <1>18, <2>1
  <2>3. QED BY <1>4, <2>1, <2>2
<1>19. ASSUME ~walk'.full, NEW p \in Steady', Meant(w.call, p), p \notin ToSet(files),
              NEW f \in ToSet(files), f \notin touched
       PROVE  IF w.call.byMtime THEN globTree[f].mtime >= globTree[p].mtime ELSE Rank(f) < Rank(p)
  <2>1. ~w.truncated BY <1>11, <1>13, <1>19
  <2>2. PICK k \in 1 .. n : /\ p = found[o[k]].path /\ globTree[p].mtime = found[o[k]].mtime
                            /\ k <= m => p \in ToSet(files)
    BY <1>16, <1>17, <1>19, <2>1
  <2>3. PICK i \in 1 .. m : /\ i \in 1 .. n /\ f = found[o[i]].path
                            /\ f \notin touched => globTree[f].mtime = found[o[i]].mtime
    BY <1>14
  <2>4. i < k BY <1>4, <1>10, <1>19, <2>2, <2>3
  <2>5. QED BY <1>15, <1>19, <2>2, <2>3, <2>4
<1>20. ASSUME NEW i \in 1 .. m, NEW j \in 1 .. m, i < j, {files[i], files[j]} \cap touched = {}
       PROVE  IF w.call.byMtime THEN globTree[files[i]].mtime >= globTree[files[j]].mtime
              ELSE Rank(files[i]) < Rank(files[j])
  <2>1. i \in 1 .. n /\ j \in 1 .. n /\ files[i] = found[o[i]].path /\ files[j] = found[o[j]].path BY <1>10
  <2>2. o[i] \in DOMAIN found /\ o[j] \in DOMAIN found BY <1>4, <1>6, <2>1
  <2>3. globTree[files[i]].mtime = found[o[i]].mtime /\ globTree[files[j]].mtime = found[o[j]].mtime
    BY <1>3, <1>20, <2>1, <2>2 DEF FoundOK
  <2>4. QED BY <1>15, <1>20, <2>1, <2>3
<1>21. Len(files) <= limit /\ Cardinality(ToSet(files)) = Len(files)
  <2>1. \A i, j \in 1 .. m : files[i] = files[j] => i = j
    <3> TAKE i, j \in 1 .. m
    <3>1. SUFFICES ASSUME files[i] = files[j] PROVE i = j OBVIOUS
    <3>2. i \in 1 .. n /\ j \in 1 .. n /\ found[o[i]].path = found[o[j]].path BY <1>10, <3>1
    <3>3. o[i] \in DOMAIN found /\ o[j] \in DOMAIN found BY <1>4, <1>6, <3>2
    <3>4. o[i] = o[j] BY <1>4, <3>2, <3>3 DEF Once
    <3>5. QED BY <1>6, <3>2, <3>4
  <2>2. files \in Bijection(1 .. m, ToSet(files))
    <3>1. files \in [1 .. m -> ToSet(files)]
      <4>1. \A i \in 1 .. m : files[i] \in ToSet(files) BY <1>10 DEF ToSet
      <4>2. files \in [1 .. m -> GlobPaths] BY <1>10, LenProperties
      <4>3. QED BY <4>1, <4>2
    <3>2. \A f \in ToSet(files) : \E i \in 1 .. m : files[i] = f BY <1>10 DEF ToSet
    <3>3. QED BY <2>1, <3>1, <3>2 DEF Bijection, Injection, Surjection, IsInjective
  <2>3. IsFiniteSet(1 .. m) /\ Cardinality(1 .. m) = m BY <1>10, FS_Interval
  <2>4. Cardinality(ToSet(files)) = m BY <2>2, <2>3, FS_Bijection DEF ExistsBijection
  <2>5. QED BY <1>7, <1>10, <2>4
<1>22. \A f \in ToSet(files) : Meant(w.call, f) /\ (f \notin touched => globTree[f].kind = "file") BY <1>14
<1>23. WalksComplete'
  <2>1. DOMAIN files = 1 .. m BY <1>10
  <2> HIDE DEF limit, m
  <2>2. w.call.limit = limit BY DEF limit
  <2>3. /\ ~walk'.truncated => {p \in Steady' : Meant(w.call, p)} \subseteq ToSet(files)
        /\ ~walk'.full => \A p \in {p \in Steady' : Meant(w.call, p)} \ ToSet(files), f \in ToSet(files) \ touched :
               IF w.call.byMtime THEN globTree[f].mtime >= globTree[p].mtime ELSE Rank(f) < Rank(p)
        /\ \A f \in ToSet(files) : Meant(w.call, f) /\ (f \notin touched => globTree[f].kind = "file")
        /\ \A i, j \in DOMAIN files : i < j /\ {files[i], files[j]} \cap touched = {} =>
               IF w.call.byMtime THEN globTree[files[i]].mtime >= globTree[files[j]].mtime
               ELSE Rank(files[i]) < Rank(files[j])
        /\ Len(files) <= w.call.limit /\ Cardinality(ToSet(files)) = Len(files)
    BY <1>18, <1>19, <1>20, <1>21, <1>22, <2>1, <2>2
  <2>4. QED BY <1>2, <1>11, <2>3, Zenon DEF WalksComplete, Precedes
<1>24. GlobTree(globTree') BY <1>2 DEF WalkInv
<1>25. QED BY <1>11, <1>23, <1>24 DEF WalkInv

\* os.fs.glob returns the files its patterns mean, all of them that were there all the time
\* unless it says that it is truncated, in order, each once; when the expressions it compiles
\* match what its patterns mean (fs-glob.ts).
THEOREM GlobsFind == GlobSpec /\ PatternsMean => []GlobFinds
<1>1. SUFFICES ASSUME PatternsMean PROVE GlobSpec => []GlobFinds OBVIOUS
<1>2. GlobInit => WalkInv BY GlobAssumption DEF GlobInit, WalkInv
<1>3. WalkInv /\ [GlobNext]_globVars => WalkInv'
  <2> SUFFICES ASSUME WalkInv, [GlobNext]_globVars PROVE WalkInv' OBVIOUS
  <2>1. CASE \E call \in GlobCalls : CallGlob(call) BY <1>1, <2>1, WalkBegins, CallFails
  <2>2. CASE CeilingReached BY <2>2, CeilingKeeps
  <2>3. CASE ReadDirectory BY <2>3, ReadKeeps
  <2>4. CASE VisitEntry BY <1>1, <2>4, VisitKeeps
  <2>5. CASE DirectoryEnds BY <2>5, DirectoryEndKeeps
  <2>6. CASE GlobReturns BY <2>6, ReturnKeeps
  <2>7. CASE \E path \in GlobPaths, kind \in {"none", "file", "dir"}, mtime \in 1 .. MaxMtime :
                 OtherChangesEntry(path, kind, mtime)
    BY <2>7, OtherKeeps
  <2>8. CASE UNCHANGED globVars
    <3>1. globTree' = globTree /\ walk' = walk /\ touched' = touched BY <2>8 DEF globVars
    <3>2. WalksComplete => WalksComplete'
      BY <3>1, Zenon DEF WalksComplete, Precedes, Steady
    <3>3. QED BY <3>1, <3>2 DEF WalkInv
  <2>9. QED BY <2>1, <2>2, <2>3, <2>4, <2>5, <2>6, <2>7, <2>8 DEF GlobNext
<1>4. WalkInv => GlobFinds BY <1>1 DEF WalkInv, GlobFinds, WalksComplete, NoWalk
<1>5. QED BY <1>2, <1>3, <1>4, PTL DEF GlobSpec
=============================================================================
