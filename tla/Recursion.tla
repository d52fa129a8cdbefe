------------------------------ MODULE Recursion ------------------------------
(***************************************************************************)
(* Induction over numbers and the existence of recursive functions, stated *)
(* with sets and functions instead of operators, so that every proof can   *)
(* cite them.                                                              *)
(***************************************************************************)
EXTENDS Selection, FiniteSetTheorems, SequenceTheorems, WellFoundedInduction, NaturalsInduction, TLAPS

\* Of any numbers there is a least.
LEMMA Least ==
    ASSUME NEW T \in SUBSET Nat, T # {}
    PROVE  \E d \in T : \A e \in T : d <= e
<1>1. PICK d \in T : \A e \in T : ~ (<<e, d>> \in OpToRel(<, Nat)) BY NatLessThanWellFounded, WFMin
<1>2. \A e \in T : ~ (e < d) BY <1>1, Zenon DEF OpToRel
<1>3. QED BY <1>2

\* What goes back from every place above the last one it holds at is all there is.
LEMMA Downward ==
    ASSUME NEW n \in Nat, NEW S, n + 1 \in S,
           \A i \in 1 .. n : (\A j \in i + 1 .. n + 1 : j \in S) => i \in S
    PROVE  1 .. n + 1 \subseteq S
<1> DEFINE T == {k \in Nat : k <= n /\ n + 1 - k \notin S}
<1>1. SUFFICES ASSUME NEW i \in 1 .. n + 1, i \notin S PROVE FALSE OBVIOUS
<1>2. n + 1 - i \in T /\ T \in SUBSET Nat BY <1>1
<1>3. PICK d \in T : \A e \in T : d <= e
  <2> HIDE DEF T
  <2>1. QED BY <1>2, Least
<1>4. d # 0 /\ d \in Nat /\ d <= n /\ n + 1 - d \notin S OBVIOUS
<1>5. \A j \in n + 1 - d + 1 .. n + 1 : j \in S
  <2>1. SUFFICES ASSUME NEW j \in n + 1 - d + 1 .. n + 1, j \notin S PROVE FALSE OBVIOUS
  <2>2. n + 1 - j \in T BY <1>4, <2>1
  <2>3. QED BY <1>3, <1>4, <2>1, <2>2
<1>6. n + 1 - d \in 1 .. n BY <1>4
<1>7. QED BY <1>4, <1>5, <1>6

\* A value at the place after the last one, and at every place one that follows from the
\* value at a later place.
FromTheEnd(n, V, base, next, step) ==
    /\ n \in Nat /\ base \in V
    /\ next \in [1 .. n -> Nat] /\ \A i \in 1 .. n : next[i] \in i + 1 .. n + 1
    /\ step \in [(1 .. n) \X V -> V]

Computes(f, n, base, next, step) ==
    f[n + 1] = base /\ \A i \in 1 .. n : f[i] = step[<<i, f[next[i]]>>]

\* There is such a function.
LEMMA RecursionDown ==
    ASSUME NEW n, NEW V, NEW base, NEW next, NEW step, FromTheEnd(n, V, base, next, step)
    PROVE  \E f \in [1 .. n + 1 -> V] : Computes(f, n, base, next, step)
<1> USE DEF FromTheEnd
<1> DEFINE Solved(m, f) == f[n + 1] = base /\ \A i \in m .. n : f[i] = step[<<i, f[next[i]]>>]
           S == {m \in 1 .. n + 1 : \E f \in [m .. n + 1 -> V] : Solved(m, f)}
<1>1. n + 1 \in S
  <2>1. [i \in n + 1 .. n + 1 |-> base] \in [n + 1 .. n + 1 -> V] /\ Solved(n + 1, [i \in n + 1 .. n + 1 |-> base])
    OBVIOUS
  <2> HIDE DEF Solved
  <2>2. n + 1 \in 1 .. n + 1 OBVIOUS
  <2>3. QED BY <2>1, <2>2
<1>2. ASSUME NEW i \in 1 .. n, \A j \in i + 1 .. n + 1 : j \in S PROVE i \in S
  <2>1. i + 1 \in S
    <3> HIDE DEF S
    <3>1. i + 1 \in i + 1 .. n + 1 OBVIOUS
    <3>2. QED BY <1>2, <3>1
  <2>2. PICK f \in [i + 1 .. n + 1 -> V] : Solved(i + 1, f) BY <2>1
  <2>3. next[i] \in i + 1 .. n + 1 /\ f[next[i]] \in V BY <2>2
  <2>4. step[<<i, f[next[i]]>>] \in V BY <2>3
  <2> DEFINE g == [j \in i .. n + 1 |-> IF j = i THEN step[<<i, f[next[i]]>>] ELSE f[j]]
  <2>5. /\ g \in [i .. n + 1 -> V] /\ g[n + 1] = base /\ g[i] = step[<<i, f[next[i]]>>]
        /\ \A j \in i + 1 .. n + 1 : g[j] = f[j]
    BY <2>2, <2>4
  <2> HIDE DEF g
  <2>6. ASSUME NEW j \in i .. n PROVE g[j] = step[<<j, g[next[j]]>>]
    <3>1. next[j] \in j + 1 .. n + 1 /\ next[j] \in i + 1 .. n + 1 OBVIOUS
    <3>2. g[next[j]] = f[next[j]] BY <2>5, <3>1
    <3>3. CASE j = i BY <2>5, <3>2, <3>3
    <3>4. CASE j # i
      <4>1. j \in i + 1 .. n BY <3>4
      <4>2. f[j] = step[<<j, f[next[j]]>>] BY <2>2, <4>1
      <4>3. QED BY <2>5, <3>2, <4>1, <4>2
    <3>5. QED BY <3>3, <3>4
  <2>7. Solved(i, g) BY <2>5, <2>6
  <2> HIDE DEF Solved
  <2>8. i \in 1 .. n + 1 OBVIOUS
  <2>9. QED BY <2>5, <2>7, <2>8
<1>3. 1 \in S
  <2> HIDE DEF S
  <2>1. 1 .. n + 1 \subseteq S BY <1>1, <1>2, Downward
  <2>2. QED BY <2>1
<1>4. QED BY <1>3 DEF Computes

-----------------------------------------------------------------------------
(* Upwards, and what is kept of a sequence.                                *)

\* What holds at the first place and goes on from each to the next is all there is.
LEMMA Upward ==
    ASSUME NEW n \in Nat, NEW S, 0 \in S, \A i \in 1 .. n : i - 1 \in S => i \in S
    PROVE  0 .. n \subseteq S
<1> DEFINE T == {k \in Nat : k <= n /\ k \notin S}
<1>1. SUFFICES ASSUME NEW i \in 0 .. n, i \notin S PROVE FALSE OBVIOUS
<1>2. i \in T /\ T \in SUBSET Nat BY <1>1
<1>3. PICK d \in T : \A e \in T : d <= e
  <2> HIDE DEF T
  <2>1. QED BY <1>2, Least
<1>4. d \in Nat /\ d <= n /\ d \notin S /\ d # 0 OBVIOUS
<1>5. d - 1 \in S
  <2>1. SUFFICES ASSUME d - 1 \notin S PROVE FALSE OBVIOUS
  <2>2. d - 1 \in T BY <1>4, <2>1
  <2>3. QED BY <1>3, <1>4, <2>2
<1>6. d \in 1 .. n BY <1>4
<1>7. QED BY <1>4, <1>5, <1>6

\* A value at 0, and at every place one that follows from the value before.
FromTheStart(n, V, base, step) == n \in Nat /\ base \in V /\ step \in [(1 .. n) \X V -> V]

\* There is such a function.
LEMMA RecursionUp ==
    ASSUME NEW n, NEW V, NEW base, NEW step, FromTheStart(n, V, base, step)
    PROVE  \E f \in [0 .. n -> V] : f[0] = base /\ \A i \in 1 .. n : f[i] = step[<<i, f[i - 1]>>]
<1> USE DEF FromTheStart
<1> DEFINE next == [i \in 1 .. n |-> i + 1]
           back == [p \in (1 .. n) \X V |-> step[<<n + 1 - p[1], p[2]>>]]
<1>1. back \in [(1 .. n) \X V -> V]
  <2> SUFFICES ASSUME NEW i \in 1 .. n, NEW v \in V PROVE step[<<n + 1 - i, v>>] \in V OBVIOUS
  <2>1. n + 1 - i \in 1 .. n OBVIOUS
  <2>2. QED BY <2>1
<1>2. next \in [1 .. n -> Nat] /\ \A i \in 1 .. n : next[i] \in i + 1 .. n + 1 OBVIOUS
<1>3. PICK g \in [1 .. n + 1 -> V] : Computes(g, n, base, next, back)
  <2> HIDE DEF next, back
  <2>1. FromTheEnd(n, V, base, next, back) BY <1>1, <1>2 DEF FromTheEnd
  <2>2. QED BY <2>1, RecursionDown
<1>4. g[n + 1] = base /\ \A i \in 1 .. n : g[i] = step[<<n + 1 - i, g[i + 1]>>]
  <2>1. g[n + 1] = base /\ \A i \in 1 .. n : g[i] = back[<<i, g[next[i]]>>] BY <1>3 DEF Computes
  <2>2. ASSUME NEW i \in 1 .. n PROVE g[i] = step[<<n + 1 - i, g[i + 1]>>]
    <3>1. next[i] = i + 1 /\ g[i + 1] \in V BY <1>3
    <3>2. back[<<i, g[i + 1]>>] = step[<<n + 1 - i, g[i + 1]>>] BY <3>1
    <3>3. QED BY <2>1, <3>1, <3>2
  <2>3. QED BY <2>1, <2>2
<1> DEFINE f == [j \in 0 .. n |-> g[n + 1 - j]]
<1>5. f \in [0 .. n -> V] BY <1>3
<1>6. f[0] = base BY <1>4
<1>7. ASSUME NEW i \in 1 .. n PROVE f[i] = step[<<i, f[i - 1]>>]
  <2>1. f[i] = g[n + 1 - i] /\ f[i - 1] = g[n + 1 - i + 1] /\ n + 1 - i \in 1 .. n /\ n + 1 - (n + 1 - i) = i
    OBVIOUS
  <2> HIDE DEF f
  <2>2. QED BY <1>4, <2>1
<1>8. QED BY <1>5, <1>6, <1>7

\* What is kept of each beginning of a sequence.
Keeps(k, s, T) ==
    /\ k[0] = <<>>
    /\ \A i \in 1 .. Len(s) : k[i] = IF s[i] \in T THEN Append(k[i - 1], s[i]) ELSE k[i - 1]

LEMMA KeptIs ==
    ASSUME NEW S, NEW s \in Seq(S), NEW T
    PROVE  \E k \in [0 .. Len(s) -> Seq(S)] : Keeps(k, s, T) /\ Kept(s, T) = k[Len(s)]
<1> DEFINE n == Len(s)
           V == Seq(S)
           step == [p \in (1 .. n) \X V |-> IF s[p[1]] \in T THEN Append(p[2], s[p[1]]) ELSE p[2]]
           Body(k) == [i \in 0 .. n |->
                          IF i = 0 THEN <<>> ELSE IF s[i] \in T THEN Append(k[i - 1], s[i]) ELSE k[i - 1]]
           chosen == CHOOSE k : k = Body(k)
<1>1. n \in Nat /\ <<>> \in V /\ \A i \in 1 .. n : s[i] \in S OBVIOUS
<1>2. step \in [(1 .. n) \X V -> V]
  <2> HIDE DEF n
  <2> SUFFICES ASSUME NEW i \in 1 .. n, NEW v \in V PROVE (IF s[i] \in T THEN Append(v, s[i]) ELSE v) \in V
    OBVIOUS
  <2>1. QED BY <1>1
<1>3. PICK f \in [0 .. n -> V] : f[0] = <<>> /\ \A i \in 1 .. n : f[i] = step[<<i, f[i - 1]>>]
  <2> DEFINE nothing == <<>>
  <2>1. n \in Nat BY <1>1
  <2>2. nothing \in V BY <1>1
  <2>3. \E f \in [0 .. n -> V] : f[0] = nothing /\ \A i \in 1 .. n : f[i] = step[<<i, f[i - 1]>>]
    <3> HIDE DEF n, V, step, nothing
    <3>1. FromTheStart(n, V, nothing, step) BY <1>2, <2>1, <2>2 DEF FromTheStart
    <3>2. QED BY <3>1, RecursionUp
  <2>4. QED BY <2>3
<1>4. \A i \in 1 .. n : f[i] = IF s[i] \in T THEN Append(f[i - 1], s[i]) ELSE f[i - 1]
  <2> TAKE i \in 1 .. n
  <2> HIDE DEF n, V
  <2>1. f[i - 1] \in V BY <1>1, <1>3
  <2>2. QED BY <1>3, <2>1
<1> HIDE DEF step, V
<1>5. f = Body(f)
  <2> HIDE DEF n
  <2>1. f = [i \in 0 .. n |-> f[i]] BY <1>3
  <2>2. ASSUME NEW i \in 0 .. n PROVE f[i] = Body(f)[i]
    <3>1. CASE i = 0 BY <1>3, <3>1
    <3>2. CASE i # 0
      <4>1. i \in 1 .. n BY <1>1, <3>2
      <4>2. f[i] = IF s[i] \in T THEN Append(f[i - 1], s[i]) ELSE f[i - 1] BY <1>4, <4>1
      <4>3. QED BY <3>2, <4>2, Zenon
    <3>3. QED BY <3>1, <3>2
  <2>3. QED BY <2>1, <2>2
<1>6. chosen = Body(chosen) BY <1>5, Zenon
<1>7. Kept(s, T) = chosen[n] BY Zenon DEF Kept
<1> HIDE DEF chosen
<1>8. chosen[0] = <<>> /\ \A i \in 1 .. n : chosen[i] = IF s[i] \in T THEN Append(chosen[i - 1], s[i]) ELSE chosen[i - 1]
  <2>1. 0 \in 0 .. n /\ chosen[0] = <<>> BY <1>1, <1>6
  <2>2. ASSUME NEW i \in 1 .. n
        PROVE  chosen[i] = IF s[i] \in T THEN Append(chosen[i - 1], s[i]) ELSE chosen[i - 1]
    <3>1. i \in 0 .. n /\ i # 0 BY <1>1
    <3>2. chosen[i] = Body(chosen)[i] BY <1>6, Zenon
    <3>3. QED BY <3>1, <3>2, Zenon
  <2>3. QED BY <2>1, <2>2
<1>9. chosen = [i \in 0 .. n |-> chosen[i]]
  <2> DEFINE b == Body(chosen)
  <2>1. b = [i \in 0 .. n |-> b[i]] OBVIOUS
  <2>2. chosen = b BY <1>6
  <2> HIDE DEF b, Body
  <2>3. QED BY <2>1, <2>2
<1> HIDE DEF Body
<1>10. 0 .. n \subseteq {i \in 0 .. n : chosen[i] \in V}
  <2> DEFINE G == {i \in 0 .. n : chosen[i] \in V}
  <2>1. 0 \in G BY <1>1, <1>8
  <2>2. ASSUME NEW i \in 1 .. n, i - 1 \in G PROVE i \in G
    <3>1. chosen[i - 1] \in Seq(S) BY <2>2 DEF V
    <3>2. s[i] \in S BY <1>1
    <3>3. Append(chosen[i - 1], s[i]) \in Seq(S) BY <3>1, <3>2
    <3>4. chosen[i] = Append(chosen[i - 1], s[i]) \/ chosen[i] = chosen[i - 1] BY <1>8, Zenon
    <3>5. chosen[i] \in Seq(S) BY <3>1, <3>3, <3>4
    <3>6. QED BY <3>5 DEF V
  <2> SUFFICES 0 .. n \subseteq G OBVIOUS
  <2> HIDE DEF G, n
  <2>3. QED BY <1>1, <2>1, <2>2, Upward
<1>11. chosen \in [0 .. n -> V]
  <2> HIDE DEF n
  <2>1. \A i \in 0 .. n : chosen[i] \in V BY <1>10
  <2>2. QED BY <1>9, <2>1
<1>12. QED BY <1>7, <1>8, <1>11 DEF Keeps, V

\* Nothing is kept of nothing.
LEMMA KeptEmpty == \A T : Kept(<<>>, T) = <<>>
<1> TAKE T
<1>1. <<>> \in Seq({}) OBVIOUS
<1>2. PICK k \in [0 .. Len(<<>>) -> Seq({})] : Keeps(k, <<>>, T) /\ Kept(<<>>, T) = k[Len(<<>>)]
  BY <1>1, KeptIs
<1>3. Len(<<>>) = 0 OBVIOUS
<1>4. QED BY <1>2, <1>3 DEF Keeps

\* What is kept is of the sequence and of the set.
LEMMA KeptType ==
    ASSUME NEW S, NEW s \in Seq(S), NEW T
    PROVE  Kept(s, T) \in Seq(S \cap T)
<1>1. PICK k \in [0 .. Len(s) -> Seq(S)] : Keeps(k, s, T) /\ Kept(s, T) = k[Len(s)] BY KeptIs
<1> DEFINE G == {i \in 0 .. Len(s) : k[i] \in Seq(S \cap T)}
<1>2. Len(s) \in Nat /\ \A i \in 1 .. Len(s) : s[i] \in S OBVIOUS
<1>3. 0 \in G BY <1>1, <1>2 DEF Keeps
<1>4. ASSUME NEW i \in 1 .. Len(s), i - 1 \in G PROVE i \in G
  <2>1. k[i - 1] \in Seq(S \cap T) /\ s[i] \in S BY <1>2, <1>4
  <2>2. s[i] \in T => Append(k[i - 1], s[i]) \in Seq(S \cap T)
    <3> DEFINE Z == S \cap T
    <3>1. SUFFICES ASSUME s[i] \in T PROVE Append(k[i - 1], s[i]) \in Seq(Z) OBVIOUS
    <3>2. s[i] \in Z /\ k[i - 1] \in Seq(Z) BY <2>1, <3>1
    <3> HIDE DEF Z
    <3>3. QED BY <3>2
  <2>3. k[i] = IF s[i] \in T THEN Append(k[i - 1], s[i]) ELSE k[i - 1] BY <1>1, Zenon DEF Keeps
  <2>4. k[i] \in Seq(S \cap T) BY <2>1, <2>2, <2>3
  <2>5. QED BY <2>4
<1>5. 0 .. Len(s) \subseteq G
  <2> HIDE DEF G
  <2>1. QED BY <1>2, <1>3, <1>4, Upward
<1>6. Len(s) \in G BY <1>2, <1>5
<1>7. QED BY <1>1, <1>6

\* One element more.
LEMMA KeptAppend ==
    ASSUME NEW S, NEW s \in Seq(S), NEW e \in S, NEW T
    PROVE  Kept(Append(s, e), T) = IF e \in T THEN Append(Kept(s, T), e) ELSE Kept(s, T)
<1> DEFINE n == Len(s)
           r == Append(s, e)
<1>1. PICK k \in [0 .. Len(s) -> Seq(S)] : Keeps(k, s, T) /\ Kept(s, T) = k[Len(s)] BY KeptIs
<1>2. r \in Seq(S) /\ Len(r) = n + 1 /\ n \in Nat /\ r[n + 1] = e /\ \A i \in 1 .. n : r[i] = s[i] OBVIOUS
<1> HIDE DEF r
<1>3. PICK m \in [0 .. Len(r) -> Seq(S)] : Keeps(m, r, T) /\ Kept(r, T) = m[Len(r)] BY <1>2, KeptIs
<1> DEFINE G == {i \in 0 .. n : m[i] = k[i]}
<1>4. 0 \in G BY <1>1, <1>2, <1>3 DEF Keeps
<1>5. ASSUME NEW i \in 1 .. n, i - 1 \in G PROVE i \in G
  <2>1. m[i - 1] = k[i - 1] /\ i \in 1 .. Len(r) BY <1>2, <1>5
  <2>2. m[i] = k[i] BY <1>1, <1>2, <1>3, <2>1 DEF Keeps
  <2>3. QED BY <2>2
<1>6. 0 .. n \subseteq G
  <2> HIDE DEF G, n
  <2>1. QED BY <1>2, <1>4, <1>5, Upward
<1>7. m[n] = k[n] BY <1>2, <1>6
<1>8. m[n + 1] = IF e \in T THEN Append(m[n], e) ELSE m[n]
  <2>1. n + 1 \in 1 .. Len(r) /\ n + 1 - 1 = n BY <1>2
  <2> HIDE DEF n
  <2>2. QED BY <1>2, <1>3, <2>1 DEF Keeps
<1>9. QED BY <1>1, <1>2, <1>3, <1>7, <1>8 DEF r

\* Of a sequence of the set all is kept.
LEMMA KeptAll ==
    ASSUME NEW T, NEW s \in Seq(T)
    PROVE  Kept(s, T) = s
<1>1. PICK k \in [0 .. Len(s) -> Seq(T)] : Keeps(k, s, T) /\ Kept(s, T) = k[Len(s)] BY KeptIs
<1> DEFINE n == Len(s)
           G == {i \in 0 .. n : k[i] = SubSeq(s, 1, i)}
<1>2. n \in Nat /\ \A i \in 1 .. n : s[i] \in T OBVIOUS
<1>3. 0 \in G BY <1>1, <1>2 DEF Keeps
<1>4. ASSUME NEW i \in 1 .. n, i - 1 \in G PROVE i \in G
  <2>1. k[i - 1] = SubSeq(s, 1, i - 1) /\ s[i] \in T BY <1>2, <1>4
  <2>2. k[i] = Append(SubSeq(s, 1, i - 1), s[i]) BY <1>1, <2>1 DEF Keeps
  <2>3. SubSeq(s, 1, i) = Append(SubSeq(s, 1, i - 1), s[i])
    <3>1. SubSeq(s, 1, i) \in Seq(T) /\ SubSeq(s, 1, i - 1) \in Seq(T) BY <1>2, SubSeqProperties
    <3>2. QED BY <1>2, SubSeqRecursiveSecond
  <2>4. QED BY <2>2, <2>3
<1>5. 0 .. n \subseteq G
  <2> HIDE DEF G, n
  <2>1. QED BY <1>2, <1>3, <1>4, Upward
<1>6. k[n] = SubSeq(s, 1, n) BY <1>2, <1>5
<1>7. QED BY <1>1, <1>6, SubSeqFull

\* Its places are places of the sequence, in the same order, and all that hold one of the set.
PlacesKept(p, k, s) ==
    /\ \A i \in 1 .. Len(k) : k[i] = s[p[i]]
    /\ \A i, j \in 1 .. Len(k) : i < j => p[i] < p[j]

LEMMA KeptOrder ==
    ASSUME NEW S, NEW s \in Seq(S), NEW T
    PROVE  \E p \in [1 .. Len(Kept(s, T)) -> 1 .. Len(s)] :
              /\ PlacesKept(p, Kept(s, T), s)
              /\ \A m \in 1 .. Len(s) : s[m] \in T => \E i \in 1 .. Len(Kept(s, T)) : p[i] = m
<1>1. PICK k \in [0 .. Len(s) -> Seq(S)] : Keeps(k, s, T) /\ Kept(s, T) = k[Len(s)] BY KeptIs
<1> DEFINE n == Len(s)
           Placed(i) == \E p \in [1 .. Len(k[i]) -> 1 .. i] :
                           /\ PlacesKept(p, k[i], s)
                           /\ \A m \in 1 .. i : s[m] \in T => \E j \in 1 .. Len(k[i]) : p[j] = m
           G == {i \in 0 .. n : Placed(i)}
<1>2. n \in Nat /\ (\A i \in 1 .. n : s[i] \in S) /\ \A i \in 0 .. n : k[i] \in Seq(S) /\ Len(k[i]) \in Nat
  OBVIOUS
<1>3. 0 \in G
  <2>1. k[0] = <<>> /\ Len(k[0]) = 0 /\ 0 \in 0 .. n BY <1>1, <1>2 DEF Keeps
  <2> DEFINE p == [j \in 1 .. 0 |-> 0]
  <2>2. p \in [1 .. Len(k[0]) -> 1 .. 0] BY <2>1
  <2>3. PlacesKept(p, k[0], s) /\ \A m \in 1 .. 0 : s[m] \in T => \E j \in 1 .. Len(k[0]) : p[j] = m
    BY <2>1 DEF PlacesKept
  <2> HIDE DEF p, n
  <2>4. Placed(0) BY <2>2, <2>3
  <2>5. QED BY <2>1, <2>4
<1>4. ASSUME NEW i \in 1 .. n, i - 1 \in G PROVE i \in G
  <2>1. Placed(i - 1) /\ i \in 0 .. n /\ i - 1 \in 0 .. n BY <1>2, <1>4
  <2>2. PICK p \in [1 .. Len(k[i - 1]) -> 1 .. i - 1] :
           /\ PlacesKept(p, k[i - 1], s)
           /\ \A m \in 1 .. i - 1 : s[m] \in T => \E j \in 1 .. Len(k[i - 1]) : p[j] = m
    BY <2>1
  <2>3. k[i] = IF s[i] \in T THEN Append(k[i - 1], s[i]) ELSE k[i - 1] BY <1>1, Zenon DEF Keeps
  <2>4. k[i - 1] \in Seq(S) /\ Len(k[i - 1]) \in Nat /\ s[i] \in S BY <1>2, <2>1
  <2>5. CASE s[i] \notin T
    <3>1. k[i] = k[i - 1] BY <2>3, <2>5
    <3>2. p \in [1 .. Len(k[i]) -> 1 .. i] BY <3>1
    <3>3. \A m \in 1 .. i : s[m] \in T => \E j \in 1 .. Len(k[i]) : p[j] = m BY <2>2, <2>5, <3>1
    <3>4. Placed(i)
      <4>1. PlacesKept(p, k[i], s) BY <2>2, <3>1
      <4>2. QED BY <3>2, <3>3, <4>1
    <3>5. QED BY <2>1, <3>4
  <2>6. CASE s[i] \in T
    <3> DEFINE b == k[i - 1]
               l == Len(b)
               q == [j \in 1 .. l + 1 |-> IF j = l + 1 THEN i ELSE p[j]]
    <3>1. k[i] = Append(b, s[i]) BY <2>3, <2>6
    <3>2. Len(k[i]) = l + 1 /\ k[i][l + 1] = s[i] /\ \A j \in 1 .. l : k[i][j] = b[j]
      <4> HIDE DEF b
      <4>1. b \in Seq(S) BY <2>4 DEF b
      <4>2. QED BY <2>4, <3>1, <4>1
    <3>3. l \in Nat BY <2>4
    <3>4. p \in [1 .. l -> 1 .. i - 1] /\ (\A j \in 1 .. l : b[j] = s[p[j]])
          /\ (\A j, m \in 1 .. l : j < m => p[j] < p[m])
          /\ \A m \in 1 .. i - 1 : s[m] \in T => \E j \in 1 .. l : p[j] = m
      BY <2>2 DEF PlacesKept
    <3> HIDE DEF l, b
    <3>5. q \in [1 .. Len(k[i]) -> 1 .. i] BY <3>2, <3>3, <3>4
    <3>6. (\A j \in 1 .. l : q[j] = p[j] /\ q[j] \in 1 .. i - 1) /\ q[l + 1] = i /\ l + 1 \in 1 .. l + 1
      BY <3>3, <3>4
    <3> HIDE DEF q
    <3>7. PlacesKept(q, k[i], s)
      <4>1. ASSUME NEW j \in 1 .. l + 1 PROVE k[i][j] = s[q[j]] BY <3>2, <3>3, <3>4, <3>6
      <4>2. ASSUME NEW j \in 1 .. l + 1, NEW m \in 1 .. l + 1, j < m PROVE q[j] < q[m]
        <5>1. j \in 1 .. l BY <3>3, <4>2
        <5>2. CASE m = l + 1 BY <3>6, <5>1, <5>2
        <5>3. CASE m # l + 1
          <6>1. m \in 1 .. l BY <3>3, <5>3
          <6>2. QED BY <3>4, <3>6, <4>2, <5>1, <6>1
        <5>4. QED BY <5>2, <5>3
      <4>3. QED BY <3>2, <4>1, <4>2 DEF PlacesKept
    <3>8. ASSUME NEW m \in 1 .. i, s[m] \in T PROVE \E j \in 1 .. Len(k[i]) : q[j] = m
      <4>1. CASE m = i BY <3>2, <3>6, <4>1
      <4>2. CASE m # i
        <5>1. m \in 1 .. i - 1 BY <4>2
        <5>2. PICK j \in 1 .. l : p[j] = m BY <3>4, <3>8, <5>1
        <5>3. j \in 1 .. l + 1 BY <3>3
        <5>4. QED BY <3>2, <3>6, <5>2, <5>3
      <4>3. QED BY <4>1, <4>2
    <3>9. Placed(i) BY <3>5, <3>7, <3>8
    <3>10. QED BY <2>1, <3>9
  <2>7. QED BY <2>5, <2>6
<1>5. 0 .. n \subseteq G
  <2> HIDE DEF G, n
  <2>1. QED BY <1>2, <1>3, <1>4, Upward
<1>6. n \in G BY <1>2, <1>5
<1>7. QED BY <1>1, <1>6
-----------------------------------------------------------------------------
(* What values add up to.                                                   *)

\* What holds for a set when it does for every one with an element less holds for all.
LEMMA BySize ==
    ASSUME NEW S, IsFiniteSet(S), NEW P, \A T \in SUBSET S : (\A x \in T : T \ {x} \in P) => T \in P
    PROVE  SUBSET S \subseteq P
<1> DEFINE n == Cardinality(S)
           G == {i \in 0 .. n : \A T \in SUBSET S : Cardinality(T) = i => T \in P}
<1>1. n \in Nat BY FS_CardinalityType
<1>2. \A T \in SUBSET S : IsFiniteSet(T) /\ Cardinality(T) \in 0 .. n
  <2> TAKE T \in SUBSET S
  <2>1. IsFiniteSet(T) /\ Cardinality(T) <= n BY FS_Subset
  <2>2. Cardinality(T) \in Nat BY <2>1, FS_CardinalityType
  <2>3. QED BY <1>1, <2>1, <2>2
<1>3. 0 \in G
  <2>1. ASSUME NEW T \in SUBSET S, Cardinality(T) = 0 PROVE T \in P
    <3>1. T = {} BY <1>2, <2>1, FS_EmptySet
    <3>2. QED BY <3>1
  <2>2. 0 \in 0 .. n BY <1>1
  <2>3. QED BY <2>1, <2>2
<1>4. ASSUME NEW i \in 1 .. n, i - 1 \in G PROVE i \in G
  <2>1. ASSUME NEW T \in SUBSET S, Cardinality(T) = i PROVE T \in P
    <3>1. ASSUME NEW x \in T PROVE T \ {x} \in P
      <4>1. Cardinality(T \ {x}) = i - 1 BY <1>2, <2>1, FS_RemoveElement
      <4>2. T \ {x} \in SUBSET S OBVIOUS
      <4>3. QED BY <1>4, <4>1, <4>2
    <3>2. QED BY <3>1
  <2>2. i \in 0 .. n BY <1>1
  <2>3. QED BY <2>1, <2>2
<1>5. 0 .. n \subseteq G
  <2> HIDE DEF G, n
  <2>1. QED BY <1>1, <1>3, <1>4, Upward
<1>6. QED BY <1>2, <1>5

First(T) == CHOOSE x \in T : TRUE

\* The sums over the subsets, one element at a time.
Sums(s, f, S) ==
    /\ s \in [SUBSET S -> Nat] /\ s[{}] = 0
    /\ \A T \in SUBSET S : T # {} => s[T] = f[First(T)] + s[T \ {First(T)}]

LEMMA SumIs ==
    ASSUME NEW S, IsFiniteSet(S), NEW f, \A x \in S : f[x] \in Nat
    PROVE  \E s : Sums(s, f, S) /\ SumOver(f, S) = s[S]
<1> DEFINE n == Cardinality(S)
           Sub == SUBSET S
           V == [Sub -> Nat]
           Next1(t, T) == f[First(T)] + t[T \ {First(T)}]
           Body(t) == [T \in Sub |-> IF T = {} THEN 0 ELSE Next1(t, T)]
           base == [T \in Sub |-> 0]
           step == [p \in (1 .. n) \X V |-> Body(p[2])]
           chosen == CHOOSE t : t = Body(t)
<1>1. n \in Nat BY FS_CardinalityType
<1>2. \A T \in Sub : T # {} => First(T) \in T /\ T \ {First(T)} \in Sub /\ f[First(T)] \in Nat
  <2> TAKE T \in Sub
  <2>1. SUFFICES ASSUME T # {} PROVE First(T) \in T /\ T \ {First(T)} \in Sub /\ f[First(T)] \in Nat OBVIOUS
  <2>2. First(T) \in T BY <2>1 DEF First
  <2>3. QED BY <2>2
<1>3. \A T \in Sub : /\ IsFiniteSet(T) /\ Cardinality(T) \in 0 .. n
                     /\ T # {} => Cardinality(T \ {First(T)}) = Cardinality(T) - 1
                     /\ Cardinality(T) = 0 => T = {}
  <2> TAKE T \in Sub
  <2>1. IsFiniteSet(T) /\ Cardinality(T) <= n BY FS_Subset
  <2>2. Cardinality(T) \in Nat BY <2>1, FS_CardinalityType
  <2>3. T # {} => Cardinality(T \ {First(T)}) = Cardinality(T) - 1 BY <1>2, <2>1, FS_RemoveElement
  <2>4. Cardinality(T) = 0 => T = {} BY <2>1, FS_EmptySet
  <2>5. QED BY <1>1, <2>1, <2>2, <2>3, <2>4
<1>4. {} \in Sub OBVIOUS
<1> HIDE DEF n, Sub
<1>5. \A t \in V : Body(t) \in V
  <2>1. \A t \in V, T \in Sub : T # {} => Next1(t, T) \in Nat BY <1>2
  <2> HIDE DEF Next1
  <2>2. QED BY <2>1
<1>6. base \in V OBVIOUS
<1>7. PICK F \in [0 .. n -> V] : F[0] = base /\ \A i \in 1 .. n : F[i] = Body(F[i - 1])
  <2> HIDE DEF Body, V, base
  <2>1. step \in [(1 .. n) \X V -> V] BY <1>5
  <2>2. \A i \in 1 .. n, t \in V : step[<<i, t>>] = Body(t) OBVIOUS
  <2> HIDE DEF step
  <2>3. FromTheStart(n, V, base, step) BY <1>1, <1>6, <2>1 DEF FromTheStart
  <2>4. PICK F \in [0 .. n -> V] : F[0] = base /\ \A i \in 1 .. n : F[i] = step[<<i, F[i - 1]>>]
    BY <2>3, RecursionUp
  <2>5. \A i \in 1 .. n : F[i - 1] \in V BY <1>1, <2>4
  <2>6. \A i \in 1 .. n : F[i] = Body(F[i - 1]) BY <2>2, <2>4, <2>5
  <2>7. QED BY <2>4, <2>6
<1>8. /\ \A i \in 0 .. n : F[i] \in V /\ F[i][{}] = 0
      /\ \A i \in 1 .. n, T \in Sub : T # {} => F[i][T] = Next1(F[i - 1], T)
  <2> HIDE DEF Next1
  <2>1. ASSUME NEW i \in 0 .. n PROVE F[i] \in V /\ F[i][{}] = 0
    <3>1. i = 0 \/ i \in 1 .. n BY <1>1
    <3>2. QED BY <1>4, <1>7, <3>1
  <2>2. ASSUME NEW i \in 1 .. n, NEW T \in Sub, T # {} PROVE F[i][T] = Next1(F[i - 1], T)
    <3>1. F[i] = Body(F[i - 1]) BY <1>7, Zenon
    <3> DEFINE b == Body(F[i - 1])
    <3>2. b[T] = Next1(F[i - 1], T) BY <2>2
    <3>3. F[i] = b BY <3>1
    <3> HIDE DEF b
    <3>4. QED BY <3>2, <3>3
  <2>3. QED BY <2>1, <2>2
<1> HIDE DEF Body, base, step
\* A set is summed up when there have been as many rounds as it has elements.
<1> DEFINE G == {i \in 0 .. n : i < n => \A T \in Sub : Cardinality(T) <= i => F[i + 1][T] = F[i][T]}
<1>9. 0 \in G
  <2>1. ASSUME 0 < n, NEW T \in Sub, Cardinality(T) <= 0 PROVE F[0 + 1][T] = F[0][T]
    <3>1. T = {}
      <4>1. Cardinality(T) \in 0 .. n /\ (Cardinality(T) = 0 => T = {}) BY <1>3, Zenon
      <4>2. QED BY <1>1, <2>1, <4>1
    <3>2. 0 \in 0 .. n /\ 0 + 1 \in 0 .. n BY <1>1, <2>1
    <3>3. QED BY <1>8, <3>1, <3>2
  <2>2. 0 \in 0 .. n BY <1>1
  <2>3. QED BY <2>1, <2>2
<1>10. ASSUME NEW i \in 1 .. n, i - 1 \in G PROVE i \in G
  <2>1. i \in 0 .. n /\ i - 1 \in 0 .. n /\ i - 1 < n /\ i - 1 + 1 = i BY <1>1
  <2>2. \A T \in Sub : Cardinality(T) <= i - 1 => F[i][T] = F[i - 1][T] BY <1>10, <2>1
  <2>3. ASSUME i < n, NEW T \in Sub, Cardinality(T) <= i PROVE F[i + 1][T] = F[i][T]
    <3>1. i + 1 \in 1 .. n /\ i + 1 \in 0 .. n /\ i + 1 - 1 = i BY <1>1, <2>3
    <3>2. CASE T = {} BY <1>8, <2>1, <3>1, <3>2
    <3>3. CASE T # {}
      <4> DEFINE U == T \ {First(T)}
      <4>1. U \in Sub /\ Cardinality(U) <= i - 1
        <5>1. U \in Sub /\ Cardinality(T) \in 0 .. n /\ Cardinality(U) = Cardinality(T) - 1
          BY <1>2, <1>3, <3>3, Zenon
        <5> HIDE DEF U
        <5>2. QED BY <1>1, <2>3, <5>1
      <4>2. F[i + 1][T] = f[First(T)] + F[i][U] /\ F[i][T] = f[First(T)] + F[i - 1][U]
        <5>1. F[i + 1][T] = Next1(F[i + 1 - 1], T) BY <1>8, <3>1, <3>3
        <5>2. F[i][T] = Next1(F[i - 1], T) BY <1>8, <3>3
        <5>3. QED BY <3>1, <5>1, <5>2
      <4> HIDE DEF U
      <4>3. F[i][U] = F[i - 1][U] BY <2>2, <4>1
      <4>4. QED BY <4>2, <4>3
    <3>4. QED BY <3>2, <3>3
  <2>4. QED BY <2>1, <2>3
<1>11. 0 .. n \subseteq G
  <2> HIDE DEF G
  <2>1. QED BY <1>1, <1>9, <1>10, Upward
<1>12. F[n] = Body(F[n])
  <2>1. n \in 0 .. n /\ F[n] \in V BY <1>1, <1>8
  <2>2. ASSUME NEW T \in Sub PROVE F[n][T] = IF T = {} THEN 0 ELSE Next1(F[n], T)
    <3>1. CASE T = {} BY <1>8, <2>1, <3>1
    <3>2. CASE T # {}
      <4> DEFINE U == T \ {First(T)}
      <4>1. U \in Sub /\ Cardinality(U) \in 0 .. n /\ Cardinality(U) = Cardinality(T) - 1 /\ Cardinality(T) \in 0 .. n
        BY <1>2, <1>3, <3>2
      <4>2. n \in 1 .. n /\ n - 1 \in 0 .. n /\ n - 1 < n /\ n - 1 + 1 = n /\ Cardinality(U) <= n - 1
        <5> HIDE DEF U
        <5>1. QED BY <1>1, <4>1
      <4>3. F[n - 1 + 1][U] = F[n - 1][U]
        <5> HIDE DEF U
        <5>1. n - 1 \in G BY <1>11, <4>2
        <5>2. QED BY <4>1, <4>2, <5>1
      <4>4. F[n][T] = Next1(F[n - 1], T) BY <1>8, <3>2, <4>2
      <4>5. QED BY <3>2, <4>2, <4>3, <4>4
    <3>3. QED BY <3>1, <3>2
  <2>3. F[n] = [T \in Sub |-> F[n][T]] BY <2>1
  <2> HIDE DEF Next1
  <2>4. QED BY <2>2, <2>3 DEF Body
<1>13. chosen = Body(chosen) BY <1>12, Zenon
<1>14. SumOver(f, S) = chosen[S] BY Zenon DEF SumOver, Body, Next1, First, Sub
<1> HIDE DEF chosen
<1>15. /\ chosen = [T \in Sub |-> chosen[T]] /\ chosen[{}] = 0
       /\ \A T \in Sub : T # {} => chosen[T] = Next1(chosen, T)
  <2> DEFINE b == Body(chosen)
  <2>1. b = [T \in Sub |-> b[T]] BY DEF Body
  <2>2. \A T \in Sub : b[T] = IF T = {} THEN 0 ELSE Next1(chosen, T)
    <3> HIDE DEF Next1
    <3>1. QED BY DEF Body
  <2>3. chosen = b BY <1>13
  <2> HIDE DEF b, Next1
  <2>4. QED BY <1>4, <2>1, <2>2, <2>3
<1>16. \A T \in Sub : chosen[T] \in Nat
  <2> DEFINE P == {T \in Sub : chosen[T] \in Nat}
  <2>1. ASSUME NEW T \in Sub, \A x \in T : T \ {x} \in P PROVE T \in P
    <3>1. CASE T = {} BY <1>15, <3>1
    <3>2. CASE T # {}
      <4>1. T \ {First(T)} \in P /\ f[First(T)] \in Nat
        <5> HIDE DEF P
        <5>1. QED BY <1>2, <2>1, <3>2
      <4>2. chosen[T \ {First(T)}] \in Nat BY <4>1
      <4>3. chosen[T] = f[First(T)] + chosen[T \ {First(T)}] BY <1>15, <3>2, Zenon
      <4>4. chosen[T] \in Nat
        <5> DEFINE a == f[First(T)]
                   b == chosen[T \ {First(T)}]
        <5>1. a \in Nat /\ b \in Nat /\ chosen[T] = a + b BY <4>1, <4>2, <4>3
        <5> HIDE DEF a, b
        <5>2. QED BY <5>1
      <4>5. QED BY <4>4
    <3>3. QED BY <3>1, <3>2
  <2> HIDE DEF P
  <2>2. Sub \subseteq P BY <2>1, BySize DEF Sub
  <2>3. QED BY <2>2 DEF P
<1>17. Sums(chosen, f, S) BY <1>15, <1>16 DEF Sums, Sub
<1>18. QED BY <1>14, <1>17

\* It does not matter which element comes last, nor what the function is elsewhere.
LEMMA SumsAre ==
    ASSUME NEW S, IsFiniteSet(S), NEW f, NEW s, Sums(s, f, S), \A x \in S : f[x] \in Nat
    PROVE  /\ \A T \in SUBSET S : \A x \in T : s[T] = f[x] + s[T \ {x}]
           /\ \A R, g, t : S \subseteq R /\ Sums(t, g, R) /\ (\A x \in S : f[x] = g[x]) =>
                  \A T \in SUBSET S : s[T] = t[T]
<1>1. \A T \in SUBSET S : T # {} => First(T) \in T /\ s[T] = f[First(T)] + s[T \ {First(T)}]
  BY DEF First, Sums
<1>2. \A T \in SUBSET S : s[T] \in Nat BY DEF Sums
<1>3. \A T \in SUBSET S : \A x \in T : s[T] = f[x] + s[T \ {x}]
  <2> DEFINE P == {T \in SUBSET S : \A x \in T : s[T] = f[x] + s[T \ {x}]}
  <2>1. ASSUME NEW T \in SUBSET S, \A x \in T : T \ {x} \in P PROVE T \in P
    <3>1. SUFFICES ASSUME NEW x \in T PROVE s[T] = f[x] + s[T \ {x}] OBVIOUS
    <3> DEFINE c == First(T)
               U == T \ {c}
               W == T \ {x}
               Z == T \ {c, x}
    <3>2. c \in T /\ s[T] = f[c] + s[U] BY <1>1
    <3> HIDE DEF c
    <3>3. CASE x = c BY <3>2, <3>3
    <3>4. CASE x # c
      <4>1. x \in U /\ U \in P /\ c \in W /\ W \in P BY <2>1, <3>2, <3>4
      <4>2. U \ {x} = Z /\ W \ {c} = Z OBVIOUS
      <4>3. s[U] = f[x] + s[U \ {x}] /\ s[W] = f[c] + s[W \ {c}]
        <5> HIDE DEF U, W
        <5>1. QED BY <4>1
      <4>4. f[x] \in Nat /\ f[c] \in Nat /\ s[Z] \in Nat
        <5>1. Z \in SUBSET S OBVIOUS
        <5> HIDE DEF Z
        <5>2. QED BY <1>2, <3>2, <5>1
      <4>5. s[U] = f[x] + s[Z] /\ s[W] = f[c] + s[Z] BY <4>2, <4>3
      <4>6. s[T] = f[x] + s[W]
        <5> HIDE DEF U, W, Z
        <5>1. QED BY <3>2, <4>4, <4>5
      <4>7. QED BY <4>6
    <3>5. QED BY <3>3, <3>4
  <2> HIDE DEF P
  <2>2. SUBSET S \subseteq P BY <2>1, BySize
  <2>3. QED BY <2>2 DEF P
<1>4. ASSUME NEW R, NEW g, NEW t, S \subseteq R, Sums(t, g, R), \A x \in S : f[x] = g[x]
      PROVE  \A T \in SUBSET S : s[T] = t[T]
  <2> DEFINE P == {T \in SUBSET S : s[T] = t[T]}
  <2>1. ASSUME NEW T \in SUBSET S, \A x \in T : T \ {x} \in P PROVE T \in P
    <3>1. CASE T = {} BY <1>4, <3>1 DEF Sums
    <3>2. CASE T # {}
      <4>1. First(T) \in T /\ s[T] = f[First(T)] + s[T \ {First(T)}] BY <1>1, <3>2
      <4>2. T \in SUBSET R BY <1>4
      <4>3. t[T] = g[First(T)] + t[T \ {First(T)}] BY <1>4, <3>2, <4>2 DEF Sums
      <4>4. s[T \ {First(T)}] = t[T \ {First(T)}] BY <2>1, <4>1
      <4>5. f[First(T)] = g[First(T)] BY <1>4, <4>1
      <4>6. QED BY <4>1, <4>3, <4>4, <4>5
    <3>3. QED BY <3>1, <3>2
  <2> HIDE DEF P
  <2>2. SUBSET S \subseteq P BY <2>1, BySize
  <2>3. QED BY <2>2 DEF P
<1>5. QED BY <1>3, <1>4

\* The sum over a set, and over one with an element more.
LEMMA SumSame ==
    ASSUME NEW S, IsFiniteSet(S), NEW f, NEW g, \A x \in S : f[x] \in Nat /\ f[x] = g[x]
    PROVE  SumOver(f, S) \in Nat /\ SumOver(f, S) = SumOver(g, S) /\ (S = {} => SumOver(f, S) = 0)
<1>1. PICK s : Sums(s, f, S) /\ SumOver(f, S) = s[S] BY SumIs
<1>2. \A x \in S : g[x] \in Nat OBVIOUS
<1>3. PICK t : Sums(t, g, S) /\ SumOver(g, S) = t[S] BY <1>2, SumIs
<1>4. S \subseteq S /\ S \in SUBSET S OBVIOUS
<1>5. \A T \in SUBSET S : s[T] = t[T] BY <1>1, <1>3, <1>4, SumsAre
<1>6. s[S] \in Nat /\ (S = {} => s[S] = 0) BY <1>1 DEF Sums
<1>7. QED BY <1>1, <1>3, <1>4, <1>5, <1>6

LEMMA SumMore ==
    ASSUME NEW S, IsFiniteSet(S), NEW x, x \notin S, NEW f, \A y \in S \cup {x} : f[y] \in Nat
    PROVE  SumOver(f, S \cup {x}) = SumOver(f, S) + f[x]
<1> DEFINE R == S \cup {x}
<1>1. IsFiniteSet(R) BY FS_AddElement
<1>2. S \subseteq R /\ R \in SUBSET R /\ x \in R /\ R \ {x} = S /\ S \in SUBSET S OBVIOUS
<1>3. \A y \in R : f[y] \in Nat OBVIOUS
<1>4. \A y \in S : f[y] \in Nat OBVIOUS
<1> HIDE DEF R
<1>5. PICK s : Sums(s, f, S) /\ SumOver(f, S) = s[S] BY <1>4, SumIs
<1>6. PICK t : Sums(t, f, R) /\ SumOver(f, R) = t[R] BY <1>1, <1>3, SumIs
<1>7. t[R] = f[x] + t[R \ {x}] BY <1>1, <1>2, <1>3, <1>6, SumsAre
<1>8. s[S] = t[S] BY <1>2, <1>4, <1>5, <1>6, SumsAre
<1>9. s[S] \in Nat /\ f[x] \in Nat BY <1>2, <1>3, <1>5 DEF Sums
<1>10. SumOver(f, R) = SumOver(f, S) + f[x]
  <2> DEFINE a == s[S]
             b == f[x]
  <2>1. a \in Nat /\ b \in Nat /\ SumOver(f, R) = b + a /\ SumOver(f, S) = a
    BY <1>2, <1>5, <1>6, <1>7, <1>8, <1>9, Zenon
  <2> SUFFICES SumOver(f, R) = SumOver(f, S) + b OBVIOUS
  <2> HIDE DEF a, b
  <2>2. QED BY <2>1
<1>11. QED BY <1>10 DEF R
=============================================================================
