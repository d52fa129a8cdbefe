------------------------------ MODULE Selection ------------------------------
(***************************************************************************)
(* The filter method of an array, by a set: what SelectSeq is for a        *)
(* predicate; and a sum: what FoldFunctionOnSet is for +.  They are        *)
(* recursive functions, about which one can prove.                         *)
(***************************************************************************)
EXTENDS Integers, Sequences

\* The elements of a sequence that are in a set, in their order.
Kept(s, T) ==
    LET kept[i \in 0 .. Len(s)] ==
            IF i = 0 THEN <<>>
            ELSE IF s[i] \in T THEN Append(kept[i - 1], s[i])
            ELSE kept[i - 1]
    IN  kept[Len(s)]

\* What the values of a function at the elements of a set add up to.
SumOver(f, S) ==
    LET sum[T \in SUBSET S] ==
            IF T = {} THEN 0
            ELSE LET x == CHOOSE x \in T : TRUE IN f[x] + sum[T \ {x}]
    IN  sum[S]
=============================================================================
