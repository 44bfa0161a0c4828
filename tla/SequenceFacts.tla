---------------------------- MODULE SequenceFacts ----------------------------
(***************************************************************************)
(* Facts that several proofs rest on: induction on sets of naturals, the   *)
(* existence of a function defined by recursion, and what the operators on *)
(* sequences return, element by element.                                   *)
(***************************************************************************)
EXTENDS Integers, Sequences, SequencesExt, WellFoundedInduction, TLAPS

-----------------------------------------------------------------------------
(* Induction and recursion                                                 *)

\* A set that holds zero and the successor of each natural in it holds all of them.
LEMMA SetInduction ==
  ASSUME NEW S, 0 \in S, \A n \in Nat : n \in S => n + 1 \in S
  PROVE  \A n \in Nat : n \in S
<1> DEFINE T == Nat \ S
<1> SUFFICES ASSUME T # {} PROVE FALSE
  OBVIOUS
<1>1. PICK m \in T : \A n \in T : ~ (<<n, m>> \in OpToRel(<, Nat))
  BY WFMin, NatLessThanWellFounded
<1>2. \A n \in T : ~ (n < m)
  BY <1>1 DEF OpToRel
<1>3. m # 0 /\ m - 1 \in Nat /\ m - 1 \in S
  BY <1>2
<1> QED BY <1>3

\* B reads a function from D to R only at arguments of a smaller rank.
Recursive(D, R, bound, rank, B) ==
    /\ R # {} /\ bound \in Nat /\ rank \in [D -> 0..bound]
    /\ B \in [[D -> R] -> [D -> R]]
    /\ \A f, g \in [D -> R], x \in D :
          (\A y \in D : rank[y] < rank[x] => f[y] = g[y]) => B[f][x] = B[g][x]

\* Then the equation f = B[f] has a solution: the recursive functions of the
\* modules are of this form.
LEMMA RankRecursion ==
  ASSUME NEW D, NEW R, NEW bound, NEW rank, NEW B, Recursive(D, R, bound, rank, B)
  PROVE  \E f \in [D -> R] : f = B[f]
<1> USE DEF Recursive
<1> DEFINE Good(f, d) == \A x \in D : rank[x] < d => B[f][x] = f[x]
           S == {d \in Nat : \E f \in [D -> R] : Good(f, d)}
<1>1. 0 \in S
  <2>1. PICK r \in R : TRUE
    OBVIOUS
  <2>2. [x \in D |-> r] \in [D -> R]
    OBVIOUS
  <2>3. Good([x \in D |-> r], 0)
    OBVIOUS
  <2> QED BY <2>2, <2>3
<1>2. ASSUME NEW d \in Nat, d \in S PROVE d + 1 \in S
  <2>1. PICK f \in [D -> R] : Good(f, d)
    BY <1>2
  <2>2. B[f] \in [D -> R]
    OBVIOUS
  <2>3. Good(B[f], d + 1)
    <3> SUFFICES ASSUME NEW x \in D, rank[x] < d + 1 PROVE B[B[f]][x] = B[f][x]
      OBVIOUS
    <3>1. \A y \in D : rank[y] < rank[x] => B[f][y] = f[y]
      BY <2>1
    <3> QED BY <3>1, <2>2
  <2> QED BY <2>2, <2>3
<1> HIDE DEF S
<1>3. bound + 1 \in S
  BY <1>1, <1>2, SetInduction
<1>4. PICK f \in [D -> R] : Good(f, bound + 1)
  BY <1>3 DEF S
<1>5. \A x \in D : B[f][x] = f[x]
  BY <1>4
<1> QED BY <1>5

-----------------------------------------------------------------------------
(* Sequences, element by element                                           *)

\* A sequence over a set is one over any larger set.
LEMMA SeqOfMore ==
  ASSUME NEW S, NEW T, S \subseteq T, NEW s \in Seq(S)
  PROVE  s \in Seq(T)
<1>1. Len(s) \in Nat /\ s \in [1..Len(s) -> S]
  OBVIOUS
<1>2. s \in [1..Len(s) -> T]
  BY <1>1
<1> QED BY <1>1, <1>2

\* SubSeq: the elements from m on, up to n.
LEMMA SubSeqFacts ==
  ASSUME NEW S, NEW s \in Seq(S), NEW m \in 1..(Len(s) + 1), NEW n \in (m - 1)..Len(s)
  PROVE  /\ SubSeq(s, m, n) \in Seq(S)
         /\ Len(SubSeq(s, m, n)) = n - m + 1
         /\ \A j \in 1..(n - m + 1) : SubSeq(s, m, n)[j] = s[m + j - 1]
OBVIOUS

\* Concatenation.
LEMMA ConcatFacts ==
  ASSUME NEW S, NEW s \in Seq(S), NEW t \in Seq(S)
  PROVE  /\ s \o t \in Seq(S) /\ Len(s \o t) = Len(s) + Len(t)
         /\ \A j \in 1..(Len(s) + Len(t)) :
               (s \o t)[j] = IF j <= Len(s) THEN s[j] ELSE t[j - Len(s)]
OBVIOUS

\* u is s with e inserted at place i: what was at i or after it moves up by one.
IsInsert(u, s, i, e) ==
    /\ Len(u) = Len(s) + 1
    /\ \A j \in 1..(Len(s) + 1) : u[j] = IF j < i THEN s[j] ELSE IF j = i THEN e ELSE s[j - 1]

\* InsertAt does that.
LEMMA InsertAtFacts ==
  ASSUME NEW S, NEW s \in Seq(S), NEW i \in 1..(Len(s) + 1), NEW e \in S
  PROVE  InsertAt(s, i, e) \in Seq(S) /\ IsInsert(InsertAt(s, i, e), s, i, e)
<1>0. Len(s) \in Nat /\ i \in Int
  OBVIOUS
<1> DEFINE a == SubSeq(s, 1, i - 1)
           b == SubSeq(s, i, Len(s))
<1>1. a \in Seq(S) /\ Len(a) = i - 1 /\ \A j \in 1..(i - 1) : a[j] = s[j]
  OBVIOUS
<1>2. b \in Seq(S) /\ Len(b) = Len(s) - i + 1 /\ \A j \in 1..(Len(s) - i + 1) : b[j] = s[i + j - 1]
  OBVIOUS
<1>3. InsertAt(s, i, e) = a \o <<e>> \o b
  BY DEF InsertAt
<1> HIDE DEF a, b
<1> DEFINE c == a \o <<e>>
<1>4. c \in Seq(S) /\ Len(c) = i /\ \A j \in 1..i : c[j] = IF j < i THEN s[j] ELSE e
  BY <1>1
<1>5. InsertAt(s, i, e) = c \o b
  BY <1>3
<1> HIDE DEF c
<1>6. c \o b \in Seq(S) /\ Len(c \o b) = Len(s) + 1
  <2>1. c \o b \in Seq(S) /\ Len(c \o b) = Len(c) + Len(b)
    <3>1. c \in Seq(S) /\ b \in Seq(S)
      BY <1>2, <1>4
    <3> QED BY ONLY <3>1, ConcatFacts
  <2> QED BY <2>1, <1>0, <1>2, <1>4
<1>7. ASSUME NEW j \in 1..(Len(s) + 1)
      PROVE  (c \o b)[j] = IF j < i THEN s[j] ELSE IF j = i THEN e ELSE s[j - 1]
  <2>0. j \in Int
    BY <1>0
  <2>1. CASE j <= i
    BY <1>0, <2>1, <1>2, <1>4
  <2>2. CASE j > i
    <3>1. (c \o b)[j] = b[j - i] /\ j - i \in 1..(Len(s) - i + 1)
      BY <1>0, <2>2, <1>2, <1>4
    <3> QED BY <1>0, <3>1, <2>2, <1>2
  <2>3. j <= i \/ j > i
    BY <1>0, <2>0
  <2> QED BY <2>1, <2>2, <2>3
<1> QED BY <1>5, <1>6, <1>7 DEF IsInsert

\* RemoveAt: what is after i moves down by one.
LEMMA RemoveAtFacts ==
  ASSUME NEW S, NEW s \in Seq(S), NEW i \in 1..Len(s)
  PROVE  /\ RemoveAt(s, i) \in Seq(S)
         /\ Len(RemoveAt(s, i)) = Len(s) - 1
         /\ \A j \in 1..(Len(s) - 1) : RemoveAt(s, i)[j] = IF j < i THEN s[j] ELSE s[j + 1]
<1>0. Len(s) \in Nat /\ i \in Int
  OBVIOUS
<1> DEFINE a == SubSeq(s, 1, i - 1)
           b == SubSeq(s, i + 1, Len(s))
<1>1. a \in Seq(S) /\ Len(a) = i - 1 /\ \A j \in 1..(i - 1) : a[j] = s[j]
  OBVIOUS
<1>2. b \in Seq(S) /\ Len(b) = Len(s) - i /\ \A j \in 1..(Len(s) - i) : b[j] = s[i + j]
  OBVIOUS
<1>3. RemoveAt(s, i) = a \o b
  BY DEF RemoveAt
<1> HIDE DEF a, b
<1>4. a \o b \in Seq(S) /\ Len(a \o b) = Len(s) - 1
  <2>1. a \in Seq(S) /\ b \in Seq(S)
    BY ONLY <1>1, <1>2
  <2>2. a \o b \in Seq(S) /\ Len(a \o b) = Len(a) + Len(b)
    BY ONLY <2>1, ConcatFacts
  <2> QED BY ONLY <2>2, <1>0, <1>1, <1>2
<1>5. ASSUME NEW j \in 1..(Len(s) - 1) PROVE (a \o b)[j] = IF j < i THEN s[j] ELSE s[j + 1]
  <2>0. j \in Int
    BY <1>0
  <2>1. CASE j < i
    BY <1>0, <2>1, <1>1, <1>2
  <2>2. CASE j >= i
    <3>1. (a \o b)[j] = b[j - i + 1] /\ j - i + 1 \in 1..(Len(s) - i)
      BY <1>0, <2>2, <1>1, <1>2
    <3> QED BY <1>0, <3>1, <2>2, <1>2
  <2>3. j < i \/ j >= i
    BY <1>0, <2>0
  <2> QED BY <2>1, <2>2, <2>3
<1> QED BY <1>3, <1>4, <1>5

\* Front and Last.
LEMMA FrontFacts ==
  ASSUME NEW S, NEW s \in Seq(S), Len(s) > 0
  PROVE  /\ Front(s) \in Seq(S) /\ Len(Front(s)) = Len(s) - 1
         /\ \A j \in 1..(Len(s) - 1) : Front(s)[j] = s[j]
         /\ Last(s) \in S /\ Last(s) = s[Len(s)]
<1>1. Front(s) \in Seq(S) /\ Len(Front(s)) = Len(s) - 1 /\ \A j \in 1..(Len(s) - 1) : Front(s)[j] = s[j]
  <2>1. Front(s) = SubSeq(s, 1, Len(s) - 1) /\ Len(s) \in Nat
    BY DEF Front
  <2>2. 1 \in 1..(Len(s) + 1) /\ Len(s) - 1 \in (1 - 1)..Len(s)
    BY <2>1
  <2>3. /\ SubSeq(s, 1, Len(s) - 1) \in Seq(S)
        /\ Len(SubSeq(s, 1, Len(s) - 1)) = (Len(s) - 1) - 1 + 1
        /\ \A j \in 1..((Len(s) - 1) - 1 + 1) : SubSeq(s, 1, Len(s) - 1)[j] = s[1 + j - 1]
    BY <2>2, SubSeqFacts
  <2>4. (Len(s) - 1) - 1 + 1 = Len(s) - 1 /\ \A j \in 1..(Len(s) - 1) : 1 + j - 1 = j
    BY <2>1
  <2> QED BY <2>1, <2>3, <2>4
<1>2. Last(s) \in S /\ Last(s) = s[Len(s)]
  BY DEF Last
<1> QED BY <1>1, <1>2

\* Head and Tail.
LEMMA TailFacts ==
  ASSUME NEW S, NEW s \in Seq(S), Len(s) > 0
  PROVE  /\ Tail(s) \in Seq(S) /\ Len(Tail(s)) = Len(s) - 1
         /\ \A j \in 1..(Len(s) - 1) : Tail(s)[j] = s[j + 1]
         /\ Head(s) \in S /\ Head(s) = s[1]
OBVIOUS

\* Cons.
LEMMA ConsFacts ==
  ASSUME NEW S, NEW s \in Seq(S), NEW e \in S
  PROVE  /\ Cons(e, s) \in Seq(S) /\ Len(Cons(e, s)) = Len(s) + 1
         /\ Cons(e, s)[1] = e
         /\ \A j \in 1..Len(s) : Cons(e, s)[j + 1] = s[j]
         /\ \A j \in 1..(Len(s) + 1) : Cons(e, s)[j] = IF j = 1 THEN e ELSE s[j - 1]
BY DEF Cons

\* u is s with e in front of it.
IsCons(u, s, e) ==
    /\ Len(u) = Len(s) + 1
    /\ \A j \in 1..(Len(s) + 1) : u[j] = IF j = 1 THEN e ELSE s[j - 1]

\* What putting an element in front of a sequence returns, in terms of its places.
LEMMA ConsIs ==
  ASSUME NEW S, NEW s \in Seq(S), NEW e \in S
  PROVE  Cons(e, s) \in Seq(S) /\ IsCons(Cons(e, s), s, e)
BY ConsFacts DEF IsCons

\* Append.
LEMMA AppendFacts ==
  ASSUME NEW S, NEW s \in Seq(S), NEW e \in S
  PROVE  /\ Append(s, e) \in Seq(S) /\ Len(Append(s, e)) = Len(s) + 1
         /\ \A j \in 1..(Len(s) + 1) : Append(s, e)[j] = IF j <= Len(s) THEN s[j] ELSE e
OBVIOUS
=============================================================================
