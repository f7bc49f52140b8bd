--------------------------- MODULE SequenceFacts ----------------------------
(***************************************************************************)
(* Induction and recursion for the proofs about sequences: what a function *)
(* defined by recursion over a sequence yields for a concatenation.        *)
(*                                                                         *)
(* The library's theorems on induction take a predicate as an operator,    *)
(* which the provers at hand cannot instantiate.  Here a predicate is the  *)
(* set of the numbers that satisfy it, and the step of a recursion is a    *)
(* function, so every fact below is first order.                           *)
(***************************************************************************)
EXTENDS SequenceTheorems, WellFoundedInduction, TLAPS

-----------------------------------------------------------------------------
(* Natural numbers *)

\* A set of natural numbers has a least member.
LEMMA LeastNumber ==
    ASSUME NEW T \in SUBSET Nat, T # {}
    PROVE  \E x \in T : \A y \in T : x <= y
  <1> DEFINE R == OpToRel(<, Nat)
  <1>1. IsWellFoundedOn(R, Nat)
    BY NatLessThanWellFounded
  <1>2. \A x, y \in Nat : y < x => <<y, x>> \in R
    BY DEF OpToRel
  <1> HIDE DEF R
  <1>3. PICK x \in T : \A y \in T : ~ (<<y, x>> \in R)
    BY <1>1, WFMin
  <1>4. \A y \in T : ~(y < x)
    BY <1>2, <1>3
  <1>5. \A y \in T : x <= y
    BY <1>4
  <1>6. QED
    BY <1>5

\* Induction: a set that has 0, and with each number the next, has them all.
LEMMA SetInduction ==
    ASSUME NEW S, 0 \in S, \A n \in Nat : n \in S => n + 1 \in S
    PROVE  Nat \subseteq S
  <1> SUFFICES ASSUME ~(Nat \subseteq S) PROVE FALSE
    OBVIOUS
  <1> DEFINE T == Nat \ S
  <1>1. T \in SUBSET Nat /\ T # {}
    OBVIOUS
  <1>2. PICK x \in T : \A y \in T : x <= y
    BY <1>1, LeastNumber
  <1>3. x # 0 /\ x \in Nat
    BY <1>2
  <1>4. x - 1 \in Nat /\ ~(x <= x - 1)
    BY <1>3
  <1>5. x - 1 \in S
    BY <1>2, <1>4
  <1>6. (x - 1) + 1 \in S
    BY <1>4, <1>5
  <1>7. QED
    BY <1>2, <1>3, <1>6

\* Induction over the length: the same for a set of sequences.
LEMMA SequenceInduction ==
    ASSUME NEW X, NEW S, <<>> \in S,
           \A s \in Seq(X) : s # <<>> /\ Tail(s) \in S => s \in S
    PROVE  Seq(X) \subseteq S
  <1> DEFINE N == {n \in Nat : \A s \in Seq(X) : Len(s) = n => s \in S}
  <1>1. 0 \in N
    <2>1. \A s \in Seq(X) : Len(s) = 0 => s = <<>>
      BY EmptySeq
    <2>2. QED
      BY <2>1
  <1>2. ASSUME NEW n \in Nat, n \in N PROVE n + 1 \in N
    <2>1. SUFFICES ASSUME NEW s \in Seq(X), Len(s) = n + 1 PROVE s \in S
      OBVIOUS
    <2>2. s # <<>>
      BY <2>1, EmptySeq
    <2>3. Tail(s) \in Seq(X) /\ Len(Tail(s)) = n
      BY <2>1, <2>2, HeadTailProperties
    <2>4. QED
      BY <1>2, <2>2, <2>3
  <1>3. Nat \subseteq N
    <2> HIDE DEF N
    <2> QED BY <1>1, <1>2, SetInduction
  <1>4. \A s \in Seq(X) : Len(s) \in Nat
    BY LenProperties
  <1>5. QED
    BY <1>3, <1>4

-----------------------------------------------------------------------------
(* Recursion *)

\* g is defined by recursion on the tail of a sequence.
Recurs(g, X, e, step) ==
    \A s \in Seq(X) :
        g[s] = IF s = <<>> THEN e ELSE step[<<Head(s), g[Tail(s)]>>]

\* Such a function exists.
LEMMA SequenceRecursion ==
    ASSUME NEW X, NEW V, NEW e \in V, NEW step \in [X \X V -> V]
    PROVE  \E g \in [Seq(X) -> V] : Recurs(g, X, e, step)
  <1> DEFINE Upto(n) == {s \in Seq(X) : Len(s) <= n}
             Solves(g, n) ==
                 /\ g \in [Upto(n) -> V]
                 /\ \A s \in Upto(n) :
                        g[s] = IF s = <<>> THEN e ELSE step[<<Head(s), g[Tail(s)]>>]
             N == {n \in Nat : \E g : Solves(g, n)}
  <1>1. \A s \in Seq(X) : Len(s) \in Nat /\ s \in Upto(Len(s))
    BY LenProperties
  <1>2. ASSUME NEW n \in Nat, NEW s \in Upto(n), s # <<>>
        PROVE  /\ Head(s) \in X /\ Tail(s) \in Upto(n)
               /\ Tail(s) \in Upto(n - 1) /\ Len(s) \in Nat \ {0}
    BY <1>2, HeadTailProperties, EmptySeq
  <1>3. 0 \in N
    <2> DEFINE g == [s \in Upto(0) |-> e]
    <2>1. \A s \in Upto(0) : s = <<>>
      BY EmptySeq
    <2>2. Solves(g, 0)
      BY <2>1
    <2>3. QED
      BY <2>2
  <1>4. ASSUME NEW n \in Nat, n \in N PROVE n + 1 \in N
    <2>1. PICK g : Solves(g, n)
      BY <1>4
    <2> DEFINE h == [s \in Upto(n + 1) |->
                        IF s = <<>> THEN e ELSE step[<<Head(s), g[Tail(s)]>>]]
    <2>2. \A s \in Upto(n + 1) : s # <<>> => Head(s) \in X /\ Tail(s) \in Upto(n)
      <3>1. n + 1 \in Nat /\ (n + 1) - 1 = n
        OBVIOUS
      <3> HIDE DEF Upto
      <3>2. QED
        BY <1>2, <3>1
    <2>3. h \in [Upto(n + 1) -> V]
      <3> SUFFICES ASSUME NEW s \in Upto(n + 1) PROVE h[s] \in V
        OBVIOUS
      <3> HIDE DEF Upto
      <3>1. CASE s = <<>>
        BY <3>1
      <3>2. CASE s # <<>>
        <4>1. g[Tail(s)] \in V /\ Head(s) \in X
          BY <2>1, <2>2, <3>2
        <4>2. QED
          BY <3>2, <4>1
      <3>3. QED
        BY <3>1, <3>2
    <2>4. \A s \in Upto(n) : s \in Upto(n + 1) /\ h[s] = g[s]
      <3>1. \A s \in Upto(n) : s \in Upto(n + 1)
        BY <1>1
      <3> HIDE DEF Upto
      <3>2. QED
        BY <2>1, <3>1
    <2>5. \A s \in Upto(n + 1) :
              h[s] = IF s = <<>> THEN e ELSE step[<<Head(s), h[Tail(s)]>>]
      <3> SUFFICES ASSUME NEW s \in Upto(n + 1)
                   PROVE  h[s] = IF s = <<>> THEN e ELSE step[<<Head(s), h[Tail(s)]>>]
        OBVIOUS
      <3> HIDE DEF Upto
      <3>1. s # <<>> => h[Tail(s)] = g[Tail(s)]
        <4> HIDE DEF h
        <4> QED BY <2>2, <2>4
      <3>2. h[s] = IF s = <<>> THEN e ELSE step[<<Head(s), g[Tail(s)]>>]
        OBVIOUS
      <3> HIDE DEF h
      <3>3. QED
        BY <3>1, <3>2
    <2> HIDE DEF h
    <2>6. Solves(h, n + 1)
      BY <2>3, <2>5
    <2>7. n + 1 \in Nat
      OBVIOUS
    <2> HIDE DEF Solves
    <2>8. QED
      BY <2>6, <2>7
  <1>5. Nat \subseteq N
    <2> HIDE DEF N
    <2> QED BY <1>3, <1>4, SetInduction
  <1>6. ASSUME NEW n \in Nat, NEW m \in Nat, n <= m, NEW g, NEW h,
               Solves(g, n), Solves(h, m)
        PROVE  \A s \in Upto(n) : g[s] = h[s]
    <2> DEFINE S == {s \in Seq(X) : s \in Upto(n) => g[s] = h[s]}
    <2>1. \A s \in Upto(n) : s \in Upto(m)
      BY <1>6, <1>1
    <2>2. <<>> \in S
      <3>1. <<>> \in Upto(n)
        BY EmptySeq
      <3> HIDE DEF Upto
      <3>2. <<>> \in Seq(X)
        BY EmptySeq
      <3>3. g[<<>>] = e /\ h[<<>>] = e
        BY <1>6, <2>1, <3>1
      <3>4. QED
        BY <3>2, <3>3
    <2>3. ASSUME NEW s \in Seq(X), s # <<>>, Tail(s) \in S PROVE s \in S
      <3> SUFFICES ASSUME s \in Upto(n) PROVE g[s] = h[s]
        OBVIOUS
      <3>1. Tail(s) \in Upto(n)
        <4> HIDE DEF Upto
        <4> QED BY <1>2, <2>3
      <3> HIDE DEF Upto
      <3>2. g[Tail(s)] = h[Tail(s)]
        BY <2>3, <3>1
      <3>3. QED
        BY <1>6, <2>1, <2>3, <3>2
    <2>4. Seq(X) \subseteq S
      <3> HIDE DEF S
      <3> QED BY <2>2, <2>3, SequenceInduction
    <2>5. QED
      BY <2>4
  <1> DEFINE part(n) == CHOOSE g : Solves(g, n)
             f == [s \in Seq(X) |-> part(Len(s))[s]]
  <1>7. \A n \in Nat : Solves(part(n), n)
    <2> SUFFICES ASSUME NEW n \in Nat PROVE Solves(part(n), n)
      OBVIOUS
    <2>1. \E g : Solves(g, n)
      BY <1>5
    <2> HIDE DEF Solves
    <2>2. QED
      BY <2>1
  <1>8. f \in [Seq(X) -> V]
    <2> SUFFICES ASSUME NEW s \in Seq(X) PROVE part(Len(s))[s] \in V
      OBVIOUS
    <2> HIDE DEF part, Upto
    <2>1. QED
      BY <1>1, <1>7
  <1>9. ASSUME NEW s \in Seq(X)
        PROVE  f[s] = IF s = <<>> THEN e ELSE step[<<Head(s), f[Tail(s)]>>]
    <2>1. Len(s) \in Nat /\ s \in Upto(Len(s))
      BY <1>1
    <2>2. CASE s = <<>>
      <3> HIDE DEF part, Upto
      <3> QED BY <1>7, <2>1, <2>2
    <2>3. CASE s # <<>>
      <3>1. /\ Tail(s) \in Seq(X) /\ Len(Tail(s)) \in Nat
            /\ Len(Tail(s)) <= Len(s)
        BY <2>1, <2>3, HeadTailProperties, LenProperties
      <3>2. Tail(s) \in Upto(Len(Tail(s)))
        BY <1>1, <3>1
      <3> HIDE DEF part, Upto, Solves
      <3>3. Solves(part(Len(Tail(s))), Len(Tail(s))) /\ Solves(part(Len(s)), Len(s))
        BY <1>7, <2>1, <3>1
      <3>4. part(Len(Tail(s)))[Tail(s)] = part(Len(s))[Tail(s)]
        BY <1>6, <2>1, <3>1, <3>2, <3>3
      <3>5. part(Len(s))[s] = step[<<Head(s), part(Len(s))[Tail(s)]>>]
        BY <2>1, <2>3, <3>3 DEF Solves
      <3>6. QED
        BY <2>3, <3>1, <3>4, <3>5
    <2>4. QED
      BY <2>2, <2>3
  <1> HIDE DEF f
  <1>10. QED
    BY <1>8, <1>9 DEF Recurs

-----------------------------------------------------------------------------
(* Concatenation of what each element of a sequence contributes *)

Flat(X, m) ==
    LET f[s \in Seq(X)] == IF s = <<>> THEN <<>> ELSE m[Head(s)] \o f[Tail(s)]
    IN  f

\* A sequence is its head before its tail.
LEMMA HeadBeforeTail ==
    ASSUME NEW X, NEW s \in Seq(X), s # <<>>
    PROVE  s = <<Head(s)>> \o Tail(s)
  <1>1. Head(s) \in X /\ Tail(s) \in Seq(X) /\ Len(Tail(s)) = Len(s) - 1
        /\ Len(s) \in Nat \ {0} /\ Head(s) = s[1]
        /\ \A i \in 1..Len(Tail(s)) : Tail(s)[i] = s[i + 1]
    BY HeadTailProperties, EmptySeq
  <1>2. <<Head(s)>> \in Seq(X) /\ Len(<<Head(s)>>) = 1 /\ <<Head(s)>>[1] = Head(s)
    BY <1>1
  <1> DEFINE t == <<Head(s)>> \o Tail(s)
  <1>3. /\ t \in Seq(X) /\ Len(t) = Len(s)
        /\ \A i \in 1..Len(s) : t[i] = IF i <= 1 THEN <<Head(s)>>[i] ELSE Tail(s)[i - 1]
    BY <1>1, <1>2, ConcatProperties
  <1>4. \A i \in 1..Len(s) : t[i] = s[i]
    <2> SUFFICES ASSUME NEW i \in 1..Len(s) PROVE t[i] = s[i]
      OBVIOUS
    <2> HIDE DEF t
    <2>1. CASE i = 1
      BY <1>1, <1>2, <1>3, <2>1
    <2>2. CASE i # 1
      <3>1. i - 1 \in 1..Len(Tail(s)) /\ (i - 1) + 1 = i /\ ~(i <= 1)
        BY <1>1, <2>2
      <3>2. Tail(s)[i - 1] = s[i]
        BY <1>1, <3>1
      <3>3. QED
        BY <1>3, <3>1, <3>2
    <2>3. QED
      BY <2>1, <2>2
  <1> HIDE DEF t
  <1>5. t = s
    BY <1>3, <1>4, SeqEqual
  <1>6. QED
    BY <1>5 DEF t

\* The head and the tail of a concatenation.
LEMMA HeadTailOfConcat ==
    ASSUME NEW X, NEW s \in Seq(X), s # <<>>, NEW t \in Seq(X)
    PROVE  /\ s \o t # <<>> /\ Head(s \o t) = Head(s) /\ Tail(s \o t) = Tail(s) \o t
  <1>1. /\ Tail(s) \in Seq(X) /\ Len(Tail(s)) = Len(s) - 1 /\ Head(s) = s[1]
        /\ \A i \in 1..Len(Tail(s)) : Tail(s)[i] = s[i + 1]
        /\ Len(s) \in Nat \ {0} /\ Len(t) \in Nat
    BY HeadTailProperties, EmptySeq
  <1> DEFINE st == s \o t
             u == Tail(s) \o t
  <1>2. /\ st \in Seq(X) /\ Len(st) = Len(s) + Len(t)
        /\ \A i \in 1..(Len(s) + Len(t)) :
               st[i] = IF i <= Len(s) THEN s[i] ELSE t[i - Len(s)]
    BY ConcatProperties
  <1>3. /\ u \in Seq(X) /\ Len(u) = Len(s) - 1 + Len(t)
        /\ \A i \in 1..(Len(s) - 1 + Len(t)) :
               u[i] = IF i <= Len(s) - 1 THEN Tail(s)[i] ELSE t[i - (Len(s) - 1)]
    BY <1>1, ConcatProperties
  <1> HIDE DEF st, u
  <1>4. st # <<>> /\ Head(st) = st[1] /\ st[1] = s[1]
    BY <1>1, <1>2
  <1>5. /\ Tail(st) \in Seq(X) /\ Len(Tail(st)) = Len(s) + Len(t) - 1
        /\ \A i \in 1..Len(Tail(st)) : Tail(st)[i] = st[i + 1]
    BY <1>2, <1>4, HeadTailProperties
  <1>6. \A i \in 1..Len(u) : Tail(st)[i] = u[i]
    <2> SUFFICES ASSUME NEW i \in 1..Len(u) PROVE Tail(st)[i] = u[i]
      OBVIOUS
    <2>1. Tail(st)[i] = st[i + 1] /\ i + 1 \in 1..(Len(s) + Len(t))
          /\ i \in 1..(Len(s) - 1 + Len(t))
      BY <1>1, <1>3, <1>5
    <2>2. CASE i <= Len(s) - 1
      <3>1. i + 1 <= Len(s) /\ i \in 1..Len(Tail(s))
        BY <1>1, <2>2
      <3>2. QED
        BY <1>1, <1>2, <1>3, <2>1, <2>2, <3>1
    <2>3. CASE ~(i <= Len(s) - 1)
      <3>1. ~(i + 1 <= Len(s)) /\ (i + 1) - Len(s) = i - (Len(s) - 1)
        BY <1>1, <2>3
      <3>2. QED
        BY <1>2, <1>3, <2>1, <2>3, <3>1
    <2>4. QED
      BY <2>2, <2>3
  <1>7. Tail(st) = u
    BY <1>1, <1>3, <1>5, <1>6, SeqEqual
  <1>8. QED
    BY <1>1, <1>4, <1>7 DEF st, u

\* The recursive definition of Flat has a solution, and its values are sequences.
LEMMA FlatIsDefined ==
    ASSUME NEW X, NEW V, NEW m \in [X -> Seq(V)]
    PROVE  /\ Flat(X, m) \in [Seq(X) -> Seq(V)]
           /\ \A s \in Seq(X) :
                  Flat(X, m)[s] = IF s = <<>> THEN <<>>
                                  ELSE m[Head(s)] \o Flat(X, m)[Tail(s)]
  <1> DEFINE step == [p \in X \X Seq(V) |-> m[p[1]] \o p[2]]
             Body(g) == [s \in Seq(X) |->
                            IF s = <<>> THEN <<>> ELSE m[Head(s)] \o g[Tail(s)]]
  <1>1. step \in [X \X Seq(V) -> Seq(V)]
    BY ConcatProperties
  <1>2. <<>> \in Seq(V)
    BY EmptySeq
  <1>3. PICK g \in [Seq(X) -> Seq(V)] :
            \A s \in Seq(X) :
                g[s] = IF s = <<>> THEN <<>> ELSE step[<<Head(s), g[Tail(s)]>>]
    <2> DEFINE W == Seq(V)
               e == <<>>
    <2>1. step \in [X \X W -> W] /\ e \in W
      BY <1>1, <1>2
    <2> HIDE DEF step, W, e
    <2>2. \E g \in [Seq(X) -> W] : Recurs(g, X, e, step)
      BY <2>1, SequenceRecursion
    <2>3. QED
      BY <2>2 DEF W, e, Recurs
  <1>4. ASSUME NEW s \in Seq(X)
        PROVE  g[s] = IF s = <<>> THEN <<>> ELSE m[Head(s)] \o g[Tail(s)]
    <2>1. CASE s = <<>>
      BY <1>3, <2>1
    <2>2. CASE s # <<>>
      <3>1. Head(s) \in X /\ Tail(s) \in Seq(X)
        BY <2>2, HeadTailProperties
      <3>2. <<Head(s), g[Tail(s)]>> \in X \X Seq(V)
        BY <3>1
      <3>3. step[<<Head(s), g[Tail(s)]>>] = m[Head(s)] \o g[Tail(s)]
        BY <3>2
      <3> HIDE DEF step
      <3>4. QED
        BY <1>3, <2>2, <3>3
    <2>3. QED
      BY <2>1, <2>2
  <1>5. g = Body(g)
    BY <1>4
  <1> DEFINE f == CHOOSE h : h = Body(h)
  <1>6. Flat(X, m) = f
    BY DEF Flat
  <1>7. f = Body(f)
    <2> HIDE DEF Body
    <2> QED BY <1>5
  <1>8. \A s \in Seq(X) : f[s] = IF s = <<>> THEN <<>> ELSE m[Head(s)] \o f[Tail(s)]
    <2> HIDE DEF f
    <2> QED BY <1>7
  <1> HIDE DEF f
  <1> DEFINE S == {s \in Seq(X) : f[s] \in Seq(V)}
  <1>9. <<>> \in S
    BY <1>2, <1>8, EmptySeq
  <1>10. ASSUME NEW s \in Seq(X), s # <<>>, Tail(s) \in S PROVE s \in S
    <2>1. Head(s) \in X
      BY <1>10, HeadTailProperties
    <2>2. m[Head(s)] \in Seq(V) /\ f[Tail(s)] \in Seq(V)
      BY <1>10, <2>1
    <2>3. m[Head(s)] \o f[Tail(s)] \in Seq(V)
      BY <2>2, ConcatProperties
    <2>4. QED
      BY <1>8, <1>10, <2>3
  <1>11. Seq(X) \subseteq S
    <2> HIDE DEF S
    <2> QED BY <1>9, <1>10, SequenceInduction
  <1>12. f \in [Seq(X) -> Seq(V)]
    <2>1. f = [s \in Seq(X) |-> f[s]]
      BY <1>7
    <2>2. QED
      BY <1>11, <2>1
  <1>13. QED
    BY <1>6, <1>8, <1>12

\* What f gives for an empty sequence, for a concatenation, for a sequence with an
\* element more and for one before its head is taken.
Gathers(f, X, V, m) ==
    /\ f[<<>>] = <<>>
    /\ \A s \in Seq(X) : f[s] \in Seq(V)
    /\ \A s, t \in Seq(X) : f[s \o t] = f[s] \o f[t]
    /\ \A s \in Seq(X) : \A x \in X : f[Append(s, x)] = f[s] \o m[x]
    /\ \A s \in Seq(X) : s # <<>> => f[s] = m[Head(s)] \o f[Tail(s)]

LEMMA FlatGathers ==
    ASSUME NEW X, NEW V, NEW m \in [X -> Seq(V)]
    PROVE  Gathers(Flat(X, m), X, V, m)
  <1> DEFINE f == Flat(X, m)
  <1>1. /\ f \in [Seq(X) -> Seq(V)]
        /\ \A s \in Seq(X) : f[s] = IF s = <<>> THEN <<>> ELSE m[Head(s)] \o f[Tail(s)]
    BY FlatIsDefined
  <1> HIDE DEF f
  <1>2. <<>> \in Seq(X)
    BY EmptySeq
  <1>3. f[<<>>] = <<>>
    BY <1>1, <1>2
  <1>4. ASSUME NEW x \in X PROVE f[<<x>>] = m[x]
    <2>1. <<x>> \in Seq(X) /\ <<x>> # <<>> /\ Head(<<x>>) = x /\ Tail(<<x>>) = <<>>
      OBVIOUS
    <2>2. f[<<x>>] = m[x] \o <<>>
      BY <1>1, <1>3, <2>1
    <2>3. m[x] \in Seq(V)
      OBVIOUS
    <2>4. QED
      BY <2>2, <2>3, ConcatEmptySeq
  <1>5. ASSUME NEW t \in Seq(X) PROVE \A s \in Seq(X) : f[s \o t] = f[s] \o f[t]
    <2> DEFINE S == {s \in Seq(X) : f[s \o t] = f[s] \o f[t]}
    <2>1. <<>> \in S
      <3>1. <<>> \o t = t /\ <<>> \o f[t] = f[t]
        BY <1>1, ConcatEmptySeq
      <3>2. QED
        BY <1>2, <1>3, <3>1
    <2>2. ASSUME NEW s \in Seq(X), s # <<>>, Tail(s) \in S PROVE s \in S
      <3>1. /\ s \o t # <<>> /\ Head(s \o t) = Head(s) /\ Tail(s \o t) = Tail(s) \o t
            /\ s \o t \in Seq(X)
        BY <2>2, HeadTailOfConcat, ConcatProperties
      <3>2. Head(s) \in X /\ Tail(s) \in Seq(X)
        BY <2>2, HeadTailProperties
      <3>3. f[s \o t] = m[Head(s)] \o (f[Tail(s)] \o f[t])
        BY <1>1, <2>2, <3>1
      <3>4. f[s] = m[Head(s)] \o f[Tail(s)]
        BY <1>1, <2>2
      <3>5. m[Head(s)] \in Seq(V) /\ f[Tail(s)] \in Seq(V) /\ f[t] \in Seq(V)
        BY <1>1, <3>2
      <3>6. \A a, b, c \in Seq(V) : a \o (b \o c) = (a \o b) \o c
        BY ConcatAssociative
      <3>7. m[Head(s)] \o (f[Tail(s)] \o f[t]) = (m[Head(s)] \o f[Tail(s)]) \o f[t]
        BY <3>5, <3>6
      <3>8. QED
        BY <3>3, <3>4, <3>7
    <2>3. Seq(X) \subseteq S
      <3> HIDE DEF S
      <3> QED BY <2>1, <2>2, SequenceInduction
    <2>4. QED
      BY <2>3
  <1>6. \A s \in Seq(X) : \A x \in X : f[Append(s, x)] = f[s] \o m[x]
    <2>1. \A s \in Seq(X) : \A x \in X : <<x>> \in Seq(X) /\ Append(s, x) = s \o <<x>>
      OBVIOUS
    <2>2. QED
      BY <1>4, <1>5, <2>1
  <1>7. Gathers(f, X, V, m)
    BY <1>1, <1>3, <1>5, <1>6 DEF Gathers
  <1>8. QED
    BY <1>7 DEF f

-----------------------------------------------------------------------------
(* Queues: what an append or a read does to what a queue holds *)

\* Some member of the queue is in T.
Holds(s, T) == \E i \in 1..Len(s) : s[i] \in T

\* The queue's last member is e.
EndsWith(s, e) == s # <<>> /\ s[Len(s)] = e

\* A queue with one member more, and one without its first.
LEMMA AppendIsSeq ==
    ASSUME NEW S, NEW s \in Seq(S), NEW e \in S
    PROVE  /\ Append(s, e) \in Seq(S) /\ Append(s, e) # <<>>
           /\ Len(Append(s, e)) = Len(s) + 1
           /\ \A i \in 1..Len(s) : Append(s, e)[i] = s[i]
           /\ Append(s, e)[Len(s) + 1] = e
  BY AppendProperties

LEMMA PairIsSeq ==
    ASSUME NEW S, NEW a \in S, NEW b \in S
    PROVE  <<a, b>> \in Seq(S) /\ <<a>> \in Seq(S)
  OBVIOUS

LEMMA TailIsSeq ==
    ASSUME NEW S, NEW s \in Seq(S), s # <<>>
    PROVE  /\ Head(s) \in S /\ Tail(s) \in Seq(S) /\ Len(Tail(s)) = Len(s) - 1
           /\ Len(s) \in Nat /\ Len(s) > 0 /\ Head(s) = s[1]
           /\ \A i \in 1..(Len(s) - 1) : Tail(s)[i] = s[i + 1]
  <1>1. Len(s) \in Nat /\ Len(s) > 0
    BY EmptySeq
  <1>2. Head(s) \in S /\ Tail(s) \in Seq(S) /\ Len(Tail(s)) = Len(s) - 1
        /\ \A i \in 1..Len(Tail(s)) : Tail(s)[i] = s[i + 1]
    BY HeadTailProperties
  <1>3. Head(s) = s[1]
    OBVIOUS
  <1>4. QED
    BY <1>1, <1>2, <1>3

\* What a queue holds.
LEMMA HoldsOfEmpty == \A T : ~Holds(<<>>, T)
  BY DEF Holds

LEMMA HoldsOfPair ==
    ASSUME NEW T, NEW a, NEW b
    PROVE  /\ Holds(<<a>>, T) <=> a \in T
           /\ Holds(<<a, b>>, T) <=> a \in T \/ b \in T
  <1>1. Len(<<a>>) = 1 /\ <<a>>[1] = a
    OBVIOUS
  <1>2. Len(<<a, b>>) = 2 /\ <<a, b>>[1] = a /\ <<a, b>>[2] = b
    OBVIOUS
  <1>3. 1..2 = {1, 2} /\ 1..1 = {1}
    OBVIOUS
  <1>4. QED
    BY <1>1, <1>2, <1>3 DEF Holds

LEMMA HoldsOfAppend ==
    ASSUME NEW S, NEW T
    PROVE  \A s \in Seq(S) : \A e \in S :
               Holds(Append(s, e), T) <=> Holds(s, T) \/ e \in T
  <1> TAKE s \in Seq(S)
  <1> TAKE e \in S
  <1>1. Len(s) \in Nat
    BY LenProperties
  <1>2. QED
    BY <1>1, AppendIsSeq DEF Holds

LEMMA HoldsOfTail ==
    ASSUME NEW S, NEW T
    PROVE  \A s \in Seq(S) :
               s # <<>> => (Holds(s, T) <=> Head(s) \in T \/ Holds(Tail(s), T))
  <1> SUFFICES ASSUME NEW s \in Seq(S), s # <<>>
               PROVE  Holds(s, T) <=> Head(s) \in T \/ Holds(Tail(s), T)
    OBVIOUS
  <1>1. /\ Len(Tail(s)) = Len(s) - 1 /\ Len(s) \in Nat /\ Len(s) > 0 /\ Head(s) = s[1]
        /\ \A i \in 1..(Len(s) - 1) : Tail(s)[i] = s[i + 1]
    BY TailIsSeq
  <1>2. ASSUME Holds(s, T) PROVE Head(s) \in T \/ Holds(Tail(s), T)
    <2>1. PICK i \in 1..Len(s) : s[i] \in T
      BY <1>2 DEF Holds
    <2>2. CASE i = 1
      BY <1>1, <2>1, <2>2
    <2>3. CASE i # 1
      <3>1. i - 1 \in 1..(Len(s) - 1) /\ (i - 1) + 1 = i
        BY <1>1, <2>1, <2>3
      <3>2. Tail(s)[i - 1] = s[i]
        BY <1>1, <3>1
      <3>3. QED
        BY <1>1, <2>1, <3>1, <3>2 DEF Holds
    <2>4. QED
      BY <2>2, <2>3
  <1>3. ASSUME Head(s) \in T PROVE Holds(s, T)
    BY <1>1, <1>3 DEF Holds
  <1>4. ASSUME Holds(Tail(s), T) PROVE Holds(s, T)
    <2>1. PICK i \in 1..(Len(s) - 1) : Tail(s)[i] \in T
      BY <1>1, <1>4 DEF Holds
    <2>2. i + 1 \in 1..Len(s) /\ s[i + 1] \in T
      BY <1>1, <2>1
    <2>3. QED
      BY <2>2 DEF Holds
  <1>5. QED
    BY <1>2, <1>3, <1>4

\* Where a queue ends.
LEMMA EndOfAppend ==
    ASSUME NEW S
    PROVE  \A s \in Seq(S) : \A e \in S : \A x :
               EndsWith(Append(s, e), x) <=> x = e
  <1> SUFFICES ASSUME NEW s \in Seq(S), NEW e \in S, NEW x
               PROVE  EndsWith(Append(s, e), x) <=> x = e
    OBVIOUS
  <1>1. /\ Append(s, e) # <<>> /\ Len(Append(s, e)) = Len(s) + 1
        /\ Append(s, e)[Len(s) + 1] = e
    BY AppendIsSeq
  <1>2. QED
    BY <1>1 DEF EndsWith

LEMMA EndOfTail ==
    ASSUME NEW S
    PROVE  \A s \in Seq(S) : \A x :
               EndsWith(s, x) <=> \/ s # <<>> /\ Tail(s) = <<>> /\ x = Head(s)
                                  \/ s # <<>> /\ EndsWith(Tail(s), x)
  <1> SUFFICES ASSUME NEW s \in Seq(S), NEW x, s # <<>>
               PROVE  EndsWith(s, x) <=> \/ Tail(s) = <<>> /\ x = Head(s)
                                         \/ EndsWith(Tail(s), x)
    BY DEF EndsWith
  <1>1. /\ Tail(s) \in Seq(S)
        /\ Len(Tail(s)) = Len(s) - 1 /\ Len(s) \in Nat /\ Len(s) > 0 /\ Head(s) = s[1]
        /\ \A i \in 1..(Len(s) - 1) : Tail(s)[i] = s[i + 1]
    BY TailIsSeq
  <1>2. CASE Tail(s) = <<>>
    <2>1. Len(s) = 1
      BY <1>1, <1>2, EmptySeq
    <2>2. QED
      BY <1>1, <1>2, <2>1 DEF EndsWith
  <1>3. CASE Tail(s) # <<>>
    <2>1. Len(s) - 1 \in 1..(Len(s) - 1) /\ (Len(s) - 1) + 1 = Len(s)
      BY <1>1, <1>3, EmptySeq
    <2>2. Tail(s)[Len(s) - 1] = s[Len(s)]
      BY <1>1, <2>1
    <2>3. QED
      BY <1>1, <1>3, <2>2 DEF EndsWith
  <1>4. QED
    BY <1>2, <1>3

\* Concatenations: their parts, their first element and their last.
LEMMA ConcatParts ==
    ASSUME NEW S, NEW s \in Seq(S), NEW t \in Seq(S)
    PROVE  /\ s \o t \in Seq(S)
           /\ <<>> \o t = t /\ s \o <<>> = s
           /\ s \o t = <<>> <=> s = <<>> /\ t = <<>>
           /\ \A e \in S : /\ Append(s \o t, e) = s \o Append(t, e)
                           /\ Append(s, e) = s \o <<e>>
                           /\ <<e>> \in Seq(S) /\ <<e>> # <<>>
                           /\ Head(<<e>>) = e /\ Tail(<<e>>) = <<>>
           /\ s # <<>> => /\ Head(s \o t) = Head(s) /\ Tail(s \o t) = Tail(s) \o t
                          /\ Head(s) \in S /\ Tail(s) \in Seq(S)
                          /\ s = <<Head(s)>> \o Tail(s)
           /\ \A u \in Seq(S) : (s \o t) \o u = s \o (t \o u)
  <1>1. /\ s \o t \in Seq(S) /\ <<>> \o t = t /\ s \o <<>> = s
    BY ConcatProperties, ConcatEmptySeq
  <1>2. s \o t = <<>> <=> s = <<>> /\ t = <<>>
    <2>1. Len(s \o t) = Len(s) + Len(t) /\ Len(s) \in Nat /\ Len(t) \in Nat
      BY ConcatProperties
    <2>2. /\ Len(s) = 0 <=> s = <<>>
          /\ Len(t) = 0 <=> t = <<>>
          /\ Len(s \o t) = 0 <=> s \o t = <<>>
      BY <1>1, EmptySeq
    <2>3. QED
      BY <2>1, <2>2
  <1>3. ASSUME NEW e \in S
        PROVE  /\ Append(s, e) = s \o <<e>>
               /\ <<e>> \in Seq(S) /\ <<e>> # <<>>
               /\ Head(<<e>>) = e /\ Tail(<<e>>) = <<>>
               /\ Append(t, e) = t \o <<e>> /\ Append(s \o t, e) = (s \o t) \o <<e>>
    BY <1>1
  <1>4. \A u \in Seq(S) : (s \o t) \o u = s \o (t \o u)
    BY ConcatAssociative
  <1>5. s # <<>> => /\ Head(s \o t) = Head(s) /\ Tail(s \o t) = Tail(s) \o t
                    /\ Head(s) \in S /\ Tail(s) \in Seq(S)
                    /\ s = <<Head(s)>> \o Tail(s)
    BY HeadTailOfConcat, HeadTailProperties, HeadBeforeTail
  <1>6. ASSUME NEW e \in S PROVE Append(s \o t, e) = s \o Append(t, e)
    BY <1>3, <1>4
  <1>7. QED
    BY <1>1, <1>2, <1>3, <1>4, <1>5, <1>6

\* A queue that holds nothing that contributes contributes nothing.
Contributors(m, X, T) == \A x \in X : x \notin T => m[x] = <<>>
Contributions(f, X, T) == \A s \in Seq(X) : ~Holds(s, T) => f[s] = <<>>

LEMMA FlatOfOthers ==
    ASSUME NEW X, NEW V, NEW m \in [X -> Seq(V)], NEW T,
           Contributors(m, X, T),
           NEW f, Gathers(f, X, V, m)
    PROVE  Contributions(f, X, T)
  <1> DEFINE S == {s \in Seq(X) : ~Holds(s, T) => f[s] = <<>>}
  <1>1. /\ f[<<>>] = <<>>
        /\ \A s \in Seq(X) : s # <<>> => f[s] = m[Head(s)] \o f[Tail(s)]
    BY DEF Gathers
  <1>2. <<>> \in S
    BY <1>1, EmptySeq
  <1>3. ASSUME NEW s \in Seq(X), s # <<>>, Tail(s) \in S PROVE s \in S
    <2> SUFFICES ASSUME ~Holds(s, T) PROVE f[s] = <<>>
      OBVIOUS
    <2>1. Head(s) \notin T /\ ~Holds(Tail(s), T) /\ Head(s) \in X
      BY <1>3, HoldsOfTail, TailIsSeq
    <2>2. m[Head(s)] = <<>> /\ f[Tail(s)] = <<>>
      BY <1>3, <2>1 DEF Contributors
    <2>3. <<>> \o <<>> = <<>>
      OBVIOUS
    <2>4. QED
      BY <1>1, <1>3, <2>2, <2>3
  <1>4. Seq(X) \subseteq S
    <2> HIDE DEF S
    <2> QED BY <1>2, <1>3, SequenceInduction
  <1>5. QED
    BY <1>4 DEF Contributions

\* What a concatenation holds.
LEMMA HoldsOfConcat ==
    ASSUME NEW S, NEW T
    PROVE  \A s, t \in Seq(S) : Holds(s \o t, T) <=> Holds(s, T) \/ Holds(t, T)
  <1> SUFFICES ASSUME NEW s \in Seq(S), NEW t \in Seq(S)
               PROVE  Holds(s \o t, T) <=> Holds(s, T) \/ Holds(t, T)
    OBVIOUS
  <1>1. /\ Len(s) \in Nat /\ Len(t) \in Nat /\ Len(s \o t) = Len(s) + Len(t)
        /\ \A i \in 1..(Len(s) + Len(t)) :
               (s \o t)[i] = IF i <= Len(s) THEN s[i] ELSE t[i - Len(s)]
    BY ConcatProperties, LenProperties
  <1>2. Holds(s \o t, T) => Holds(s, T) \/ Holds(t, T)
    BY <1>1 DEF Holds
  <1>3. Holds(s, T) => Holds(s \o t, T)
    BY <1>1 DEF Holds
  <1>4. ASSUME Holds(t, T) PROVE Holds(s \o t, T)
    <2>1. PICK i \in 1..Len(t) : t[i] \in T
      BY <1>4 DEF Holds
    <2>2. Len(s) + i \in 1..(Len(s) + Len(t)) /\ ~(Len(s) + i <= Len(s))
          /\ (Len(s) + i) - Len(s) = i
      BY <1>1, <2>1
    <2>3. (s \o t)[Len(s) + i] = t[i]
      BY <1>1, <2>2
    <2>4. QED
      BY <1>1, <2>1, <2>2, <2>3 DEF Holds
  <1>5. QED
    BY <1>2, <1>3, <1>4

\* Every queue can be split before its first member in T.
LEMMA SplitBefore ==
    ASSUME NEW X, NEW T
    PROVE  \A s \in Seq(X) : \E a, b \in Seq(X) :
               s = a \o b /\ ~Holds(a, T) /\ (b # <<>> => Head(b) \in T)
  <1> DEFINE S == {s \in Seq(X) : \E a, b \in Seq(X) :
                       s = a \o b /\ ~Holds(a, T) /\ (b # <<>> => Head(b) \in T)}
  <1>1. <<>> \in S
    <2>1. <<>> \in Seq(X) /\ <<>> \o <<>> = <<>> /\ ~Holds(<<>>, T)
      BY EmptySeq, HoldsOfEmpty
    <2>2. QED
      BY <2>1
  <1>2. ASSUME NEW s \in Seq(X), s # <<>>, Tail(s) \in S PROVE s \in S
    <2>1. CASE Head(s) \in T
      <3>1. <<>> \in Seq(X) /\ s = <<>> \o s /\ ~Holds(<<>>, T)
        BY EmptySeq, HoldsOfEmpty, ConcatParts
      <3>2. QED
        BY <2>1, <3>1
    <2>2. CASE Head(s) \notin T
      <3>1. PICK a, b \in Seq(X) :
                   Tail(s) = a \o b /\ ~Holds(a, T) /\ (b # <<>> => Head(b) \in T)
        BY <1>2
      <3>2. Head(s) \in X /\ <<Head(s)>> \in Seq(X) /\ s = <<Head(s)>> \o Tail(s)
        BY <1>2, ConcatParts
      <3>3. ~Holds(<<Head(s)>>, T)
        BY <2>2, HoldsOfPair
      <3>4. /\ <<Head(s)>> \o a \in Seq(X) /\ ~Holds(<<Head(s)>> \o a, T)
            /\ s = (<<Head(s)>> \o a) \o b
        <4>1. <<Head(s)>> \o a \in Seq(X) /\ (<<Head(s)>> \o a) \o b = <<Head(s)>> \o (a \o b)
          BY <3>2, ConcatParts
        <4>2. Holds(<<Head(s)>> \o a, T) <=> Holds(<<Head(s)>>, T) \/ Holds(a, T)
          BY <3>2, HoldsOfConcat
        <4>3. QED
          BY <3>1, <3>2, <3>3, <4>1, <4>2
      <3>5. QED
        BY <3>1, <3>4
    <2>3. QED
      BY <2>1, <2>2
  <1>3. Seq(X) \subseteq S
    <2> HIDE DEF S
    <2> QED BY <1>1, <1>2, SequenceInduction
  <1>4. QED
    BY <1>3

\* What is before an element of a queue, and what is after it.
LEMMA AroundElement ==
    ASSUME NEW S, NEW s \in Seq(S), NEW i \in 1..Len(s)
    PROVE  /\ SubSeq(s, 1, i - 1) \in Seq(S) /\ SubSeq(s, i + 1, Len(s)) \in Seq(S)
           /\ s[i] \in S /\ <<s[i]>> \in Seq(S)
           /\ s = (SubSeq(s, 1, i - 1) \o <<s[i]>>) \o SubSeq(s, i + 1, Len(s))
  <1> DEFINE a == SubSeq(s, 1, i - 1)
             b == SubSeq(s, i + 1, Len(s))
             t == (a \o <<s[i]>>) \o b
  <1>1. Len(s) \in Nat /\ i \in Nat /\ i >= 1 /\ i <= Len(s) /\ s[i] \in S
    BY LenProperties
  <1>2. /\ a \in Seq(S) /\ Len(a) = i - 1
        /\ \A j \in 1..(i - 1) : a[j] = s[j]
    <2>1. 1 \in 1..(Len(s) + 1) /\ i - 1 \in 0..Len(s) /\ i - 1 \in (1 - 1)..Len(s)
      BY <1>1
    <2>2. QED
      BY <1>1, <2>1, SubSeqProperties
  <1>3. /\ b \in Seq(S) /\ Len(b) = Len(s) - i
        /\ \A j \in 1..(Len(s) - i) : b[j] = s[i + j]
    BY <1>1, SubSeqProperties
  <1> HIDE DEF a, b
  <1>4. /\ a \o <<s[i]>> \in Seq(S) /\ Len(a \o <<s[i]>>) = i
        /\ \A j \in 1..i : (a \o <<s[i]>>)[j] = IF j <= i - 1 THEN a[j] ELSE s[i]
        /\ <<s[i]>> \in Seq(S)
    BY <1>1, <1>2
  <1> DEFINE c == a \o <<s[i]>>
  <1>5. /\ t \in Seq(S) /\ Len(t) = i + (Len(s) - i)
        /\ \A j \in 1..(i + (Len(s) - i)) : t[j] = IF j <= i THEN c[j] ELSE b[j - i]
    <2>1. c \in Seq(S) /\ Len(c) = i
      BY <1>4
    <2>2. t = c \o b
      OBVIOUS
    <2> HIDE DEF c, t
    <2>3. Len(c \o b) = i + (Len(s) - i) /\ c \o b \in Seq(S)
          /\ \A j \in 1..(Len(c) + Len(b)) :
                 (c \o b)[j] = IF j <= Len(c) THEN c[j] ELSE b[j - Len(c)]
      BY <1>3, <2>1, ConcatProperties
    <2>4. QED
      BY <1>3, <2>1, <2>2, <2>3
  <1> HIDE DEF t
  <1>6. Len(t) = Len(s)
    BY <1>1, <1>5
  <1>7. ASSUME NEW j \in 1..Len(s) PROVE t[j] = s[j]
    <2>1. CASE j <= i
      <3>1. t[j] = IF j <= i - 1 THEN a[j] ELSE s[i]
        BY <1>1, <1>4, <1>5, <1>7, <2>1
      <3>2. j <= i - 1 => a[j] = s[j]
        BY <1>1, <1>2, <1>7
      <3>3. ~(j <= i - 1) => j = i
        BY <1>1, <1>7, <2>1
      <3>4. QED
        BY <3>1, <3>2, <3>3
    <2>2. CASE ~(j <= i)
      <3>1. j - i \in 1..(Len(s) - i) /\ i + (j - i) = j
        BY <1>1, <1>7, <2>2
      <3>2. t[j] = b[j - i]
        BY <1>1, <1>5, <1>7, <2>2
      <3>3. QED
        BY <1>3, <3>1, <3>2
    <2>3. QED
      BY <2>1, <2>2
  <1>8. s = t
    BY <1>5, <1>6, <1>7, SeqEqual
  <1>9. QED
    BY <1>1, <1>2, <1>3, <1>4, <1>8 DEF a, b, c, t
=============================================================================
