----------------------------- MODULE SumProofs -----------------------------
(***************************************************************************)
(* Facts about SumFunctionOnSet and SumFunction of the community modules,  *)
(* which Stock adds quantities and movements with.  Sums are defined by a  *)
(* fold, so the proofs go by induction on the size of a set; the induction *)
(* is used in the form "a set of subsets that is not empty has a smallest  *)
(* member".                                                                *)
(***************************************************************************)
EXTENDS Integers, Sequences, Functions, FiniteSets, FiniteSetTheorems,
        SequenceTheorems, WellFoundedInduction, TLAPS

\* Numbers have no infinite descent.
LEMMA Least ==
  ASSUME NEW T, T \subseteq Nat, T # {}
  PROVE  \E n \in T : \A m \in T : n <= m
  <1>1. PICK x \in T : \A y \in T : ~ (<<y, x>> \in OpToRel(<, Nat))
    BY WFMin, NatLessThanWellFounded
  <1>2. \A y \in T : ~(y < x)
    BY <1>1 DEF OpToRel
  <1>3. \A y \in T : y \in Nat /\ x \in Nat
    OBVIOUS
  <1>4. \A y \in T : x <= y
    BY <1>2, <1>3
  <1> QED
    BY <1>4

\* Nor have finite sets: some member of B loses every element it might lose.
LEMMA Smallest ==
  ASSUME NEW S, IsFiniteSet(S), NEW B, B \subseteq SUBSET S, B # {}
  PROVE  \E U \in B : \A x \in U : U \ {x} \notin B
  <1> DEFINE sizes == {Cardinality(U) : U \in B}
  <1>1. \A U \in B : IsFiniteSet(U) /\ Cardinality(U) \in Nat
    BY FS_Subset, FS_CardinalityType
  <1>2. PICK n \in sizes : \A m \in sizes : n <= m
    <2>1. sizes \subseteq Nat /\ sizes # {}
      BY <1>1
    <2> HIDE DEF sizes
    <2> QED
      BY <2>1, Least
  <1>3. PICK U \in B : Cardinality(U) = n
    BY <1>2
  <1>4. ASSUME NEW x \in U, U \ {x} \in B
        PROVE  FALSE
    <2>1. Cardinality(U \ {x}) = n - 1 /\ n \in Nat
      BY <1>1, <1>3, FS_RemoveElement
    <2>2. n <= Cardinality(U \ {x})
      BY <1>2, <1>4
    <2> QED
      BY <2>1, <2>2
  <1> QED
    BY <1>4

-----------------------------------------------------------------------------
(* The recursive function inside a sum.                                    *)

Chosen(s) == CHOOSE x \in s : TRUE

\* One round of the fold.
Round(w, f, s) == IF s = {} THEN 0 ELSE w[Chosen(s)] + f[s \ {Chosen(s)}]

\* f adds w over every subset of S.
Adds(f, w, S) == f = [s \in SUBSET S |-> Round(w, f, s)]

\* Rounds end at the empty set: any other set has a member to choose.
LEMMA ChosenIn ==
  ASSUME NEW s, s # {}
  PROVE  Chosen(s) \in s
  BY DEF Chosen

\* SumFunctionOnSet of the library is such a function, at S.
LEMMA SumIsFold ==
  ASSUME NEW w, NEW S
  PROVE  SumFunctionOnSet(w, S) = (CHOOSE f : Adds(f, w, S))[S]
  BY DEF SumFunctionOnSet, FoldFunctionOnSet, MapThenFoldSet, Adds, Round, Chosen

\* Two functions that add w agree wherever both are defined.
LEMMA FoldsAgree ==
  ASSUME NEW w, NEW S, NEW T, NEW f, NEW g, Adds(f, w, S), Adds(g, w, T),
         NEW U, U \subseteq S, U \subseteq T, IsFiniteSet(U)
  PROVE  f[U] = g[U]
  <1> DEFINE B == {V \in SUBSET U : f[V] # g[V]}
  <1>1. SUFFICES ASSUME B # {}
                 PROVE  FALSE
    OBVIOUS
  <1>2. PICK V \in B : \A x \in V : V \ {x} \notin B
    <2>1. B \subseteq SUBSET U
      OBVIOUS
    <2> HIDE DEF B
    <2> QED
      BY <1>1, <2>1, Smallest
  <1>3. f[V] = Round(w, f, V) /\ g[V] = Round(w, g, V)
    BY DEF Adds
  <1>4. CASE V = {}
    BY <1>3, <1>4 DEF Round
  <1>5. CASE V # {}
    <2>1. Chosen(V) \in V
      BY <1>5, ChosenIn
    <2>2. f[V \ {Chosen(V)}] = g[V \ {Chosen(V)}]
      BY <1>2, <2>1
    <2> QED
      BY <1>3, <1>5, <2>2 DEF Round
  <1> QED
    BY <1>4, <1>5

\* Less is added by a part of the function.
LEMMA FoldRestricted ==
  ASSUME NEW w, NEW S, NEW f, Adds(f, w, S), NEW T, T \subseteq S
  PROVE  Adds([s \in SUBSET T |-> f[s]], w, T)
  <1> DEFINE g == [s \in SUBSET T |-> f[s]]
  <1>1. ASSUME NEW s \in SUBSET T
        PROVE  f[s] = Round(w, g, s)
    <2>1. f[s] = Round(w, f, s)
      BY DEF Adds
    <2>2. g[s \ {Chosen(s)}] = f[s \ {Chosen(s)}]
      OBVIOUS
    <2> QED
      BY <2>1, <2>2 DEF Round
  <1> QED
    BY <1>1 DEF Adds

\* The sum is the value of any such function.
LEMMA SumIsValue ==
  ASSUME NEW w, NEW S, NEW f, Adds(f, w, S), NEW T, T \subseteq S, IsFiniteSet(T)
  PROVE  SumFunctionOnSet(w, T) = f[T]
  <1> DEFINE g == CHOOSE h : Adds(h, w, T)
  <1>1. Adds(g, w, T)
    BY FoldRestricted
  <1>2. SumFunctionOnSet(w, T) = g[T]
    BY SumIsFold
  <1> HIDE DEF g
  <1> QED
    BY <1>1, <1>2, FoldsAgree

\* There is one for every finite set.
LEMMA FoldExists ==
  ASSUME NEW w, NEW S, IsFiniteSet(S)
  PROVE  \E f : Adds(f, w, S)
  <1> DEFINE B == {U \in SUBSET S : ~ \E f : Adds(f, w, U)}
  <1>1. SUFFICES ASSUME B # {}
                 PROVE  FALSE
    OBVIOUS
  <1>2. PICK U \in B : \A x \in U : U \ {x} \notin B
    <2>1. B \subseteq SUBSET S
      OBVIOUS
    <2> HIDE DEF B
    <2> QED
      BY <1>1, <2>1, Smallest
  <1>3. ASSUME NEW x \in U, NEW t, t \subseteq U \ {x}
        PROVE  /\ IsFiniteSet(t)
               /\ SumFunctionOnSet(w, t) =
                    IF t = {} THEN 0 ELSE w[Chosen(t)] + SumFunctionOnSet(w, t \ {Chosen(t)})
    <2>1. PICK g : Adds(g, w, U \ {x})
      BY <1>2
    <2>2. IsFiniteSet(t) /\ IsFiniteSet(t \ {Chosen(t)})
      <3>1. t \in SUBSET S /\ t \ {Chosen(t)} \in SUBSET S
        BY <1>3
      <3> QED
        BY <3>1, FS_Subset
    <2>3. /\ SumFunctionOnSet(w, t) = g[t]
          /\ SumFunctionOnSet(w, t \ {Chosen(t)}) = g[t \ {Chosen(t)}]
      BY <1>3, <2>1, <2>2, SumIsValue
    <2>4. g[t] = Round(w, g, t)
      BY <1>3, <2>1 DEF Adds
    <2> QED
      BY <2>2, <2>3, <2>4 DEF Round
  <1> DEFINE f == [s \in SUBSET U |->
                     IF s = {} THEN 0
                     ELSE w[Chosen(s)] + SumFunctionOnSet(w, s \ {Chosen(s)})]
  <1>4. ASSUME NEW s \in SUBSET U, s # {}
        PROVE  f[s \ {Chosen(s)}] = SumFunctionOnSet(w, s \ {Chosen(s)})
    <2>1. Chosen(s) \in U /\ s \ {Chosen(s)} \subseteq U \ {Chosen(s)}
      BY <1>4, ChosenIn
    <2> DEFINE t == s \ {Chosen(s)}
    <2>2. SumFunctionOnSet(w, t) =
            IF t = {} THEN 0 ELSE w[Chosen(t)] + SumFunctionOnSet(w, t \ {Chosen(t)})
      BY <1>3, <2>1
    <2>3. t \in SUBSET U
      OBVIOUS
    <2> HIDE DEF t
    <2>4. f[t] = IF t = {} THEN 0 ELSE w[Chosen(t)] + SumFunctionOnSet(w, t \ {Chosen(t)})
      BY <2>3
    <2> QED
      BY <2>2, <2>4 DEF t
  <1>5. \A s \in SUBSET U : f[s] = Round(w, f, s)
    BY <1>4 DEF Round
  <1>6. f = [s \in SUBSET U |-> f[s]]
    OBVIOUS
  <1> HIDE DEF f
  <1>7. Adds(f, w, U)
    BY <1>5, <1>6 DEF Adds
  <1> QED
    BY <1>2, <1>7

-----------------------------------------------------------------------------
(* Sums over sets.                                                         *)

\* Nothing adds up to zero.
LEMMA SumEmpty ==
  ASSUME NEW w
  PROVE  SumFunctionOnSet(w, {}) = 0
  <1>1. PICK f : Adds(f, w, {})
    BY FoldExists, FS_EmptySet
  <1>2. f[{}] = 0
    BY <1>1 DEF Adds, Round
  <1> QED
    BY <1>1, <1>2, SumIsValue, FS_EmptySet

\* One round of the sum, over the set itself.
LEMMA SumChosen ==
  ASSUME NEW w, NEW S, IsFiniteSet(S), S # {}
  PROVE  SumFunctionOnSet(w, S) = w[Chosen(S)] + SumFunctionOnSet(w, S \ {Chosen(S)})
  <1>1. PICK f : Adds(f, w, S)
    BY FoldExists
  <1>2. f[S] = w[Chosen(S)] + f[S \ {Chosen(S)}]
    BY <1>1 DEF Adds, Round
  <1>3. IsFiniteSet(S \ {Chosen(S)})
    BY FS_RemoveElement
  <1>4. SumFunctionOnSet(w, S) = f[S]
    BY <1>1, SumIsValue
  <1>5. SumFunctionOnSet(w, S \ {Chosen(S)}) = f[S \ {Chosen(S)}]
    BY <1>1, <1>3, SumIsValue
  <1> QED
    BY <1>2, <1>4, <1>5

\* A sum of integers is an integer.
LEMMA SumType ==
  ASSUME NEW w, NEW S, IsFiniteSet(S), \A x \in S : w[x] \in Int
  PROVE  SumFunctionOnSet(w, S) \in Int
  <1> DEFINE B == {U \in SUBSET S : SumFunctionOnSet(w, U) \notin Int}
  <1>1. SUFFICES ASSUME B # {}
                 PROVE  FALSE
    OBVIOUS
  <1>2. PICK U \in B : \A x \in U : U \ {x} \notin B
    <2>1. B \subseteq SUBSET S
      OBVIOUS
    <2> HIDE DEF B
    <2> QED
      BY <1>1, <2>1, Smallest
  <1>3. CASE U = {}
    BY <1>3, SumEmpty
  <1>4. CASE U # {}
    <2>1. Chosen(U) \in U /\ U \in SUBSET S
      BY <1>4, ChosenIn
    <2>2. SumFunctionOnSet(w, U) = w[Chosen(U)] + SumFunctionOnSet(w, U \ {Chosen(U)})
      BY <1>4, SumChosen, FS_Subset
    <2>3. SumFunctionOnSet(w, U \ {Chosen(U)}) \in Int /\ w[Chosen(U)] \in Int
      BY <1>2, <2>1
    <2> QED
      BY <2>2, <2>3
  <1> QED
    BY <1>3, <1>4

\* Any member may be taken out first, not only the chosen one.
LEMMA SumRemove ==
  ASSUME NEW w, NEW S, IsFiniteSet(S), \A x \in S : w[x] \in Int, NEW a \in S
  PROVE  SumFunctionOnSet(w, S) = w[a] + SumFunctionOnSet(w, S \ {a})
  <1> DEFINE Total(U) == SumFunctionOnSet(w, U)
             B == {U \in SUBSET S : \E b \in U : Total(U) # w[b] + Total(U \ {b})}
  <1>1. SUFFICES ASSUME B # {}
                 PROVE  FALSE
    OBVIOUS
  <1>2. PICK U \in B : \A x \in U : U \ {x} \notin B
    <2>1. B \subseteq SUBSET S
      OBVIOUS
    <2> HIDE DEF B
    <2> QED
      BY <1>1, <2>1, Smallest
  <1>3. PICK b \in U : Total(U) # w[b] + Total(U \ {b})
    BY <1>2
  <1> DEFINE c == Chosen(U)
  <1>4. /\ U \in SUBSET S /\ c \in U
        /\ Total(U) = w[c] + Total(U \ {c})
    <2>1. U \in SUBSET S /\ U # {}
      OBVIOUS
    <2> QED
      BY <2>1, ChosenIn, SumChosen, FS_Subset
  <1> HIDE DEF c
  <1>5. b # c
    BY <1>3, <1>4
  <1>6. /\ Total(U \ {c}) = w[b] + Total((U \ {c}) \ {b})
        /\ Total(U \ {b}) = w[c] + Total((U \ {b}) \ {c})
    BY <1>2, <1>4, <1>5
  <1>7. Total((U \ {c}) \ {b}) = Total((U \ {b}) \ {c})
    <2>1. (U \ {c}) \ {b} = (U \ {b}) \ {c}
      OBVIOUS
    <2> QED
      BY <2>1
  <1>8. /\ w[b] \in Int /\ w[c] \in Int
        /\ Total((U \ {b}) \ {c}) \in Int
    <2>1. (U \ {b}) \ {c} \in SUBSET S
      BY <1>4
    <2> QED
      BY <1>4, <2>1, SumType, FS_Subset
  <1>9. Total(U) = w[b] + Total(U \ {b})
    <2> DEFINE rest == Total((U \ {b}) \ {c})
    <2>1. Total(U) = w[c] + (w[b] + rest)
      BY <1>4, <1>6, <1>7
    <2>2. Total(U \ {b}) = w[c] + rest
      BY <1>6
    <2>3. rest \in Int
      BY <1>8
    <2> HIDE DEF rest, Total
    <2> QED
      BY <1>8, <2>1, <2>2, <2>3
  <1> QED
    BY <1>3, <1>9

\* The sum is the same over any indices that number the same values.
LEMMA SumMoved ==
  ASSUME NEW S, IsFiniteSet(S), NEW T, NEW f \in Bijection(T, S),
         NEW w, \A x \in S : w[x] \in Int,
         NEW v, \A y \in T : v[y] = w[f[y]]
  PROVE  SumFunctionOnSet(v, T) = SumFunctionOnSet(w, S)
  <1> DEFINE Image(U) == {f[y] : y \in U}
             B == {U \in SUBSET T : SumFunctionOnSet(v, U) # SumFunctionOnSet(w, Image(U))}
  <1>1. /\ \A y \in T : f[y] \in S
        /\ \A y, z \in T : y # z => f[y] # f[z]
        /\ Image(T) = S
    BY DEF Bijection, Injection, Surjection, IsInjective
  <1>2. IsFiniteSet(T)
    BY FS_Injection DEF Bijection
  <1>3. SUFFICES ASSUME B # {}
                 PROVE  FALSE
    BY <1>1
  <1>4. PICK U \in B : \A x \in U : U \ {x} \notin B
    <2>1. B \subseteq SUBSET T
      OBVIOUS
    <2> HIDE DEF B
    <2> QED
      BY <1>2, <1>3, <2>1, Smallest
  <1>5. U # {}
    BY SumEmpty
  <1>6. PICK y \in U : TRUE
    BY <1>5
  <1>7. /\ IsFiniteSet(U) /\ \A z \in U : v[z] \in Int
        /\ IsFiniteSet(Image(U)) /\ \A x \in Image(U) : w[x] \in Int
    <2>1. U \in SUBSET T /\ Image(U) \in SUBSET S
      BY <1>1
    <2> QED
      BY <1>1, <1>2, <2>1, FS_Subset
  <1>8. SumFunctionOnSet(v, U) = v[y] + SumFunctionOnSet(v, U \ {y})
    BY <1>7, SumRemove
  <1>9. SumFunctionOnSet(w, Image(U)) = w[f[y]] + SumFunctionOnSet(w, Image(U) \ {f[y]})
    <2>1. f[y] \in Image(U)
      OBVIOUS
    <2> QED
      BY <1>7, <2>1, SumRemove
  <1>10. Image(U \ {y}) = Image(U) \ {f[y]}
    BY <1>1
  <1>11. SumFunctionOnSet(v, U \ {y}) = SumFunctionOnSet(w, Image(U \ {y}))
    BY <1>4
  <1> QED
    BY <1>8, <1>9, <1>10, <1>11

\* Only the values that are added matter.
LEMMA SumSame ==
  ASSUME NEW S, IsFiniteSet(S), NEW w, NEW v, \A x \in S : w[x] \in Int /\ v[x] = w[x]
  PROVE  SumFunctionOnSet(v, S) = SumFunctionOnSet(w, S)
  <1> DEFINE f == [x \in S |-> x]
  <1>1. f \in Bijection(S, S)
    BY DEF Bijection, Injection, Surjection, IsInjective
  <1>2. \A x \in S : f[x] = x
    OBVIOUS
  <1> HIDE DEF f
  <1> QED
    BY <1>1, <1>2, SumMoved

-----------------------------------------------------------------------------
(* Sums over sequences.                                                    *)

\* The sum of a sequence of integers is an integer.
LEMMA SumSeqType ==
  ASSUME NEW s \in Seq(Int)
  PROVE  SumFunction(s) \in Int
  <1>1. DOMAIN s = 1 .. Len(s) /\ IsFiniteSet(1 .. Len(s)) /\ \A i \in DOMAIN s : s[i] \in Int
    BY FS_Interval
  <1> QED
    BY <1>1, SumType DEF SumFunction

\* The empty sequence adds up to zero.
LEMMA SumSeqEmpty == SumFunction(<<>>) = 0
  <1>1. DOMAIN <<>> = {}
    OBVIOUS
  <1> QED
    BY <1>1, SumEmpty DEF SumFunction

\* An appended value is added.
LEMMA SumAppend ==
  ASSUME NEW s \in Seq(Int), NEW x \in Int
  PROVE  SumFunction(Append(s, x)) = SumFunction(s) + x
  <1> DEFINE n == Len(s)
             all == Append(s, x)
  <1>1. /\ n \in Nat /\ DOMAIN s = 1 .. n /\ DOMAIN all = 1 .. n + 1
        /\ all[n + 1] = x
        /\ \A i \in 1 .. n : all[i] = s[i] /\ s[i] \in Int
    OBVIOUS
  <1>2. IsFiniteSet(1 .. n) /\ IsFiniteSet(1 .. n + 1)
    BY <1>1, FS_Interval
  <1>3. (1 .. n + 1) \ {n + 1} = 1 .. n /\ n + 1 \in 1 .. n + 1
    BY <1>1
  <1>4. \A i \in 1 .. n + 1 : all[i] \in Int
    BY <1>1, <1>3
  <1> HIDE DEF all, n
  <1>5. SumFunctionOnSet(all, 1 .. n + 1) = all[n + 1] + SumFunctionOnSet(all, 1 .. n)
    <2> DEFINE J == 1 .. n + 1
    <2>1. IsFiniteSet(J) /\ n + 1 \in J /\ (\A i \in J : all[i] \in Int)
      BY <1>2, <1>3, <1>4
    <2> HIDE DEF J
    <2>2. SumFunctionOnSet(all, J) = all[n + 1] + SumFunctionOnSet(all, J \ {n + 1})
      BY <2>1, SumRemove
    <2> QED
      BY <1>3, <2>2 DEF J
  <1>6. SumFunctionOnSet(all, 1 .. n) = SumFunctionOnSet(s, 1 .. n)
    BY <1>1, <1>2, SumSame
  <1>7. SumFunctionOnSet(s, 1 .. n) \in Int
    BY <1>1, <1>2, SumType
  <1>8. SumFunction(all) = SumFunction(s) + x
    BY <1>1, <1>5, <1>6, <1>7 DEF SumFunction
  <1> QED
    BY <1>8 DEF all

\* The sum of a concatenation is the sum of the sums.
LEMMA SumConcat ==
  ASSUME NEW s \in Seq(Int), NEW t \in Seq(Int)
  PROVE  SumFunction(s \o t) = SumFunction(s) + SumFunction(t)
  <1> DEFINE Wrong(u) == SumFunction(s \o u) # SumFunction(s) + SumFunction(u)
             B == {n \in Nat : \E u \in Seq(Int) : Len(u) = n /\ Wrong(u)}
  <1>1. SUFFICES ASSUME B # {}
                 PROVE  FALSE
    BY LenProperties
  <1>2. PICK n \in B : \A m \in B : n <= m
    <2>1. B \subseteq Nat
      OBVIOUS
    <2> HIDE DEF B
    <2> QED
      BY <1>1, <2>1, Least
  <1>3. PICK u \in Seq(Int) : Len(u) = n /\ Wrong(u)
    BY <1>2
  <1>4. SumFunction(s) \in Int
    BY SumSeqType
  <1>5. u # <<>>
    <2>1. SumFunction(s \o <<>>) = SumFunction(s)
      BY ConcatEmptySeq
    <2>2. SumFunction(s) = SumFunction(s) + SumFunction(<<>>)
      BY <1>4, SumSeqEmpty
    <2>3. ~Wrong(<<>>)
      BY <2>1, <2>2
    <2> QED
      BY <1>3, <2>3
  <1>6. PICK v \in Seq(Int), x \in Int : u = Append(v, x)
    BY <1>5, SequenceEmptyOrAppend
  <1>7. n = Len(v) + 1 /\ Len(v) \in Nat
    BY <1>3, <1>6, AppendProperties, LenProperties
  <1>8. ~Wrong(v)
    <2>1. Wrong(v) => Len(v) \in B
      BY <1>7
    <2>2. ~(n <= Len(v))
      BY <1>7
    <2> QED
      BY <1>2, <2>1, <2>2
  <1>9. s \o u = Append(s \o v, x) /\ s \o v \in Seq(Int)
    BY <1>6, ConcatProperties, AppendIsConcat, ConcatAssociative
  <1>10. SumFunction(s \o u) = SumFunction(s \o v) + x
    BY <1>9, SumAppend
  <1>11. SumFunction(u) = SumFunction(v) + x
    BY <1>6, SumAppend
  <1>12. SumFunction(v) \in Int
    BY SumSeqType
  <1> QED
    BY <1>3, <1>4, <1>8, <1>10, <1>11, <1>12

\* The first value may be added by itself.
LEMMA SumTail ==
  ASSUME NEW s \in Seq(Int), s # <<>>
  PROVE  SumFunction(s) = Head(s) + SumFunction(Tail(s))
  <1> DEFINE h == Head(s)
             first == Append(<<>>, h)
             rest == Tail(s)
  <1>1. s = first \o rest /\ h \in Int /\ rest \in Seq(Int) /\ <<>> \in Seq(Int)
    BY HeadTailProperties
  <1>2. first \in Seq(Int)
    BY <1>1, AppendProperties
  <1> HIDE DEF h, rest
  <1>3. SumFunction(first) = h
    <2>1. SumFunction(first) = SumFunction(<<>>) + h
      BY <1>1, SumAppend
    <2> QED
      BY <1>1, <2>1, SumSeqEmpty
  <1>4. SumFunction(first \o rest) = SumFunction(first) + SumFunction(rest)
    BY <1>1, <1>2, SumConcat
  <1> QED
    BY <1>1, <1>3, <1>4 DEF h, rest

\* The order of a sequence does not matter to its sum.
LEMMA SumReordered ==
  ASSUME NEW s \in Seq(Int), NEW order \in [DOMAIN s -> DOMAIN s],
         \A i, j \in DOMAIN s : i # j => order[i] # order[j]
  PROVE  SumFunction([i \in DOMAIN s |-> s[order[i]]]) = SumFunction(s)
  <1>1. IsFiniteSet(DOMAIN s) /\ \A i \in DOMAIN s : s[i] \in Int
    <2>1. DOMAIN s = 1 .. Len(s)
      OBVIOUS
    <2> QED
      BY <2>1, FS_Interval
  <1>2. order \in Injection(DOMAIN s, DOMAIN s)
    BY DEF Injection, IsInjective
  <1>3. order \in Bijection(DOMAIN s, DOMAIN s)
    BY <1>1, <1>2, FS_Injection DEF Bijection
  <1> DEFINE v == [i \in DOMAIN s |-> s[order[i]]]
  <1>4. DOMAIN v = DOMAIN s /\ \A i \in DOMAIN s : v[i] = s[order[i]]
    OBVIOUS
  <1> HIDE DEF v
  <1>5. SumFunction(v) = SumFunction(s)
    BY <1>1, <1>3, <1>4, SumMoved DEF SumFunction
  <1> QED
    BY <1>5 DEF v
=============================================================================
