------------------------ MODULE SelectedItemsProofs ------------------------
(***************************************************************************)
(* What Selected makes of a sequence which has got an item at its end, or  *)
(* lost the one at its head.                                               *)
(***************************************************************************)
EXTENDS SelectedItems, SequenceTheorems, NaturalsInduction,
        WellFoundedInduction, TLAPS

\* Every set of natural numbers has a least member: what holds of 0 and goes
\* from each number to the next has no least counterexample.
LEMMA Least ==
  ASSUME NEW T, T \subseteq Nat, T # {}
  PROVE  \E x \in T : \A y \in T : x <= y
<1>1. IsWellFoundedOn(OpToRel(<, Nat), Nat)
  BY NatLessThanWellFounded, Zenon
<1>2. PICK x \in T : \A y \in T : ~(<<y, x>> \in OpToRel(<, Nat))
  BY <1>1, WFMin, Zenon
<1>3. OpToRel(<, Nat) = {ss \in Nat \X Nat : ss[1] < ss[2]}
  BY Zenon DEF OpToRel
<1>4. \A y \in T : ~(<<y, x>> \in {ss \in Nat \X Nat : ss[1] < ss[2]})
  BY <1>2, <1>3, Zenon
<1>5. \A y \in T : x <= y
  <2> TAKE y \in T
  <2>1. <<y, x>> \in Nat \X Nat /\ <<y, x>>[1] = y /\ <<y, x>>[2] = x
    OBVIOUS
  <2>2. ~(<<y, x>>[1] < <<y, x>>[2])
    BY <1>4, <2>1, Zenon
  <2>3. ~(y < x)
    BY <2>1, <2>2, Zenon
  <2> QED BY <2>3
<1> QED BY <1>5

\* What is selected of each of the beginnings of s up to n: one item more than
\* of the previous one, or none.
Beginnings(s, P, n, f) ==
  \A i \in 0..n :
    f[i] = IF i = 0 THEN <<>>
           ELSE IF s[i] \in P THEN Append(f[i - 1], s[i]) ELSE f[i - 1]

\* There are such selections ...
LEMMA BeginningsExist ==
  ASSUME NEW S, NEW s \in Seq(S), NEW P, NEW n \in 0..Len(s)
  PROVE  \E f \in [0..n -> Seq(S)] : Beginnings(s, P, n, f)
<1> DEFINE Good(m) == \E f \in [0..m -> Seq(S)] : Beginnings(s, P, m, f)
           Bad == {m \in 0..Len(s) : ~Good(m)}
<1> HIDE DEF Good
<1>1. SUFFICES ASSUME Bad # {} PROVE FALSE
  <2>1. ASSUME Bad = {} PROVE Good(n)
    BY <2>1
  <2> QED BY <2>1 DEF Good
<1>2. Len(s) \in Nat /\ \A i \in 1..Len(s) : s[i] \in S
  BY LenProperties, ElementOfSeq
<1>3. Bad \subseteq Nat
  BY <1>2
<1>4. PICK m \in Bad : \A y \in Bad : m <= y
  BY <1>1, <1>3, Least
<1>e. <<>> \in Seq(S)
  BY EmptySeq
<1>5. m # 0
  <2>1. [i \in 0..0 |-> <<>>] \in [0..0 -> Seq(S)]
    BY <1>e
  <2>2. \A i \in 0..0 : i = 0 /\ [j \in 0..0 |-> <<>>][i] = <<>>
    OBVIOUS
  <2>3. Good(0)
    BY <2>1, <2>2 DEF Good, Beginnings
  <2> QED BY <2>3
<1>6. m - 1 \in 0..Len(s) /\ m - 1 \notin Bad
  BY <1>2, <1>4, <1>5
<1>7. PICK f \in [0..(m - 1) -> Seq(S)] :
        Beginnings(s, P, m - 1, f)
  BY <1>6 DEF Good
<1> DEFINE last == IF s[m] \in P THEN Append(f[m - 1], s[m]) ELSE f[m - 1]
           g == [i \in 0..m |-> IF i = m THEN last ELSE f[i]]
<1>8. m \in 1..Len(s) /\ s[m] \in S /\ f[m - 1] \in Seq(S)
  BY <1>2, <1>4, <1>5
<1>9. last \in Seq(S)
  BY <1>8, AppendProperties
<1> HIDE DEF last
<1>10. \A i \in 0..m : i # m => i \in 0..(m - 1)
  BY <1>8
<1>11. g \in [0..m -> Seq(S)]
  BY <1>9, <1>10, <1>7
<1>12. \A i \in 0..m :
         g[i] = IF i = 0 THEN <<>>
                ELSE IF s[i] \in P THEN Append(g[i - 1], s[i]) ELSE g[i - 1]
  <2> TAKE i \in 0..m
  <2>1. CASE i = m
    <3>1. m - 1 \in 0..m /\ m - 1 # m /\ m # 0 /\ m \in 0..m
      BY <1>8
    <3>2. g[m - 1] = f[m - 1] /\ g[m] = last
      BY <3>1
    <3> HIDE DEF g
    <3> QED BY <2>1, <3>1, <3>2 DEF last
  <2>2. CASE i # m
    <3>1. i \in 0..(m - 1) /\ (i # 0 => i - 1 \in 0..m /\ i - 1 # m)
      BY <2>2, <1>8
    <3>2. g[i] = f[i] /\ (i # 0 => g[i - 1] = f[i - 1])
      BY <2>2, <3>1
    <3> HIDE DEF g
    <3> QED BY <1>7, <3>1, <3>2 DEF Beginnings
  <2> QED BY <2>1, <2>2
<1>13. Good(m)
  BY <1>11, <1>12 DEF Good, Beginnings
<1> QED BY <1>4, <1>13

\* ... and Selected is the last of them.
LEMMA SelectedIsLast ==
  ASSUME NEW S, NEW s \in Seq(S), NEW P
  PROVE  \E f \in [0..Len(s) -> Seq(S)] :
           Beginnings(s, P, Len(s), f) /\ Selected(s, P) = f[Len(s)]
<1> DEFINE ans == CHOOSE ans : ans = [i \in 0..Len(s) |->
             IF i = 0 THEN <<>>
             ELSE IF s[i] \in P THEN Append(ans[i - 1], s[i]) ELSE ans[i - 1]]
<1>1. Len(s) \in Nat
  BY LenProperties
<1>2. Len(s) \in 0..Len(s)
  BY <1>1
<1>3. PICK f \in [0..Len(s) -> Seq(S)] :
        Beginnings(s, P, Len(s), f)
  BY <1>2, BeginningsExist
<1>4. f = [i \in 0..Len(s) |->
             IF i = 0 THEN <<>>
             ELSE IF s[i] \in P THEN Append(f[i - 1], s[i]) ELSE f[i - 1]]
  <2> DEFINE h == [i \in 0..Len(s) |->
             IF i = 0 THEN <<>>
             ELSE IF s[i] \in P THEN Append(f[i - 1], s[i]) ELSE f[i - 1]]
  <2>1. f = [i \in 0..Len(s) |-> f[i]]
    BY <1>3
  <2>2. \A i \in 0..Len(s) : f[i] = h[i]
    BY <1>3, Zenon DEF Beginnings
  <2>3. h = [i \in 0..Len(s) |-> h[i]]
    OBVIOUS
  <2> HIDE DEF h
  <2>4. f = h
    BY <2>1, <2>2, <2>3
  <2> QED BY <2>4 DEF h
<1>5. ans = [i \in 0..Len(s) |->
               IF i = 0 THEN <<>>
               ELSE IF s[i] \in P THEN Append(ans[i - 1], s[i]) ELSE ans[i - 1]]
  BY <1>4
<1>6. Selected(s, P) = ans[Len(s)]
  BY DEF Selected
<1> HIDE DEF ans
<1>7. \A i \in 0..Len(s) : ans[i] = f[i]
  <2> DEFINE Bad == {i \in 0..Len(s) : ans[i] # f[i]}
  <2>1. SUFFICES ASSUME Bad # {} PROVE FALSE
    OBVIOUS
  <2>2. Bad \subseteq Nat
    BY <1>1
  <2>3. PICK m \in Bad : \A y \in Bad : m <= y
    BY <2>1, <2>2, Least
  <2>4. ans[m] = IF m = 0 THEN <<>>
                 ELSE IF s[m] \in P THEN Append(ans[m - 1], s[m]) ELSE ans[m - 1]
    BY <1>5
  <2>5. m # 0
    BY <2>4, <1>3 DEF Beginnings
  <2>6. m - 1 \in 0..Len(s) /\ m - 1 \notin Bad
    BY <1>1, <2>3, <2>5
  <2>7. ans[m - 1] = f[m - 1]
    BY <2>6
  <2>8. f[m] = IF m = 0 THEN <<>>
               ELSE IF s[m] \in P THEN Append(f[m - 1], s[m]) ELSE f[m - 1]
    BY <1>3 DEF Beginnings
  <2>9. ans[m] = f[m]
    BY <2>4, <2>5, <2>7, <2>8
  <2> QED BY <2>9
<1> QED BY <1>2, <1>3, <1>6, <1>7 DEF Beginnings

\* It is a sequence of items of s, ...
LEMMA SelectedType ==
  ASSUME NEW S, NEW s \in Seq(S), NEW P
  PROVE  Selected(s, P) \in Seq(S)
<1>1. PICK f \in [0..Len(s) -> Seq(S)] :
        Beginnings(s, P, Len(s), f) /\ Selected(s, P) = f[Len(s)]
  BY SelectedIsLast
<1>2. Len(s) \in 0..Len(s)
  BY LenProperties
<1> QED BY <1>1, <1>2

\* ... all of which are in the set.
LEMMA SelectedInSet ==
  ASSUME NEW S, NEW s \in Seq(S), NEW P
  PROVE  Selected(s, P) \in Seq(P)
<1>1. PICK f \in [0..Len(s) -> Seq(S)] :
        Beginnings(s, P, Len(s), f) /\ Selected(s, P) = f[Len(s)]
  BY SelectedIsLast
<1>2. Len(s) \in Nat /\ Len(s) \in 0..Len(s)
  BY LenProperties
<1> DEFINE Bad == {i \in 0..Len(s) : f[i] \notin Seq(P)}
<1>3. SUFFICES ASSUME Bad # {} PROVE FALSE
  BY <1>1, <1>2
<1>4. PICK m \in Bad : \A y \in Bad : m <= y
  <2>1. Bad \subseteq Nat
    BY <1>2
  <2> QED BY <1>3, <2>1, Least
<1>5. f[m] = IF m = 0 THEN <<>>
             ELSE IF s[m] \in P THEN Append(f[m - 1], s[m]) ELSE f[m - 1]
  BY <1>1 DEF Beginnings
<1>6. m # 0
  <2>1. <<>> \in Seq(P)
    OBVIOUS
  <2> QED BY <1>4, <1>5, <2>1
<1>7. m - 1 \in 0..Len(s) /\ m - 1 \notin Bad
  <2> HIDE DEF Bad
  <2>1. m \in 0..Len(s)
    BY DEF Bad
  <2> QED BY <1>2, <1>4, <1>6, <2>1
<1>8. f[m - 1] \in Seq(P)
  BY <1>7
<1>9. s[m] \in P => Append(f[m - 1], s[m]) \in Seq(P)
  BY <1>8, AppendProperties
<1>10. f[m] \in Seq(P)
  BY <1>5, <1>6, <1>8, <1>9
<1> QED BY <1>10

\* Nothing is selected of nothing ...
LEMMA SelectedEmpty ==
  ASSUME NEW P
  PROVE  Selected(<<>>, P) = <<>>
<1>1. <<>> \in Seq({}) /\ Len(<<>>) = 0
  BY EmptySeq
<1>2. PICK f \in [0..Len(<<>>) -> Seq({})] :
        Beginnings(<<>>, P, Len(<<>>), f) /\ Selected(<<>>, P) = f[Len(<<>>)]
  BY <1>1, SelectedIsLast
<1> QED BY <1>1, <1>2 DEF Beginnings

\* ... or of items none of which is in the set.
LEMMA SelectedNone ==
  ASSUME NEW S, NEW s \in Seq(S), NEW P, \A i \in 1..Len(s) : s[i] \notin P
  PROVE  Selected(s, P) = <<>>
<1>1. PICK f \in [0..Len(s) -> Seq(S)] :
        Beginnings(s, P, Len(s), f) /\ Selected(s, P) = f[Len(s)]
  BY SelectedIsLast
<1>2. Len(s) \in Nat /\ Len(s) \in 0..Len(s)
  BY LenProperties
<1> DEFINE Bad == {i \in 0..Len(s) : f[i] # <<>>}
<1>3. SUFFICES ASSUME Bad # {} PROVE FALSE
  BY <1>1, <1>2
<1>4. PICK m \in Bad : \A y \in Bad : m <= y
  <2>1. Bad \subseteq Nat
    BY <1>2
  <2> QED BY <1>3, <2>1, Least
<1>5. f[m] = IF m = 0 THEN <<>>
             ELSE IF s[m] \in P THEN Append(f[m - 1], s[m]) ELSE f[m - 1]
  BY <1>1 DEF Beginnings
<1>6. m \in 1..Len(s)
  BY <1>2, <1>4, <1>5
<1>7. m - 1 \in 0..Len(s) /\ m - 1 \notin Bad
  BY <1>2, <1>4, <1>6
<1> QED BY <1>4, <1>5, <1>6, <1>7

\* Sets which agree on the items of s select the same.
LEMMA SelectedSame ==
  ASSUME NEW S, NEW s \in Seq(S), NEW P, NEW Q,
         \A i \in 1..Len(s) : s[i] \in P <=> s[i] \in Q
  PROVE  Selected(s, P) = Selected(s, Q)
<1>1. PICK f \in [0..Len(s) -> Seq(S)] :
        Beginnings(s, P, Len(s), f) /\ Selected(s, P) = f[Len(s)]
  BY SelectedIsLast
<1>2. PICK g \in [0..Len(s) -> Seq(S)] :
        Beginnings(s, Q, Len(s), g) /\ Selected(s, Q) = g[Len(s)]
  BY SelectedIsLast
<1>3. Len(s) \in Nat /\ Len(s) \in 0..Len(s)
  BY LenProperties
<1> DEFINE Bad == {i \in 0..Len(s) : f[i] # g[i]}
<1>4. SUFFICES ASSUME Bad # {} PROVE FALSE
  BY <1>1, <1>2, <1>3
<1>5. PICK m \in Bad : \A y \in Bad : m <= y
  <2>1. Bad \subseteq Nat
    BY <1>3
  <2> QED BY <1>4, <2>1, Least
<1>6. f[m] = IF m = 0 THEN <<>>
             ELSE IF s[m] \in P THEN Append(f[m - 1], s[m]) ELSE f[m - 1]
  BY <1>1 DEF Beginnings
<1>7. g[m] = IF m = 0 THEN <<>>
             ELSE IF s[m] \in Q THEN Append(g[m - 1], s[m]) ELSE g[m - 1]
  BY <1>2 DEF Beginnings
<1>8. m \in 1..Len(s)
  BY <1>3, <1>5, <1>6, <1>7
<1>9. m - 1 \in 0..Len(s) /\ m - 1 \notin Bad
  BY <1>3, <1>5, <1>8
<1> QED BY <1>5, <1>6, <1>7, <1>8, <1>9

\* An item more at the end.
LEMMA SelectedAppend ==
  ASSUME NEW S, NEW s \in Seq(S), NEW x \in S, NEW P
  PROVE  Selected(Append(s, x), P) =
           IF x \in P THEN Append(Selected(s, P), x) ELSE Selected(s, P)
<1> DEFINE t == Append(s, x)
           n == Len(s)
<1>1. /\ t \in Seq(S) /\ Len(t) = n + 1 /\ n \in Nat
      /\ \A i \in 1..n : t[i] = s[i]
      /\ t[n + 1] = x
  BY AppendProperties, LenProperties
<1> HIDE DEF t, n
<1>2. PICK f \in [0..Len(s) -> Seq(S)] :
        Beginnings(s, P, Len(s), f) /\ Selected(s, P) = f[Len(s)]
  BY SelectedIsLast
<1>3. PICK g \in [0..Len(t) -> Seq(S)] :
        Beginnings(t, P, Len(t), g) /\ Selected(t, P) = g[Len(t)]
  BY <1>1, SelectedIsLast
<1>4. \A i \in 0..n : f[i] = g[i]
  <2> DEFINE Bad == {i \in 0..n : f[i] # g[i]}
  <2>1. SUFFICES ASSUME Bad # {} PROVE FALSE
    OBVIOUS
  <2>2. PICK m \in Bad : \A y \in Bad : m <= y
    <3>1. Bad \subseteq Nat
      BY <1>1
    <3> QED BY <2>1, <3>1, Least
  <2>0. m \in 0..Len(s) /\ m \in 0..Len(t)
    BY <1>1 DEF n
  <2>3. f[m] = IF m = 0 THEN <<>>
               ELSE IF s[m] \in P THEN Append(f[m - 1], s[m]) ELSE f[m - 1]
    BY <1>2, <2>0 DEF Beginnings
  <2>8. g[m] = IF m = 0 THEN <<>>
               ELSE IF t[m] \in P THEN Append(g[m - 1], t[m]) ELSE g[m - 1]
    BY <1>3, <2>0 DEF Beginnings
  <2>4. m \in 1..n
    <3>1. m # 0
      BY <2>3, <2>8
    <3> QED BY <1>1, <3>1
  <2>5. m - 1 \in 0..n /\ m - 1 \notin Bad /\ t[m] = s[m]
    BY <1>1, <2>2, <2>4
  <2>6. f[m - 1] = g[m - 1] /\ m # 0
    BY <2>4, <2>5
  <2>7. f[m] = g[m]
    BY <2>3, <2>5, <2>6, <2>8
  <2> QED BY <2>7
<1>5. g[n + 1] = IF x \in P THEN Append(g[n], x) ELSE g[n]
  <2>1. n + 1 \in 0..Len(t) /\ n + 1 # 0 /\ (n + 1) - 1 = n
    BY <1>1
  <2> QED BY <1>1, <1>3, <2>1 DEF Beginnings
<1>6. f[n] = g[n]
  <2>1. n \in 0..n
    BY <1>1
  <2> QED BY <1>4, <2>1
<1> QED BY <1>1, <1>2, <1>3, <1>5, <1>6 DEF t, n

\* Concatenation under a name of its own: the facts about it are used as
\* they are stated.
Joined(s, t) == s \o t

LEMMA JoinedType ==
  ASSUME NEW S, NEW s \in Seq(S), NEW t \in Seq(S)
  PROVE  Joined(s, t) \in Seq(S)
BY ConcatProperties DEF Joined

LEMMA JoinedEmpty ==
  ASSUME NEW S, NEW s \in Seq(S)
  PROVE  Joined(s, <<>>) = s /\ Joined(<<>>, s) = s
BY ConcatEmptySeq DEF Joined

LEMMA JoinedAppend ==
  ASSUME NEW S, NEW s \in Seq(S), NEW t \in Seq(S), NEW x \in S
  PROVE  Append(Joined(s, t), x) = Joined(s, Append(t, x))
BY DEF Joined

LEMMA JoinedAssociative ==
  ASSUME NEW S, NEW s \in Seq(S), NEW t \in Seq(S), NEW u \in Seq(S)
  PROVE  Joined(Joined(s, t), u) = Joined(s, Joined(t, u))
BY ConcatAssociative DEF Joined

LEMMA JoinedOne ==
  ASSUME NEW S, NEW s \in Seq(S), NEW x \in S
  PROVE  <<x>> \in Seq(S) /\ Joined(s, <<x>>) = Append(s, x)
BY AppendIsConcat DEF Joined

\* The head is gone.
LEMMA SelectedTail ==
  ASSUME NEW S, NEW s \in Seq(S), s # <<>>, NEW P
  PROVE  Selected(s, P) =
           IF Head(s) \in P THEN <<Head(s)>> \o Selected(Tail(s), P)
           ELSE Selected(Tail(s), P)
<1> DEFINE t == Tail(s)
           n == Len(t)
           a == IF s[1] \in P THEN <<s[1]>> ELSE <<>>
<1>1. /\ t \in Seq(S) /\ Len(s) = n + 1 /\ n \in Nat
      /\ \A i \in 1..n : t[i] = s[i + 1]
      /\ Head(s) = s[1] /\ s[1] \in S
  BY HeadTailProperties, ElementOfSeq
<1>b. t \in Seq(S)
  BY <1>1
<1>a. a \in Seq(S)
  BY <1>1
<1> HIDE DEF t, n, a
<1>2. PICK f \in [0..Len(s) -> Seq(S)] :
        Beginnings(s, P, Len(s), f) /\ Selected(s, P) = f[Len(s)]
  BY SelectedIsLast
<1>3. PICK g \in [0..Len(t) -> Seq(S)] :
        Beginnings(t, P, Len(t), g) /\ Selected(t, P) = g[Len(t)]
  BY <1>b, SelectedIsLast
<1>4. \A i \in 0..n : f[i + 1] = a \o g[i]
  <2> DEFINE Bad == {i \in 0..n : f[i + 1] # a \o g[i]}
  <2>1. SUFFICES ASSUME Bad # {} PROVE FALSE
    OBVIOUS
  <2>2. PICK m \in Bad : \A y \in Bad : m <= y
    <3>1. Bad \subseteq Nat
      BY <1>1
    <3> QED BY <2>1, <3>1, Least
  <2>3. /\ m + 1 \in 0..Len(s) /\ m + 1 # 0 /\ (m + 1) - 1 = m /\ m \in 0..n
    BY <1>1
  <2>4. f[m + 1] = IF s[m + 1] \in P THEN Append(f[m], s[m + 1]) ELSE f[m]
    BY <1>2, <2>3 DEF Beginnings
  <2>5. g[m] = IF m = 0 THEN <<>>
               ELSE IF t[m] \in P THEN Append(g[m - 1], t[m]) ELSE g[m - 1]
    BY <1>3, <2>3 DEF Beginnings, n
  <2>6. m # 0
    <3>1. ASSUME m = 0 PROVE FALSE
      <4>1. f[0] = <<>>
        BY <1>1, <1>2 DEF Beginnings
      <4>2. f[1] = IF s[1] \in P THEN Append(<<>>, s[1]) ELSE <<>>
        BY <2>4, <3>1, <4>1
      <4>3. Append(<<>>, s[1]) = <<s[1]>>
        BY <1>1
      <4>4. f[1] = a
        BY <4>2, <4>3 DEF a
      <4>5. g[0] = <<>>
        BY <2>5, <3>1
      <4>6. a \o <<>> = a
        BY <1>a, ConcatEmptySeq
      <4>7. f[0 + 1] # a \o g[0]
        BY <2>2, <3>1
      <4> QED BY <4>4, <4>5, <4>6, <4>7
    <3> QED BY <3>1
  <2>7. /\ m - 1 \in 0..n /\ m - 1 \notin Bad /\ t[m] = s[m + 1] /\ (m - 1) + 1 = m
    <3> HIDE DEF Bad
    <3>1. m - 1 \notin Bad
      BY <1>1, <2>2, <2>3
    <3> QED BY <1>1, <2>3, <2>6, <3>1
  <2>11. t[m] \in S
    <3>1. m \in 1..Len(t)
      BY <1>1, <2>3, <2>6 DEF n
    <3> QED BY <1>b, <3>1, ElementOfSeq
  <2>12. g[m - 1] \in Seq(S)
    BY <1>3, <2>7 DEF n
  <2>8. f[m] = a \o g[m - 1]
    BY <2>7
  <2>9. Append(a \o g[m - 1], t[m]) = a \o Append(g[m - 1], t[m])
    <3> DEFINE u == g[m - 1]
               x == t[m]
    <3>1. u \in Seq(S) /\ x \in S
      BY <2>11, <2>12
    <3> HIDE DEF u, x, Bad
    <3>2. Append(Joined(a, u), x) = Joined(a, Append(u, x))
      BY <1>a, <3>1, JoinedAppend
    <3> QED BY <3>2 DEF u, x, Joined
  <2>10. f[m + 1] = a \o g[m]
    BY <2>4, <2>5, <2>6, <2>7, <2>8, <2>9
  <2> QED BY <2>2, <2>10
<1>5. Selected(s, P) = a \o Selected(t, P)
  <2>1. n \in 0..n /\ n + 1 = Len(s) /\ n = Len(t)
    BY <1>1 DEF n
  <2>2. f[n + 1] = a \o g[n]
    BY <1>4, <2>1
  <2> QED BY <1>2, <1>3, <2>1, <2>2
<1>6. Selected(t, P) \in Seq(S)
  BY <1>1, SelectedType
<1>7. <<>> \o Selected(t, P) = Selected(t, P)
  BY <1>6, ConcatEmptySeq
<1> QED BY <1>1, <1>5, <1>7 DEF a, t
=============================================================================
