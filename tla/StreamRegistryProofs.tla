------------------------ MODULE StreamRegistryProofs ------------------------
(***************************************************************************)
(* A stream can be read as long as it is not too old, and its requests are *)
(* grouped as the reference says, for any number of streams, any lists of  *)
(* requests and any period of the cleanup.                                 *)
(***************************************************************************)
EXTENDS StreamRegistry, SelectedItemsProofs

-----------------------------------------------------------------------------
(* The registering loop. *)

\* The groups after each of the first n requests.
Registered(requests, n, f) ==
  \A i \in 0..n :
    f[i] = IF i = 0 THEN <<>> ELSE register(f[i - 1], requests[i])

\* There are such groups ...
LEMMA RegisteredExist ==
  ASSUME NEW s \in Seq(Request), NEW n \in 0..Len(s)
  PROVE  \E f : f = [i \in 0..n |-> f[i]] /\ Registered(s, n, f)
<1> DEFINE Good(m) == \E f : f = [i \in 0..m |-> f[i]] /\ Registered(s, m, f)
           Bad == {m \in 0..Len(s) : ~Good(m)}
<1> HIDE DEF Good
<1>1. SUFFICES ASSUME Bad # {} PROVE FALSE
  <2>1. ASSUME Bad = {} PROVE Good(n)
    BY <2>1
  <2> QED BY <2>1 DEF Good
<1>2. Len(s) \in Nat
  BY LenProperties
<1>3. PICK m \in Bad : \A y \in Bad : m <= y
  <2>1. Bad \subseteq Nat
    BY <1>2
  <2> QED BY <1>1, <2>1, Least
<1>4. m # 0
  <2> DEFINE z == [i \in 0..0 |-> <<>>]
  <2>1. z = [i \in 0..0 |-> z[i]] /\ \A i \in 0..0 : i = 0 /\ z[i] = <<>>
    OBVIOUS
  <2> HIDE DEF z
  <2>2. Registered(s, 0, z)
    BY <2>1 DEF Registered
  <2>3. Good(0)
    BY <2>1, <2>2 DEF Good
  <2> QED BY <2>3
<1>5. m - 1 \in 0..Len(s) /\ m - 1 \notin Bad
  BY <1>2, <1>3, <1>4
<1>6. PICK f : f = [i \in 0..(m - 1) |-> f[i]] /\ Registered(s, m - 1, f)
  BY <1>5 DEF Good
<1> DEFINE last == register(f[m - 1], s[m])
           g == [i \in 0..m |-> IF i = m THEN last ELSE f[i]]
<1> HIDE DEF last
<1>7. m \in 1..Len(s)
  BY <1>2, <1>3, <1>4
<1>8. \A i \in 0..m :
        g[i] = IF i = 0 THEN <<>> ELSE register(g[i - 1], s[i])
  <2> TAKE i \in 0..m
  <2>1. CASE i = m
    <3>1. m - 1 \in 0..m /\ m - 1 # m /\ m # 0 /\ m \in 0..m
      BY <1>7
    <3>2. g[m - 1] = f[m - 1] /\ g[m] = last
      BY <3>1
    <3> HIDE DEF g
    <3> QED BY <2>1, <3>1, <3>2 DEF last
  <2>2. CASE i # m
    <3>1. i \in 0..(m - 1) /\ (i # 0 => i - 1 \in 0..m /\ i - 1 # m)
      BY <2>2, <1>7
    <3>2. g[i] = f[i] /\ (i # 0 => g[i - 1] = f[i - 1])
      BY <2>2, <3>1
    <3> HIDE DEF g
    <3> QED BY <1>6, <3>1, <3>2 DEF Registered
  <2> QED BY <2>1, <2>2
<1>9. g = [i \in 0..m |-> g[i]]
  OBVIOUS
<1> HIDE DEF g
<1>10. Good(m)
  BY <1>8, <1>9 DEF Good, Registered
<1> QED BY <1>3, <1>10

\* ... and Grouped is the last of them.
LEMMA GroupedIsLast ==
  ASSUME NEW s \in Seq(Request)
  PROVE  \E f : Registered(s, Len(s), f) /\ Grouped(s) = f[Len(s)]
<1> DEFINE ans == CHOOSE ans : ans = [i \in 0..Len(s) |->
             IF i = 0 THEN <<>> ELSE register(ans[i - 1], s[i])]
<1>1. Len(s) \in 0..Len(s)
  BY LenProperties
<1>2. PICK f : f = [i \in 0..Len(s) |-> f[i]] /\ Registered(s, Len(s), f)
  BY <1>1, RegisteredExist
<1>3. f = [i \in 0..Len(s) |->
             IF i = 0 THEN <<>> ELSE register(f[i - 1], s[i])]
  <2> DEFINE h == [i \in 0..Len(s) |->
             IF i = 0 THEN <<>> ELSE register(f[i - 1], s[i])]
  <2>1. \A i \in 0..Len(s) : f[i] = h[i]
    BY <1>2, Zenon DEF Registered
  <2>2. h = [i \in 0..Len(s) |-> h[i]]
    OBVIOUS
  <2> HIDE DEF h
  <2>3. f = h
    BY <1>2, <2>1, <2>2
  <2> QED BY <2>3 DEF h
<1>4. ans = [i \in 0..Len(s) |->
               IF i = 0 THEN <<>> ELSE register(ans[i - 1], s[i])]
  BY <1>3
<1>5. Grouped(s) = ans[Len(s)]
  BY DEF Grouped
<1> HIDE DEF ans
<1>6. \A i \in 0..Len(s) :
        ans[i] = IF i = 0 THEN <<>> ELSE register(ans[i - 1], s[i])
  BY <1>4
<1> QED BY <1>5, <1>6 DEF Registered

\* The reverse of a list with a request more at its end.
LEMMA ReverseAppend ==
  ASSUME NEW S, NEW s \in Seq(S), NEW x \in S
  PROVE  /\ Reverse(s) \in Seq(S)
         /\ Reverse(Append(s, x)) = Joined(<<x>>, Reverse(s))
<1> DEFINE n == Len(s)
           a == Append(s, x)
           r == Reverse(s)
           q == Reverse(a)
           p == Joined(<<x>>, r)
<1>1. n \in Nat /\ \A i \in 1..n : s[i] \in S
  BY LenProperties, ElementOfSeq
<1>2. /\ a \in Seq(S) /\ Len(a) = n + 1 /\ a[n + 1] = x
      /\ \A i \in 1..n : a[i] = s[i]
  BY AppendProperties
<1>3. r = [i \in 1..n |-> s[(n - i) + 1]]
  BY DEF Reverse
<1>4. q = [i \in 1..(n + 1) |-> a[((n + 1) - i) + 1]]
  BY <1>2 DEF Reverse
<1> HIDE DEF n, a, r, q
<1>5. r \in Seq(S) /\ Len(r) = n
  <2>1. \A i \in 1..n : (n - i) + 1 \in 1..n
    BY <1>1
  <2>2. \A i \in 1..n : s[(n - i) + 1] \in S
    BY <1>1, <2>1
  <2>3. r \in [1..n -> S]
    BY <1>3, <2>2
  <2> QED BY <1>1, <2>3
<1>6. q \in Seq(S) /\ Len(q) = n + 1
  <2>1. \A i \in 1..(n + 1) : ((n + 1) - i) + 1 \in 1..(n + 1)
    BY <1>1
  <2>2. \A i \in 1..(n + 1) : a[i] \in S
    BY <1>2, ElementOfSeq
  <2>3. q \in [1..(n + 1) -> S]
    BY <1>4, <2>1, <2>2
  <2> QED BY <1>1, <2>3
<1>7. /\ p \in Seq(S) /\ Len(p) = n + 1
      /\ p[1] = x
      /\ \A i \in 1..n : p[i + 1] = r[i]
  <2>1. <<x>> \in Seq(S) /\ Len(<<x>>) = 1 /\ <<x>>[1] = x
    OBVIOUS
  <2>2. /\ <<x>> \o r \in Seq(S) /\ Len(<<x>> \o r) = 1 + n
        /\ \A i \in 1..(1 + n) : (<<x>> \o r)[i] =
             IF i <= 1 THEN <<x>>[i] ELSE r[i - 1]
    BY <1>5, <2>1, ConcatProperties
  <2>3. p = <<x>> \o r
    BY DEF Joined
  <2> HIDE DEF p
  <2> QED BY <1>1, <2>1, <2>2, <2>3
<1> HIDE DEF p
<1>8. \A i \in 1..(n + 1) : q[i] = p[i]
  <2> TAKE i \in 1..(n + 1)
  <2>1. q[i] = a[((n + 1) - i) + 1]
    BY <1>4
  <2>2. CASE i = 1
    BY <1>1, <1>2, <1>7, <2>1, <2>2
  <2>3. CASE i # 1
    <3> DEFINE j == i - 1
    <3>1. j \in 1..n /\ j + 1 = i /\ ((n + 1) - i) + 1 = (n - j) + 1
          /\ (n - j) + 1 \in 1..n
      BY <1>1, <2>3
    <3> HIDE DEF j
    <3>2. q[i] = s[(n - j) + 1]
      BY <1>2, <2>1, <3>1
    <3>3. p[i] = r[j]
      BY <1>7, <3>1
    <3> QED BY <1>3, <3>1, <3>2, <3>3
  <2> QED BY <2>2, <2>3
<1>9. q = p
  BY <1>6, <1>7, <1>8, SeqEqual
<1> QED BY <1>5, <1>9 DEF r, q, p, a

\* The groups of the reference with the code's own key.
CodeMembers(key, dependent) ==
  { r \in Request : groupingKey(r) = key /\ IsDependent(r) = dependent }

CodeGroup(requests, key) ==
  Reverse(Selected(requests, CodeMembers(key, FALSE)))
    \o Selected(requests, CodeMembers(key, TRUE))

CodeGroups(requests) ==
  [key \in { groupingKey(requests[i]) : i \in DOMAIN requests }
     |-> CodeGroup(requests, key)]

\* The request registered is in one of the two lists of its group and in no
\* list of another.
LEMMA MembersOf ==
  ASSUME NEW r \in Request, NEW k, NEW d \in BOOLEAN
  PROVE  r \in CodeMembers(k, d) <=> groupingKey(r) = k /\ IsDependent(r) = d
BY DEF CodeMembers

\* One more request: the groups change as register changes the groups.
LEMMA RegisterMatches ==
  ASSUME NEW s \in Seq(Request), NEW r \in Request
  PROVE  register(CodeGroups(s), r) = CodeGroups(Append(s, r))
<1> DEFINE key == groupingKey(r)
           t == Append(s, r)
           G == CodeGroups(s)
           H == CodeGroups(t)
           In(k) == Selected(s, CodeMembers(k, FALSE))
           De(k) == Selected(s, CodeMembers(k, TRUE))
<1>1. /\ t \in Seq(Request) /\ Len(t) = Len(s) + 1 /\ Len(s) \in Nat
      /\ \A i \in 1..Len(s) : t[i] = s[i]
      /\ t[Len(s) + 1] = r
  BY AppendProperties, LenProperties
<1>2. DOMAIN s = 1..Len(s) /\ DOMAIN t = 1..Len(t)
  BY <1>1, LenProperties
<1> HIDE DEF t
<1>3. DOMAIN G = {groupingKey(s[i]) : i \in 1..Len(s)}
  BY <1>2 DEF CodeGroups
<1>4. DOMAIN H = {groupingKey(t[i]) : i \in 1..Len(t)}
  BY <1>2 DEF CodeGroups
<1>5. DOMAIN H = DOMAIN G \cup {key}
  BY <1>1, <1>3, <1>4
<1>6. \A k : In(k) \in Seq(Request) /\ De(k) \in Seq(Request)
  BY SelectedType
<1>7. \A k \in DOMAIN G : G[k] = Joined(Reverse(In(k)), De(k))
  BY DEF CodeGroups, CodeGroup, Joined
<1>8. \A k \in DOMAIN H :
        H[k] = Joined(Reverse(Selected(t, CodeMembers(k, FALSE))),
                      Selected(t, CodeMembers(k, TRUE)))
  BY DEF CodeGroups, CodeGroup, Joined
<1>9. ASSUME NEW k
      PROVE  /\ Selected(t, CodeMembers(k, FALSE)) =
                  IF k = key /\ ~IsDependent(r) THEN Append(In(k), r) ELSE In(k)
             /\ Selected(t, CodeMembers(k, TRUE)) =
                  IF k = key /\ IsDependent(r) THEN Append(De(k), r) ELSE De(k)
  <2>1. IsDependent(r) \in BOOLEAN
    BY DEF IsDependent
  <2>2. /\ r \in CodeMembers(k, FALSE) <=> k = key /\ ~IsDependent(r)
        /\ r \in CodeMembers(k, TRUE) <=> k = key /\ IsDependent(r)
    BY <2>1, MembersOf
  <2>3. Selected(t, CodeMembers(k, FALSE)) =
          IF r \in CodeMembers(k, FALSE) THEN Append(In(k), r) ELSE In(k)
    BY SelectedAppend DEF t
  <2>4. Selected(t, CodeMembers(k, TRUE)) =
          IF r \in CodeMembers(k, TRUE) THEN Append(De(k), r) ELSE De(k)
    BY SelectedAppend DEF t
  <2> HIDE DEF In, De, key
  <2> QED BY <2>2, <2>3, <2>4
<1> HIDE DEF G, H, In, De, key
<1> DEFINE vals == IF key \notin DOMAIN G THEN <<r>>
                   ELSE IF IsDependent(r) THEN Append(G[key], r)
                   ELSE <<r>> \o G[key]
<1>10. \A k \in DOMAIN H : k # key => H[k] = G[k]
  BY <1>5, <1>7, <1>8, <1>9
<1>11. H[key] = Joined(Reverse(Selected(t, CodeMembers(key, FALSE))),
                       Selected(t, CodeMembers(key, TRUE)))
  BY <1>5, <1>8
<1>12. H[key] = vals
  <2>1. CASE IsDependent(r) /\ key \in DOMAIN G
    <3>1. H[key] = Joined(Reverse(In(key)), Append(De(key), r))
      BY <1>9, <1>11, <2>1
    <3>2. Reverse(In(key)) \in Seq(Request)
      BY <1>6, ReverseAppend
    <3>3. H[key] = Append(Joined(Reverse(In(key)), De(key)), r)
      BY <1>6, <3>1, <3>2, JoinedAppend
    <3> QED BY <1>7, <2>1, <3>3
  <2>2. CASE ~IsDependent(r) /\ key \in DOMAIN G
    <3>1. H[key] = Joined(Reverse(Append(In(key), r)), De(key))
      BY <1>9, <1>11, <2>2
    <3>2. /\ Reverse(In(key)) \in Seq(Request)
          /\ Reverse(Append(In(key), r)) = Joined(<<r>>, Reverse(In(key)))
      BY <1>6, ReverseAppend
    <3>3. <<r>> \in Seq(Request)
      OBVIOUS
    <3>4. H[key] = Joined(<<r>>, Joined(Reverse(In(key)), De(key)))
      <4> DEFINE a == <<r>>
                 b == Reverse(In(key))
                 c == De(key)
      <4>1. a \in Seq(Request) /\ b \in Seq(Request) /\ c \in Seq(Request)
        BY <1>6, <3>2, <3>3
      <4>2. H[key] = Joined(Joined(a, b), c)
        BY <3>1, <3>2
      <4> HIDE DEF a, b, c
      <4>3. Joined(Joined(a, b), c) = Joined(a, Joined(b, c))
        BY <4>1, JoinedAssociative
      <4> QED BY <4>2, <4>3 DEF a, b, c
    <3>5. H[key] = Joined(<<r>>, G[key])
      BY <1>7, <2>2, <3>4
    <3> QED BY <2>2, <3>5 DEF Joined
  <2>3. CASE key \notin DOMAIN G
    <3>1. \A i \in 1..Len(s) : groupingKey(s[i]) # key
      BY <1>3, <2>3 DEF G
    <3>2. \A i \in 1..Len(s) :
            s[i] \notin CodeMembers(key, FALSE) /\ s[i] \notin CodeMembers(key, TRUE)
      BY <3>1 DEF CodeMembers
    <3>3. In(key) = <<>> /\ De(key) = <<>>
      BY <3>2, SelectedNone DEF In, De
    <3>4. /\ <<>> \in Seq(Request) /\ <<r>> \in Seq(Request)
          /\ Append(<<>>, r) = <<r>>
      OBVIOUS
    <3>5. Reverse(<<>>) = <<>>
      BY DEF Reverse
    <3>6. CASE IsDependent(r)
      <4>1. H[key] = Joined(<<>>, <<r>>)
        BY <1>9, <1>11, <3>3, <3>4, <3>5, <3>6
      <4> QED BY <2>3, <3>4, <4>1, JoinedEmpty
    <3>7. CASE ~IsDependent(r)
      <4>1. H[key] = Joined(Reverse(<<r>>), <<>>)
        BY <1>9, <1>11, <3>3, <3>4, <3>7
      <4>2. Reverse(<<r>>) = Joined(<<r>>, <<>>)
        BY <3>4, <3>5, ReverseAppend
      <4>3. Joined(<<r>>, <<>>) = <<r>>
        BY <3>4, JoinedEmpty
      <4> QED BY <2>3, <4>1, <4>2, <4>3
    <3> QED BY <3>6, <3>7
  <2> QED BY <2>1, <2>2, <2>3
<1>13. register(G, r) =
         [k \in DOMAIN G \cup {key} |-> IF k = key THEN vals ELSE G[k]]
  BY DEF register, key
<1>14. H = [k \in DOMAIN G \cup {key} |-> H[k]]
  BY <1>5 DEF H, CodeGroups
<1> HIDE DEF vals
<1>15. register(G, r) = H
  BY <1>5, <1>10, <1>12, <1>13, <1>14
<1> QED BY <1>15 DEF G, H, t

\* A request put at the end of a list, or in front of it.
LEMMA Ends ==
  ASSUME NEW s \in Seq(Request), s # <<>>, NEW r \in Request
  PROVE  /\ Append(s, r) \in Seq(Request) /\ Append(s, r) # <<>>
         /\ Head(Append(s, r)) = Head(s)
         /\ \A i \in DOMAIN Append(s, r) : Append(s, r)[i] = r \/
              (i \in DOMAIN s /\ Append(s, r)[i] = s[i])
         /\ <<r>> \o s \in Seq(Request) /\ <<r>> \o s # <<>>
         /\ Head(<<r>> \o s) = r
<1>1. Len(s) \in Nat /\ Len(s) >= 1 /\ DOMAIN s = 1..Len(s)
  OBVIOUS
<1>2. /\ Append(s, r) \in Seq(Request)
      /\ Len(Append(s, r)) = Len(s) + 1
      /\ Append(s, r)[1] = s[1]
  BY <1>1
<1>3. /\ <<r>> \o s \in Seq(Request)
      /\ Len(<<r>> \o s) = Len(s) + 1
      /\ (<<r>> \o s)[1] = r
  BY <1>1
<1> QED
  BY <1>1, <1>2, <1>3

\* Every group has a request, and a dependent one at its head only if it has no
\* other.
Headed(gs) ==
  \A k \in DOMAIN gs :
    /\ gs[k] \in Seq(Request)
    /\ gs[k] # <<>>
    /\ IsDependent(Head(gs[k])) => \A i \in DOMAIN gs[k] : IsDependent(gs[k][i])

\* Registering one more request keeps that.
LEMMA RegisterKeeps ==
  ASSUME NEW gs, Headed(gs), NEW r \in Request
  PROVE  Headed(register(gs, r))
<1> DEFINE key == groupingKey(r)
           new == register(gs, r)
           Good(s) == /\ s \in Seq(Request)
                      /\ s # <<>>
                      /\ IsDependent(Head(s)) =>
                           \A i \in DOMAIN s : IsDependent(s[i])
<1>1. \A k \in DOMAIN gs : Good(gs[k])
  BY DEF Headed
<1>2. /\ DOMAIN new = DOMAIN gs \cup {key}
      /\ \A k \in DOMAIN gs \ {key} : new[k] = gs[k]
      /\ key \notin DOMAIN gs => new[key] = <<r>>
      /\ key \in DOMAIN gs /\ IsDependent(r) => new[key] = Append(gs[key], r)
      /\ key \in DOMAIN gs /\ ~IsDependent(r) => new[key] = <<r>> \o gs[key]
  BY DEF register
<1> HIDE DEF new
<1>3. Good(new[key])
  <2>1. CASE key \notin DOMAIN gs
    <3>1. new[key] = <<r>>
      BY <1>2, <2>1
    <3> QED BY <3>1
  <2>2. CASE key \in DOMAIN gs /\ IsDependent(r)
    BY <1>1, <1>2, <2>2, Ends
  <2>3. CASE key \in DOMAIN gs /\ ~IsDependent(r)
    <3>1. new[key] = <<r>> \o gs[key] /\ Good(gs[key])
      BY <1>1, <1>2, <2>3
    <3> QED BY <2>3, <3>1, Ends
  <2> QED BY <2>1, <2>2, <2>3
<1>4. \A k \in DOMAIN new : Good(new[k])
  BY <1>1, <1>2, <1>3
<1> QED BY <1>4 DEF Headed, new

\* The groups of no request.
LEMMA NoGroups == <<>> = CodeGroups(<<>>) /\ Headed(<<>>)
<1>1. DOMAIN <<>> = {}
  OBVIOUS
<1>2. {groupingKey(<<>>[i]) : i \in DOMAIN <<>>} = {}
  BY <1>1
<1>3. CodeGroups(<<>>) = [key \in {} |-> CodeGroup(<<>>, key)]
  BY <1>2 DEF CodeGroups
<1> QED BY <1>1, <1>3 DEF Headed

\* What the loop makes of a list of requests.
LEMMA GroupedCorrect ==
  ASSUME NEW s \in Seq(Request)
  PROVE  Grouped(s) = CodeGroups(s) /\ Headed(Grouped(s))
<1> DEFINE n == Len(s)
           Upto(i) == SubSeq(s, 1, i)
<1>1. PICK f : Registered(s, n, f) /\ Grouped(s) = f[n]
  BY GroupedIsLast
<1>2. n \in Nat /\ n \in 0..n /\ \A i \in 1..n : s[i] \in Request
  BY LenProperties, ElementOfSeq
<1>3. Upto(0) = <<>> /\ Upto(n) = s
  BY <1>2
<1>4. \A i \in 1..n :
        Upto(i - 1) \in Seq(Request) /\ Upto(i) = Append(Upto(i - 1), s[i])
  BY <1>2
<1> HIDE DEF Upto, n
<1> DEFINE Good(i) == f[i] = CodeGroups(Upto(i)) /\ Headed(f[i])
           Bad == {i \in 0..n : ~Good(i)}
<1> HIDE DEF Good
<1>5. Bad = {}
  <2>1. SUFFICES ASSUME Bad # {} PROVE FALSE
    OBVIOUS
  <2>2. PICK m \in Bad : \A y \in Bad : m <= y
    <3>1. Bad \subseteq Nat
      BY <1>2
    <3> QED BY <2>1, <3>1, Least
  <2>3. f[m] = IF m = 0 THEN <<>> ELSE register(f[m - 1], s[m])
    BY <1>1 DEF Registered
  <2>4. m # 0
    <3>1. f[0] = <<>>
      BY <1>1, <1>2 DEF Registered
    <3>2. Good(0)
      BY <1>3, <3>1, NoGroups DEF Good
    <3> QED BY <3>2
  <2>5. m \in 1..n /\ m - 1 \in 0..n /\ m - 1 \notin Bad
    BY <1>2, <2>2, <2>4
  <2>6. f[m - 1] = CodeGroups(Upto(m - 1)) /\ Headed(f[m - 1])
    BY <2>5 DEF Good
  <2>7. s[m] \in Request /\ f[m] = register(f[m - 1], s[m])
    BY <1>2, <2>3, <2>4, <2>5
  <2>8. register(CodeGroups(Upto(m - 1)), s[m])
          = CodeGroups(Append(Upto(m - 1), s[m]))
    BY <1>4, <2>5, <2>7, RegisterMatches
  <2>9. f[m] = CodeGroups(Upto(m))
    BY <1>4, <2>5, <2>6, <2>7, <2>8
  <2>10. Headed(f[m])
    BY <2>6, <2>7, RegisterKeeps
  <2>11. Good(m)
    BY <2>9, <2>10 DEF Good
  <2> QED BY <2>11
<1>6. Good(n)
  BY <1>2, <1>5
<1> QED BY <1>1, <1>3, <1>6 DEF Good

\* Where no request is misgrouped the code's key is the one addressed.
LEMMA CodeKeyIsAddressed ==
  ASSUME NEW s \in Seq(Request), NEW key, key \notin Misgrouped(s)
  PROVE  /\ \A i \in 1..Len(s) :
              groupingKey(s[i]) = key <=> AddressedKey(s[i]) = key
         /\ CodeGroup(s, key) = ReferenceGroup(s, key)
<1>1. Len(s) \in Nat /\ DOMAIN s = 1..Len(s)
      /\ \A i \in 1..Len(s) : s[i] \in Request
  BY LenProperties, ElementOfSeq
<1>2. ASSUME NEW i \in 1..Len(s)
      PROVE  groupingKey(s[i]) = key <=> AddressedKey(s[i]) = key
  BY <1>1 DEF Misgrouped
<1>3. ASSUME NEW d \in BOOLEAN
      PROVE  Selected(s, CodeMembers(key, d)) = Selected(s, Members(key, d))
  <2>1. \A i \in 1..Len(s) :
          s[i] \in CodeMembers(key, d) <=> s[i] \in Members(key, d)
    BY <1>1, <1>2 DEF CodeMembers, Members
  <2> QED BY <2>1, SelectedSame
<1> QED BY <1>2, <1>3 DEF CodeGroup, ReferenceGroup

\* The two definitions of the groups agree on all others.
LEMMA CodeGroupsMatch ==
  ASSUME NEW s \in Seq(Request)
  PROVE  Restrict(CodeGroups(s), DOMAIN CodeGroups(s) \ Misgrouped(s))
           = [key \in Addressed(s) \ Misgrouped(s) |-> ReferenceGroup(s, key)]
<1> DEFINE M == Misgrouped(s)
           G == CodeGroups(s)
<1>1. DOMAIN s = 1..Len(s)
  BY LenProperties
<1>2. DOMAIN G = {groupingKey(s[i]) : i \in 1..Len(s)}
  BY <1>1 DEF CodeGroups
<1>3. Addressed(s) = {AddressedKey(s[i]) : i \in 1..Len(s)}
  BY <1>1 DEF Addressed
<1>4. \A key : key \notin M =>
        /\ \A i \in 1..Len(s) :
             groupingKey(s[i]) = key <=> AddressedKey(s[i]) = key
        /\ CodeGroup(s, key) = ReferenceGroup(s, key)
  BY CodeKeyIsAddressed
<1>5. \A key \in DOMAIN G : G[key] = CodeGroup(s, key)
  BY DEF CodeGroups
<1> HIDE DEF M, G
<1>6. DOMAIN G \ M = Addressed(s) \ M
  BY <1>2, <1>3, <1>4
<1>7. Restrict(G, DOMAIN G \ M) = [key \in DOMAIN G \ M |-> G[key]]
  BY DEF Restrict
<1>8. \A key \in DOMAIN G \ M : G[key] = ReferenceGroup(s, key)
  BY <1>4, <1>5
<1> QED BY <1>6, <1>7, <1>8 DEF M, G

-----------------------------------------------------------------------------
(* The groups of the stream which is being read. *)

\* The registry holds lists of requests, and so does the copy of a cleanup.
ListsOK ==
  /\ \A id \in DOMAIN data : data[id] \in Seq(Request)
  /\ copy # None => \A id \in DOMAIN copy : copy[id] \in Seq(Request)

\* The list which is read is one of requests too, and the groups are those of
\* the code's key.
CodeMatches == args \in Seq(Request) /\ groups = CodeGroups(args)

GroupsInv == ListsOK /\ CodeMatches /\ Headed(groups)

LEMMA StepKeepsGroups ==
  ASSUME GroupsInv, [Next]_vars
  PROVE  GroupsInv'
<1>1. ASSUME UNCHANGED gvars, ListsOK' PROVE GroupsInv'
  BY <1>1 DEF GroupsInv, gvars, CodeMatches
<1>2. ASSUME UNCHANGED <<gvars, data, copy>> PROVE GroupsInv'
  <2>1. ListsOK'
    BY <1>2 DEF GroupsInv, ListsOK
  <2> QED BY <1>1, <1>2, <2>1
<1>3. ASSUME NEW id \in Ids, CreateStream(id) PROVE GroupsInv'
  <2>1. PICK list \in Lists[id] :
          data' = [i \in DOMAIN data \cup {id} |-> IF i = id THEN list ELSE data[i]]
    BY <1>3 DEF CreateStream
  <2>2. list \in Seq(Request)
    BY StreamRegistryAssumption
  <2>3. ListsOK'
    BY <1>3, <2>1, <2>2 DEF CreateStream, GroupsInv, ListsOK
  <2> QED BY <1>1, <1>3, <2>3 DEF CreateStream
<1>4. ASSUME NEW id \in Ids, StartStream(id) PROVE GroupsInv'
  <2>1. /\ data[id] \in Seq(Request)
        /\ args' = data[id] /\ groups' = Grouped(data[id])
    BY <1>4 DEF StartStream, GroupsInv, ListsOK
  <2>2. CodeMatches' /\ Headed(groups')
    BY <2>1, GroupedCorrect DEF CodeMatches
  <2>3. ListsOK'
    BY <1>4 DEF StartStream, GroupsInv, ListsOK
  <2> QED BY <2>2, <2>3 DEF GroupsInv
<1>5. ASSUME EndStream PROVE GroupsInv'
  <2>1. args' = <<>> /\ groups' = <<>> /\ ListsOK' /\ <<>> \in Seq(Request)
    BY <1>5, EmptySeq DEF EndStream, GroupsInv, ListsOK
  <2> QED BY <2>1, NoGroups DEF GroupsInv, CodeMatches
<1>6. CASE Elapse
  BY <1>2, <1>6 DEF Elapse
<1>7. CASE CleanupCopies
  <2>1. ListsOK'
    BY <1>7 DEF CleanupCopies, Filter, GroupsInv, ListsOK
  <2> QED BY <1>1, <1>7, <2>1 DEF CleanupCopies
<1>8. CASE CleanupAssigns
  <2>1. ListsOK'
    BY <1>8 DEF CleanupAssigns, GroupsInv, ListsOK
  <2> QED BY <1>1, <1>8, <2>1 DEF CleanupAssigns
<1>9. CASE UNCHANGED vars
  BY <1>2, <1>9 DEF vars, rvars
<1> QED BY <1>3, <1>4, <1>5, <1>6, <1>7, <1>8, <1>9 DEF Next

\* The groups are those of the list which is read, whatever was created, read
\* and cleaned up before.
THEOREM GroupsInvariant == Spec => []GroupsInv
<1>1. Init => GroupsInv
  <2> SUFFICES ASSUME Init PROVE GroupsInv
    OBVIOUS
  <2>1. ListsOK
    BY DEF Init, ListsOK
  <2>2. args = <<>> /\ groups = <<>> /\ <<>> \in Seq(Request)
    BY EmptySeq DEF Init, GInit
  <2> QED BY <2>1, <2>2, NoGroups DEF GroupsInv, CodeMatches
<1>2. GroupsInv /\ [Next]_vars => GroupsInv'
  BY StepKeepsGroups
<1> QED BY <1>1, <1>2, PTL DEF Spec

\* Registering the requests of any stream in their order gives the groups of
\* the reference, for any list of requests (dupreq.go:33-49): none is lost or
\* put in two groups, or in another one than that of the data it asks for.  The
\* exception is GroupsMatchReference's, a request whose OtherTileQueryIdx is
\* not its QueryIdx (conf.go:85-94).
THEOREM GroupsAlwaysMatch == Spec => []GroupsMatchReference
<1>1. GroupsInv => GroupsMatchReference
  BY CodeGroupsMatch DEF GroupsInv, CodeMatches, GroupsMatchReference
<1> QED BY <1>1, GroupsInvariant, PTL

\* "request without a dependency must be always first" (dupreq.go:37): in
\* whatever order the requests of a stream arrive, a group is performed through
\* a dependent request only if it has no other.
THEOREM IndependentAlwaysFirst == Spec => []IndependentFirst
<1>1. GroupsInv => IndependentFirst
  BY DEF GroupsInv, Headed, IndependentFirst, performed
<1> QED BY <1>1, GroupsInvariant, PTL

-----------------------------------------------------------------------------
(* The registry. *)

AgesOK == age \in [Ids -> Nat \cup {None}]

\* A copy has what the map must have: nothing is lost by the assignment.
CopyHasFresh ==
  copy # None =>
    \A id \in Ids :
      age[id] \in 0..MaxAge /\ id \notin raced => id \in DOMAIN copy

RegistryInv == AgesOK /\ FreshStreamIsFound /\ CopyHasFresh

LEMMA NoneIsNoAge == None \notin Nat /\ MaxAge \in Nat
BY TileGroupsAssumption, StreamRegistryAssumption

\* What a step does to a stream of given age: unless it is too old or is being
\* created, it had been there and was not too old before.
LEMMA ElapseAges ==
  ASSUME AgesOK, Elapse
  PROVE  /\ AgesOK'
         /\ \A id \in Ids : age'[id] \in 0..MaxAge => age[id] \in 0..MaxAge
BY NoneIsNoAge DEF AgesOK, Elapse

LEMMA StepKeepsRegistry ==
  ASSUME RegistryInv, [Next]_vars
  PROVE  RegistryInv'
<1> USE NoneIsNoAge
<1>1. ASSUME NEW id \in Ids, CreateStream(id) PROVE RegistryInv'
  <2>1. DOMAIN data' = {id} \cup DOMAIN data
    BY <1>1 DEF CreateStream
  <2>2. /\ AgesOK'
        /\ \A i \in Ids : i # id => age'[i] = age[i]
    BY <1>1 DEF CreateStream, RegistryInv, AgesOK
  <2>3. FreshStreamIsFound'
    BY <1>1, <2>1, <2>2 DEF CreateStream, RegistryInv, FreshStreamIsFound
  <2>4. CopyHasFresh'
    BY <1>1, <2>2 DEF CreateStream, RegistryInv, CopyHasFresh
  <2> QED BY <2>2, <2>3, <2>4 DEF RegistryInv
<1>2. ASSUME Elapse PROVE RegistryInv'
  BY <1>2, ElapseAges
  DEF Elapse, RegistryInv, FreshStreamIsFound, CopyHasFresh
<1>3. ASSUME CleanupCopies PROVE RegistryInv'
  BY <1>3
  DEF CleanupCopies, Filter, RegistryInv, AgesOK, FreshStreamIsFound,
      CopyHasFresh
<1>4. ASSUME CleanupAssigns PROVE RegistryInv'
  BY <1>4
  DEF CleanupAssigns, RegistryInv, AgesOK, FreshStreamIsFound, CopyHasFresh
<1>5. ASSUME UNCHANGED <<data, copy, age, raced>> PROVE RegistryInv'
  BY <1>5 DEF RegistryInv, AgesOK, FreshStreamIsFound, CopyHasFresh
<1>6. ASSUME NEW id \in Ids, StartStream(id) PROVE RegistryInv'
  BY <1>5, <1>6 DEF StartStream
<1>7. CASE EndStream
  BY <1>5, <1>7 DEF EndStream
<1>8. CASE UNCHANGED vars
  BY <1>5, <1>8 DEF vars, rvars
<1> QED
  BY <1>1, <1>2, <1>3, <1>4, <1>6, <1>7, <1>8 DEF Next

\* A stream which is not older than maxRecAge can be started whatever cleanups
\* there were (streams.go:58-64), unless it was added during one: for any
\* streams and any times.
THEOREM FreshAlwaysFound == Spec => []FreshStreamIsFound
<1>1. Init => RegistryInv
  <2> SUFFICES ASSUME Init PROVE RegistryInv
    OBVIOUS
  <2>1. AgesOK /\ \A id \in Ids : age[id] = None
    BY DEF Init, AgesOK
  <2>2. \A id \in Ids : age[id] \notin 0..MaxAge
    BY <2>1, NoneIsNoAge
  <2>3. FreshStreamIsFound /\ CopyHasFresh
    BY <2>2 DEF FreshStreamIsFound, CopyHasFresh
  <2> QED BY <2>1, <2>3 DEF RegistryInv
<1>2. RegistryInv /\ [Next]_vars => RegistryInv'
  BY StepKeepsRegistry
<1>3. RegistryInv => FreshStreamIsFound
  BY DEF RegistryInv
<1> QED BY <1>1, <1>2, <1>3, PTL DEF Spec
=============================================================================
