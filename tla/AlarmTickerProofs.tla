------------------------- MODULE AlarmTickerProofs -------------------------
(***************************************************************************)
(* Proofs about AlarmTicker.  The order: the inductive invariant; facts on *)
(* numbers and sequences; what one measurement does to an activity; then   *)
(* each part of the invariant over the actions; the theorems at the end.   *)
(***************************************************************************)
EXTENDS AlarmTicker, SelectedItemsProofs, FiniteSetTheorems

USE DEF vars, lifeVars, runVars, httpVars, adminVars

-----------------------------------------------------------------------------
(* The inductive invariant. *)

\* RequestInfo, and a request of the history.
Request == [c : Clients, created : Time]
Made == [c : Clients, at : Time, id : Nat]

\* The service does not serve: nothing of the alarm is on its way.
Quiet == phase \in {"boot", "loaded", "registered", "down", "fatal"}

\* Types: of what outlives a request, of Run, of the rest.
LifeType ==
  /\ phase \in Phases /\ starts \in 1..MaxStarts
  /\ saver \in {"idle", "created", "header", "done", "failed"}
  /\ due \in Seq(Report)
  /\ file.type = "data" =>
       IsActivities(file.act) /\ file.reports \in Seq(Report) /\ file.due \in Seq(Report)
RunType ==
  /\ run \in {"start", "loop", "busy", "returned"}
  /\ run = "busy" <=> cur # None
  /\ IsActivities(act)
  /\ cur \in Current \cup {None}
  /\ cur # None /\ cur.removed = None => cur.c \in DOMAIN act
  /\ cur # None /\ cur.removed # None =>
       IsActivity(cur.removed) /\ cur.c \notin DOMAIN act
EnvType == known \in BOOLEAN /\ allow \subseteq AllowListed /\ now \in Time
HttpType ==
  /\ handler \in [Handlers -> Request \cup {None}]
  /\ counter \in Seq(Request) /\ Len(counter) <= CounterCap
ReportsType == reports \in Seq(Report) /\ (clean = None \/ clean.remain \in Seq(Report))
QuietType ==
  Quiet => /\ handler = [h \in Handlers |-> None]
           /\ counter = <<>> /\ cur = None /\ clean = None

TypeInv == LifeType /\ RunType /\ EnvType /\ HttpType /\ ReportsType /\ QuietType

\* The reports there were at the signal are at the head of the list, then of
\* the saved list, then of the restored one.
SavedInv ==
  /\ phase = "stopping" => IsPrefix(due, reports)
  /\ file.type = "data" => IsPrefix(file.due, file.reports)
  /\ phase \in {"loaded", "registered"} /\ file.type = "data" => reports = file.reports

\* A measurement which alone reaches the threshold.
IsBurst(e, iv) == Scale * e.value >= Threshold * ExceedingsSize * Limit[iv]

\* Of an activity: no measurement is of the future, a burst was reported.
Past(a, t) == \A iv \in Intervals : \A i \in DOMAIN a.exceed[iv] :
                a.exceed[iv][i].at <= t
Told(a) == \A iv \in Intervals : \A i \in DOMAIN a.exceed[iv] :
             IsBurst(a.exceed[iv][i], iv) =>
               a.lastReport >= a.exceed[iv][i].at - MinReports

\* In the live activities and in the saved ones.
BurstInv ==
  /\ \A c \in DOMAIN act : Past(act[c], now) /\ Told(act[c])
  /\ cur # None /\ cur.removed # None => Past(cur.removed, now)
  /\ file.type = "data" => \A c \in DOMAIN file.act : Past(file.act[c], now) /\ Told(file.act[c])

\* How many items of s are in P.
CountIn(s, P) == Cardinality({i \in DOMAIN s : s[i] \in P})

\* The requests client c made after t, and how many of them are on their way
\* to Run: in the handlers H, in the channel, in the client's activity.
After(t) == {x \in Time : x > t}
RequestsAfter(c, t) == {r \in Request : r.c = c /\ r.created > t}
MadeAfter(M, c, t) == {q \in M : q.c = c /\ q.at > t}
Serving(H, c, t) == {h \in Handlers : H[h] # None /\ H[h] \in RequestsAfter(c, t)}
Kept(a, k, c) ==
  IF k # None /\ k.c = c /\ k.removed # None THEN k.removed.requests
  ELSE IF c \in DOMAIN a THEN a[c].requests ELSE <<>>

\* The history: the identifiers are those of requests made so far.
MadeInv ==
  /\ made \subseteq Made /\ IsFiniteSet(made)
  /\ \A q \in made : q.at <= now /\ q.id < Cardinality(made)

\* No request is counted twice.
CountInv ==
  phase \notin {"boot", "loaded"} =>
    \A c \in Clients, t \in Int :
      CountIn(Kept(act, cur, c), After(t)) + CountIn(counter, RequestsAfter(c, t))
        + Cardinality(Serving(handler, c, t)) <= Cardinality(MadeAfter(made, c, t))

\* How many of the requests M client c made in the iv seconds up to m.
MadeBy(M, c, iv, m) ==
  Cardinality({q \in M : q.c = c /\ q.at > m - iv /\ q.at <= m})

\* A measurement is right if the client made that many requests by then.
Right(M, a, c) ==
  \A iv \in Intervals : \A i \in DOMAIN a.exceed[iv] :
    MadeBy(M, c, iv, a.exceed[iv][i].at) >= Limit[iv] + a.exceed[iv][i].value
Justified(M, r) ==
  \E m \in (r.at - r.iv)..r.at : MadeBy(M, r.c, r.iv, m) > Limit[r.iv]
AllJustified(M, list) == \A i \in DOMAIN list : Justified(M, list[i])

\* Wherever a measurement or a report is kept.
AlarmInv ==
  /\ phase \notin {"boot", "loaded"} => \A c \in DOMAIN act : Right(made, act[c], c)
  /\ cur # None /\ cur.removed # None => Right(made, cur.removed, cur.c)
  /\ AllJustified(made, reports)
  /\ clean # None => AllJustified(made, clean.remain)
  /\ file.type = "data" => AllJustified(made, file.reports)

TickerInv == TypeInv /\ SavedInv /\ BurstInv /\ MadeInv /\ CountInv /\ AlarmInv

-----------------------------------------------------------------------------
(* Numbers and sequences. *)

\* How many items of a sequence are in a set.
LEMMA CountType ==
  ASSUME NEW S, NEW s \in Seq(S), NEW P
  PROVE  /\ IsFiniteSet({i \in DOMAIN s : s[i] \in P})
         /\ CountIn(s, P) \in Nat
<1>1. DOMAIN s = 1..Len(s) /\ Len(s) \in Nat
  BY LenProperties
<1>2. IsFiniteSet(DOMAIN s)
  BY <1>1, FS_Interval
<1>3. IsFiniteSet({i \in DOMAIN s : s[i] \in P})
  BY <1>2, FS_Subset
<1> QED BY <1>3, FS_CardinalityType DEF CountIn

\* Append adds its item to the count ...
LEMMA CountAppend ==
  ASSUME NEW S, NEW s \in Seq(S), NEW x \in S, NEW P
  PROVE  CountIn(Append(s, x), P) = CountIn(s, P) + (IF x \in P THEN 1 ELSE 0)
<1> DEFINE A == {i \in DOMAIN s : s[i] \in P}
           B == {i \in DOMAIN Append(s, x) : Append(s, x)[i] \in P}
           n == Len(s) + 1
<1>1. /\ Append(s, x) \in Seq(S) /\ Len(Append(s, x)) = n
      /\ \A i \in 1..Len(s) : Append(s, x)[i] = s[i]
      /\ Append(s, x)[n] = x
  BY AppendProperties
<1>2. DOMAIN s = 1..Len(s) /\ Len(s) \in Nat /\ DOMAIN Append(s, x) = 1..n
  BY <1>1, LenProperties
<1>3. IsFiniteSet(A) /\ CountIn(s, P) \in Nat
  BY CountType
<1>4. n \notin A
  BY <1>2
<1>7. CountIn(s, P) = Cardinality(A) /\ CountIn(Append(s, x), P) = Cardinality(B)
  BY DEF CountIn
<1>5. CASE x \in P
  <2>1. B = A \cup {n}
    BY <1>1, <1>2, <1>5
  <2>2. Cardinality(B) = Cardinality(A) + 1
    BY <2>1, <1>3, <1>4, FS_AddElement
  <2> HIDE DEF A, B
  <2> QED BY <2>2, <1>5, <1>7
<1>6. CASE x \notin P
  <2>1. B = A
    BY <1>1, <1>2, <1>6
  <2> HIDE DEF A, B
  <2> QED BY <2>1, <1>3, <1>6, <1>7
<1> QED BY <1>5, <1>6

\* ... and Tail takes the first one off.
LEMMA CountTail ==
  ASSUME NEW S, NEW s \in Seq(S), s # <<>>, NEW P
  PROVE  CountIn(s, P) = CountIn(Tail(s), P) + (IF Head(s) \in P THEN 1 ELSE 0)
<1> DEFINE A == {i \in DOMAIN s : s[i] \in P}
           B == {i \in DOMAIN Tail(s) : Tail(s)[i] \in P}
           f == [i \in B |-> i + 1]
<1>1. /\ Tail(s) \in Seq(S) /\ Len(Tail(s)) = Len(s) - 1
      /\ \A i \in 1..Len(Tail(s)) : Tail(s)[i] = s[i + 1]
  BY HeadTailProperties
<1>2. /\ DOMAIN s = 1..Len(s) /\ Len(s) \in Nat \ {0}
      /\ DOMAIN Tail(s) = 1..Len(Tail(s))
  BY <1>1, LenProperties, EmptySeq
<1>3. Head(s) = s[1]
  BY <1>2
<1>4. IsFiniteSet(A) /\ IsFiniteSet(B) /\ CountIn(Tail(s), P) \in Nat
  BY <1>1, CountType
<1>5. \A i \in B : i + 1 \in A \ {1}
  BY <1>1, <1>2
<1>6. \A j \in A \ {1} : j - 1 \in B /\ (j - 1) + 1 = j
  BY <1>1, <1>2
<1>7. \A i, j \in B : i + 1 = j + 1 => i = j
  BY <1>2
<1>8. f \in Bijection(B, A \ {1})
  <2>1. f \in [B -> A \ {1}]
    BY <1>5
  <2>2. f \in Injection(B, A \ {1})
    BY <2>1, <1>7 DEF Injection, IsInjective
  <2>3. f \in Surjection(B, A \ {1})
    BY <2>1, <1>6 DEF Surjection
  <2> QED BY <2>2, <2>3 DEF Bijection
<1>9. Cardinality(A \ {1}) = Cardinality(B)
  BY <1>4, <1>8, FS_Bijection DEF ExistsBijection
<1>12. CountIn(s, P) = Cardinality(A) /\ CountIn(Tail(s), P) = Cardinality(B)
  BY DEF CountIn
<1>10. CASE Head(s) \in P
  <2>1. 1 \in A
    BY <1>2, <1>3, <1>10
  <2>2. Cardinality(A \ {1}) = Cardinality(A) - 1
    BY <2>1, <1>4, FS_RemoveElement
  <2>3. Cardinality(A) \in Nat
    BY <1>4, FS_CardinalityType
  <2> HIDE DEF A, B
  <2> QED BY <2>2, <2>3, <1>9, <1>10, <1>12
<1>11. CASE Head(s) \notin P
  <2>1. A \ {1} = A
    BY <1>2, <1>3, <1>11
  <2>2. Cardinality(A) = Cardinality(B)
    BY <2>1, <1>9, Zenon
  <2> HIDE DEF A, B
  <2>3. CountIn(s, P) = CountIn(Tail(s), P)
    BY <2>2, <1>12, Zenon
  <2> QED BY <2>3, <1>4, <1>11
<1> QED BY <1>10, <1>11

\* The circular list.
LEMMA CircularType ==
  ASSUME NEW S, NEW s \in Seq(S), NEW x \in S, NEW size \in Nat \ {0},
         Len(s) <= size
  PROVE  /\ AppendCircular(s, x, size) \in Seq(S)
         /\ Len(AppendCircular(s, x, size)) \in 1..size
         /\ \A i \in DOMAIN AppendCircular(s, x, size) :
              \/ AppendCircular(s, x, size)[i] = x
              \/ \E j \in DOMAIN s : AppendCircular(s, x, size)[i] = s[j]
         /\ \E i \in DOMAIN AppendCircular(s, x, size) :
              AppendCircular(s, x, size)[i] = x
<1> DEFINE kept == IF Len(s) < size THEN s ELSE Tail(s)
           new == Append(kept, x)
<1>1. Len(s) \in Nat /\ DOMAIN s = 1..Len(s)
  BY LenProperties
<1>2. /\ kept \in Seq(S) /\ Len(kept) \in Nat /\ Len(kept) < size
      /\ \A i \in 1..Len(kept) : \E j \in DOMAIN s : kept[i] = s[j]
  <2>1. CASE Len(s) < size
    BY <2>1, <1>1
  <2>2. CASE ~(Len(s) < size)
    <3>1. s # <<>>
      BY <2>2, <1>1, EmptySeq
    <3>2. /\ Tail(s) \in Seq(S) /\ Len(Tail(s)) = Len(s) - 1
          /\ \A i \in 1..Len(Tail(s)) : Tail(s)[i] = s[i + 1]
      BY <3>1, HeadTailProperties
    <3>3. Len(s) \in Nat \ {0}
      BY <3>1, EmptySeq
    <3>4. \A i \in 1..Len(Tail(s)) : i + 1 \in DOMAIN s
      BY <3>2, <3>3, <1>1
    <3>5. kept = Tail(s)
      BY <2>2
    <3> HIDE DEF kept
    <3> QED BY <3>2, <3>3, <3>4, <3>5
  <2> QED BY <2>1, <2>2
<1> HIDE DEF kept
<1>3. /\ new \in Seq(S) /\ Len(new) = Len(kept) + 1
      /\ \A i \in 1..Len(kept) : new[i] = kept[i]
      /\ new[Len(kept) + 1] = x
  BY <1>2, AppendProperties
<1>4. DOMAIN new = 1..(Len(kept) + 1)
  BY <1>3, LenProperties
<1>5. new = AppendCircular(s, x, size)
  BY DEF AppendCircular, kept
<1> HIDE DEF new
<1>6. \A i \in DOMAIN new : new[i] = x \/ \E j \in DOMAIN s : new[i] = s[j]
  <2> TAKE i \in DOMAIN new
  <2>1. i \in 1..Len(kept) \/ i = Len(kept) + 1
    BY <1>2, <1>4
  <2> QED BY <2>1, <1>2, <1>3
<1>7. Len(kept) + 1 \in DOMAIN new
  BY <1>2, <1>4
<1>8. Len(new) \in 1..size
  BY <1>2, <1>3
<1> QED BY <1>3, <1>5, <1>6, <1>7, <1>8

\* Of what it counts, the circular list gains at most the new item.
LEMMA CountCircular ==
  ASSUME NEW S, NEW s \in Seq(S), NEW x \in S, NEW size \in Nat \ {0}, NEW P
  PROVE  CountIn(AppendCircular(s, x, size), P)
           <= CountIn(s, P) + (IF x \in P THEN 1 ELSE 0)
<1>0. Len(s) \in Nat
  BY LenProperties
<1>1. CASE Len(s) < size
  <2>1. AppendCircular(s, x, size) = Append(s, x)
    BY <1>1 DEF AppendCircular
  <2>2. CountIn(Append(s, x), P) = CountIn(s, P) + (IF x \in P THEN 1 ELSE 0)
    BY CountAppend
  <2>3. CountIn(s, P) \in Nat
    BY CountType
  <2> QED BY <2>1, <2>2, <2>3
<1>2. CASE ~(Len(s) < size)
  <2>1. AppendCircular(s, x, size) = Append(Tail(s), x)
    BY <1>2 DEF AppendCircular
  <2>2. s # <<>>
    BY <1>0, <1>2, EmptySeq
  <2>3. Tail(s) \in Seq(S)
    BY <2>2, HeadTailProperties
  <2>4. CountIn(Append(Tail(s), x), P) = CountIn(Tail(s), P) + (IF x \in P THEN 1 ELSE 0)
    BY <2>3, CountAppend
  <2>5. CountIn(s, P) = CountIn(Tail(s), P) + (IF Head(s) \in P THEN 1 ELSE 0)
    BY <2>2, CountTail
  <2>6. CountIn(Tail(s), P) \in Nat /\ CountIn(s, P) \in Nat
    BY <2>3, CountType
  <2> QED BY <2>1, <2>4, <2>5, <2>6
<1> QED BY <1>1, <1>2

\* A prefix stays one when the sequence grows.
LEMMA PrefixAppend ==
  ASSUME NEW S, NEW s \in Seq(S), NEW t \in Seq(S), NEW x \in S, IsPrefix(s, t)
  PROVE  IsPrefix(s, Append(t, x))
<1>1. /\ Append(t, x) \in Seq(S) /\ Len(Append(t, x)) = Len(t) + 1
      /\ \A i \in 1..Len(t) : Append(t, x)[i] = t[i]
  BY AppendProperties
<1>2. Len(s) \in Nat /\ Len(t) \in Nat /\ Len(s) <= Len(t)
  BY LenProperties DEF IsPrefix
<1>3. \A i \in 1..Len(s) : t[i] \in S /\ Append(t, x)[i] = t[i]
  BY <1>1, <1>2, ElementOfSeq
<1>4. \A i \in 1..Len(s) : Append(t, x)[i] \in S
  BY <1>3
<1>5. /\ SubSeq(t, 1, Len(s)) \in Seq(S)
      /\ Len(SubSeq(t, 1, Len(s))) = IF 1 <= Len(s) THEN Len(s) - 1 + 1 ELSE 0
      /\ \A i \in 1..(Len(s) - 1 + 1) : SubSeq(t, 1, Len(s))[i] = t[1 + i - 1]
  BY <1>2, <1>3, SubSeqProperties
<1>6. /\ SubSeq(Append(t, x), 1, Len(s)) \in Seq(S)
      /\ Len(SubSeq(Append(t, x), 1, Len(s))) = IF 1 <= Len(s) THEN Len(s) - 1 + 1 ELSE 0
      /\ \A i \in 1..(Len(s) - 1 + 1) :
           SubSeq(Append(t, x), 1, Len(s))[i] = Append(t, x)[1 + i - 1]
  BY <1>2, <1>4, SubSeqProperties
<1>7. \A i \in 1..Len(SubSeq(t, 1, Len(s))) :
        SubSeq(t, 1, Len(s))[i] = SubSeq(Append(t, x), 1, Len(s))[i]
  BY <1>2, <1>3, <1>5, <1>6
<1>8. SubSeq(t, 1, Len(s)) = SubSeq(Append(t, x), 1, Len(s))
  BY <1>5, <1>6, <1>7, SeqEqual
<1> QED BY <1>1, <1>2, <1>8 DEF IsPrefix

\* Partial sums: they exist, ...
LEMMA SumsExist ==
  ASSUME NEW p \in Seq(Nat), NEW n \in 0..Len(p)
  PROVE  \E f \in [0..n -> Nat] :
           \A i \in 0..n : f[i] = IF i = 0 THEN 0 ELSE f[i - 1] + p[i]
<1> DEFINE Good(m) == \E f \in [0..m -> Nat] :
             \A i \in 0..m : f[i] = IF i = 0 THEN 0 ELSE f[i - 1] + p[i]
           Bad == {m \in 0..Len(p) : ~Good(m)}
<1> HIDE DEF Good
<1>1. SUFFICES ASSUME Bad # {} PROVE FALSE
  <2>1. ASSUME Bad = {} PROVE Good(n)
    BY <2>1
  <2> QED BY <2>1 DEF Good
<1>2. Len(p) \in Nat /\ \A i \in 1..Len(p) : p[i] \in Nat
  BY LenProperties, ElementOfSeq
<1>3. Bad \subseteq Nat
  BY <1>2
<1>4. PICK m \in Bad : \A y \in Bad : m <= y
  BY <1>1, <1>3, Least
<1>5. m # 0
  <2>1. [i \in 0..0 |-> 0] \in [0..0 -> Nat]
    OBVIOUS
  <2>2. \A i \in 0..0 : [j \in 0..0 |-> 0][i] = IF i = 0 THEN 0 ELSE [j \in 0..0 |-> 0][i - 1] + p[i]
    OBVIOUS
  <2>3. Good(0)
    BY <2>1, <2>2 DEF Good
  <2> QED BY <2>3
<1>6. m - 1 \in 0..Len(p) /\ m - 1 \notin Bad
  BY <1>2, <1>4, <1>5
<1>7. PICK f \in [0..(m - 1) -> Nat] :
        \A i \in 0..(m - 1) : f[i] = IF i = 0 THEN 0 ELSE f[i - 1] + p[i]
  BY <1>6 DEF Good
<1> DEFINE g == [i \in 0..m |-> IF i = m THEN f[m - 1] + p[m] ELSE f[i]]
<1>8. m \in 1..Len(p) /\ p[m] \in Nat /\ f[m - 1] \in Nat
  BY <1>2, <1>4, <1>5
<1>9. g \in [0..m -> Nat]
  BY <1>8, <1>7
<1>10. \A i \in 0..m : g[i] = IF i = 0 THEN 0 ELSE g[i - 1] + p[i]
  <2> TAKE i \in 0..m
  <2>1. CASE i = m
    BY <2>1, <1>8
  <2>2. CASE i # m
    BY <2>2, <1>7, <1>8
  <2> QED BY <2>1, <2>2
<1>11. Good(m)
  BY <1>9, <1>10 DEF Good
<1> QED BY <1>4, <1>11

\* ... so the recursive definition in Total defines them ...
LEMMA TotalIsSum ==
  ASSUME NEW p \in Seq(Nat)
  PROVE  \E f \in [0..Len(p) -> Nat] :
           /\ \A i \in 0..Len(p) : f[i] = IF i = 0 THEN 0 ELSE f[i - 1] + p[i]
           /\ Total(p) = f[Len(p)]
<1> DEFINE ans == CHOOSE ans : ans = [i \in 0..Len(p) |-> IF i = 0 THEN 0 ELSE ans[i - 1] + p[i]]
<1>1. Len(p) \in Nat
  BY LenProperties
<1>7. Len(p) \in 0..Len(p)
  BY <1>1
<1>2. PICK f \in [0..Len(p) -> Nat] :
        \A i \in 0..Len(p) : f[i] = IF i = 0 THEN 0 ELSE f[i - 1] + p[i]
  BY <1>7, SumsExist, Zenon
<1>3. f = [i \in 0..Len(p) |-> IF i = 0 THEN 0 ELSE f[i - 1] + p[i]]
  BY <1>2
<1>4. ans = [i \in 0..Len(p) |-> IF i = 0 THEN 0 ELSE ans[i - 1] + p[i]]
  BY <1>3
<1>5. Total(p) = ans[Len(p)]
  BY DEF Total
<1> HIDE DEF ans
<1>6. \A i \in 0..Len(p) : ans[i] = f[i]
  <2> DEFINE Bad == {i \in 0..Len(p) : ans[i] # f[i]}
  <2>1. SUFFICES ASSUME Bad # {} PROVE FALSE
    OBVIOUS
  <2>2. Bad \subseteq Nat
    BY <1>1
  <2>3. PICK m \in Bad : \A y \in Bad : m <= y
    BY <2>1, <2>2, Least
  <2>4. ans[m] = IF m = 0 THEN 0 ELSE ans[m - 1] + p[m]
    BY <1>4
  <2>5. m # 0
    BY <2>4, <1>2
  <2>6. m - 1 \in 0..Len(p) /\ m - 1 \notin Bad
    BY <1>1, <2>3, <2>5
  <2> QED BY <1>2, <2>4, <2>5, <2>6
<1> QED BY <1>2, <1>5, <1>6, <1>7

\* ... none of them is less than one of the parts, ...
LEMMA TotalBound ==
  ASSUME NEW p \in Seq(Nat), NEW j \in 1..Len(p)
  PROVE  Total(p) \in Nat /\ Total(p) >= p[j]
<1>1. Len(p) \in Nat /\ \A i \in 1..Len(p) : p[i] \in Nat
  BY LenProperties, ElementOfSeq
<1>2. PICK f \in [0..Len(p) -> Nat] :
        /\ \A i \in 0..Len(p) : f[i] = IF i = 0 THEN 0 ELSE f[i - 1] + p[i]
        /\ Total(p) = f[Len(p)]
  BY TotalIsSum
<1> DEFINE Bad == {i \in j..Len(p) : ~(f[i] >= p[j])}
<1>3. Bad = {}
  <2>1. SUFFICES ASSUME Bad # {} PROVE FALSE
    OBVIOUS
  <2>2. Bad \subseteq Nat
    BY <1>1
  <2>3. PICK m \in Bad : \A y \in Bad : m <= y
    BY <2>1, <2>2, Least
  <2>8. m \in 1..Len(p) /\ m \in 0..Len(p) /\ m # 0 /\ m - 1 \in 0..Len(p)
    BY <1>1
  <2>4. m \in 1..Len(p) /\ f[m] = f[m - 1] + p[m] /\ f[m - 1] \in Nat
    BY <2>8, <1>2
  <2>5. m # j
    BY <2>4, <1>1
  <2>6. m - 1 \in j..Len(p) /\ m - 1 \notin Bad
    BY <1>1, <2>3, <2>5
  <2>7. f[m - 1] >= p[j]
    BY <2>6
  <2> QED BY <1>1, <2>4, <2>7
<1>4. Len(p) \in j..Len(p) /\ f[Len(p)] \in Nat
  BY <1>1, <1>2
<1> QED BY <1>2, <1>3, <1>4

\* ... and a positive one has a positive part.
LEMMA TotalPositive ==
  ASSUME NEW p \in Seq(Nat), Total(p) > 0
  PROVE  \E j \in 1..Len(p) : p[j] > 0
<1>1. SUFFICES ASSUME \A j \in 1..Len(p) : ~(p[j] > 0) PROVE FALSE
  OBVIOUS
<1>2. Len(p) \in Nat /\ \A i \in 1..Len(p) : p[i] \in Nat
  BY LenProperties, ElementOfSeq
<1>3. PICK f \in [0..Len(p) -> Nat] :
        /\ \A i \in 0..Len(p) : f[i] = IF i = 0 THEN 0 ELSE f[i - 1] + p[i]
        /\ Total(p) = f[Len(p)]
  BY TotalIsSum
<1> DEFINE Bad == {i \in 0..Len(p) : f[i] # 0}
<1>4. Len(p) \in Bad
  BY <1>2, <1>3
<1>5. Bad \subseteq Nat
  BY <1>2
<1>6. PICK m \in Bad : \A y \in Bad : m <= y
  BY <1>4, <1>5, Least
<1>7. m # 0
  BY <1>3
<1>11. m \in 1..Len(p) /\ m \in 0..Len(p) /\ m - 1 \in 0..Len(p)
  BY <1>2, <1>7
<1>8. m \in 1..Len(p) /\ f[m] = f[m - 1] + p[m] /\ f[m - 1] \in Nat
  BY <1>11, <1>3, <1>7
<1>9. m - 1 \in 0..Len(p) /\ m - 1 \notin Bad
  BY <1>2, <1>6, <1>7
<1>10. p[m] = 0
  BY <1>1, <1>2, <1>8
<1> QED BY <1>8, <1>9, <1>10

-----------------------------------------------------------------------------
(* Measurements. *)

\* A measurement; the fields of Activity.
Exceeding == [value : Nat, at : Time]
Buffers == Seq(Time)
Lists == [Intervals -> Seq(Exceeding)]
ReportTimes == Time \cup {ZeroTime}

\* Activity, with its fields as named sets.
LEMMA ActivityForm == Activity = [requests : Buffers, exceed : Lists, lastReport : ReportTimes]
  BY DEF Activity, Buffers, Lists, Exceeding, ReportTimes

\* What is assumed of the constants, one by one.
LEMMA Constants ==
  /\ Intervals \subseteq Nat \ {0} /\ \A iv \in Intervals : Limit[iv] \in Nat \ {0}
  /\ BufferSize \in Nat \ {0} /\ ExceedingsSize \in Nat \ {0}
  /\ Threshold \in Nat \ {0} /\ CounterCap \in Nat \ {0}
  /\ MinReports \in Nat /\ MaxTime \in Nat /\ MaxRequests \in Nat
  /\ MaxStarts \in Nat \ {0} /\ IsFiniteSet(Handlers)
  BY AlarmTickerAssumption

\* A weight is a natural number, the full one for a measurement made now.
LEMMA WeightType ==
  ASSUME NEW iv \in Nat \ {0}, NEW d \in Nat
  PROVE  Weight(iv, d) \in Nat /\ Weight(iv, 0) = Scale
<1>1. 9 * d * d \in Nat
  OBVIOUS
<1>2. iv + 9 * d * d \in Nat \ {0} /\ Scale * iv \in Nat
  BY <1>1 DEF Scale
<1>3. \A x \in Nat, y \in Nat \ {0} : x \div y \in Nat
  OBVIOUS
<1>4. Weight(iv, d) \in Nat
  BY <1>2, <1>3 DEF Weight
<1>5. iv + 9 * 0 * 0 = iv
  OBVIOUS
<1>6. (1000 * iv) \div iv = 1000
  OBVIOUS
<1>7. Weight(iv, 0) = Scale
  BY <1>5, <1>6 DEF Weight, Scale
<1> QED BY <1>4, <1>7

\* The parts of the sum in relativeExceeding.
LEMMA WeightedType ==
  ASSUME now \in Time, NEW iv \in Intervals, NEW list \in Seq(Exceeding),
         \A i \in DOMAIN list : list[i].at <= now
  PROVE  /\ Weighted(list, iv) \in Seq(Nat) /\ Len(Weighted(list, iv)) = Len(list)
         /\ \A i \in 1..Len(list) :
              Weighted(list, iv)[i] = IF now - list[i].at <= iv
                                      THEN list[i].value * Weight(iv, now - list[i].at) ELSE 0
<1> DEFINE w == Weighted(list, iv)
<1>1. Len(list) \in Nat /\ DOMAIN list = 1..Len(list) /\ iv \in Nat \ {0}
  BY LenProperties, Constants
<1>2. \A i \in DOMAIN list : list[i].value \in Nat /\ list[i].at \in Nat /\ list[i].at <= now
  <2> TAKE i \in DOMAIN list
  <2>1. list[i] \in Exceeding
    BY <1>1, ElementOfSeq
  <2>2. list[i].value \in Nat /\ list[i].at \in Time
    BY <2>1 DEF Exceeding
  <2> QED BY <2>2, Constants DEF Time
<1>3. now \in Nat
  BY Constants DEF Time
<1>4. \A i \in DOMAIN list : now - list[i].at \in Nat
  BY <1>2, <1>3
<1>5. \A i \in DOMAIN list : Weight(iv, now - list[i].at) \in Nat
  BY <1>1, <1>4, WeightType
<1>6. \A i \in DOMAIN list : list[i].value * Weight(iv, now - list[i].at) \in Nat
  BY <1>2, <1>5
<1>7. w \in [1..Len(list) -> Nat]
  BY <1>1, <1>6 DEF Weighted
<1>8. w \in Seq(Nat) /\ Len(w) = Len(list)
  BY <1>1, <1>7
<1>9. \A i \in 1..Len(list) : w[i] = IF now - list[i].at <= iv
                      THEN list[i].value * Weight(iv, now - list[i].at) ELSE 0
  BY <1>1 DEF Weighted
<1> QED BY <1>8, <1>9

\* A count of requests is a natural number.
LEMMA NumReqType ==
  ASSUME NEW a, a.requests \in Seq(Time), NEW iv
  PROVE  NumReqSince(a, iv) \in Nat
<1>1. Len(a.requests) \in Nat /\ DOMAIN a.requests = 1..Len(a.requests)
  BY LenProperties
<1>2. IsFiniteSet(DOMAIN a.requests)
  BY <1>1, FS_Interval
<1>3. IsFiniteSet({i \in DOMAIN a.requests : a.requests[i] > now - iv})
  BY <1>2, FS_Subset
<1> QED BY <1>3, FS_CardinalityType DEF NumReqSince

\* A measurement adds at most one item, to the list of its interval.
LEMMA Measured ==
  ASSUME now \in Time, NEW a, IsActivity(a), NEW iv \in Intervals, NEW n \in Nat
  PROVE  LET new == registerMeasurement(a, iv, n)
             item == [value |-> n - Limit[iv], at |-> now]
         IN  /\ IsActivity(new) /\ new.requests = a.requests
             /\ new.lastReport = a.lastReport
             /\ \A jv \in Intervals : \A i \in DOMAIN new.exceed[jv] :
                  \/ \E j \in DOMAIN a.exceed[jv] : new.exceed[jv][i] = a.exceed[jv][j]
                  \/ jv = iv /\ n >= Limit[iv] /\ new.exceed[jv][i] = item
             /\ n >= Limit[iv] => \E i \in DOMAIN new.exceed[iv] : new.exceed[iv][i] = item
<1> DEFINE new == registerMeasurement(a, iv, n)
           item == [value |-> n - Limit[iv], at |-> now]
           longer == AppendCircular(a.exceed[iv], item, ExceedingsSize)
<1>1. CASE n < Limit[iv]
  <2>1. new = a
    BY <1>1 DEF registerMeasurement
  <2>2. ~(n >= Limit[iv])
    BY <1>1, Constants
  <2> QED BY <2>1, <2>2
<1>2. CASE ~(n < Limit[iv])
  <2>1. n >= Limit[iv] /\ n - Limit[iv] \in Nat
    BY <1>2, Constants
  <2>2. item \in Exceeding
    BY <2>1 DEF Exceeding
  <2>3. a \in Activity /\ Len(a.requests) \in 1..BufferSize
        /\ \A jv \in Intervals : Len(a.exceed[jv]) <= ExceedingsSize
    BY DEF IsActivity
  <2>4. a.requests \in Buffers /\ a.exceed \in Lists /\ a.lastReport \in ReportTimes
    BY <2>3, ActivityForm
  <2>5. a.exceed[iv] \in Seq(Exceeding) /\ Len(a.exceed[iv]) <= ExceedingsSize
    BY <2>3, <2>4 DEF Lists
  <2> HIDE DEF item
  <2>6. /\ longer \in Seq(Exceeding) /\ Len(longer) \in 1..ExceedingsSize
        /\ \A i \in DOMAIN longer : longer[i] = item \/ \E j \in DOMAIN a.exceed[iv] : longer[i] = a.exceed[iv][j]
        /\ \E i \in DOMAIN longer : longer[i] = item
    BY <2>2, <2>5, CircularType, Constants
  <2> HIDE DEF longer
  <2>7. new = [a EXCEPT !.exceed = [a.exceed EXCEPT ![iv] = longer]]
    BY <1>2 DEF registerMeasurement, longer, item
  <2> HIDE DEF new
  <2> DEFINE lists == [a.exceed EXCEPT ![iv] = longer]
  <2>8. /\ lists \in Lists /\ lists[iv] = longer
        /\ \A jv \in Intervals : jv # iv => lists[jv] = a.exceed[jv]
    BY <2>4, <2>6 DEF Lists
  <2>9. new = [a EXCEPT !.exceed = lists]
    BY <2>7
  <2> HIDE DEF lists
  <2>10. /\ new \in Activity /\ new.requests = a.requests
         /\ new.lastReport = a.lastReport /\ new.exceed = lists
    BY <2>3, <2>8, <2>9, ActivityForm
  <2>11. \A jv \in Intervals : Len(lists[jv]) <= ExceedingsSize
    <3> TAKE jv \in Intervals
    <3>1. CASE jv = iv
      BY <3>1, <2>6, <2>8, Constants
    <3>2. CASE jv # iv
      BY <3>2, <2>3, <2>8
    <3> QED BY <3>1, <3>2
  <2>12. IsActivity(new)
    BY <2>3, <2>10, <2>11 DEF IsActivity
  <2>13. \A jv \in Intervals : \A i \in DOMAIN lists[jv] :
                  \/ \E j \in DOMAIN a.exceed[jv] : lists[jv][i] = a.exceed[jv][j]
                  \/ jv = iv /\ n >= Limit[iv] /\ lists[jv][i] = item
    <3> TAKE jv \in Intervals
    <3>1. CASE jv = iv
      BY <3>1, <2>1, <2>6, <2>8
    <3>2. CASE jv # iv
      BY <3>2, <2>8
    <3> QED BY <3>1, <3>2
  <2>14. \E i \in DOMAIN lists[iv] : lists[iv][i] = item
    BY <2>6, <2>8
  <2> QED BY <2>10, <2>12, <2>13, <2>14 DEF new, item
<1> QED BY <1>1, <1>2

\* The report checkServiceUsage appends.
NewReport(c, iv, n) == [c |-> c, iv |-> iv, at |-> now, numReq |-> n]

\* What Run does with one limit: the lists are those after the measurement,
\* and a report moves lastReport.
LEMMA Checked ==
  ASSUME now \in Time, NEW a, IsActivity(a), NEW iv \in Intervals
  PROVE  LET new == checkServiceUsage(a, iv)
             measured == registerMeasurement(a, iv, NumReqSince(a, iv))
         IN  /\ IsActivity(new.activity) /\ new.activity.requests = a.requests
             /\ new.activity.exceed = measured.exceed
             /\ new.activity.lastReport = IF new.isReport THEN now ELSE a.lastReport
             /\ new.numReq \in Nat /\ new.numReq = NumReqSince(a, iv)
             /\ new.isReport <=> /\ exceedsThreshold(measured, iv)
                                 /\ a.lastReport < now - MinReports
<1> DEFINE n == NumReqSince(a, iv)
           measured == registerMeasurement(a, iv, n)
           new == checkServiceUsage(a, iv)
           isReport == exceedsThreshold(measured, iv) /\ measured.lastReport < now - MinReports
<1>1. a.requests \in Seq(Time)
  BY ActivityForm DEF IsActivity, Buffers
<1>2. n \in Nat
  BY <1>1, NumReqType
<1> HIDE DEF n
<1>3. IsActivity(measured) /\ measured.requests = a.requests /\ measured.lastReport = a.lastReport
  BY <1>2, Measured
<1>4. /\ new.activity = IF isReport THEN [measured EXCEPT !.lastReport = now] ELSE measured
      /\ (new.isReport <=> isReport) /\ new.numReq = n
  BY DEF checkServiceUsage, n
<1> HIDE DEF measured, new
<1>5. measured \in Activity /\ now \in ReportTimes
  BY <1>3 DEF IsActivity, ReportTimes
<1> DEFINE told == [measured EXCEPT !.lastReport = now]
<1>6. /\ told \in Activity /\ told.requests = measured.requests
      /\ told.exceed = measured.exceed /\ told.lastReport = now
  BY <1>5, ActivityForm
<1>7. IsActivity(told)
  BY <1>3, <1>6 DEF IsActivity
<1> HIDE DEF told
<1>8. /\ IsActivity(new.activity) /\ new.activity.requests = a.requests
      /\ new.activity.exceed = measured.exceed
      /\ new.activity.lastReport = IF new.isReport THEN now ELSE a.lastReport
  <2>1. CASE isReport
    BY <2>1, <1>3, <1>4, <1>6, <1>7 DEF told
  <2>2. CASE ~isReport
    BY <2>2, <1>3, <1>4
  <2> QED BY <2>1, <2>2
<1> QED BY <1>2, <1>3, <1>4, <1>8 DEF measured, new, n

\* A burst reaches the threshold as soon as it is measured.
LEMMA BurstExceeds ==
  ASSUME now \in Time, NEW a, IsActivity(a), Past(a, now), NEW iv \in Intervals,
         NEW k \in DOMAIN a.exceed[iv], a.exceed[iv][k].at = now,
         IsBurst(a.exceed[iv][k], iv)
  PROVE  exceedsThreshold(a, iv)
<1> DEFINE list == a.exceed[iv]
           w == Weighted(list, iv)
<1>1. list \in Seq(Exceeding) /\ Len(list) <= ExceedingsSize
  BY ActivityForm DEF IsActivity, Lists
<1>2. Len(list) \in Nat /\ DOMAIN list = 1..Len(list)
  BY <1>1, LenProperties
<1>3. \A i \in DOMAIN list : list[i].at <= now
  BY DEF Past
<1>4. /\ w \in Seq(Nat) /\ Len(w) = Len(list)
      /\ \A i \in 1..Len(list) : w[i] = IF now - list[i].at <= iv
                                     THEN list[i].value * Weight(iv, now - list[i].at) ELSE 0
  BY <1>1, <1>3, WeightedType
<1>5. k \in 1..Len(list) /\ list[k] \in Exceeding
  BY <1>1, <1>2, ElementOfSeq
<1>6. list[k].value \in Nat
  BY <1>5 DEF Exceeding
<1> HIDE DEF w
<1>7. now - list[k].at = 0 /\ iv \in Nat \ {0}
  BY Constants DEF Time
<1>8. w[k] = list[k].value * Scale
  <2>1. Weight(iv, 0) = Scale
    BY <1>7, WeightType
  <2>2. w[k] = IF now - list[k].at <= iv
               THEN list[k].value * Weight(iv, now - list[k].at) ELSE 0
    BY <1>4, <1>5
  <2>3. w[k] = IF 0 <= iv THEN list[k].value * Weight(iv, 0) ELSE 0
    BY <2>2, <1>7
  <2> QED BY <2>1, <2>3, <1>7
<1>9. Total(w) \in Nat /\ Total(w) >= w[k]
  BY <1>4, <1>5, TotalBound
<1>10. WeightedExceeding(a, iv) = Total(w)
  BY DEF WeightedExceeding, w
<1> DEFINE v == list[k].value
           tl == Threshold * Limit[iv]
<1>11. Scale * v >= Threshold * ExceedingsSize * Limit[iv]
  BY DEF IsBurst
<1> HIDE DEF list
<1>12. Total(w) >= Threshold * ExceedingsSize * Limit[iv]
  BY <1>6, <1>8, <1>9, <1>11, Constants DEF Scale
<1>13. Threshold * ExceedingsSize * Limit[iv] >= Threshold * Len(list) * Limit[iv]
  <2>1. ASSUME NEW x \in Nat, NEW y \in Nat, x <= y, NEW p \in Nat, NEW q \in Nat
        PROVE  p * y * q >= p * x * q
    <3>1. p * x <= p * y /\ p * x \in Nat /\ p * y \in Nat
      BY <2>1
    <3>2. ASSUME NEW u \in Nat, NEW z \in Nat, u <= z PROVE u * q <= z * q
      BY <3>2
    <3>3. (p * x) * q <= (p * y) * q
      BY <3>1, <3>2
    <3> QED BY <3>3
  <2> QED BY <2>1, <1>1, <1>2, Constants
<1>14. Total(w) >= Threshold * Len(list) * Limit[iv]
  <2>1. /\ Threshold * ExceedingsSize * Limit[iv] \in Nat
        /\ Threshold * Len(list) * Limit[iv] \in Nat
    BY <1>2, Constants
  <2> QED BY <2>1, <1>9, <1>12, <1>13
<1>15. list # <<>>
  BY <1>2, <1>5
<1> QED BY <1>10, <1>14, <1>15 DEF exceedsThreshold, list

\* An activity above the threshold has a positive measurement of the last
\* interval.
LEMMA ExceedsBecause ==
  ASSUME now \in Time, NEW a, IsActivity(a), Past(a, now), NEW iv \in Intervals,
         exceedsThreshold(a, iv)
  PROVE  \E k \in DOMAIN a.exceed[iv] :
           /\ a.exceed[iv][k].value > 0
           /\ a.exceed[iv][k].at \in (now - iv)..now
<1> DEFINE list == a.exceed[iv]
           w == Weighted(list, iv)
<1>1. list \in Seq(Exceeding) /\ Len(list) <= ExceedingsSize
  BY ActivityForm DEF IsActivity, Lists
<1>2. Len(list) \in Nat /\ DOMAIN list = 1..Len(list)
  BY <1>1, LenProperties
<1>3. \A i \in DOMAIN list : list[i].at <= now
  BY DEF Past
<1>4. /\ w \in Seq(Nat) /\ Len(w) = Len(list)
      /\ \A i \in 1..Len(list) : w[i] = IF now - list[i].at <= iv
                                     THEN list[i].value * Weight(iv, now - list[i].at) ELSE 0
  BY <1>1, <1>3, WeightedType
<1>5. list # <<>> /\ Total(w) >= Threshold * Len(list) * Limit[iv]
  BY DEF exceedsThreshold, WeightedExceeding
<1> HIDE DEF w
<1>6. Len(list) \in Nat \ {0}
  BY <1>1, <1>5, EmptySeq
<1> HIDE DEF list
<1>7. Threshold * Len(list) * Limit[iv] \in Nat \ {0}
  <2>1. ASSUME NEW x \in Nat \ {0}, NEW y \in Nat \ {0} PROVE x * y \in Nat \ {0}
    BY <2>1
  <2>2. Threshold * Len(list) \in Nat \ {0}
    BY <2>1, <1>6, Constants
  <2> QED BY <2>1, <2>2, Constants
<1>8. 1 \in 1..Len(w)
  BY <1>4, <1>6
<1>9. Total(w) \in Nat
  BY <1>4, <1>8, TotalBound
<1>10. Total(w) > 0
  BY <1>5, <1>7, <1>9
<1>11. PICK k \in 1..Len(w) : w[k] > 0
  BY <1>4, <1>10, TotalPositive
<1>12. k \in DOMAIN list /\ list[k] \in Exceeding /\ list[k].at <= now
  BY <1>1, <1>2, <1>3, <1>4, ElementOfSeq DEF list
<1>13. list[k].value \in Nat /\ list[k].at \in Time
  BY <1>12 DEF Exceeding
<1>14. list[k].at \in Nat /\ now \in Nat /\ iv \in Nat /\ now - list[k].at \in Nat
  BY <1>12, <1>13, Constants DEF Time
<1>15. w[k] = IF now - list[k].at <= iv THEN list[k].value * Weight(iv, now - list[k].at) ELSE 0
  BY <1>2, <1>4, <1>12
<1>16. now - list[k].at <= iv /\ list[k].value * Weight(iv, now - list[k].at) > 0
  BY <1>11, <1>15
<1>17. Weight(iv, now - list[k].at) \in Nat
  BY <1>14, WeightType, Constants
<1>18. list[k].value > 0
  <2>1. ASSUME NEW x \in Nat, NEW y \in Nat, x * y > 0 PROVE x > 0
    BY <2>1
  <2> QED BY <2>1, <1>13, <1>16, <1>17
<1>19. list[k].at \in (now - iv)..now
  BY <1>12, <1>14, <1>16
<1> QED BY <1>12, <1>18, <1>19 DEF list

\* A turn of checkServiceUsage adds no measurement of the future, ...
LEMMA CheckedPast ==
  ASSUME now \in Time, NEW a, IsActivity(a), Past(a, now), NEW iv \in Intervals
  PROVE  /\ Past(registerMeasurement(a, iv, NumReqSince(a, iv)), now)
         /\ Past(checkServiceUsage(a, iv).activity, now)
<1> DEFINE n == NumReqSince(a, iv)
           measured == registerMeasurement(a, iv, n)
           item == [value |-> n - Limit[iv], at |-> now]
           new == checkServiceUsage(a, iv).activity
<1>1. a.requests \in Seq(Time)
  BY ActivityForm DEF IsActivity, Buffers
<1>2. n \in Nat
  BY <1>1, NumReqType
<1>3. new.exceed = measured.exceed
  BY Checked
<1> HIDE DEF n, new
<1>4. \A jv \in Intervals : \A i \in DOMAIN measured.exceed[jv] :
        \/ \E j \in DOMAIN a.exceed[jv] : measured.exceed[jv][i] = a.exceed[jv][j]
        \/ jv = iv /\ n >= Limit[iv] /\ measured.exceed[jv][i] = item
  BY <1>2, Measured
<1>5. item.at = now /\ now <= now
  BY Constants DEF Time
<1> HIDE DEF measured, item
<1>6. Past(measured, now)
  BY <1>4, <1>5 DEF Past
<1>7. Past(new, now)
  BY <1>3, <1>6 DEF Past
<1> QED BY <1>6, <1>7 DEF measured, new, n

\* ... reports the burst it measures, if none was reported lately, ...
LEMMA CheckedTold ==
  ASSUME now \in Time, NEW a, IsActivity(a), Past(a, now), Told(a), NEW iv \in Intervals
  PROVE  Told(checkServiceUsage(a, iv).activity)
<1> DEFINE n == NumReqSince(a, iv)
           measured == registerMeasurement(a, iv, n)
           item == [value |-> n - Limit[iv], at |-> now]
           new == checkServiceUsage(a, iv)
<1>1. a.requests \in Seq(Time) /\ a.lastReport \in ReportTimes /\ a.exceed \in Lists
  BY ActivityForm DEF IsActivity, Buffers
<1>2. n \in Nat
  BY <1>1, NumReqType
<1>3. /\ new.activity.exceed = measured.exceed
      /\ new.activity.lastReport = IF new.isReport THEN now ELSE a.lastReport
      /\ new.isReport <=> exceedsThreshold(measured, iv) /\ a.lastReport < now - MinReports
  BY Checked
<1>4. Past(measured, now)
  BY CheckedPast
<1> HIDE DEF n, new
<1>5. /\ IsActivity(measured)
      /\ \A jv \in Intervals : \A i \in DOMAIN measured.exceed[jv] :
           \/ \E j \in DOMAIN a.exceed[jv] : measured.exceed[jv][i] = a.exceed[jv][j]
           \/ jv = iv /\ n >= Limit[iv] /\ measured.exceed[jv][i] = item
  BY <1>2, Measured
<1>6. item.at = now
  OBVIOUS
<1>7. now \in Int /\ MinReports \in Nat /\ a.lastReport \in Int
  BY <1>1, Constants DEF Time, ReportTimes, ZeroTime
<1> HIDE DEF measured, item
<1>8. SUFFICES ASSUME NEW jv \in Intervals, NEW i \in DOMAIN measured.exceed[jv],
                      IsBurst(measured.exceed[jv][i], jv)
               PROVE  new.activity.lastReport >= measured.exceed[jv][i].at - MinReports
  BY <1>3 DEF Told, new
<1>9. ASSUME NEW j \in DOMAIN a.exceed[jv], measured.exceed[jv][i] = a.exceed[jv][j]
      PROVE  new.activity.lastReport >= measured.exceed[jv][i].at - MinReports
  <2>1. a.exceed[jv][j].at <= now /\ a.lastReport >= a.exceed[jv][j].at - MinReports
    BY <1>8, <1>9 DEF Past, Told
  <2>2. a.exceed[jv] \in Seq(Exceeding)
    BY <1>1 DEF Lists
  <2>3. a.exceed[jv][j] \in Exceeding
    BY <2>2, LenProperties, ElementOfSeq
  <2>4. a.exceed[jv][j].at \in Int
    BY <2>3, Constants DEF Exceeding, Time
  <2> QED BY <1>3, <1>7, <1>9, <2>1, <2>4
<1>10. ASSUME jv = iv, measured.exceed[jv][i] = item
       PROVE  new.activity.lastReport >= measured.exceed[jv][i].at - MinReports
  <2>1. measured.exceed[iv][i].at = now
    BY <1>6, <1>10
  <2>2. exceedsThreshold(measured, iv)
    BY <2>1, <1>4, <1>5, <1>8, <1>10, BurstExceeds
  <2> QED BY <1>3, <1>7, <1>10, <2>1, <2>2
<1> QED BY <1>5, <1>9, <1>10

\* ... measures no more than what was made, ...
LEMMA CheckedRight ==
  ASSUME now \in Time, NEW a, IsActivity(a), NEW c, Right(made, a, c), NEW iv \in Intervals,
         MadeBy(made, c, iv, now) \in Nat, MadeBy(made, c, iv, now) >= NumReqSince(a, iv)
  PROVE  /\ Right(made, registerMeasurement(a, iv, NumReqSince(a, iv)), c)
         /\ Right(made, checkServiceUsage(a, iv).activity, c)
<1> DEFINE n == NumReqSince(a, iv)
           measured == registerMeasurement(a, iv, n)
           item == [value |-> n - Limit[iv], at |-> now]
           new == checkServiceUsage(a, iv).activity
<1>1. a.requests \in Seq(Time)
  BY ActivityForm DEF IsActivity, Buffers
<1>2. n \in Nat
  BY <1>1, NumReqType
<1>3. new.exceed = measured.exceed
  BY Checked
<1> HIDE DEF n, new
<1>4. \A jv \in Intervals : \A i \in DOMAIN measured.exceed[jv] :
        \/ \E j \in DOMAIN a.exceed[jv] : measured.exceed[jv][i] = a.exceed[jv][j]
        \/ jv = iv /\ n >= Limit[iv] /\ measured.exceed[jv][i] = item
  BY <1>2, Measured
<1>5. item.at = now /\ item.value = n - Limit[iv]
  OBVIOUS
<1>6. MadeBy(made, c, iv, item.at) >= Limit[iv] + item.value
  <2>1. Limit[iv] + item.value = n
    BY <1>2, <1>5, Constants
  <2> QED BY <2>1, <1>5 DEF n
<1> HIDE DEF measured, item
<1>7. Right(made, measured, c)
  <2> SUFFICES ASSUME NEW jv \in Intervals, NEW i \in DOMAIN measured.exceed[jv]
               PROVE  MadeBy(made, c, jv, measured.exceed[jv][i].at)
                        >= Limit[jv] + measured.exceed[jv][i].value
    BY DEF Right
  <2>1. ASSUME NEW j \in DOMAIN a.exceed[jv], measured.exceed[jv][i] = a.exceed[jv][j]
        PROVE  MadeBy(made, c, jv, measured.exceed[jv][i].at)
                 >= Limit[jv] + measured.exceed[jv][i].value
    BY <2>1 DEF Right
  <2>2. ASSUME jv = iv, measured.exceed[jv][i] = item
        PROVE  MadeBy(made, c, jv, measured.exceed[jv][i].at)
                 >= Limit[jv] + measured.exceed[jv][i].value
    BY <2>2, <1>6
  <2> QED BY <1>4, <2>1, <2>2
<1>8. Right(made, new, c)
  BY <1>3, <1>7 DEF Right
<1> QED BY <1>7, <1>8 DEF measured, new, n

\* ... and reports only on what is above the limit.
LEMMA CheckedReport ==
  ASSUME now \in Time, NEW a, IsActivity(a), NEW c, Past(a, now), Right(made, a, c),
         NEW iv \in Intervals,
         MadeBy(made, c, iv, now) \in Nat, MadeBy(made, c, iv, now) >= NumReqSince(a, iv),
         \A m \in Time : MadeBy(made, c, iv, m) \in Nat,
         checkServiceUsage(a, iv).isReport
  PROVE  Justified(made, NewReport(c, iv, checkServiceUsage(a, iv).numReq))
<1> DEFINE n == NumReqSince(a, iv)
           measured == registerMeasurement(a, iv, n)
           r == NewReport(c, iv, checkServiceUsage(a, iv).numReq)
<1>1. a.requests \in Seq(Time)
  BY ActivityForm DEF IsActivity, Buffers
<1>2. n \in Nat
  BY <1>1, NumReqType
<1>3. exceedsThreshold(measured, iv)
  BY Checked
<1>4. Past(measured, now) /\ Right(made, measured, c)
  BY CheckedPast, CheckedRight
<1> HIDE DEF n
<1>5. IsActivity(measured)
  BY <1>2, Measured
<1> HIDE DEF measured
<1>6. PICK k \in DOMAIN measured.exceed[iv] :
        /\ measured.exceed[iv][k].value > 0
        /\ measured.exceed[iv][k].at \in (now - iv)..now
  BY <1>3, <1>4, <1>5, ExceedsBecause
<1> DEFINE e == measured.exceed[iv][k]
<1>7. e \in Exceeding
  <2>1. measured.exceed \in Lists
    BY <1>5, ActivityForm DEF IsActivity
  <2>2. measured.exceed[iv] \in Seq(Exceeding)
    BY <2>1 DEF Lists
  <2> QED BY <2>2, LenProperties, ElementOfSeq
<1>8. e.value \in Nat /\ e.at \in Time
  BY <1>7 DEF Exceeding
<1>9. MadeBy(made, c, iv, e.at) >= Limit[iv] + e.value
  BY <1>4 DEF Right
<1>10. e.value > 0 /\ e.at \in (now - iv)..now
  BY <1>6
<1> HIDE DEF e
<1>11. MadeBy(made, c, iv, e.at) > Limit[iv]
  <2>1. MadeBy(made, c, iv, e.at) \in Nat
    BY <1>8
  <2> QED BY <2>1, <1>8, <1>9, <1>10, Constants
<1>12. r.at = now /\ r.iv = iv /\ r.c = c
  BY DEF NewReport
<1> HIDE DEF r
<1>13. Justified(made, r)
  BY <1>10, <1>11, <1>12 DEF Justified
<1> QED BY <1>13 DEF r

\* A removal goroutine begins, or looks at a client.
CleanerGoesOn ==
  \E k \in Cleaners : CleanerBegins(k) \/ \E c \in Clients : CleanerLooks(k, c)

\* One step for each operation of the process.
LEMMA StepCases ==
  ASSUME Next
  PROVE  \/ LoadState \/ LoadStateFails \/ Register \/ Listen
         \/ RunStart \/ Reload \/ RunIgnores \/ RunReceive \/ RunDone \/ RunReturns
         \/ (\E iv \in Intervals : RunCheck(iv))
         \/ (\E h \in Handlers : Post(h))
         \/ (\E h \in Handlers, c \in Clients : Arrive(h, c))
         \/ (\E k \in Cleaners : CleanerDeletes(k))
         \/ CleanerGoesOn
         \/ CleanAssign
         \/ (\E maxAge \in 0..MaxTime, all \in BOOLEAN : CleanSelect(maxAge, all))
         \/ Signal \/ SaveCreate \/ SaveHeader \/ SaveValue \/ SaveFails
         \/ End("down") \/ Restart \/ Tick
  BY Zenon DEF Next, Start, Run, Save, Exit, ExitTimeout, Killed, CleanerGoesOn

\* The strengthened types imply the checked ones.
LEMMA TypeInvIsType == TypeInv => TypeOK
<1>1. cur \in Current /\ cur # None => cur.todo \subseteq Intervals
  BY DEF Current
<1>2. handler \in [Handlers -> Request \cup {None}] =>
        \A h \in Handlers : handler[h] \in {None} \cup [c : Clients, created : Time]
  BY DEF Request
<1>3. Seq(Request) = Seq([c : Clients, created : Time])
  BY DEF Request
<1> QED
  BY <1>1, <1>2, <1>3, Zenon DEF TypeInv, TypeOK, LifeType, RunType, EnvType, HttpType,
     ReportsType, QuietType

\* The activity of a new client.
LEMMA EmptyActivity ==
  /\ NewActivity \in Activity /\ NewActivity.requests = <<>>
  /\ \A iv \in Intervals : NewActivity.exceed[iv] = <<>>
<1>1. [iv \in Intervals |-> <<>>] \in Lists
  BY DEF Lists
<1>2. <<>> \in Buffers /\ ZeroTime \in ReportTimes
  BY DEF Buffers, ReportTimes
<1>3. NewActivity \in Activity
  BY <1>1, <1>2, ActivityForm DEF NewActivity
<1> QED BY <1>3 DEF NewActivity

\* RunReceive: the activity Run appends a request to, and the one after it.
OldActivity(c) == IF c \in DOMAIN act THEN act[c] ELSE NewActivity
Received(c, t) == [OldActivity(c) EXCEPT !.requests = AppendCircular(@, t, BufferSize)]

\* A received request changes only the buffer of requests.
LEMMA ReceivedType ==
  ASSUME IsActivities(act), NEW c \in Clients, NEW t \in Time
  PROVE  LET old == OldActivity(c)
             new == Received(c, t)
         IN  /\ IsActivity(new) /\ old.requests \in Seq(Time)
             /\ new.requests = AppendCircular(old.requests, t, BufferSize)
             /\ new.exceed = old.exceed /\ new.lastReport = old.lastReport
<1> DEFINE old == OldActivity(c)
           new == Received(c, t)
           longer == AppendCircular(old.requests, t, BufferSize)
<1>1. /\ old \in Activity /\ Len(old.requests) <= BufferSize
      /\ \A iv \in Intervals : Len(old.exceed[iv]) <= ExceedingsSize
  <2>1. CASE c \in DOMAIN act
    BY <2>1, Constants DEF OldActivity, IsActivities, IsActivity
  <2>2. CASE c \notin DOMAIN act
    BY <2>2, EmptyActivity, Constants DEF OldActivity
  <2> QED BY <2>1, <2>2
<1>2. old.requests \in Seq(Time)
  BY <1>1, ActivityForm DEF Buffers
<1> HIDE DEF old
<1>3. longer \in Seq(Time) /\ Len(longer) \in 1..BufferSize
  BY <1>1, <1>2, CircularType, Constants
<1>4. new = [old EXCEPT !.requests = longer]
  BY DEF Received, old
<1> HIDE DEF new, longer
<1>5. longer \in Buffers
  BY <1>3 DEF Buffers
<1>6. /\ new \in Activity /\ new.requests = longer
      /\ new.exceed = old.exceed /\ new.lastReport = old.lastReport
  BY <1>1, <1>4, <1>5, ActivityForm
<1>7. IsActivity(new)
  BY <1>1, <1>3, <1>6 DEF IsActivity
<1> QED BY <1>2, <1>6, <1>7 DEF new, longer, old

-----------------------------------------------------------------------------
(* Types. *)

\* The first start.
LEMMA TypeInit == Init => TypeInv
<1> SUFFICES ASSUME Init PROVE TypeInv
  OBVIOUS
<1>1. LifeType
  BY Constants DEF Init, LifeType, Phases
<1>2. RunType
  BY DEF Init, RunType, IsActivities
<1>3. EnvType
  <2>1. now \in Time
    BY Constants DEF Init, Time
  <2> QED BY <2>1 DEF Init, EnvType
<1>4. HttpType
  <2>1. <<>> \in Seq(Request) /\ Len(<<>>) = 0
    BY EmptySeq
  <2> QED BY <2>1, Constants DEF Init, HttpType
<1>5. ReportsType /\ QuietType
  BY DEF Init, ReportsType, QuietType, Quiet
<1> QED BY <1>1, <1>2, <1>3, <1>4, <1>5 DEF TypeInv

\* The end of the process.
LEMMA EndType ==
  ASSUME TypeInv, NEW p \in {"down", "fatal"}, End(p)
  PROVE  TypeInv'
<1>1. LifeType'
  BY DEF TypeInv, End, LifeType, Phases
<1>2. RunType'
  BY DEF TypeInv, End, RunType, IsActivities
<1>3. EnvType'
  BY DEF TypeInv, End, EnvType
<1>4. HttpType'
  <2>1. <<>> \in Seq(Request) /\ Len(<<>>) = 0
    BY EmptySeq
  <2> QED BY <2>1, Constants DEF End, HttpType
<1>5. ReportsType' /\ QuietType'
  BY DEF End, ReportsType, QuietType, Quiet
<1> QED BY <1>1, <1>2, <1>3, <1>4, <1>5 DEF TypeInv

\* The steps of a start.
LEMMA TypeStart ==
  ASSUME TypeInv, LoadState \/ Register \/ Listen \/ Restart
  PROVE  TypeInv'
<1> USE DEF TypeInv
<1>1. LifeType'
  BY Constants DEF LifeType, Phases, LoadState, Register, Listen, Restart, Alive
<1>2. RunType'
  <2>1. IsActivities(<<>>)
    BY DEF IsActivities
  <2>2. cur = None
    BY DEF QuietType, Quiet, LifeType, Phases, LoadState, Register, Listen, Restart, Alive
  <2> QED
    BY <2>1, <2>2 DEF LifeType, RunType, LoadState, Register, Listen, Restart
<1>3. EnvType'
  BY DEF EnvType, LoadState, Register, Listen, Restart
<1>4. HttpType'
  BY DEF HttpType, LoadState, Register, Listen, Restart
<1>5. ReportsType'
  BY DEF ReportsType, LifeType, LoadState, Register, Listen, Restart
<1>6. QuietType'
  BY DEF QuietType, Quiet, LifeType, Phases, LoadState, Register, Listen, Restart, Alive
<1> QED BY <1>1, <1>2, <1>3, <1>4, <1>5, <1>6

\* The signal and the steps of SaveState.
LEMMA TypeExit ==
  ASSUME TypeInv, Signal \/ SaveCreate \/ SaveHeader \/ SaveValue \/ SaveFails
  PROVE  TypeInv'
<1> USE DEF TypeInv
<1>1. LifeType'
  BY DEF LifeType, RunType, ReportsType, Phases, Signal, SaveCreate, SaveHeader, SaveValue, SaveFails, SaveStep
<1>2. RunType'
  BY DEF RunType, Signal, SaveCreate, SaveHeader, SaveValue, SaveFails, SaveStep
<1>3. EnvType' /\ HttpType' /\ ReportsType'
  BY DEF EnvType, HttpType, ReportsType, Signal, SaveCreate, SaveHeader, SaveValue, SaveFails, SaveStep
<1>4. QuietType'
  BY DEF QuietType, Quiet, Signal, SaveCreate, SaveHeader, SaveValue, SaveFails, SaveStep
<1> QED BY <1>1, <1>2, <1>3, <1>4

\* The deferred call of a handler.
LEMMA PostType ==
  ASSUME TypeInv, NEW h \in Handlers, Post(h)
  PROVE  TypeInv'
<1> USE DEF TypeInv
<1>1. LifeType' /\ RunType' /\ EnvType' /\ ReportsType'
  BY DEF LifeType, RunType, EnvType, ReportsType, Post
<1>2. handler[h] \in Request
  BY DEF Post, HttpType
<1>3. Append(counter, handler[h]) \in Seq(Request) /\ Len(Append(counter, handler[h])) = Len(counter) + 1
  BY <1>2, AppendProperties DEF HttpType
<1>4. Len(counter) \in Nat /\ Len(counter) < CounterCap
  BY LenProperties DEF HttpType, Post
<1>5. HttpType'
  BY <1>3, <1>4, Constants DEF HttpType, Post
<1>6. QuietType'
  BY DEF QuietType, Quiet, Post
<1> QED BY <1>1, <1>5, <1>6

\* A new request.
LEMMA ArriveType ==
  ASSUME TypeInv, NEW h \in Handlers, NEW c \in Clients, Arrive(h, c)
  PROVE  TypeInv'
<1> USE DEF TypeInv
<1>1. LifeType' /\ RunType' /\ EnvType' /\ ReportsType'
  BY DEF LifeType, RunType, EnvType, ReportsType, Arrive
<1>2. [c |-> c, created |-> now] \in Request
  BY DEF Request, EnvType
<1>3. HttpType'
  BY <1>2 DEF HttpType, Arrive
<1>4. QuietType'
  BY DEF QuietType, Quiet, Arrive
<1> QED BY <1>1, <1>3, <1>4

\* The fields of Current.
Todos == SUBSET Intervals
Entries == Activity \cup {None}

\* Current, with its fields as named sets.
LEMMA CurrentForm == Current = [c : Clients, todo : Todos, removed : Entries]
  BY DEF Current, Todos, Entries

\* Run works on an activity, be it removed or not.
LEMMA CurrentType ==
  ASSUME TypeInv, run = "busy"
  PROVE  /\ cur \in Current /\ cur # None /\ cur.c \in Clients /\ cur.todo \subseteq Intervals
         /\ IsActivity(CurActivity) /\ ~Quiet
<1>1. cur \in Current /\ cur # None /\ ~Quiet
  BY DEF TypeInv, RunType, QuietType
<1>2. cur.c \in Clients /\ cur.todo \subseteq Intervals
  BY <1>1 DEF Current
<1>3. IsActivity(CurActivity)
  BY <1>1 DEF TypeInv, RunType, CurActivity, IsActivities
<1> QED BY <1>1, <1>2, <1>3

\* One turn of checkServiceUsage.
LEMMA CheckType ==
  ASSUME TypeInv, NEW iv \in Intervals, RunCheck(iv)
  PROVE  TypeInv'
<1> DEFINE new == checkServiceUsage(CurActivity, iv)
<1>1. run = "busy" /\ UNCHANGED <<lifeVars, run, known, allow, now, httpVars, cleaner, clean>>
  BY DEF RunCheck
<1>2. /\ cur \in Current /\ cur # None /\ cur.c \in Clients /\ cur.todo \subseteq Intervals
      /\ IsActivity(CurActivity) /\ ~Quiet
  BY <1>1, CurrentType
<1>3. now \in Time
  BY DEF TypeInv, EnvType
<1>4. IsActivity(new.activity) /\ new.numReq \in Nat
  BY <1>2, <1>3, Checked
<1>5. LifeType' /\ EnvType' /\ HttpType'
  BY <1>1 DEF TypeInv, LifeType, EnvType, HttpType
<1>6. QuietType'
  BY <1>1, <1>2 DEF QuietType, Quiet
<1>7. ReportsType'
  <2>1. [c |-> cur.c, iv |-> iv, at |-> now, numReq |-> new.numReq] \in Report
    BY <1>2, <1>3, <1>4 DEF Report
  <2>2. Append(reports, [c |-> cur.c, iv |-> iv, at |-> now, numReq |-> new.numReq]) \in Seq(Report)
    BY <2>1, AppendProperties DEF TypeInv, ReportsType
  <2>3. \/ reports' = Append(reports, [c |-> cur.c, iv |-> iv, at |-> now, numReq |-> new.numReq])
        \/ reports' = reports
    BY DEF RunCheck
  <2> QED BY <1>1, <2>2, <2>3 DEF TypeInv, ReportsType
<1> DEFINE todo == cur.todo \ {iv}
<1>8. todo \in Todos
  BY <1>2 DEF Todos
<1>9. CASE cur.removed = None
  <2>1. /\ act' = [act EXCEPT ![cur.c] = new.activity]
        /\ cur' = [cur EXCEPT !.todo = todo]
    BY <1>9 DEF RunCheck
  <2> HIDE DEF todo, new
  <2>2. cur' \in Current /\ cur'.c = cur.c /\ cur'.removed = None
    BY <1>2, <1>8, <1>9, <2>1, CurrentForm
  <2>3. cur.c \in DOMAIN act /\ IsActivities(act)
    BY <1>2, <1>9 DEF TypeInv, RunType
  <2>4. IsActivities(act') /\ DOMAIN act' = DOMAIN act
    BY <1>4, <2>1, <2>3 DEF IsActivities
  <2>5. RunType'
    BY <1>1, <2>2, <2>3, <2>4, NoneAssumption DEF TypeInv, RunType
  <2> QED BY <1>5, <1>6, <1>7, <2>5 DEF TypeInv
<1>10. CASE cur.removed # None
  <2>1. /\ act' = act
        /\ cur' = [cur EXCEPT !.todo = todo, !.removed = new.activity]
    BY <1>10 DEF RunCheck
  <2>2. new.activity \in Entries
    BY <1>4 DEF IsActivity, Entries
  <2> HIDE DEF todo, new
  <2>3. cur' \in Current /\ cur'.c = cur.c /\ cur'.removed = new.activity
    BY <1>2, <1>8, <2>1, <2>2, CurrentForm
  <2>4. cur.c \notin DOMAIN act /\ IsActivities(act)
    BY <1>2, <1>10 DEF TypeInv, RunType
  <2>5. cur'.removed # None
    BY <1>4, <2>3, NoneAssumption DEF IsActivity
  <2>6. RunType'
    BY <1>1, <1>4, <2>1, <2>3, <2>4, <2>5, NoneAssumption DEF TypeInv, RunType
  <2> QED BY <1>5, <1>6, <1>7, <2>6 DEF TypeInv
<1> QED BY <1>9, <1>10

\* The channel after a receive.
LEMMA TailType ==
  ASSUME TypeInv, counter # <<>>
  PROVE  /\ Head(counter) \in Request /\ Head(counter).c \in Clients
         /\ Head(counter).created \in Time
         /\ Tail(counter) \in Seq(Request) /\ Len(Tail(counter)) <= CounterCap /\ ~Quiet
<1>1. counter \in Seq(Request) /\ Len(counter) <= CounterCap /\ ~Quiet
  BY DEF TypeInv, HttpType, QuietType
<1>2. Head(counter) \in Request /\ Tail(counter) \in Seq(Request) /\ Len(Tail(counter)) = Len(counter) - 1
  BY <1>1, HeadTailProperties
<1>3. Len(counter) \in Nat
  BY <1>1, LenProperties
<1>4. Head(counter).c \in Clients /\ Head(counter).created \in Time
  BY <1>2 DEF Request
<1> QED BY <1>1, <1>2, <1>3, <1>4, Constants

\* RunReceive in one place.
LEMMA ReceiveForm ==
  ASSUME RunReceive
  PROVE  LET req == Head(counter)
         IN  /\ act' = [c \in DOMAIN act \cup {req.c} |->
                          IF c = req.c THEN Received(req.c, req.created) ELSE act[c]]
             /\ cur' = [c |-> req.c, todo |-> Intervals, removed |-> None]
             /\ counter' = Tail(counter) /\ counter # <<>> /\ run = "loop" /\ run' = "busy"
             /\ UNCHANGED <<lifeVars, known, allow, now, handler, made, cleaner, adminVars>>
  BY DEF RunReceive, Received, OldActivity

\* Run takes a request.
LEMMA ReceiveType ==
  ASSUME TypeInv, RunReceive
  PROVE  TypeInv'
<1> DEFINE req == Head(counter)
           new == Received(req.c, req.created)
<1>1. /\ act' = [c \in DOMAIN act \cup {req.c} |-> IF c = req.c THEN new ELSE act[c]]
      /\ cur' = [c |-> req.c, todo |-> Intervals, removed |-> None]
      /\ counter' = Tail(counter) /\ counter # <<>> /\ run = "loop" /\ run' = "busy"
      /\ UNCHANGED <<lifeVars, known, allow, now, handler, made, cleaner, adminVars>>
  BY ReceiveForm
<1>2. /\ req.c \in Clients /\ req.created \in Time
      /\ Tail(counter) \in Seq(Request) /\ Len(Tail(counter)) <= CounterCap /\ ~Quiet
  BY <1>1, TailType
<1>3. IsActivities(act)
  BY DEF TypeInv, RunType
<1> HIDE DEF req
<1>4. IsActivity(new)
  BY <1>2, <1>3, ReceivedType
<1>5. LifeType' /\ EnvType' /\ ReportsType'
  BY <1>1 DEF TypeInv, LifeType, EnvType, ReportsType
<1>6. HttpType' /\ QuietType'
  BY <1>1, <1>2 DEF TypeInv, HttpType, QuietType, Quiet
<1> HIDE DEF new
<1>7. IsActivities(act') /\ DOMAIN act' = DOMAIN act \cup {req.c}
  BY <1>1, <1>2, <1>3, <1>4 DEF IsActivities
<1>8. cur' \in Current /\ cur'.c = req.c /\ cur'.removed = None
  BY <1>1, <1>2 DEF Current
<1>9. RunType'
  BY <1>1, <1>7, <1>8, NoneAssumption DEF RunType
<1> QED BY <1>5, <1>6, <1>9 DEF TypeInv

\* The other steps of Run, and the clock.
LEMMA TypeRun ==
  ASSUME TypeInv, RunStart \/ Reload \/ RunIgnores \/ RunDone \/ RunReturns \/ Tick
  PROVE  TypeInv'
<1> USE DEF TypeInv
<1>1. LifeType' /\ ReportsType'
  BY DEF LifeType, ReportsType, RunStart, Reload, RunIgnores, RunDone, RunReturns, Tick
<1>2. RunType'
  BY DEF RunType, RunStart, Reload, RunIgnores, RunDone, RunReturns, Tick
<1>3. EnvType'
  <2>1. now' \in Time
    BY Constants DEF EnvType, Time, RunStart, Reload, RunIgnores, RunDone, RunReturns, Tick
  <2>2. known' \in BOOLEAN
    BY DEF EnvType, RunStart, Reload, RunIgnores, RunDone, RunReturns, Tick
  <2>3. allow' \subseteq AllowListed
    BY DEF EnvType, RunStart, Reload, RunIgnores, RunDone, RunReturns, Tick, loadAllowList
  <2> QED BY <2>1, <2>2, <2>3 DEF EnvType
<1>4. HttpType'
  <2>1. CASE RunIgnores
    BY <2>1, TailType DEF RunIgnores, HttpType
  <2>2. CASE ~RunIgnores
    BY <2>2 DEF HttpType, RunStart, Reload, RunDone, RunReturns, Tick
  <2> QED BY <2>1, <2>2
<1>5. QuietType'
  <2>1. CASE RunIgnores
    BY <2>1, TailType DEF RunIgnores, QuietType, Quiet
  <2>2. CASE ~RunIgnores
    BY <2>2 DEF QuietType, Quiet, RunStart, Reload, RunDone, RunReturns, Tick
  <2> QED BY <2>1, <2>2
<1> QED BY <1>1, <1>2, <1>3, <1>4, <1>5

\* A removal goroutine deletes an entry.
LEMMA DeletesType ==
  ASSUME TypeInv, NEW k \in Cleaners, CleanerDeletes(k)
  PROVE  TypeInv'
<1> DEFINE c == cleaner[k].doomed
<1>1. /\ act' = [d \in DOMAIN act \ {c} |-> act[d]]
      /\ cur' = IF cur # None /\ cur.c = c /\ cur.removed = None
                THEN [cur EXCEPT !.removed = act[c]] ELSE cur
      /\ UNCHANGED <<lifeVars, run, known, allow, now, httpVars, adminVars>>
  BY DEF CleanerDeletes
<1> HIDE DEF c
<1>2. LifeType' /\ EnvType' /\ ReportsType' /\ HttpType'
  BY <1>1 DEF TypeInv, LifeType, EnvType, ReportsType, HttpType
<1>3. IsActivities(act) /\ IsActivities(act') /\ DOMAIN act' = DOMAIN act \ {c}
  BY <1>1 DEF TypeInv, RunType, IsActivities
<1>4. CASE cur # None /\ cur.c = c /\ cur.removed = None
  <2>1. c \in DOMAIN act /\ cur \in Current
    BY <1>4 DEF TypeInv, RunType
  <2>2. IsActivity(act[c])
    BY <2>1, <1>3 DEF IsActivities
  <2>3. act[c] \in Entries
    BY <2>2 DEF IsActivity, Entries
  <2>4. cur' = [cur EXCEPT !.removed = act[c]]
    BY <1>1, <1>4
  <2>5. cur' \in Current /\ cur'.c = c /\ cur'.removed = act[c]
    BY <1>4, <2>1, <2>3, <2>4, CurrentForm
  <2>6. RunType'
    BY <1>1, <1>3, <1>4, <2>2, <2>5, NoneAssumption DEF TypeInv, RunType, IsActivity
  <2>7. QuietType'
    BY <1>1, <1>4 DEF TypeInv, QuietType, Quiet
  <2> QED BY <1>2, <2>6, <2>7 DEF TypeInv
<1>5. CASE ~(cur # None /\ cur.c = c /\ cur.removed = None)
  <2>1. cur' = cur
    BY <1>1, <1>5
  <2>2. RunType'
    BY <1>1, <1>3, <1>5, <2>1 DEF TypeInv, RunType
  <2>3. QuietType'
    BY <1>1, <2>1 DEF TypeInv, QuietType, Quiet
  <2> QED BY <1>2, <2>2, <2>3 DEF TypeInv
<1> QED BY <1>4, <1>5

\* HandleCleanAction selects what remains.
LEMMA SelectType ==
  ASSUME TypeInv, NEW maxAge \in 0..MaxTime, NEW all \in BOOLEAN, CleanSelect(maxAge, all)
  PROVE  TypeInv'
<1> DEFINE dropped == {i \in DOMAIN reports : reports[i].at <= now - maxAge /\ all}
           first == Cardinality(dropped) + 1
<1>1. /\ clean' = [remain |-> SubSeq(reports, first, Len(reports))]
      /\ phase = "serving"
      /\ UNCHANGED <<lifeVars, runVars, known, allow, now, httpVars, cleaner, reports>>
  BY DEF CleanSelect
<1>2. reports \in Seq(Report) /\ Len(reports) \in Nat /\ DOMAIN reports = 1..Len(reports)
  BY LenProperties DEF TypeInv, ReportsType
<1>3. IsFiniteSet(dropped)
  <2>1. IsFiniteSet(DOMAIN reports)
    BY <1>2, FS_Interval
  <2> QED BY <2>1, FS_Subset
<1>4. first \in Nat /\ first >= 1
  BY <1>3, FS_CardinalityType
<1> HIDE DEF first
<1>5. \A i \in first..Len(reports) : reports[i] \in Report
  BY <1>2, <1>4, ElementOfSeq
<1>6. SubSeq(reports, first, Len(reports)) \in Seq(Report)
  BY <1>2, <1>4, <1>5, SubSeqProperties
<1>7. ReportsType'
  BY <1>1, <1>2, <1>6 DEF ReportsType
<1>8. LifeType' /\ EnvType' /\ HttpType' /\ RunType'
  BY <1>1 DEF TypeInv, LifeType, EnvType, HttpType, RunType
<1>9. QuietType'
  BY <1>1 DEF QuietType, Quiet
<1> QED BY <1>7, <1>8, <1>9 DEF TypeInv

\* HandleCleanAction assigns it; a removal goroutine begins or looks.
LEMMA TypeAdmin ==
  ASSUME TypeInv, CleanAssign \/ CleanerGoesOn
  PROVE  TypeInv'
<1> USE DEF TypeInv
<1>1. LifeType' /\ ReportsType'
  <2>1. CASE CleanAssign
    BY <2>1 DEF LifeType, ReportsType, CleanAssign
  <2>2. CASE CleanerGoesOn
    <3>1. UNCHANGED <<lifeVars, adminVars>>
      BY <2>2 DEF CleanerGoesOn, CleanerBegins, CleanerLooks
    <3> QED BY <3>1 DEF LifeType, ReportsType
  <2> QED BY <2>1, <2>2
<1>2. EnvType' /\ HttpType' /\ RunType'
  <2>1. UNCHANGED <<runVars, known, allow, now, handler, counter>>
    BY DEF CleanAssign, CleanerGoesOn, CleanerBegins, CleanerLooks
  <2> QED BY <2>1 DEF EnvType, HttpType, RunType
<1>3. QuietType'
  BY DEF QuietType, Quiet, CleanAssign, CleanerGoesOn, CleanerBegins, CleanerLooks
<1> QED BY <1>1, <1>2, <1>3

\* Every step keeps the types.
LEMMA TypeStep == TypeInv /\ [Next]_vars => TypeInv'
<1> SUFFICES ASSUME TypeInv, [Next]_vars PROVE TypeInv'
  OBVIOUS
<1>1. CASE UNCHANGED vars
  <2>1. LifeType' /\ RunType'
    BY <1>1 DEF TypeInv, LifeType, RunType
  <2>2. EnvType' /\ HttpType' /\ ReportsType' /\ QuietType'
    BY <1>1 DEF TypeInv, EnvType, HttpType, ReportsType, QuietType, Quiet
  <2> QED BY <2>1, <2>2 DEF TypeInv
<1>2. CASE Next
  <2>1. CASE LoadState \/ Register \/ Listen \/ Restart
    BY <2>1, TypeStart
  <2>2. CASE LoadStateFails \/ End("down")
    BY <2>2, EndType DEF LoadStateFails
  <2>3. CASE RunStart \/ Reload \/ RunIgnores \/ RunDone \/ RunReturns \/ Tick
    BY <2>3, TypeRun
  <2>4. CASE RunReceive
    BY <2>4, ReceiveType
  <2>5. CASE \E iv \in Intervals : RunCheck(iv)
    BY <2>5, CheckType
  <2>6. CASE \E h \in Handlers : Post(h)
    <3>1. PICK h \in Handlers : Post(h)
      BY <2>6
    <3> QED BY <3>1, PostType
  <2>7. CASE \E h \in Handlers, c \in Clients : Arrive(h, c)
    BY <2>7, ArriveType
  <2>8. CASE \E k \in Cleaners : CleanerDeletes(k)
    BY <2>8, DeletesType
  <2>9. CASE CleanAssign \/ CleanerGoesOn
    BY <2>9, TypeAdmin
  <2>10. CASE \E maxAge \in 0..MaxTime, all \in BOOLEAN : CleanSelect(maxAge, all)
    BY <2>10, SelectType
  <2>11. CASE Signal \/ SaveCreate \/ SaveHeader \/ SaveValue \/ SaveFails
    BY <2>11, TypeExit
  <2> QED BY <1>2, <2>1, <2>2, <2>3, <2>4, <2>5, <2>6, <2>7, <2>8, <2>9, <2>10, <2>11, StepCases
<1> QED BY <1>1, <1>2

-----------------------------------------------------------------------------
(* The reports survive a restart. *)

\* A sequence and the empty one are prefixes of it.
LEMMA PrefixSelf ==
  ASSUME NEW S, NEW s \in Seq(S)
  PROVE  IsPrefix(s, s) /\ IsPrefix(<<>>, s)
<1>1. Len(s) \in Nat /\ Len(<<>>) = 0
  BY LenProperties, EmptySeq
<1>2. SubSeq(<<>>, 1, 0) = <<>> /\ SubSeq(s, 1, 0) = <<>>
  BY SubSeqEmpty
<1> QED BY <1>1, <1>2 DEF IsPrefix

\* Every step keeps the reports due.
LEMMA SavedStep == TypeInv /\ SavedInv /\ [Next]_vars => SavedInv'
<1> SUFFICES ASSUME TypeInv, SavedInv, [Next]_vars PROVE SavedInv'
  OBVIOUS
<1>0. ASSUME UNCHANGED <<phase, due, file, reports>> PROVE SavedInv'
  BY <1>0 DEF SavedInv
<1>1. CASE UNCHANGED vars
  BY <1>0, <1>1
<1>2. CASE Next
  <2>1. CASE LoadState
    BY <2>1 DEF SavedInv, LoadState
  <2>2. CASE Register \/ Listen
    BY <2>2 DEF SavedInv, Register, Listen
  <2>3. CASE LoadStateFails \/ End("down")
    BY <2>3 DEF SavedInv, LoadStateFails, End
  <2>4. CASE Restart
    <3>1. phase' = "boot" /\ (file' = [type |-> "absent"] \/ file' = file)
      BY <2>4 DEF Restart
    <3> QED BY <3>1 DEF SavedInv
  <2>5. CASE RunStart \/ Reload \/ RunIgnores \/ RunReceive \/ RunDone \/ RunReturns \/ Tick
    BY <2>5, <1>0 DEF RunStart, Reload, RunIgnores, RunReceive, RunDone, RunReturns, Tick
  <2>6. CASE \E h \in Handlers : Post(h)
    BY <2>6, <1>0 DEF Post
  <2>7. CASE \E h \in Handlers, c \in Clients : Arrive(h, c)
    BY <2>7, <1>0 DEF Arrive
  <2>8. CASE \E k \in Cleaners : CleanerDeletes(k)
    BY <2>8, <1>0 DEF CleanerDeletes
  <2>9. CASE CleanerGoesOn
    BY <2>9, <1>0 DEF CleanerGoesOn, CleanerBegins, CleanerLooks
  <2>10. CASE \E maxAge \in 0..MaxTime, all \in BOOLEAN : CleanSelect(maxAge, all)
    BY <2>10, <1>0 DEF CleanSelect
  <2>11. CASE \E iv \in Intervals : RunCheck(iv)
    <3>1. PICK iv \in Intervals : RunCheck(iv)
      BY <2>11
    <3> DEFINE r == NewReport(cur.c, iv, checkServiceUsage(CurActivity, iv).numReq)
    <3>2. /\ UNCHANGED <<phase, due, file>> /\ run = "busy"
          /\ reports' = Append(reports, r) \/ reports' = reports
      BY <3>1 DEF RunCheck, NewReport
    <3>3. ~Quiet /\ cur.c \in Clients /\ IsActivity(CurActivity)
      BY <3>2, CurrentType
    <3>4. now \in Time
      BY DEF TypeInv, EnvType
    <3>5. checkServiceUsage(CurActivity, iv).numReq \in Nat
      BY <3>3, <3>4, Checked
    <3>6. r \in Report
      BY <3>3, <3>4, <3>5 DEF NewReport, Report
    <3> HIDE DEF r
    <3>7. IsPrefix(due, reports) => IsPrefix(due, Append(reports, r))
      BY <3>6, PrefixAppend DEF TypeInv, LifeType, ReportsType
    <3> QED BY <3>2, <3>3, <3>7 DEF SavedInv, Quiet
  <2>12. CASE CleanAssign
    <3>1. reports' \in Seq(Report) /\ due' = <<>> /\ ~Quiet /\ UNCHANGED <<phase, file>>
      BY <2>12 DEF CleanAssign, TypeInv, ReportsType, QuietType
    <3>2. IsPrefix(due', reports')
      BY <3>1, PrefixSelf
    <3> QED BY <3>1, <3>2 DEF SavedInv, Quiet
  <2>13. CASE Signal
    <3>1. reports \in Seq(Report)
      BY DEF TypeInv, ReportsType
    <3>2. IsPrefix(reports, reports)
      BY <3>1, PrefixSelf
    <3> QED BY <2>13, <3>2 DEF SavedInv, Signal
  <2>14. CASE SaveCreate \/ SaveHeader \/ SaveFails
    BY <2>14 DEF SavedInv, SaveCreate, SaveHeader, SaveFails, SaveStep
  <2>15. CASE SaveValue
    BY <2>15 DEF SavedInv, SaveValue, SaveStep
  <2> QED BY <1>2, <2>1, <2>2, <2>3, <2>4, <2>5, <2>6, <2>7, <2>8, <2>9, <2>10, <2>11,
             <2>12, <2>13, <2>14, <2>15, StepCases
<1> QED BY <1>1, <1>2

-----------------------------------------------------------------------------
(* A burst is reported. *)

\* There is no measurement yet.
LEMMA BurstInit == Init => BurstInv
<1> SUFFICES ASSUME Init PROVE BurstInv
  OBVIOUS
<1>1. DOMAIN <<>> = {}
  OBVIOUS
<1> QED BY <1>1 DEF Init, BurstInv

\* What is past stays past.
LEMMA PastLater ==
  ASSUME NEW a, IsActivity(a), NEW t \in Int, Past(a, t)
  PROVE  Past(a, t + 1)
<1> SUFFICES ASSUME NEW iv \in Intervals, NEW i \in DOMAIN a.exceed[iv]
             PROVE  a.exceed[iv][i].at <= t + 1
  BY DEF Past
<1>1. a.exceed \in Lists
  BY ActivityForm DEF IsActivity
<1>2. a.exceed[iv] \in Seq(Exceeding)
  BY <1>1 DEF Lists
<1>3. a.exceed[iv][i] \in Exceeding
  BY <1>2, LenProperties, ElementOfSeq
<1>4. a.exceed[iv][i].at \in Int
  BY <1>3, Constants DEF Exceeding, Time
<1>5. a.exceed[iv][i].at <= t
  BY DEF Past
<1> QED BY <1>4, <1>5

\* Every step keeps the bursts reported.
LEMMA BurstStep == TypeInv /\ BurstInv /\ [Next]_vars => BurstInv'
<1> SUFFICES ASSUME TypeInv, BurstInv, [Next]_vars PROVE BurstInv'
  OBVIOUS
<1>0. ASSUME UNCHANGED <<now, act, cur, file>> PROVE BurstInv'
  BY <1>0 DEF BurstInv
<1>1. CASE UNCHANGED vars
  BY <1>0, <1>1
<1>2. CASE Next
  <2>0. DOMAIN <<>> = {}
    OBVIOUS
  <2>1. CASE LoadState
    BY <2>1 DEF BurstInv, LoadState
  <2>2. CASE Register
    BY <2>0, <2>2 DEF BurstInv, Register
  <2>3. CASE Listen \/ Signal \/ CleanAssign
    BY <2>3, <1>0 DEF Listen, Signal, CleanAssign
  <2>4. CASE LoadStateFails \/ End("down")
    BY <2>0, <2>4 DEF BurstInv, LoadStateFails, End
  <2>5. CASE Restart
    <3>1. UNCHANGED <<now, act, cur>> /\ (file' = [type |-> "absent"] \/ file' = file)
      BY <2>5 DEF Restart
    <3> QED BY <3>1 DEF BurstInv
  <2>6. CASE RunStart \/ Reload \/ RunIgnores \/ RunReturns
    BY <2>6, <1>0 DEF RunStart, Reload, RunIgnores, RunReturns
  <2>7. CASE RunDone
    BY <2>7 DEF BurstInv, RunDone
  <2>8. CASE \E h \in Handlers : Post(h)
    BY <2>8, <1>0 DEF Post
  <2>9. CASE \E h \in Handlers, c \in Clients : Arrive(h, c)
    BY <2>9, <1>0 DEF Arrive
  <2>10. CASE CleanerGoesOn
    BY <2>10, <1>0 DEF CleanerGoesOn, CleanerBegins, CleanerLooks
  <2>11. CASE \E maxAge \in 0..MaxTime, all \in BOOLEAN : CleanSelect(maxAge, all)
    BY <2>11, <1>0 DEF CleanSelect
  <2>12. CASE SaveCreate \/ SaveHeader \/ SaveFails
    BY <2>12 DEF BurstInv, SaveCreate, SaveHeader, SaveFails, SaveStep
  <2>13. CASE SaveValue
    BY <2>13 DEF BurstInv, SaveValue, SaveStep
  <2>14. CASE Tick
    <3>1. now' = now + 1 /\ UNCHANGED <<act, cur, file>> /\ now \in Int
      BY <2>14, Constants DEF Tick, TypeInv, EnvType, Time
    <3>2. \A c \in DOMAIN act : Past(act[c], now + 1)
      BY <3>1, PastLater DEF BurstInv, TypeInv, RunType, IsActivities
    <3>3. cur # None /\ cur.removed # None => Past(cur.removed, now + 1)
      BY <3>1, PastLater DEF BurstInv, TypeInv, RunType
    <3>4. file.type = "data" => \A c \in DOMAIN file.act : Past(file.act[c], now + 1)
      BY <3>1, PastLater DEF BurstInv, TypeInv, LifeType, IsActivities
    <3> QED BY <3>1, <3>2, <3>3, <3>4 DEF BurstInv
  <2>15. CASE RunReceive
    <3> DEFINE req == Head(counter)
               new == Received(req.c, req.created)
               old == OldActivity(req.c)
    <3>1. /\ act' = [c \in DOMAIN act \cup {req.c} |-> IF c = req.c THEN new ELSE act[c]]
          /\ cur' = [c |-> req.c, todo |-> Intervals, removed |-> None]
          /\ counter # <<>> /\ UNCHANGED <<now, file>>
      BY <2>15, ReceiveForm
    <3>2. req.c \in Clients /\ req.created \in Time
      BY <3>1, TailType
    <3>3. IsActivities(act)
      BY DEF TypeInv, RunType
    <3> HIDE DEF req
    <3>4. new.exceed = old.exceed /\ new.lastReport = old.lastReport
      BY <3>2, <3>3, ReceivedType
    <3>5. Past(old, now) /\ Told(old)
      <4>1. CASE req.c \in DOMAIN act
        BY <4>1 DEF BurstInv, OldActivity
      <4>2. CASE req.c \notin DOMAIN act
        BY <2>0, <4>2, EmptyActivity DEF OldActivity, Past, Told
      <4> QED BY <4>1, <4>2
    <3> HIDE DEF new, old
    <3>6. Past(new, now) /\ Told(new)
      BY <3>4, <3>5 DEF Past, Told
    <3>7. \A c \in DOMAIN act' : Past(act'[c], now) /\ Told(act'[c])
      BY <3>1, <3>6 DEF BurstInv
    <3>8. cur'.removed = None /\ UNCHANGED <<now, file>>
      BY <3>1
    <3> QED BY <3>7, <3>8 DEF BurstInv
  <2>16. CASE \E iv \in Intervals : RunCheck(iv)
    <3>1. PICK iv \in Intervals : RunCheck(iv)
      BY <2>16
    <3> DEFINE new == checkServiceUsage(CurActivity, iv)
    <3>2. UNCHANGED <<now, file>> /\ run = "busy" /\ now \in Time
      BY <3>1 DEF RunCheck, TypeInv, EnvType
    <3>3. cur \in Current /\ cur # None /\ IsActivity(CurActivity)
      BY <3>2, CurrentType
    <3>4. CASE cur.removed = None
      <4>1. /\ act' = [act EXCEPT ![cur.c] = new.activity]
            /\ cur' = [cur EXCEPT !.todo = @ \ {iv}]
        BY <3>1, <3>4 DEF RunCheck
      <4>2. cur.c \in DOMAIN act /\ CurActivity = act[cur.c]
        BY <3>3, <3>4 DEF TypeInv, RunType, CurActivity
      <4>3. Past(new.activity, now) /\ Told(new.activity)
        BY <3>2, <3>3, <4>2, CheckedPast, CheckedTold DEF BurstInv
      <4> HIDE DEF new
      <4>4. \A c \in DOMAIN act' : Past(act'[c], now) /\ Told(act'[c])
        BY <4>1, <4>2, <4>3 DEF BurstInv
      <4>5. cur'.removed = None
        BY <3>3, <3>4, <4>1, CurrentForm
      <4> QED BY <3>2, <4>4, <4>5 DEF BurstInv
    <3>5. CASE cur.removed # None
      <4>1. act' = act /\ cur' = [cur EXCEPT !.todo = @ \ {iv}, !.removed = new.activity]
        BY <3>1, <3>5 DEF RunCheck
      <4>2. CurActivity = cur.removed
        BY <3>5 DEF CurActivity
      <4>3. Past(new.activity, now)
        BY <3>2, <3>3, <3>5, <4>2, CheckedPast DEF BurstInv
      <4> HIDE DEF new
      <4>4. cur'.removed = new.activity
        BY <3>3, <4>1, CurrentForm
      <4> QED BY <3>2, <4>1, <4>3, <4>4 DEF BurstInv
    <3> QED BY <3>4, <3>5
  <2>17. CASE \E k \in Cleaners : CleanerDeletes(k)
    <3>1. PICK k \in Cleaners : CleanerDeletes(k)
      BY <2>17
    <3> DEFINE c == cleaner[k].doomed
    <3>2. /\ act' = [d \in DOMAIN act \ {c} |-> act[d]]
          /\ cur' = IF cur # None /\ cur.c = c /\ cur.removed = None
                    THEN [cur EXCEPT !.removed = act[c]] ELSE cur
          /\ UNCHANGED <<now, file>>
      BY <3>1 DEF CleanerDeletes
    <3> HIDE DEF c
    <3>3. \A d \in DOMAIN act' : Past(act'[d], now) /\ Told(act'[d])
      BY <3>2 DEF BurstInv
    <3>4. CASE cur # None /\ cur.c = c /\ cur.removed = None
      <4>1. c \in DOMAIN act /\ cur \in Current
        BY <3>4 DEF TypeInv, RunType
      <4>2. cur'.removed = act[c]
        BY <3>2, <3>4, <4>1, CurrentForm
      <4>3. Past(cur'.removed, now)
        BY <4>1, <4>2 DEF BurstInv
      <4> QED BY <3>2, <3>3, <4>3 DEF BurstInv
    <3>5. CASE ~(cur # None /\ cur.c = c /\ cur.removed = None)
      BY <3>2, <3>3, <3>5 DEF BurstInv
    <3> QED BY <3>4, <3>5
  <2> QED BY <1>2, <2>1, <2>2, <2>3, <2>4, <2>5, <2>6, <2>7, <2>8, <2>9, <2>10, <2>11,
             <2>12, <2>13, <2>14, <2>15, <2>16, <2>17, StepCases
<1> QED BY <1>1, <1>2

-----------------------------------------------------------------------------
(* No request is counted twice. *)

\* The history of requests grows by new ones.
LEMMA MadeStep == TypeInv /\ MadeInv /\ [Next]_vars => MadeInv'
<1> SUFFICES ASSUME TypeInv, MadeInv, [Next]_vars PROVE MadeInv'
  OBVIOUS
<1>0. ASSUME UNCHANGED <<now, made>> PROVE MadeInv'
  BY <1>0 DEF MadeInv
<1>1. CASE UNCHANGED vars
  BY <1>0, <1>1
<1>2. CASE Next
  <2>1. CASE LoadState \/ Register \/ Listen \/ Restart \/ LoadStateFails \/ End("down")
    BY <2>1, <1>0 DEF LoadState, Register, Listen, Restart, LoadStateFails, End
  <2>2. CASE RunStart \/ Reload \/ RunIgnores \/ RunReceive \/ RunDone \/ RunReturns
    BY <2>2, <1>0 DEF RunStart, Reload, RunIgnores, RunReceive, RunDone, RunReturns
  <2>3. CASE \E iv \in Intervals : RunCheck(iv)
    BY <2>3, <1>0 DEF RunCheck
  <2>4. CASE \E h \in Handlers : Post(h)
    BY <2>4, <1>0 DEF Post
  <2>5. CASE \E k \in Cleaners : CleanerDeletes(k)
    BY <2>5, <1>0 DEF CleanerDeletes
  <2>6. CASE CleanerGoesOn
    BY <2>6, <1>0 DEF CleanerGoesOn, CleanerBegins, CleanerLooks
  <2>7. CASE CleanAssign \/ \E maxAge \in 0..MaxTime, all \in BOOLEAN : CleanSelect(maxAge, all)
    BY <2>7, <1>0 DEF CleanAssign, CleanSelect
  <2>8. CASE Signal \/ SaveCreate \/ SaveHeader \/ SaveValue \/ SaveFails
    BY <2>8, <1>0 DEF Signal, SaveCreate, SaveHeader, SaveValue, SaveFails, SaveStep
  <2>9. CASE Tick
    <3>1. \A q \in made : q.at \in Int
      BY Constants DEF MadeInv, Made, Time
    <3>2. now' = now + 1 /\ made' = made /\ now \in Int
      BY <2>9, Constants DEF Tick, TypeInv, EnvType, Time
    <3> QED BY <3>1, <3>2 DEF MadeInv
  <2>10. CASE \E h \in Handlers, c \in Clients : Arrive(h, c)
    <3>1. PICK h \in Handlers, c \in Clients : Arrive(h, c)
      BY <2>10
    <3> DEFINE n == Cardinality(made)
               q == [c |-> c, at |-> now, id |-> n]
    <3>2. made' = made \cup {q} /\ now' = now /\ now \in Time
      BY <3>1 DEF Arrive, TypeInv, EnvType
    <3>3. n \in Nat
      BY FS_CardinalityType DEF MadeInv
    <3>4. q \in Made
      BY <3>2, <3>3 DEF Made
    <3>5. q \notin made
      BY <3>3 DEF MadeInv
    <3>6. IsFiniteSet(made') /\ Cardinality(made') = n + 1
      BY <3>2, <3>5, FS_AddElement DEF MadeInv
    <3>7. \A p \in made : p.id \in Nat /\ p.id < n /\ p.at <= now
      BY DEF MadeInv, Made
    <3>8. q.id = n /\ q.at = now /\ now <= now
      BY <3>2, Constants DEF Time
    <3> HIDE DEF n, q
    <3>9. \A p \in made' : p.at <= now' /\ p.id < Cardinality(made')
      BY <3>2, <3>3, <3>6, <3>7, <3>8
    <3>10. made' \subseteq Made
      BY <3>2, <3>4 DEF MadeInv
    <3> QED BY <3>6, <3>9, <3>10 DEF MadeInv
  <2> QED BY <1>2, <2>1, <2>2, <2>3, <2>4, <2>5, <2>6, <2>7, <2>8, <2>9, <2>10, StepCases
<1> QED BY <1>1, <1>2

\* The empty sequence holds nothing.
LEMMA CountEmpty == \A P : CountIn(<<>>, P) = 0
<1> TAKE P
<1>1. {i \in DOMAIN <<>> : <<>>[i] \in P} = {}
  OBVIOUS
<1> QED BY <1>1, FS_EmptySet DEF CountIn

\* The handlers are finitely many, ...
LEMMA ServingType ==
  ASSUME NEW H, NEW c, NEW t
  PROVE  IsFiniteSet(Serving(H, c, t)) /\ Cardinality(Serving(H, c, t)) \in Nat
<1>1. IsFiniteSet(Serving(H, c, t))
  BY Constants, FS_Subset DEF Serving
<1> QED BY <1>1, FS_CardinalityType

\* ... so are the requests made.
LEMMA MadeAfterType ==
  ASSUME NEW M, IsFiniteSet(M), NEW c, NEW t
  PROVE  IsFiniteSet(MadeAfter(M, c, t)) /\ Cardinality(MadeAfter(M, c, t)) \in Nat
<1>1. IsFiniteSet(MadeAfter(M, c, t))
  BY FS_Subset DEF MadeAfter
<1> QED BY <1>1, FS_CardinalityType

\* A client's buffer, wherever its activity is.
LEMMA KeptType ==
  ASSUME TypeInv, NEW c
  PROVE  Kept(act, cur, c) \in Seq(Time)
<1>1. \A a : IsActivity(a) => a.requests \in Seq(Time)
  BY ActivityForm DEF IsActivity, Buffers
<1>2. CASE cur # None /\ cur.c = c /\ cur.removed # None
  BY <1>1, <1>2 DEF TypeInv, RunType, Kept
<1>3. CASE ~(cur # None /\ cur.c = c /\ cur.removed # None) /\ c \in DOMAIN act
  <2>1. IsActivity(act[c])
    BY <1>3 DEF TypeInv, RunType, IsActivities
  <2>2. Kept(act, cur, c) = act[c].requests
    BY <1>3 DEF Kept
  <2> QED BY <1>1, <2>1, <2>2
<1>4. CASE ~(cur # None /\ cur.c = c /\ cur.removed # None) /\ c \notin DOMAIN act
  <2>1. Kept(act, cur, c) = <<>>
    BY <1>4 DEF Kept
  <2> QED BY <2>1, EmptySeq
<1> QED BY <1>2, <1>3, <1>4

\* Nothing is kept and nothing on its way.
LEMMA CountIdle ==
  ASSUME NEW M, IsFiniteSet(M), NEW H, H = [h \in Handlers |-> None], NEW c, NEW t
  PROVE  CountIn(Kept(<<>>, None, c), After(t)) + CountIn(<<>>, RequestsAfter(c, t))
           + Cardinality(Serving(H, c, t)) <= Cardinality(MadeAfter(M, c, t))
<1>1. Kept(<<>>, None, c) = <<>>
  BY DEF Kept
<1>2. Serving(H, c, t) = {}
  BY DEF Serving
<1>3. CountIn(<<>>, After(t)) = 0 /\ CountIn(<<>>, RequestsAfter(c, t)) = 0
  BY CountEmpty
<1>4. Cardinality(Serving(H, c, t)) = 0
  BY <1>2, FS_EmptySet
<1>5. Cardinality(MadeAfter(M, c, t)) \in Nat
  BY MadeAfterType
<1> QED BY <1>1, <1>3, <1>4, <1>5

\* The terms of the inequality are natural numbers.
LEMMA CountTerms ==
  ASSUME TypeInv, MadeInv, NEW c \in Clients, NEW t \in Int
  PROVE  /\ CountIn(Kept(act, cur, c), After(t)) \in Nat
         /\ CountIn(counter, RequestsAfter(c, t)) \in Nat
         /\ Cardinality(Serving(handler, c, t)) \in Nat
         /\ Cardinality(MadeAfter(made, c, t)) \in Nat
<1>1. CountIn(Kept(act, cur, c), After(t)) \in Nat
  BY KeptType, CountType
<1>2. CountIn(counter, RequestsAfter(c, t)) \in Nat
  BY CountType DEF TypeInv, HttpType
<1>3. Cardinality(Serving(handler, c, t)) \in Nat
  BY ServingType
<1>4. Cardinality(MadeAfter(made, c, t)) \in Nat
  BY MadeAfterType DEF MadeInv
<1> QED BY <1>1, <1>2, <1>3, <1>4

\* What is kept may be forgotten.
LEMMA CountForgets ==
  ASSUME TypeInv, MadeInv, CountInv, UNCHANGED <<counter, handler, made>>,
         phase \in {"boot", "loaded"} => phase' \in {"boot", "loaded"},
         \A c \in Clients : Kept(act', cur', c) \in {Kept(act, cur, c), <<>>}
  PROVE  CountInv'
<1> SUFFICES ASSUME phase' \notin {"boot", "loaded"}, NEW c \in Clients, NEW t \in Int
             PROVE  CountIn(Kept(act', cur', c), After(t)) + CountIn(counter', RequestsAfter(c, t))
                      + Cardinality(Serving(handler', c, t)) <= Cardinality(MadeAfter(made', c, t))
  BY DEF CountInv
<1>1. CountIn(Kept(act, cur, c), After(t)) + CountIn(counter, RequestsAfter(c, t))
        + Cardinality(Serving(handler, c, t)) <= Cardinality(MadeAfter(made, c, t))
  BY DEF CountInv
<1>2. /\ CountIn(Kept(act, cur, c), After(t)) \in Nat
      /\ CountIn(counter, RequestsAfter(c, t)) \in Nat
      /\ Cardinality(Serving(handler, c, t)) \in Nat
      /\ Cardinality(MadeAfter(made, c, t)) \in Nat
  BY CountTerms
<1>3. CountIn(<<>>, After(t)) = 0
  BY CountEmpty
<1>4. CASE Kept(act', cur', c) = Kept(act, cur, c)
  BY <1>1, <1>4
<1>5. CASE Kept(act', cur', c) = <<>>
  BY <1>1, <1>2, <1>3, <1>5
<1> QED BY <1>4, <1>5

\* Run drops a request.
LEMMA CountIgnores ==
  ASSUME TypeInv, MadeInv, CountInv, RunIgnores
  PROVE  CountInv'
<1>1. counter' = Tail(counter) /\ counter # <<>> /\ UNCHANGED <<phase, act, cur, handler, made>>
  BY DEF RunIgnores
<1> SUFFICES ASSUME phase' \notin {"boot", "loaded"}, NEW c \in Clients, NEW t \in Int
             PROVE  CountIn(Kept(act', cur', c), After(t)) + CountIn(counter', RequestsAfter(c, t))
                      + Cardinality(Serving(handler', c, t)) <= Cardinality(MadeAfter(made', c, t))
  BY DEF CountInv
<1>2. CountIn(Kept(act, cur, c), After(t)) + CountIn(counter, RequestsAfter(c, t))
        + Cardinality(Serving(handler, c, t)) <= Cardinality(MadeAfter(made, c, t))
  BY <1>1 DEF CountInv
<1>3. /\ CountIn(Kept(act, cur, c), After(t)) \in Nat
      /\ CountIn(counter, RequestsAfter(c, t)) \in Nat
      /\ Cardinality(Serving(handler, c, t)) \in Nat
      /\ Cardinality(MadeAfter(made, c, t)) \in Nat
  BY CountTerms
<1>4. CountIn(counter, RequestsAfter(c, t)) = CountIn(Tail(counter), RequestsAfter(c, t))
        + (IF Head(counter) \in RequestsAfter(c, t) THEN 1 ELSE 0)
  BY <1>1, CountTail DEF TypeInv, HttpType
<1>5. CountIn(Tail(counter), RequestsAfter(c, t)) \in Nat
  BY <1>1, TailType, CountType
<1> QED BY <1>1, <1>2, <1>3, <1>4, <1>5

\* A request moves from the channel to the buffer.
LEMMA CountReceive ==
  ASSUME TypeInv, MadeInv, CountInv, RunReceive
  PROVE  CountInv'
<1> DEFINE req == Head(counter)
           new == Received(req.c, req.created)
<1>1. /\ act' = [c \in DOMAIN act \cup {req.c} |-> IF c = req.c THEN new ELSE act[c]]
      /\ cur' = [c |-> req.c, todo |-> Intervals, removed |-> None]
      /\ counter' = Tail(counter) /\ counter # <<>> /\ run = "loop"
      /\ UNCHANGED <<phase, handler, made>>
  BY ReceiveForm
<1>2. req \in Request /\ req.c \in Clients /\ req.created \in Time /\ Tail(counter) \in Seq(Request)
  BY <1>1, TailType
<1>3. IsActivities(act) /\ cur = None
  BY <1>1 DEF TypeInv, RunType
<1> HIDE DEF req
<1>4. /\ OldActivity(req.c).requests \in Seq(Time)
      /\ new.requests = AppendCircular(OldActivity(req.c).requests, req.created, BufferSize)
  BY <1>2, <1>3, ReceivedType
<1>5. OldActivity(req.c).requests = Kept(act, cur, req.c)
  BY <1>3, EmptyActivity DEF OldActivity, Kept
<1> HIDE DEF new
<1> SUFFICES ASSUME phase' \notin {"boot", "loaded"}, NEW c \in Clients, NEW t \in Int
             PROVE  CountIn(Kept(act', cur', c), After(t)) + CountIn(counter', RequestsAfter(c, t))
                      + Cardinality(Serving(handler', c, t)) <= Cardinality(MadeAfter(made', c, t))
  BY DEF CountInv
<1>6. CountIn(Kept(act, cur, c), After(t)) + CountIn(counter, RequestsAfter(c, t))
        + Cardinality(Serving(handler, c, t)) <= Cardinality(MadeAfter(made, c, t))
  BY <1>1 DEF CountInv
<1>7. /\ CountIn(Kept(act, cur, c), After(t)) \in Nat
      /\ CountIn(counter, RequestsAfter(c, t)) \in Nat
      /\ Cardinality(Serving(handler, c, t)) \in Nat
      /\ Cardinality(MadeAfter(made, c, t)) \in Nat
  BY CountTerms
<1>8. CountIn(counter, RequestsAfter(c, t)) = CountIn(Tail(counter), RequestsAfter(c, t))
        + (IF req \in RequestsAfter(c, t) THEN 1 ELSE 0)
  BY <1>1, CountTail DEF TypeInv, HttpType, req
<1>9. CountIn(Tail(counter), RequestsAfter(c, t)) \in Nat
  BY <1>2, CountType
<1>10. cur' # None => cur'.removed = None
  BY <1>1
<1>11. CASE c = req.c
  <2>1. Kept(act', cur', c) = new.requests
    <3>1. c \in DOMAIN act' /\ act'[c] = new
      BY <1>1, <1>11
    <3> QED BY <1>10, <3>1 DEF Kept
  <2>2. CountIn(Kept(act', cur', c), After(t))
          <= CountIn(Kept(act, cur, c), After(t)) + (IF req.created \in After(t) THEN 1 ELSE 0)
    BY <1>2, <1>4, <1>5, <1>11, <2>1, CountCircular, Constants
  <2>3. req.created \in After(t) => req \in RequestsAfter(c, t)
    BY <1>2, <1>11 DEF After, RequestsAfter
  <2>4. CountIn(Kept(act', cur', c), After(t)) \in Nat
    <3>1. IsActivity(new)
      BY <1>2, <1>3, ReceivedType DEF new
    <3>2. new.requests \in Seq(Time)
      BY <3>1, ActivityForm DEF IsActivity, Buffers
    <3> QED BY <2>1, <3>2, CountType
  <2> QED BY <1>1, <1>6, <1>7, <1>8, <1>9, <2>2, <2>3, <2>4
<1>12. CASE c # req.c
  <2>1. Kept(act', cur', c) = Kept(act, cur, c)
    <3>1. (c \in DOMAIN act' <=> c \in DOMAIN act) /\ (c \in DOMAIN act => act'[c] = act[c])
      BY <1>1, <1>12
    <3> QED BY <1>3, <1>10, <3>1 DEF Kept
  <2> QED BY <1>1, <1>6, <1>7, <1>8, <1>9, <2>1
<1> QED BY <1>11, <1>12

\* A request moves from a handler to the channel.
LEMMA CountPost ==
  ASSUME TypeInv, MadeInv, CountInv, NEW h \in Handlers, Post(h)
  PROVE  CountInv'
<1> DEFINE r == handler[h]
<1>1. /\ counter' = Append(counter, r) /\ handler' = [handler EXCEPT ![h] = None] /\ r # None
      /\ UNCHANGED <<phase, act, cur, made>>
  BY DEF Post
<1>2. r \in Request /\ counter \in Seq(Request) /\ handler \in [Handlers -> Request \cup {None}]
  BY <1>1 DEF TypeInv, HttpType
<1>3. \A g \in Handlers : handler'[g] = IF g = h THEN None ELSE handler[g]
  BY <1>1, <1>2
<1> SUFFICES ASSUME phase' \notin {"boot", "loaded"}, NEW c \in Clients, NEW t \in Int
             PROVE  CountIn(Kept(act', cur', c), After(t)) + CountIn(counter', RequestsAfter(c, t))
                      + Cardinality(Serving(handler', c, t)) <= Cardinality(MadeAfter(made', c, t))
  BY DEF CountInv
<1>4. CountIn(Kept(act, cur, c), After(t)) + CountIn(counter, RequestsAfter(c, t))
        + Cardinality(Serving(handler, c, t)) <= Cardinality(MadeAfter(made, c, t))
  BY <1>1 DEF CountInv
<1>5. /\ CountIn(Kept(act, cur, c), After(t)) \in Nat
      /\ CountIn(counter, RequestsAfter(c, t)) \in Nat
      /\ Cardinality(Serving(handler, c, t)) \in Nat
      /\ Cardinality(MadeAfter(made, c, t)) \in Nat
  BY CountTerms
<1>6. CountIn(Append(counter, r), RequestsAfter(c, t)) = CountIn(counter, RequestsAfter(c, t))
        + (IF r \in RequestsAfter(c, t) THEN 1 ELSE 0)
  BY <1>2, CountAppend
<1>7. Serving(handler', c, t) = Serving(handler, c, t) \ {h}
  BY <1>3 DEF Serving
<1>8. h \in Serving(handler, c, t) <=> r \in RequestsAfter(c, t)
  BY <1>1 DEF Serving
<1>9. Cardinality(Serving(handler', c, t)) =
        IF h \in Serving(handler, c, t) THEN Cardinality(Serving(handler, c, t)) - 1
        ELSE Cardinality(Serving(handler, c, t))
  BY <1>7, ServingType, FS_RemoveElement
<1> HIDE DEF r
<1> QED BY <1>1, <1>4, <1>5, <1>6, <1>8, <1>9

\* A request is made and is in its handler.
LEMMA CountArrive ==
  ASSUME TypeInv, MadeInv, CountInv, NEW h \in Handlers, NEW d \in Clients, Arrive(h, d)
  PROVE  CountInv'
<1> DEFINE r == [c |-> d, created |-> now]
           q == [c |-> d, at |-> now, id |-> Cardinality(made)]
<1>1. /\ handler' = [handler EXCEPT ![h] = r] /\ handler[h] = None
      /\ made' = made \cup {q}
      /\ UNCHANGED <<phase, act, cur, counter>> /\ phase = "serving"
  BY DEF Arrive
<1>2. now \in Time /\ handler \in [Handlers -> Request \cup {None}]
  BY DEF TypeInv, EnvType, HttpType
<1>3. r \in Request /\ r.c = d /\ r.created = now
  BY <1>2 DEF Request
<1>4. q.c = d /\ q.at = now /\ q.id = Cardinality(made)
  OBVIOUS
<1>5. Cardinality(made) \in Nat /\ IsFiniteSet(made)
  BY FS_CardinalityType DEF MadeInv
<1>6. q \notin made
  BY <1>4, <1>5 DEF MadeInv
<1> HIDE DEF r, q
<1>7. \A g \in Handlers : handler'[g] = IF g = h THEN r ELSE handler[g]
  BY <1>1, <1>2
<1> SUFFICES ASSUME phase' \notin {"boot", "loaded"}, NEW c \in Clients, NEW t \in Int
             PROVE  CountIn(Kept(act', cur', c), After(t)) + CountIn(counter', RequestsAfter(c, t))
                      + Cardinality(Serving(handler', c, t)) <= Cardinality(MadeAfter(made', c, t))
  BY DEF CountInv
<1>8. CountIn(Kept(act, cur, c), After(t)) + CountIn(counter, RequestsAfter(c, t))
        + Cardinality(Serving(handler, c, t)) <= Cardinality(MadeAfter(made, c, t))
  BY <1>1 DEF CountInv
<1>9. /\ CountIn(Kept(act, cur, c), After(t)) \in Nat
      /\ CountIn(counter, RequestsAfter(c, t)) \in Nat
      /\ Cardinality(Serving(handler, c, t)) \in Nat
      /\ Cardinality(MadeAfter(made, c, t)) \in Nat
  BY CountTerms
<1>10. CASE c = d /\ now > t
  <2>1. MadeAfter(made', c, t) = MadeAfter(made, c, t) \cup {q} /\ q \notin MadeAfter(made, c, t)
    BY <1>1, <1>4, <1>6, <1>10 DEF MadeAfter
  <2>2. Cardinality(MadeAfter(made', c, t)) = Cardinality(MadeAfter(made, c, t)) + 1
    BY <1>5, <2>1, MadeAfterType, FS_AddElement
  <2>3. Serving(handler', c, t) \subseteq Serving(handler, c, t) \cup {h}
    BY <1>7 DEF Serving
  <2>4. h \notin Serving(handler, c, t)
    BY <1>1 DEF Serving
  <2>5. /\ IsFiniteSet(Serving(handler, c, t) \cup {h})
        /\ Cardinality(Serving(handler, c, t) \cup {h}) = Cardinality(Serving(handler, c, t)) + 1
    BY <2>4, ServingType, FS_AddElement
  <2>6. Cardinality(Serving(handler', c, t)) <= Cardinality(Serving(handler, c, t)) + 1
    BY <2>3, <2>5, FS_Subset
  <2>7. Cardinality(Serving(handler', c, t)) \in Nat
    BY ServingType
  <2> QED BY <1>1, <1>8, <1>9, <2>2, <2>6, <2>7
<1>11. CASE ~(c = d /\ now > t)
  <2>1. MadeAfter(made', c, t) = MadeAfter(made, c, t)
    BY <1>1, <1>4, <1>11 DEF MadeAfter
  <2>2. r \notin RequestsAfter(c, t)
    BY <1>3, <1>11 DEF RequestsAfter
  <2>3. Serving(handler', c, t) = Serving(handler, c, t)
    BY <1>1, <1>7, <2>2 DEF Serving
  <2> QED BY <1>1, <1>8, <2>1, <2>3
<1> QED BY <1>10, <1>11

\* A measurement leaves the buffer as it is.
LEMMA CountCheck ==
  ASSUME TypeInv, MadeInv, CountInv, NEW iv \in Intervals, RunCheck(iv)
  PROVE  CountInv'
<1> DEFINE new == checkServiceUsage(CurActivity, iv)
<1>1. run = "busy" /\ UNCHANGED <<phase, counter, handler, made>> /\ now \in Time
  BY DEF RunCheck, TypeInv, EnvType
<1>2. cur \in Current /\ cur # None /\ IsActivity(CurActivity)
  BY <1>1, CurrentType
<1>3. new.activity.requests = CurActivity.requests /\ IsActivity(new.activity)
  BY <1>1, <1>2, Checked
<1>4. \A c \in Clients : Kept(act', cur', c) = Kept(act, cur, c)
  <2>1. CASE cur.removed = None
    <3>1. /\ act' = [act EXCEPT ![cur.c] = new.activity]
          /\ cur' = [cur EXCEPT !.todo = @ \ {iv}]
      BY <2>1 DEF RunCheck
    <3>2. cur.c \in DOMAIN act /\ CurActivity = act[cur.c]
      BY <1>2, <2>1 DEF TypeInv, RunType, CurActivity
    <3> HIDE DEF new
    <3>3. cur'.removed = None
      BY <1>2, <2>1, <3>1, CurrentForm
    <3>4. DOMAIN act' = DOMAIN act /\ \A c \in DOMAIN act : act'[c].requests = act[c].requests
      BY <1>3, <3>1, <3>2
    <3> QED BY <2>1, <3>3, <3>4 DEF Kept
  <2>2. CASE cur.removed # None
    <3>1. act' = act /\ cur' = [cur EXCEPT !.todo = @ \ {iv}, !.removed = new.activity]
      BY <2>2 DEF RunCheck
    <3>2. CurActivity = cur.removed
      BY <2>2 DEF CurActivity
    <3>3. new.activity # None
      BY <1>3, NoneAssumption DEF IsActivity
    <3> HIDE DEF new
    <3>4. cur'.removed = new.activity /\ cur'.c = cur.c
      BY <1>2, <3>1, CurrentForm
    <3>5. cur' # None
      <4>1. TypeInv'
        BY CheckType
      <4> QED BY <1>1, <4>1 DEF RunCheck, TypeInv, RunType
    <3> QED BY <1>2, <1>3, <2>2, <3>1, <3>2, <3>3, <3>4, <3>5 DEF Kept
  <2> QED BY <2>1, <2>2
<1> QED BY <1>1, <1>4, CountForgets

\* A removed activity is the one Run holds, or is forgotten.
LEMMA CountDeletes ==
  ASSUME TypeInv, MadeInv, CountInv, NEW k \in Cleaners, CleanerDeletes(k)
  PROVE  CountInv'
<1> DEFINE d == cleaner[k].doomed
<1>1. /\ act' = [e \in DOMAIN act \ {d} |-> act[e]]
      /\ cur' = IF cur # None /\ cur.c = d /\ cur.removed = None
                THEN [cur EXCEPT !.removed = act[d]] ELSE cur
      /\ UNCHANGED <<phase, counter, handler, made, run>>
  BY DEF CleanerDeletes
<1> HIDE DEF d
<1>2. DOMAIN act' = DOMAIN act \ {d} /\ \A e \in DOMAIN act' : act'[e] = act[e]
  BY <1>1
<1>3. \A c \in Clients : Kept(act', cur', c) \in {Kept(act, cur, c), <<>>}
  <2>1. CASE cur # None /\ cur.c = d /\ cur.removed = None
    <3>1. d \in DOMAIN act /\ cur \in Current
      BY <2>1 DEF TypeInv, RunType
    <3>2. cur'.removed = act[d] /\ cur'.c = d
      BY <1>1, <2>1, <3>1, CurrentForm
    <3>3. cur' # None
      <4>1. TypeInv'
        BY DeletesType
      <4> QED BY <1>1, <2>1, <4>1 DEF TypeInv, RunType
    <3>4. act[d] # None
      BY <3>1, NoneAssumption DEF TypeInv, RunType, IsActivities, IsActivity
    <3> QED BY <1>2, <2>1, <3>1, <3>2, <3>3, <3>4 DEF Kept
  <2>2. CASE ~(cur # None /\ cur.c = d /\ cur.removed = None)
    <3>1. cur' = cur
      BY <1>1, <2>2
    <3> QED BY <1>2, <3>1 DEF Kept
  <2> QED BY <2>1, <2>2
<1> QED BY <1>1, <1>3, CountForgets

\* No step counts a request twice.
LEMMA CountStep == TypeInv /\ MadeInv /\ CountInv /\ [Next]_vars => CountInv'
<1> SUFFICES ASSUME TypeInv, MadeInv, CountInv, [Next]_vars PROVE CountInv'
  OBVIOUS
<1>0. ASSUME UNCHANGED <<phase, act, cur, counter, handler, made>> PROVE CountInv'
  BY <1>0 DEF CountInv
<1>1. CASE UNCHANGED vars
  BY <1>0, <1>1
<1>2. CASE Next
  <2>1. CASE LoadState \/ Restart
    BY <2>1 DEF CountInv, LoadState, Restart
  <2>2. CASE Register
    <3>1. /\ act' = <<>> /\ cur' = None /\ counter' = <<>>
          /\ handler' = [h \in Handlers |-> None] /\ made' = made
      BY <2>2 DEF Register, TypeInv, QuietType, Quiet
    <3> QED BY <3>1, CountIdle DEF CountInv, MadeInv
  <2>3. CASE LoadStateFails \/ End("down")
    <3>1. /\ act' = <<>> /\ cur' = None /\ counter' = <<>>
          /\ handler' = [h \in Handlers |-> None] /\ made' = made
      BY <2>3 DEF LoadStateFails, End
    <3> QED BY <3>1, CountIdle DEF CountInv, MadeInv
  <2>4. CASE Listen \/ Signal
    BY <2>4 DEF CountInv, Listen, Signal
  <2>5. CASE RunStart \/ Reload \/ RunReturns \/ Tick
    BY <2>5, <1>0 DEF RunStart, Reload, RunReturns, Tick
  <2>6. CASE RunIgnores
    BY <2>6, CountIgnores
  <2>7. CASE RunReceive
    BY <2>7, CountReceive
  <2>8. CASE RunDone
    <3>1. cur' = None /\ UNCHANGED <<phase, act, counter, handler, made>>
      BY <2>8 DEF RunDone
    <3>2. \A c \in Clients : Kept(act', cur', c) \in {Kept(act, cur, c), <<>>}
      BY <3>1 DEF Kept, TypeInv, RunType
    <3> QED BY <3>1, <3>2, CountForgets
  <2>9. CASE \E iv \in Intervals : RunCheck(iv)
    BY <2>9, CountCheck
  <2>10. CASE \E h \in Handlers : Post(h)
    BY <2>10, CountPost
  <2>11. CASE \E h \in Handlers, c \in Clients : Arrive(h, c)
    BY <2>11, CountArrive
  <2>12. CASE \E k \in Cleaners : CleanerDeletes(k)
    BY <2>12, CountDeletes
  <2>13. CASE CleanerGoesOn
    BY <2>13, <1>0 DEF CleanerGoesOn, CleanerBegins, CleanerLooks
  <2>14. CASE CleanAssign \/ \E maxAge \in 0..MaxTime, all \in BOOLEAN : CleanSelect(maxAge, all)
    BY <2>14, <1>0 DEF CleanAssign, CleanSelect
  <2>15. CASE SaveCreate \/ SaveHeader \/ SaveValue \/ SaveFails
    BY <2>15, <1>0 DEF SaveCreate, SaveHeader, SaveValue, SaveFails, SaveStep
  <2> QED BY <1>2, <2>1, <2>2, <2>3, <2>4, <2>5, <2>6, <2>7, <2>8, <2>9, <2>10, <2>11,
             <2>12, <2>13, <2>14, <2>15, StepCases
<1> QED BY <1>1, <1>2

-----------------------------------------------------------------------------
(* No alarm is false. *)

\* More requests only add to what a client made.
LEMMA MadeByGrows ==
  ASSUME NEW M, NEW N, M \subseteq N, IsFiniteSet(N), NEW c, NEW iv, NEW m
  PROVE  /\ MadeBy(M, c, iv, m) \in Nat /\ MadeBy(N, c, iv, m) \in Nat
         /\ MadeBy(M, c, iv, m) <= MadeBy(N, c, iv, m)
<1> DEFINE A == {q \in M : q.c = c /\ q.at > m - iv /\ q.at <= m}
           B == {q \in N : q.c = c /\ q.at > m - iv /\ q.at <= m}
<1>1. A \subseteq B /\ B \subseteq N
  OBVIOUS
<1>2. IsFiniteSet(B)
  BY <1>1, FS_Subset
<1>3. IsFiniteSet(A) /\ Cardinality(A) <= Cardinality(B)
  BY <1>1, <1>2, FS_Subset
<1>4. Cardinality(A) \in Nat /\ Cardinality(B) \in Nat
  BY <1>2, <1>3, FS_CardinalityType
<1> QED BY <1>3, <1>4 DEF MadeBy

\* A right measurement stays right ...
LEMMA RightGrows ==
  ASSUME NEW M, NEW N, M \subseteq N, IsFiniteSet(N), NEW a, IsActivity(a), NEW c,
         Right(M, a, c)
  PROVE  Right(N, a, c)
<1> SUFFICES ASSUME NEW iv \in Intervals, NEW i \in DOMAIN a.exceed[iv]
             PROVE  MadeBy(N, c, iv, a.exceed[iv][i].at) >= Limit[iv] + a.exceed[iv][i].value
  BY DEF Right
<1> DEFINE e == a.exceed[iv][i]
<1>1. MadeBy(M, c, iv, e.at) >= Limit[iv] + e.value
  BY DEF Right
<1>2. e \in Exceeding
  <2>1. a.exceed \in Lists
    BY ActivityForm DEF IsActivity
  <2>2. a.exceed[iv] \in Seq(Exceeding)
    BY <2>1 DEF Lists
  <2> QED BY <2>2, LenProperties, ElementOfSeq
<1>3. e.value \in Nat
  BY <1>2 DEF Exceeding
<1> HIDE DEF e
<1>4. /\ MadeBy(M, c, iv, e.at) \in Nat /\ MadeBy(N, c, iv, e.at) \in Nat
      /\ MadeBy(M, c, iv, e.at) <= MadeBy(N, c, iv, e.at)
  BY MadeByGrows
<1>5. MadeBy(N, c, iv, e.at) >= Limit[iv] + e.value
  BY <1>1, <1>3, <1>4, Constants
<1> QED BY <1>5 DEF e

\* ... and a justified report justified.
LEMMA JustifiedGrows ==
  ASSUME NEW M, NEW N, M \subseteq N, IsFiniteSet(N), NEW list \in Seq(Report),
         AllJustified(M, list)
  PROVE  AllJustified(N, list)
<1> SUFFICES ASSUME NEW i \in DOMAIN list PROVE Justified(N, list[i])
  BY DEF AllJustified
<1> DEFINE r == list[i]
<1>1. r \in Report
  BY LenProperties, ElementOfSeq
<1>2. Limit[r.iv] \in Nat
  BY <1>1, Constants DEF Report
<1>3. PICK m \in (r.at - r.iv)..r.at : MadeBy(M, r.c, r.iv, m) > Limit[r.iv]
  BY DEF AllJustified, Justified
<1>4. /\ MadeBy(M, r.c, r.iv, m) \in Nat /\ MadeBy(N, r.c, r.iv, m) \in Nat
      /\ MadeBy(M, r.c, r.iv, m) <= MadeBy(N, r.c, r.iv, m)
  BY MadeByGrows
<1>5. MadeBy(N, r.c, r.iv, m) > Limit[r.iv]
  BY <1>2, <1>3, <1>4
<1> QED BY <1>3, <1>5 DEF Justified

\* Run never counts more than the client made.
LEMMA NumReqBound ==
  ASSUME TypeInv, MadeInv, CountInv, run = "busy", NEW iv \in Intervals
  PROVE  MadeBy(made, cur.c, iv, now) >= NumReqSince(CurActivity, iv)
<1> DEFINE c == cur.c
           s == CurActivity.requests
           t == now - iv
<1>1. /\ cur \in Current /\ cur # None /\ c \in Clients /\ IsActivity(CurActivity) /\ ~Quiet
  BY CurrentType
<1>2. now \in Int /\ iv \in Int /\ t \in Int
  BY Constants DEF TypeInv, EnvType, Time
<1>3. phase \notin {"boot", "loaded"}
  BY <1>1 DEF Quiet
<1>4. s \in Seq(Time)
  BY <1>1, ActivityForm DEF IsActivity, Buffers
<1>5. Kept(act, cur, c) = s
  BY <1>1 DEF Kept, CurActivity, TypeInv, RunType
<1> HIDE DEF c, s, t
<1>6. CountIn(Kept(act, cur, c), After(t)) + CountIn(counter, RequestsAfter(c, t))
        + Cardinality(Serving(handler, c, t)) <= Cardinality(MadeAfter(made, c, t))
  BY <1>1, <1>2, <1>3 DEF CountInv
<1>7. /\ CountIn(Kept(act, cur, c), After(t)) \in Nat
      /\ CountIn(counter, RequestsAfter(c, t)) \in Nat
      /\ Cardinality(Serving(handler, c, t)) \in Nat
      /\ Cardinality(MadeAfter(made, c, t)) \in Nat
  BY <1>1, <1>2, CountTerms
<1>8. {i \in DOMAIN s : s[i] > t} = {i \in DOMAIN s : s[i] \in After(t)}
  <2>1. \A i \in DOMAIN s : s[i] \in Time
    BY <1>4, LenProperties, ElementOfSeq
  <2> QED BY <2>1 DEF After
<1>9. NumReqSince(CurActivity, iv) = CountIn(s, After(t))
  BY <1>8 DEF NumReqSince, CountIn, s, t
<1>10. {q \in made : q.c = c /\ q.at > now - iv /\ q.at <= now} = MadeAfter(made, c, t)
  BY DEF MadeAfter, MadeInv, t
<1>11. MadeBy(made, c, iv, now) = Cardinality(MadeAfter(made, c, t))
  BY <1>10 DEF MadeBy
<1>12. MadeBy(made, c, iv, now) >= NumReqSince(CurActivity, iv)
  BY <1>5, <1>6, <1>7, <1>9, <1>11
<1> QED BY <1>12 DEF c

\* A justified report is added to justified ones.
LEMMA JustifiedAppend ==
  ASSUME NEW M, NEW list \in Seq(Report), NEW r \in Report, AllJustified(M, list), Justified(M, r)
  PROVE  AllJustified(M, Append(list, r))
<1>1. /\ Append(list, r) \in Seq(Report) /\ Len(Append(list, r)) = Len(list) + 1
      /\ \A i \in 1..Len(list) : Append(list, r)[i] = list[i]
      /\ Append(list, r)[Len(list) + 1] = r
  BY AppendProperties
<1>2. /\ DOMAIN list = 1..Len(list) /\ Len(list) \in Nat
      /\ DOMAIN Append(list, r) = 1..(Len(list) + 1)
  BY <1>1, LenProperties
<1> SUFFICES ASSUME NEW i \in 1..(Len(list) + 1) PROVE Justified(M, Append(list, r)[i])
  BY <1>2 DEF AllJustified
<1>3. i \in 1..Len(list) \/ i = Len(list) + 1
  BY <1>2
<1> QED BY <1>1, <1>2, <1>3 DEF AllJustified

\* One turn of checkServiceUsage.
LEMMA AlarmCheck ==
  ASSUME TypeInv, MadeInv, BurstInv, CountInv, AlarmInv, NEW iv \in Intervals, RunCheck(iv)
  PROVE  AlarmInv'
<1> DEFINE new == checkServiceUsage(CurActivity, iv)
           r == NewReport(cur.c, iv, new.numReq)
<1>1. /\ run = "busy" /\ UNCHANGED <<phase, made, clean, file>> /\ now \in Time
      /\ reports' = IF new.isReport THEN Append(reports, r) ELSE reports
  BY DEF RunCheck, NewReport, TypeInv, EnvType
<1>2. cur \in Current /\ cur # None /\ IsActivity(CurActivity) /\ ~Quiet /\ cur.c \in Clients
  BY <1>1, CurrentType
<1>3. MadeBy(made, cur.c, iv, now) >= NumReqSince(CurActivity, iv)
  BY <1>1, NumReqBound
<1>4. \A m : MadeBy(made, cur.c, iv, m) \in Nat
  BY MadeByGrows DEF MadeInv
<1>5. Past(CurActivity, now) /\ Right(made, CurActivity, cur.c)
  <2>1. CASE cur.removed = None
    BY <1>2, <2>1 DEF CurActivity, BurstInv, AlarmInv, TypeInv, RunType, Quiet
  <2>2. CASE cur.removed # None
    BY <1>2, <2>2 DEF CurActivity, BurstInv, AlarmInv
  <2> QED BY <2>1, <2>2
<1>6. Right(made, new.activity, cur.c)
  BY <1>1, <1>2, <1>3, <1>4, <1>5, CheckedRight
<1>7. new.isReport => Justified(made, r)
  BY <1>1, <1>2, <1>3, <1>4, <1>5, CheckedReport
<1>8. new.numReq \in Nat
  BY <1>1, <1>2, Checked
<1>9. r \in Report
  BY <1>1, <1>2, <1>8 DEF NewReport, Report
<1> HIDE DEF r, new
<1>10. AllJustified(made, reports')
  <2>1. reports \in Seq(Report) /\ AllJustified(made, reports)
    BY DEF TypeInv, ReportsType, AlarmInv
  <2>2. CASE new.isReport
    BY <1>1, <1>7, <1>9, <2>1, <2>2, JustifiedAppend
  <2>3. CASE ~new.isReport
    BY <1>1, <2>1, <2>3
  <2> QED BY <2>2, <2>3
<1>11. CASE cur.removed = None
  <2>1. /\ act' = [act EXCEPT ![cur.c] = new.activity]
        /\ cur' = [cur EXCEPT !.todo = @ \ {iv}]
    BY <1>11 DEF RunCheck, new
  <2>2. cur.c \in DOMAIN act
    BY <1>2, <1>11 DEF TypeInv, RunType
  <2>3. cur'.removed = None
    BY <1>2, <1>11, <2>1, CurrentForm
  <2>4. \A c \in DOMAIN act' : Right(made, act'[c], c)
    BY <1>2, <1>6, <2>1, <2>2 DEF AlarmInv, Quiet
  <2> QED BY <1>1, <1>10, <2>3, <2>4 DEF AlarmInv
<1>12. CASE cur.removed # None
  <2>1. act' = act /\ cur' = [cur EXCEPT !.todo = @ \ {iv}, !.removed = new.activity]
    BY <1>12 DEF RunCheck, new
  <2>2. cur'.removed = new.activity /\ cur'.c = cur.c
    BY <1>2, <2>1, CurrentForm
  <2> QED BY <1>1, <1>6, <1>10, <2>1, <2>2 DEF AlarmInv
<1> QED BY <1>11, <1>12

\* Run takes a request.
LEMMA AlarmReceive ==
  ASSUME TypeInv, AlarmInv, RunReceive
  PROVE  AlarmInv'
<1> DEFINE req == Head(counter)
           new == Received(req.c, req.created)
           old == OldActivity(req.c)
<1>1. /\ act' = [c \in DOMAIN act \cup {req.c} |-> IF c = req.c THEN new ELSE act[c]]
      /\ cur' = [c |-> req.c, todo |-> Intervals, removed |-> None]
      /\ counter # <<>> /\ UNCHANGED <<phase, made, reports, clean, file>>
  BY ReceiveForm
<1>2. req.c \in Clients /\ req.created \in Time /\ ~Quiet
  BY <1>1, TailType
<1>3. IsActivities(act)
  BY DEF TypeInv, RunType
<1> HIDE DEF req
<1>4. new.exceed = old.exceed
  BY <1>2, <1>3, ReceivedType
<1>5. Right(made, old, req.c)
  <2>1. CASE req.c \in DOMAIN act
    BY <1>2, <2>1 DEF AlarmInv, OldActivity, Quiet
  <2>2. CASE req.c \notin DOMAIN act
    <3>1. DOMAIN <<>> = {}
      OBVIOUS
    <3> QED BY <2>2, <3>1, EmptyActivity DEF OldActivity, Right
  <2> QED BY <2>1, <2>2
<1> HIDE DEF new, old
<1>6. Right(made, new, req.c)
  BY <1>4, <1>5 DEF Right
<1>7. \A c \in DOMAIN act' : Right(made, act'[c], c)
  BY <1>1, <1>2, <1>6 DEF AlarmInv, Quiet
<1>8. cur'.removed = None /\ UNCHANGED <<phase, made, reports, clean, file>>
  BY <1>1
<1> QED BY <1>7, <1>8 DEF AlarmInv

\* A removal goroutine deletes an entry.
LEMMA AlarmDeletes ==
  ASSUME TypeInv, AlarmInv, NEW k \in Cleaners, CleanerDeletes(k)
  PROVE  AlarmInv'
<1> DEFINE d == cleaner[k].doomed
<1>1. /\ act' = [e \in DOMAIN act \ {d} |-> act[e]]
      /\ cur' = IF cur # None /\ cur.c = d /\ cur.removed = None
                THEN [cur EXCEPT !.removed = act[d]] ELSE cur
      /\ UNCHANGED <<phase, made, reports, clean, file>>
  BY DEF CleanerDeletes
<1> HIDE DEF d
<1>2. phase \notin {"boot", "loaded"} => \A e \in DOMAIN act' : Right(made, act'[e], e)
  BY <1>1 DEF AlarmInv
<1>3. cur' # None /\ cur'.removed # None => Right(made, cur'.removed, cur'.c)
  <2>1. CASE cur # None /\ cur.c = d /\ cur.removed = None
    <3>1. d \in DOMAIN act /\ cur \in Current /\ phase \notin {"boot", "loaded"}
      BY <2>1 DEF TypeInv, RunType, QuietType, Quiet
    <3>2. cur'.removed = act[d] /\ cur'.c = d
      BY <1>1, <2>1, <3>1, CurrentForm
    <3> QED BY <3>1, <3>2 DEF AlarmInv
  <2>2. CASE ~(cur # None /\ cur.c = d /\ cur.removed = None)
    BY <1>1, <2>2 DEF AlarmInv
  <2> QED BY <2>1, <2>2
<1> QED BY <1>1, <1>2, <1>3 DEF AlarmInv

\* HandleCleanAction selects what remains.
LEMMA AlarmSelect ==
  ASSUME TypeInv, AlarmInv, NEW maxAge \in 0..MaxTime, NEW all \in BOOLEAN,
         CleanSelect(maxAge, all)
  PROVE  AlarmInv'
<1> DEFINE dropped == {i \in DOMAIN reports : reports[i].at <= now - maxAge /\ all}
           first == Cardinality(dropped) + 1
           list == SubSeq(reports, first, Len(reports))
<1>1. /\ clean' = [remain |-> list] /\ UNCHANGED <<phase, act, cur, made, reports, file>>
  BY DEF CleanSelect
<1>2. reports \in Seq(Report) /\ Len(reports) \in Nat /\ DOMAIN reports = 1..Len(reports)
  BY LenProperties DEF TypeInv, ReportsType
<1>3. IsFiniteSet(dropped)
  <2>1. IsFiniteSet(DOMAIN reports)
    BY <1>2, FS_Interval
  <2> QED BY <2>1, FS_Subset
<1>4. first \in Nat /\ first >= 1
  BY <1>3, FS_CardinalityType
<1> HIDE DEF first
<1>5. \A i \in first..Len(reports) : reports[i] \in Report
  BY <1>2, <1>4, ElementOfSeq
<1>6. /\ list \in Seq(Report)
      /\ Len(list) = IF first <= Len(reports) THEN Len(reports) - first + 1 ELSE 0
      /\ \A i \in 1..(Len(reports) - first + 1) : list[i] = reports[first + i - 1]
  BY <1>2, <1>4, <1>5, SubSeqProperties
<1> HIDE DEF list
<1>7. DOMAIN list = 1..Len(list)
  BY <1>6, LenProperties
<1>8. \A i \in DOMAIN list : first + i - 1 \in DOMAIN reports /\ list[i] = reports[first + i - 1]
  BY <1>2, <1>4, <1>6, <1>7
<1>9. AllJustified(made, reports)
  BY DEF AlarmInv
<1>10. AllJustified(made, list)
  BY <1>8, <1>9 DEF AllJustified
<1>11. clean'.remain = list
  BY <1>1
<1> QED BY <1>1, <1>10, <1>11 DEF AlarmInv

\* A new request.
LEMMA AlarmArrive ==
  ASSUME TypeInv, MadeInv, AlarmInv, NEW h \in Handlers, NEW c \in Clients, Arrive(h, c)
  PROVE  AlarmInv'
<1>1. made \subseteq made' /\ UNCHANGED <<phase, act, cur, reports, clean, file>>
  BY DEF Arrive
<1>2. IsFiniteSet(made')
  BY FS_AddElement DEF Arrive, MadeInv
<1>3. phase \notin {"boot", "loaded"} => \A d \in DOMAIN act : Right(made', act[d], d)
  BY <1>1, <1>2, RightGrows DEF AlarmInv, TypeInv, RunType, IsActivities
<1>4. cur # None /\ cur.removed # None => Right(made', cur.removed, cur.c)
  BY <1>1, <1>2, RightGrows DEF AlarmInv, TypeInv, RunType
<1>5. AllJustified(made', reports)
  BY <1>1, <1>2, JustifiedGrows DEF AlarmInv, TypeInv, ReportsType
<1>6. clean # None => AllJustified(made', clean.remain)
  BY <1>1, <1>2, JustifiedGrows DEF AlarmInv, TypeInv, ReportsType
<1>7. file.type = "data" => AllJustified(made', file.reports)
  BY <1>1, <1>2, JustifiedGrows DEF AlarmInv, TypeInv, LifeType
<1> QED BY <1>1, <1>3, <1>4, <1>5, <1>6, <1>7 DEF AlarmInv

\* Every step keeps measurements and reports right.
LEMMA AlarmStep ==
  TypeInv /\ MadeInv /\ BurstInv /\ CountInv /\ AlarmInv /\ [Next]_vars => AlarmInv'
<1> SUFFICES ASSUME TypeInv, MadeInv, BurstInv, CountInv, AlarmInv, [Next]_vars PROVE AlarmInv'
  OBVIOUS
<1>0. ASSUME UNCHANGED <<phase, act, cur, reports, clean, file, made>> PROVE AlarmInv'
  BY <1>0 DEF AlarmInv
<1>1. CASE UNCHANGED vars
  BY <1>0, <1>1
<1>2. CASE Next
  <2>0. DOMAIN <<>> = {} /\ AllJustified(made, <<>>)
    BY DEF AllJustified
  <2>1. CASE LoadState
    BY <2>1 DEF AlarmInv, LoadState
  <2>2. CASE Register
    BY <2>0, <2>2 DEF AlarmInv, Register
  <2>3. CASE LoadStateFails \/ End("down")
    BY <2>0, <2>3 DEF AlarmInv, LoadStateFails, End
  <2>4. CASE Restart
    <3>1. phase' = "boot" /\ UNCHANGED <<act, cur, reports, clean, made>>
          /\ (file' = [type |-> "absent"] \/ file' = file)
      BY <2>4 DEF Restart
    <3> QED BY <3>1 DEF AlarmInv
  <2>5. CASE Listen \/ Signal
    BY <2>5 DEF AlarmInv, Listen, Signal
  <2>6. CASE RunStart \/ Reload \/ RunIgnores \/ RunReturns \/ Tick
    BY <2>6, <1>0 DEF RunStart, Reload, RunIgnores, RunReturns, Tick
  <2>7. CASE RunReceive
    BY <2>7, AlarmReceive
  <2>8. CASE RunDone
    BY <2>8 DEF AlarmInv, RunDone
  <2>9. CASE \E iv \in Intervals : RunCheck(iv)
    BY <2>9, AlarmCheck
  <2>10. CASE \E h \in Handlers : Post(h)
    BY <2>10, <1>0 DEF Post
  <2>11. CASE \E h \in Handlers, c \in Clients : Arrive(h, c)
    BY <2>11, AlarmArrive
  <2>12. CASE \E k \in Cleaners : CleanerDeletes(k)
    BY <2>12, AlarmDeletes
  <2>13. CASE CleanerGoesOn
    BY <2>13, <1>0 DEF CleanerGoesOn, CleanerBegins, CleanerLooks
  <2>14. CASE CleanAssign
    BY <2>14 DEF AlarmInv, CleanAssign
  <2>15. CASE \E maxAge \in 0..MaxTime, all \in BOOLEAN : CleanSelect(maxAge, all)
    BY <2>15, AlarmSelect
  <2>16. CASE SaveCreate \/ SaveHeader \/ SaveFails
    BY <2>16 DEF AlarmInv, SaveCreate, SaveHeader, SaveFails, SaveStep
  <2>17. CASE SaveValue
    BY <2>17 DEF AlarmInv, SaveValue, SaveStep
  <2> QED BY <1>2, <2>1, <2>2, <2>3, <2>4, <2>5, <2>6, <2>7, <2>8, <2>9, <2>10, <2>11,
             <2>12, <2>13, <2>14, <2>15, <2>16, <2>17, StepCases
<1> QED BY <1>1, <1>2

-----------------------------------------------------------------------------
(* The theorems. *)

\* The first start.
LEMMA TickerInit == Init => TickerInv
<1> SUFFICES ASSUME Init PROVE TickerInv
  OBVIOUS
<1>1. TypeInv /\ BurstInv
  BY TypeInit, BurstInit
<1>2. SavedInv /\ CountInv
  BY DEF Init, SavedInv, CountInv
<1>3. MadeInv
  BY FS_EmptySet DEF Init, MadeInv
<1>4. AlarmInv
  BY DEF Init, AlarmInv, AllJustified
<1> QED BY <1>1, <1>2, <1>3, <1>4 DEF TickerInv

\* The invariant holds in every state of the process and of its restarts.
THEOREM TickerInvariant == Spec => []TickerInv
<1>1. TickerInv /\ [Next]_vars => TickerInv'
  BY TypeStep, SavedStep, BurstStep, MadeStep, CountStep, AlarmStep DEF TickerInv
<1> QED BY <1>1, TickerInit, PTL DEF Spec

\* Types and bounds hold for every buffer size, capacity and number of
\* handlers: the circular lists (counter.go:87, alarms.go:314) and the channel
\* (alarms.go:384) never outgrow them, also after a LoadState.
THEOREM TypeCorrect == Spec => []TypeOK
<1>1. TickerInv => TypeOK
  BY TypeInvIsType DEF TickerInv
<1> QED BY <1>1, TickerInvariant, PTL

\* A report there was when the exit was requested (service.go:448) is there
\* after a start from a completely saved file (state.go:36-83), unless a
\* HandleCleanAction removed it, whatever Run does during the exit.
THEOREM ReportsSurvive == Spec => []ReportsSurviveRestart
<1>1. TickerInv => ReportsSurviveRestart
  BY DEF TickerInv, SavedInv, ReportsSurviveRestart
<1> QED BY <1>1, TickerInvariant, PTL

\* A measurement which alone reaches the threshold (counter.go:119-142) is
\* reported, unless a report came within minReportsInterval before it
\* (alarms.go:212), for every limit, list size and order of the checks.
THEOREM BurstsReported == Spec => []BurstReported
<1>1. TickerInv => BurstReported
  BY DEF TickerInv, BurstInv, BurstReported, Told, IsBurst
<1> QED BY <1>1, TickerInvariant, PTL

\* Every report (alarms.go:213-229) is about a client which really was above
\* the limit no longer than the interval ago, for every number of handlers,
\* clients and removal goroutines and over any number of restarts.
THEOREM AlarmsAreTrue == Spec => []NoFalseAlarm
<1>1. TickerInv => NoFalseAlarm
  BY DEF TickerInv, AlarmInv, AllJustified, Justified, MadeBy, MadeIn, NoFalseAlarm
<1> QED BY <1>1, TickerInvariant, PTL
=============================================================================
