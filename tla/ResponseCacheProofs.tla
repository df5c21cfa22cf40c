------------------------ MODULE ResponseCacheProofs ------------------------
(***************************************************************************)
(* Which answers the response cache gives, for any requests, keys, number  *)
(* of handlers and size of the queue.                                      *)
(***************************************************************************)
EXTENDS ResponseCache, SequenceTheorems, TLAPS

\* ReadOpts and WriteOpts of a process configured as c.
ReadOptsOf(r, c) ==
  [cookies      |-> c.perSession /\ r.kind # "public",
   post         |-> r.kind \in {"submit", "merge"},
   cacheControl |-> ~c.streaming]
WriteOptsOf(r, c) == IF r.kind = "merge" THEN ReadOptsOf(r, c) ELSE NoOpts

\* An answer to a is stored under k, whatever was left of its body.
Made(k, a, c) ==
  /\ a \in Requests
  /\ \E left \in {a.body, Rest, None} :
       k = GenerateCacheId(a, WriteOptsOf(a, c), left)

TaskStates ==
  [req : Requests, at : Places, left : Bodies \cup {Rest, None},
   key : Key \cup {None}, ans : Answers, linked : BOOLEAN]

\* What a handler has read it has read under the key of its request; what it
\* writes is an answer stored under the key of that answer.
TaskOK(t, c) ==
  /\ t \in TaskStates
  /\ t.at = "get" => t.left = t.req.body
  /\ t.at \in {"expired", "touch", "decode", "hit"} =>
       t.key = GenerateCacheId(t.req, ReadOptsOf(t.req, c), t.req.body)
  /\ t.at \in {"hit", "header", "value"} => Made(t.key, t.ans, c)
  /\ t.at = "set" =>
       /\ t.ans = t.req
       /\ t.req.kind = "merge" => t.left \in {t.req.body, Rest, None}

TasksInv ==
  /\ task \in [Handlers -> {None} \cup TaskStates]
  /\ \A h \in Handlers : task[h] # None => TaskOK(task[h], conf)

\* A file which is there as a whole holds an answer stored under its name.
EntryOK(k, e, c, time) ==
  /\ e \in [ans : Answers, part : {"empty", "header", "whole"},
            touched : 0..time]
  /\ e.part = "whole" => Made(k, e.ans, c)
  /\ c.store # "file" => e.part = "whole"

EntriesInv ==
  /\ DOMAIN entries \subseteq Key
  /\ \A k \in DOMAIN entries : EntryOK(k, entries[k], conf, now)

Items == [op : {"set", "expire"}, key : Key, ans : Answers]
ItemOK(x, c) == x.op = "set" => Made(x.key, x.ans, c)

QueueInv ==
  /\ queue \in Seq(Items)
  /\ Len(queue) <= QueueCap
  /\ \A i \in 1..Len(queue) : ItemOK(queue[i], conf)

FlushInv == flush # None => flush \in [service : Services, todo : SUBSET Key]

CacheInv ==
  /\ conf \in Confs
  /\ now \in 0..MaxTime
  /\ arrived \in 0..MaxRequests
  /\ TasksInv
  /\ EntriesInv
  /\ QueueInv
  /\ FlushInv

-----------------------------------------------------------------------------
(* Keys. *)

LEMMA OptsAre ==
  ASSUME NEW r
  PROVE  ReadOpts(r) = ReadOptsOf(r, conf) /\ WriteOpts(r) = WriteOptsOf(r, conf)
BY DEF ReadOpts, ReadOptsOf, WriteOpts, WriteOptsOf

LEMMA RequestType ==
  ASSUME NEW r \in Requests
  PROVE  /\ r.res \in Resources /\ r.session \in Sessions \cup {None}
         /\ r.body \in Bodies \cup {None}
         /\ r.kind \in {"submit", "merge"} => r.body # None
         /\ r # None
BY ResponseCacheAssumption DEF AnyRequest

\* Concatenation under a name, which the provers take as it is.
Joined(s, t) == s \o t

LEMMA JoinedType ==
  ASSUME NEW C, NEW s \in Seq(C), NEW t \in Seq(C)
  PROVE  Joined(s, t) \in Seq(C)
BY ConcatProperties DEF Joined

LEMMA JoinedEmpty ==
  ASSUME NEW C, NEW s \in Seq(C)
  PROVE  Joined(s, <<>>) = s /\ Joined(<<>>, s) = s
BY ConcatEmptySeq DEF Joined

LEMMA JoinedAssociative ==
  ASSUME NEW C, NEW s \in Seq(C), NEW t \in Seq(C), NEW u \in Seq(C)
  PROVE  Joined(Joined(s, t), u) = Joined(s, Joined(t, u))
BY ConcatAssociative DEF Joined

LEMMA JoinedNonempty ==
  ASSUME NEW C, NEW s \in Seq(C), NEW t \in Seq(C), s # <<>>
  PROVE  Joined(s, t) # <<>>
BY ConcatSimplifications DEF Joined

\* Two ways to cut a text: the shorter beginning begins the longer one, and
\* what is behind it goes on with the rest of that.
LEMMA TwoCuts ==
  ASSUME NEW C, NEW s \in Seq(C), NEW t \in Seq(C), NEW u \in Seq(C),
         NEW v \in Seq(C), Joined(s, u) = Joined(t, v), Len(s) <= Len(t)
  PROVE  /\ IsPrefix(s, t)
         /\ SubSeq(t, Len(s) + 1, Len(t)) \in Seq(C)
         /\ u = Joined(SubSeq(t, Len(s) + 1, Len(t)), v)
         /\ Len(s) < Len(t) => SubSeq(t, Len(s) + 1, Len(t)) # <<>>
         /\ Len(s) = Len(t) => s = t
<1> DEFINE m == Len(s)
           n == Len(t)
           d == SubSeq(t, m + 1, n)
<1>0. s \o u = t \o v
  BY DEF Joined
<1>1. /\ m \in Nat /\ n \in Nat /\ Len(u) \in Nat /\ Len(v) \in Nat
      /\ \A i \in 1..m : s[i] \in C
      /\ \A i \in 1..n : t[i] \in C
  BY LenProperties, ElementOfSeq
<1>2. /\ Len(s \o u) = m + Len(u)
      /\ \A i \in 1..(m + Len(u)) :
           (s \o u)[i] = IF i <= m THEN s[i] ELSE u[i - m]
  BY ConcatProperties
<1>3. /\ Len(t \o v) = n + Len(v)
      /\ \A i \in 1..(n + Len(v)) :
           (t \o v)[i] = IF i <= n THEN t[i] ELSE v[i - n]
  BY ConcatProperties
<1>4. m + Len(u) = n + Len(v)
  BY <1>0, <1>2, <1>3
<1>5. \A i \in 1..m : s[i] = t[i]
  <2> SUFFICES ASSUME NEW i \in 1..m PROVE s[i] = t[i]
    OBVIOUS
  <2>1. i \in 1..(m + Len(u)) /\ i \in 1..(n + Len(v)) /\ i <= m /\ i <= n
    BY <1>1
  <2> QED BY <1>0, <1>2, <1>3, <2>1
<1>6. SubSeq(s, 1, m) = SubSeq(t, 1, m)
  <2>1. /\ SubSeq(s, 1, m) \in Seq(C) /\ Len(SubSeq(s, 1, m)) = m
        /\ \A i \in 1..m : SubSeq(s, 1, m)[i] = s[i]
    BY <1>1
  <2>2. /\ SubSeq(t, 1, m) \in Seq(C) /\ Len(SubSeq(t, 1, m)) = m
        /\ \A i \in 1..m : SubSeq(t, 1, m)[i] = t[i]
    BY <1>1
  <2> QED BY <1>5, <2>1, <2>2, SeqEqual
<1>7. IsPrefix(s, t)
  BY <1>6 DEF IsPrefix
<1>8. /\ d \in Seq(C) /\ Len(d) = n - m
      /\ \A i \in 1..(n - m) : d[i] = t[m + i]
  <2>1. \A i \in (m + 1)..n : t[i] \in C
    BY <1>1
  <2>2. m + 1 \in Int /\ n \in Int
    BY <1>1
  <2> HIDE DEF m, n
  <2>3. /\ d \in Seq(C) /\ Len(d) = IF m + 1 <= n THEN n - (m + 1) + 1 ELSE 0
        /\ \A i \in 1..(n - (m + 1) + 1) : d[i] = t[(m + 1) + i - 1]
    BY <2>1, <2>2, SubSeqProperties
  <2>4. m <= n /\ m \in Nat /\ n \in Nat
    BY <1>1 DEF m, n
  <2>5. ASSUME NEW i \in 1..(n - m) PROVE d[i] = t[m + i]
    <3>1. i \in 1..(n - (m + 1) + 1) /\ (m + 1) + i - 1 = m + i
      BY <2>4
    <3> QED BY <2>3, <3>1
  <2>6. Len(d) = n - m
    BY <2>3, <2>4
  <2> QED BY <2>3, <2>5, <2>6
<1> HIDE DEF d
<1>9. /\ d \o v \in Seq(C) /\ Len(d \o v) = (n - m) + Len(v)
      /\ \A i \in 1..((n - m) + Len(v)) :
           (d \o v)[i] = IF i <= n - m THEN d[i] ELSE v[i - (n - m)]
  <2> HIDE DEF m, n
  <2>1. /\ d \o v \in Seq(C) /\ Len(d \o v) = Len(d) + Len(v)
        /\ \A i \in 1..(Len(d) + Len(v)) :
             (d \o v)[i] = IF i <= Len(d) THEN d[i] ELSE v[i - Len(d)]
    BY <1>8, ConcatProperties, Zenon
  <2> QED BY <1>8, <2>1
<1>10. Len(u) = Len(d \o v)
  BY <1>1, <1>4, <1>9
<1>11. ASSUME NEW i \in 1..Len(u) PROVE u[i] = (d \o v)[i]
  <2>1. /\ m + i \in 1..(m + Len(u)) /\ m + i \in 1..(n + Len(v))
        /\ ~(m + i <= m) /\ (m + i) - m = i
        /\ i \in 1..((n - m) + Len(v))
    BY <1>1, <1>4
  <2>2. u[i] = (t \o v)[m + i]
    BY <1>0, <1>2, <2>1
  <2>3. CASE i <= n - m
    <3>1. m + i <= n /\ i \in 1..(n - m)
      BY <1>1, <2>3
    <3> QED BY <1>3, <1>8, <1>9, <2>1, <2>2, <2>3, <3>1
  <2>4. CASE ~(i <= n - m)
    <3>1. ~(m + i <= n) /\ (m + i) - n = i - (n - m)
      BY <1>1, <2>4
    <3> QED BY <1>3, <1>9, <2>1, <2>2, <2>4, <3>1
  <2> QED BY <2>3, <2>4
<1>12. u = d \o v
  BY <1>9, <1>10, <1>11, SeqEqual
<1>13. m < n => d # <<>>
  BY <1>1, <1>8
<1>14. m = n => s = t
  BY <1>1, <1>5, SeqEqual
<1> QED BY <1>7, <1>8, <1>12, <1>13, <1>14 DEF d, Joined

\* So two beginnings of a text are alike.
LEMMA BeginningsAlike ==
  ASSUME NEW C, NEW s \in Seq(C), NEW t \in Seq(C), NEW u \in Seq(C),
         NEW v \in Seq(C), Joined(s, u) = Joined(t, v)
  PROVE  Alike(s, t)
<1>1. Len(s) \in Nat /\ Len(t) \in Nat
  BY LenProperties
<1>2. CASE Len(s) <= Len(t)
  <2>1. IsPrefix(s, t)
    BY <1>2, TwoCuts, Zenon
  <2> QED BY <2>1 DEF Alike
<1>3. CASE Len(t) <= Len(s)
  <2>1. Joined(t, v) = Joined(s, u)
    OBVIOUS
  <2>2. IsPrefix(t, s)
    BY <1>3, <2>1, TwoCuts, Zenon
  <2> QED BY <2>2 DEF Alike
<1> QED BY <1>1, <1>2, <1>3

LEMMA CancelLeft ==
  ASSUME NEW C, NEW s \in Seq(C), NEW u \in Seq(C), NEW v \in Seq(C),
         Joined(s, u) = Joined(s, v)
  PROVE  u = v
<1>1. s \o u = s \o v
  BY DEF Joined
<1> QED BY <1>1, ConcatSimplifications

\* A text which is there or is left out.
Or(x, E) == x = <<>> \/ \E z \in E : x = Text[z]

TextsOf(E) == \A z \in E : Text[z] \in Seq(Chars) /\ Text[z] # <<>>

\* Something behind a resource begins with the text of a cookie or a body.
LEMMA FirstExtra ==
  ASSUME NEW E, TextsOf(E), NEW s, NEW b, Or(s, E), Or(b, E),
         Joined(s, b) # <<>>
  PROVE  \E z \in E : \E w \in Seq(Chars) : Joined(s, b) = Joined(Text[z], w)
<1>1. s \in Seq(Chars) /\ b \in Seq(Chars)
  BY EmptySeq, Zenon DEF Or, TextsOf
<1>2. CASE \E z \in E : s = Text[z]
  BY <1>1, <1>2
<1>3. CASE s = <<>>
  <2>1. Joined(s, b) = b
    BY <1>1, <1>3, JoinedEmpty
  <2>2. PICK z \in E : b = Text[z]
    BY <2>1 DEF Or
  <2>3. b = Joined(Text[z], <<>>) /\ <<>> \in Seq(Chars)
    BY <1>1, <2>2, JoinedEmpty
  <2> QED BY <2>1, <2>3
<1> QED BY <1>2, <1>3 DEF Or

\* The texts of two resources, if what is hashed is the same.
LEMMA ResourcesAmbiguous ==
  ASSUME NEW E, TextsOf(E), NEW x, NEW y, Text[x] \in Seq(Chars),
         Text[y] \in Seq(Chars), Len(Text[x]) <= Len(Text[y]),
         NEW s, NEW b, Or(s, E), Or(b, E), NEW v \in Seq(Chars),
         Joined(Text[x], Joined(s, b)) = Joined(Text[y], v)
  PROVE  /\ IsPrefix(Text[x], Text[y])
         /\ \/ Text[x] = Text[y]
            \/ \E z \in E : Alike(Behind(x, y), Text[z])
<1>1. s \in Seq(Chars) /\ b \in Seq(Chars)
  BY EmptySeq, Zenon DEF Or, TextsOf
<1>2. Joined(s, b) \in Seq(Chars)
  BY <1>1, JoinedType
<1>3. /\ IsPrefix(Text[x], Text[y]) /\ Behind(x, y) \in Seq(Chars)
      /\ Joined(s, b) = Joined(Behind(x, y), v)
      /\ Len(Text[x]) < Len(Text[y]) => Behind(x, y) # <<>>
      /\ Len(Text[x]) = Len(Text[y]) => Text[x] = Text[y]
  <2> DEFINE p == Text[x]
             q == Text[y]
             u == Joined(s, b)
  <2>1. /\ p \in Seq(Chars) /\ q \in Seq(Chars) /\ u \in Seq(Chars)
        /\ Joined(p, u) = Joined(q, v) /\ Len(p) <= Len(q)
    BY <1>2
  <2> HIDE DEF p, q, u
  <2>2. /\ IsPrefix(p, q)
        /\ SubSeq(q, Len(p) + 1, Len(q)) \in Seq(Chars)
        /\ u = Joined(SubSeq(q, Len(p) + 1, Len(q)), v)
        /\ Len(p) < Len(q) => SubSeq(q, Len(p) + 1, Len(q)) # <<>>
        /\ Len(p) = Len(q) => p = q
    BY <2>1, TwoCuts
  <2> QED BY <2>2 DEF p, q, u, Behind
<1>4. CASE Behind(x, y) # <<>>
  <2>1. Joined(s, b) # <<>>
    BY <1>3, <1>4, JoinedNonempty
  <2>2. PICK z \in E : \E w \in Seq(Chars) : Joined(s, b) = Joined(Text[z], w)
    BY <2>1, FirstExtra
  <2>3. PICK w \in Seq(Chars) : Joined(s, b) = Joined(Text[z], w)
    BY <2>2
  <2>4. Alike(Behind(x, y), Text[z])
    BY <1>3, <2>3, BeginningsAlike DEF TextsOf
  <2> QED BY <1>3, <2>4
<1>5. CASE Behind(x, y) = <<>>
  <2>1. Len(Text[x]) \in Nat /\ Len(Text[y]) \in Nat
    BY LenProperties
  <2> QED BY <1>3, <1>5, <2>1
<1> QED BY <1>4, <1>5

LEMMA TextType ==
  ASSUME NEW r \in Requests
  PROVE  /\ Text[r.res] \in Seq(Chars)
         /\ r.session # None => Text[r.session] \in Seq(Chars) \ {<<>>}
         /\ r.body # None => Text[r.body] \in Seq(Chars) \ {<<>>}
         /\ Text[Rest] \in Seq(Chars) \ {<<>>}
         /\ Tag[r.res] \in Services
BY RequestType, ResponseCacheAssumption

LEMMA KeyText ==
  ASSUME NEW r, NEW opts, NEW left, NEW p, NEW q,
         p = IF opts.cookies THEN TextOf(r.session) ELSE <<>>,
         q = IF opts.post THEN TextOf(left) ELSE <<>>
  PROVE  GenerateCacheId(r, opts, left).text = Joined(Joined(Text[r.res], p), q)
<1> DEFINE w == Joined(Joined(Text[r.res], p), q)
<1>1. GenerateCacheId(r, opts, left) = [tag |-> Tag[r.res], text |-> w]
  BY DEF GenerateCacheId, Joined
<1> HIDE DEF w
<1>2. [tag |-> Tag[r.res], text |-> w].text = w
  OBVIOUS
<1>3. GenerateCacheId(r, opts, left).text = w
  BY <1>1, <1>2
<1> QED BY <1>3 DEF w

LEMMA KeyType ==
  ASSUME NEW r \in Requests, NEW opts, NEW left \in Bodies \cup {Rest, None}
  PROVE  GenerateCacheId(r, opts, left) \in Key
<1> DEFINE p == IF opts.cookies THEN TextOf(r.session) ELSE <<>>
           q == IF opts.post THEN TextOf(left) ELSE <<>>
<1>1. left # None => Text[left] \in Seq(Chars)
  BY ResponseCacheAssumption
<1>2. /\ p \in Seq(Chars) /\ q \in Seq(Chars)
      /\ Text[r.res] \in Seq(Chars) /\ Tag[r.res] \in Services
  BY <1>1, TextType, EmptySeq DEF TextOf
<1> HIDE DEF p, q
<1>3. (Text[r.res] \o p) \o q \in Seq(Chars)
  BY <1>2, ConcatProperties
<1>4. GenerateCacheId(r, opts, left) =
        [tag |-> Tag[r.res], text |-> (Text[r.res] \o p) \o q]
  BY DEF GenerateCacheId, p, q
<1> QED BY <1>2, <1>3, <1>4 DEF Key

\* What is stored is stored under a key.
LEMMA MadeIsKey ==
  ASSUME NEW k, NEW a, NEW c, Made(k, a, c)
  PROVE  k \in Key
<1>1. a \in Requests
  BY DEF Made
<1>2. a.body \in Bodies \cup {None}
  BY <1>1, RequestType
<1> QED BY <1>1, <1>2, KeyType DEF Made

\* The key of a request matches that of a stored answer only if the answer is
\* one to the request, or the two are ambiguous.
LEMMA KeysMatch ==
  ASSUME NEW r \in Requests, NEW a, NEW c \in Confs, NEW k,
         k = GenerateCacheId(r, ReadOptsOf(r, c), r.body), Made(k, a, c),
         ~Ambiguous(r, a)
  PROVE  /\ a.res = r.res
         /\ ReadOptsOf(r, c).post => a.body = r.body
         /\ ReadOptsOf(r, c).cookies /\ r.session # None =>
              a.session = r.session
<1>1. PICK left \in {a.body, Rest, None} :
        k = GenerateCacheId(a, WriteOptsOf(a, c), left)
  BY DEF Made
<1>2. a \in Requests
  BY DEF Made
<1>3. /\ r.session \in Sessions \cup {None} /\ r.body \in Bodies \cup {None}
      /\ r.kind \in {"submit", "merge"} => r.body # None
      /\ r.res \in Resources
  BY RequestType
<1>4. /\ a.session \in Sessions \cup {None} /\ a.body \in Bodies \cup {None}
      /\ a.kind \in {"submit", "merge"} => a.body # None
      /\ a.res \in Resources
  BY <1>2, RequestType
<1>5. Sessions \cap (Bodies \cup {Rest}) = {} /\ None \notin Sessions \cup Bodies
      /\ Rest \notin Bodies /\ Rest # None
  BY ResponseCacheAssumption
<1> DEFINE ro == ReadOptsOf(r, c)
           wo == WriteOptsOf(a, c)
           rs == ro.cookies /\ r.session # None
           ws == wo.cookies /\ a.session # None
           wl == wo.post /\ left # None
           S == IF rs THEN Text[r.session] ELSE <<>>
           B == IF ro.post THEN Text[r.body] ELSE <<>>
           T == IF ws THEN Text[a.session] ELSE <<>>
           D == IF wl THEN Text[left] ELSE <<>>
           X == Text[r.res]
           Y == Text[a.res]
           E == Extras(r, a)
<1>6. ro.post => r.body # None
  BY <1>3 DEF ReadOptsOf
<1>7. k.text = Joined(Joined(X, S), B)
  <2>1. /\ S = IF ro.cookies THEN TextOf(r.session) ELSE <<>>
        /\ B = IF ro.post THEN TextOf(r.body) ELSE <<>>
    BY <1>6 DEF TextOf
  <2> HIDE DEF S, B, ro
  <2>2. k = GenerateCacheId(r, ro, r.body)
    BY DEF ro
  <2> QED BY <2>1, <2>2, KeyText
<1>8. k.text = Joined(Joined(Y, T), D)
  <2>1. /\ T = IF wo.cookies THEN TextOf(a.session) ELSE <<>>
        /\ D = IF wo.post THEN TextOf(left) ELSE <<>>
    BY DEF TextOf
  <2> HIDE DEF T, D, wo
  <2>2. k = GenerateCacheId(a, wo, left)
    BY <1>1 DEF wo
  <2> QED BY <2>1, <2>2, KeyText
<1>9. /\ rs => r.session \in Sessions /\ r.session \in E
      /\ ws => a.session \in Sessions /\ a.session \in E
      /\ wl => left = a.body \/ left = Rest
      /\ wl => left \in Bodies \cup {Rest} /\ left \in E
      /\ ro.post => r.body \in Bodies /\ r.body \in E
  BY <1>1, <1>3, <1>4, <1>5, <1>6 DEF Extras
<1>10. TextsOf(E)
  <2>1. E \subseteq Sessions \cup Bodies \cup {Rest}
    BY <1>3, <1>4 DEF Extras
  <2> QED BY <2>1, ResponseCacheAssumption DEF TextsOf
<1>11. X \in Seq(Chars) /\ Y \in Seq(Chars)
  BY <1>2, TextType
<1> HIDE DEF ro, wo, rs, ws, wl, E
<1>12. Or(S, E) /\ Or(B, E) /\ Or(T, E) /\ Or(D, E)
  BY <1>9 DEF Or
<1>13. /\ S \in Seq(Chars) /\ B \in Seq(Chars)
       /\ T \in Seq(Chars) /\ D \in Seq(Chars)
  BY <1>9, <1>10, EmptySeq DEF TextsOf
<1>14. /\ rs => S = Text[r.session]
       /\ ~rs => S = <<>>
       /\ ro.post => B = Text[r.body]
       /\ ~ro.post => B = <<>>
       /\ ws => T = Text[a.session]
       /\ ~ws => T = <<>>
       /\ wl => D = Text[left]
       /\ ~wl => D = <<>>
  OBVIOUS
<1> HIDE DEF S, B, T, D
<1>15. Joined(X, Joined(S, B)) = Joined(Y, Joined(T, D))
  <2>1. /\ Joined(Joined(X, S), B) = Joined(X, Joined(S, B))
        /\ Joined(Joined(Y, T), D) = Joined(Y, Joined(T, D))
    <3> HIDE DEF X, Y
    <3> QED BY <1>11, <1>13, JoinedAssociative
  <2> QED BY <1>7, <1>8, <2>1
<1>16. Joined(S, B) \in Seq(Chars) /\ Joined(T, D) \in Seq(Chars)
  BY <1>13, JoinedType
<1>17. a.res = r.res
  <2> SUFFICES ASSUME a.res # r.res PROVE FALSE
    OBVIOUS
  <2>1. Len(X) \in Nat /\ Len(Y) \in Nat
    BY <1>11, LenProperties
  <2>2. CASE Len(X) <= Len(Y)
    <3>1. /\ IsPrefix(X, Y)
          /\ X = Y \/ \E z \in E : Alike(Behind(r.res, a.res), Text[z])
      BY <1>10, <1>11, <1>12, <1>15, <1>16, <2>2, ResourcesAmbiguous
    <3> QED BY <3>1 DEF Ambiguous, E
  <2>3. CASE Len(Y) <= Len(X)
    <3>1. /\ IsPrefix(Y, X)
          /\ Y = X \/ \E z \in E : Alike(Behind(a.res, r.res), Text[z])
      BY <1>10, <1>11, <1>12, <1>15, <1>16, <2>3, ResourcesAmbiguous
    <3> QED BY <3>1 DEF Ambiguous, E
  <2> QED BY <2>1, <2>2, <2>3
<1>18. Joined(S, B) = Joined(T, D)
  <2>1. Joined(X, Joined(S, B)) = Joined(X, Joined(T, D))
    BY <1>15, <1>17
  <2> HIDE DEF X
  <2> QED BY <1>11, <1>16, <2>1, CancelLeft, Zenon
<1>19. ASSUME NEW x \in E, NEW y \in E, NEW u \in Seq(Chars),
              NEW v \in Seq(Chars), Joined(Text[x], u) = Joined(Text[y], v)
       PROVE  x = y /\ u = v
  <2>1. Text[x] \in Seq(Chars) /\ Text[y] \in Seq(Chars)
    BY <1>10 DEF TextsOf
  <2>2. Alike(Text[x], Text[y])
    BY <1>19, <2>1, BeginningsAlike
  <2>3. x = y
    BY <2>2 DEF Alike, Ambiguous, E
  <2>4. u = v
    BY <1>19, <2>1, <2>3, CancelLeft
  <2> QED BY <2>3, <2>4
<1>e. ASSUME NEW x \in E, NEW y \in E, NEW u \in Seq(Chars),
              Joined(Text[x], u) = Text[y]
       PROVE  x = y
  <2>1. Text[y] \in Seq(Chars) /\ <<>> \in Seq(Chars)
    BY <1>10, EmptySeq DEF TextsOf
  <2>2. Joined(Text[x], u) = Joined(Text[y], <<>>)
    BY <1>e, <2>1, JoinedEmpty
  <2> QED BY <1>19, <2>1, <2>2
<1>20. \A z \in E : \A u \in Seq(Chars) : Joined(Text[z], u) # <<>>
  BY <1>10, JoinedNonempty DEF TextsOf
<1>21. \A u \in Seq(Chars) : Joined(<<>>, u) = u /\ Joined(u, <<>>) = u
  BY JoinedEmpty
<1>22. /\ rs => ws /\ a.session = r.session
       /\ ws => rs
       /\ B = D
  <2>1. CASE rs /\ ws
    <3>1. Joined(Text[r.session], B) = Joined(Text[a.session], D)
      BY <1>14, <1>18, <2>1
    <3>2. r.session \in E /\ a.session \in E
      BY <1>9, <2>1
    <3>3. r.session = a.session /\ B = D
      BY <1>13, <1>19, <3>1, <3>2
    <3> QED BY <2>1, <3>3
  <2>2. CASE rs /\ ~ws
    <3>1. Joined(Text[r.session], B) = D /\ r.session \in E
      BY <1>9, <1>13, <1>14, <1>18, <1>21, <2>2
    <3>2. wl /\ D = Text[left] /\ left \in E /\ left \in Bodies \cup {Rest}
      BY <1>9, <1>13, <1>14, <1>20, <3>1
    <3>3. Joined(Text[r.session], B) = Text[left]
      BY <3>1, <3>2
    <3>4. r.session = left
      BY <1>13, <1>e, <3>1, <3>2, <3>3
    <3> QED BY <1>5, <1>9, <2>2, <3>2, <3>4
  <2>3. CASE ~rs /\ ws
    <3>1. Joined(Text[a.session], D) = B /\ a.session \in E
      BY <1>9, <1>13, <1>14, <1>18, <1>21, <2>3
    <3>2. ro.post /\ B = Text[r.body] /\ r.body \in E /\ r.body \in Bodies
      BY <1>9, <1>13, <1>14, <1>20, <3>1
    <3>3. Joined(Text[a.session], D) = Text[r.body]
      BY <3>1, <3>2
    <3>4. a.session = r.body
      BY <1>13, <1>e, <3>1, <3>2, <3>3
    <3> QED BY <1>5, <1>9, <2>3, <3>2, <3>4
  <2>4. CASE ~rs /\ ~ws
    BY <1>13, <1>14, <1>18, <1>21, <2>4
  <2> QED BY <2>1, <2>2, <2>3, <2>4
<1>23. ro.post => a.body = r.body
  <2> SUFFICES ASSUME ro.post PROVE a.body = r.body
    OBVIOUS
  <2>1. B = Text[r.body] /\ r.body \in E /\ r.body \in Bodies
    BY <1>9, <1>14
  <2>2. B # <<>>
    BY <1>10, <2>1 DEF TextsOf
  <2>3. wl /\ D = Text[left] /\ left \in E /\ (left = a.body \/ left = Rest)
    BY <1>9, <1>14, <1>22, <2>2
  <2>4. Joined(Text[r.body], <<>>) = Joined(Text[left], <<>>) /\ <<>> \in Seq(Chars)
    BY <1>22, <2>1, <2>3, EmptySeq
  <2>5. r.body = left
    BY <1>19, <2>1, <2>3, <2>4
  <2> QED BY <1>5, <2>1, <2>3, <2>5
<1> QED BY <1>17, <1>22, <1>23 DEF ro, rs

-----------------------------------------------------------------------------
(* What the updates of the records do to their fields. *)

WithAt(t, place) == [t EXCEPT !.at = place]

LEMMA AtUpdate ==
  ASSUME NEW t \in TaskStates, NEW place \in Places, NEW u,
         u = WithAt(t, place)
  PROVE  /\ u \in TaskStates /\ u.at = place /\ u.req = t.req
         /\ u.left = t.left /\ u.key = t.key /\ u.ans = t.ans
BY DEF WithAt, TaskStates

WithKey(t, place, k, a, l) ==
  [t EXCEPT !.at = place, !.key = k, !.ans = a, !.left = l]

LEMMA KeyUpdate ==
  ASSUME NEW t \in TaskStates, NEW place \in Places, NEW k \in Key,
         NEW a \in Answers, NEW l \in Bodies \cup {Rest, None},
         NEW u, u = WithKey(t, place, k, a, l)
  PROVE  /\ u \in TaskStates /\ u.at = place /\ u.req = t.req
         /\ u.left = l /\ u.key = k /\ u.ans = a
BY DEF WithKey, TaskStates

WithAns(t, place, a) == [t EXCEPT !.at = place, !.ans = a]

LEMMA AnsUpdate ==
  ASSUME NEW t \in TaskStates, NEW place \in Places, NEW a \in Answers,
         NEW u, u = WithAns(t, place, a)
  PROVE  /\ u \in TaskStates /\ u.at = place /\ u.req = t.req
         /\ u.left = t.left /\ u.key = t.key /\ u.ans = a
BY DEF WithAns, TaskStates

WithLeft(t, place, a, l) == [t EXCEPT !.at = place, !.ans = a, !.left = l]

LEMMA LeftUpdate ==
  ASSUME NEW t \in TaskStates, NEW place \in Places, NEW a \in Answers,
         NEW l \in Bodies \cup {Rest, None},
         NEW u, u = WithLeft(t, place, a, l)
  PROVE  /\ u \in TaskStates /\ u.at = place /\ u.req = t.req
         /\ u.left = l /\ u.key = t.key /\ u.ans = a
BY DEF WithLeft, TaskStates

WithFile(t, k) == [t EXCEPT !.at = "header", !.key = k, !.linked = TRUE]

LEMMA FileUpdate ==
  ASSUME NEW t \in TaskStates, NEW k \in Key, NEW u, u = WithFile(t, k)
  PROVE  /\ u \in TaskStates /\ u.at = "header" /\ u.req = t.req
         /\ u.left = t.left /\ u.key = k /\ u.ans = t.ans
BY DEF WithFile, TaskStates, Places

WithoutLink(t) == [t EXCEPT !.linked = FALSE]

LEMMA LinkUpdate ==
  ASSUME NEW t \in TaskStates, NEW u, u = WithoutLink(t)
  PROVE  /\ u \in TaskStates /\ u.at = t.at /\ u.req = t.req
         /\ u.left = t.left /\ u.key = t.key /\ u.ans = t.ans
BY DEF WithoutLink, TaskStates

EntryStates(time) ==
  [ans : Answers, part : {"empty", "header", "whole"}, touched : 0..time]

Touched(e, time) == [e EXCEPT !.touched = time]

LEMMA TouchUpdate ==
  ASSUME NEW time \in Nat, NEW e \in EntryStates(time), NEW d,
         d = Touched(e, time)
  PROVE  d \in EntryStates(time) /\ d.ans = e.ans /\ d.part = e.part
<1>1. time \in 0..time
  OBVIOUS
<1> QED BY <1>1 DEF Touched, EntryStates

Headed(e, time, part) == [e EXCEPT !.touched = time, !.part = part]

LEMMA HeadUpdate ==
  ASSUME NEW time \in Nat, NEW e \in EntryStates(time),
         NEW part \in {"empty", "header", "whole"}, NEW d,
         d = Headed(e, time, part)
  PROVE  d \in EntryStates(time) /\ d.ans = e.ans /\ d.part = part
<1>1. time \in 0..time
  OBVIOUS
<1> QED BY <1>1 DEF Headed, EntryStates

-----------------------------------------------------------------------------
(* The steps of a handler. *)

Becomes(h, u) == task' = [task EXCEPT ![h] = u]

LEMMA GoBecomes ==
  ASSUME NEW h \in Handlers, NEW place, Go(h, place)
  PROVE  Becomes(h, WithAt(task[h], place))
BY DEF Go, Becomes, WithAt

LEMMA KeyedBecomes ==
  ASSUME NEW h \in Handlers, NEW place, NEW a, task' = Keyed(h, place, a)
  PROVE  Becomes(h, WithKey(task[h], place, ReadKey(h), a,
           LeftAfterKey(task[h].req, ReadOpts(task[h].req), task[h].left)))
BY DEF Keyed, Becomes, WithKey

LEMMA TaskStep ==
  ASSUME TasksInv, conf' = conf, NEW h \in Handlers, NEW u, Becomes(h, u),
         u = None \/ TaskOK(u, conf)
  PROVE  TasksInv'
<1>1. u \in {None} \cup TaskStates
  BY DEF TaskOK
<1>2. task' \in [Handlers -> {None} \cup TaskStates]
  BY <1>1 DEF TasksInv, Becomes
<1>3. /\ task'[h] = u
      /\ \A g \in Handlers : g # h => task'[g] = task[g]
  BY DEF TasksInv, Becomes
<1> QED BY <1>2, <1>3 DEF TasksInv

\* A step which changes nothing but the state of a handler.
LEMMA OnlyTask ==
  ASSUME CacheInv, NEW h \in Handlers, NEW u, Becomes(h, u),
         u = None \/ TaskOK(u, conf),
         UNCHANGED <<conf, entries, queue, flush, now>>,
         arrived' \in 0..MaxRequests
  PROVE  CacheInv'
<1>1. TasksInv'
  BY TaskStep DEF CacheInv
<1>2. EntriesInv' /\ QueueInv' /\ FlushInv'
  BY DEF CacheInv, EntriesInv, QueueInv, FlushInv
<1> QED BY <1>1, <1>2 DEF CacheInv

LEMMA TaskWas ==
  ASSUME CacheInv, NEW h \in Handlers, task[h] # None
  PROVE  TaskOK(task[h], conf) /\ task[h] \in TaskStates
BY DEF CacheInv, TasksInv, TaskOK

LEMMA ReadKeyIs ==
  ASSUME CacheInv, NEW h \in Handlers, At(h, "get")
  PROVE  /\ ReadKey(h) = GenerateCacheId(task[h].req,
                           ReadOptsOf(task[h].req, conf), task[h].req.body)
         /\ ReadKey(h) \in Key
<1>1. /\ TaskOK(task[h], conf) /\ task[h] \in TaskStates
      /\ task[h].left = task[h].req.body
  BY TaskWas DEF At, TaskOK
<1>2. task[h].req \in Requests /\ task[h].left \in Bodies \cup {Rest, None}
  BY <1>1 DEF TaskStates
<1>3. ReadKey(h) = GenerateCacheId(task[h].req, ReadOptsOf(task[h].req, conf),
                                   task[h].req.body)
  BY <1>1, OptsAre DEF ReadKey
<1> QED BY <1>1, <1>2, <1>3, KeyType

\* FromCache made the key of the request.
LEMMA KeyedOK ==
  ASSUME CacheInv, NEW h \in Handlers, At(h, "get"),
         NEW place \in {"hit", "fetch", "failed", "expired", "touch"},
         NEW a \in Answers,
         place = "hit" => Made(ReadKey(h), a, conf),
         NEW l, l = LeftAfterKey(task[h].req, ReadOpts(task[h].req),
                                 task[h].left),
         NEW u, u = WithKey(task[h], place, ReadKey(h), a, l)
  PROVE  TaskOK(u, conf)
<1>1. TaskOK(task[h], conf) /\ task[h] \in TaskStates
  BY TaskWas DEF At
<1>2. /\ ReadKey(h) = GenerateCacheId(task[h].req,
                        ReadOptsOf(task[h].req, conf), task[h].req.body)
      /\ ReadKey(h) \in Key
  BY ReadKeyIs
<1>3. l \in Bodies \cup {Rest, None}
  BY <1>1 DEF LeftAfterKey, TaskStates
<1>4. place \in Places
  BY DEF Places
<1>5. /\ u \in TaskStates /\ u.at = place /\ u.req = task[h].req
      /\ u.left = l /\ u.key = ReadKey(h) /\ u.ans = a
  BY <1>1, <1>2, <1>3, <1>4, KeyUpdate
<1> QED BY <1>2, <1>5 DEF TaskOK

\* A step to a place where nothing is known of the key.
LEMMA GoOK ==
  ASSUME CacheInv, NEW h \in Handlers, task[h] # None,
         NEW place \in {"fetch", "failed"}, NEW u, u = WithAt(task[h], place)
  PROVE  TaskOK(u, conf)
<1>1. TaskOK(task[h], conf) /\ task[h] \in TaskStates
  BY TaskWas
<1>2. place \in Places
  BY DEF Places
<1>3. u \in TaskStates /\ u.at = place
  BY <1>1, <1>2, AtUpdate
<1> QED BY <1>3 DEF TaskOK

LEMMA ArriveKeeps ==
  ASSUME CacheInv, NEW h \in Handlers, NEW r \in Requests, Arrive(h, r)
  PROVE  CacheInv'
<1> DEFINE u == [req |-> r, at |-> "get", left |-> r.body, key |-> None,
                 ans |-> None, linked |-> FALSE]
<1>1. Becomes(h, u) /\ UNCHANGED <<conf, entries, queue, flush, now>>
  BY DEF Arrive, Becomes
<1>2. arrived' \in 0..MaxRequests
  BY ResponseCacheAssumption DEF Arrive, CacheInv
<1>3. r.body \in Bodies \cup {Rest, None}
  BY RequestType
<1>4. TaskOK(u, conf)
  BY <1>3 DEF TaskOK, TaskStates, Places, Answers
<1> HIDE DEF u
<1> QED BY <1>1, <1>2, <1>4, OnlyTask

LEMMA GoKeeps ==
  ASSUME CacheInv, NEW h \in Handlers, task[h] # None,
         NEW place \in {"fetch", "failed"}, Go(h, place),
         UNCHANGED <<conf, entries, queue, flush, now, arrived>>
  PROVE  CacheInv'
<1> DEFINE u == WithAt(task[h], place)
<1>1. Becomes(h, u)
  BY GoBecomes
<1>2. TaskOK(u, conf)
  BY GoOK
<1> HIDE DEF u
<1>3. arrived' \in 0..MaxRequests
  BY DEF CacheInv
<1> QED BY <1>1, <1>2, <1>3, OnlyTask

LEMMA DoneKeeps ==
  ASSUME CacheInv, NEW h \in Handlers, Done(h),
         UNCHANGED <<conf, entries, queue, flush, now, arrived>>
  PROVE  CacheInv'
<1>1. Becomes(h, None) /\ arrived' \in 0..MaxRequests
  BY DEF Done, Becomes, CacheInv
<1> QED BY <1>1, OnlyTask

LEMMA KeyedKeeps ==
  ASSUME CacheInv, NEW h \in Handlers, At(h, "get"),
         NEW place \in {"hit", "fetch", "failed", "expired", "touch"},
         NEW a \in Answers,
         place = "hit" => Made(ReadKey(h), a, conf),
         task' = Keyed(h, place, a), conf' = conf
  PROVE  TasksInv'
<1> DEFINE l == LeftAfterKey(task[h].req, ReadOpts(task[h].req), task[h].left)
           u == WithKey(task[h], place, ReadKey(h), a, l)
<1>1. Becomes(h, u)
  BY KeyedBecomes
<1>2. TaskOK(u, conf)
  <2>1. l = LeftAfterKey(task[h].req, ReadOpts(task[h].req), task[h].left)
    OBVIOUS
  <2> HIDE DEF l
  <2> QED BY <2>1, KeyedOK
<1> HIDE DEF u
<1> QED BY <1>1, <1>2, TaskStep DEF CacheInv

LEMMA OthersKept ==
  ASSUME CacheInv, TasksInv',
         UNCHANGED <<conf, entries, queue, flush, now, arrived>>
  PROVE  CacheInv'
<1>1. EntriesInv' /\ QueueInv' /\ FlushInv'
  BY DEF CacheInv, EntriesInv, QueueInv, FlushInv
<1> QED BY <1>1 DEF CacheInv

LEMMA GetMissKeeps ==
  ASSUME CacheInv, NEW h \in Handlers,
         GetRedisMiss(h) \/ GetRedisFails(h) \/ GetFile(h)
  PROVE  CacheInv'
<1>1. At(h, "get") /\ UNCHANGED <<conf, entries, queue, flush, now, arrived>>
  BY DEF GetRedisMiss, GetRedisFails, GetFile, Reads
<1>2. PICK place \in {"fetch", "failed", "expired", "touch"} :
        task' = Keyed(h, place, None)
  BY DEF GetRedisMiss, GetRedisFails, GetFile
<1>3. None \in Answers
  BY DEF Answers
<1>4. TasksInv'
  BY <1>1, <1>2, <1>3, KeyedKeeps
<1> QED BY <1>1, <1>4, OthersKept

LEMMA GetDecodeKeeps ==
  ASSUME CacheInv, NEW h \in Handlers, GetDecode(h)
  PROVE  CacheInv'
<1> DEFINE t == task[h]
           e == entries[t.key]
           place == IF e.part = "whole" THEN "hit" ELSE "failed"
           u == WithAns(t, place, e.ans)
<1>1. /\ t # None /\ t.at = "decode" /\ t.key \in DOMAIN entries
      /\ UNCHANGED <<conf, entries, queue, flush, now, arrived>>
  BY DEF GetDecode, At, Exists
<1>2. Becomes(h, u)
  BY DEF GetDecode, Becomes, WithAns
<1>3. TaskOK(t, conf) /\ t \in TaskStates
  BY <1>1, TaskWas
<1>4. EntryOK(t.key, e, conf, now)
  BY <1>1 DEF CacheInv, EntriesInv
<1>5. /\ place \in Places /\ place \in {"hit", "failed"}
      /\ place = "hit" => e.part = "whole"
  BY DEF Places
<1>6. e.ans \in Answers /\ (place = "hit" => Made(t.key, e.ans, conf))
  BY <1>4, <1>5 DEF EntryOK
<1> HIDE DEF place, t, e
<1>7. /\ u \in TaskStates /\ u.at = place /\ u.req = t.req
      /\ u.left = t.left /\ u.key = t.key /\ u.ans = e.ans
  BY <1>3, <1>5, <1>6, AnsUpdate
<1> HIDE DEF u
<1>8. TaskOK(u, conf)
  BY <1>1, <1>3, <1>5, <1>6, <1>7 DEF TaskOK
<1>9. TasksInv'
  BY <1>1, <1>2, <1>8, TaskStep DEF CacheInv
<1> QED BY <1>1, <1>9, OthersKept

LEMMA FetchKeeps ==
  ASSUME CacheInv, NEW h \in Handlers, FetchAnswer(h) \/ FetchParts(h)
  PROVE  CacheInv'
<1> DEFINE t == task[h]
<1>1. /\ t # None /\ UNCHANGED <<conf, entries, queue, flush, now, arrived>>
  BY DEF FetchAnswer, FetchParts, At
<1>2. TaskOK(t, conf) /\ t \in TaskStates
  BY <1>1, TaskWas
<1>3. t.req \in Requests /\ t.req \in Answers /\ "set" \in Places
  BY <1>2 DEF TaskStates, Answers, Places
<1>4. ASSUME NEW l \in Bodies \cup {Rest, None},
             t.req.kind = "merge" => l \in {t.req.body, Rest, None},
             Becomes(h, WithLeft(t, "set", t.req, l))
      PROVE  CacheInv'
  <2> DEFINE u == WithLeft(t, "set", t.req, l)
  <2>1. /\ u \in TaskStates /\ u.at = "set" /\ u.req = t.req
        /\ u.left = l /\ u.key = t.key /\ u.ans = t.req
    <3> HIDE DEF t
    <3> QED BY <1>2, <1>3, LeftUpdate
  <2>2. Becomes(h, u)
    BY <1>4
  <2> HIDE DEF u
  <2>3. TaskOK(u, conf)
    BY <1>4, <2>1 DEF TaskOK
  <2>4. TasksInv'
    BY <1>1, <2>2, <2>3, TaskStep DEF CacheInv
  <2> QED BY <1>1, <2>4, OthersKept
<1>5. CASE FetchAnswer(h)
  <2> DEFINE u == WithAns(t, "set", t.req)
  <2>1. Becomes(h, u) /\ t.req.kind # "merge"
    BY <1>5 DEF FetchAnswer, Becomes, WithAns
  <2>2. /\ u \in TaskStates /\ u.at = "set" /\ u.req = t.req
        /\ u.left = t.left /\ u.key = t.key /\ u.ans = t.req
    <3> HIDE DEF t
    <3> QED BY <1>2, <1>3, AnsUpdate
  <2> HIDE DEF u
  <2>3. TaskOK(u, conf)
    BY <2>1, <2>2 DEF TaskOK
  <2>4. TasksInv'
    BY <1>1, <2>1, <2>3, TaskStep DEF CacheInv
  <2> QED BY <1>1, <2>4, OthersKept
<1>6. CASE FetchParts(h)
  <2>1. PICK l \in {t.req.body, Rest, None} :
          Becomes(h, WithLeft(t, "set", t.req, l))
    BY <1>6 DEF FetchParts, Becomes, WithLeft
  <2>2. l \in Bodies \cup {Rest, None}
    BY <1>3, RequestType
  <2> QED BY <1>4, <2>1, <2>2
<1> QED BY <1>5, <1>6

\* The answer a handler is about to store is stored under its key.
LEMMA WriteKeyMade ==
  ASSUME CacheInv, NEW h \in Handlers, Writes(h)
  PROVE  Made(WriteKey(h), task[h].ans, conf) /\ WriteKey(h) \in Key
<1> DEFINE t == task[h]
<1>1. t # None /\ t.at = "set"
  BY DEF Writes, At
<1>2. TaskOK(t, conf) /\ t \in TaskStates
  BY <1>1, TaskWas
<1>3. /\ t.ans = t.req /\ t.req \in Requests
      /\ t.left \in Bodies \cup {Rest, None}
      /\ t.req.kind = "merge" => t.left \in {t.req.body, Rest, None}
  BY <1>1, <1>2 DEF TaskOK, TaskStates
<1>4. WriteKey(h) = GenerateCacheId(t.req, WriteOptsOf(t.req, conf), t.left)
  BY OptsAre DEF WriteKey
<1>5. WriteKey(h) \in Key
  BY <1>3, <1>4, KeyType
<1>6. ASSUME NEW l \in {t.req.body, Rest, None},
             WriteKey(h) = GenerateCacheId(t.req, WriteOptsOf(t.req, conf), l)
      PROVE  Made(WriteKey(h), t.ans, conf)
  <2> HIDE DEF t
  <2> QED BY <1>3, <1>6, Zenon DEF Made
<1>7. CASE t.req.kind = "merge"
  BY <1>3, <1>4, <1>5, <1>6, <1>7
<1>8. CASE t.req.kind # "merge"
  <2>1. GenerateCacheId(t.req, WriteOptsOf(t.req, conf), t.left) =
          GenerateCacheId(t.req, WriteOptsOf(t.req, conf), t.req.body)
    BY <1>8 DEF GenerateCacheId, WriteOptsOf, NoOpts
  <2> QED BY <1>4, <1>5, <1>6, <2>1
<1> QED BY <1>5, <1>7, <1>8

-----------------------------------------------------------------------------
(* The queue of Redis. *)

\* An item is appended if there is room.
LEMMA QueueAppended ==
  ASSUME QueueInv, conf' = conf, NEW x \in Items, ItemOK(x, conf),
         queue' = IF Len(queue) < QueueCap THEN Append(queue, x) ELSE queue
  PROVE  QueueInv'
<1>1. CASE Len(queue) < QueueCap
  <2>1. queue' = Append(queue, x)
    BY <1>1
  <2>2. /\ queue' \in Seq(Items) /\ Len(queue') = Len(queue) + 1
        /\ \A i \in 1..Len(queue) : queue'[i] = queue[i]
        /\ queue'[Len(queue) + 1] = x
    BY <2>1, AppendProperties DEF QueueInv
  <2>3. Len(queue) \in Nat /\ QueueCap \in Nat
    BY ResponseCacheAssumption DEF QueueInv
  <2>4. ASSUME NEW i \in 1..Len(queue') PROVE ItemOK(queue'[i], conf)
    <3>1. CASE i \in 1..Len(queue)
      BY <2>2, <3>1 DEF QueueInv
    <3>2. CASE i \notin 1..Len(queue)
      <4>1. i = Len(queue) + 1
        BY <2>2, <2>3, <3>2
      <4> QED BY <2>2, <4>1
    <3> QED BY <3>1, <3>2
  <2> QED BY <1>1, <2>2, <2>3, <2>4 DEF QueueInv
<1>2. CASE ~(Len(queue) < QueueCap)
  BY <1>2 DEF QueueInv
<1> QED BY <1>1, <1>2

LEMMA QueueWorkedOff ==
  ASSUME QueueInv, conf' = conf, queue # <<>>, queue' = Tail(queue)
  PROVE  /\ QueueInv'
         /\ Head(queue) \in Items /\ ItemOK(Head(queue), conf)
<1>1. queue \in Seq(Items) /\ Len(queue) \in Nat /\ Len(queue) > 0
  BY EmptySeq, LenProperties DEF QueueInv
<1>2. Head(queue) = queue[1] /\ Head(queue) \in Items
  BY <1>1, HeadTailProperties DEF QueueInv
<1>3. /\ queue' \in Seq(Items) /\ Len(queue') = Len(queue) - 1
      /\ \A i \in 1..Len(queue') : queue'[i] = queue[i + 1]
  BY <1>1, HeadTailProperties
<1>4. ItemOK(Head(queue), conf)
  BY <1>1, <1>2 DEF QueueInv
<1>5. Len(queue') <= QueueCap
  BY <1>1, <1>3, ResponseCacheAssumption DEF QueueInv
<1>6. ASSUME NEW i \in 1..Len(queue') PROVE ItemOK(queue'[i], conf)
  <2>1. i + 1 \in 1..Len(queue)
    BY <1>1, <1>3
  <2> QED BY <1>3, <2>1 DEF QueueInv
<1> QED BY <1>2, <1>3, <1>4, <1>5, <1>6 DEF QueueInv

LEMMA GetRedisHitKeeps ==
  ASSUME CacheInv, NEW h \in Handlers, GetRedisHit(h)
  PROVE  CacheInv'
<1> DEFINE k == ReadKey(h)
           x == [op |-> "expire", key |-> k, ans |-> None]
<1>1. /\ At(h, "get") /\ k \in DOMAIN entries /\ conf.store = "redis"
      /\ UNCHANGED <<conf, entries, flush, now, arrived>>
      /\ task' = Keyed(h, "hit", entries[k].ans)
  BY DEF GetRedisHit, Reads
<1>2. queue' = IF Len(queue) < QueueCap THEN Append(queue, x) ELSE queue
  BY DEF GetRedisHit
<1>3. EntryOK(k, entries[k], conf, now)
  BY <1>1 DEF CacheInv, EntriesInv
<1>4. entries[k].ans \in Answers /\ Made(k, entries[k].ans, conf)
  BY <1>1, <1>3 DEF EntryOK
<1>5. TasksInv'
  BY <1>1, <1>4, KeyedKeeps
<1>6. x \in Items /\ ItemOK(x, conf)
  BY <1>1, ReadKeyIs DEF Items, ItemOK, Answers
<1> HIDE DEF x
<1>7. QueueInv'
  BY <1>1, <1>2, <1>6, QueueAppended DEF CacheInv
<1>8. EntriesInv' /\ FlushInv'
  BY <1>1 DEF CacheInv, EntriesInv, FlushInv
<1> QED BY <1>1, <1>5, <1>7, <1>8 DEF CacheInv

LEMMA SetRedisKeeps ==
  ASSUME CacheInv, NEW h \in Handlers, SetRedis(h)
  PROVE  CacheInv'
<1> DEFINE x == [op |-> "set", key |-> WriteKey(h), ans |-> task[h].ans]
<1>1. /\ Writes(h) /\ UNCHANGED <<conf, entries, flush, now, arrived>>
      /\ Becomes(h, None)
  BY DEF SetRedis, Done, Becomes
<1>2. queue' = IF Len(queue) < QueueCap THEN Append(queue, x) ELSE queue
  BY DEF SetRedis
<1>3. Made(WriteKey(h), task[h].ans, conf) /\ WriteKey(h) \in Key
  BY <1>1, WriteKeyMade
<1>4. task[h].ans \in Answers
  BY <1>3 DEF Made, Answers
<1>5. x \in Items /\ ItemOK(x, conf)
  BY <1>3, <1>4 DEF Items, ItemOK
<1> HIDE DEF x
<1>6. QueueInv'
  BY <1>1, <1>2, <1>5, QueueAppended DEF CacheInv
<1>7. TasksInv'
  BY <1>1, TaskStep DEF CacheInv
<1>8. EntriesInv' /\ FlushInv'
  BY <1>1 DEF CacheInv, EntriesInv, FlushInv
<1> QED BY <1>1, <1>6, <1>7, <1>8 DEF CacheInv

-----------------------------------------------------------------------------
(* The store. *)

\* A step after which the entry of k is e, and the others are what they were.
LEMMA EntryWritten ==
  ASSUME EntriesInv, NEW k \in Key, NEW e, EntryOK(k, e, conf, now),
         conf' = conf, now' = now,
         DOMAIN entries' \subseteq DOMAIN entries \cup {k},
         \A l \in DOMAIN entries' :
           \/ l = k /\ entries'[l] = e
           \/ l \in DOMAIN entries /\ entries'[l] = entries[l]
  PROVE  EntriesInv'
<1>1. DOMAIN entries' \subseteq Key
  BY DEF EntriesInv
<1>2. ASSUME NEW l \in DOMAIN entries' PROVE EntryOK(l, entries'[l], conf, now)
  BY <1>2 DEF EntriesInv
<1> QED BY <1>1, <1>2 DEF EntriesInv

\* Who has a file open which is deleted goes on with it.
LEMMA UnlinkedOK ==
  ASSUME CacheInv, NEW k, NEW g \in Handlers
  PROVE  Unlinked(k)[g] = None \/ TaskOK(Unlinked(k)[g], conf)
<1>1. Unlinked(k)[g] = task[g] \/
        (task[g] # None /\ Unlinked(k)[g] = WithoutLink(task[g]))
  BY DEF Unlinked, WithoutLink
<1>2. CASE Unlinked(k)[g] = task[g]
  BY <1>2 DEF CacheInv, TasksInv
<1>3. CASE task[g] # None /\ Unlinked(k)[g] = WithoutLink(task[g])
  <2> DEFINE t == task[g]
             u == WithoutLink(t)
  <2>1. TaskOK(t, conf) /\ t \in TaskStates
    BY <1>3, TaskWas
  <2> HIDE DEF t
  <2>2. /\ u \in TaskStates /\ u.at = t.at /\ u.req = t.req
        /\ u.left = t.left /\ u.key = t.key /\ u.ans = t.ans
    BY <2>1, LinkUpdate
  <2> HIDE DEF u
  <2>3. TaskOK(u, conf)
    BY <2>1, <2>2 DEF TaskOK
  <2> QED BY <1>3, <2>3 DEF u, t
<1> QED BY <1>1, <1>2, <1>3

LEMMA DeletedKeeps ==
  ASSUME EntriesInv, NEW k, entries' = Without(k), conf' = conf, now' = now
  PROVE  EntriesInv'
<1>1. /\ DOMAIN entries' \subseteq DOMAIN entries
      /\ \A l \in DOMAIN entries' : entries'[l] = entries[l]
  BY DEF Without
<1> QED BY <1>1 DEF EntriesInv

LEMMA GetExpiredKeeps ==
  ASSUME CacheInv, NEW h \in Handlers, GetExpired(h)
  PROVE  CacheInv'
<1> DEFINE k == task[h].key
           new == Unlinked(k)
           u == WithAt(task[h], "fetch")
<1>1. /\ task[h] # None /\ task[h].at = "expired"
      /\ UNCHANGED <<conf, queue, flush, now, arrived>>
      /\ entries' = Without(k)
      /\ task' = [new EXCEPT ![h].at = "fetch"]
  BY DEF GetExpired, At
<1>2. new[h] = task[h] /\ new = [g \in Handlers |-> new[g]]
  BY <1>1 DEF Unlinked
<1>3. TaskOK(u, conf)
  BY <1>1, GoOK
<1>4. \A g \in Handlers : new[g] = None \/ TaskOK(new[g], conf)
  BY UnlinkedOK
<1> HIDE DEF new, k
<1>5. task' = [new EXCEPT ![h] = u]
  BY <1>1, <1>2 DEF WithAt
<1> HIDE DEF u
<1>6. ASSUME NEW g \in Handlers
      PROVE  task'[g] = None \/ TaskOK(task'[g], conf)
  BY <1>2, <1>3, <1>4, <1>5
<1>7. task' = [g \in Handlers |-> task'[g]]
  BY <1>2, <1>5
<1>8. TasksInv'
  <2>1. \A g \in Handlers : task'[g] \in {None} \cup TaskStates
    BY <1>6 DEF TaskOK
  <2> QED BY <1>1, <1>6, <1>7, <2>1 DEF TasksInv
<1>9. EntriesInv'
  BY <1>1, DeletedKeeps DEF CacheInv
<1>10. QueueInv' /\ FlushInv'
  BY <1>1 DEF CacheInv, QueueInv, FlushInv
<1> QED BY <1>1, <1>8, <1>9, <1>10 DEF CacheInv

LEMMA EntryTouched ==
  ASSUME CacheInv, NEW k \in DOMAIN entries, NEW d,
         d = Touched(entries[k], now)
  PROVE  EntryOK(k, d, conf, now) /\ k \in Key
<1>1. EntryOK(k, entries[k], conf, now) /\ k \in Key /\ now \in Nat
  BY DEF CacheInv, EntriesInv
<1>2. entries[k] \in EntryStates(now)
  BY <1>1 DEF EntryOK, EntryStates
<1>3. /\ d \in EntryStates(now)
      /\ d.ans = entries[k].ans /\ d.part = entries[k].part
  BY <1>1, <1>2, TouchUpdate
<1> QED BY <1>1, <1>3 DEF EntryOK, EntryStates

LEMMA GetTouchKeeps ==
  ASSUME CacheInv, NEW h \in Handlers, GetTouch(h)
  PROVE  CacheInv'
<1> DEFINE t == task[h]
           k == t.key
           d == Touched(entries[k], now)
           u == WithAt(t, "decode")
<1>1. /\ t # None /\ t.at = "touch" /\ k \in DOMAIN entries
      /\ UNCHANGED <<conf, queue, flush, now, arrived>>
      /\ Becomes(h, u)
  BY GoBecomes DEF GetTouch, At, Exists
<1>2. entries' = [entries EXCEPT ![k] = d]
  BY DEF GetTouch, Touched
<1>3. EntryOK(k, d, conf, now) /\ k \in Key
  BY <1>1, EntryTouched
<1>4. TaskOK(t, conf) /\ t \in TaskStates /\ "decode" \in Places
  BY <1>1, TaskWas DEF Places
<1> HIDE DEF d
<1>5. EntriesInv'
  BY <1>1, <1>2, <1>3, EntryWritten DEF CacheInv
<1> HIDE DEF t
<1>6. /\ u \in TaskStates /\ u.at = "decode" /\ u.req = t.req
      /\ u.left = t.left /\ u.key = t.key /\ u.ans = t.ans
  BY <1>4, AtUpdate
<1> HIDE DEF u
<1>7. TaskOK(u, conf)
  BY <1>1, <1>4, <1>6 DEF TaskOK
<1>8. TasksInv'
  BY <1>1, <1>7, TaskStep DEF CacheInv
<1>9. QueueInv' /\ FlushInv'
  BY <1>1 DEF CacheInv, QueueInv, FlushInv
<1> QED BY <1>1, <1>5, <1>8, <1>9 DEF CacheInv

LEMMA SetOpenKeeps ==
  ASSUME CacheInv, NEW h \in Handlers, SetOpen(h)
  PROVE  CacheInv'
<1> DEFINE t == task[h]
           k == WriteKey(h)
           d == [ans |-> None, part |-> "empty", touched |-> now]
           u == WithFile(t, k)
<1>1. /\ t # None /\ t.at = "set" /\ Writes(h) /\ conf.store = "file"
      /\ UNCHANGED <<conf, queue, flush, now, arrived>>
  BY DEF SetOpen, Writes, At
<1>2. Becomes(h, u)
  BY DEF SetOpen, Becomes, WithFile
<1>3. entries' = [l \in DOMAIN entries \cup {k} |->
                    IF l \in DOMAIN entries THEN entries[l] ELSE d]
  BY DEF SetOpen
<1>4. Made(k, t.ans, conf) /\ k \in Key
  BY <1>1, WriteKeyMade
<1>5. TaskOK(t, conf) /\ t \in TaskStates
  BY <1>1, TaskWas
<1>6. EntryOK(k, d, conf, now)
  BY <1>1 DEF EntryOK, Answers, CacheInv
<1> HIDE DEF t, k, d
<1>7. EntriesInv'
  BY <1>1, <1>3, <1>4, <1>6, EntryWritten DEF CacheInv
<1>8. /\ u \in TaskStates /\ u.at = "header" /\ u.req = t.req
      /\ u.left = t.left /\ u.key = k /\ u.ans = t.ans
  BY <1>4, <1>5, FileUpdate
<1> HIDE DEF u
<1>9. TaskOK(u, conf)
  BY <1>4, <1>8 DEF TaskOK
<1>10. TasksInv'
  BY <1>1, <1>2, <1>9, TaskStep DEF CacheInv
<1>11. QueueInv' /\ FlushInv'
  BY <1>1 DEF CacheInv, QueueInv, FlushInv
<1> QED BY <1>1, <1>7, <1>10, <1>11 DEF CacheInv

LEMMA SetHeaderKeeps ==
  ASSUME CacheInv, NEW h \in Handlers, SetHeader(h)
  PROVE  CacheInv'
<1> DEFINE t == task[h]
           k == t.key
           u == WithAt(t, "value")
<1>1. /\ t # None /\ t.at = "header"
      /\ UNCHANGED <<conf, queue, flush, now, arrived>>
      /\ Becomes(h, u)
  BY GoBecomes DEF SetHeader, At
<1>2. TaskOK(t, conf) /\ t \in TaskStates /\ "value" \in Places
  BY <1>1, TaskWas DEF Places
<1>3. EntriesInv'
  <2>1. CASE ~t.linked \/ k \notin DOMAIN entries
    <3>1. /\ DOMAIN entries' = DOMAIN entries
          /\ \A l \in DOMAIN entries : entries'[l] = entries[l]
      BY <2>1 DEF SetHeader
    <3> QED BY <1>1, <3>1 DEF CacheInv, EntriesInv
  <2>2. CASE t.linked /\ k \in DOMAIN entries
    <3> DEFINE e == entries[k]
               p == IF e.part = "empty" THEN "header" ELSE e.part
               d == Headed(e, now, p)
    <3>1. entries' = [entries EXCEPT ![k] = d]
      BY <2>2 DEF SetHeader, Headed
    <3>2. EntryOK(k, e, conf, now) /\ k \in Key /\ now \in Nat
      BY <2>2 DEF CacheInv, EntriesInv
    <3>3. e \in EntryStates(now)
      BY <3>2 DEF EntryOK, EntryStates
    <3>4. /\ p \in {"empty", "header", "whole"}
          /\ p = "whole" => e.part = "whole"
          /\ e.part = "whole" => p = "whole"
      BY <3>3 DEF EntryStates
    <3> HIDE DEF p, e
    <3>5. d \in EntryStates(now) /\ d.ans = e.ans /\ d.part = p
      BY <3>2, <3>3, <3>4, HeadUpdate
    <3> HIDE DEF d
    <3>6. EntryOK(k, d, conf, now)
      BY <3>2, <3>4, <3>5 DEF EntryOK, EntryStates
    <3> QED BY <1>1, <3>1, <3>2, <3>6, EntryWritten DEF CacheInv
  <2> QED BY <2>1, <2>2
<1> HIDE DEF t
<1>4. /\ u \in TaskStates /\ u.at = "value" /\ u.req = t.req
      /\ u.left = t.left /\ u.key = t.key /\ u.ans = t.ans
  BY <1>2, AtUpdate
<1> HIDE DEF u
<1>5. TaskOK(u, conf)
  BY <1>1, <1>2, <1>4 DEF TaskOK
<1>6. TasksInv'
  BY <1>1, <1>5, TaskStep DEF CacheInv
<1>7. QueueInv' /\ FlushInv'
  BY <1>1 DEF CacheInv, QueueInv, FlushInv
<1> QED BY <1>1, <1>3, <1>6, <1>7 DEF CacheInv

\* An entry with an answer stored under its key.
LEMMA WholeOK ==
  ASSUME CacheInv, NEW k, NEW a, Made(k, a, conf), NEW d,
         d = [ans |-> a, part |-> "whole", touched |-> now]
  PROVE  EntryOK(k, d, conf, now)
<1>1. a \in Answers /\ now \in 0..now
  BY DEF Made, Answers, CacheInv
<1> QED BY <1>1 DEF EntryOK

LEMMA SetValueKeeps ==
  ASSUME CacheInv, NEW h \in Handlers, SetValue(h)
  PROVE  CacheInv'
<1> DEFINE t == task[h]
           k == t.key
           d == [ans |-> t.ans, part |-> "whole", touched |-> now]
<1>1. /\ t # None /\ t.at = "value"
      /\ UNCHANGED <<conf, queue, flush, now, arrived>>
      /\ Becomes(h, None)
  BY DEF SetValue, At, Done, Becomes
<1>2. entries' = entries \/ entries' = [entries EXCEPT ![k] = d]
  BY DEF SetValue
<1>3. TaskOK(t, conf) /\ t \in TaskStates
  BY <1>1, TaskWas
<1>4. k \in Key /\ Made(k, t.ans, conf)
  BY <1>1, <1>3, MadeIsKey DEF TaskOK
<1>5. EntryOK(k, d, conf, now)
  BY <1>4, WholeOK
<1> HIDE DEF d, k
<1>6. EntriesInv'
  <2>1. CASE entries' = entries
    BY <1>1, <2>1 DEF CacheInv, EntriesInv
  <2>2. CASE entries' = [entries EXCEPT ![k] = d]
    BY <1>1, <1>4, <1>5, <2>2, EntryWritten DEF CacheInv
  <2> QED BY <1>2, <2>1, <2>2
<1>7. TasksInv'
  BY <1>1, TaskStep DEF CacheInv
<1>8. QueueInv' /\ FlushInv'
  BY <1>1 DEF CacheInv, QueueInv, FlushInv
<1> QED BY <1>1, <1>6, <1>7, <1>8 DEF CacheInv

LEMMA WriterKeeps ==
  ASSUME CacheInv, WriterSet \/ WriterExpire \/ WriterFails
  PROVE  CacheInv'
<1> DEFINE x == Head(queue)
<1>1. /\ queue # <<>> /\ queue' = Tail(queue)
      /\ UNCHANGED <<conf, task, flush, now, arrived>>
  BY DEF WriterSet, WriterExpire, WriterFails
<1>2. QueueInv' /\ x \in Items /\ ItemOK(x, conf)
  BY <1>1, QueueWorkedOff DEF CacheInv
<1>3. EntriesInv'
  <2>1. CASE WriterFails
    BY <1>1, <2>1 DEF WriterFails, CacheInv, EntriesInv
  <2>2. CASE WriterSet
    <3> DEFINE k == x.key
               d == [ans |-> x.ans, part |-> "whole", touched |-> now]
    <3>1. entries' = [l \in DOMAIN entries \cup {k} |->
                        IF l # k THEN entries[l] ELSE d]
      BY <2>2 DEF WriterSet
    <3>2. k \in Key /\ Made(k, x.ans, conf)
      BY <1>2, <2>2 DEF WriterSet, Items, ItemOK
    <3>3. EntryOK(k, d, conf, now)
      BY <3>2, WholeOK
    <3> HIDE DEF d, k
    <3> QED BY <1>1, <3>1, <3>2, <3>3, EntryWritten DEF CacheInv
  <2>3. CASE WriterExpire
    <3> DEFINE k == x.key
               d == Touched(entries[k], now)
    <3>1. \/ entries' = entries
          \/ k \in DOMAIN entries /\ entries' = [entries EXCEPT ![k] = d]
      BY <2>3 DEF WriterExpire, Touched
    <3>2. CASE entries' = entries
      BY <1>1, <3>2 DEF CacheInv, EntriesInv
    <3>3. CASE k \in DOMAIN entries /\ entries' = [entries EXCEPT ![k] = d]
      <4>1. EntryOK(k, d, conf, now) /\ k \in Key
        BY <3>3, EntryTouched
      <4> HIDE DEF d, k
      <4> QED BY <1>1, <3>3, <4>1, EntryWritten DEF CacheInv
    <3> QED BY <3>1, <3>2, <3>3
  <2> QED BY <2>1, <2>2, <2>3
<1>4. TasksInv' /\ FlushInv'
  BY <1>1 DEF CacheInv, TasksInv, FlushInv
<1> QED BY <1>1, <1>2, <1>3, <1>4 DEF CacheInv

-----------------------------------------------------------------------------
(* Flush, the end of the process and the clock. *)

LEMMA FlushStartKeeps ==
  ASSUME CacheInv, NEW S \in Services, FlushStart(S)
  PROVE  CacheInv'
<1>1. UNCHANGED <<conf, task, entries, queue, now, arrived>>
  BY DEF FlushStart
<1>2. flush' \in [service : Services, todo : SUBSET Key]
  BY DEF FlushStart, CacheInv, EntriesInv
<1>3. TasksInv' /\ EntriesInv' /\ QueueInv'
  BY <1>1 DEF CacheInv, TasksInv, EntriesInv, QueueInv
<1> QED BY <1>1, <1>2, <1>3 DEF CacheInv, FlushInv

LEMMA TodoUpdate ==
  ASSUME NEW f \in [service : Services, todo : SUBSET Key], NEW k
  PROVE  [f EXCEPT !.todo = @ \ {k}] \in [service : Services, todo : SUBSET Key]
OBVIOUS

LEMMA FlushDeleteKeeps ==
  ASSUME CacheInv, NEW k, FlushDelete(k)
  PROVE  CacheInv'
<1>1. /\ flush # None /\ UNCHANGED <<conf, queue, now, arrived>>
      /\ entries' = Without(k) /\ task' = Unlinked(k)
      /\ flush' = [flush EXCEPT !.todo = @ \ {k}]
  BY DEF FlushDelete
<1>2. FlushInv'
  BY <1>1, TodoUpdate DEF CacheInv, FlushInv
<1>3. EntriesInv'
  BY <1>1, DeletedKeeps DEF CacheInv
<1>4. TasksInv'
  <2>1. task' = [g \in Handlers |-> task'[g]]
    BY <1>1 DEF Unlinked
  <2>2. ASSUME NEW g \in Handlers
        PROVE  task'[g] = None \/ TaskOK(task'[g], conf)
    BY <1>1, UnlinkedOK
  <2>3. \A g \in Handlers : task'[g] \in {None} \cup TaskStates
    BY <2>2 DEF TaskOK
  <2> QED BY <1>1, <2>1, <2>2, <2>3 DEF TasksInv
<1>5. QueueInv'
  BY <1>1 DEF CacheInv, QueueInv
<1> QED BY <1>1, <1>2, <1>3, <1>4, <1>5 DEF CacheInv

LEMMA FlushOnKeeps ==
  ASSUME CacheInv, FlushEnds \/ \E k : FlushVanished(k)
  PROVE  CacheInv'
<1>1. UNCHANGED <<conf, task, entries, queue, now, arrived>>
  BY DEF FlushEnds, FlushVanished
<1>2. FlushInv'
  <2>1. CASE FlushEnds
    BY <2>1 DEF FlushEnds, FlushInv
  <2>2. ASSUME NEW k, FlushVanished(k) PROVE FlushInv'
    <3>1. /\ flush # None
          /\ flush' = None \/ flush' = [flush EXCEPT !.todo = @ \ {k}]
      BY <2>2 DEF FlushVanished
    <3> QED BY <3>1, TodoUpdate DEF CacheInv, FlushInv
  <2> QED BY <2>1, <2>2
<1>3. TasksInv' /\ EntriesInv' /\ QueueInv'
  BY <1>1 DEF CacheInv, TasksInv, EntriesInv, QueueInv
<1> QED BY <1>1, <1>2, <1>3 DEF CacheInv

LEMMA KilledKeeps ==
  ASSUME CacheInv, Killed
  PROVE  CacheInv'
<1>1. /\ UNCHANGED <<conf, entries, now, arrived>> /\ flush' = None
      /\ queue' = <<>> /\ task' = [h \in Handlers |-> None]
  BY DEF Killed
<1>2. TasksInv' /\ EntriesInv' /\ FlushInv'
  BY <1>1 DEF CacheInv, TasksInv, EntriesInv, FlushInv
<1>3. QueueInv'
  BY <1>1, EmptySeq, ResponseCacheAssumption DEF QueueInv
<1> QED BY <1>1, <1>2, <1>3 DEF CacheInv

LEMMA TickKeeps ==
  ASSUME CacheInv, Tick
  PROVE  CacheInv'
<1>1. /\ UNCHANGED <<conf, task, entries, queue, flush, arrived>>
      /\ now' = now + 1 /\ now \in Nat /\ now' \in 0..MaxTime
  BY ResponseCacheAssumption DEF Tick, CacheInv
<1>2. ASSUME NEW k \in DOMAIN entries
      PROVE  EntryOK(k, entries[k], conf, now + 1)
  <2>1. EntryOK(k, entries[k], conf, now) /\ 0..now \subseteq 0..(now + 1)
    BY <1>1 DEF CacheInv, EntriesInv
  <2> QED BY <2>1 DEF EntryOK
<1>3. EntriesInv'
  BY <1>1, <1>2 DEF CacheInv, EntriesInv
<1>4. TasksInv' /\ QueueInv' /\ FlushInv'
  BY <1>1 DEF CacheInv, TasksInv, QueueInv, FlushInv
<1> QED BY <1>1, <1>3, <1>4 DEF CacheInv

-----------------------------------------------------------------------------

LEMMA HandleKeeps ==
  ASSUME CacheInv, NEW h \in Handlers, Handle(h)
  PROVE  CacheInv'
<1>1. GetSkip(h) \/ GetVanished(h) \/ CacheErrorIgnored(h) => CacheInv'
  BY GoKeeps DEF GetSkip, GetVanished, CacheErrorIgnored, At
<1>2. Hit(h) \/ CacheErrorEnds(h) \/ FetchEnds(h) \/ SetSkip(h) \/ SetFails(h)
        => CacheInv'
  BY DoneKeeps DEF Hit, CacheErrorEnds, FetchEnds, SetSkip, SetFails
<1> QED
  BY <1>1, <1>2, GetRedisHitKeeps, GetMissKeeps, GetExpiredKeeps,
     GetTouchKeeps, GetDecodeKeeps, FetchKeeps, SetRedisKeeps, SetOpenKeeps,
     SetHeaderKeeps, SetValueKeeps DEF Handle, Get, Answer, Set

\* The invariant the theorems follow from (src/proxy/cache, src/proxy/cache.go,
\* src/proxy/response.go).
THEOREM CacheInvariant == Spec => []CacheInv
<1>1. Init => CacheInv
  <2> SUFFICES ASSUME Init PROVE CacheInv
    OBVIOUS
  <2>1. TasksInv /\ EntriesInv /\ FlushInv
    BY DEF Init, TasksInv, EntriesInv, FlushInv
  <2>2. QueueInv
    BY EmptySeq, ResponseCacheAssumption DEF Init, QueueInv
  <2>3. conf \in Confs /\ now \in 0..MaxTime /\ arrived \in 0..MaxRequests
    BY ResponseCacheAssumption DEF Init
  <2> QED BY <2>1, <2>2, <2>3 DEF CacheInv
<1>2. CacheInv /\ [Next]_vars => CacheInv'
  <2> SUFFICES ASSUME CacheInv, [Next]_vars PROVE CacheInv'
    OBVIOUS
  <2>1. ASSUME NEW h \in Handlers,
               Handle(h) \/ \E r \in Requests : Arrive(h, r)
        PROVE  CacheInv'
    BY <2>1, HandleKeeps, ArriveKeeps
  <2>2. CASE UNCHANGED vars
    BY <2>2 DEF vars, CacheInv, TasksInv, EntriesInv, QueueInv, FlushInv
  <2> QED
    BY <2>1, <2>2, WriterKeeps, FlushStartKeeps, FlushDeleteKeeps,
       FlushOnKeeps, KilledKeeps, TickKeeps DEF Next
<1> QED BY <1>1, <1>2, PTL DEF Spec

\* Every variable keeps its type; the queue of Redis its capacity.
THEOREM TypeCorrect == Spec => []TypeOK
<1>1. CacheInv => TypeOK
  <2> SUFFICES ASSUME CacheInv PROVE TypeOK
    OBVIOUS
  <2>1. ASSUME NEW k \in DOMAIN entries
        PROVE  /\ entries[k] \in [ans : Answers, touched : 0..now,
                                  part : {"empty", "header", "whole"}]
               /\ entries[k].part = "whole" => entries[k].ans # None
    <3>1. EntryOK(k, entries[k], conf, now)
      BY DEF CacheInv, EntriesInv
    <3> QED BY <3>1, RequestType DEF EntryOK, Made
  <2>2. flush # None => flush.service \in Services /\ flush.todo \subseteq Key
    BY DEF CacheInv, FlushInv
  <2> QED
    BY <2>1, <2>2 DEF CacheInv, TasksInv, TaskStates, EntriesInv, QueueInv,
                      Items, TypeOK
<1> QED BY <1>1, CacheInvariant, PTL

\* A hit is an answer to the request: keys of which a body or a cookie is
\* missing never meet those of other requests, in whatever order handlers write,
\* refresh and delete the entries (proxy/cache.go:35-66, proxy/response.go,
\* proxy/cache/file/file.go, proxy/cache/redis/redis.go), whatever the texts
\* are.  Excepted are requests the hashed texts of which are ambiguous for want
\* of separators, and the sessions of the answers given to requests without one.
THEOREM HitsAnswerTheRequest == Spec => []HitAnswersTheRequest
<1>1. CacheInv => HitAnswersTheRequest
  <2> SUFFICES ASSUME CacheInv, NEW h \in Handlers, At(h, "hit"),
                      ~Ambiguous(task[h].req, task[h].ans)
               PROVE  LET r == task[h].req
                          a == task[h].ans
                      IN  /\ a.res = r.res
                          /\ ReadOpts(r).post => a.body = r.body
                          /\ ReadOpts(r).cookies /\ r.session # None =>
                               a.session = r.session
    BY DEF HitAnswersTheRequest
  <2> DEFINE t == task[h]
  <2>1. t # None /\ t.at = "hit" /\ conf \in Confs
    BY DEF At, CacheInv
  <2>2. TaskOK(t, conf) /\ t \in TaskStates
    BY <2>1, TaskWas
  <2>3. /\ t.req \in Requests /\ Made(t.key, t.ans, conf)
        /\ t.key = GenerateCacheId(t.req, ReadOptsOf(t.req, conf), t.req.body)
    BY <2>1, <2>2 DEF TaskOK, TaskStates
  <2>5. ~Ambiguous(t.req, t.ans)
    OBVIOUS
  <2>4. /\ t.ans.res = t.req.res
        /\ ReadOptsOf(t.req, conf).post => t.ans.body = t.req.body
        /\ ReadOptsOf(t.req, conf).cookies /\ t.req.session # None =>
             t.ans.session = t.req.session
    <3> HIDE DEF t
    <3> QED BY <2>1, <2>3, <2>5, KeysMatch
  <2> QED BY <2>4, OptsAre
<1> QED BY <1>1, CacheInvariant, PTL
=============================================================================
