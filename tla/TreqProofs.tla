----------------------------- MODULE TreqProofs -----------------------------
(***************************************************************************)
(* The shared fallback cookie and the parallel parts of Treq, for any      *)
(* number of handlers, requests, logins and parts.                         *)
(***************************************************************************)
EXTENDS Treq, FiniteSetTheorems, TLAPS

\* A handler which is not done has a request.
HasRequest(s) ==
  s.pc \notin {"idle", "log"} => s.kind \in Kinds /\ s.r \in AnyRequest

\* The goroutines which have not called wg.Done().
Active(s) == {p \in Parts : s.work[p] \in {"fetch", "write", "error"}}

\* Goroutines run only while the handler waits for them, and the WaitGroup has
\* counted them.
PartsRun(s) ==
  /\ s.pc \notin {"parts", "flushed"} =>
       /\ \A p \in Parts : s.work[p] = "none" /\ s.snap[p] = {}
       /\ s.merged = {} /\ s.out = {} /\ s.todo = {}
  /\ \A p \in s.todo : s.work[p] = "none"
  /\ s.wg = Cardinality(Active(s))
  /\ s.pc = "flushed" => Active(s) = {}

\* What was merged so far is in an event, or about to be written as one.
PartsWritten(s, streaming) ==
  streaming =>
    \/ s.merged = {} \/ s.merged \in s.out
    \/ \E p \in Parts : s.work[p] = "write" /\ s.snap[p] = s.merged

\* What holds of every handler, when n sessions were given and the fallback
\* cookie is c.  A session a handler has got is the last one given.
Local(s, streaming, n, c) ==
  /\ s \in HandlerStates
  /\ HasRequest(s)
  /\ PartsRun(s)
  /\ PartsWritten(s, streaming)
  /\ s.pc = "answered" => n > 0 /\ s.login = Issued[n]
  /\ s.pc \in {"apply", "call", "parts"} /\ s.fallback => c # None

OneLogin == \A g, h \in LoggingIn : g = h

SharedInv ==
  /\ conf \in Confs
  /\ live \subseteq Sessions
  /\ issued \in 0..Len(Issued)
  /\ queued \in 0..AlarmCap
  /\ cookie # None => \E i \in 1..issued : cookie = Issued[i]

TreqInv ==
  /\ SharedInv
  /\ hs \in [Handlers -> HandlerStates]
  /\ \A h \in Handlers : Local(hs[h], conf.streaming, issued, cookie)
  /\ OneLogin

-----------------------------------------------------------------------------
(* What the updates of a handler's record do to its fields. *)

Pcs == {"idle", "evaluate", "reauth", "login", "answered", "wait", "check",
        "apply", "call", "parts", "flushed", "log"}

\* The request is still the same; so are the parts.
SameRequest(s, t) ==
  t \in HandlerStates /\ t.kind = s.kind /\ t.r = s.r
SameParts(s, t) ==
  /\ t.work = s.work /\ t.merged = s.merged /\ t.snap = s.snap
  /\ t.out = s.out /\ t.todo = s.todo /\ t.wg = s.wg

WithPc(s, place) == [s EXCEPT !.pc = place]

LEMMA PcUpdate ==
  ASSUME NEW s \in HandlerStates, NEW place \in Pcs,
         NEW t, t = WithPc(s, place)
  PROVE  /\ SameRequest(s, t) /\ t.pc = place /\ t.fallback = s.fallback
         /\ t.login = s.login
         /\ SameParts(s, t)
         /\ t.user = s.user /\ t.sent = s.sent
BY DEF WithPc, HandlerStates, Pcs, SameRequest, SameParts

WithLogin(s, place, l) == [s EXCEPT !.pc = place, !.login = l]

LEMMA LoginUpdate ==
  ASSUME NEW s \in HandlerStates, NEW place \in Pcs,
         NEW l \in IssuedSessions \cup {None},
         NEW t, t = WithLogin(s, place, l)
  PROVE  /\ SameRequest(s, t) /\ t.pc = place /\ t.fallback = s.fallback
         /\ t.login = l
         /\ SameParts(s, t)
         /\ t.user = s.user /\ t.sent = s.sent
BY DEF WithLogin, HandlerStates, Pcs, SameRequest, SameParts

WithEvaluation(s, place, u, b) ==
  [s EXCEPT !.user = u, !.fallback = b, !.pc = place]

LEMMA EvaluateUpdate ==
  ASSUME NEW s \in HandlerStates, NEW place \in Pcs, NEW u \in Users,
         NEW b \in BOOLEAN,
         NEW t, t = WithEvaluation(s, place, u, b)
  PROVE  /\ SameRequest(s, t) /\ t.pc = place /\ t.fallback = b
         /\ SameParts(s, t)
         /\ t.user = u /\ t.sent = s.sent
BY DEF WithEvaluation, HandlerStates, Pcs, SameRequest, SameParts

WithSent(s, u, x, k) ==
  [s EXCEPT !.pc = "call", !.user = u, !.sent = x, !.key = k]

LEMMA SentUpdate ==
  ASSUME NEW s \in HandlerStates, NEW u \in Users, NEW x \in SUBSET Cookies,
         NEW k \in Cookies,
         NEW t, t = WithSent(s, u, x, k)
  PROVE  /\ SameRequest(s, t) /\ t.pc = "call" /\ t.fallback = s.fallback
         /\ SameParts(s, t)
         /\ t.user = u /\ t.sent = x /\ t.key = k
BY DEF WithSent, HandlerStates, SameRequest, SameParts

WithTodo(s, u, d) == [s EXCEPT !.pc = "parts", !.user = u, !.todo = d]

LEMMA TodoUpdate ==
  ASSUME NEW s \in HandlerStates, NEW u \in Users, NEW d \in SUBSET Parts,
         NEW t, t = WithTodo(s, u, d)
  PROVE  /\ SameRequest(s, t) /\ t.pc = "parts" /\ t.fallback = s.fallback
         /\ t.work = s.work /\ t.merged = s.merged /\ t.snap = s.snap
         /\ t.out = s.out /\ t.todo = d /\ t.wg = s.wg
         /\ t.sent = s.sent
BY DEF WithTodo, HandlerStates, SameRequest

WithSentAgain(s, x) == [s EXCEPT !.sent = x, !.key = None]

LEMMA SentAgainUpdate ==
  ASSUME NEW s \in HandlerStates, NEW x \in SUBSET Cookies,
         NEW t, t = WithSentAgain(s, x)
  PROVE  /\ SameRequest(s, t) /\ t.pc = s.pc /\ t.fallback = s.fallback
         /\ SameParts(s, t)
         /\ t.sent = x
BY DEF WithSentAgain, HandlerStates, SameRequest, SameParts, Cookies

WithSpawned(s, p, n) ==
  [s EXCEPT !.todo = @ \ {p}, !.work[p] = "fetch", !.wg = n]

LEMMA SpawnUpdate ==
  ASSUME NEW s \in HandlerStates, NEW p \in Parts, NEW n \in 0..MaxLines,
         NEW t, t = WithSpawned(s, p, n)
  PROVE  /\ SameRequest(s, t) /\ t.pc = s.pc /\ t.fallback = s.fallback
         /\ t.work = [s.work EXCEPT ![p] = "fetch"]
         /\ t.merged = s.merged /\ t.snap = s.snap
         /\ t.out = s.out /\ t.todo = s.todo \ {p} /\ t.wg = n
         /\ t.sent = s.sent
BY DEF WithSpawned, HandlerStates, SameRequest

WithOnlySent(s, x) == [s EXCEPT !.sent = x]

LEMMA OnlySentUpdate ==
  ASSUME NEW s \in HandlerStates, NEW x \in SUBSET Cookies,
         NEW t, t = WithOnlySent(s, x)
  PROVE  /\ SameRequest(s, t) /\ t.pc = s.pc /\ t.fallback = s.fallback
         /\ SameParts(s, t)
         /\ t.sent = x
BY DEF WithOnlySent, HandlerStates, SameRequest, SameParts

WithError(s, p) == [s EXCEPT !.work[p] = "error"]

LEMMA ErrorUpdate ==
  ASSUME NEW s \in HandlerStates, NEW p \in Parts, NEW t, t = WithError(s, p)
  PROVE  /\ SameRequest(s, t) /\ t.pc = s.pc /\ t.fallback = s.fallback
         /\ t.work = [s.work EXCEPT ![p] = "error"]
         /\ t.merged = s.merged /\ t.snap = s.snap
         /\ t.out = s.out /\ t.todo = s.todo /\ t.wg = s.wg
         /\ t.sent = s.sent
BY DEF WithError, HandlerStates, SameRequest

WithMerged(s, p, m, x) ==
  [s EXCEPT !.work[p] = "write", !.merged = m, !.snap[p] = m, !.sent = x]

LEMMA MergeUpdate ==
  ASSUME NEW s \in HandlerStates, NEW p \in Parts, NEW x \in SUBSET Cookies,
         NEW m \in SUBSET Parts,
         NEW t, t = WithMerged(s, p, m, x)
  PROVE  /\ SameRequest(s, t) /\ t.pc = s.pc /\ t.fallback = s.fallback
         /\ t.work = [s.work EXCEPT ![p] = "write"]
         /\ t.merged = m
         /\ t.snap = [s.snap EXCEPT ![p] = m]
         /\ t.out = s.out /\ t.todo = s.todo /\ t.wg = s.wg
         /\ t.sent = x
BY DEF WithMerged, HandlerStates, SameRequest

WithOut(s, o) == [s EXCEPT !.out = o]

LEMMA OutUpdate ==
  ASSUME NEW s \in HandlerStates,
         NEW o \in SUBSET ((SUBSET Parts) \cup {ErrorText}),
         NEW t, t = WithOut(s, o)
  PROVE  /\ SameRequest(s, t) /\ t.pc = s.pc /\ t.fallback = s.fallback
         /\ t.work = s.work /\ t.merged = s.merged /\ t.snap = s.snap
         /\ t.out = o /\ t.todo = s.todo /\ t.wg = s.wg
         /\ t.sent = s.sent
BY DEF WithOut, HandlerStates, SameRequest

LEMMA ReturnUpdate ==
  ASSUME NEW s \in HandlerStates, NEW p \in Parts, s.wg - 1 \in 0..MaxLines,
         NEW t, t = Returned(s, p)
  PROVE  /\ SameRequest(s, t) /\ t.pc = s.pc /\ t.fallback = s.fallback
         /\ t.work = [s.work EXCEPT ![p] = "done"]
         /\ t.merged = s.merged
         /\ t.snap = [s.snap EXCEPT ![p] = {}]
         /\ t.out = s.out /\ t.todo = s.todo /\ t.wg = s.wg - 1
         /\ t.sent = s.sent
BY DEF Returned, HandlerStates, SameRequest

LEMMA IdleState ==
  /\ Idle \in HandlerStates
  /\ Idle.pc = "idle"
  /\ \A p \in Parts : Idle.work[p] = "none" /\ Idle.snap[p] = {}
  /\ Idle.merged = {} /\ Idle.out = {} /\ Idle.sent = {}
  /\ Idle.todo = {} /\ Idle.wg = 0
BY TreqAssumption DEF Idle, HandlerStates, Users, Cookies

-----------------------------------------------------------------------------
(* The WaitGroup.                                                           *)

LEMMA ActiveCount ==
  ASSUME NEW s
  PROVE  /\ IsFiniteSet(Active(s)) /\ Cardinality(Active(s)) \in 0..MaxLines
<1>1. IsFiniteSet(Parts) /\ Cardinality(Parts) = MaxLines
  BY TreqAssumption, FS_Interval DEF Parts
<1>2. Active(s) \subseteq Parts
  BY DEF Active
<1>3. IsFiniteSet(Active(s)) /\ Cardinality(Active(s)) <= Cardinality(Parts)
  BY <1>1, <1>2, FS_Subset
<1>4. Cardinality(Active(s)) \in Nat
  BY <1>3, FS_CardinalityType
<1> QED BY <1>1, <1>3, <1>4, TreqAssumption

LEMMA NoneActive ==
  ASSUME NEW s, \A p \in Parts : s.work[p] = "none"
  PROVE  Active(s) = {} /\ Cardinality(Active(s)) = 0
<1>1. Active(s) = {}
  BY DEF Active
<1> QED BY <1>1, FS_EmptySet

\* A goroutine more, with wg.Add(1); one less, with wg.Done().
LEMMA ActiveAdded ==
  ASSUME NEW s, NEW t, NEW p \in Active(t) \ Active(s),
         Active(t) = Active(s) \cup {p}
  PROVE  Cardinality(Active(t)) = Cardinality(Active(s)) + 1
BY ActiveCount, FS_AddElement

LEMMA ActiveRemoved ==
  ASSUME NEW s, NEW t, NEW p \in Active(s), Active(t) = Active(s) \ {p}
  PROVE  /\ Cardinality(Active(t)) = Cardinality(Active(s)) - 1
         /\ Cardinality(Active(s)) - 1 \in 0..MaxLines
<1>1. Cardinality(Active(t)) = Cardinality(Active(s)) - 1
  BY ActiveCount, FS_RemoveElement
<1> QED BY <1>1, ActiveCount

-----------------------------------------------------------------------------
(* Facts about the constants and the guard. *)

LEMMA IssuedAre ==
  /\ \A i \in 1..Len(Issued) : Issued[i] \in Sessions \ {None}
  /\ DOMAIN Issued = 1..Len(Issued) /\ Len(Issued) \in Nat
  /\ None \notin Sessions
BY TreqAssumption, GuardsAssumption

LEMMA CookieType ==
  ASSUME SharedInv
  PROVE  cookie \in IssuedSessions \cup {None} /\ cookie \in Cookies
BY IssuedAre DEF SharedInv, IssuedSessions, Cookies

LEMMA ConfType ==
  ASSUME SharedInv
  PROVE  /\ conf.guard = "cncauth"
         /\ conf.streaming \in BOOLEAN /\ conf.limits \in BOOLEAN
BY TreqAssumption DEF SharedInv, AnyConf

LEMMA FoundType ==
  ASSUME NEW c, NEW s, NEW lives \in SUBSET Sessions,
         NEW f \in FindUserBySession(c, s, lives)
  PROVE  f.user \in Users
<1>1. \/ f \in {Broken, Panic, Found(InvalidUserID)}
      \/ s \in lives /\ f = Found(Owner[s])
  BY DEF FindUserBySession, NilUserFinder, SQLUserFinder
<1>2. CASE f \in {Broken, Panic, Found(InvalidUserID)}
  BY <1>2 DEF Broken, Panic, Found, Users
<1>3. CASE s \in lives /\ f = Found(Owner[s])
  BY <1>3 DEF Found, Users
<1> QED BY <1>1, <1>2, <1>3

\* What an evaluation comes back with; a request is passed on under a fallback
\* cookie only if there was one.
EvaluationOK(e, fallback) ==
  /\ e.client \in Users
  /\ e.fallback \in BOOLEAN
  /\ e.fallback /\ e.status # 401 => fallback # None

LEMMA ThrottledOK ==
  ASSUME NEW c, NEW b, NEW u \in Users, NEW needs \in BOOLEAN, NEW fallback,
         needs => fallback # None
  PROVE  EvaluationOK(Throttled(c, b, u, needs), fallback)
BY DEF Throttled, Evaluation, EvaluationOK, Users

LEMMA CNCAuthFoundOK ==
  ASSUME NEW c, NEW f, f.user \in Users, NEW b, NEW needs \in BOOLEAN,
         NEW fallback, needs => fallback # None
  PROVE  EvaluationOK(CNCAuthFound(c, f, needs, b), fallback)
<1>1. CASE f.panic
  BY <1>1 DEF CNCAuthFound, Evaluation, EvaluationOK, Users
<1>2. CASE ~f.panic /\ f.err
  BY <1>2 DEF CNCAuthFound, Evaluation, EvaluationOK, Users
<1>3. CASE ~f.panic /\ ~f.err /\ ~IsValid(f.user)
  BY <1>3 DEF CNCAuthFound, Evaluation, EvaluationOK, Users
<1>4. CASE ~f.panic /\ ~f.err /\ IsValid(f.user)
  BY <1>4, ThrottledOK DEF CNCAuthFound
<1> QED BY <1>1, <1>2, <1>3, <1>4

LEMMA EvaluateOK ==
  ASSUME NEW c, c.guard = "cncauth", NEW r, NEW fallback,
         NEW lives \in SUBSET Sessions, NEW b,
         NEW e \in EvaluateRequest(c, r, fallback, lives, b)
  PROVE  EvaluationOK(e, fallback)
<1> DEFINE s == GetFrontendOrBackendSession(c, r)
<1>1. e \in CNCAuthEvaluate(c, r, fallback, lives, b)
  BY DEF EvaluateRequest
<1>2. CASE s = None /\ fallback = None
  <2>1. e = Evaluation(401, InvalidUserID, TRUE, TRUE, FALSE)
    BY <1>1, <1>2 DEF CNCAuthEvaluate
  <2> QED BY <2>1 DEF Evaluation, EvaluationOK, Users
<1>3. CASE ~(s = None /\ fallback = None)
  <2> DEFINE needs == s = None
  <2>1. PICK x : \E f \in FindUserBySession(c, x, lives) :
          e = CNCAuthFound(c, f, needs, b)
    BY <1>1, <1>3 DEF CNCAuthEvaluate
  <2>2. PICK f \in FindUserBySession(c, x, lives) :
          e = CNCAuthFound(c, f, needs, b)
    BY <2>1
  <2>3. f.user \in Users
    BY FoundType
  <2>4. needs \in BOOLEAN /\ (needs => fallback # None)
    BY <1>3
  <2> HIDE DEF needs
  <2> QED BY <2>2, <2>3, <2>4, CNCAuthFoundOK
<1> QED BY <1>2, <1>3

-----------------------------------------------------------------------------
(* When a step of one handler preserves the invariant. *)

\* A handler which has no goroutines, and one whose goroutines go on.
LEMMA FreshParts ==
  ASSUME NEW t, SameParts(Idle, t), t.pc \notin {"parts", "flushed"},
         NEW streaming
  PROVE  PartsRun(t) /\ PartsWritten(t, streaming)
<1>1. /\ \A p \in Parts : t.work[p] = "none" /\ t.snap[p] = {}
      /\ t.merged = {} /\ t.out = {} /\ t.todo = {} /\ t.wg = 0
  BY IdleState DEF SameParts
<1>2. Cardinality(Active(t)) = 0
  BY <1>1, NoneActive
<1> QED BY <1>1, <1>2 DEF PartsRun, PartsWritten

LEMMA SamePartsRun ==
  ASSUME NEW s, NEW t, NEW streaming, PartsRun(s), PartsWritten(s, streaming),
         SameParts(s, t), s.pc # "flushed", t.pc # "flushed",
         s.pc = "parts" => t.pc = "parts"
  PROVE  PartsRun(t) /\ PartsWritten(t, streaming)
<1>1. Active(t) = Active(s)
  BY DEF Active, SameParts
<1> QED BY <1>1 DEF PartsRun, PartsWritten, SameParts

LEMMA IdleLocal ==
  ASSUME NEW t, t = Idle \/ t = WithPc(Idle, "log"),
         NEW streaming, NEW n, NEW c
  PROVE  Local(t, streaming, n, c)
<1>1. t \in HandlerStates /\ t.pc \in {"idle", "log"} /\ SameParts(Idle, t)
  <2>1. CASE t = Idle
    BY <2>1, IdleState DEF SameParts
  <2>2. CASE t = WithPc(Idle, "log")
    BY <2>2, IdleState, PcUpdate DEF SameRequest, Pcs
  <2> QED BY <2>1, <2>2
<1>2. PartsRun(t) /\ PartsWritten(t, streaming)
  BY <1>1, FreshParts
<1> QED BY <1>1, <1>2 DEF Local, HasRequest

\* Before the goroutines are started a handler may move on as it likes.
LEMMA MovedLocal ==
  ASSUME NEW s, NEW t, NEW streaming, NEW n, NEW c,
         Local(s, streaming, n, c),
         SameRequest(s, t), SameParts(s, t),
         s.pc \notin {"idle", "log", "parts", "flushed"},
         t.pc \notin {"idle", "log", "parts", "flushed", "answered"},
         t.pc \in {"apply", "call"} /\ t.fallback => c # None
  PROVE  Local(t, streaming, n, c)
<1>1. PartsRun(t) /\ PartsWritten(t, streaming)
  BY SamePartsRun DEF Local
<1> QED BY <1>1 DEF Local, HasRequest, SameRequest

LEMMA OthersLocal ==
  ASSUME NEW s, NEW streaming, NEW n, NEW c, NEW m, NEW d,
         Local(s, streaming, n, c),
         m = n \/ s.pc # "answered",
         c # None => d # None
  PROVE  Local(s, streaming, m, d)
BY DEF Local

Logging(s) == s.pc \in {"login", "answered"}

LEMMA BecomesKeeps ==
  ASSUME TreqInv, SharedInv', conf' = conf,
         NEW h \in Handlers, NEW t, Becomes(h, t),
         Local(t, conf.streaming, issued', cookie'),
         issued' = issued \/ Logging(hs[h]),
         cookie # None => cookie' # None,
         Logging(t) => Logging(hs[h]) \/ LoggingIn = {}
  PROVE  TreqInv'
<1>1. /\ hs' \in [Handlers -> HandlerStates]
      /\ hs'[h] = t
      /\ \A g \in Handlers : g # h => hs'[g] = hs[g]
  BY DEF TreqInv, Becomes, Local
<1>2. ASSUME NEW g \in Handlers, g # h
      PROVE  issued' = issued \/ hs[g].pc # "answered"
  BY <1>2 DEF TreqInv, OneLogin, LoggingIn, Logging
<1>3. ASSUME NEW g \in Handlers
      PROVE  Local(hs'[g], conf.streaming, issued', cookie')
  <2>1. CASE g = h
    BY <2>1, <1>1
  <2>2. CASE g # h
    BY <2>2, <1>1, <1>2, OthersLocal DEF TreqInv
  <2> QED BY <2>1, <2>2
<1>4. OneLogin'
  <2> SUFFICES ASSUME NEW g \in Handlers, NEW k \in Handlers,
                      Logging(hs'[g]), Logging(hs'[k])
               PROVE  g = k
    BY DEF OneLogin, LoggingIn, Logging
  <2>1. \A a, b \in Handlers : Logging(hs[a]) /\ Logging(hs[b]) => a = b
    BY DEF TreqInv, OneLogin, LoggingIn, Logging
  <2>2. LoggingIn = {} => \A a \in Handlers : ~Logging(hs[a])
    BY DEF LoggingIn, Logging
  <2> QED BY <1>1, <2>1, <2>2
<1> QED BY <1>1, <1>3, <1>4 DEF TreqInv

\* A step of a handler which leaves alone what all of them share.
LEMMA QuietKeeps ==
  ASSUME TreqInv, UNCHANGED shared, NEW h \in Handlers, NEW t, Becomes(h, t),
         Local(t, conf.streaming, issued, cookie),
         Logging(t) => Logging(hs[h]) \/ LoggingIn = {}
  PROVE  TreqInv'
<1>1. /\ conf' = conf /\ live' = live /\ issued' = issued
      /\ cookie' = cookie /\ queued' = queued
  BY DEF shared
<1>2. SharedInv'
  BY <1>1 DEF TreqInv, SharedInv
<1> QED BY <1>1, <1>2, BecomesKeeps

LEMMA LeavesKeeps ==
  ASSUME TreqInv, UNCHANGED shared, NEW h \in Handlers, Leaves(h)
  PROVE  TreqInv'
<1> DEFINE t == WithPc(Idle, "log")
<1>1. Becomes(h, t)
  BY DEF Leaves, WithPc
<1>2. Local(t, conf.streaming, issued, cookie)
  BY IdleLocal
<1>3. t.pc = "log"
  BY IdleState, PcUpdate DEF Pcs
<1> HIDE DEF t
<1> QED BY <1>1, <1>2, <1>3, QuietKeeps DEF Logging

\* A handler which moves on, as in MovedLocal.
LEMMA MovesKeeps ==
  ASSUME TreqInv, UNCHANGED shared, NEW h \in Handlers, NEW t, Becomes(h, t),
         SameRequest(hs[h], t), SameParts(hs[h], t),
         hs[h].pc \notin {"idle", "log", "parts", "flushed"},
         t.pc \notin {"idle", "log", "parts", "flushed", "answered"},
         t.pc \in {"apply", "call"} /\ t.fallback => cookie # None,
         t.pc = "login" => LoggingIn = {}
  PROVE  TreqInv'
<1>1. Local(hs[h], conf.streaming, issued, cookie)
  BY DEF TreqInv
<1>2. Local(t, conf.streaming, issued, cookie)
  BY <1>1, MovedLocal
<1> QED BY <1>2, QuietKeeps DEF Logging

-----------------------------------------------------------------------------
(* The steps of a handler. *)

LEMMA StartKeeps ==
  ASSUME TreqInv, NEW h \in Handlers, Start(h)
  PROVE  TreqInv'
<1>1. PICK q \in Requests[h] :
        Becomes(h, [Idle EXCEPT !.pc = "evaluate", !.kind = q[1], !.r = q[2]])
  BY DEF Start
<1>2. q[1] \in Kinds /\ q[2] \in AnyRequest
  <2>1. Requests[h] \in SUBSET (Kinds \X AnyRequest)
    BY TreqAssumption
  <2>2. q \in Kinds \X AnyRequest
    BY <2>1
  <2> QED BY <2>2
<1> DEFINE t == [Idle EXCEPT !.pc = "evaluate", !.kind = q[1], !.r = q[2]]
<1>3. /\ t \in HandlerStates /\ t.pc = "evaluate"
      /\ t.kind \in Kinds /\ t.r \in AnyRequest /\ SameParts(Idle, t)
  BY <1>2, IdleState DEF HandlerStates, SameParts
<1>4. UNCHANGED shared
  BY DEF Start
<1>5. Becomes(h, t)
  BY <1>1
<1> HIDE DEF t
<1>6. PartsRun(t) /\ PartsWritten(t, conf.streaming)
  BY <1>3, FreshParts
<1>7. Local(t, conf.streaming, issued, cookie)
  BY <1>3, <1>6 DEF Local, HasRequest
<1> QED BY <1>3, <1>4, <1>5, <1>7, QuietKeeps DEF Logging

LEMMA EvaluateKeeps ==
  ASSUME TreqInv, NEW h \in Handlers, Evaluate(h)
  PROVE  TreqInv'
<1>0. hs[h] \in HandlerStates /\ hs[h].pc = "evaluate" /\ UNCHANGED shared
  BY DEF TreqInv, Evaluate, At
<1> DEFINE evaluations(b) == EvaluateRequest(conf, hs[h].r, cookie, live, b)
           result(e) ==
             WithEvaluation(hs[h], IF e.status = 401 THEN "reauth" ELSE "apply",
                            e.client, e.fallback)
<1>a. PICK level \in {0, 1} :
        \E e \in evaluations(level) : Leaves(h) \/ Becomes(h, result(e))
  BY DEF Evaluate, WithEvaluation
<1> HIDE DEF result
<1>1. PICK e \in evaluations(level) : Leaves(h) \/ Becomes(h, result(e))
  BY <1>a
<1>2. EvaluationOK(e, cookie)
  BY EvaluateOK, ConfType DEF TreqInv, SharedInv
<1>3. CASE Leaves(h)
  BY <1>0, <1>3, LeavesKeeps
<1>4. CASE ~Leaves(h)
  <2> DEFINE place == IF e.status = 401 THEN "reauth" ELSE "apply"
             t == WithEvaluation(hs[h], place, e.client, e.fallback)
  <2>1. Becomes(h, t)
    BY <1>1, <1>4 DEF result
  <2>2. /\ place \in Pcs /\ place \in {"reauth", "apply"}
        /\ place = "apply" => e.status # 401
    BY DEF Pcs
  <2> HIDE DEF place
  <2>a. e.client \in Users /\ e.fallback \in BOOLEAN
    BY <1>2 DEF EvaluationOK
  <2>3. /\ SameRequest(hs[h], t) /\ SameParts(hs[h], t)
        /\ t.pc = place /\ t.fallback = e.fallback
    BY <1>0, <2>a, <2>2, EvaluateUpdate
  <2> HIDE DEF t
  <2> QED BY <1>0, <1>2, <2>1, <2>2, <2>3, MovesKeeps DEF EvaluationOK
<1> QED BY <1>3, <1>4

LEMMA DoKeeps ==
  ASSUME TreqInv, NEW h \in Handlers, Do(h)
  PROVE  TreqInv'
<1> DEFINE place == IF LoggingIn = {} THEN "login" ELSE "wait"
           t == WithPc(hs[h], place)
<1>1. /\ hs[h] \in HandlerStates /\ hs[h].pc = "reauth" /\ UNCHANGED shared
      /\ Becomes(h, t)
  BY DEF TreqInv, Do, At, Moves, WithPc
<1>2. /\ place \in Pcs /\ place \in {"login", "wait"}
      /\ place = "login" => LoggingIn = {}
  BY DEF Pcs
<1> HIDE DEF place
<1>3. SameRequest(hs[h], t) /\ SameParts(hs[h], t) /\ t.pc = place
  BY <1>1, <1>2, PcUpdate
<1> HIDE DEF t
<1> QED BY <1>1, <1>2, <1>3, MovesKeeps

LEMMA CheckCookieKeeps ==
  ASSUME TreqInv, NEW h \in Handlers, CheckCookie(h)
  PROVE  TreqInv'
<1>0. hs[h] \in HandlerStates /\ hs[h].pc = "check" /\ UNCHANGED shared
  BY DEF TreqInv, CheckCookie, At
<1>1. CASE cookie = None
  BY <1>0, <1>1, LeavesKeeps DEF CheckCookie
<1>2. CASE cookie # None
  <2> DEFINE t == WithPc(hs[h], "apply")
  <2>1. Becomes(h, t)
    BY <1>2 DEF CheckCookie, Moves, WithPc
  <2>2. SameRequest(hs[h], t) /\ SameParts(hs[h], t) /\ t.pc = "apply"
    BY <1>0, PcUpdate DEF Pcs
  <2> HIDE DEF t
  <2> QED BY <1>0, <1>2, <2>1, <2>2, MovesKeeps
<1> QED BY <1>1, <1>2

LEMMA LoginWithTokenKeeps ==
  ASSUME TreqInv, NEW h \in Handlers, LoginWithToken(h)
  PROVE  TreqInv'
<1> DEFINE l == Issued[issued + 1]
           t == WithLogin(hs[h], "answered", l)
<1>1. /\ hs[h] \in HandlerStates /\ hs[h].pc = "login"
      /\ Local(hs[h], conf.streaming, issued, cookie)
  BY DEF TreqInv, LoginWithToken, At
<1>2. Becomes(h, t)
  BY DEF LoginWithToken, WithLogin
<1>3. issued \in Nat /\ issued + 1 \in 1..Len(Issued)
  BY IssuedAre DEF TreqInv, SharedInv, LoginWithToken
<1>4. l \in IssuedSessions /\ l \in Sessions
  BY <1>3, IssuedAre DEF IssuedSessions
<1>5. /\ SameRequest(hs[h], t) /\ SameParts(hs[h], t)
      /\ t.pc = "answered" /\ t.login = l
  <2> HIDE DEF l
  <2> QED BY <1>1, <1>4, LoginUpdate DEF Pcs
<1> HIDE DEF t
<1>6. /\ conf' = conf /\ cookie' = cookie /\ queued' = queued
      /\ issued' = issued + 1 /\ live' \subseteq live \cup {l}
  BY DEF LoginWithToken
<1>7. SharedInv'
  BY <1>3, <1>4, <1>6, IssuedAre DEF TreqInv, SharedInv
<1>8. PartsRun(t) /\ PartsWritten(t, conf.streaming)
  BY <1>1, <1>5, SamePartsRun DEF Local
<1>9. Local(t, conf.streaming, issued', cookie')
  BY <1>1, <1>3, <1>5, <1>6, <1>8 DEF Local, HasRequest, SameRequest
<1> QED BY <1>1, <1>2, <1>6, <1>7, <1>9, BecomesKeeps DEF Logging

LEMMA LandedKeeps ==
  ASSUME TreqInv, SharedInv', conf' = conf, issued' = issued,
         cookie # None => cookie' # None,
         NEW h \in Handlers, Logging(hs[h]),
         NEW place \in {"log", "check"}, Landed(h, place)
  PROVE  TreqInv'
<1> DEFINE new(g) == IF place = "log" THEN WithPc(Idle, "log")
                     ELSE WithLogin(hs[g], place, None)
<1>1. /\ DOMAIN hs' = Handlers /\ hs' = [g \in Handlers |-> hs'[g]]
      /\ \A g \in Handlers :
           hs'[g] = IF g # h /\ ~At(g, "wait") THEN hs[g] ELSE new(g)
  BY DEF Landed, WithPc, WithLogin
<1>2. ASSUME NEW g \in Handlers, hs[g].pc = "wait" \/ Logging(hs[g])
      PROVE  Local(new(g), conf.streaming, issued, cookie) /\ ~Logging(new(g))
  <2>1. CASE place = "log"
    <3>1. WithPc(Idle, "log").pc = "log"
      BY IdleState, PcUpdate DEF Pcs
    <3> QED BY <2>1, <3>1, IdleLocal DEF Logging
  <2>2. CASE place = "check"
    <3> DEFINE t == WithLogin(hs[g], "check", None)
    <3>1. /\ hs[g] \in HandlerStates
          /\ Local(hs[g], conf.streaming, issued, cookie)
      BY DEF TreqInv
    <3>2. SameRequest(hs[g], t) /\ SameParts(hs[g], t) /\ t.pc = "check"
      BY <3>1, LoginUpdate DEF Pcs
    <3>3. new(g) = t
      BY <2>2
    <3> HIDE DEF t, new
    <3> QED BY <1>2, <3>1, <3>2, <3>3, MovedLocal DEF Logging
  <2> QED BY <2>1, <2>2
<1> HIDE DEF new
<1>3. ASSUME NEW g \in Handlers
      PROVE  /\ Local(hs'[g], conf.streaming, issued, cookie)
             /\ ~Logging(hs'[g])
  <2>1. CASE g # h /\ ~At(g, "wait")
    BY <1>1, <2>1 DEF TreqInv, OneLogin, LoggingIn, Logging
  <2>2. CASE ~(g # h /\ ~At(g, "wait"))
    BY <1>1, <1>2, <2>2 DEF At
  <2> QED BY <2>1, <2>2
<1>4. ASSUME NEW g \in Handlers
      PROVE  Local(hs'[g], conf.streaming, issued', cookie')
  BY <1>3, OthersLocal
<1>5. OneLogin'
  BY <1>3 DEF OneLogin, LoggingIn, Logging
<1>6. hs' \in [Handlers -> HandlerStates]
  BY <1>1, <1>4 DEF Local
<1> QED BY <1>4, <1>5, <1>6 DEF TreqInv

LEMMA LoginSucceedsKeeps ==
  ASSUME TreqInv, NEW h \in Handlers, LoginSucceeds(h)
  PROVE  TreqInv'
<1>1. /\ hs[h].pc = "answered" /\ Logging(hs[h])
      /\ issued > 0 /\ hs[h].login = Issued[issued]
  BY DEF TreqInv, LoginSucceeds, At, Local, Logging
<1>2. /\ conf' = conf /\ live' = live /\ issued' = issued /\ queued' = queued
      /\ cookie' = Issued[issued] /\ Landed(h, "check")
  BY <1>1 DEF LoginSucceeds
<1>3. issued \in 1..Len(Issued)
  BY <1>1, IssuedAre DEF TreqInv, SharedInv
<1>4. cookie' # None
  BY <1>2, <1>3, IssuedAre
<1>5. SharedInv'
  BY <1>2, <1>3, IssuedAre DEF TreqInv, SharedInv
<1> QED BY <1>1, <1>2, <1>4, <1>5, LandedKeeps

LEMMA LoginFailsKeeps ==
  ASSUME TreqInv, NEW h \in Handlers, LoginFails(h)
  PROVE  TreqInv'
<1>1. /\ conf' = conf /\ live' = live /\ issued' = issued /\ queued' = queued
      /\ cookie' = cookie /\ Logging(hs[h])
      /\ \E place \in {"log", "check"} : Landed(h, place)
  BY DEF LoginFails, shared, At, Logging
<1>2. SharedInv'
  BY <1>1 DEF TreqInv, SharedInv
<1> QED BY <1>1, <1>2, LandedKeeps

LEMMA FallbackType ==
  ASSUME TreqInv, NEW h \in Handlers, hs[h].r \in AnyRequest
  PROVE  WithFallback(h) \in AnyRequest /\ WithFallback(h).back \in Cookies
<1>1. cookie \in Cookies
  BY CookieType DEF TreqInv
<1>2. WithFallback(h) \in AnyRequest
  <2>1. CASE ~hs[h].fallback
    BY <2>1 DEF WithFallback
  <2>2. CASE hs[h].fallback /\ conf.cookies = "same"
    <3>1. WithFallback(h) = [hs[h].r EXCEPT !.back = cookie, !.front = cookie]
      BY <2>2 DEF WithFallback
    <3> QED BY <1>1, <3>1 DEF AnyRequest
  <2>3. CASE hs[h].fallback /\ conf.cookies # "same"
    <3>1. WithFallback(h) = [hs[h].r EXCEPT !.back = cookie, !.front = @]
      BY <2>3 DEF WithFallback
    <3> QED BY <1>1, <3>1 DEF AnyRequest
  <2> QED BY <2>1, <2>2, <2>3
<1> QED BY <1>2 DEF AnyRequest

LEMMA MappedType ==
  ASSUME NEW r \in AnyRequest
  PROVE  /\ MapFrontendCookieToBackend(r) \in AnyRequest
         /\ MapFrontendCookieToBackend(r).back \in Cookies
<1>1. CASE reqUsesMappedSession(r)
  <2>1. MapFrontendCookieToBackend(r) = [r EXCEPT !.back = r.front]
    BY <1>1 DEF MapFrontendCookieToBackend
  <2> QED BY <2>1 DEF AnyRequest
<1>2. CASE ~reqUsesMappedSession(r)
  BY <1>2 DEF MapFrontendCookieToBackend, AnyRequest
<1> QED BY <1>1, <1>2

LEMMA ApplyKeeps ==
  ASSUME TreqInv, NEW h \in Handlers, Apply(h)
  PROVE  TreqInv'
<1> DEFINE r == HeadersProcessed(WithFallback(h))
           x == {MapFrontendCookieToBackend(r).back}
           k == APIKey(WithFallback(h))
<1>1. /\ hs[h] \in HandlerStates /\ hs[h].pc = "apply" /\ UNCHANGED shared
      /\ Local(hs[h], conf.streaming, issued, cookie)
  BY DEF TreqInv, Apply, At
<1>2. r \in AnyRequest /\ k \in Cookies
  BY <1>1, FallbackType, MappedType
     DEF Local, HasRequest, HeadersProcessed, APIKey, Cookies
<1>3. x \in SUBSET Cookies
  <2> HIDE DEF r
  <2> QED BY <1>2, MappedType
<1>4. \/ Leaves(h)
      \/ Becomes(h, WithSent(hs[h], hs[h].user, x, k))
      \/ \E f \in DetermineTrueUserID(conf, r, live) :
           Becomes(h, WithSent(hs[h], f.user, x, k))
  BY DEF Apply, WithSent
<1> HIDE DEF r, x, k
<1>5. ASSUME NEW u \in Users, Becomes(h, WithSent(hs[h], u, x, k))
      PROVE  TreqInv'
  <2> DEFINE t == WithSent(hs[h], u, x, k)
  <2>1. /\ SameRequest(hs[h], t) /\ SameParts(hs[h], t)
        /\ t.pc = "call" /\ t.fallback = hs[h].fallback
    BY <1>1, <1>2, <1>3, SentUpdate
  <2>2. Becomes(h, t)
    BY <1>5
  <2> HIDE DEF t
  <2> QED BY <1>1, <2>1, <2>2, MovesKeeps DEF Local
<1>6. hs[h].user \in Users
  BY <1>1 DEF HandlerStates
<1>7. ASSUME NEW f \in DetermineTrueUserID(conf, r, live)
      PROVE  f.user \in Users
  <2>1. f \in CNCAuthTrueUser(conf, r, live)
    BY <1>7, ConfType DEF TreqInv, DetermineTrueUserID
  <2>2. CASE r.back = None
    BY <2>1, <2>2 DEF CNCAuthTrueUser, Found, Users
  <2>3. CASE r.back # None
    <3>1. f \in FindUserBySession(conf, UpdatedFrom(conf, r.back), live)
      BY <2>1, <2>3 DEF CNCAuthTrueUser
    <3> QED BY <3>1, FoundType DEF TreqInv, SharedInv
  <2> QED BY <2>2, <2>3
<1> QED BY <1>1, <1>4, <1>5, <1>6, <1>7, LeavesKeeps

\* The goroutines of the parts are started.
LEMMA PartsStart ==
  ASSUME TreqInv, UNCHANGED shared, NEW h \in Handlers,
         hs[h].pc \in {"apply", "call"},
         NEW s \in HandlerStates, SameRequest(hs[h], s), SameParts(hs[h], s),
         s.fallback = hs[h].fallback,
         NEW d \in SUBSET Parts, Becomes(h, WithTodo(s, ZeroUserID, d))
  PROVE  TreqInv'
<1> DEFINE t == WithTodo(s, ZeroUserID, d)
<1>1. Becomes(h, t)
  OBVIOUS
<1>2. /\ SameRequest(s, t) /\ t.pc = "parts" /\ t.fallback = s.fallback
      /\ t.work = s.work /\ t.merged = s.merged /\ t.snap = s.snap
      /\ t.out = s.out /\ t.todo = d /\ t.wg = s.wg
  <2>1. ZeroUserID \in Users
    BY DEF Users
  <2> QED BY <2>1, TodoUpdate
<1> HIDE DEF t
<1>3. Local(hs[h], conf.streaming, issued, cookie)
  BY DEF TreqInv
<1>4. /\ t.merged = {} /\ \A p \in Parts : t.work[p] = "none"
      /\ t.wg = Cardinality(Active(hs[h]))
      /\ \A p \in Parts : hs[h].work[p] = "none"
  BY <1>2, <1>3 DEF Local, PartsRun, SameParts
<1>5. t.wg = Cardinality(Active(t))
  BY <1>4, NoneActive
<1>6. PartsRun(t) /\ PartsWritten(t, conf.streaming)
  BY <1>2, <1>4, <1>5 DEF PartsRun, PartsWritten
<1>7. Local(t, conf.streaming, issued, cookie)
  BY <1>2, <1>3, <1>6 DEF Local, HasRequest, SameRequest
<1> QED BY <1>1, <1>2, <1>7, QuietKeeps DEF Logging

LEMMA BindJSONKeeps ==
  ASSUME TreqInv, NEW h \in Handlers, BindJSON(h)
  PROVE  TreqInv'
<1> DEFINE parts(n) == {p \in Parts : p <= n}
<1>1. hs[h] \in HandlerStates /\ hs[h].pc = "apply" /\ UNCHANGED shared
  BY DEF TreqInv, BindJSON, At
<1>2. \/ Leaves(h)
      \/ \E n \in 0..MaxLines :
           Becomes(h, WithTodo(hs[h], ZeroUserID, parts(n)))
  BY DEF BindJSON, WithTodo
<1>3. CASE Leaves(h)
  BY <1>1, <1>3, LeavesKeeps
<1>4. ASSUME NEW n \in 0..MaxLines,
             Becomes(h, WithTodo(hs[h], ZeroUserID, parts(n)))
      PROVE  TreqInv'
  <2>1. SameRequest(hs[h], hs[h]) /\ SameParts(hs[h], hs[h])
    BY <1>1 DEF SameRequest, SameParts
  <2>2. parts(n) \in SUBSET Parts
    OBVIOUS
  <2> HIDE DEF parts
  <2> QED BY <1>1, <1>4, <2>1, <2>2, PartsStart
<1> QED BY <1>2, <1>3, <1>4

LEMMA TranslationsCallKeeps ==
  ASSUME TreqInv, NEW h \in Handlers, TranslationsCall(h)
  PROVE  TreqInv'
<1> DEFINE given == IF hs[h].fallback THEN {cookie} ELSE hs[h].sent
           s == WithSentAgain(hs[h], given)
           parts(n) == {p \in Parts : p <= n}
<1>1. hs[h] \in HandlerStates /\ hs[h].pc = "call" /\ UNCHANGED shared
  BY DEF TreqInv, TranslationsCall, At
<1>2. \/ Leaves(h)
      \/ \E n \in 0..(MaxLines + 1) :
           Becomes(h, WithTodo(s, ZeroUserID, parts(n)))
  BY DEF TranslationsCall, WithTodo, WithSentAgain
<1>3. given \in SUBSET Cookies
  BY <1>1, CookieType DEF TreqInv, HandlerStates
<1> HIDE DEF given
<1>4. /\ SameRequest(hs[h], s) /\ SameParts(hs[h], s)
      /\ s.fallback = hs[h].fallback
  BY <1>1, <1>3, SentAgainUpdate
<1>5. s \in HandlerStates
  BY <1>4 DEF SameRequest
<1> HIDE DEF s
<1>6. CASE Leaves(h)
  BY <1>1, <1>6, LeavesKeeps
<1>7. ASSUME NEW n \in 0..(MaxLines + 1),
             Becomes(h, WithTodo(s, ZeroUserID, parts(n)))
      PROVE  TreqInv'
  <2>1. parts(n) \in SUBSET Parts
    OBVIOUS
  <2> HIDE DEF parts
  <2> QED BY <1>1, <1>4, <1>5, <1>7, <2>1, PartsStart
<1> QED BY <1>2, <1>6, <1>7

-----------------------------------------------------------------------------
(* The goroutines. *)

LEMMA PartRuns ==
  ASSUME TreqInv, NEW h \in Handlers, NEW p \in Parts,
         hs[h].work[p] \in {"fetch", "write", "error"}
  PROVE  /\ hs[h].pc = "parts" /\ hs[h] \in HandlerStates
         /\ Local(hs[h], conf.streaming, issued, cookie)
         /\ SentByPart(h) \in SUBSET Cookies
<1>1. Local(hs[h], conf.streaming, issued, cookie) /\ p \in Active(hs[h])
  BY DEF TreqInv, Active
<1>2. hs[h].pc = "parts" /\ hs[h] \in HandlerStates
  BY <1>1 DEF Local, PartsRun
<1>3. hs[h].r \in AnyRequest /\ hs[h].sent \in SUBSET Cookies
  BY <1>1, <1>2 DEF Local, HasRequest, HandlerStates
<1> QED BY <1>1, <1>2, <1>3, FallbackType DEF SentByPart

LEMMA StillRuns ==
  ASSUME NEW s \in HandlerStates, NEW t, NEW p \in Parts,
         NEW w \in {"write", "error"}, PartsRun(s), s.pc = "parts",
         t.pc = "parts", s.work[p] = "fetch", t.work = [s.work EXCEPT ![p] = w],
         t.todo = s.todo, t.wg = s.wg
  PROVE  PartsRun(t)
<1>1. s.work \in [Parts -> {"none", "fetch", "write", "error", "done"}]
  BY DEF HandlerStates
<1>2. Active(t) = Active(s)
  BY <1>1 DEF Active
<1>3. s.todo \subseteq Parts
  BY DEF HandlerStates
<1> QED BY <1>1, <1>2, <1>3 DEF PartsRun

\* The deferred wg.Done() of a goroutine the WaitGroup has counted.
LEMMA Returns ==
  ASSUME NEW s \in HandlerStates, NEW p \in Parts, PartsRun(s),
         s.pc = "parts", s.work[p] \in {"fetch", "write", "error"},
         NEW t, t = Returned(s, p)
  PROVE  /\ SameRequest(s, t) /\ t.pc = s.pc /\ t.fallback = s.fallback
         /\ t.work = [s.work EXCEPT ![p] = "done"]
         /\ t.merged = s.merged
         /\ t.snap = [s.snap EXCEPT ![p] = {}]
         /\ t.out = s.out /\ t.sent = s.sent
         /\ PartsRun(t)
<1>1. /\ s.work \in [Parts -> {"none", "fetch", "write", "error", "done"}]
      /\ s.todo \subseteq Parts
  BY DEF HandlerStates
<1>2. p \in Active(s) /\ s.wg = Cardinality(Active(s))
  BY DEF Active, PartsRun
<1>3. s.wg - 1 \in 0..MaxLines
  <2>1. IsFiniteSet(Active(s)) /\ Cardinality(Active(s)) \in 0..MaxLines
    BY ActiveCount
  <2>2. Cardinality(Active(s)) # 0
    BY <1>2, <2>1, FS_EmptySet
  <2> QED BY <1>2, <2>1, <2>2, TreqAssumption
<1>4. /\ SameRequest(s, t) /\ t.pc = s.pc /\ t.fallback = s.fallback
      /\ t.work = [s.work EXCEPT ![p] = "done"]
      /\ t.merged = s.merged
      /\ t.snap = [s.snap EXCEPT ![p] = {}]
      /\ t.out = s.out /\ t.todo = s.todo /\ t.wg = s.wg - 1
      /\ t.sent = s.sent
  BY <1>3, ReturnUpdate
<1>5. Active(t) = Active(s) \ {p}
  BY <1>1, <1>4 DEF Active
<1>6. t.wg = Cardinality(Active(t))
  <2>1. Cardinality(Active(t)) = Cardinality(Active(s)) - 1
    BY <1>2, <1>5, ActiveRemoved
  <2> QED BY <1>2, <1>4, <2>1
<1>7. PartsRun(t)
  BY <1>1, <1>4, <1>6 DEF PartsRun
<1> QED BY <1>4, <1>7

LEMMA PartKeeps ==
  ASSUME TreqInv, UNCHANGED shared, NEW h \in Handlers, NEW t, Becomes(h, t),
         hs[h].pc = "parts", SameRequest(hs[h], t), t.pc = "parts",
         t.fallback = hs[h].fallback, PartsRun(t),
         PartsWritten(t, conf.streaming)
  PROVE  TreqInv'
<1>1. Local(hs[h], conf.streaming, issued, cookie)
  BY DEF TreqInv
<1>2. Local(t, conf.streaming, issued, cookie)
  BY <1>1 DEF Local, HasRequest, SameRequest
<1> QED BY <1>2, QuietKeeps DEF Logging

LEMMA SpawnKeeps ==
  ASSUME TreqInv, NEW h \in Handlers, Spawn(h)
  PROVE  TreqInv'
<1> DEFINE s == hs[h]
<1>1. PICK p \in s.todo : Becomes(h, WithSpawned(s, p, s.wg + 1))
  BY DEF Spawn, WithSpawned
<1> DEFINE t == WithSpawned(s, p, s.wg + 1)
<1>2. /\ s.pc = "parts" /\ UNCHANGED shared /\ s \in HandlerStates
      /\ Local(s, conf.streaming, issued, cookie)
  BY DEF TreqInv, Spawn, At
<1>3. /\ s.work \in [Parts -> {"none", "fetch", "write", "error", "done"}]
      /\ s.todo \subseteq Parts /\ p \in Parts
  BY <1>2 DEF HandlerStates
<1>4. /\ s.work[p] = "none" /\ s.wg = Cardinality(Active(s))
      /\ PartsRun(s) /\ PartsWritten(s, conf.streaming)
  BY <1>2 DEF Local, PartsRun
<1> DEFINE u == [work |-> [s.work EXCEPT ![p] = "fetch"]]
<1>5. Active(u) = Active(s) \cup {p} /\ p \notin Active(s) /\ p \in Active(u)
  BY <1>3, <1>4 DEF Active
<1>6. Cardinality(Active(u)) = s.wg + 1 /\ s.wg + 1 \in 0..MaxLines
  <2>1. u.work = [s.work EXCEPT ![p] = "fetch"]
    OBVIOUS
  <2> HIDE DEF u
  <2>2. Cardinality(Active(u)) = Cardinality(Active(s)) + 1
    BY <1>5, ActiveAdded
  <2> QED BY <1>4, <2>2, ActiveCount
<1>7. Becomes(h, t)
  BY <1>1
<1>8. /\ SameRequest(s, t) /\ t.pc = s.pc /\ t.fallback = s.fallback
      /\ t.work = [s.work EXCEPT ![p] = "fetch"]
      /\ t.merged = s.merged /\ t.snap = s.snap
      /\ t.out = s.out /\ t.todo = s.todo \ {p} /\ t.wg = s.wg + 1
  <2> DEFINE n == s.wg + 1
  <2>1. n \in 0..MaxLines
    BY <1>6
  <2>2. t = WithSpawned(s, p, n)
    OBVIOUS
  <2>3. t.wg = n => t.wg = s.wg + 1
    OBVIOUS
  <2> HIDE DEF n, t, s
  <2> QED BY <1>2, <1>3, <2>1, <2>2, <2>3, SpawnUpdate
<1>9. Active(t) = Active(u)
  BY <1>8 DEF Active
<1> HIDE DEF t, u
<1>10. PartsRun(t)
  BY <1>2, <1>3, <1>4, <1>6, <1>8, <1>9 DEF PartsRun
<1>11. PartsWritten(t, conf.streaming)
  BY <1>3, <1>4, <1>8 DEF PartsWritten
<1> QED BY <1>2, <1>7, <1>8, <1>10, <1>11, PartKeeps

LEMMA PartFailsKeeps ==
  ASSUME TreqInv, NEW h \in Handlers, NEW p \in Parts, PartFails(h, p)
  PROVE  TreqInv'
<1> DEFINE s == WithOnlySent(hs[h], SentByPart(h))
<1>1. /\ hs[h].work[p] = "fetch" /\ UNCHANGED shared
      /\ Becomes(h, WithError(s, p)) \/ Becomes(h, Returned(s, p))
  BY DEF PartFails, WithError, WithOnlySent
<1>2. /\ hs[h].pc = "parts" /\ hs[h] \in HandlerStates
      /\ Local(hs[h], conf.streaming, issued, cookie)
      /\ SentByPart(h) \in SUBSET Cookies
  BY <1>1, PartRuns
<1>3. /\ SameRequest(hs[h], s) /\ s.pc = "parts"
      /\ s.fallback = hs[h].fallback /\ SameParts(hs[h], s)
  BY <1>2, OnlySentUpdate
<1>4. /\ s \in HandlerStates /\ s.work[p] = "fetch"
      /\ PartsRun(s) /\ PartsWritten(s, conf.streaming)
  <2>1. s \in HandlerStates /\ s.work[p] = "fetch"
    BY <1>1, <1>3 DEF SameRequest, SameParts
  <2>2. PartsRun(s) /\ PartsWritten(s, conf.streaming)
    BY <1>2, <1>3, SamePartsRun DEF Local
  <2> QED BY <2>1, <2>2
<1> HIDE DEF s
<1>5. s.work \in [Parts -> {"none", "fetch", "write", "error", "done"}]
  BY <1>4 DEF HandlerStates
<1>6. CASE Becomes(h, WithError(s, p))
  <2> DEFINE t == WithError(s, p)
  <2>1. Becomes(h, t)
    BY <1>6
  <2>2. /\ SameRequest(s, t) /\ t.pc = s.pc /\ t.fallback = s.fallback
        /\ t.work = [s.work EXCEPT ![p] = "error"]
        /\ t.merged = s.merged /\ t.snap = s.snap
        /\ t.out = s.out /\ t.todo = s.todo /\ t.wg = s.wg
    BY <1>4, ErrorUpdate
  <2> HIDE DEF t
  <2>3. PartsRun(t)
    BY <1>3, <1>4, <2>2, StillRuns
  <2>4. PartsWritten(t, conf.streaming)
    BY <1>4, <1>5, <2>2 DEF PartsWritten
  <2>5. SameRequest(hs[h], t) /\ t.fallback = hs[h].fallback /\ t.pc = "parts"
    BY <1>3, <2>2 DEF SameRequest
  <2> QED BY <1>1, <1>2, <2>1, <2>3, <2>4, <2>5, PartKeeps
<1>7. CASE Becomes(h, Returned(s, p))
  <2> DEFINE t == Returned(s, p)
  <2>1. Becomes(h, t)
    BY <1>7
  <2>2. /\ SameRequest(s, t) /\ t.pc = s.pc /\ t.fallback = s.fallback
        /\ t.work = [s.work EXCEPT ![p] = "done"]
        /\ t.merged = s.merged
        /\ t.snap = [s.snap EXCEPT ![p] = {}]
        /\ t.out = s.out /\ PartsRun(t)
    BY <1>3, <1>4, Returns
  <2> HIDE DEF t
  <2>3. PartsWritten(t, conf.streaming)
    <3>1. s.snap \in [Parts -> SUBSET Parts]
      BY <1>4 DEF HandlerStates
    <3> QED BY <1>4, <1>5, <2>2, <3>1 DEF PartsWritten
  <2>4. SameRequest(hs[h], t) /\ t.fallback = hs[h].fallback /\ t.pc = "parts"
    BY <1>3, <2>2 DEF SameRequest
  <2> QED BY <1>1, <1>2, <2>1, <2>2, <2>3, <2>4, PartKeeps
<1> QED BY <1>1, <1>6, <1>7

LEMMA PartMergedKeeps ==
  ASSUME TreqInv, NEW h \in Handlers, NEW p \in Parts, PartMerged(h, p)
  PROVE  TreqInv'
<1> DEFINE s == hs[h]
           m == s.merged \cup {p}
           t == WithMerged(s, p, m, SentByPart(h))
<1>1. s.work[p] = "fetch" /\ UNCHANGED shared /\ Becomes(h, t)
  BY DEF PartMerged, WithMerged
<1>2. /\ s.pc = "parts" /\ s \in HandlerStates
      /\ SentByPart(h) \in SUBSET Cookies
      /\ PartsRun(s)
  BY <1>1, PartRuns DEF Local
<1>3. /\ s.work \in [Parts -> {"none", "fetch", "write", "error", "done"}]
      /\ s.snap \in [Parts -> SUBSET Parts]
      /\ m \in SUBSET Parts
  BY <1>2 DEF HandlerStates
<1> HIDE DEF m
<1>4. /\ SameRequest(s, t) /\ t.pc = s.pc /\ t.fallback = s.fallback
      /\ t.work = [s.work EXCEPT ![p] = "write"]
      /\ t.merged = m
      /\ t.snap = [s.snap EXCEPT ![p] = m]
      /\ t.out = s.out /\ t.todo = s.todo /\ t.wg = s.wg
  BY <1>2, <1>3, MergeUpdate
<1> HIDE DEF t
<1>5. PartsRun(t)
  BY <1>1, <1>2, <1>4, StillRuns
<1>6. PartsWritten(t, conf.streaming)
  BY <1>3, <1>4 DEF PartsWritten
<1> QED BY <1>1, <1>2, <1>4, <1>5, <1>6, PartKeeps

\* An event of a goroutine which serialized what is merged, or an error text.
LEMMA WritesKeep ==
  ASSUME TreqInv, NEW h \in Handlers, NEW p \in Parts,
         NEW event \in (SUBSET Parts) \cup {ErrorText}, Writes(h, p, event),
         hs[h].work[p] \in {"write", "error"},
         hs[h].work[p] = "write" => event = hs[h].snap[p]
  PROVE  TreqInv'
<1> DEFINE o == hs[h].out \cup {event}
           s == WithOut(hs[h], o)
<1>1. UNCHANGED shared
  BY DEF Writes
<1>2. /\ hs[h].pc = "parts" /\ hs[h] \in HandlerStates
      /\ PartsRun(hs[h]) /\ PartsWritten(hs[h], conf.streaming)
  BY PartRuns DEF Local
<1>3. /\ hs[h].work \in [Parts -> {"none", "fetch", "write", "error", "done"}]
      /\ hs[h].snap \in [Parts -> SUBSET Parts]
      /\ o \in SUBSET ((SUBSET Parts) \cup {ErrorText})
  BY <1>2 DEF HandlerStates
<1>4. \/ Becomes(h, Returned(s, p))
      \/ ~conf.streaming /\ Becomes(h, Returned(hs[h], p))
  BY DEF Writes, WithOut
<1>5. CASE Becomes(h, Returned(s, p))
  <2> DEFINE t == Returned(s, p)
  <2>1. Becomes(h, t)
    BY <1>5
  <2>2. /\ SameRequest(hs[h], s) /\ s.pc = "parts"
        /\ s.fallback = hs[h].fallback
        /\ s.work = hs[h].work /\ s.merged = hs[h].merged
        /\ s.snap = hs[h].snap /\ s.out = o /\ s.todo = hs[h].todo
        /\ s.wg = hs[h].wg
    <3> HIDE DEF o
    <3> QED BY <1>2, <1>3, OutUpdate
  <2>3. s \in HandlerStates
    BY <2>2 DEF SameRequest
  <2> HIDE DEF s
  <2>4. PartsRun(s)
    <3>1. Active(s) = Active(hs[h])
      BY <2>2 DEF Active
    <3> QED BY <1>2, <2>2, <3>1 DEF PartsRun
  <2>5. /\ SameRequest(s, t) /\ t.pc = s.pc /\ t.fallback = s.fallback
        /\ t.work = [s.work EXCEPT ![p] = "done"]
        /\ t.merged = s.merged
        /\ t.snap = [s.snap EXCEPT ![p] = {}]
        /\ t.out = s.out /\ PartsRun(t)
    BY <2>2, <2>3, <2>4, Returns
  <2> HIDE DEF t
  <2>6. PartsWritten(t, conf.streaming)
    BY <1>2, <1>3, <2>2, <2>5 DEF PartsWritten
  <2>7. SameRequest(hs[h], t) /\ t.fallback = hs[h].fallback /\ t.pc = "parts"
    BY <2>2, <2>5 DEF SameRequest
  <2> QED BY <1>1, <1>2, <2>1, <2>5, <2>6, <2>7, PartKeeps
<1>6. CASE ~conf.streaming /\ Becomes(h, Returned(hs[h], p))
  <2> DEFINE t == Returned(hs[h], p)
  <2>1. Becomes(h, t)
    BY <1>6
  <2>2. /\ SameRequest(hs[h], t) /\ t.pc = hs[h].pc
        /\ t.fallback = hs[h].fallback
        /\ t.work = [hs[h].work EXCEPT ![p] = "done"]
        /\ t.merged = hs[h].merged
        /\ t.snap = [hs[h].snap EXCEPT ![p] = {}]
        /\ t.out = hs[h].out /\ t.sent = hs[h].sent
        /\ PartsRun(t)
    <3>1. hs[h].work[p] \in {"fetch", "write", "error"}
      OBVIOUS
    <3> QED BY <1>2, <3>1, Returns
  <2> HIDE DEF t
  <2>3. PartsWritten(t, conf.streaming)
    BY <1>6 DEF PartsWritten
  <2> QED BY <1>1, <1>2, <2>1, <2>2, <2>3, PartKeeps
<1> QED BY <1>4, <1>5, <1>6

LEMMA PartWritesKeeps ==
  ASSUME TreqInv, NEW h \in Handlers, NEW p \in Parts,
         PartWritten(h, p) \/ ErrorWritten(h, p)
  PROVE  TreqInv'
<1>1. CASE PartWritten(h, p)
  <2>1. hs[h].snap[p] \in (SUBSET Parts) \cup {ErrorText}
    BY DEF TreqInv, HandlerStates
  <2> QED BY <1>1, <2>1, WritesKeep DEF PartWritten
<1>2. CASE ErrorWritten(h, p)
  BY <1>2, WritesKeep DEF ErrorWritten
<1> QED BY <1>1, <1>2

LEMMA FlushKeeps ==
  ASSUME TreqInv, NEW h \in Handlers, Flush(h)
  PROVE  TreqInv'
<1> DEFINE t == WithPc(hs[h], "flushed")
<1>1. /\ hs[h] \in HandlerStates /\ hs[h].pc = "parts" /\ UNCHANGED shared
      /\ Local(hs[h], conf.streaming, issued, cookie)
      /\ hs[h].wg = 0 /\ Becomes(h, t)
  BY DEF TreqInv, Flush, At, Moves, WithPc
<1>2. SameRequest(hs[h], t) /\ SameParts(hs[h], t) /\ t.pc = "flushed"
  BY <1>1, PcUpdate DEF Pcs
<1> HIDE DEF t
<1>3. Active(hs[h]) = {}
  <2>1. Cardinality(Active(hs[h])) = 0
    BY <1>1 DEF Local, PartsRun
  <2> QED BY <2>1, ActiveCount, FS_EmptySet
<1>4. Active(t) = Active(hs[h])
  BY <1>2 DEF Active, SameParts
<1>5. PartsRun(t) /\ PartsWritten(t, conf.streaming)
  BY <1>1, <1>2, <1>3, <1>4 DEF Local, PartsRun, PartsWritten, SameParts
<1>6. Local(t, conf.streaming, issued, cookie)
  BY <1>1, <1>2, <1>5 DEF Local, HasRequest, SameRequest
<1> QED BY <1>1, <1>2, <1>6, QuietKeeps DEF Logging

LEMMA CountRequestKeeps ==
  ASSUME TreqInv, NEW h \in Handlers, CountRequest(h)
  PROVE  TreqInv'
<1>1. /\ conf' = conf /\ live' = live /\ issued' = issued /\ cookie' = cookie
      /\ Becomes(h, Idle)
  BY DEF CountRequest
<1>2. SharedInv'
  BY <1>1, ConfType, TreqAssumption DEF TreqInv, SharedInv, CountRequest
<1>3. Local(Idle, conf.streaming, issued', cookie') /\ Idle.pc = "idle"
  BY IdleLocal, IdleState
<1> HIDE DEF Idle
<1> QED BY <1>1, <1>2, <1>3, BecomesKeeps DEF Logging

-----------------------------------------------------------------------------

LEMMA HandleKeeps ==
  ASSUME TreqInv, NEW h \in Handlers,
         Start(h) \/ Portal(h) \/ Handle(h) \/ CountRequest(h)
  PROVE  TreqInv'
<1>1. CASE Start(h) \/ CountRequest(h)
  BY <1>1, StartKeeps, CountRequestKeeps
<1>2. CASE Portal(h)
  BY <1>2, LoginWithTokenKeeps, LoginFailsKeeps DEF Portal
<1>3. CASE Handle(h)
  <2>1. AnyPathCall(h) => TreqInv'
    BY LeavesKeeps DEF AnyPathCall
  <2>2. ASSUME NEW p \in Parts, Part(h, p) PROVE TreqInv'
    BY <2>2, PartFailsKeeps, PartMergedKeeps, PartWritesKeeps DEF Part
  <2> QED
    BY <1>3, <2>1, <2>2, EvaluateKeeps, DoKeeps, LoginSucceedsKeeps,
       CheckCookieKeeps, ApplyKeeps, BindJSONKeeps, TranslationsCallKeeps,
       SpawnKeeps, FlushKeeps DEF Handle
<1> QED BY <1>1, <1>2, <1>3

LEMMA SharedStepKeeps ==
  ASSUME TreqInv, SharedInv', UNCHANGED <<conf, issued, cookie, hs>>
  PROVE  TreqInv'
BY DEF TreqInv, OneLogin, LoggingIn

\* The process has just been started.
LEMMA AllIdle ==
  ASSUME SharedInv, hs = [h \in Handlers |-> Idle]
  PROVE  TreqInv
<1>1. \A h \in Handlers : hs[h] = Idle
  OBVIOUS
<1>2. \A h \in Handlers : Local(hs[h], conf.streaming, issued, cookie)
  BY <1>1, IdleLocal
<1>3. hs \in [Handlers -> HandlerStates]
  BY IdleState
<1>4. OneLogin
  BY <1>1, IdleState DEF OneLogin, LoggingIn
<1> QED BY <1>2, <1>3, <1>4 DEF TreqInv

LEMMA RestartKeeps ==
  ASSUME TreqInv, Restart
  PROVE  TreqInv'
<1>1. SharedInv'
  BY TreqAssumption DEF TreqInv, SharedInv, Restart
<1>2. \A h \in Handlers : hs'[h] = Idle
  BY DEF Restart
<1>3. \A h \in Handlers : Local(hs'[h], conf'.streaming, issued', cookie')
  BY <1>2, IdleLocal
<1>4. hs' \in [Handlers -> HandlerStates]
  BY IdleState DEF Restart
<1>5. OneLogin'
  BY <1>2, IdleState DEF OneLogin, LoggingIn
<1> QED BY <1>1, <1>3, <1>4, <1>5 DEF TreqInv

\* The invariant the theorems follow from (src/services/backend/treq).
THEOREM TreqInvariant == Spec => []TreqInv
<1>1. Init => TreqInv
  <2> SUFFICES ASSUME Init PROVE TreqInv
    OBVIOUS
  <2>1. SharedInv
    BY TreqAssumption, IssuedAre DEF Init, SharedInv
  <2> QED BY <2>1, AllIdle DEF Init
<1>2. TreqInv /\ [Next]_vars => TreqInv'
  <2> SUFFICES ASSUME TreqInv, [Next]_vars PROVE TreqInv'
    OBVIOUS
  <2>1. ASSUME NEW h \in Handlers,
               Start(h) \/ Portal(h) \/ Handle(h) \/ CountRequest(h)
        PROVE  TreqInv'
    BY <2>1, HandleKeeps
  <2>2. ASSUME NEW x \in Sessions, Expire(x) PROVE TreqInv'
    BY <2>2, SharedStepKeeps DEF Expire, TreqInv, SharedInv
  <2>3. CASE Drain
    BY <2>3, TreqAssumption, SharedStepKeeps DEF Drain, TreqInv, SharedInv
  <2>4. CASE Restart
    BY <2>4, RestartKeeps
  <2>5. CASE UNCHANGED vars
    BY <2>5, SharedStepKeeps DEF vars, TreqInv, SharedInv
  <2> QED BY <2>1, <2>2, <2>3, <2>4, <2>5 DEF Next
<1> QED BY <1>1, <1>2, PTL DEF Spec

\* Every variable keeps its type, the channel of the alarm its capacity.
THEOREM TypeCorrect == Spec => []TypeOK
<1>1. TreqInv => TypeOK
  BY CookieType DEF TreqInv, SharedInv, TypeOK
<1> QED BY <1>1, TreqInvariant, PTL

\* No handler and no goroutine reads the fallback cookie when there is none
\* (handler.go:186-191, subsets.go:165-170, withexamples.go:234-239, 303-308).
THEOREM FallbackAlwaysThere == Spec => []FallbackIsThere
<1>1. TreqInv => FallbackIsThere
  BY DEF TreqInv, Local, FallbackIsThere
<1> QED BY <1>1, TreqInvariant, PTL

\* No goroutine of a part is left to write once the counter of the WaitGroup has
\* let its handler flush the answer, however wg.Add, wg.Done and wg.Wait are
\* interleaved (subsets.go:157-162 and 230, and withexamples.go).
THEOREM NothingAfterFlush == Spec => []NoWriteAfterFlush
<1>1. TreqInv => NoWriteAfterFlush
  <2> SUFFICES ASSUME TreqInv, NEW h \in Handlers, hs[h].pc = "flushed",
                      NEW p \in Parts
               PROVE  hs[h].work[p] \in {"none", "done"}
    BY DEF NoWriteAfterFlush, At
  <2>1. Active(hs[h]) = {}
    BY DEF TreqInv, Local, PartsRun
  <2>2. hs[h].work[p] \in {"none", "fetch", "write", "error", "done"}
    BY DEF TreqInv, HandlerStates
  <2> QED BY <2>1, <2>2 DEF Active
<1> QED BY <1>1, TreqInvariant, PTL

\* In the streaming mode one event holds all the parts which came before the
\* answer is flushed, in whatever order its goroutines write (subsets.go,
\* withexamples.go).
THEOREM CompleteAlwaysWritten == Spec => []CompleteAnswerWritten
<1>1. TreqInv => CompleteAnswerWritten
  <2> SUFFICES ASSUME TreqInv, NEW h \in Handlers, hs[h].pc = "flushed",
                      conf.streaming
               PROVE  hs[h].merged = {} \/ hs[h].merged \in hs[h].out
    BY DEF CompleteAnswerWritten, At
  <2>1. Active(hs[h]) = {} /\ PartsWritten(hs[h], conf.streaming)
    BY DEF TreqInv, Local, PartsRun
  <2> QED BY <2>1 DEF Active, PartsWritten
<1> QED BY <1>1, TreqInvariant, PTL

LEMMA AgeOfIssued ==
  ASSUME NEW i \in 1..Len(Issued)
  PROVE  Age(Issued[i]) = i
<1>1. \A j \in DOMAIN Issued : Issued[j] = Issued[i] => j = i
  BY IssuedAre, TreqAssumption
<1>2. Age(Issued[i]) \in DOMAIN Issued /\ Issued[Age(Issued[i])] = Issued[i]
  BY IssuedAre DEF Age
<1> QED BY <1>1, <1>2

\* Only a step which ends a login changes the cookie, or the process's end.
LEMMA CookieChanges ==
  ASSUME TreqInv, [Next]_vars, cookie' # cookie
  PROVE  Restart \/ \E h \in Handlers : LoginSucceeds(h)
<1>1. ASSUME NEW h \in Handlers,
             Start(h) \/ Portal(h) \/ Handle(h) \/ CountRequest(h)
      PROVE  LoginSucceeds(h)
  <2>1. ASSUME NEW p \in Parts, Part(h, p) PROVE UNCHANGED shared
    BY <2>1 DEF Part, PartFails, PartMerged, PartWritten, ErrorWritten, Writes
  <2>2. Start(h) \/ LoginFails(h) \/ Evaluate(h) => UNCHANGED shared
    BY DEF Start, LoginFails, Evaluate
  <2>3. Do(h) \/ CheckCookie(h) \/ Apply(h) => UNCHANGED shared
    BY DEF Do, CheckCookie, Apply
  <2>4. BindJSON(h) \/ AnyPathCall(h) \/ TranslationsCall(h) =>
          UNCHANGED shared
    BY DEF BindJSON, AnyPathCall, TranslationsCall
  <2>5. Spawn(h) \/ Flush(h) => UNCHANGED shared
    BY DEF Spawn, Flush
  <2>6. LoginWithToken(h) \/ CountRequest(h) => cookie' = cookie
    BY DEF LoginWithToken, CountRequest
  <2>7. UNCHANGED shared => cookie' = cookie
    BY DEF shared
  <2> QED
    BY <1>1, <2>1, <2>2, <2>3, <2>4, <2>5, <2>6, <2>7 DEF Portal, Handle
<1>2. (\E x \in Sessions : Expire(x)) \/ Drain \/ UNCHANGED vars =>
        cookie' = cookie
  BY DEF Expire, Drain, vars
<1> QED BY <1>1, <1>2 DEF Next

\* Until the process is started anew the shared cookie is only ever replaced by
\* one of a later login (handler.go reauthSF.Do).
THEOREM CookieOnlyNewer == Spec => CookieNeverOlder
<1> DEFINE Newer ==
      /\ cookie' # None
      /\ cookie # None => Age(cookie') > Age(cookie)
<1>1. TreqInv /\ [Next]_vars =>
        [cookie' # cookie => Newer \/ hs' = [h \in Handlers |-> Idle]]_vars
  <2> SUFFICES ASSUME TreqInv, [Next]_vars, cookie' # cookie
               PROVE  Newer \/ hs' = [h \in Handlers |-> Idle]
    OBVIOUS
  <2>1. CASE Restart
    BY <2>1 DEF Restart
  <2>2. CASE ~Restart
    <3>1. PICK h \in Handlers : LoginSucceeds(h)
      BY <2>2, CookieChanges
    <3>2. /\ cookie' = Issued[issued] /\ issued > 0
      BY <3>1 DEF LoginSucceeds, At, TreqInv, Local
    <3>3. issued \in 1..Len(Issued)
      BY <3>2, IssuedAre DEF TreqInv, SharedInv
    <3>4. cookie' # None
      BY <3>2, <3>3, IssuedAre
    <3>5. ASSUME cookie # None PROVE Age(cookie') > Age(cookie)
      <4>1. PICK i \in 1..issued : cookie = Issued[i]
        BY <3>5 DEF TreqInv, SharedInv
      <4>2. i # issued
        BY <3>2, <4>1
      <4>3. Age(cookie) = i /\ Age(cookie') = issued
        BY <3>2, <3>3, <4>1, AgeOfIssued
      <4> QED BY <3>3, <4>2, <4>3
    <3> QED BY <3>4, <3>5
  <2> QED BY <2>1, <2>2
<1> QED BY <1>1, TreqInvariant, PTL DEF Spec, CookieNeverOlder

-----------------------------------------------------------------------------
(* Whose session Treq is given, and under which user. *)

Nobody == {InvalidUserID, ZeroUserID}

\* Of a handler, when the service is configured as c: the client never has a
\* session of APIGuard's; a user the guard came back with, or who is looked for
\* again, has one of the sessions the request presented, and but for X-Api-Key
\* the one which is sent; what X-Api-Key is given is what the cookie is.
SessionsOK(s, c) ==
  /\ s.pc \notin {"idle", "log"} =>
       /\ s.r.front \notin IssuedSessions /\ s.r.back \notin IssuedSessions
       /\ c.cookies = "same" => s.r.front = s.r.back
  /\ s.pc \notin {"call", "parts", "flushed"} => s.sent = {}
  /\ s.pc \in {"reauth", "login", "answered", "wait", "check"} =>
       s.user \in Nobody
  /\ s.pc = "apply" /\ c.cookies = "same" /\ ~s.fallback /\
     s.user \notin Nobody =>
       s.r.front \in Sessions /\ Owner[s.r.front] = s.user
  /\ s.pc = "call" /\ ~s.fallback /\ s.user \notin Nobody =>
       \E x \in {s.r.front, s.r.back} \cap Sessions :
         Owner[x] = s.user /\ (~c.key => s.sent = {x})
  /\ s.pc = "call" /\ c.key =>
       /\ ~s.fallback => s.key \notin IssuedSessions
       /\ s.fallback /\ s.r.front = None => s.key \in IssuedSessions
  /\ ~s.fallback => s.sent \cap IssuedSessions = {}
  /\ s.fallback /\ (s.pc = "call" => s.r.front = None) =>
       s.sent \subseteq IssuedSessions

SessionsInv == \A h \in Handlers : SessionsOK(hs[h], conf)

LEMMA IdleSessions ==
  ASSUME NEW t, t = Idle \/ t = WithPc(Idle, "log"), NEW c
  PROVE  SessionsOK(t, c)
<1>1. t.pc \in {"idle", "log"} /\ t.sent = {}
  <2>1. CASE t = Idle
    BY <2>1, IdleState
  <2>2. CASE t = WithPc(Idle, "log")
    BY <2>2, IdleState, PcUpdate DEF Pcs
  <2> QED BY <2>1, <2>2
<1> QED BY <1>1 DEF SessionsOK

LEMMA BecomesSessions ==
  ASSUME TreqInv, SessionsInv, conf' = conf,
         NEW h \in Handlers, NEW t, Becomes(h, t), SessionsOK(t, conf)
  PROVE  SessionsInv'
<1>1. /\ hs'[h] = t
      /\ \A g \in Handlers : g # h => hs'[g] = hs[g]
  BY DEF TreqInv, Becomes
<1> QED BY <1>1 DEF SessionsInv

LEMMA LeavesSessions ==
  ASSUME TreqInv, SessionsInv, UNCHANGED shared, NEW h \in Handlers, Leaves(h)
  PROVE  SessionsInv'
<1> DEFINE t == WithPc(Idle, "log")
<1>1. Becomes(h, t) /\ conf' = conf
  BY DEF Leaves, WithPc, shared
<1>2. SessionsOK(t, conf)
  BY IdleSessions
<1> HIDE DEF t
<1> QED BY <1>1, <1>2, BecomesSessions

\* What a handler was, as the steps below need it.
LEMMA HandlerWas ==
  ASSUME TreqInv, SessionsInv, NEW h \in Handlers
  PROVE  /\ hs[h] \in HandlerStates /\ SessionsOK(hs[h], conf)
         /\ Local(hs[h], conf.streaming, issued, cookie)
BY DEF TreqInv, SessionsInv

LEMMA StartSessions ==
  ASSUME TreqInv, SessionsInv, NEW h \in Handlers, Start(h)
  PROVE  SessionsInv'
<1>1. PICK q \in Requests[h] :
        /\ conf.cookies = "same" => q[2].front = q[2].back
        /\ Becomes(h, [Idle EXCEPT !.pc = "evaluate", !.kind = q[1],
                                   !.r = q[2]])
  BY DEF Start
<1> DEFINE t == [Idle EXCEPT !.pc = "evaluate", !.kind = q[1], !.r = q[2]]
<1>2. t.pc = "evaluate" /\ t.r = q[2] /\ t.sent = {}
  BY IdleState DEF HandlerStates
<1>3. Becomes(h, t) /\ conf' = conf
  BY <1>1 DEF Start, shared
<1> HIDE DEF t
<1>4. q[2].front \notin IssuedSessions /\ q[2].back \notin IssuedSessions
  BY TreqAssumption
<1>5. SessionsOK(t, conf)
  BY <1>1, <1>2, <1>4 DEF SessionsOK
<1> QED BY <1>3, <1>5, BecomesSessions

-----------------------------------------------------------------------------
(* The user the guard came back with. *)

LEMMA FoundOwner ==
  ASSUME NEW c, NEW s, NEW lives \in SUBSET Sessions,
         NEW f \in FindUserBySession(c, s, lives)
  PROVE  f.user = InvalidUserID \/ (s \in lives /\ f.user = Owner[s])
<1>1. \/ f \in {Broken, Panic, Found(InvalidUserID)}
      \/ s \in lives /\ f = Found(Owner[s])
  BY DEF FindUserBySession, NilUserFinder, SQLUserFinder
<1>2. CASE f \in {Broken, Panic, Found(InvalidUserID)}
  BY <1>2 DEF Broken, Panic, Found
<1>3. CASE s \in lives /\ f = Found(Owner[s])
  BY <1>3 DEF Found
<1> QED BY <1>1, <1>2, <1>3

\* Either nobody, with or without need of a login, or the user who was found.
EvaluatedAs(e, u, needs) ==
  /\ e.status = 401 => e.client \in Nobody
  /\ e.client \in Nobody \/ (e.client = u /\ e.fallback = needs)

LEMMA CNCAuthFoundAs ==
  ASSUME NEW c, NEW f, NEW b, NEW needs \in BOOLEAN
  PROVE  EvaluatedAs(CNCAuthFound(c, f, needs, b), f.user, needs)
<1>1. CASE f.panic
  BY <1>1 DEF CNCAuthFound, Evaluation, EvaluatedAs, Nobody
<1>2. CASE ~f.panic /\ f.err
  BY <1>2 DEF CNCAuthFound, Evaluation, EvaluatedAs, Nobody
<1>3. CASE ~f.panic /\ ~f.err /\ ~IsValid(f.user)
  BY <1>3 DEF CNCAuthFound, Evaluation, EvaluatedAs, Nobody
<1>4. CASE ~f.panic /\ ~f.err /\ IsValid(f.user)
  <2>1. CNCAuthFound(c, f, needs, b) = Throttled(c, b, f.user, needs)
    BY <1>4 DEF CNCAuthFound
  <2>2. EvaluatedAs(Throttled(c, b, f.user, needs), f.user, needs)
    BY DEF Throttled, Evaluation, EvaluatedAs, Nobody
  <2> QED BY <2>1, <2>2
<1> QED BY <1>1, <1>2, <1>3, <1>4

LEMMA EvaluateOwner ==
  ASSUME NEW c, c.guard = "cncauth", NEW r, NEW fallback,
         NEW lives \in SUBSET Sessions, NEW b,
         NEW e \in EvaluateRequest(c, r, fallback, lives, b)
  PROVE  /\ e.status = 401 => e.client \in Nobody
         /\ r.front = r.back /\ e.client \notin Nobody /\ ~e.fallback =>
              r.front \in Sessions /\ e.client = Owner[r.front]
<1> DEFINE s == GetFrontendOrBackendSession(c, r)
           needs == s = None
           used == IF needs THEN fallback ELSE s
           x == UpdatedFrom(c, used)
<1>1. e \in CNCAuthEvaluate(c, r, fallback, lives, b)
  BY DEF EvaluateRequest
<1>2. CASE s = None /\ fallback = None
  <2>1. e = Evaluation(401, InvalidUserID, TRUE, TRUE, FALSE)
    BY <1>1, <1>2 DEF CNCAuthEvaluate
  <2> QED BY <2>1 DEF Evaluation, Nobody
<1>3. CASE ~(s = None /\ fallback = None)
  <2>1. PICK f \in FindUserBySession(c, x, lives) :
          e = CNCAuthFound(c, f, needs, b)
    BY <1>1, <1>3 DEF CNCAuthEvaluate
  <2>2. f.user = InvalidUserID \/ (x \in lives /\ f.user = Owner[x])
    <3> HIDE DEF x
    <3> QED BY FoundOwner
  <2>3. EvaluatedAs(e, f.user, needs)
    <3> HIDE DEF needs
    <3>1. needs \in BOOLEAN
      BY DEF needs
    <3> QED BY <2>1, <3>1, CNCAuthFoundAs
  <2>4. x \in lives => x = used /\ x \in Sessions
    BY GuardsAssumption DEF UpdatedFrom
  <2>5. r.front = r.back /\ ~needs => s = r.front
    BY DEF GetFrontendOrBackendSession, UpdatedFrom
  <2>6. used = IF needs THEN fallback ELSE s
    OBVIOUS
  <2> HIDE DEF s, needs, used, x
  <2>7. e.client \in Nobody \/
          (x = used /\ x \in Sessions /\ e.client = Owner[x] /\ e.fallback = needs)
    BY <2>2, <2>3, <2>4 DEF EvaluatedAs, Nobody
  <2>8. e.status = 401 => e.client \in Nobody
    BY <2>3 DEF EvaluatedAs
  <2> QED BY <2>5, <2>6, <2>7, <2>8
<1> QED BY <1>2, <1>3

LEMMA EvaluateSessions ==
  ASSUME TreqInv, SessionsInv, NEW h \in Handlers, Evaluate(h)
  PROVE  SessionsInv'
<1>0. /\ hs[h] \in HandlerStates /\ hs[h].pc = "evaluate" /\ UNCHANGED shared
      /\ SessionsOK(hs[h], conf) /\ conf' = conf
  BY HandlerWas DEF Evaluate, At, shared
<1> DEFINE evaluations(b) == EvaluateRequest(conf, hs[h].r, cookie, live, b)
           result(e) ==
             WithEvaluation(hs[h], IF e.status = 401 THEN "reauth" ELSE "apply",
                            e.client, e.fallback)
<1>a. PICK level \in {0, 1} :
        \E e \in evaluations(level) : Leaves(h) \/ Becomes(h, result(e))
  BY DEF Evaluate, WithEvaluation
<1> HIDE DEF result
<1>1. PICK e \in evaluations(level) : Leaves(h) \/ Becomes(h, result(e))
  BY <1>a
<1>2. EvaluationOK(e, cookie)
  BY EvaluateOK, ConfType DEF TreqInv, SharedInv
<1>3. CASE Leaves(h)
  BY <1>0, <1>3, LeavesSessions
<1>4. CASE ~Leaves(h)
  <2> DEFINE place == IF e.status = 401 THEN "reauth" ELSE "apply"
             t == WithEvaluation(hs[h], place, e.client, e.fallback)
  <2>1. Becomes(h, t)
    BY <1>1, <1>4 DEF result
  <2>2. /\ place \in Pcs /\ place \in {"reauth", "apply"}
        /\ place = "reauth" => e.status = 401
    BY DEF Pcs
  <2> HIDE DEF place
  <2>3. e.client \in Users /\ e.fallback \in BOOLEAN
    BY <1>2 DEF EvaluationOK
  <2>4. /\ SameRequest(hs[h], t) /\ t.pc = place /\ t.fallback = e.fallback
        /\ t.user = e.client /\ t.sent = hs[h].sent
    BY <1>0, <2>2, <2>3, EvaluateUpdate
  <2> HIDE DEF t
  <2>5. /\ e.status = 401 => e.client \in Nobody
        /\ hs[h].r.front = hs[h].r.back /\ e.client \notin Nobody /\
           ~e.fallback =>
             hs[h].r.front \in Sessions /\ e.client = Owner[hs[h].r.front]
    BY EvaluateOwner, ConfType DEF TreqInv, SharedInv
  <2>6. SessionsOK(t, conf)
    BY <1>0, <2>2, <2>4, <2>5 DEF SessionsOK, SameRequest
  <2> QED BY <1>0, <2>1, <2>6, BecomesSessions
<1> QED BY <1>3, <1>4

-----------------------------------------------------------------------------
(* The other steps. *)

\* A handler which only moves: as long as it does not come to "apply" and
\* "call" with a user.
LEMMA MovesSessions ==
  ASSUME NEW s, NEW t, NEW c, SessionsOK(s, c), SameRequest(s, t),
         t.fallback = s.fallback, t.user = s.user, t.sent = s.sent,
         s.pc \in {"reauth", "login", "answered", "wait", "check"},
         t.pc \in {"login", "answered", "wait", "check", "apply"}
  PROVE  SessionsOK(t, c)
BY DEF SessionsOK, SameRequest

LEMMA DoSessions ==
  ASSUME TreqInv, SessionsInv, NEW h \in Handlers, Do(h)
  PROVE  SessionsInv'
<1> DEFINE place == IF LoggingIn = {} THEN "login" ELSE "wait"
           t == WithPc(hs[h], place)
<1>1. /\ hs[h] \in HandlerStates /\ SessionsOK(hs[h], conf)
      /\ hs[h].pc = "reauth" /\ conf' = conf /\ Becomes(h, t)
  BY HandlerWas DEF Do, At, Moves, WithPc, shared
<1>2. place \in Pcs /\ place \in {"login", "wait"}
  BY DEF Pcs
<1> HIDE DEF place
<1>3. /\ SameRequest(hs[h], t) /\ t.pc = place /\ t.fallback = hs[h].fallback
      /\ t.user = hs[h].user /\ t.sent = hs[h].sent
  BY <1>1, <1>2, PcUpdate
<1> HIDE DEF t
<1>4. SessionsOK(t, conf)
  BY <1>1, <1>2, <1>3, MovesSessions
<1> QED BY <1>1, <1>4, BecomesSessions

LEMMA CheckCookieSessions ==
  ASSUME TreqInv, SessionsInv, NEW h \in Handlers, CheckCookie(h)
  PROVE  SessionsInv'
<1>0. /\ hs[h] \in HandlerStates /\ SessionsOK(hs[h], conf)
      /\ hs[h].pc = "check" /\ UNCHANGED shared /\ conf' = conf
  BY HandlerWas DEF CheckCookie, At, shared
<1>1. CASE cookie = None
  BY <1>0, <1>1, LeavesSessions DEF CheckCookie
<1>2. CASE cookie # None
  <2> DEFINE t == WithPc(hs[h], "apply")
  <2>1. Becomes(h, t)
    BY <1>2 DEF CheckCookie, Moves, WithPc
  <2>2. /\ SameRequest(hs[h], t) /\ t.pc = "apply"
        /\ t.fallback = hs[h].fallback
        /\ t.user = hs[h].user /\ t.sent = hs[h].sent
    BY <1>0, PcUpdate DEF Pcs
  <2> HIDE DEF t
  <2>3. SessionsOK(t, conf)
    BY <1>0, <2>2, MovesSessions
  <2> QED BY <1>0, <2>1, <2>3, BecomesSessions
<1> QED BY <1>1, <1>2

LEMMA LoginWithTokenSessions ==
  ASSUME TreqInv, SessionsInv, NEW h \in Handlers, LoginWithToken(h)
  PROVE  SessionsInv'
<1> DEFINE l == Issued[issued + 1]
           t == WithLogin(hs[h], "answered", l)
<1>1. /\ hs[h] \in HandlerStates /\ SessionsOK(hs[h], conf)
      /\ hs[h].pc = "login" /\ conf' = conf
  BY HandlerWas DEF LoginWithToken, At
<1>2. Becomes(h, t)
  BY DEF LoginWithToken, WithLogin
<1>3. issued \in Nat /\ issued + 1 \in 1..Len(Issued)
  BY IssuedAre DEF TreqInv, SharedInv, LoginWithToken
<1>4. l \in IssuedSessions
  BY <1>3, IssuedAre DEF IssuedSessions
<1>5. /\ SameRequest(hs[h], t) /\ t.pc = "answered"
      /\ t.fallback = hs[h].fallback
      /\ t.user = hs[h].user /\ t.sent = hs[h].sent
  <2> HIDE DEF l
  <2> QED BY <1>1, <1>4, LoginUpdate DEF Pcs
<1> HIDE DEF t
<1>6. SessionsOK(t, conf)
  BY <1>1, <1>5, MovesSessions
<1> QED BY <1>1, <1>2, <1>6, BecomesSessions

LEMMA LandedSessions ==
  ASSUME TreqInv, SessionsInv, conf' = conf, NEW h \in Handlers,
         Logging(hs[h]), NEW place \in {"log", "check"}, Landed(h, place)
  PROVE  SessionsInv'
<1> DEFINE new(g) == IF place = "log" THEN WithPc(Idle, "log")
                     ELSE WithLogin(hs[g], place, None)
<1>1. \A g \in Handlers :
        hs'[g] = IF g # h /\ ~At(g, "wait") THEN hs[g] ELSE new(g)
  BY DEF Landed, WithPc, WithLogin
<1>2. ASSUME NEW g \in Handlers, hs[g].pc = "wait" \/ Logging(hs[g])
      PROVE  SessionsOK(new(g), conf)
  <2>1. CASE place = "log"
    BY <2>1, IdleSessions
  <2>2. CASE place = "check"
    <3> DEFINE t == WithLogin(hs[g], "check", None)
    <3>1. hs[g] \in HandlerStates /\ SessionsOK(hs[g], conf)
      BY HandlerWas
    <3>2. /\ SameRequest(hs[g], t) /\ t.pc = "check"
          /\ t.fallback = hs[g].fallback
          /\ t.user = hs[g].user /\ t.sent = hs[g].sent
      BY <3>1, LoginUpdate DEF Pcs
    <3>3. new(g) = t
      BY <2>2
    <3> HIDE DEF t, new
    <3> QED BY <1>2, <3>1, <3>2, <3>3, MovesSessions DEF Logging
  <2> QED BY <2>1, <2>2
<1> HIDE DEF new
<1> QED BY <1>1, <1>2 DEF SessionsInv, At

\* The cookies of the request as it is after the fallback cookie was put in, and
\* after the frontend cookie was mapped.
LEMMA FallbackCookies ==
  ASSUME NEW h \in Handlers, hs[h].r \in AnyRequest
  PROVE  /\ WithFallback(h).back =
              IF hs[h].fallback THEN cookie ELSE hs[h].r.back
         /\ WithFallback(h).front =
              IF hs[h].fallback /\ conf.cookies = "same" THEN cookie
              ELSE hs[h].r.front
<1>1. CASE ~hs[h].fallback
  BY <1>1 DEF WithFallback
<1>2. CASE hs[h].fallback /\ conf.cookies = "same"
  <2>1. WithFallback(h) = [hs[h].r EXCEPT !.back = cookie, !.front = cookie]
    BY <1>2 DEF WithFallback
  <2> QED BY <1>2, <2>1 DEF AnyRequest
<1>3. CASE hs[h].fallback /\ conf.cookies # "same"
  <2>1. WithFallback(h) = [hs[h].r EXCEPT !.back = cookie, !.front = @]
    BY <1>3 DEF WithFallback
  <2> QED BY <1>3, <2>1 DEF AnyRequest
<1> QED BY <1>1, <1>2, <1>3

LEMMA MappedCookies ==
  ASSUME NEW r \in AnyRequest
  PROVE  /\ MapFrontendCookieToBackend(r).front = r.front
         /\ MapFrontendCookieToBackend(r).back =
              IF conf.cookies # "none" /\ r.front # None THEN r.front
              ELSE r.back
<1>1. CASE reqUsesMappedSession(r)
  <2>1. MapFrontendCookieToBackend(r) = [r EXCEPT !.back = r.front]
    BY <1>1 DEF MapFrontendCookieToBackend
  <2> QED BY <1>1, <2>1 DEF AnyRequest, reqUsesMappedSession
<1>2. CASE ~reqUsesMappedSession(r)
  BY <1>2 DEF MapFrontendCookieToBackend, reqUsesMappedSession
<1> QED BY <1>1, <1>2

\* The session AnyPath and WithExamples send is that of the frontend cookie if
\* there is one; unless it is in X-Api-Key, the guard is asked for its user.
LEMMA AppliedCookies ==
  ASSUME TreqInv, NEW h \in Handlers, hs[h].r \in AnyRequest,
         NEW r, r = HeadersProcessed(WithFallback(h))
  PROVE  /\ r \in AnyRequest
         /\ MapFrontendCookieToBackend(r).back =
              IF conf.cookies # "none" /\ WithFallback(h).front # None
              THEN WithFallback(h).front ELSE WithFallback(h).back
         /\ ~conf.key => r.back = MapFrontendCookieToBackend(r).back
         /\ conf.key => /\ r = WithFallback(h)
                        /\ APIKey(WithFallback(h)) =
                             MapFrontendCookieToBackend(r).back
         /\ APIKey(WithFallback(h)) \in Cookies
<1> DEFINE w == WithFallback(h)
<1>1. w \in AnyRequest
  BY FallbackType
<1> HIDE DEF w
<1>2. r = IF conf.key THEN w ELSE MapFrontendCookieToBackend(w)
  BY DEF HeadersProcessed, w
<1>3. r \in AnyRequest
  BY <1>1, <1>2, MappedType
<1>4. /\ MapFrontendCookieToBackend(w).front = w.front
      /\ MapFrontendCookieToBackend(w).back =
           IF conf.cookies # "none" /\ w.front # None THEN w.front ELSE w.back
  BY <1>1, MappedCookies
<1>5. MapFrontendCookieToBackend(r).back =
        IF conf.cookies # "none" /\ r.front # None THEN r.front ELSE r.back
  BY <1>3, MappedCookies
<1>k. APIKey(w) \in Cookies
  BY <1>1, MappedType DEF APIKey, Cookies
<1>6. CASE conf.key
  <2>1. r = w /\ APIKey(w) = MapFrontendCookieToBackend(r).back
    BY <1>2, <1>6 DEF APIKey
  <2> QED BY <1>3, <1>5, <1>6, <1>k, <2>1 DEF w
<1>7. CASE ~conf.key
  <2>1. r.front = w.front /\ r.back = MapFrontendCookieToBackend(w).back
    BY <1>2, <1>4, <1>7
  <2> QED BY <1>3, <1>4, <1>5, <1>7, <1>k, <2>1 DEF w
<1> QED BY <1>6, <1>7

LEMMA ApplySessions ==
  ASSUME TreqInv, SessionsInv, NEW h \in Handlers, Apply(h)
  PROVE  SessionsInv'
<1> DEFINE r == HeadersProcessed(WithFallback(h))
           b == MapFrontendCookieToBackend(r).back
           x == {b}
           k == APIKey(WithFallback(h))
           presented == {hs[h].r.front, hs[h].r.back}
<1>1. /\ hs[h] \in HandlerStates /\ SessionsOK(hs[h], conf)
      /\ Local(hs[h], conf.streaming, issued, cookie)
      /\ hs[h].pc = "apply" /\ UNCHANGED shared /\ conf' = conf
  BY HandlerWas DEF Apply, At, shared
<1>2. /\ hs[h].r \in AnyRequest
      /\ hs[h].fallback => cookie \in IssuedSessions /\ cookie # None
  BY <1>1, CookieType DEF TreqInv, Local, HasRequest
<1>3. \/ Leaves(h)
      \/ conf.cookies = "same" /\ Becomes(h, WithSent(hs[h], hs[h].user, x, k))
      \/ conf.cookies # "same" /\ \E f \in DetermineTrueUserID(conf, r, live) :
           Becomes(h, WithSent(hs[h], f.user, x, k))
  BY DEF Apply, WithSent
<1>4. /\ r \in AnyRequest
      /\ b = IF conf.cookies # "none" /\ WithFallback(h).front # None
             THEN WithFallback(h).front ELSE WithFallback(h).back
      /\ ~conf.key => r.back = b
      /\ conf.key => r = WithFallback(h) /\ k = b
      /\ k \in Cookies
  BY <1>2, AppliedCookies
<1> HIDE DEF r, b, k
<1>5. /\ WithFallback(h).back =
           IF hs[h].fallback THEN cookie ELSE hs[h].r.back
      /\ WithFallback(h).front =
           IF hs[h].fallback /\ conf.cookies = "same" THEN cookie
           ELSE hs[h].r.front
  BY <1>2, FallbackCookies
<1>6. /\ ~hs[h].fallback => b \notin IssuedSessions
      /\ hs[h].fallback /\ hs[h].r.front = None => b \in IssuedSessions
  BY <1>1, <1>2, <1>4, <1>5 DEF SessionsOK
<1>7. b \in Cookies
  BY <1>4, MappedType DEF b
<1>a. ~hs[h].fallback => b \in presented /\ r.back \in presented
  BY <1>4, <1>5
<1>8. ASSUME NEW u \in Users,
             ~hs[h].fallback /\ u \notin Nobody =>
               \E y \in presented \cap Sessions :
                 Owner[y] = u /\ (~conf.key => b = y),
             Becomes(h, WithSent(hs[h], u, x, k))
      PROVE  SessionsInv'
  <2> DEFINE t == WithSent(hs[h], u, x, k)
  <2>1. /\ SameRequest(hs[h], t) /\ t.pc = "call"
        /\ t.fallback = hs[h].fallback /\ t.user = u /\ t.sent = x /\ t.key = k
    <3>1. x \in SUBSET Cookies
      BY <1>7
    <3> HIDE DEF x
    <3> QED BY <1>1, <1>4, <3>1, SentUpdate
  <2>2. Becomes(h, t)
    BY <1>8
  <2> HIDE DEF t
  <2>3. t.r = hs[h].r /\ t.sent = {b} /\ (conf.key => t.key = b)
    BY <1>4, <2>1 DEF SameRequest
  <2>4. ~t.fallback /\ t.user \notin Nobody =>
          \E y \in {t.r.front, t.r.back} \cap Sessions :
            Owner[y] = t.user /\ (~conf.key => t.sent = {y})
    BY <1>8, <2>1, <2>3
  <2>5. SessionsOK(t, conf)
    BY <1>1, <1>6, <2>1, <2>3, <2>4 DEF SessionsOK
  <2> QED BY <1>1, <2>2, <2>5, BecomesSessions
<1>9. CASE conf.cookies = "same" /\ Becomes(h, WithSent(hs[h], hs[h].user, x, k))
  <2>1. hs[h].user \in Users
    BY <1>1 DEF HandlerStates
  <2>2. ASSUME ~hs[h].fallback, hs[h].user \notin Nobody
        PROVE  b \in presented \cap Sessions /\ Owner[b] = hs[h].user
    BY <1>1, <1>9, <1>a, <2>2 DEF SessionsOK
  <2> QED BY <1>8, <1>9, <2>1, <2>2
<1>10. ASSUME NEW f \in DetermineTrueUserID(conf, r, live),
              Becomes(h, WithSent(hs[h], f.user, x, k))
       PROVE  SessionsInv'
  <2>1. f \in CNCAuthTrueUser(conf, r, live) /\ live \in SUBSET Sessions
    BY ConfType DEF TreqInv, DetermineTrueUserID, SharedInv
  <2>2. /\ f.user \in Users
        /\ f.user \notin Nobody => r.back \in Sessions /\ Owner[r.back] = f.user
    <3>1. CASE r.back = None
      BY <2>1, <3>1 DEF CNCAuthTrueUser, Found, Users, Nobody
    <3>2. CASE r.back # None
      <4> DEFINE y == UpdatedFrom(conf, r.back)
      <4>1. f \in FindUserBySession(conf, y, live)
        BY <2>1, <3>2 DEF CNCAuthTrueUser
      <4>2. y \in Sessions => y = r.back
        BY GuardsAssumption DEF UpdatedFrom
      <4> HIDE DEF y
      <4>3. f.user = InvalidUserID \/ (y \in live /\ f.user = Owner[y])
        BY <2>1, <4>1, FoundOwner
      <4>4. f.user \in Users
        BY <2>1, <4>1, FoundType
      <4> QED BY <2>1, <4>2, <4>3, <4>4 DEF Nobody
    <3> QED BY <3>1, <3>2
  <2>3. ~hs[h].fallback /\ f.user \notin Nobody =>
          \E y \in presented \cap Sessions :
            Owner[y] = f.user /\ (~conf.key => b = y)
    BY <1>4, <1>a, <2>2
  <2> QED BY <1>8, <1>10, <2>2, <2>3
<1> QED BY <1>1, <1>3, <1>9, <1>10, LeavesSessions

\* The goroutines are started, once what is sent is settled.
LEMMA StartedSessions ==
  ASSUME NEW s, NEW t, NEW c, SessionsOK(s, c), SameRequest(s, t),
         s.pc \in {"apply", "call", "parts"}, t.pc \in {"parts", "flushed"},
         t.fallback = s.fallback,
         ~s.fallback => t.sent \cap IssuedSessions = {},
         s.fallback => t.sent \subseteq IssuedSessions
  PROVE  SessionsOK(t, c)
BY DEF SessionsOK, SameRequest

LEMMA WorkSessions ==
  ASSUME TreqInv, SessionsInv, conf' = conf, NEW h \in Handlers,
         hs[h].pc \in {"apply", "call"},
         NEW s \in HandlerStates, SameRequest(hs[h], s),
         s.fallback = hs[h].fallback,
         ~s.fallback => s.sent \cap IssuedSessions = {},
         s.fallback => s.sent \subseteq IssuedSessions,
         NEW d \in SUBSET Parts, Becomes(h, WithTodo(s, ZeroUserID, d))
  PROVE  SessionsInv'
<1> DEFINE t == WithTodo(s, ZeroUserID, d)
<1>1. Becomes(h, t)
  OBVIOUS
<1>2. /\ SameRequest(s, t) /\ t.pc = "parts" /\ t.fallback = s.fallback
      /\ t.sent = s.sent
  <2>1. ZeroUserID \in Users
    BY DEF Users
  <2> QED BY <2>1, TodoUpdate
<1> HIDE DEF t
<1>3. SameRequest(hs[h], t) /\ t.fallback = hs[h].fallback
  BY <1>2 DEF SameRequest
<1>4. SessionsOK(hs[h], conf)
  BY HandlerWas
<1>5. SessionsOK(t, conf)
  BY <1>2, <1>3, <1>4, StartedSessions
<1> QED BY <1>1, <1>5, BecomesSessions

LEMMA BindJSONSessions ==
  ASSUME TreqInv, SessionsInv, NEW h \in Handlers, BindJSON(h)
  PROVE  SessionsInv'
<1> DEFINE parts(n) == {p \in Parts : p <= n}
<1>1. /\ hs[h] \in HandlerStates /\ SessionsOK(hs[h], conf)
      /\ hs[h].pc = "apply" /\ UNCHANGED shared /\ conf' = conf
  BY HandlerWas DEF BindJSON, At, shared
<1>2. \/ Leaves(h)
      \/ \E n \in 0..MaxLines :
           Becomes(h, WithTodo(hs[h], ZeroUserID, parts(n)))
  BY DEF BindJSON, WithTodo
<1>3. CASE Leaves(h)
  BY <1>1, <1>3, LeavesSessions
<1>4. ASSUME NEW n \in 0..MaxLines,
             Becomes(h, WithTodo(hs[h], ZeroUserID, parts(n)))
      PROVE  SessionsInv'
  <2>1. SameRequest(hs[h], hs[h]) /\ hs[h].sent = {}
    BY <1>1 DEF SameRequest, SessionsOK
  <2>2. parts(n) \in SUBSET Parts
    OBVIOUS
  <2> HIDE DEF parts
  <2> QED BY <1>1, <1>4, <2>1, <2>2, WorkSessions
<1> QED BY <1>2, <1>3, <1>4

LEMMA TranslationsCallSessions ==
  ASSUME TreqInv, SessionsInv, NEW h \in Handlers, TranslationsCall(h)
  PROVE  SessionsInv'
<1> DEFINE given == IF hs[h].fallback THEN {cookie} ELSE hs[h].sent
           s == WithSentAgain(hs[h], given)
           parts(n) == {p \in Parts : p <= n}
<1>1. /\ hs[h] \in HandlerStates /\ SessionsOK(hs[h], conf)
      /\ Local(hs[h], conf.streaming, issued, cookie)
      /\ hs[h].pc = "call" /\ UNCHANGED shared /\ conf' = conf
  BY HandlerWas DEF TranslationsCall, At, shared
<1>2. \/ Leaves(h)
      \/ \E n \in 0..(MaxLines + 1) :
           Becomes(h, WithTodo(s, ZeroUserID, parts(n)))
  BY DEF TranslationsCall, WithTodo, WithSentAgain
<1>3. given \in SUBSET Cookies
  BY <1>1, CookieType DEF TreqInv, HandlerStates
<1>4. /\ ~hs[h].fallback => given \cap IssuedSessions = {}
      /\ hs[h].fallback => given \subseteq IssuedSessions
  BY <1>1, CookieType DEF TreqInv, SessionsOK, Local
<1> HIDE DEF given
<1>5. SameRequest(hs[h], s) /\ s.fallback = hs[h].fallback /\ s.sent = given
  BY <1>1, <1>3, SentAgainUpdate
<1>6. s \in HandlerStates
  BY <1>5 DEF SameRequest
<1> HIDE DEF s
<1>7. CASE Leaves(h)
  BY <1>1, <1>7, LeavesSessions
<1>8. ASSUME NEW n \in 0..(MaxLines + 1),
             Becomes(h, WithTodo(s, ZeroUserID, parts(n)))
      PROVE  SessionsInv'
  <2>1. parts(n) \in SUBSET Parts
    OBVIOUS
  <2> HIDE DEF parts
  <2> QED BY <1>1, <1>4, <1>5, <1>6, <1>8, <2>1, WorkSessions
<1> QED BY <1>2, <1>7, <1>8

\* The session a goroutine sends: in WithExamples none of those at stake.
LEMMA PartSends ==
  ASSUME TreqInv, SessionsInv, NEW h \in Handlers, NEW p \in Parts,
         hs[h].work[p] \in {"fetch", "write", "error"}
  PROVE  /\ hs[h] \in HandlerStates /\ SessionsOK(hs[h], conf)
         /\ hs[h].pc = "parts" /\ SentByPart(h) \in SUBSET Cookies
         /\ ~hs[h].fallback =>
              /\ SentByPart(h) \cap IssuedSessions = {}
              /\ hs[h].sent \cap IssuedSessions = {}
         /\ hs[h].fallback =>
              /\ SentByPart(h) \subseteq IssuedSessions
              /\ hs[h].sent \subseteq IssuedSessions
<1>1. /\ hs[h] \in HandlerStates /\ SessionsOK(hs[h], conf)
      /\ Local(hs[h], conf.streaming, issued, cookie)
  BY HandlerWas
<1>2. hs[h].pc = "parts" /\ SentByPart(h) \in SUBSET Cookies
  BY PartRuns
<1>3. WithFallback(h).back = IF hs[h].fallback THEN cookie ELSE hs[h].r.back
  BY <1>1, <1>2, FallbackCookies DEF Local, HasRequest
<1>4. /\ ~hs[h].fallback => WithFallback(h).back \notin IssuedSessions
      /\ hs[h].fallback => WithFallback(h).back \in IssuedSessions
  BY <1>1, <1>2, <1>3, CookieType DEF TreqInv, Local, SessionsOK
<1>5. /\ ~hs[h].fallback => hs[h].sent \cap IssuedSessions = {}
      /\ hs[h].fallback => hs[h].sent \subseteq IssuedSessions
  BY <1>1, <1>2 DEF SessionsOK
<1>6. \/ SentByPart(h) = hs[h].sent \cup {WithFallback(h).back}
      \/ SentByPart(h) = hs[h].sent
  BY DEF SentByPart
<1> QED BY <1>1, <1>2, <1>4, <1>5, <1>6

LEMMA PartSessions ==
  ASSUME TreqInv, SessionsInv, NEW h \in Handlers, NEW p \in Parts, Part(h, p)
  PROVE  SessionsInv'
<1> DEFINE x == SentByPart(h)
           m == hs[h].merged \cup {p}
           s == WithOnlySent(hs[h], x)
<1>1. hs[h].work[p] \in {"fetch", "write", "error"} /\ conf' = conf
  BY DEF Part, PartFails, PartMerged, PartWritten, ErrorWritten, Writes, shared
<1>2. \/ Becomes(h, WithError(s, p)) \/ Becomes(h, Returned(s, p))
      \/ Becomes(h, WithMerged(hs[h], p, m, x))
      \/ \E event \in (SUBSET Parts) \cup {ErrorText} : Writes(h, p, event)
  <2>1. hs[h].snap[p] \in SUBSET Parts
    BY HandlerWas DEF HandlerStates
  <2> QED BY <2>1 DEF Part, PartFails, PartMerged, PartWritten, ErrorWritten,
                      WithError, WithMerged, WithOnlySent
<1>3. /\ hs[h] \in HandlerStates /\ SessionsOK(hs[h], conf)
      /\ hs[h].pc = "parts" /\ x \in SUBSET Cookies
      /\ ~hs[h].fallback =>
           x \cap IssuedSessions = {} /\ hs[h].sent \cap IssuedSessions = {}
      /\ hs[h].fallback =>
           x \subseteq IssuedSessions /\ hs[h].sent \subseteq IssuedSessions
  BY <1>1, PartSends
<1> HIDE DEF x
<1>4. ASSUME NEW t, Becomes(h, t), SameRequest(hs[h], t), t.pc = "parts",
             t.fallback = hs[h].fallback, t.sent = x \/ t.sent = hs[h].sent
      PROVE  SessionsInv'
  <2>1. SessionsOK(t, conf)
    BY <1>3, <1>4, StartedSessions
  <2> QED BY <1>1, <1>4, <2>1, BecomesSessions
<1>5. /\ SameRequest(hs[h], s) /\ s.pc = "parts" /\ s.fallback = hs[h].fallback
      /\ s.sent = x /\ SameParts(hs[h], s)
  BY <1>3, OnlySentUpdate
<1>6. s \in HandlerStates
  BY <1>5 DEF SameRequest
<1>7. m \in SUBSET Parts
  BY <1>3 DEF HandlerStates
<1> HIDE DEF s, m
<1>8. ASSUME NEW u \in HandlerStates, SameRequest(hs[h], u), u.pc = "parts",
             u.fallback = hs[h].fallback, u.sent = x \/ u.sent = hs[h].sent,
             u.work = hs[h].work, u.wg = hs[h].wg, Becomes(h, Returned(u, p))
      PROVE  SessionsInv'
  <2> DEFINE t == Returned(u, p)
  <2>1. Becomes(h, t)
    BY <1>8
  <2>2. u.wg - 1 \in 0..MaxLines
    <3>1. p \in Active(hs[h]) /\ hs[h].wg = Cardinality(Active(hs[h]))
      BY <1>1, HandlerWas DEF Active, Local, PartsRun
    <3>2. /\ IsFiniteSet(Active(hs[h]))
          /\ Cardinality(Active(hs[h])) \in 0..MaxLines
      BY ActiveCount
    <3>3. Cardinality(Active(hs[h])) # 0
      BY <3>1, <3>2, FS_EmptySet
    <3> QED BY <1>8, <3>1, <3>2, <3>3, TreqAssumption
  <2>3. /\ SameRequest(u, t) /\ t.pc = u.pc /\ t.fallback = u.fallback
        /\ t.work = [u.work EXCEPT ![p] = "done"]
        /\ t.merged = u.merged
        /\ t.snap = [u.snap EXCEPT ![p] = {}]
        /\ t.out = u.out /\ t.todo = u.todo /\ t.wg = u.wg - 1
        /\ t.sent = u.sent
    BY <2>2, ReturnUpdate
  <2> HIDE DEF t
  <2>4. SameRequest(hs[h], t) /\ t.pc = "parts" /\ t.fallback = hs[h].fallback
    BY <1>8, <2>3 DEF SameRequest
  <2> QED BY <1>4, <1>8, <2>1, <2>3, <2>4
<1>9. CASE Becomes(h, WithError(s, p))
  <2> DEFINE t == WithError(s, p)
  <2>1. Becomes(h, t)
    BY <1>9
  <2>2. /\ SameRequest(s, t) /\ t.pc = s.pc /\ t.fallback = s.fallback
        /\ t.work = [s.work EXCEPT ![p] = "error"]
        /\ t.merged = s.merged /\ t.snap = s.snap
        /\ t.out = s.out /\ t.todo = s.todo /\ t.wg = s.wg
        /\ t.sent = s.sent
    BY <1>6, ErrorUpdate
  <2> HIDE DEF t
  <2>3. SameRequest(hs[h], t)
    BY <1>5, <2>2 DEF SameRequest
  <2> QED BY <1>4, <1>5, <2>1, <2>2, <2>3
<1>10. CASE Becomes(h, Returned(s, p))
  BY <1>5, <1>6, <1>8, <1>10 DEF SameParts
<1>11. CASE Becomes(h, WithMerged(hs[h], p, m, x))
  <2> DEFINE t == WithMerged(hs[h], p, m, x)
  <2>1. Becomes(h, t)
    BY <1>11
  <2>2. /\ SameRequest(hs[h], t) /\ t.pc = hs[h].pc
        /\ t.fallback = hs[h].fallback
        /\ t.work = [hs[h].work EXCEPT ![p] = "write"]
        /\ t.merged = m
        /\ t.snap = [hs[h].snap EXCEPT ![p] = m]
        /\ t.out = hs[h].out /\ t.todo = hs[h].todo /\ t.wg = hs[h].wg
        /\ t.sent = x
    BY <1>3, <1>7, MergeUpdate
  <2> HIDE DEF t
  <2> QED BY <1>3, <1>4, <2>1, <2>2
<1>12. ASSUME NEW event \in (SUBSET Parts) \cup {ErrorText}, Writes(h, p, event)
       PROVE  SessionsInv'
  <2> DEFINE o == hs[h].out \cup {event}
             u == WithOut(hs[h], o)
  <2>1. Becomes(h, Returned(u, p)) \/ Becomes(h, Returned(hs[h], p))
    BY <1>12 DEF Writes, WithOut
  <2>2. o \in SUBSET ((SUBSET Parts) \cup {ErrorText})
    BY <1>3 DEF HandlerStates
  <2> HIDE DEF o
  <2>3. /\ SameRequest(hs[h], u) /\ u.pc = hs[h].pc /\ u.work = hs[h].work
        /\ u.fallback = hs[h].fallback /\ u.wg = hs[h].wg /\ u.sent = hs[h].sent
    BY <1>3, <2>2, OutUpdate
  <2>4. u \in HandlerStates
    BY <2>3 DEF SameRequest
  <2> HIDE DEF u
  <2>5. CASE Becomes(h, Returned(u, p))
    BY <1>3, <1>8, <2>3, <2>4, <2>5
  <2>6. CASE Becomes(h, Returned(hs[h], p))
    <3>1. SameRequest(hs[h], hs[h])
      BY <1>3 DEF SameRequest
    <3> QED BY <1>3, <1>8, <2>6, <3>1
  <2> QED BY <2>1, <2>5, <2>6
<1> QED BY <1>2, <1>9, <1>10, <1>11, <1>12

LEMMA SpawnSessions ==
  ASSUME TreqInv, SessionsInv, NEW h \in Handlers, Spawn(h)
  PROVE  SessionsInv'
<1>1. PICK p \in hs[h].todo :
        Becomes(h, [hs[h] EXCEPT !.todo = @ \ {p}, !.work[p] = "fetch",
                                 !.wg = @ + 1])
  BY DEF Spawn
<1> DEFINE t == [hs[h] EXCEPT !.todo = @ \ {p}, !.work[p] = "fetch",
                              !.wg = @ + 1]
<1>2. /\ hs[h] \in HandlerStates /\ SessionsOK(hs[h], conf)
      /\ hs[h].pc = "parts" /\ conf' = conf
  BY HandlerWas DEF Spawn, At, shared
<1>3. /\ t.kind = hs[h].kind /\ t.r = hs[h].r /\ t.pc = "parts"
      /\ t.fallback = hs[h].fallback /\ t.sent = hs[h].sent
  BY <1>2 DEF HandlerStates
<1>4. Becomes(h, t)
  BY <1>1
<1> HIDE DEF t
<1>5. SessionsOK(t, conf)
  BY <1>2, <1>3 DEF SessionsOK
<1> QED BY <1>2, <1>4, <1>5, BecomesSessions

LEMMA FlushSessions ==
  ASSUME TreqInv, SessionsInv, NEW h \in Handlers, Flush(h)
  PROVE  SessionsInv'
<1> DEFINE t == WithPc(hs[h], "flushed")
<1>1. /\ hs[h] \in HandlerStates /\ SessionsOK(hs[h], conf)
      /\ hs[h].pc = "parts" /\ conf' = conf /\ Becomes(h, t)
  BY HandlerWas DEF Flush, At, Moves, WithPc, shared
<1>2. /\ SameRequest(hs[h], t) /\ t.pc = "flushed"
      /\ t.fallback = hs[h].fallback /\ t.sent = hs[h].sent
  BY <1>1, PcUpdate DEF Pcs
<1> HIDE DEF t
<1>3. SessionsOK(t, conf)
  BY <1>1, <1>2, StartedSessions DEF SessionsOK
<1> QED BY <1>1, <1>3, BecomesSessions

LEMMA HandleSessions ==
  ASSUME TreqInv, SessionsInv, NEW h \in Handlers,
         Start(h) \/ Portal(h) \/ Handle(h) \/ CountRequest(h)
  PROVE  SessionsInv'
<1>1. CASE Start(h)
  BY <1>1, StartSessions
<1>2. CASE CountRequest(h)
  <2>1. Becomes(h, Idle) /\ conf' = conf
    BY <1>2 DEF CountRequest
  <2>2. SessionsOK(Idle, conf)
    BY IdleSessions
  <2> HIDE DEF Idle
  <2> QED BY <2>1, <2>2, BecomesSessions
<1>3. CASE Portal(h)
  <2>1. ASSUME LoginFails(h) PROVE SessionsInv'
    <3>1. conf' = conf /\ Logging(hs[h])
      BY <2>1 DEF LoginFails, shared, At, Logging
    <3>2. \E place \in {"log", "check"} : Landed(h, place)
      BY <2>1 DEF LoginFails
    <3> QED BY <3>1, <3>2, LandedSessions
  <2> QED BY <1>3, <2>1, LoginWithTokenSessions DEF Portal
<1>4. CASE Handle(h)
  <2>1. AnyPathCall(h) => SessionsInv'
    BY LeavesSessions DEF AnyPathCall
  <2>2. ASSUME LoginSucceeds(h) PROVE SessionsInv'
    <3>1. conf' = conf /\ Logging(hs[h]) /\ Landed(h, "check")
      BY <2>2 DEF LoginSucceeds, At, Logging
    <3> QED BY <3>1, LandedSessions
  <2> QED
    BY <1>4, <2>1, <2>2, EvaluateSessions, DoSessions, CheckCookieSessions,
       ApplySessions, BindJSONSessions, TranslationsCallSessions,
       SpawnSessions, FlushSessions, PartSessions DEF Handle
<1> QED BY <1>1, <1>2, <1>3, <1>4

\* The sessions and users of the handlers, on top of TreqInv
\* (src/services/backend/treq).
THEOREM SessionsInvariant == Spec => []SessionsInv
<1>1. Init => SessionsInv
  <2> SUFFICES ASSUME Init PROVE SessionsInv
    OBVIOUS
  <2>1. \A h \in Handlers : hs[h] = Idle
    BY DEF Init
  <2> QED BY <2>1, IdleSessions DEF SessionsInv
<1>2. TreqInv /\ SessionsInv /\ [Next]_vars => SessionsInv'
  <2> SUFFICES ASSUME TreqInv, SessionsInv, [Next]_vars PROVE SessionsInv'
    OBVIOUS
  <2>1. ASSUME NEW h \in Handlers,
               Start(h) \/ Portal(h) \/ Handle(h) \/ CountRequest(h)
        PROVE  SessionsInv'
    BY <2>1, HandleSessions
  <2>2. (\E x \in Sessions : Expire(x)) \/ Drain \/ UNCHANGED vars =>
          hs' = hs /\ conf' = conf
    BY DEF Expire, Drain, vars
  <2>3. hs' = hs /\ conf' = conf => SessionsInv'
    BY DEF SessionsInv
  <2>4. CASE Restart
    <3>1. \A h \in Handlers : hs'[h] = Idle
      BY <2>4 DEF Restart
    <3> QED BY <3>1, IdleSessions DEF SessionsInv
  <2> QED BY <2>1, <2>2, <2>3, <2>4 DEF Next
<1> QED BY <1>1, <1>2, TreqInvariant, PTL DEF Spec

\* Treq is given a session of APIGuard's, in the cookie or in X-Api-Key, if and
\* only if the guard said so (but for AnyPath with a frontend cookie), whichever handlers have replaced the cookie meanwhile (handler.go:186-191,
\* subsets.go:165-170, withexamples.go:234-239 and 303-308).
THEOREM FallbackOnlyIfRequired == Spec => []FallbackIffRequired
<1>1. TreqInv /\ SessionsInv => FallbackIffRequired
  <2> SUFFICES ASSUME TreqInv, SessionsInv, NEW h \in Handlers,
                      hs[h].kind = "AnyPath" \/ At(h, "call") =>
                        hs[h].r.front = None,
                      NEW x \in Given(hs[h])
               PROVE  hs[h].fallback <=> x \in IssuedSessions
    BY DEF FallbackIffRequired
  <2>1. hs[h] \in HandlerStates /\ SessionsOK(hs[h], conf)
    BY HandlerWas
  <2>2. CASE x \in hs[h].sent
    BY <2>1, <2>2 DEF SessionsOK, At
  <2>3. CASE x \notin hs[h].sent
    <3>1. conf.key /\ hs[h].pc = "call" /\ x = hs[h].key
      BY <2>3 DEF Given
    <3> QED BY <2>1, <3>1 DEF SessionsOK, At
  <2> QED BY <2>2, <2>3
<1> QED BY <1>1, TreqInvariant, SessionsInvariant, PTL

\* Unless the request is served under the fallback cookie, X-Api-User names the
\* user whose session is sent, or nobody, whichever sessions expire meanwhile; in
\* the X-Api-Key configuration, where the code may name one user with the session
\* of another, at least one of the two the request presented (handler.go:186-231,
\* withexamples.go:234-262).
THEOREM NamedUserAlwaysOwns == Spec => []NamedUserOwnsSession
<1>1. SessionsInv => NamedUserOwnsSession
  BY DEF SessionsInv, SessionsOK, NamedUserOwnsSession, At, Nobody
<1> QED BY <1>1, SessionsInvariant, PTL
=============================================================================
