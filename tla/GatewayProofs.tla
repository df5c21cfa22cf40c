--------------------------- MODULE GatewayProofs ---------------------------
(***************************************************************************)
(* What the handlers promise, for any number of them and of addresses, any *)
(* requests and any configuration of any of the services.  First the rate  *)
(* limiters of the guards, which every step but an evaluation leaves       *)
(* alone.  Then all the rest: what a handler knows is consistent at every  *)
(* place it comes to (Local), whatever the others do meanwhile.            *)
(***************************************************************************)
EXTENDS Gateway, TLAPS

\* The guard comes to its limiter.
Limited(c) == c.guard # "null" /\ (c.guard = "cncauth" => c.db)

\* A limited guard keeps the account the property is about: what may still be
\* let through is what is in the bucket.
LimiterInv ==
  /\ conf \in Confs
  /\ Limited(conf) =>
       /\ buckets \in [IPs -> Fresh..Burst]
       /\ budget \in [IPs -> Int]
       /\ \A ip \in IPs : budget[ip] = Level(buckets[ip])

LEMMA BurstPositive == Burst \in Nat \ {0}
BY GuardsAssumption

LEMMA LevelType ==
  ASSUME NEW b \in Fresh..Burst
  PROVE  Level(b) \in 0..Burst
BY BurstPositive DEF Level, Fresh

\* The three ways an evaluation may end for the limiter: it was not asked and
\* nothing was let through, it refused, or it let the request through.
Ends(c, e, b) ==
  \/ ~e.asked /\ ~(c.limits /\ e.status = 200)
  \/ e.asked /\ c.limits /\ e.status = 429 /\ Level(b) = 0
  \/ e.asked /\ c.limits /\ e.status = 200 /\ Level(b) > 0

LEMMA ThrottledEnds ==
  ASSUME NEW c \in AnyConf, NEW b \in Fresh..Burst, NEW client, NEW fallback
  PROVE  Ends(c, Throttled(c, b, client, fallback), b)
<1>1. c.limits \in BOOLEAN
  BY DEF AnyConf
<1>2. Level(b) \in 0..Burst
  BY LevelType
<1>3. CASE ~Allow(c, b)
  BY <1>1, <1>2, <1>3, BurstPositive DEF Throttled, Evaluation, Ends, Allow
<1>4. CASE Allow(c, b)
  BY <1>1, <1>2, <1>4, BurstPositive
  DEF Throttled, Evaluation, Ends, Allow, TestIPBan
<1> QED BY <1>3, <1>4

LEMMA CNCAuthEnds ==
  ASSUME NEW c \in AnyConf, c.db, NEW b \in Fresh..Burst, NEW f, NEW needs
  PROVE  Ends(c, CNCAuthFound(c, f, needs, b), b)
<1>1. CASE f.panic
  BY <1>1 DEF CNCAuthFound, Evaluation, Ends
<1>2. CASE ~f.panic /\ f.err
  BY <1>2 DEF CNCAuthFound, Evaluation, Ends
<1>3. CASE ~f.panic /\ ~f.err /\ ~IsValid(f.user)
  BY <1>3 DEF CNCAuthFound, Evaluation, Ends
<1>4. CASE ~f.panic /\ ~f.err /\ IsValid(f.user)
  BY <1>4, ThrottledEnds DEF CNCAuthFound
<1> QED BY <1>1, <1>2, <1>3, <1>4

\* Every evaluation by a limited guard ends in one of these ways.
LEMMA EvaluationEnds ==
  ASSUME NEW c \in AnyConf, Limited(c), NEW b \in Fresh..Burst, NEW r,
         NEW fallback, NEW lives,
         NEW e \in EvaluateRequest(c, r, fallback, lives, b)
  PROVE  Ends(c, e, b)
<1>1. c.guard \in {"cncauth", "token", "dflt"}
  BY DEF AnyConf, Limited
<1>2. CASE c.guard = "cncauth"
  <2>1. e \in CNCAuthEvaluate(c, r, fallback, lives, b) /\ c.db
    BY <1>2 DEF EvaluateRequest, Limited
  <2>2. \/ e = Evaluation(401, InvalidUserID, TRUE, TRUE, FALSE)
        \/ \E f, needs : e = CNCAuthFound(c, f, needs, b)
    BY <2>1 DEF CNCAuthEvaluate
  <2>3. CASE e = Evaluation(401, InvalidUserID, TRUE, TRUE, FALSE)
    BY <2>3 DEF Evaluation, Ends
  <2> QED BY <2>1, <2>2, <2>3, CNCAuthEnds
<1>3. CASE c.guard = "token"
  <2>1. \/ e = Evaluation(401, InvalidUserID, TRUE, FALSE, FALSE)
        \/ e = Throttled(c, b, ValidateToken(r), FALSE)
    BY <1>3 DEF EvaluateRequest, TokenEvaluate
  <2>2. CASE e = Evaluation(401, InvalidUserID, TRUE, FALSE, FALSE)
    BY <2>2 DEF Evaluation, Ends
  <2> QED BY <2>1, <2>2, ThrottledEnds
<1>4. CASE c.guard = "dflt"
  BY <1>4, ThrottledEnds DEF EvaluateRequest, DfltEvaluate
<1> QED BY <1>1, <1>2, <1>3, <1>4

-----------------------------------------------------------------------------
(* What a step does to the limiters: nothing, or it is an evaluation. *)

Counts(ip, e) ==
  /\ buckets' = [buckets EXCEPT ![ip] = Spent(@, e)]
  /\ budget' = [budget EXCEPT ![ip] =
                  IF conf.limits /\ e.status = 200 /\ @ > OverBudget
                  THEN @ - 1 ELSE @]

Evaluated ==
  \E ip : \E r : \E e \in EvaluateRequest(conf, r, None, live, buckets[ip]) :
    Counts(ip, e)

Untouched == UNCHANGED <<buckets, budget>>

Mild == conf' = conf /\ (Untouched \/ Evaluated)

LEMMA BecomesMild ==
  ASSUME NEW h, NEW s, Becomes(h, s)
  PROVE  conf' = conf /\ Untouched
BY DEF Becomes, shared, Untouched

LEMMA AnsweredMild ==
  ASSUME NEW h, NEW code, NEW failed, Answered(h, code, failed)
  PROVE  Mild
BY BecomesMild DEF Answered, Mild

LEMMA NextCallMild ==
  ASSUME NEW h, NextCall(h)
  PROVE  Mild
BY BecomesMild DEF NextCall, Mild

LEMMA PartWrittenMild ==
  ASSUME NEW h, NEW failed, PartWritten(h, failed)
  PROVE  Mild
BY BecomesMild DEF PartWritten, Mild

LEMMA StartsMild ==
  ASSUME NEW h, NEW kind,
         Start(h, kind) \/ BadBody(h, kind) \/ Unread(h, kind)
  PROVE  Mild
BY BecomesMild DEF Start, BadBody, Unread, Receive, Mild

LEMMA AuthorizeMild ==
  ASSUME NEW h, AuthorizeRequestOrRespondErr(h)
  PROVE  Mild
BY DEF AuthorizeRequestOrRespondErr, Evaluate, Mild, Evaluated, Counts

LEMMA IdentifyMild ==
  ASSUME NEW h, Identify(h)
  PROVE  Mild
BY BecomesMild DEF Identify, Answered, Mild

LEMMA LogMild ==
  ASSUME NEW h, LogRequest(h)
  PROVE  Mild
BY DEF LogRequest, Mild, Untouched

LEMMA MergeMild ==
  ASSUME NEW h, NEW kind, NEW given, Merge(h, kind, given)
  PROVE  Mild
<1>1. MergeBegin(h, given) => Mild
  BY BecomesMild DEF MergeBegin, Mild
<1>2. MergePart(h, given) => Mild
  BY AnsweredMild, PartWrittenMild DEF MergePart
<1>3. MergeStore(h) => Mild
  BY BecomesMild DEF MergeStore, Mild
<1> QED
  BY <1>1, <1>2, <1>3, StartsMild, AuthorizeMild, IdentifyMild, LogMild
  DEF Merge

LEMMA HandleMild ==
  ASSUME NEW h \in Handlers, Handle(h)
  PROVE  Mild
<1> USE StartsMild, AuthorizeMild, IdentifyMild, LogMild
<1>1. CASE AnyPath(h)
  <2>1. ProxyCall(h) => Mild
    BY AnsweredMild DEF ProxyCall
  <2> QED BY <1>1, <2>1 DEF AnyPath
<1>2. CASE Preflight(h)
  BY <1>2 DEF Preflight, Evaluate, Mild, Evaluated, Counts
<1>3. CASE Login(h)
  BY <1>3, BecomesMild DEF Login, Mild
<1>4. CASE Speeches(h)
  <2>1. Concordance(h) => Mild
    BY AnsweredMild, NextCallMild DEF Concordance
  <2>2. TokenContext(h) => Mild
    BY AnsweredMild DEF TokenContext
  <2> QED BY <1>4, <2>1, <2>2 DEF Speeches
<1>5. CASE TimeDistAltWord(h)
  <2>1. LemmaFreqs(h) => Mild
    BY AnsweredMild, NextCallMild DEF LemmaFreqs
  <2>2. TimeDist(h) => Mild
    BY AnsweredMild DEF TimeDist
  <2> QED BY <1>5, <2>1, <2>2 DEF TimeDistAltWord
<1>6. CASE QuerySubmitAndView(h)
  <2>1. QuerySubmit(h) => Mild
    BY AnsweredMild, NextCallMild DEF QuerySubmit
  <2>2. View(h) => Mild
    BY AnsweredMild DEF View
  <2> QED BY <1>6, <2>1, <2>2 DEF QuerySubmitAndView
<1>7. CASE MergeFreqs(h) \/ CollocationsTT(h)
  BY <1>7, MergeMild DEF MergeFreqs, CollocationsTT
<1>8. CASE PublicAnyPath(h)
  <2>1. PublicStart(h) \/ CountClient(h) \/ PublicCall(h) => Mild
    BY BecomesMild DEF PublicStart, CountClient, PublicCall, Mild
  <2> QED
    BY <1>8, <2>1 DEF PublicAnyPath, Evaluate, Mild, Evaluated, Counts
<1>9. CASE Return(h)
  BY <1>9, BecomesMild DEF Return, Mild
<1> QED
  BY <1>1, <1>2, <1>3, <1>4, <1>5, <1>6, <1>7, <1>8, <1>9 DEF Handle

-----------------------------------------------------------------------------

LEMMA EvaluatedKeepsLimiter ==
  ASSUME LimiterInv, conf' = conf, NEW ip, NEW r,
         NEW e \in EvaluateRequest(conf, r, None, live, buckets[ip]),
         Counts(ip, e)
  PROVE  LimiterInv'
<1>1. CASE ~Limited(conf)
  BY <1>1 DEF LimiterInv, Limited
<1>2. CASE Limited(conf) /\ ip \notin IPs
  <2>1. buckets' = buckets /\ budget' = budget
    BY <1>2 DEF LimiterInv, Counts
  <2> QED BY <2>1 DEF LimiterInv
<1>3. CASE Limited(conf) /\ ip \in IPs
  <2>1. conf \in AnyConf /\ conf.limits \in BOOLEAN
    BY GatewayAssumption DEF LimiterInv, AnyConf
  <2> DEFINE b == buckets[ip]
             n == budget[ip]
             spent == Spent(b, e)
             left == IF conf.limits /\ e.status = 200 /\ n > OverBudget
                     THEN n - 1 ELSE n
  <2>2. b \in Fresh..Burst /\ n = Level(b) /\ Level(b) \in 0..Burst
    BY <1>3, LevelType DEF LimiterInv
  <2>3. Ends(conf, e, b)
    BY <1>3, <2>1, <2>2, EvaluationEnds
  <2>4. spent \in Fresh..Burst /\ left = Level(spent) /\ left \in Int
    <3>1. CASE ~e.asked /\ ~(conf.limits /\ e.status = 200)
      BY <3>1, <2>2, BurstPositive DEF Spent
    <3>2. CASE e.asked /\ conf.limits /\ e.status = 429 /\ Level(b) = 0
      BY <3>2, <2>2, BurstPositive DEF Spent, Level, Fresh
    <3>3. CASE e.asked /\ conf.limits /\ e.status = 200 /\ Level(b) > 0
      <4>1. spent = Level(b) - 1
        BY <3>3 DEF Spent
      <4>2. left = Level(b) - 1
        BY <3>3, <2>2, BurstPositive DEF OverBudget
      <4> QED BY <4>1, <4>2, <3>3, <2>2, BurstPositive DEF Level, Fresh
    <3> QED BY <3>1, <3>2, <3>3, <2>3 DEF Ends
  <2>5. /\ buckets' = [buckets EXCEPT ![ip] = spent]
        /\ budget' = [budget EXCEPT ![ip] = left]
    BY <1>3 DEF Counts, LimiterInv
  <2> HIDE DEF b, n, spent, left
  <2>6. buckets' \in [IPs -> Fresh..Burst] /\ budget' \in [IPs -> Int]
    BY <1>3, <2>4, <2>5 DEF LimiterInv
  <2>7. \A i \in IPs : budget'[i] = Level(buckets'[i])
    <3> SUFFICES ASSUME NEW i \in IPs PROVE budget'[i] = Level(buckets'[i])
      OBVIOUS
    <3>1. CASE i = ip
      BY <1>3, <3>1, <2>4, <2>5 DEF LimiterInv
    <3>2. CASE i # ip
      BY <1>3, <3>2, <2>5 DEF LimiterInv
    <3> QED BY <3>1, <3>2
  <2>8. conf' \in Confs
    BY DEF LimiterInv
  <2> QED BY <2>6, <2>7, <2>8 DEF LimiterInv
<1> QED BY <1>1, <1>2, <1>3

LEMMA MildKeepsLimiter ==
  ASSUME LimiterInv, Mild
  PROVE  LimiterInv'
<1>1. CASE Untouched
  BY <1>1 DEF Untouched, Mild, LimiterInv
<1>2. CASE Evaluated
  BY <1>2, EvaluatedKeepsLimiter DEF Evaluated, Mild
<1> QED BY <1>1, <1>2 DEF Mild

LEMMA RefillKeepsLimiter ==
  ASSUME LimiterInv, NEW ip \in IPs, Refill(ip)
  PROVE  LimiterInv'
<1>1. CASE ~Limited(conf)
  BY <1>1 DEF LimiterInv, Limited, Refill
<1>2. CASE Limited(conf)
  <2> USE BurstPositive
  <2>1. /\ buckets \in [IPs -> Fresh..Burst]
        /\ budget \in [IPs -> Int]
        /\ budget[ip] = Level(buckets[ip])
        /\ conf' = conf /\ conf \in Confs
    BY <1>2 DEF LimiterInv, Refill
  <2>2. /\ buckets[ip] + 1 \in Fresh..Burst
        /\ budget[ip] + 1 = Level(buckets[ip] + 1)
    BY <2>1 DEF Refill, Level, Fresh
  <2>3. buckets' \in [IPs -> Fresh..Burst] /\ budget' \in [IPs -> Int]
    BY <2>1, <2>2 DEF Refill
  <2>4. ASSUME NEW i \in IPs PROVE budget'[i] = Level(buckets'[i])
    <3>1. CASE i = ip
      BY <3>1, <2>1, <2>2 DEF Refill
    <3>2. CASE i # ip
      BY <1>2, <3>2, <2>1 DEF Refill, LimiterInv
    <3> QED BY <3>1, <3>2
  <2> QED BY <2>1, <2>3, <2>4 DEF LimiterInv
<1> QED BY <1>1, <1>2

\* A limited guard lets no more requests of an address through than the burst
\* and what its limiter gained since, whatever the handlers do at the same time
\* (rateLimiters of the guards in src/guard).
THEOREM LimitersHold == Spec => []LimiterHolds
<1>1. Init => LimiterInv
  BY BurstPositive DEF Init, LimiterInv, Level, Fresh
<1>2. LimiterInv /\ [Next]_vars => LimiterInv'
  <2> SUFFICES ASSUME LimiterInv, [Next]_vars PROVE LimiterInv'
    OBVIOUS
  <2>1. CASE \E h \in Handlers : Handle(h)
    BY <2>1, HandleMild, MildKeepsLimiter
  <2>2. CASE \E s \in Sessions : Expire(s)
    BY <2>2, MildKeepsLimiter DEF Expire, Mild, Untouched
  <2>3. CASE \E ip \in IPs : Refill(ip)
    BY <2>3, RefillKeepsLimiter
  <2>4. CASE Drain
    BY <2>4, MildKeepsLimiter DEF Drain, Mild, Untouched
  <2>5. CASE UNCHANGED vars
    BY <2>5, MildKeepsLimiter DEF vars, Mild, Untouched
  <2> QED BY <2>1, <2>2, <2>3, <2>4, <2>5 DEF Next
<1>3. LimiterInv => LimiterHolds
  <2> SUFFICES ASSUME LimiterInv, Limited(conf), NEW ip \in IPs
               PROVE  budget[ip] >= 0
    BY DEF LimiterHolds, Limited
  <2> QED BY LevelType, BurstPositive DEF LimiterInv
<1> QED BY <1>1, <1>2, <1>3, PTL DEF Spec
-----------------------------------------------------------------------------
(* What a handler knows at each place.                                      *)

Nobody == {InvalidUserID, ZeroUserID}

\* Limited guards are followed by LimiterInv; the other ones never ask their
\* limiters.
AccountInv ==
  /\ LimiterInv
  /\ ~Limited(conf) => /\ buckets \in [IPs -> {Fresh}]
                       /\ budget \in [IPs -> OverBudget..Burst]

\* A handler at work serves a request to its service and knows of nobody but
\* the users the request presented.
Serving(s, c) ==
  s.pc # "idle" =>
    /\ s.r \in AnyRequest
    /\ s.kind \in ServiceInitializers[c.service].kinds
    /\ c.cookies = "none" => s.r.front = None
    /\ s.human \in Presented(s.r) \cup Nobody
    /\ s.pc = "identify" => s.client \in Presented(s.r) \cup Nobody

\* The guard let the request through by a session, and that one is sent.
Authorised(s, c) ==
  c.guard = "cncauth" /\ c.db =>
    /\ s.pc = "identify" => GetFrontendOrBackendSession(c, s.r) # None
    /\ s.sent # None /\ s.r.front # Blank =>
         SessionGiven(c, s.sent) = GetFrontendOrBackendSession(c, s.r)

\* What may be there before the answer is: a part of a merged one, or the
\* first event of a stream.
Unanswered(s, c) ==
  /\ s.pc \notin {"log", "done"} => ~s.failed /\ s.cached = None
  /\ s.pc \in {"count", "evaluate", "identify", "call"} => s.status = 0
  /\ s.pc = "parts" /\ s.status # 0 =>
       s.kind \in Merging /\ (s.parts > 0 \/ c.streaming)

Answer(s, c) ==
  /\ s.cached # None => ~s.failed /\ s.cached = s.want
  /\ s.failed => \/ s.status >= 500
                 \/ s.kind \in Merging /\ (s.parts > 0 \/ c.streaming)

\* The deferred LogRequest is still to be run, or the account is closed.
Reported(s, c) ==
  /\ s.pc # "done" => s.posts = 0 /\ ~s.early
  /\ s.pc = "log" => s.kind \notin Uncounted
  /\ s.pc = "done" =>
       /\ s.posts = IF c.limits /\ s.kind \notin Uncounted /\ ~s.early
                    THEN 1 ELSE 0
       /\ s.posts = 1 => s.charged \in Presented(s.r) \cup Nobody

Local(s, c) ==
  /\ s \in HandlerStates
  /\ Serving(s, c)
  /\ Authorised(s, c)
  /\ Unanswered(s, c)
  /\ Answer(s, c)
  /\ Reported(s, c)

-----------------------------------------------------------------------------
(* The ways what a handler knows changes, and what each of them leaves      *)
(* alone.                                                                   *)

Pcs == {"idle", "count", "evaluate", "identify", "call", "parts", "log", "done"}
Kinds == HandlerKinds \cup {None}
MaybeRequest == AnyRequest \cup {None}
Statuses == {0, 200, 204, 302, 400, 401, 404, 429, 500, 503}
Sent ==
  [key : Cookies, cookie : Cookies, user : Users \cup {None},
   trueID : Users \cup {None}] \cup {None}
PartsDone == 0..(MaxParts + 1)
PartsWanted == 0..MaxParts
Stored == 0..MaxParts \cup {None}
Posts == {0, 1}
Charged == Users \cup {None}

LEMMA StatesForm ==
  HandlerStates =
    [pc : Pcs, kind : Kinds, r : MaybeRequest, client : Users, human : Users,
     status : Statuses, sent : Sent, parts : PartsDone, want : PartsWanted,
     failed : BOOLEAN, cached : Stored, early : BOOLEAN, posts : Posts,
     charged : Charged]
BY DEF HandlerStates, Pcs, Kinds, MaybeRequest, Statuses, Sent, PartsDone,
       PartsWanted, Stored, Posts, Charged

LEMMA Places ==
  Pcs = {"idle", "count", "evaluate", "identify", "call", "parts", "log",
         "done"}
BY DEF Pcs

LEMMA NobodyIsUser == InvalidUserID \in Users /\ ZeroUserID \in Users
BY DEF Users

SameRequest(s, t) == t.kind = s.kind /\ t.r = s.r
SameUsers(s, t) == t.client = s.client /\ t.human = s.human
SameCalls(s, t) == t.sent = s.sent /\ t.parts = s.parts /\ t.want = s.want
SameReport(s, t) ==
  (t.early = s.early) /\ t.posts = s.posts /\ t.charged = s.charged


WithAnswer(s, place, w, failed) ==
  [s EXCEPT !.pc = place, !.status = w, !.failed = failed]

LEMMA AnswerUpdate ==
  ASSUME NEW s \in HandlerStates, 
         NEW place \in Pcs, NEW w \in Statuses, NEW failed \in BOOLEAN,
         NEW t, t = WithAnswer(s, place, w, failed)
  PROVE  /\ t \in HandlerStates
         /\ t.pc = place /\ t.status = w /\ t.failed = failed
         /\ t.cached = s.cached
         /\ SameRequest(s, t) /\ SameUsers(s, t) /\ SameCalls(s, t)
         /\ SameReport(s, t)
BY StatesForm, Places
DEF WithAnswer, SameRequest, SameUsers, SameCalls, SameReport

WithEnd(s, place, w) == [s EXCEPT !.pc = place, !.status = w]

LEMMA EndUpdate ==
  ASSUME NEW s \in HandlerStates, NEW place \in Pcs, NEW w \in Statuses,
         NEW t, t = WithEnd(s, place, w)
  PROVE  /\ t \in HandlerStates
         /\ t.pc = place /\ t.status = w
         /\ (t.failed = s.failed) /\ t.cached = s.cached
         /\ SameRequest(s, t) /\ SameUsers(s, t) /\ SameCalls(s, t)
         /\ SameReport(s, t)
BY StatesForm, Places
DEF WithEnd, SameRequest, SameUsers, SameCalls, SameReport

WithPlace(s, place) == [s EXCEPT !.pc = place]

LEMMA PlaceUpdate ==
  ASSUME NEW s \in HandlerStates, NEW place \in Pcs,
         NEW t, t = WithPlace(s, place)
  PROVE  /\ t \in HandlerStates
         /\ t.pc = place /\ t.status = s.status
         /\ (t.failed = s.failed) /\ t.cached = s.cached
         /\ SameRequest(s, t) /\ SameUsers(s, t) /\ SameCalls(s, t)
         /\ SameReport(s, t)
BY StatesForm, Places
DEF WithPlace, SameRequest, SameUsers, SameCalls, SameReport

WithClient(s, u) == [s EXCEPT !.pc = "identify", !.client = u]

LEMMA ClientUpdate ==
  ASSUME NEW s \in HandlerStates, NEW u \in Users,
         NEW t, t = WithClient(s, u)
  PROVE  /\ t \in HandlerStates
         /\ t.pc = "identify" /\ t.client = u /\ t.human = s.human
         /\ t.status = s.status /\ (t.failed = s.failed) /\ t.cached = s.cached
         /\ SameRequest(s, t) /\ SameCalls(s, t) /\ SameReport(s, t)
BY StatesForm, Places
DEF WithClient, SameRequest, SameCalls, SameReport

WithHuman(s, w, u) == [s EXCEPT !.pc = "log", !.status = w, !.human = u]

LEMMA HumanUpdate ==
  ASSUME NEW s \in HandlerStates, NEW w \in Statuses, NEW u \in Users,
         NEW t, t = WithHuman(s, w, u)
  PROVE  /\ t \in HandlerStates
         /\ t.pc = "log" /\ t.status = w /\ t.human = u
         /\ (t.failed = s.failed) /\ t.cached = s.cached
         /\ SameRequest(s, t) /\ SameCalls(s, t) /\ SameReport(s, t)
BY StatesForm, Places
DEF WithHuman, SameRequest, SameCalls, SameReport

WithHeaders(s, u, x) ==
  [s EXCEPT !.pc = "call", !.human = u, !.client = ZeroUserID, !.sent = x]

LEMMA HeadersUpdate ==
  ASSUME NEW s \in HandlerStates, NEW u \in Users, NEW x \in Sent,
         NEW t, t = WithHeaders(s, u, x)
  PROVE  /\ t \in HandlerStates
         /\ t.pc = "call" /\ t.human = u /\ t.sent = x
         /\ t.parts = s.parts /\ t.want = s.want
         /\ t.status = s.status /\ (t.failed = s.failed) /\ t.cached = s.cached
         /\ SameRequest(s, t) /\ SameReport(s, t)
BY StatesForm, Places, NobodyIsUser
DEF WithHeaders, SameRequest, SameReport

WithPost(s, n, u) == [s EXCEPT !.pc = "done", !.posts = n, !.charged = u]

LEMMA PostUpdate ==
  ASSUME NEW s \in HandlerStates, NEW n \in Posts, NEW u \in Charged,
         NEW t, t = WithPost(s, n, u)
  PROVE  /\ t \in HandlerStates
         /\ t.pc = "done" /\ t.posts = n /\ t.charged = u
         /\ t.status = s.status /\ (t.failed = s.failed) /\ t.cached = s.cached
         /\ t.early = s.early
         /\ SameRequest(s, t) /\ SameUsers(s, t) /\ SameCalls(s, t)
BY StatesForm, Places
DEF WithPost, SameRequest, SameUsers, SameCalls

WithParts(s, n) == [s EXCEPT !.parts = n]

LEMMA PartsUpdate ==
  ASSUME NEW s \in HandlerStates, NEW n \in PartsDone,
         NEW t, t = WithParts(s, n)
  PROVE  /\ t \in HandlerStates
         /\ t.pc = s.pc /\ t.parts = n
         /\ t.sent = s.sent /\ t.want = s.want
         /\ t.status = s.status /\ (t.failed = s.failed) /\ t.cached = s.cached
         /\ SameRequest(s, t) /\ SameUsers(s, t) /\ SameReport(s, t)
BY StatesForm, Places
DEF WithParts, SameRequest, SameUsers, SameReport

WithWant(s, n) == [s EXCEPT !.pc = "parts", !.want = n]

LEMMA WantUpdate ==
  ASSUME NEW s \in HandlerStates, NEW n \in PartsWanted,
         NEW t, t = WithWant(s, n)
  PROVE  /\ t \in HandlerStates
         /\ t.pc = "parts" /\ t.want = n
         /\ t.sent = s.sent /\ t.parts = s.parts
         /\ t.status = s.status /\ (t.failed = s.failed) /\ t.cached = s.cached
         /\ SameRequest(s, t) /\ SameUsers(s, t) /\ SameReport(s, t)
BY StatesForm, Places
DEF WithWant, SameRequest, SameUsers, SameReport

WithStatus(s, w) == [s EXCEPT !.status = w]

LEMMA StatusUpdate ==
  ASSUME NEW s \in HandlerStates, NEW w \in Statuses,
         NEW t, t = WithStatus(s, w)
  PROVE  /\ t \in HandlerStates
         /\ t.pc = s.pc /\ t.status = w
         /\ (t.failed = s.failed) /\ t.cached = s.cached
         /\ SameRequest(s, t) /\ SameUsers(s, t) /\ SameCalls(s, t)
         /\ SameReport(s, t)
BY StatesForm, Places
DEF WithStatus, SameRequest, SameUsers, SameCalls, SameReport

WithPart(s, n, failed, w) ==
  [s EXCEPT !.parts = n, !.failed = failed, !.status = w]

LEMMA PartUpdate ==
  ASSUME NEW s \in HandlerStates, 
         NEW n \in PartsDone, NEW failed \in BOOLEAN, NEW w \in Statuses,
         NEW t, t = WithPart(s, n, failed, w)
  PROVE  /\ t \in HandlerStates
         /\ t.pc = s.pc /\ t.parts = n /\ t.failed = failed /\ t.status = w
         /\ t.sent = s.sent /\ t.want = s.want
         /\ t.cached = s.cached
         /\ SameRequest(s, t) /\ SameUsers(s, t) /\ SameReport(s, t)
BY StatesForm, Places
DEF WithPart, SameRequest, SameUsers, SameReport

WithStored(s, n, w) == [s EXCEPT !.pc = "log", !.cached = n, !.status = w]

LEMMA StoredUpdate ==
  ASSUME NEW s \in HandlerStates, NEW n \in Stored, NEW w \in Statuses,
         NEW t, t = WithStored(s, n, w)
  PROVE  /\ t \in HandlerStates
         /\ t.pc = "log" /\ t.cached = n /\ t.status = w
         /\ t.failed = s.failed
         /\ SameRequest(s, t) /\ SameUsers(s, t) /\ SameCalls(s, t)
         /\ SameReport(s, t)
BY StatesForm, Places
DEF WithStored, SameRequest, SameUsers, SameCalls, SameReport

WithPassed(s, failed, w, x) ==
  [s EXCEPT !.pc = "done", !.failed = failed, !.status = w, !.sent = x]

LEMMA PassedUpdate ==
  ASSUME NEW s \in HandlerStates, 
         NEW failed \in BOOLEAN, NEW w \in Statuses, NEW x \in Sent,
         NEW t, t = WithPassed(s, failed, w, x)
  PROVE  /\ t \in HandlerStates
         /\ t.pc = "done" /\ t.failed = failed /\ t.status = w /\ t.sent = x
         /\ t.parts = s.parts /\ t.want = s.want
         /\ t.cached = s.cached
         /\ SameRequest(s, t) /\ SameUsers(s, t) /\ SameReport(s, t)
BY StatesForm, Places
DEF WithPassed, SameRequest, SameUsers, SameReport

-----------------------------------------------------------------------------
(* Each of them keeps what is known of a handler.                           *)

LEMMA WrittenType ==
  ASSUME NEW s \in HandlerStates, NEW code \in Statuses
  PROVE  Written(s, code) \in Statuses
BY DEF Written, Statuses, HandlerStates

LEMMA PresentedUsers ==
  ASSUME NEW r, NEW u \in Presented(r) \cup Nobody
  PROVE  u \in Users
BY DEF Presented, Nobody, Users


\* A handler answers.
LEMMA AnswerLocal ==
  ASSUME NEW c \in Confs, NEW s, Local(s, c),
         s.kind \notin Uncounted,
         s.pc \in {"identify", "call", "parts"},
         NEW code \in Statuses,
         NEW failed \in BOOLEAN, failed => code = 500,
         NEW t, t = WithAnswer(s, "log", Written(s, code), failed)
  PROVE  Local(t, c)
<1>1. s \in HandlerStates
  BY DEF Local
<1>p. "log" \in Pcs
  BY Places
<1>a. Written(s, code) \in Statuses
  BY <1>1, WrittenType
<1>2. /\ t \in HandlerStates
      /\ t.pc = "log" /\ t.status = Written(s, code) /\ t.failed = failed
      /\ t.cached = s.cached
      /\ SameRequest(s, t) /\ SameUsers(s, t) /\ SameCalls(s, t)
      /\ SameReport(s, t)
  BY <1>1, <1>p, <1>a, AnswerUpdate
<1>3. Serving(t, c)
  BY <1>1, <1>2 DEF Local, Serving, SameRequest, SameUsers
<1>4. Authorised(t, c)
  BY <1>1, <1>2 DEF Local, Authorised, SameRequest, SameCalls
<1>5. Unanswered(t, c)
  BY <1>1, <1>2 DEF Local, Unanswered, SameRequest, SameCalls
<1>6. Answer(t, c)
  BY <1>1, <1>2
  DEF Local, Answer, Unanswered, SameRequest, SameCalls, Written, Statuses
<1>7. Reported(t, c)
  BY <1>1, <1>2 DEF Local, Reported, SameRequest, SameReport
<1> QED BY <1>2, <1>3, <1>4, <1>5, <1>6, <1>7 DEF Local

\* The guard refuses the request, which is reported.
LEMMA RefusedLocal ==
  ASSUME NEW c \in Confs, NEW s, Local(s, c),
         s.kind \notin Uncounted, s.pc = "evaluate",
         NEW w \in Statuses,
         NEW t, t = WithEnd(s, "log", w)
  PROVE  Local(t, c)
<1>1. s \in HandlerStates
  BY DEF Local
<1>p. "log" \in Pcs
  BY Places
<1>2. /\ t \in HandlerStates
      /\ t.pc = "log" /\ t.status = w
      /\ (t.failed = s.failed) /\ t.cached = s.cached
      /\ SameRequest(s, t) /\ SameUsers(s, t) /\ SameCalls(s, t)
      /\ SameReport(s, t)
  BY <1>1, <1>p, EndUpdate
<1>3. Serving(t, c)
  BY <1>1, <1>2 DEF Local, Serving, SameRequest, SameUsers
<1>4. Authorised(t, c)
  BY <1>1, <1>2 DEF Local, Authorised, SameRequest, SameCalls
<1>5. Unanswered(t, c)
  BY <1>1, <1>2 DEF Local, Unanswered, SameRequest, SameCalls
<1>6. Answer(t, c)
  BY <1>1, <1>2 DEF Local, Answer, Unanswered, SameRequest, SameCalls
<1>7. Reported(t, c)
  BY <1>1, <1>2 DEF Local, Reported, SameRequest, SameReport
<1> QED BY <1>2, <1>3, <1>4, <1>5, <1>6, <1>7 DEF Local

\* A handler which does not report the request ends.
LEMMA EndedLocal ==
  ASSUME NEW c \in Confs, NEW s, Local(s, c),
         s.kind \in Uncounted, s.pc = "evaluate",
         NEW w \in Statuses,
         NEW t, t = WithEnd(s, "done", w)
  PROVE  Local(t, c)
<1>1. s \in HandlerStates
  BY DEF Local
<1>p. "done" \in Pcs
  BY Places
<1>2. /\ t \in HandlerStates
      /\ t.pc = "done" /\ t.status = w
      /\ (t.failed = s.failed) /\ t.cached = s.cached
      /\ SameRequest(s, t) /\ SameUsers(s, t) /\ SameCalls(s, t)
      /\ SameReport(s, t)
  BY <1>1, <1>p, EndUpdate
<1>3. Serving(t, c)
  BY <1>1, <1>2 DEF Local, Serving, SameRequest, SameUsers
<1>4. Authorised(t, c)
  BY <1>1, <1>2 DEF Local, Authorised, SameRequest, SameCalls
<1>5. Unanswered(t, c)
  BY <1>1, <1>2 DEF Local, Unanswered, SameRequest, SameCalls
<1>6. Answer(t, c)
  BY <1>1, <1>2 DEF Local, Answer, Unanswered, SameRequest, SameCalls
<1>7. Reported(t, c)
  BY <1>1, <1>2 DEF Local, Reported, SameRequest, SameReport
<1> QED BY <1>2, <1>3, <1>4, <1>5, <1>6, <1>7 DEF Local

\* The guard lets the request through.
LEMMA AuthorisedLocal ==
  ASSUME NEW c \in Confs, NEW s, Local(s, c),
         s.pc = "evaluate",
         NEW u \in Presented(s.r) \cup Nobody,
         c.guard = "cncauth" /\ c.db =>
           GetFrontendOrBackendSession(c, s.r) # None,
         NEW t, t = WithClient(s, u)
  PROVE  Local(t, c)
<1>1. s \in HandlerStates
  BY DEF Local
<1>a. u \in Users
  BY PresentedUsers
<1>2. /\ t \in HandlerStates
      /\ t.pc = "identify" /\ t.client = u /\ t.human = s.human
      /\ t.status = s.status /\ (t.failed = s.failed) /\ t.cached = s.cached
      /\ SameRequest(s, t) /\ SameCalls(s, t) /\ SameReport(s, t)
  BY <1>1, <1>a, ClientUpdate
<1>3. Serving(t, c)
  BY <1>1, <1>2 DEF Local, Serving, SameRequest, SameUsers
<1>4. Authorised(t, c)
  BY <1>1, <1>2 DEF Local, Authorised, SameRequest, SameCalls
<1>5. Unanswered(t, c)
  BY <1>1, <1>2 DEF Local, Unanswered, SameRequest, SameCalls
<1>6. Answer(t, c)
  BY <1>1, <1>2 DEF Local, Answer, Unanswered, SameRequest, SameCalls
<1>7. Reported(t, c)
  BY <1>1, <1>2 DEF Local, Reported, SameRequest, SameReport
<1> QED BY <1>2, <1>3, <1>4, <1>5, <1>6, <1>7 DEF Local

\* Who is behind the request is not found out, or there is a delay.
LEMMA UnknownLocal ==
  ASSUME NEW c \in Confs, NEW s, Local(s, c),
         s.kind \notin Uncounted, s.pc = "identify",
         NEW w \in Statuses, NEW u \in Presented(s.r) \cup Nobody,
         NEW t, t = WithHuman(s, w, u)
  PROVE  Local(t, c)
<1>1. s \in HandlerStates
  BY DEF Local
<1>a. u \in Users
  BY PresentedUsers
<1>2. /\ t \in HandlerStates
      /\ t.pc = "log" /\ t.status = w /\ t.human = u
      /\ (t.failed = s.failed) /\ t.cached = s.cached
      /\ SameRequest(s, t) /\ SameCalls(s, t) /\ SameReport(s, t)
  BY <1>1, <1>a, HumanUpdate
<1>3. Serving(t, c)
  BY <1>1, <1>2 DEF Local, Serving, SameRequest, SameUsers
<1>4. Authorised(t, c)
  BY <1>1, <1>2 DEF Local, Authorised, SameRequest, SameCalls
<1>5. Unanswered(t, c)
  BY <1>1, <1>2 DEF Local, Unanswered, SameRequest, SameCalls
<1>6. Answer(t, c)
  BY <1>1, <1>2 DEF Local, Answer, Unanswered, SameRequest, SameCalls
<1>7. Reported(t, c)
  BY <1>1, <1>2 DEF Local, Reported, SameRequest, SameReport
<1> QED BY <1>2, <1>3, <1>4, <1>5, <1>6, <1>7 DEF Local

\* The headers are rewritten.
LEMMA HeadersLocal ==
  ASSUME NEW c \in Confs, NEW s, Local(s, c),
         s.pc = "identify",
         NEW u \in Presented(s.r) \cup Nobody, NEW x \in Sent,
         (c.guard = "cncauth" /\ c.db /\ s.r.front # Blank) =>
           SessionGiven(c, x) = GetFrontendOrBackendSession(c, s.r),
         NEW t, t = WithHeaders(s, u, x)
  PROVE  Local(t, c)
<1>1. s \in HandlerStates
  BY DEF Local
<1>a. u \in Users
  BY PresentedUsers
<1>2. /\ t \in HandlerStates
      /\ t.pc = "call" /\ t.human = u /\ t.sent = x
      /\ t.parts = s.parts /\ t.want = s.want
      /\ t.status = s.status /\ (t.failed = s.failed) /\ t.cached = s.cached
      /\ SameRequest(s, t) /\ SameReport(s, t)
  BY <1>1, <1>a, HeadersUpdate
<1>3. Serving(t, c)
  BY <1>1, <1>2 DEF Local, Serving, SameRequest, SameUsers
<1>4. Authorised(t, c)
  BY <1>1, <1>2 DEF Local, Authorised, SameRequest, SameCalls
<1>5. Unanswered(t, c)
  BY <1>1, <1>2 DEF Local, Unanswered, SameRequest, SameCalls
<1>6. Answer(t, c)
  BY <1>1, <1>2 DEF Local, Answer, Unanswered, SameRequest, SameCalls
<1>7. Reported(t, c)
  BY <1>1, <1>2 DEF Local, Reported, SameRequest, SameReport
<1> QED BY <1>2, <1>3, <1>4, <1>5, <1>6, <1>7 DEF Local

\* LogRequest posts to the alarm.
LEMMA PostLocal ==
  ASSUME NEW c \in Confs, NEW s, Local(s, c),
         s.pc = "log", c.limits,
         NEW t, t = WithPost(s, s.posts + 1, s.human)
  PROVE  Local(t, c)
<1>1. s \in HandlerStates
  BY DEF Local
<1>a. s.posts + 1 \in Posts /\ s.human \in Charged
  BY <1>1 DEF Local, Reported, Posts, Charged, HandlerStates
<1>2. /\ t \in HandlerStates
      /\ t.pc = "done" /\ t.posts = s.posts + 1 /\ t.charged = s.human
      /\ t.status = s.status /\ (t.failed = s.failed) /\ t.cached = s.cached
      /\ t.early = s.early
      /\ SameRequest(s, t) /\ SameUsers(s, t) /\ SameCalls(s, t)
  BY <1>1, <1>a, PostUpdate
<1>3. Serving(t, c)
  BY <1>1, <1>2 DEF Local, Serving, SameRequest, SameUsers
<1>4. Authorised(t, c)
  BY <1>1, <1>2 DEF Local, Authorised, SameRequest, SameCalls
<1>5. Unanswered(t, c)
  BY <1>1, <1>2 DEF Local, Unanswered, SameRequest, SameCalls
<1>6. Answer(t, c)
  BY <1>1, <1>2 DEF Local, Answer, Unanswered, SameRequest, SameCalls
<1>7. Reported(t, c)
  BY <1>1, <1>2 DEF Local, Reported, SameRequest, SameReport, Serving
<1> QED BY <1>2, <1>3, <1>4, <1>5, <1>6, <1>7 DEF Local

\* LogRequest has no alarm to post to.
LEMMA UnpostedLocal ==
  ASSUME NEW c \in Confs, NEW s, Local(s, c),
         s.pc = "log", ~c.limits,
         NEW t, t = WithPlace(s, "done")
  PROVE  Local(t, c)
<1>1. s \in HandlerStates
  BY DEF Local
<1>p. "done" \in Pcs
  BY Places
<1>2. /\ t \in HandlerStates
      /\ t.pc = "done" /\ t.status = s.status
      /\ (t.failed = s.failed) /\ t.cached = s.cached
      /\ SameRequest(s, t) /\ SameUsers(s, t) /\ SameCalls(s, t)
      /\ SameReport(s, t)
  BY <1>1, <1>p, PlaceUpdate
<1>3. Serving(t, c)
  BY <1>1, <1>2 DEF Local, Serving, SameRequest, SameUsers
<1>4. Authorised(t, c)
  BY <1>1, <1>2 DEF Local, Authorised, SameRequest, SameCalls
<1>5. Unanswered(t, c)
  BY <1>1, <1>2 DEF Local, Unanswered, SameRequest, SameCalls
<1>6. Answer(t, c)
  BY <1>1, <1>2 DEF Local, Answer, Unanswered, SameRequest, SameCalls
<1>7. Reported(t, c)
  BY <1>1, <1>2 DEF Local, Reported, SameRequest, SameReport
<1> QED BY <1>2, <1>3, <1>4, <1>5, <1>6, <1>7 DEF Local

\* A handler of a public service goes on.
LEMMA PlaceLocal ==
  ASSUME NEW c \in Confs, NEW s, Local(s, c),
         s.pc \in {"count", "evaluate"}, NEW place \in {"evaluate", "call"},
         NEW t, t = WithPlace(s, place)
  PROVE  Local(t, c)
<1>1. s \in HandlerStates
  BY DEF Local
<1>p. place \in Pcs
  BY Places
<1>2. /\ t \in HandlerStates
      /\ t.pc = place /\ t.status = s.status
      /\ (t.failed = s.failed) /\ t.cached = s.cached
      /\ SameRequest(s, t) /\ SameUsers(s, t) /\ SameCalls(s, t)
      /\ SameReport(s, t)
  BY <1>1, <1>p, PlaceUpdate
<1>3. Serving(t, c)
  BY <1>1, <1>2 DEF Local, Serving, SameRequest, SameUsers
<1>4. Authorised(t, c)
  BY <1>1, <1>2 DEF Local, Authorised, SameRequest, SameCalls
<1>5. Unanswered(t, c)
  BY <1>1, <1>2 DEF Local, Unanswered, SameRequest, SameCalls
<1>6. Answer(t, c)
  BY <1>1, <1>2 DEF Local, Answer, Unanswered, SameRequest, SameCalls
<1>7. Reported(t, c)
  BY <1>1, <1>2 DEF Local, Reported, SameRequest, SameReport
<1> QED BY <1>2, <1>3, <1>4, <1>5, <1>6, <1>7 DEF Local

\* The next of two calls.
LEMMA PartsLocal ==
  ASSUME NEW c \in Confs, NEW s, Local(s, c),
         s.pc = "call",
         NEW n \in PartsDone,
         NEW t, t = WithParts(s, n)
  PROVE  Local(t, c)
<1>1. s \in HandlerStates
  BY DEF Local
<1>2. /\ t \in HandlerStates
      /\ t.pc = s.pc /\ t.parts = n
      /\ t.sent = s.sent /\ t.want = s.want
      /\ t.status = s.status /\ (t.failed = s.failed) /\ t.cached = s.cached
      /\ SameRequest(s, t) /\ SameUsers(s, t) /\ SameReport(s, t)
  BY <1>1, PartsUpdate
<1>3. Serving(t, c)
  BY <1>1, <1>2 DEF Local, Serving, SameRequest, SameUsers
<1>4. Authorised(t, c)
  BY <1>1, <1>2 DEF Local, Authorised, SameRequest, SameCalls
<1>5. Unanswered(t, c)
  BY <1>1, <1>2 DEF Local, Unanswered, SameRequest, SameCalls
<1>6. Answer(t, c)
  BY <1>1, <1>2 DEF Local, Answer, Unanswered, SameRequest, SameCalls
<1>7. Reported(t, c)
  BY <1>1, <1>2 DEF Local, Reported, SameRequest, SameReport
<1> QED BY <1>2, <1>3, <1>4, <1>5, <1>6, <1>7 DEF Local

\* A part of a merged answer is there.
LEMMA PartLocal ==
  ASSUME NEW c \in Confs, NEW s, Local(s, c),
         s.pc = "parts", s.kind \in Merging, s.parts < s.want,
         NEW failed \in BOOLEAN, ~failed,
         NEW t, t = WithPart(s, s.parts + 1, failed, Written(s, 200))
  PROVE  Local(t, c)
<1>1. s \in HandlerStates
  BY DEF Local
<1>a. Written(s, 200) \in Statuses
  BY <1>1, WrittenType DEF Statuses
<1>b. s.parts + 1 \in PartsDone /\ s.parts + 1 > 0
  BY <1>1, GatewayAssumption DEF HandlerStates, PartsDone
<1>2. /\ t \in HandlerStates
      /\ t.pc = s.pc /\ t.parts = s.parts + 1 /\ t.failed = failed
      /\ t.status = Written(s, 200)
      /\ t.sent = s.sent /\ t.want = s.want
      /\ t.cached = s.cached
      /\ SameRequest(s, t) /\ SameUsers(s, t) /\ SameReport(s, t)
  BY <1>1, <1>a, <1>b, PartUpdate
<1>3. Serving(t, c)
  BY <1>1, <1>2 DEF Local, Serving, SameRequest, SameUsers
<1>4. Authorised(t, c)
  BY <1>1, <1>2 DEF Local, Authorised, SameRequest, SameCalls
<1>5. Unanswered(t, c)
  BY <1>1, <1>2, <1>b DEF Local, Unanswered, SameRequest, SameCalls
<1>6. Answer(t, c)
  BY <1>1, <1>2, <1>b DEF Local, Answer, Unanswered, SameRequest, SameCalls
<1>7. Reported(t, c)
  BY <1>1, <1>2 DEF Local, Reported, SameRequest, SameReport
<1> QED BY <1>2, <1>3, <1>4, <1>5, <1>6, <1>7 DEF Local

\* A merged answer is stored.
LEMMA StoreLocal ==
  ASSUME NEW c \in Confs, NEW s, Local(s, c),
         s.pc = "parts", s.kind \in Merging, s.parts = s.want,
         NEW t, t = WithStored(s, s.parts, Written(s, 200))
  PROVE  Local(t, c)
<1>1. s \in HandlerStates
  BY DEF Local
<1>a. Written(s, 200) \in Statuses
  BY <1>1, WrittenType DEF Statuses
<1>b. s.parts \in Stored
  BY <1>1 DEF HandlerStates, Stored
<1>2. /\ t \in HandlerStates
      /\ t.pc = "log" /\ t.cached = s.parts /\ t.status = Written(s, 200)
      /\ t.failed = s.failed
      /\ SameRequest(s, t) /\ SameUsers(s, t) /\ SameCalls(s, t)
      /\ SameReport(s, t)
  BY <1>1, <1>a, <1>b, StoredUpdate
<1>3. Serving(t, c)
  BY <1>1, <1>2 DEF Local, Serving, SameRequest, SameUsers
<1>4. Authorised(t, c)
  BY <1>1, <1>2 DEF Local, Authorised, SameRequest, SameCalls
<1>5. Unanswered(t, c)
  BY <1>1, <1>2 DEF Local, Unanswered, SameRequest, SameCalls
<1>6. Answer(t, c)
  BY <1>1, <1>2 DEF Local, Answer, Unanswered, SameRequest, SameCalls
<1>7. Reported(t, c)
  BY <1>1, <1>2 DEF Local, Reported, SameRequest, SameReport, Merging, Uncounted
<1> QED BY <1>2, <1>3, <1>4, <1>5, <1>6, <1>7 DEF Local

\* A public proxy passes the answer of a backend on.
LEMMA PassedLocal ==
  ASSUME NEW c \in Confs, NEW s, Local(s, c),
         s.kind \in Uncounted,
         s.pc = "call", c.guard # "cncauth",
         NEW code \in Statuses, NEW x \in Sent,
         NEW failed \in BOOLEAN, failed => code = 500,
         NEW t, t = WithPassed(s, failed, Written(s, code), x)
  PROVE  Local(t, c)
<1>1. s \in HandlerStates
  BY DEF Local
<1>a. Written(s, code) \in Statuses
  BY <1>1, WrittenType
<1>2. /\ t \in HandlerStates
      /\ t.pc = "done" /\ t.failed = failed
      /\ t.status = Written(s, code) /\ t.sent = x
      /\ t.parts = s.parts /\ t.want = s.want
      /\ t.cached = s.cached
      /\ SameRequest(s, t) /\ SameUsers(s, t) /\ SameReport(s, t)
  BY <1>1, <1>a, PassedUpdate
<1>3. Serving(t, c)
  BY <1>1, <1>2 DEF Local, Serving, SameRequest, SameUsers
<1>4. Authorised(t, c)
  BY <1>1, <1>2 DEF Local, Authorised, SameRequest, SameCalls
<1>5. Unanswered(t, c)
  BY <1>1, <1>2 DEF Local, Unanswered, SameRequest, SameCalls
<1>6. Answer(t, c)
  BY <1>1, <1>2
  DEF Local, Answer, Unanswered, SameRequest, SameCalls, Written, Statuses
<1>7. Reported(t, c)
  BY <1>1, <1>2 DEF Local, Reported, SameRequest, SameReport
<1> QED BY <1>2, <1>3, <1>4, <1>5, <1>6, <1>7 DEF Local

-----------------------------------------------------------------------------
(* A request comes.                                                         *)

\* What is needed of the factories of the services.
LEMMA ServiceKinds ==
  ASSUME NEW c \in Confs, NEW kind \in ServiceInitializers[c.service].kinds
  PROVE  /\ kind \in HandlerKinds
         /\ kind \notin Uncounted => ServiceInitializers[c.service].alarm
         /\ kind = "PublicAnyPath" => c.guard # "cncauth"
<1> DEFINE S == ServiceInitializers[c.service]
<1>1. /\ c.service \in DOMAIN ServiceInitializers
      /\ c.guard \in S.guards
  BY GatewayAssumption DEF AnyConf
<1>2. c.service \in {"mquery", "frodo", "scollex", "kontext", "wss", "gunstick",
                     "hex", "kwords"}
  BY <1>1 DEF ServiceInitializers
<1>3. S \in {MQuery, Frodo, Scollex, KonText, WSS, Gunstick, Hex, KWords}
  BY <1>2 DEF ServiceInitializers
<1>4. kind \in S.kinds
  OBVIOUS
<1> HIDE DEF S
<1>5. /\ kind \in HandlerKinds
      /\ kind \notin Uncounted => S.alarm
      /\ kind = "PublicAnyPath" => c.guard # "cncauth"
  <2> USE <1>1, <1>4 DEF Service, HandlerKinds, Uncounted
  <2>1. CASE S = MQuery
    BY <2>1 DEF MQuery
  <2>2. CASE S = Frodo
    BY <2>2 DEF Frodo
  <2>3. CASE S = Scollex
    BY <2>3 DEF Scollex
  <2>4. CASE S = KonText
    BY <2>4 DEF KonText
  <2>5. CASE S = WSS
    BY <2>5 DEF WSS
  <2>6. CASE S = Gunstick \/ S = Hex \/ S = KWords
    BY <2>6 DEF Gunstick, Hex, KWords
  <2> QED BY <1>3, <2>1, <2>2, <2>3, <2>4, <2>5, <2>6
<1> QED BY <1>5 DEF S

LEMMA IdleState ==
  /\ Idle \in HandlerStates /\ Idle.pc = "idle" /\ Idle.status = 0
  /\ Idle.human = ZeroUserID /\ Idle.sent = None
  /\ ~Idle.failed /\ Idle.cached = None /\ ~Idle.early /\ Idle.posts = 0
<1>1. /\ "idle" \in Pcs /\ None \in Kinds /\ None \in MaybeRequest
      /\ 0 \in Statuses /\ None \in Sent /\ None \in Stored /\ 0 \in Posts
      /\ None \in Charged
  BY DEF Pcs, Kinds, MaybeRequest, Statuses, Sent, Stored, Posts, Charged
<1>2. 0 \in PartsDone /\ 0 \in PartsWanted
  BY GatewayAssumption DEF PartsDone, PartsWanted
<1> QED BY <1>1, <1>2, StatesForm, NobodyIsUser DEF Idle

LEMMA IdleLocal ==
  ASSUME NEW c
  PROVE  Local(Idle, c)
BY IdleState
DEF Local, Serving, Authorised, Unanswered, Answer, Reported

WithRequest(s, kind, r) == [s EXCEPT !.kind = kind, !.r = r]

LEMMA RequestUpdate ==
  ASSUME NEW s \in HandlerStates, NEW kind \in Kinds, NEW r \in MaybeRequest,
         NEW t, t = WithRequest(s, kind, r)
  PROVE  /\ t \in HandlerStates
         /\ t.pc = s.pc /\ t.status = s.status /\ t.kind = kind /\ t.r = r
         /\ (t.failed = s.failed) /\ t.cached = s.cached
         /\ SameUsers(s, t) /\ SameCalls(s, t) /\ SameReport(s, t)
BY StatesForm DEF WithRequest, SameUsers, SameCalls, SameReport

\* A request to a handler of a service configured by c.
Admitted(kind, r, c) ==
  /\ kind \in ServiceInitializers[c.service].kinds
  /\ r \in AnyRequest
  /\ c.cookies = "none" => r.front = None

\* s: what a handler knows before it looks at the request.
LEMMA EnteredLocal ==
  ASSUME NEW c \in Confs, NEW s \in HandlerStates,
         s.human = ZeroUserID, s.sent = None, ~s.failed, s.cached = None,
         s.posts = 0, NEW kind, NEW r, Admitted(kind, r, c),
         \/ s.pc = "evaluate" /\ s.status = 0 /\ ~s.early
         \/ s.pc = "log" /\ ~s.early /\ kind \notin Uncounted
         \/ s.pc = "done" /\ s.early,
         NEW t, t = WithRequest(s, kind, r)
  PROVE  Local(t, c)
<1>1. kind \in Kinds /\ r \in MaybeRequest
  BY ServiceKinds DEF Admitted, Kinds, MaybeRequest
<1>2. /\ t \in HandlerStates
      /\ t.pc = s.pc /\ t.status = s.status /\ t.kind = kind /\ t.r = r
      /\ (t.failed = s.failed) /\ t.cached = s.cached
      /\ SameUsers(s, t) /\ SameCalls(s, t) /\ SameReport(s, t)
  BY <1>1, RequestUpdate
<1>3. Serving(t, c)
  BY <1>2 DEF Serving, SameUsers, Admitted, Nobody
<1>4. Authorised(t, c)
  BY <1>2 DEF Authorised, SameCalls
<1>5. Unanswered(t, c)
  BY <1>2 DEF Unanswered
<1>6. Answer(t, c)
  BY <1>2 DEF Answer
<1>7. Reported(t, c)
  BY <1>2 DEF Reported, SameReport
<1> QED BY <1>2, <1>3, <1>4, <1>5, <1>6, <1>7 DEF Local

LEMMA AdmittedRequest ==
  ASSUME conf \in Confs, NEW h \in Handlers, NEW kind,
         NEW r \in RequestsTo(h, kind)
  PROVE  Admitted(kind, r, conf)
<1>1. Requests[h] \subseteq HandlerKinds \X AnyRequest
  BY GatewayAssumption
<1>2. <<kind, r>> \in HandlerKinds \X AnyRequest
  BY <1>1 DEF RequestsTo
<1> QED BY <1>2 DEF RequestsTo, Admitted

-----------------------------------------------------------------------------
(* What the guards find out.                                                *)

LEMMA UserOfSession ==
  ASSUME NEW c, NEW s, NEW lives, lives \subseteq Sessions,
         NEW f \in FindUserBySession(c, s, lives)
  PROVE  f.user = InvalidUserID \/ (s \in Sessions /\ f.user = Owner[s])
<1>1. \/ f = Found(InvalidUserID) \/ f = Broken \/ f = Panic
      \/ s \in lives /\ f = Found(Owner[s])
  BY DEF FindUserBySession, NilUserFinder, SQLUserFinder
<1> QED BY <1>1 DEF Found, Broken, Panic

\* The user of a cookie of the request.
LEMMA UserOfCookie ==
  ASSUME NEW c, NEW r, NEW lives, lives \subseteq Sessions,
         NEW cookie \in {r.front, r.back}, NEW s \in {cookie, None},
         NEW f \in FindUserBySession(c, s, lives)
  PROVE  f.user \in Presented(r) \cup Nobody
<1>1. f.user = InvalidUserID \/ (s \in Sessions /\ f.user = Owner[s])
  BY UserOfSession
<1>2. s \in Sessions => s \in {r.front, r.back} \cap Sessions
  BY GuardsAssumption
<1> QED BY <1>1, <1>2 DEF Presented, Nobody

LEMMA UserOfToken ==
  ASSUME NEW r
  PROVE  ValidateToken(r) \in Presented(r) \cup Nobody
BY DEF ValidateToken, Presented, Nobody

LEMMA UpdatedFromCookie ==
  ASSUME NEW c, NEW cookie
  PROVE  UpdatedFrom(c, cookie) \in {cookie, None}
BY DEF UpdatedFrom

\* A user who is found is one the request presented.
LEMMA TrueUser ==
  ASSUME NEW c \in Confs, NEW r \in AnyRequest, NEW lives,
         lives \subseteq Sessions, NEW f \in DetermineTrueUserID(c, r, lives)
  PROVE  f.user \in Presented(r) \cup Nobody
<1>1. c.guard \in {"cncauth", "token", "dflt", "null"}
  BY GatewayAssumption DEF AnyConf
<1>2. CASE c.guard = "cncauth"
  <2>1. f = Found(InvalidUserID)
        \/ f \in FindUserBySession(c, UpdatedFrom(c, r.back), lives)
    BY <1>2 DEF DetermineTrueUserID, CNCAuthTrueUser
  <2> QED BY <2>1, UserOfCookie, UpdatedFromCookie DEF Found, Nobody
<1>3. CASE c.guard # "cncauth"
  <2>1. f = Found(InvalidUserID) \/ f = Found(ValidateToken(r))
    BY <1>1, <1>3 DEF DetermineTrueUserID
  <2> QED BY <2>1, UserOfToken DEF Found, Nobody
<1> QED BY <1>2, <1>3

\* What every evaluation is like.
Outcome(e, c, r) ==
  /\ e.status \in {200, 401, 429, 500}
  /\ e.client \in Presented(r) \cup Nobody
  /\ (c.guard = "cncauth" /\ ~Refused(e)) =>
       GetFrontendOrBackendSession(c, r) # None

LEMMA ThrottledOutcome ==
  ASSUME NEW c, NEW b, NEW u, NEW fallback,
         NEW e, e = Throttled(c, b, u, fallback)
  PROVE  e.status \in {200, 429} /\ e.client = u
<1>1. CASE Allow(c, b)
  BY <1>1 DEF Throttled, Evaluation, TestIPBan
<1>2. CASE ~Allow(c, b)
  BY <1>2 DEF Throttled, Evaluation
<1> QED BY <1>1, <1>2

LEMMA CNCAuthOutcome ==
  ASSUME NEW c, NEW r, NEW f, f.user \in Presented(r) \cup Nobody,
         NEW needs, NEW b, NEW e, e = CNCAuthFound(c, f, needs, b)
  PROVE  /\ e.status \in {200, 401, 429, 500}
         /\ e.client \in Presented(r) \cup Nobody
<1>1. CASE f.panic
  <2> DEFINE q == Evaluation(500, ZeroUserID, TRUE, needs, FALSE)
  <2>1. e = [q EXCEPT !.panic = TRUE]
    BY <1>1, Zenon DEF CNCAuthFound
  <2>2. q.status = 500 /\ q.client = ZeroUserID
    BY DEF Evaluation
  <2>3. q \in [status : {500}, client : {ZeroUserID}, err : {TRUE},
               fallback : {needs}, asked : {FALSE}, panic : {FALSE}]
    BY DEF Evaluation
  <2> HIDE DEF q
  <2>4. e.status = q.status /\ e.client = q.client
    BY <2>1, <2>3
  <2> QED BY <2>2, <2>4 DEF Nobody
<1>2. CASE ~f.panic /\ f.err
  BY <1>2 DEF CNCAuthFound, Evaluation, Nobody
<1>3. CASE ~f.panic /\ ~f.err /\ ~IsValid(f.user)
  BY <1>3 DEF CNCAuthFound, Evaluation, Nobody
<1>4. CASE ~f.panic /\ ~f.err /\ IsValid(f.user)
  BY <1>4, ThrottledOutcome DEF CNCAuthFound
<1> QED BY <1>1, <1>2, <1>3, <1>4

LEMMA EvaluationOutcome ==
  ASSUME NEW c \in Confs, NEW r \in AnyRequest, NEW lives,
         lives \subseteq Sessions, NEW b,
         NEW e \in EvaluateRequest(c, r, None, lives, b)
  PROVE  Outcome(e, c, r)
<1>1. c.guard \in {"cncauth", "token", "dflt", "null"}
  BY GatewayAssumption DEF AnyConf
<1>2. CASE c.guard = "cncauth"
  <2> DEFINE s == GetFrontendOrBackendSession(c, r)
  <2>1. e \in CNCAuthEvaluate(c, r, None, lives, b)
    BY <1>2 DEF EvaluateRequest
  <2>2. CASE s = None
    <3>1. e = Evaluation(401, InvalidUserID, TRUE, TRUE, FALSE)
      BY <2>1, <2>2 DEF CNCAuthEvaluate
    <3> QED BY <3>1 DEF Evaluation, Outcome, Refused, Nobody
  <2>3. CASE s # None
    <3>1. PICK f \in FindUserBySession(c, UpdatedFrom(c, s), lives) :
            \E needs : e = CNCAuthFound(c, f, needs, b)
      BY <2>1, <2>3 DEF CNCAuthEvaluate
    <3>2. PICK cookie \in {r.front, r.back} : UpdatedFrom(c, s) \in {cookie, None}
      BY UpdatedFromCookie DEF GetFrontendOrBackendSession
    <3>3. f.user \in Presented(r) \cup Nobody
      BY <3>1, <3>2, UserOfCookie
    <3>4. PICK needs : e = CNCAuthFound(c, f, needs, b)
      BY <3>1
    <3>5. /\ e.status \in {200, 401, 429, 500}
          /\ e.client \in Presented(r) \cup Nobody
      BY <3>3, <3>4, CNCAuthOutcome
    <3> QED BY <2>3, <3>5 DEF Outcome
  <2> QED BY <2>2, <2>3
<1>3. CASE c.guard = "token"
  <2>1. \/ e = Evaluation(401, InvalidUserID, TRUE, FALSE, FALSE)
        \/ e = Throttled(c, b, ValidateToken(r), FALSE)
    BY <1>3 DEF EvaluateRequest, TokenEvaluate
  <2>2. CASE e = Evaluation(401, InvalidUserID, TRUE, FALSE, FALSE)
    BY <1>3, <2>2 DEF Evaluation, Outcome, Nobody
  <2>3. CASE e = Throttled(c, b, ValidateToken(r), FALSE)
    <3>1. PICK fallback : e = Throttled(c, b, ValidateToken(r), fallback)
      BY <2>3
    <3>2. e.status \in {200, 429} /\ e.client = ValidateToken(r)
      BY <3>1, ThrottledOutcome
    <3> QED BY <1>3, <3>2, UserOfToken DEF Outcome
  <2> QED BY <2>1, <2>2, <2>3
<1>4. CASE c.guard = "dflt"
  <2>1. PICK fallback : e = Throttled(c, b, ZeroUserID, fallback)
    BY <1>4 DEF EvaluateRequest, DfltEvaluate
  <2>2. e.status \in {200, 429} /\ e.client = ZeroUserID
    BY <2>1, ThrottledOutcome
  <2> QED BY <1>4, <2>2 DEF Outcome, Nobody
<1>5. CASE c.guard = "null"
  <2>1. e = Evaluation(200, ZeroUserID, FALSE, FALSE, FALSE)
    BY <1>5 DEF EvaluateRequest, NullEvaluate
  <2> QED BY <1>5, <2>1 DEF Evaluation, Outcome, Nobody
<1> QED BY <1>1, <1>2, <1>3, <1>4, <1>5

-----------------------------------------------------------------------------
(* The steps of the handlers.                                               *)

HandlersInv ==
  /\ hs \in [Handlers -> HandlerStates]
  /\ \A h \in Handlers : Local(hs[h], conf)

\* What holds before each step of a handler.
Before ==
  /\ HandlersInv
  /\ conf \in Confs
  /\ live \subseteq Sessions
  /\ queued \in 0..AlarmCap

\* h comes to know what is consistent; the rest is as it should be.
Moves(h) ==
  /\ \E t : Local(t, conf) /\ hs' = [hs EXCEPT ![h] = t]
  /\ conf' = conf /\ live' = live /\ queued' \in 0..AlarmCap

LEMMA BecomesMoves ==
  ASSUME Before, NEW h \in Handlers, NEW t, Local(t, conf), Becomes(h, t)
  PROVE  Moves(h)
BY DEF Before, Moves, Becomes, shared

LEMMA StartMoves ==
  ASSUME Before, NEW h \in Handlers, NEW kind, Start(h, kind)
  PROVE  Moves(h)
<1> DEFINE s == WithPlace(Idle, "evaluate")
<1>1. PICK r \in RequestsTo(h, kind) : Becomes(h, WithRequest(s, kind, r))
  BY DEF Start, Receive, WithPlace, WithRequest
<1>2. "evaluate" \in Pcs
  BY Places
<1>3. /\ s \in HandlerStates
      /\ s.pc = "evaluate" /\ s.status = Idle.status
      /\ (s.failed = Idle.failed) /\ s.cached = Idle.cached
      /\ SameRequest(Idle, s) /\ SameUsers(Idle, s) /\ SameCalls(Idle, s)
      /\ SameReport(Idle, s)
  BY <1>2, IdleState, PlaceUpdate
<1>4. Admitted(kind, r, conf)
  BY AdmittedRequest DEF Before
<1> HIDE DEF s
<1>5. Local(WithRequest(s, kind, r), conf)
  BY <1>3, <1>4, IdleState, EnteredLocal
  DEF Before, SameUsers, SameCalls, SameReport
<1> QED BY <1>1, <1>5, BecomesMoves

LEMMA BadBodyMoves ==
  ASSUME Before, NEW h \in Handlers, NEW kind, kind \notin Uncounted,
         BadBody(h, kind)
  PROVE  Moves(h)
<1> DEFINE s == WithEnd(Idle, "log", 400)
<1>1. PICK r \in RequestsTo(h, kind) : Becomes(h, WithRequest(s, kind, r))
  BY DEF BadBody, Receive, WithEnd, WithRequest
<1>2. "log" \in Pcs /\ 400 \in Statuses
  BY Places DEF Statuses
<1>3. /\ s \in HandlerStates
      /\ s.pc = "log" /\ s.status = 400
      /\ (s.failed = Idle.failed) /\ s.cached = Idle.cached
      /\ SameRequest(Idle, s) /\ SameUsers(Idle, s) /\ SameCalls(Idle, s)
      /\ SameReport(Idle, s)
  BY <1>2, IdleState, EndUpdate
<1>4. Admitted(kind, r, conf)
  BY AdmittedRequest DEF Before
<1> HIDE DEF s
<1>5. Local(WithRequest(s, kind, r), conf)
  BY <1>3, <1>4, IdleState, EnteredLocal
  DEF Before, SameUsers, SameCalls, SameReport
<1> QED BY <1>1, <1>5, BecomesMoves

WithNothing(s, w) == [s EXCEPT !.pc = "done", !.status = w, !.early = TRUE]

LEMMA NothingUpdate ==
  ASSUME NEW s \in HandlerStates, NEW w \in Statuses,
         NEW t, t = WithNothing(s, w)
  PROVE  /\ t \in HandlerStates
         /\ t.pc = "done" /\ t.early
         /\ (t.failed = s.failed) /\ t.cached = s.cached
         /\ t.posts = s.posts /\ SameUsers(s, t) /\ SameCalls(s, t)
BY StatesForm, Places DEF WithNothing, SameUsers, SameCalls

LEMMA UnreadMoves ==
  ASSUME Before, NEW h \in Handlers, NEW kind, Unread(h, kind)
  PROVE  Moves(h)
<1> DEFINE s == WithNothing(Idle, 400)
<1>1. PICK r \in RequestsTo(h, kind) : Becomes(h, WithRequest(s, kind, r))
  BY DEF Unread, Receive, WithNothing, WithRequest
<1>2. 400 \in Statuses
  BY DEF Statuses
<1>3. /\ s \in HandlerStates
      /\ s.pc = "done" /\ s.early
      /\ (s.failed = Idle.failed) /\ s.cached = Idle.cached
      /\ s.posts = Idle.posts /\ SameUsers(Idle, s) /\ SameCalls(Idle, s)
  BY <1>2, IdleState, NothingUpdate
<1>4. Admitted(kind, r, conf)
  BY AdmittedRequest DEF Before
<1> HIDE DEF s
<1>5. Local(WithRequest(s, kind, r), conf)
  BY <1>3, <1>4, IdleState, EnteredLocal
  DEF Before, SameUsers, SameCalls
<1> QED BY <1>1, <1>5, BecomesMoves

LEMMA AnsweredMoves ==
  ASSUME Before, NEW h \in Handlers, hs[h].kind \notin Uncounted,
         hs[h].pc \in {"identify", "call", "parts"},
         NEW code \in Statuses, NEW failed \in BOOLEAN, failed => code = 500,
         Answered(h, code, failed)
  PROVE  Moves(h)
<1> DEFINE s == hs[h]
           t == WithAnswer(s, "log", Written(s, code), failed)
<1>1. Becomes(h, t)
  BY DEF Answered, WithAnswer
<1>2. Local(s, conf) /\ conf \in Confs
  BY DEF Before, HandlersInv
<1>3. s.kind \notin Uncounted /\ s.pc \in {"identify", "call", "parts"}
  OBVIOUS
<1> HIDE DEF s
<1>4. Local(t, conf)
  BY <1>2, <1>3, AnswerLocal
<1> QED BY <1>1, <1>4, BecomesMoves

LEMMA NextCallMoves ==
  ASSUME Before, NEW h \in Handlers, Call(h, 0), NextCall(h)
  PROVE  Moves(h)
<1> DEFINE s == hs[h]
           t == WithParts(s, s.parts + 1)
<1>1. Becomes(h, t)
  BY DEF NextCall, WithParts
<1>2. Local(s, conf) /\ conf \in Confs
  BY DEF Before, HandlersInv
<1>3. s.pc = "call" /\ s.parts + 1 \in PartsDone
  BY GatewayAssumption DEF Call, At, PartsDone
<1> HIDE DEF s
<1>4. Local(t, conf)
  BY <1>2, <1>3, PartsLocal
<1> QED BY <1>1, <1>4, BecomesMoves

\* What the handlers are given by the calls of a backend.
Results == {"hit", "cacheErr", "ok", "other", "fail"}

LEMMA CallResults ==
  /\ HandleRequest(TRUE) \subseteq Results
  /\ HandleRequest(FALSE) \subseteq Results
  /\ MakeStreamRequest \subseteq Results
  /\ MakeCacheablePOSTRequest \subseteq Results
BY DEF HandleRequest, MakeStreamRequest, MakeCacheablePOSTRequest,
       CoreProxyRequest, Results

LEMMA ResultStatus ==
  ASSUME NEW x \in Results
  PROVE  /\ GetStatusCode(x) \in Statuses
         /\ x = "fail" => GetStatusCode(x) = 500
         /\ GetStatusCode(x) \in {0, 200, 302, 500}
BY DEF Results, GetStatusCode, Statuses

\* h answers without a failed call, or by the result x of one.
LEMMA PlainAnswerMoves ==
  ASSUME Before, NEW h \in Handlers, hs[h].kind \notin Uncounted,
         hs[h].pc \in {"identify", "call", "parts"},
         NEW code \in Statuses, Answered(h, code, FALSE)
  PROVE  Moves(h)
<1>1. PICK failed \in BOOLEAN : ~failed /\ Answered(h, code, failed)
  OBVIOUS
<1> QED BY <1>1, AnsweredMoves

LEMMA CallAnswerMoves ==
  ASSUME Before, NEW h \in Handlers, hs[h].kind \notin Uncounted,
         hs[h].pc \in {"identify", "call", "parts"}, NEW x,
         NEW code \in Statuses, x = "fail" => code = 500,
         Answered(h, code, x = "fail")
  PROVE  Moves(h)
<1>1. PICK failed \in BOOLEAN :
        failed = (x = "fail") /\ Answered(h, code, failed)
  OBVIOUS
<1> QED BY <1>1, AnsweredMoves

LEMMA ProxyCallMoves ==
  ASSUME Before, NEW h \in Handlers, hs[h].kind \notin Uncounted, ProxyCall(h)
  PROVE  Moves(h)
<1>1. PICK x \in HandleRequest(TRUE) :
        Answered(h, IF HasError(x) THEN 500 ELSE GetStatusCode(x), x = "fail")
  BY DEF ProxyCall
<1> DEFINE code == IF HasError(x) THEN 500 ELSE GetStatusCode(x)
<1>2. x \in Results
  BY CallResults
<1>3. code \in Statuses /\ (x = "fail" => code = 500)
  BY <1>2, ResultStatus DEF Statuses
<1>4. hs[h].pc \in {"identify", "call", "parts"}
  BY DEF ProxyCall, Call, At
<1>5. Answered(h, code, x = "fail")
  BY <1>1
<1> HIDE DEF code
<1> QED BY <1>3, <1>4, <1>5, CallAnswerMoves

LEMMA ConcordanceMoves ==
  ASSUME Before, NEW h \in Handlers, hs[h].kind \notin Uncounted, Concordance(h)
  PROVE  Moves(h)
<1>1. hs[h].pc \in {"identify", "call", "parts"} /\ Call(h, 0)
  BY DEF Concordance, Call, At
<1>2. 400 \in Statuses /\ 404 \in Statuses /\ 500 \in Statuses
  BY DEF Statuses
<1>3. CASE Answered(h, 400, FALSE)
  BY <1>1, <1>2, <1>3, PlainAnswerMoves
<1>4. ASSUME NEW x \in HandleRequest(TRUE),
             IF HasError(x) THEN Answered(h, GetStatusCode(x), x = "fail")
             ELSE \/ Answered(h, 500, FALSE)
                  \/ Answered(h, GetStatusCode(x), FALSE)
                  \/ Answered(h, 404, FALSE)
                  \/ NextCall(h)
      PROVE  Moves(h)
  <2>1. /\ GetStatusCode(x) \in Statuses
        /\ x = "fail" => GetStatusCode(x) = 500
    BY CallResults, ResultStatus
  <2>2. CASE HasError(x)
    <3>1. Answered(h, GetStatusCode(x), x = "fail")
      BY <1>4, <2>2
    <3> QED BY <1>1, <2>1, <3>1, CallAnswerMoves
  <2>3. CASE ~HasError(x)
    <3>1. \/ Answered(h, 500, FALSE)
          \/ Answered(h, GetStatusCode(x), FALSE)
          \/ Answered(h, 404, FALSE)
          \/ NextCall(h)
      BY <1>4, <2>3
    <3>2. CASE NextCall(h)
      BY <1>1, <3>2, NextCallMoves
    <3>3. CASE Answered(h, GetStatusCode(x), FALSE)
      BY <1>1, <2>1, <3>3, PlainAnswerMoves
    <3>4. CASE Answered(h, 500, FALSE) \/ Answered(h, 404, FALSE)
      BY <1>1, <1>2, <3>4, PlainAnswerMoves
    <3> QED BY <3>1, <3>2, <3>3, <3>4
  <2> QED BY <2>2, <2>3
<1> QED BY <1>3, <1>4 DEF Concordance

LEMMA LastCallMoves ==
  ASSUME Before, NEW h \in Handlers, hs[h].kind \notin Uncounted,
         TokenContext(h) \/ TimeDist(h)
  PROVE  Moves(h)
<1>1. hs[h].pc \in {"identify", "call", "parts"}
  BY DEF TokenContext, TimeDist, Call, At
<1>2. PICK x \in HandleRequest(TRUE) \cup MakeStreamRequest :
        Answered(h, GetStatusCode(x), x = "fail")
  BY DEF TokenContext, TimeDist
<1>3. x \in Results
  BY CallResults
<1> QED BY <1>1, <1>2, <1>3, ResultStatus, CallAnswerMoves

LEMMA FirstCallMoves ==
  ASSUME Before, NEW h \in Handlers, hs[h].kind \notin Uncounted,
         LemmaFreqs(h) \/ QuerySubmit(h)
  PROVE  Moves(h)
<1>1. hs[h].pc \in {"identify", "call", "parts"} /\ Call(h, 0)
  BY DEF LemmaFreqs, QuerySubmit, Call, At
<1>2. 400 \in Statuses /\ 500 \in Statuses
  BY DEF Statuses
<1>3. CASE Answered(h, 500, FALSE)
  BY <1>1, <1>2, <1>3, PlainAnswerMoves
<1>4. ASSUME NEW x,
             IF HasError(x) THEN Answered(h, 500, x = "fail")
             ELSE \/ Answered(h, 500, FALSE)
                  \/ Answered(h, 400, FALSE)
                  \/ NextCall(h)
      PROVE  Moves(h)
  <2>1. CASE HasError(x)
    <3>1. Answered(h, 500, x = "fail")
      BY <1>4, <2>1
    <3> QED BY <1>1, <1>2, <3>1, CallAnswerMoves
  <2>2. CASE ~HasError(x)
    <3>1. \/ Answered(h, 500, FALSE)
          \/ Answered(h, 400, FALSE)
          \/ NextCall(h)
      BY <1>4, <2>2
    <3> QED BY <1>1, <1>2, <3>1, PlainAnswerMoves, NextCallMoves
  <2> QED BY <2>1, <2>2
<1>5. CASE LemmaFreqs(h)
  BY <1>4, <1>5 DEF LemmaFreqs
<1>6. CASE QuerySubmit(h)
  <2>1. \/ Answered(h, 500, FALSE)
        \/ \E x : IF HasError(x) THEN Answered(h, 500, x = "fail")
                  ELSE \/ Answered(h, 500, FALSE)
                       \/ Answered(h, 400, FALSE)
                       \/ NextCall(h)
    BY <1>6 DEF QuerySubmit
  <2> QED BY <1>3, <1>4, <2>1
<1> QED BY <1>5, <1>6

LEMMA ViewMoves ==
  ASSUME Before, NEW h \in Handlers, hs[h].kind \notin Uncounted, View(h)
  PROVE  Moves(h)
<1>1. PICK x \in HandleRequest(TRUE) :
        Answered(h, IF x = "cacheErr" THEN 500 ELSE GetStatusCode(x), x = "fail")
  BY DEF View
<1> DEFINE code == IF x = "cacheErr" THEN 500 ELSE GetStatusCode(x)
<1>2. x \in Results
  BY CallResults
<1>3. code \in Statuses /\ (x = "fail" => code = 500)
  BY <1>2, ResultStatus DEF Statuses
<1>4. hs[h].pc \in {"identify", "call", "parts"}
  BY DEF View, Call, At
<1>5. Answered(h, code, x = "fail")
  BY <1>1
<1> HIDE DEF code
<1> QED BY <1>3, <1>4, <1>5, CallAnswerMoves

-----------------------------------------------------------------------------
(* Steps common to the handlers which report their requests.                *)

\* The evaluation of the request of h.
LEMMA EvaluatedOutcome ==
  ASSUME Before, NEW h \in Handlers, At(h, "evaluate"),
         NEW e \in EvaluateRequest(conf, hs[h].r, None, live, buckets[hs[h].r.ip])
  PROVE  Outcome(e, conf, hs[h].r)
<1>1. hs[h].r \in AnyRequest
  BY DEF At, Before, HandlersInv, Local, Serving
<1> QED BY <1>1, EvaluationOutcome DEF Before

LEMMA AuthorizeMoves ==
  ASSUME Before, NEW h \in Handlers, hs[h].kind \notin Uncounted,
         AuthorizeRequestOrRespondErr(h)
  PROVE  Moves(h)
<1> DEFINE s == hs[h]
<1>1. /\ At(h, "evaluate")
      /\ conf' = conf /\ live' = live /\ queued' = queued
  BY DEF AuthorizeRequestOrRespondErr, Evaluate
<1>2. Local(s, conf) /\ conf \in Confs /\ s.pc = "evaluate"
      /\ s.kind \notin Uncounted
  BY <1>1 DEF Before, HandlersInv, At
<1>3. PICK e \in EvaluateRequest(conf, s.r, None, live, buckets[s.r.ip]) :
        hs' = [hs EXCEPT ![h] =
                 IF Refused(e) THEN [s EXCEPT !.pc = "log", !.status = e.status]
                 ELSE [s EXCEPT !.pc = "identify", !.client = e.client]]
  BY DEF AuthorizeRequestOrRespondErr, Evaluate
<1>4. Outcome(e, conf, s.r)
  BY <1>1, EvaluatedOutcome
<1>5. CASE Refused(e)
  <2>1. hs' = [hs EXCEPT ![h] = WithEnd(s, "log", e.status)]
    BY <1>3, <1>5 DEF WithEnd
  <2>2. e.status \in Statuses
    BY <1>4 DEF Outcome, Statuses
  <2> HIDE DEF s
  <2>3. Local(WithEnd(s, "log", e.status), conf)
    BY <1>2, <2>2, RefusedLocal
  <2> QED BY <1>1, <2>1, <2>3 DEF Moves, Before
<1>6. CASE ~Refused(e)
  <2>1. hs' = [hs EXCEPT ![h] = WithClient(s, e.client)]
    BY <1>3, <1>6 DEF WithClient
  <2>2. /\ e.client \in Presented(s.r) \cup Nobody
        /\ conf.guard = "cncauth" /\ conf.db =>
             GetFrontendOrBackendSession(conf, s.r) # None
    BY <1>4, <1>6 DEF Outcome
  <2> HIDE DEF s
  <2>3. Local(WithClient(s, e.client), conf)
    BY <1>2, <2>2, AuthorisedLocal
  <2> QED BY <1>1, <2>1, <2>3 DEF Moves, Before
<1> QED BY <1>5, <1>6

\* The backend is given the session the request was authorised by.
LEMMA HeadersAuthorised ==
  ASSUME conf \in Confs, NEW r \in AnyRequest, NEW u \in Users,
         conf.cookies = "none" => r.front = None,
         NEW x, x = ProcessReqHeaders(r, u, ZeroUserID)
  PROVE  /\ x \in Sent
         /\ (/\ GetFrontendOrBackendSession(conf, r) # None
             /\ r.front # Blank) =>
              SessionGiven(conf, x) = GetFrontendOrBackendSession(conf, r)
<1> DEFINE k == CASE ~conf.key -> None
                  [] conf.key /\ ReqUsesMappedSession(r) -> r.front
                  [] OTHER -> r.back
           a == IF ~conf.key /\ ReqUsesMappedSession(r)
                THEN MapFrontendCookieToBackend(r) ELSE r.back
           b == IF conf.cookies # "same" THEN u ELSE ZeroUserID
           d == IF conf.header THEN ZeroUserID ELSE None
           given == IF conf.key THEN k ELSE a
<1>1. x = [key |-> k, cookie |-> a, user |-> b, trueID |-> d]
  BY DEF ProcessReqHeaders
<1>2. given = IF r.front # None THEN r.front ELSE r.back
  BY DEF ReqUsesMappedSession, MapFrontendCookieToBackend
<1>3. /\ k \in Cookies /\ a \in Cookies
      /\ b \in Users \cup {None} /\ d \in Users \cup {None}
  BY NobodyIsUser DEF AnyRequest, MapFrontendCookieToBackend, Cookies
<1> HIDE DEF k, a, b, d
<1>4. x \in Sent
  BY <1>1, <1>3 DEF Sent
<1>5. SessionGiven(conf, x) = given
  BY <1>1 DEF SessionGiven
<1> HIDE DEF given
<1>6. ASSUME GetFrontendOrBackendSession(conf, r) # None, r.front # Blank
      PROVE  given = GetFrontendOrBackendSession(conf, r)
  BY <1>2, <1>6 DEF GetFrontendOrBackendSession, UpdatedFrom
<1> QED BY <1>4, <1>5, <1>6

LEMMA IdentifyMoves ==
  ASSUME Before, NEW h \in Handlers, hs[h].kind \notin Uncounted, Identify(h)
  PROVE  Moves(h)
<1> DEFINE s == hs[h]
<1>1. /\ Local(s, conf) /\ conf \in Confs /\ s.pc = "identify"
      /\ s.kind \notin Uncounted
  BY DEF Before, HandlersInv, Identify, At
<1>2. /\ s.r \in AnyRequest /\ s.client \in Presented(s.r) \cup Nobody
      /\ conf.cookies = "none" => s.r.front = None
      /\ conf.guard = "cncauth" /\ conf.db =>
           GetFrontendOrBackendSession(conf, s.r) # None
  BY <1>1 DEF Local, Serving, Authorised
<1>3. 500 \in Statuses /\ 503 \in Statuses
      /\ InvalidUserID \in Presented(s.r) \cup Nobody
  BY DEF Statuses, Nobody
<1>4. PICK f \in DetermineTrueUserID(conf, s.r, live) :
        LET humanID == IF f.user = InvalidUserID THEN s.client ELSE f.user
        IN CASE f.panic -> Answered(h, 500, FALSE)
             [] ~f.panic /\ f.err -> Becomes(h, WithHuman(s, 500, InvalidUserID))
             [] ~f.panic /\ ~f.err /\ Overloaded ->
                  Becomes(h, WithHuman(s, 503, humanID))
             [] OTHER ->
                  Becomes(h, WithHeaders(s, humanID,
                               ProcessReqHeaders(s.r, humanID, ZeroUserID)))
  BY DEF Identify, WithHuman, WithHeaders
<1> DEFINE humanID == IF f.user = InvalidUserID THEN s.client ELSE f.user
           x == ProcessReqHeaders(s.r, humanID, ZeroUserID)
<1>5. f.user \in Presented(s.r) \cup Nobody
  BY <1>1, <1>2, TrueUser DEF Before
<1>6. humanID \in Presented(s.r) \cup Nobody
  BY <1>2, <1>5
<1>7. \/ Answered(h, 500, FALSE)
      \/ Becomes(h, WithHuman(s, 500, InvalidUserID))
      \/ Becomes(h, WithHuman(s, 503, humanID))
      \/ Becomes(h, WithHeaders(s, humanID, x))
  BY <1>4
<1> HIDE DEF humanID
<1>8. humanID \in Users
  BY <1>6, PresentedUsers
<1>9. /\ x \in Sent
      /\ (/\ GetFrontendOrBackendSession(conf, s.r) # None
          /\ s.r.front # Blank) =>
           SessionGiven(conf, x) = GetFrontendOrBackendSession(conf, s.r)
  BY <1>1, <1>2, <1>8, HeadersAuthorised
<1> HIDE DEF x
<1>10. CASE Answered(h, 500, FALSE)
  BY <1>1, <1>3, <1>10, PlainAnswerMoves
<1> HIDE DEF s
<1>11. Local(WithHuman(s, 500, InvalidUserID), conf)
  BY <1>1, <1>3, UnknownLocal
<1>12. Local(WithHuman(s, 503, humanID), conf)
  BY <1>1, <1>3, <1>6, UnknownLocal
<1>13. Local(WithHeaders(s, humanID, x), conf)
  BY <1>1, <1>2, <1>6, <1>9, HeadersLocal
<1> QED BY <1>7, <1>10, <1>11, <1>12, <1>13, BecomesMoves

LEMMA LogMoves ==
  ASSUME Before, NEW h \in Handlers, LogRequest(h)
  PROVE  Moves(h)
<1> DEFINE s == hs[h]
<1>1. /\ Local(s, conf) /\ conf \in Confs /\ s.pc = "log"
      /\ s.kind \notin Uncounted
  BY DEF Before, HandlersInv, LogRequest, At, Local, Reported
<1>2. ServiceInitializers[conf.service].alarm
  BY <1>1, ServiceKinds DEF Local, Serving
<1>3. conf' = conf /\ live' = live
  BY DEF LogRequest
<1>4. CASE conf.limits
  <2>1. /\ queued < AlarmCap /\ queued' = queued + 1
        /\ hs' = [hs EXCEPT ![h].pc = "done", ![h].posts = @ + 1,
                            ![h].charged = hs[h].human]
    BY <1>2, <1>4 DEF LogRequest
  <2>2. hs' = [hs EXCEPT ![h] = WithPost(s, s.posts + 1, s.human)]
    BY <2>1, Zenon DEF WithPost
  <2>3. queued' \in 0..AlarmCap
    BY <2>1, GatewayAssumption DEF Before
  <2> HIDE DEF s
  <2>4. Local(WithPost(s, s.posts + 1, s.human), conf)
    BY <1>1, <1>4, PostLocal
  <2> QED BY <1>3, <2>2, <2>3, <2>4 DEF Moves
<1>5. CASE ~conf.limits
  <2>1. hs' = [hs EXCEPT ![h].pc = "done"] /\ queued' = queued
    BY <1>5 DEF LogRequest
  <2>2. hs' = [hs EXCEPT ![h] = WithPlace(s, "done")]
    BY <2>1, Zenon DEF WithPlace
  <2> HIDE DEF s
  <2>3. Local(WithPlace(s, "done"), conf)
    BY <1>1, <1>5, UnpostedLocal
  <2> QED BY <1>3, <2>1, <2>2, <2>3 DEF Moves, Before
<1> QED BY <1>4, <1>5

-----------------------------------------------------------------------------
(* Handlers which do not report their requests.                             *)

LEMMA PreflightMoves ==
  ASSUME Before, NEW h \in Handlers, Preflight(h)
  PROVE  Moves(h)
<1> DEFINE s == hs[h]
<1>1. CASE Start(h, "Preflight")
  BY <1>1, StartMoves
<1>2. CASE ~Start(h, "Preflight")
  <2>1. /\ At(h, "evaluate") /\ s.kind = "Preflight"
        /\ conf' = conf /\ live' = live /\ queued' = queued
    BY <1>2 DEF Preflight, Evaluate, Serves
  <2>2. PICK e \in EvaluateRequest(conf, s.r, None, live, buckets[s.r.ip]) :
          hs' = [hs EXCEPT ![h] =
                   [s EXCEPT !.pc = "done",
                             !.status = IF Refused(e) THEN e.status ELSE 204]]
    BY <1>2 DEF Preflight, Evaluate
  <2> DEFINE w == IF Refused(e) THEN e.status ELSE 204
  <2>3. Outcome(e, conf, s.r)
    BY <2>1, EvaluatedOutcome
  <2>4. w \in Statuses
    BY <2>3 DEF Outcome, Statuses
  <2>5. hs' = [hs EXCEPT ![h] = WithEnd(s, "done", w)]
    BY <2>2 DEF WithEnd
  <2>6. /\ Local(s, conf) /\ conf \in Confs /\ s.pc = "evaluate"
        /\ s.kind \in Uncounted
    BY <2>1 DEF Before, HandlersInv, At, Uncounted
  <2> HIDE DEF s, w
  <2>7. Local(WithEnd(s, "done", w), conf)
    BY <2>4, <2>6, EndedLocal
  <2> QED BY <2>1, <2>5, <2>7 DEF Moves, Before
<1> QED BY <1>1, <1>2

LEMMA LoginMoves ==
  ASSUME Before, NEW h \in Handlers, Login(h)
  PROVE  Moves(h)
<1> DEFINE s == hs[h]
<1>1. CASE Start(h, "Login")
  BY <1>1, StartMoves
<1>2. CASE ~Start(h, "Login")
  <2>1. At(h, "evaluate") /\ s.kind = "Login"
    BY <1>2 DEF Login, Serves
  <2>2. PICK x \in LoginWithToken :
          Becomes(h, [s EXCEPT !.pc = "done",
                       !.status = CASE x = "session" -> 200
                                    [] x = "invalid" -> 401
                                    [] x \in {"failed", "panic"} -> 500])
    BY <1>2 DEF Login
  <2> DEFINE w == CASE x = "session" -> 200
                    [] x = "invalid" -> 401
                    [] x \in {"failed", "panic"} -> 500
  <2>3. w \in Statuses
    BY DEF LoginWithToken, Statuses
  <2>4. Becomes(h, WithEnd(s, "done", w))
    BY <2>2 DEF WithEnd
  <2>5. /\ Local(s, conf) /\ conf \in Confs /\ s.pc = "evaluate"
        /\ s.kind \in Uncounted
    BY <2>1 DEF Before, HandlersInv, At, Uncounted
  <2> HIDE DEF s, w
  <2>6. Local(WithEnd(s, "done", w), conf)
    BY <2>3, <2>5, EndedLocal
  <2> QED BY <2>4, <2>6, BecomesMoves
<1> QED BY <1>1, <1>2

\* The user the public proxy finds is one of the request's.
LEMMA PublicUser ==
  ASSUME Before, NEW r \in AnyRequest,
         NEW f \in IF conf.header THEN PublicTrueUser(r) ELSE {Found(ZeroUserID)}
  PROVE  f.user \in Presented(r) \cup Nobody
<1>1. CASE conf.header
  <2> DEFINE c == [conf EXCEPT !.session = "cnc"]
             cookie == UpdatedFrom(c, r.back)
  <2>1. f = Found(InvalidUserID) \/ f \in FindUserBySession(c, cookie, live)
    BY <1>1 DEF PublicTrueUser
  <2>2. cookie \in {r.back, None}
    BY UpdatedFromCookie
  <2> HIDE DEF c, cookie
  <2>3. f \in FindUserBySession(c, cookie, live) =>
          f.user \in Presented(r) \cup Nobody
    BY <2>2, UserOfCookie DEF Before
  <2> QED BY <2>1, <2>3 DEF Found, Nobody
<1>2. CASE ~conf.header
  BY <1>2 DEF Found, Nobody
<1> QED BY <1>1, <1>2

WithCount(s, kind, r, u) ==
  [s EXCEPT !.pc = "count", !.kind = kind, !.r = r, !.human = u]

LEMMA CountUpdate ==
  ASSUME NEW s \in HandlerStates, NEW kind \in Kinds, NEW r \in MaybeRequest,
         NEW u \in Users, NEW t, t = WithCount(s, kind, r, u)
  PROVE  /\ t \in HandlerStates
         /\ t.pc = "count" /\ t.kind = kind /\ t.r = r /\ t.human = u
         /\ t.status = s.status /\ (t.failed = s.failed) /\ t.cached = s.cached
         /\ SameCalls(s, t) /\ SameReport(s, t)
BY StatesForm, Places DEF WithCount, SameCalls, SameReport

LEMMA PublicStartMoves ==
  ASSUME Before, NEW h \in Handlers, PublicStart(h)
  PROVE  Moves(h)
<1> DEFINE kind == "PublicAnyPath"
<1>1. PICK r \in RequestsTo(h, kind) :
        \E f \in IF conf.header THEN PublicTrueUser(r) ELSE {Found(ZeroUserID)} :
          Becomes(h, WithCount(Idle, kind, r, f.user))
  BY DEF PublicStart, WithCount
<1>2. PICK f \in IF conf.header THEN PublicTrueUser(r) ELSE {Found(ZeroUserID)} :
        Becomes(h, WithCount(Idle, kind, r, f.user))
  BY <1>1
<1> HIDE DEF kind
<1>3. Admitted(kind, r, conf)
  BY AdmittedRequest DEF Before
<1>4. kind \in Kinds /\ r \in MaybeRequest /\ r \in AnyRequest
  BY <1>3, ServiceKinds DEF Admitted, Kinds, MaybeRequest, Before
<1>5. f.user \in Presented(r) \cup Nobody /\ f.user \in Users
  BY <1>4, PublicUser, PresentedUsers
<1> DEFINE u == f.user
           t == WithCount(Idle, kind, r, u)
<1> HIDE DEF u
<1>6. /\ t \in HandlerStates
      /\ t.pc = "count" /\ t.kind = kind /\ t.r = r /\ t.human = u
      /\ t.status = Idle.status /\ (t.failed = Idle.failed)
      /\ t.cached = Idle.cached
      /\ SameCalls(Idle, t) /\ SameReport(Idle, t)
  BY <1>4, <1>5, IdleState, CountUpdate DEF u
<1>7. Becomes(h, t)
  BY <1>2 DEF u
<1> HIDE DEF t
<1>8. Serving(t, conf)
  BY <1>3, <1>5, <1>6 DEF Serving, Admitted, u
<1>9. Authorised(t, conf)
  BY <1>6, IdleState DEF Authorised, SameCalls
<1>10. Unanswered(t, conf) /\ Answer(t, conf)
  BY <1>6, IdleState DEF Unanswered, Answer
<1>11. Reported(t, conf)
  BY <1>6, IdleState DEF Reported, SameReport
<1> QED BY <1>6, <1>7, <1>8, <1>9, <1>10, <1>11, BecomesMoves DEF Local

LEMMA CountClientMoves ==
  ASSUME Before, NEW h \in Handlers, CountClient(h)
  PROVE  Moves(h)
<1> DEFINE s == hs[h]
<1>1. Becomes(h, WithPlace(s, "evaluate")) /\ s.pc = "count"
  BY DEF CountClient, WithPlace, At
<1>2. Local(s, conf) /\ conf \in Confs
  BY DEF Before, HandlersInv
<1> HIDE DEF s
<1>3. Local(WithPlace(s, "evaluate"), conf)
  BY <1>1, <1>2, PlaceLocal
<1> QED BY <1>1, <1>3, BecomesMoves

LEMMA PublicCallMoves ==
  ASSUME Before, NEW h \in Handlers, hs[h].kind = "PublicAnyPath", PublicCall(h)
  PROVE  Moves(h)
<1> DEFINE s == hs[h]
           x == [key |-> None, cookie |-> s.r.back, user |-> None,
                 trueID |-> IF conf.header /\ IsValid(s.human)
                            THEN s.human ELSE None]
<1>1. /\ Local(s, conf) /\ conf \in Confs /\ s.pc = "call"
      /\ s.kind = "PublicAnyPath"
  BY DEF Before, HandlersInv, PublicCall, At
<1>2. PICK y \in MakeStreamRequest :
        \E code \in Interceptor(conf.service, GetStatusCode(y)) :
          Becomes(h, WithPassed(s, y = "fail", Written(s, code), x))
  BY DEF PublicCall, WithPassed
<1>3. PICK code \in Interceptor(conf.service, GetStatusCode(y)) :
        Becomes(h, WithPassed(s, y = "fail", Written(s, code), x))
  BY <1>2
<1>4. PICK failed \in BOOLEAN :
        /\ failed = (y = "fail")
        /\ Becomes(h, WithPassed(s, failed, Written(s, code), x))
  BY <1>3
<1>5. y \in Results
  BY CallResults
<1>6. code \in Statuses /\ (failed => code = 500)
  <2> DEFINE status == GetStatusCode(y)
  <2>1. status \in {0, 200, 302, 500} /\ (y = "fail" => status = 500)
    BY <1>5, ResultStatus
  <2>2. code = status \/ (status = 302 /\ code \in {200, 302})
    BY DEF Interceptor
  <2> HIDE DEF status
  <2>3. failed => y = "fail"
    BY <1>4
  <2>4. code \in Statuses
    BY <2>1, <2>2 DEF Statuses
  <2>5. failed => code = 500
    BY <2>1, <2>2, <2>3
  <2> QED BY <2>4, <2>5
<1>7. s.r \in AnyRequest /\ s.human \in Users /\ conf.guard # "cncauth"
      /\ s.kind \in Uncounted
  <2>1. s.r \in AnyRequest /\ s.human \in Presented(s.r) \cup Nobody
        /\ s.kind \in ServiceInitializers[conf.service].kinds
    BY <1>1 DEF Local, Serving
  <2> QED BY <1>1, <2>1, PresentedUsers, ServiceKinds DEF Uncounted
<1>8. x \in Sent
  <2>1. s.r.back \in Cookies
    BY <1>7 DEF AnyRequest
  <2>2. None \in Cookies
    BY DEF Cookies
  <2> QED BY <1>7, <2>1, <2>2 DEF Sent
<1> HIDE DEF s, x
<1>9. Local(WithPassed(s, failed, Written(s, code), x), conf)
  BY <1>1, <1>6, <1>7, <1>8, PassedLocal
<1> QED BY <1>4, <1>9, BecomesMoves

LEMMA PublicMoves ==
  ASSUME Before, NEW h \in Handlers, PublicAnyPath(h)
  PROVE  Moves(h)
<1> DEFINE s == hs[h]
           Then(e) ==
             IF Refused(e) THEN [s EXCEPT !.pc = "done", !.status = e.status]
             ELSE [s EXCEPT !.pc = "call"]
<1>1. CASE PublicStart(h)
  BY <1>1, PublicStartMoves
<1>2. CASE Serves(h, "PublicAnyPath") /\ CountClient(h)
  BY <1>2, CountClientMoves
<1>3. CASE Serves(h, "PublicAnyPath") /\ PublicCall(h)
  BY <1>3, PublicCallMoves DEF Serves
<1>4. CASE Serves(h, "PublicAnyPath") /\ Evaluate(h, Then)
  <2>1. /\ At(h, "evaluate") /\ s.kind = "PublicAnyPath"
        /\ conf' = conf /\ live' = live /\ queued' = queued
    BY <1>4 DEF Evaluate, Serves
  <2>2. PICK e \in EvaluateRequest(conf, s.r, None, live, buckets[s.r.ip]) :
          hs' = [hs EXCEPT ![h] = Then(e)]
    BY <1>4 DEF Evaluate
  <2>3. Outcome(e, conf, s.r)
    BY <2>1, EvaluatedOutcome
  <2>4. /\ Local(s, conf) /\ conf \in Confs /\ s.pc = "evaluate"
        /\ s.kind \in Uncounted
    BY <2>1 DEF Before, HandlersInv, At, Uncounted
  <2>5. CASE Refused(e)
    <3>1. hs' = [hs EXCEPT ![h] = WithEnd(s, "done", e.status)]
      BY <2>2, <2>5 DEF WithEnd
    <3>2. e.status \in Statuses
      BY <2>3 DEF Outcome, Statuses
    <3> HIDE DEF s
    <3>3. Local(WithEnd(s, "done", e.status), conf)
      BY <2>4, <3>2, EndedLocal
    <3> QED BY <2>1, <3>1, <3>3 DEF Moves, Before
  <2>6. CASE ~Refused(e)
    <3>1. hs' = [hs EXCEPT ![h] = WithPlace(s, "call")]
      BY <2>2, <2>6 DEF WithPlace
    <3> HIDE DEF s
    <3>2. Local(WithPlace(s, "call"), conf)
      BY <2>4, PlaceLocal
    <3> QED BY <2>1, <3>1, <3>2 DEF Moves, Before
  <2> QED BY <2>5, <2>6
<1> QED BY <1>1, <1>2, <1>3, <1>4 DEF PublicAnyPath

-----------------------------------------------------------------------------
(* Merged answers.                                                          *)

\* The first event of a stream is there before anything is asked for.
Begun(s, c) == IF c.streaming THEN WithStatus(s, 200) ELSE s

LEMMA BegunState ==
  ASSUME NEW c, NEW s \in HandlerStates, NEW t, t = Begun(s, c)
  PROVE  /\ t \in HandlerStates
         /\ t.pc = s.pc /\ t.status = (IF c.streaming THEN 200 ELSE s.status)
         /\ (t.failed = s.failed) /\ t.cached = s.cached
         /\ SameRequest(s, t) /\ SameUsers(s, t) /\ SameCalls(s, t)
         /\ SameReport(s, t)
<1>1. 200 \in Statuses
  BY DEF Statuses
<1>2. CASE c.streaming
  <2>1. t = WithStatus(s, 200)
    BY <1>2 DEF Begun
  <2>2. /\ t \in HandlerStates
        /\ t.pc = s.pc /\ t.status = 200
        /\ (t.failed = s.failed) /\ t.cached = s.cached
        /\ SameRequest(s, t) /\ SameUsers(s, t) /\ SameCalls(s, t)
        /\ SameReport(s, t)
    BY <1>1, <2>1, StatusUpdate
  <2> QED BY <1>2, <2>2
<1>3. CASE ~c.streaming
  BY <1>3 DEF Begun, SameRequest, SameUsers, SameCalls, SameReport
<1> QED BY <1>2, <1>3

\* Nothing more is asked for: there are no ids, or the answer is in the cache.
LEMMA NothingMergedLocal ==
  ASSUME NEW c \in Confs, NEW s, Local(s, c), s.kind \in Merging, s.pc = "call",
         NEW v, v = Begun(s, c), NEW t,
         t = WithPlace(v, "log") \/ t = WithEnd(v, "log", 200)
  PROVE  Local(t, c)
<1>1. s \in HandlerStates
  BY DEF Local
<1>2. /\ v \in HandlerStates
      /\ v.pc = s.pc /\ v.status = (IF c.streaming THEN 200 ELSE s.status)
      /\ (v.failed = s.failed) /\ v.cached = s.cached
      /\ SameRequest(s, v) /\ SameUsers(s, v) /\ SameCalls(s, v)
      /\ SameReport(s, v)
  BY <1>1, BegunState
<1>3. "log" \in Pcs /\ 200 \in Statuses
  BY Places DEF Statuses
<1>4. /\ t \in HandlerStates
      /\ t.pc = "log"
      /\ (t.failed = v.failed) /\ t.cached = v.cached
      /\ SameRequest(v, t) /\ SameUsers(v, t) /\ SameCalls(v, t)
      /\ SameReport(v, t)
  <2>1. CASE t = WithPlace(v, "log")
    <3>1. /\ t \in HandlerStates
          /\ t.pc = "log" /\ t.status = v.status
          /\ (t.failed = v.failed) /\ t.cached = v.cached
          /\ SameRequest(v, t) /\ SameUsers(v, t) /\ SameCalls(v, t)
          /\ SameReport(v, t)
      BY <1>2, <1>3, <2>1, PlaceUpdate
    <3> QED BY <3>1
  <2>2. CASE t = WithEnd(v, "log", 200)
    <3>1. /\ t \in HandlerStates
          /\ t.pc = "log" /\ t.status = 200
          /\ (t.failed = v.failed) /\ t.cached = v.cached
          /\ SameRequest(v, t) /\ SameUsers(v, t) /\ SameCalls(v, t)
          /\ SameReport(v, t)
      BY <1>2, <1>3, <2>2, EndUpdate
    <3> QED BY <3>1
  <2> QED BY <2>1, <2>2
<1>5. Serving(t, c)
  BY <1>2, <1>4 DEF Local, Serving, SameRequest, SameUsers
<1>6. Authorised(t, c)
  BY <1>2, <1>4 DEF Local, Authorised, SameRequest, SameCalls
<1>7. Unanswered(t, c)
  BY <1>4 DEF Unanswered
<1>8. Answer(t, c)
  BY <1>2, <1>4 DEF Local, Answer, Unanswered
<1>9. Reported(t, c)
  BY <1>2, <1>4 DEF Local, Reported, SameRequest, SameReport, Merging, Uncounted
<1> QED BY <1>4, <1>5, <1>6, <1>7, <1>8, <1>9 DEF Local

\* The parts are asked for.
LEMMA WantLocal ==
  ASSUME NEW c \in Confs, NEW s, Local(s, c), s.kind \in Merging, s.pc = "call",
         NEW v, v = Begun(s, c), NEW n \in PartsWanted,
         NEW t, t = WithWant(v, n)
  PROVE  Local(t, c)
<1>1. s \in HandlerStates
  BY DEF Local
<1>2. /\ v \in HandlerStates
      /\ v.pc = s.pc /\ v.status = (IF c.streaming THEN 200 ELSE s.status)
      /\ (v.failed = s.failed) /\ v.cached = s.cached
      /\ SameRequest(s, v) /\ SameUsers(s, v) /\ SameCalls(s, v)
      /\ SameReport(s, v)
  BY <1>1, BegunState
<1>3. /\ t \in HandlerStates
      /\ t.pc = "parts" /\ t.want = n
      /\ t.sent = v.sent /\ t.parts = v.parts
      /\ t.status = v.status /\ (t.failed = v.failed) /\ t.cached = v.cached
      /\ SameRequest(v, t) /\ SameUsers(v, t) /\ SameReport(v, t)
  BY <1>2, WantUpdate
<1>4. Serving(t, c)
  BY <1>2, <1>3 DEF Local, Serving, SameRequest, SameUsers
<1>5. Authorised(t, c)
  BY <1>2, <1>3 DEF Local, Authorised, SameRequest, SameCalls
<1>6. Unanswered(t, c)
  BY <1>2, <1>3 DEF Local, Unanswered, SameRequest
<1>7. Answer(t, c)
  BY <1>2, <1>3 DEF Local, Answer, Unanswered
<1>8. Reported(t, c)
  BY <1>2, <1>3 DEF Local, Reported, SameReport
<1> QED BY <1>3, <1>4, <1>5, <1>6, <1>7, <1>8 DEF Local

LEMMA MergeBeginMoves ==
  ASSUME Before, NEW h \in Handlers, hs[h].kind \in Merging, NEW given,
         MergeBegin(h, given)
  PROVE  Moves(h)
<1> DEFINE s == hs[h]
           v == Begun(s, conf)
<1>1. /\ Local(s, conf) /\ conf \in Confs /\ s.pc = "call" /\ s.kind \in Merging
  BY DEF Before, HandlersInv, MergeBegin, At
<1>2. \/ Becomes(h, WithPlace(v, "log"))
      \/ Becomes(h, WithEnd(v, "log", 200))
      \/ \E n \in PartsWanted : Becomes(h, WithWant(v, n))
  BY
  DEF MergeBegin, Begun, WithStatus, WithPlace, WithEnd, WithWant, PartsWanted
<1> HIDE DEF s, v
<1>3. v = Begun(s, conf)
  BY DEF v
<1>4. Local(WithPlace(v, "log"), conf) /\ Local(WithEnd(v, "log", 200), conf)
  BY <1>1, <1>3, NothingMergedLocal
<1>5. \A n \in PartsWanted : Local(WithWant(v, n), conf)
  BY <1>1, <1>3, WantLocal
<1> QED BY <1>2, <1>4, <1>5, BecomesMoves

LEMMA PartWrittenMoves ==
  ASSUME Before, NEW h \in Handlers, hs[h].kind \in Merging, At(h, "parts"),
         hs[h].parts < hs[h].want, PartWritten(h, FALSE)
  PROVE  Moves(h)
<1> DEFINE s == hs[h]
           w == Written(s, 200)
<1>1. /\ Local(s, conf) /\ conf \in Confs /\ s.pc = "parts"
      /\ s.kind \in Merging
      /\ s.parts < s.want
  BY DEF Before, HandlersInv, At
<1>2. PICK failed \in BOOLEAN :
        /\ failed = (s.failed \/ FALSE)
        /\ Becomes(h, WithPart(s, s.parts + 1, failed, w))
  BY DEF PartWritten, WithPart
<1>3. ~failed
  BY <1>1, <1>2 DEF Local, Unanswered
<1> HIDE DEF s
<1>4. Local(WithPart(s, s.parts + 1, failed, w), conf)
  BY <1>1, <1>3, PartLocal
<1> QED BY <1>2, <1>4, BecomesMoves

LEMMA MergePartMoves ==
  ASSUME Before, NEW h \in Handlers, hs[h].kind \in Merging, NEW given,
         MergePart(h, given)
  PROVE  Moves(h)
<1>1. /\ At(h, "parts") /\ hs[h].parts < hs[h].want
      /\ hs[h].pc \in {"identify", "call", "parts"} /\ hs[h].kind \notin Uncounted
  BY DEF MergePart, At, Merging, Uncounted
<1>2. 200 \in Statuses /\ 400 \in Statuses /\ 500 \in Statuses
  BY DEF Statuses
<1>3. CASE Answered(h, 400, FALSE)
  BY <1>1, <1>2, <1>3, PlainAnswerMoves
<1>4. ASSUME NEW x,
             IF HasError(x) THEN Answered(h, 500, TRUE)
             ELSE \/ Answered(h, 500, FALSE)
                  \/ Answered(h, 200, FALSE)
                  \/ PartWritten(h, FALSE)
      PROVE  Moves(h)
  <2>1. CASE HasError(x)
    <3>1. PICK failed \in BOOLEAN : Answered(h, 500, failed)
      BY <1>4, <2>1
    <3> QED BY <1>1, <1>2, <3>1, AnsweredMoves
  <2>2. CASE ~HasError(x)
    <3>1. CASE Answered(h, 500, FALSE) \/ Answered(h, 200, FALSE)
      BY <1>1, <1>2, <3>1, PlainAnswerMoves
    <3>2. CASE PartWritten(h, FALSE)
      BY <1>1, <3>2, PartWrittenMoves
    <3> QED BY <1>4, <2>2, <3>1, <3>2
  <2> QED BY <2>1, <2>2
<1>5. \/ Answered(h, 400, FALSE)
      \/ \E x : IF HasError(x) THEN Answered(h, 500, TRUE)
                ELSE \/ Answered(h, 500, FALSE)
                     \/ Answered(h, 200, FALSE)
                     \/ PartWritten(h, FALSE)
  BY DEF MergePart
<1> QED BY <1>3, <1>4, <1>5

LEMMA MergeStoreMoves ==
  ASSUME Before, NEW h \in Handlers, hs[h].kind \in Merging, MergeStore(h)
  PROVE  Moves(h)
<1> DEFINE s == hs[h]
           w == Written(s, 200)
<1>1. /\ Local(s, conf) /\ conf \in Confs /\ s.pc = "parts"
      /\ s.kind \in Merging
      /\ s.parts = s.want
  BY DEF Before, HandlersInv, At, MergeStore
<1>2. Becomes(h, WithStored(s, s.parts, w))
  BY DEF MergeStore, WithStored
<1> HIDE DEF s
<1>3. Local(WithStored(s, s.parts, w), conf)
  BY <1>1, StoreLocal
<1> QED BY <1>2, <1>3, BecomesMoves

LEMMA MergeMoves ==
  ASSUME Before, NEW h \in Handlers, NEW kind \in Merging, NEW given,
         Merge(h, kind, given)
  PROVE  Moves(h)
<1>1. kind \notin Uncounted
  BY DEF Merging, Uncounted
<1>2. CASE Start(h, kind) \/ Unread(h, kind) \/ BadBody(h, kind)
  BY <1>1, <1>2, StartMoves, UnreadMoves, BadBodyMoves
<1>3. CASE Serves(h, kind)
           /\ (\/ AuthorizeRequestOrRespondErr(h) \/ Identify(h) \/ LogRequest(h))
  BY <1>1, <1>3, AuthorizeMoves, IdentifyMoves, LogMoves DEF Serves
<1>4. CASE Serves(h, kind)
           /\ (\/ MergeBegin(h, given) \/ MergePart(h, given) \/ MergeStore(h))
  BY <1>4, MergeBeginMoves, MergePartMoves, MergeStoreMoves DEF Serves
<1> QED BY <1>2, <1>3, <1>4 DEF Merge

-----------------------------------------------------------------------------
(* All of them together.                                                    *)

LEMMA HandleMoves ==
  ASSUME Before, NEW h \in Handlers, Handle(h)
  PROVE  Moves(h)
<1>1. ASSUME NEW kind \in HandlerKinds \ Uncounted, Serves(h, kind),
             AuthorizeRequestOrRespondErr(h) \/ Identify(h) \/ LogRequest(h)
      PROVE  Moves(h)
  BY <1>1, AuthorizeMoves, IdentifyMoves, LogMoves DEF Serves
<1>2. {"AnyPath", "Speeches", "TimeDistAltWord", "QuerySubmitAndView"}
        \subseteq HandlerKinds \ Uncounted
  BY DEF HandlerKinds, Uncounted
<1>3. CASE AnyPath(h)
  <2>1. Serves(h, "AnyPath") /\ ProxyCall(h) => Moves(h)
    BY <1>2, ProxyCallMoves DEF Serves
  <2> QED BY <1>1, <1>2, <1>3, <2>1, StartMoves DEF AnyPath
<1>4. CASE Speeches(h)
  <2>1. Serves(h, "Speeches") /\ (Concordance(h) \/ TokenContext(h)) => Moves(h)
    BY <1>2, ConcordanceMoves, LastCallMoves DEF Serves
  <2> QED BY <1>1, <1>2, <1>4, <2>1, StartMoves DEF Speeches
<1>5. CASE TimeDistAltWord(h)
  <2>1. Serves(h, "TimeDistAltWord") /\ (LemmaFreqs(h) \/ TimeDist(h)) => Moves(h)
    BY <1>2, FirstCallMoves, LastCallMoves DEF Serves
  <2> QED BY <1>1, <1>2, <1>5, <2>1, StartMoves DEF TimeDistAltWord
<1>6. CASE QuerySubmitAndView(h)
  <2>1. Serves(h, "QuerySubmitAndView") /\ (QuerySubmit(h) \/ View(h)) => Moves(h)
    BY <1>2, FirstCallMoves, ViewMoves DEF Serves
  <2>2. BadBody(h, "QuerySubmitAndView") => Moves(h)
    BY <1>2, BadBodyMoves
  <2> QED BY <1>1, <1>2, <1>6, <2>1, <2>2, StartMoves DEF QuerySubmitAndView
<1>7. CASE MergeFreqs(h) \/ CollocationsTT(h)
  <2>1. "MergeFreqs" \in Merging /\ "CollocationsTT" \in Merging
    BY DEF Merging
  <2>2. PICK given : \/ Merge(h, "MergeFreqs", given)
                     \/ Merge(h, "CollocationsTT", given)
    BY <1>7 DEF MergeFreqs, CollocationsTT
  <2> QED BY <2>1, <2>2, MergeMoves
<1>8. CASE Return(h)
  BY <1>8, IdleLocal, BecomesMoves DEF Return
<1> QED
  BY <1>3, <1>4, <1>5, <1>6, <1>7, <1>8, PreflightMoves, LoginMoves, PublicMoves
  DEF Handle

LEMMA MovesKeep ==
  ASSUME Before, NEW h \in Handlers, Moves(h)
  PROVE  Before'
<1>1. PICK t : Local(t, conf) /\ hs' = [hs EXCEPT ![h] = t]
  BY DEF Moves
<1>2. t \in HandlerStates
  BY <1>1 DEF Local
<1>3. conf' = conf /\ live' = live /\ queued' \in 0..AlarmCap
  BY DEF Moves
<1>4. hs' \in [Handlers -> HandlerStates]
  BY <1>1, <1>2 DEF Before, HandlersInv
<1>5. ASSUME NEW i \in Handlers PROVE Local(hs'[i], conf)
  <2>1. CASE i = h
    BY <1>1, <2>1 DEF Before, HandlersInv
  <2>2. CASE i # h
    BY <1>1, <2>2 DEF Before, HandlersInv
  <2> QED BY <2>1, <2>2
<1>6. \A i \in Handlers : Local(hs[i], conf)'
  BY <1>3, <1>5
<1> QED BY <1>3, <1>4, <1>6 DEF Before, HandlersInv

\* A guard which is not limited never asks its limiter.
LEMMA UnlimitedUnasked ==
  ASSUME NEW c \in AnyConf, ~Limited(c), NEW r, NEW lives, NEW b,
         NEW e \in EvaluateRequest(c, r, None, lives, b)
  PROVE  ~e.asked
<1>1. c.guard = "null" \/ (c.guard = "cncauth" /\ ~c.db)
  BY DEF Limited
<1>2. CASE c.guard = "null"
  BY <1>2 DEF EvaluateRequest, NullEvaluate, Evaluation
<1>3. CASE c.guard = "cncauth" /\ ~c.db
  <2>1. e \in CNCAuthEvaluate(c, r, None, lives, b)
    BY <1>3 DEF EvaluateRequest
  <2>2. \/ e = Evaluation(401, InvalidUserID, TRUE, TRUE, FALSE)
        \/ \E s, needs : \E f \in FindUserBySession(c, s, lives) :
             e = CNCAuthFound(c, f, needs, b)
    BY <2>1 DEF CNCAuthEvaluate
  <2>3. ASSUME NEW s, NEW needs, NEW f \in FindUserBySession(c, s, lives),
               e = CNCAuthFound(c, f, needs, b)
        PROVE  ~e.asked
    <3>1. f = Found(InvalidUserID)
      BY <1>3, <2>3 DEF FindUserBySession, NilUserFinder
    <3>2. ~f.panic /\ ~f.err /\ ~IsValid(f.user)
      BY <3>1 DEF Found, IsValid, InvalidUserID
    <3> QED BY <1>3, <2>3, <3>2 DEF CNCAuthFound, Evaluation
  <2>4. CASE e = Evaluation(401, InvalidUserID, TRUE, TRUE, FALSE)
    BY <2>4 DEF Evaluation
  <2> QED BY <2>2, <2>3, <2>4
<1> QED BY <1>1, <1>2, <1>3

LEMMA MildKeepsAccount ==
  ASSUME AccountInv, Mild
  PROVE  AccountInv'
<1>1. LimiterInv'
  BY MildKeepsLimiter DEF AccountInv
<1>2. conf' = conf /\ conf \in AnyConf
  BY GatewayAssumption DEF Mild, AccountInv, LimiterInv
<1>3. ASSUME ~Limited(conf)
      PROVE  /\ buckets' \in [IPs -> {Fresh}]
             /\ budget' \in [IPs -> OverBudget..Burst]
  <2>1. buckets \in [IPs -> {Fresh}] /\ budget \in [IPs -> OverBudget..Burst]
    BY <1>3 DEF AccountInv
  <2>2. CASE Untouched
    BY <2>1, <2>2 DEF Untouched
  <2>3. CASE Evaluated
    <3>1. PICK ip, r :
            \E e \in EvaluateRequest(conf, r, None, live, buckets[ip]) :
              Counts(ip, e)
      BY <2>3 DEF Evaluated
    <3>2. PICK e \in EvaluateRequest(conf, r, None, live, buckets[ip]) :
            Counts(ip, e)
      BY <3>1
    <3>3. ~e.asked
      BY <1>2, <1>3, <3>2, UnlimitedUnasked
    <3>4. buckets' = [buckets EXCEPT ![ip] = buckets[ip]]
      BY <3>2, <3>3 DEF Counts, Spent
    <3>5. buckets' \in [IPs -> {Fresh}]
      BY <2>1, <3>4
    <3>6. budget' \in [IPs -> OverBudget..Burst]
      <4> DEFINE n == IF conf.limits /\ e.status = 200 /\ budget[ip] > OverBudget
                      THEN budget[ip] - 1 ELSE budget[ip]
      <4>1. budget' = [budget EXCEPT ![ip] = n]
        BY <3>2 DEF Counts
      <4>2. ip \in IPs => n \in OverBudget..Burst
        BY <2>1, BurstPositive DEF OverBudget
      <4> HIDE DEF n
      <4> QED BY <2>1, <4>1, <4>2
    <3> QED BY <3>5, <3>6
  <2> QED BY <2>2, <2>3 DEF Mild
<1> QED BY <1>1, <1>2, <1>3 DEF AccountInv

LEMMA RefillKeepsAccount ==
  ASSUME AccountInv, NEW ip \in IPs, Refill(ip)
  PROVE  AccountInv'
<1>1. LimiterInv'
  BY RefillKeepsLimiter DEF AccountInv
<1>2. Limited(conf)
  BY BurstPositive DEF AccountInv, Refill, Fresh
<1>3. conf' = conf
  BY DEF Refill
<1> QED BY <1>1, <1>2, <1>3 DEF AccountInv

\* The inductive invariant.
GatewayInv == AccountInv /\ Before

LEMMA GatewayInit == Init => GatewayInv
<1> SUFFICES ASSUME Init PROVE GatewayInv
  OBVIOUS
<1>1. LimiterInv
  BY BurstPositive DEF Init, LimiterInv, Level, Fresh
<1>2. buckets \in [IPs -> {Fresh}] /\ budget \in [IPs -> OverBudget..Burst]
  BY BurstPositive DEF Init, OverBudget
<1>3. live \subseteq Sessions /\ queued \in 0..AlarmCap /\ conf \in Confs
  BY GatewayAssumption DEF Init
<1>4. HandlersInv
  BY IdleState, IdleLocal DEF Init, HandlersInv
<1> QED BY <1>1, <1>2, <1>3, <1>4 DEF GatewayInv, AccountInv, Before

LEMMA GatewayStep == GatewayInv /\ [Next]_vars => GatewayInv'
<1> SUFFICES ASSUME GatewayInv, [Next]_vars PROVE GatewayInv'
  OBVIOUS
<1> USE DEF GatewayInv
<1>1. CASE \E h \in Handlers : Handle(h)
  BY <1>1, HandleMild, MildKeepsAccount, HandleMoves, MovesKeep
<1>2. CASE \E s \in Sessions : Expire(s)
  <2>1. Mild
    BY <1>2 DEF Expire, Mild, Untouched
  <2>2. Before'
    BY <1>2 DEF Expire, Before, HandlersInv
  <2> QED BY <2>1, <2>2, MildKeepsAccount
<1>3. CASE \E ip \in IPs : Refill(ip)
  <2>1. Before'
    BY <1>3 DEF Refill, Before, HandlersInv
  <2> QED BY <1>3, <2>1, RefillKeepsAccount
<1>4. CASE Drain
  <2>1. Mild
    BY <1>4 DEF Drain, Mild, Untouched
  <2>2. Before'
    BY <1>4, GatewayAssumption DEF Drain, Before, HandlersInv
  <2> QED BY <2>1, <2>2, MildKeepsAccount
<1>5. CASE UNCHANGED vars
  <2>1. Mild
    BY <1>5 DEF vars, Mild, Untouched
  <2>2. Before'
    BY <1>5 DEF vars, Before, HandlersInv
  <2> QED BY <2>1, <2>2, MildKeepsAccount
<1> QED BY <1>1, <1>2, <1>3, <1>4, <1>5 DEF Next

\* The account of the limiters and what is known of every handler at its place
\* hold throughout: the invariant the theorems below rest on.
THEOREM GatewayInvariant == Spec => []GatewayInv
BY GatewayInit, GatewayStep, PTL DEF Spec

\* Every variable keeps its type: the channel of the alarm its bound, the
\* limiters their burst, and a response one of the statuses handlers write.
THEOREM TypeCorrect == Spec => []TypeOK
<1>1. GatewayInv => TypeOK
  <2> SUFFICES ASSUME GatewayInv PROVE TypeOK
    OBVIOUS
  <2>1. buckets \in [IPs -> Fresh..Burst] /\ budget \in [IPs -> OverBudget..Burst]
    <3>1. CASE Limited(conf)
      <4>1. buckets \in [IPs -> Fresh..Burst] /\ budget \in [IPs -> Int]
            /\ \A ip \in IPs : budget[ip] \in 0..Burst
        BY <3>1, LevelType DEF GatewayInv, AccountInv, LimiterInv
      <4>2. 0..Burst \subseteq OverBudget..Burst
        BY BurstPositive DEF OverBudget
      <4> QED BY <4>1, <4>2
    <3>2. CASE ~Limited(conf)
      <4>1. Fresh \in Fresh..Burst
        BY BurstPositive DEF Fresh
      <4> QED BY <3>2, <4>1 DEF GatewayInv, AccountInv
    <3> QED BY <3>1, <3>2
  <2> QED BY <2>1 DEF GatewayInv, Before, HandlersInv, TypeOK
<1> QED BY <1>1, GatewayInvariant, PTL

\* The backend is given the session the cncauth guard authorised the request
\* by, never the other cookie (cncauth.go EvaluateRequest and common.go
\* ProcessReqHeaders).
THEOREM SentIsAuthorised == Spec => []SessionSentIsAuthorised
<1>1. GatewayInv => SessionSentIsAuthorised
  BY DEF GatewayInv, Before, HandlersInv, Local, Authorised,
         SessionSentIsAuthorised
<1> QED BY <1>1, GatewayInvariant, PTL

\* A request to a limited service is reported to the alarm once, however it
\* ended, and charged to a user it presented or to nobody (LogRequest).
THEOREM ChargedOnce == Spec => []ChargedOnceToPresented
<1>1. GatewayInv => ChargedOnceToPresented
  BY DEF GatewayInv, Before, HandlersInv, Local, Reported, At, Nobody,
         ChargedOnceToPresented
<1> QED BY <1>1, GatewayInvariant, PTL

\* A merged answer is stored only whole (ToCache in MergeFreqs and
\* CollocationsTT).
THEOREM CachedWhole == Spec => []CachedMergeIsWhole
<1>1. GatewayInv => CachedMergeIsWhole
  BY DEF GatewayInv, Before, HandlersInv, Local, Answer, CachedMergeIsWhole
<1> QED BY <1>1, GatewayInvariant, PTL

\* A failed call of a backend shows in the status, unless a part of a merged
\* answer or the first event of a stream is there already.
THEOREM FailuresTold == Spec => []FailureIsTold
<1>1. GatewayInv => FailureIsTold
  BY DEF GatewayInv, Before, HandlersInv, Local, Answer, At, FailureIsTold
<1> QED BY <1>1, GatewayInvariant, PTL
=============================================================================
