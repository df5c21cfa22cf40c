------------------------------ MODULE Gateway ------------------------------
(***************************************************************************)
(* How a request goes through APIGuard: a handler of one of the services   *)
(* has it evaluated by the guard, finds out who is behind it, rewrites its *)
(* headers, asks the cache and the backend, answers and reports it to the  *)
(* alarm.  Handlers run at the same time; they share the rate limiters,    *)
(* the sessions and the channel of the alarm, which is bounded.  Sessions  *)
(* expire and limiters refill meanwhile.                                   *)
(*                                                                         *)
(* Every route starts with the path of its service, so the tests of the    *)
(* path in the handlers never fail and are left out.                       *)
(***************************************************************************)
EXTENDS Guards, Services, BackendCalls

CONSTANTS
  Handlers,         \* handlers which may run at a time
  IPs,              \* addresses of clients
  Requests,         \* Requests[h]: what clients may send to which handlers
  Confs,            \* configurations of services
  ReadTimeoutSecs,  \* serverReadTimeoutSecs
  AlarmCap,         \* capacity of the alarm's channel
  MaxParts          \* bound: parts of a merged answer

AnyRequest ==
  [ip : IPs, front : Cookies, back : Cookies, token : Tokens \cup {None, Blank},
   openapi : BOOLEAN]

\* session: SessionValType; db: a CNC database is configured; limits: Limits
\* are; cookies: FrontendSessionCookieName is empty, the CNC auth cookie or
\* another one; key: UseHeaderXApiKey; header: TrueUserIDHeader is set;
\* simplified: UseSimplifiedConcReq; streaming: IsStreamingMode.
AnyConf ==
  [service : DOMAIN ServiceInitializers,
   guard : {"cncauth", "token", "dflt", "null"},
   session : {"cnc", "simple", "none"}, db : BOOLEAN, limits : BOOLEAN,
   cookies : {"none", "same", "own"}, key : BOOLEAN, header : BOOLEAN,
   simplified : BOOLEAN, streaming : BOOLEAN]

\* The guard of KonText depends on the type of its sessions.
ASSUME GatewayAssumption ==
  /\ Requests \in [Handlers -> SUBSET (HandlerKinds \X AnyRequest)]
  /\ Confs \subseteq AnyConf
  /\ \A c \in Confs :
       /\ c.guard \in ServiceInitializers[c.service].guards
       /\ c.service = "kontext" =>
            (c.guard = "null") = (c.session = "none") /\ c.session # "simple"
  /\ {ReadTimeoutSecs, AlarmCap} \subseteq Nat \ {0}
  /\ MaxParts \in Nat

VARIABLES
  conf,     \* the service and how it is configured
  live,     \* sessions in the CNC database
  buckets,  \* rateLimiters of the guard
  budget,   \* requests of an address which may still be let through
  queued,   \* requests in the channel of the alarm
  hs        \* hs[h]: the request h handles and how far it is

vars == <<conf, live, buckets, budget, queued, hs>>

\* sent: what the backend is given; parts of want: backend calls done; failed:
\* a backend call failed; cached: parts of the answer stored; early: returned
\* before LogRequest was deferred; charged: the user reported to the alarm.
Idle ==
  [pc |-> "idle", kind |-> None, r |-> None, client |-> ZeroUserID,
   human |-> ZeroUserID, status |-> 0, sent |-> None, parts |-> 0, want |-> 0,
   failed |-> FALSE, cached |-> None, early |-> FALSE, posts |-> 0,
   charged |-> None]

Init ==
  /\ conf \in Confs
  /\ live = IF conf.db THEN Sessions ELSE {}
  /\ buckets = [ip \in IPs |-> Fresh]
  /\ budget = [ip \in IPs |-> Burst]
  /\ queued = 0
  /\ hs = [h \in Handlers |-> Idle]

-----------------------------------------------------------------------------
(* Steps every handler is made of. *)

shared == <<live, buckets, budget, queued>>

At(h, place) == hs[h].pc = place
Serves(h, kind) == hs[h].kind = kind

\* What h knows becomes s; everything else stays.
Becomes(h, s) == hs' = [hs EXCEPT ![h] = s] /\ UNCHANGED <<conf, shared>>

\* The status of a response once it is written stays; gin ignores the status 0
\* and answers 200.
Written(s, code) ==
  CASE s.status # 0 -> s.status
    [] s.status = 0 /\ code = 0 -> 200
    [] OTHER -> code

\* h answers and is about to return.
Answered(h, code, failed) ==
  Becomes(h, [hs[h] EXCEPT !.pc = "log", !.status = Written(hs[h], code),
                           !.failed = failed])

\* The requests h may be given for a handler of the service.
RequestsTo(h, kind) ==
  {r \in {q[2] : q \in Requests[h]} :
     /\ <<kind, r>> \in Requests[h]
     /\ kind \in ServiceInitializers[conf.service].kinds
     /\ conf.cookies = "none" => r.front = None
     /\ conf.cookies = "same" => r.front = r.back
     /\ r.openapi => kind = "AnyPath" /\ conf.guard = "token"}

Receive(h, kind, s) ==
  /\ hs[h] = Idle
  /\ \E r \in RequestsTo(h, kind) : Becomes(h, [s EXCEPT !.kind = kind, !.r = r])

Start(h, kind) == Receive(h, kind, [Idle EXCEPT !.pc = "evaluate"])

\* The body cannot be parsed.
BadBody(h, kind) == Receive(h, kind, [Idle EXCEPT !.pc = "log", !.status = 400])

\* NewReReader fails: nothing is deferred yet.
Unread(h, kind) ==
  Receive(h, kind, [Idle EXCEPT !.pc = "done", !.status = 400, !.early = TRUE])

\* Bound: how far below zero a budget is followed.
OverBudget == -1

Refused(e) == e.panic \/ e.err \/ ForbidsAccess(e)

\* The guard evaluates the request of h, which becomes Then(e).
Evaluate(h, Then(_)) ==
  LET ip == hs[h].r.ip
  IN /\ At(h, "evaluate")
     /\ \E e \in EvaluateRequest(conf, hs[h].r, None, live, buckets[ip]) :
          /\ hs' = [hs EXCEPT ![h] = Then(e)]
          /\ buckets' = [buckets EXCEPT ![ip] = Spent(@, e)]
          /\ budget' = [budget EXCEPT ![ip] =
                          IF conf.limits /\ e.status = 200 /\ @ > OverBudget
                          THEN @ - 1 ELSE @]
     /\ UNCHANGED <<conf, live, queued>>

AuthorizeRequestOrRespondErr(h) ==
  Evaluate(h, LAMBDA e :
    IF Refused(e) THEN [hs[h] EXCEPT !.pc = "log", !.status = e.status]
    ELSE [hs[h] EXCEPT !.pc = "identify", !.client = e.client])

ReqUsesMappedSession(r) == conf.cookies # "none" /\ r.front # None

\* Mutant of MapFrontendCookieToBackend: a backend cookie is left as it is.
MapFrontendCookieIfNoBackend(r) ==
  IF r.back # None THEN r.back ELSE r.front

\* The backend cookie gets the value of the frontend one, if need be by
\* renaming the latter.
MapFrontendCookieToBackend(r) == r.front

\* What the backend is given: the session in X-Api-Key, the one in its cookie,
\* the user in X-Api-User and the one in TrueUserIDHeader.  With X-Api-Key the
\* cookie is not mapped and goes along as it came.  The handlers pass a userID
\* they never assign.
ProcessReqHeaders(r, humanID, userID) ==
  [key    |-> CASE ~conf.key -> None
                [] conf.key /\ ReqUsesMappedSession(r) -> r.front
                [] OTHER -> r.back,
   cookie |-> IF ~conf.key /\ ReqUsesMappedSession(r)
              THEN MapFrontendCookieToBackend(r) ELSE r.back,
   user   |-> IF conf.cookies # "same" THEN humanID ELSE userID,
   trueID |-> IF conf.header THEN userID ELSE None]

\* No guard delays a client.
CalcDelay == 0

Overloaded == CalcDelay >= ReadTimeoutSecs

Identify(h) ==
  /\ At(h, "identify")
  /\ \E f \in DetermineTrueUserID(conf, hs[h].r, live) :
       LET humanID == IF f.user = InvalidUserID THEN hs[h].client ELSE f.user
       IN CASE f.panic -> Answered(h, 500, FALSE)
            [] ~f.panic /\ f.err ->
                 Becomes(h, [hs[h] EXCEPT !.pc = "log", !.status = 500,
                                          !.human = InvalidUserID])
            [] ~f.panic /\ ~f.err /\ Overloaded ->
                 Becomes(h, [hs[h] EXCEPT !.pc = "log", !.status = 503,
                                          !.human = humanID])
            [] OTHER ->
                 Becomes(h, [hs[h] EXCEPT !.pc = "call", !.human = humanID,
                   !.client = ZeroUserID,                \* no longer needed
                   !.sent = ProcessReqHeaders(hs[h].r, humanID, ZeroUserID)])

\* Mutant of LogRequest: a request the guard refused is not reported.
LogAnswered(h) ==
  /\ At(h, "log")
  /\ IF conf.limits /\ hs[h].status \notin {401, 429}
     THEN /\ queued < AlarmCap
          /\ queued' = queued + 1
          /\ hs' = [hs EXCEPT ![h].pc = "done", ![h].posts = @ + 1,
                              ![h].charged = hs[h].human]
     ELSE hs' = [hs EXCEPT ![h].pc = "done"] /\ UNCHANGED queued
  /\ UNCHANGED <<conf, live, buckets, budget>>

\* Mutant of LogRequest: the channel of the alarm is not bounded.
LogUnbounded(h) ==
  /\ At(h, "log")
  /\ IF conf.limits /\ ServiceInitializers[conf.service].alarm
     THEN /\ queued' = queued + 1
          /\ hs' = [hs EXCEPT ![h].pc = "done", ![h].posts = @ + 1,
                              ![h].charged = hs[h].human]
     ELSE hs' = [hs EXCEPT ![h].pc = "done"] /\ UNCHANGED queued
  /\ UNCHANGED <<conf, live, buckets, budget>>

\* Deferred, so that it runs after a panic too.
LogRequest(h) ==
  /\ At(h, "log")
  /\ IF conf.limits /\ ServiceInitializers[conf.service].alarm
     THEN /\ queued < AlarmCap
          /\ queued' = queued + 1
          /\ hs' = [hs EXCEPT ![h].pc = "done", ![h].posts = @ + 1,
                              ![h].charged = hs[h].human]
     ELSE hs' = [hs EXCEPT ![h].pc = "done"] /\ UNCHANGED queued
  /\ UNCHANGED <<conf, live, buckets, budget>>

\* The server is done with the request.
Return(h) == At(h, "done") /\ Becomes(h, Idle)

-----------------------------------------------------------------------------
(* Calls of a backend. *)

\* h goes on with its next call.
NextCall(h) == Becomes(h, [hs[h] EXCEPT !.parts = @ + 1])
Call(h, n) == At(h, "call") /\ hs[h].parts = n

-----------------------------------------------------------------------------
(* The handlers. *)

ProxyCall(h) ==
  /\ Call(h, 0)
  /\ \E x \in HandleRequest(TRUE) :
       Answered(h, IF HasError(x) THEN 500 ELSE GetStatusCode(x), x = "fail")

AnyPath(h) ==
  \/ Start(h, "AnyPath")
  \/ /\ Serves(h, "AnyPath")
     /\ \/ AuthorizeRequestOrRespondErr(h)
        \/ Identify(h)
        \/ ProxyCall(h)
        \/ LogRequest(h)

Preflight(h) ==
  \/ Start(h, "Preflight")
  \/ /\ Serves(h, "Preflight")
     /\ Evaluate(h, LAMBDA e :
          [hs[h] EXCEPT !.pc = "done",
                        !.status = IF Refused(e) THEN e.status ELSE 204])

\* The portal (external) answers with a session, refuses the token or fails;
\* when it cannot be reached, or answers with an empty list, LoginWithToken
\* panics.  There is no timeout.
LoginWithToken == {"session", "invalid", "failed", "panic"}

\* Login: the cookies of the portal are passed on, the auth one renamed if
\* there is a name for it; the user of the session is only logged.
Login(h) ==
  \/ Start(h, "Login")
  \/ /\ Serves(h, "Login") /\ At(h, "evaluate")
     /\ \E x \in LoginWithToken :
          Becomes(h, [hs[h] EXCEPT !.pc = "done",
            !.status = CASE x = "session" -> 200
                         [] x = "invalid" -> 401
                         [] x \in {"failed", "panic"} -> 500])

\* The sentence: lines of a concordance are asked for, then the context of one
\* of them.  The status of an answer from the cache is 0.
Concordance(h) ==
  /\ Call(h, 0)
  /\ \/ Answered(h, 400, FALSE)                  \* leftCtx, rightCtx
     \/ \E x \in HandleRequest(TRUE) :
          IF HasError(x) THEN Answered(h, GetStatusCode(x), x = "fail")
          ELSE \/ Answered(h, 500, FALSE)        \* not JSON, no position
               \/ Answered(h, GetStatusCode(x), FALSE)    \* its error
               \/ Answered(h, 404, FALSE)        \* no lines
               \/ NextCall(h)

TokenContext(h) ==
  /\ Call(h, 1)
  /\ \E x \in HandleRequest(TRUE) : Answered(h, GetStatusCode(x), x = "fail")

Speeches(h) ==
  \/ Start(h, "Speeches")
  \/ /\ Serves(h, "Speeches")
     /\ \/ AuthorizeRequestOrRespondErr(h)
        \/ Identify(h)
        \/ Concordance(h)
        \/ TokenContext(h)
        \/ LogRequest(h)

\* Frequencies of lemmas: the error of the response is not looked at, but then
\* its body is empty.  Without a frequency the index of the first one panics.
LemmaFreqs(h) ==
  /\ Call(h, 0)
  /\ \E x \in HandleRequest(TRUE) :
       IF HasError(x) THEN Answered(h, 500, x = "fail")
       ELSE \/ Answered(h, 500, FALSE)           \* not JSON, no frequencies
            \/ Answered(h, 400, FALSE)           \* flimit
            \/ NextCall(h)

TimeDist(h) ==
  /\ Call(h, 1)
  /\ \E x \in MakeStreamRequest : Answered(h, GetStatusCode(x), x = "fail")

TimeDistAltWord(h) ==
  \/ Start(h, "TimeDistAltWord")
  \/ /\ Serves(h, "TimeDistAltWord")
     /\ \/ AuthorizeRequestOrRespondErr(h)
        \/ Identify(h)
        \/ LemmaFreqs(h)
        \/ TimeDist(h)
        \/ LogRequest(h)

\* A request which is not a POST panics in the first call.
QuerySubmit(h) ==
  /\ Call(h, 0)
  /\ \/ Answered(h, 500, FALSE)
     \/ \E x \in MakeCacheablePOSTRequest :
          IF HasError(x) THEN Answered(h, 500, x = "fail")
          ELSE \/ Answered(h, 500, FALSE)        \* not JSON
               \/ NextCall(h)

\* Mutant of View: the status of the backend is not passed on.
ViewAnyway(h) ==
  /\ Call(h, 1)
  /\ \E x \in HandleRequest(TRUE) : Answered(h, 200, x = "fail")

\* The headers and the status are written before the body is exported, which
\* fails if nothing was called.
View(h) ==
  /\ Call(h, 1)
  /\ \E x \in HandleRequest(TRUE) :
       Answered(h, IF x = "cacheErr" THEN 500 ELSE GetStatusCode(x), x = "fail")

\* Otherwise a submit is handled by AnyPath.
QuerySubmitAndView(h) ==
  \/ /\ conf.simplified \/ conf.streaming
     /\ \/ Start(h, "QuerySubmitAndView")
        \/ BadBody(h, "QuerySubmitAndView")
  \/ /\ Serves(h, "QuerySubmitAndView")
     /\ \/ AuthorizeRequestOrRespondErr(h)
        \/ Identify(h)
        \/ QuerySubmit(h)
        \/ View(h)
        \/ LogRequest(h)

\* Merging handlers: in the streaming mode an empty event is written at once.
\* `given' tells whether the request gives the ids of the tile and the URLs of
\* the parts.
MergeBegin(h, given) ==
  LET s == IF conf.streaming THEN [hs[h] EXCEPT !.status = 200] ELSE hs[h]
  IN /\ At(h, "call")
     /\ \/ /\ given /\ conf.streaming                      \* no ids
           /\ Becomes(h, [s EXCEPT !.pc = "log"])
        \/ Becomes(h, [s EXCEPT !.pc = "log", !.status = 200])      \* a hit
        \/ \E n \in 0..MaxParts :
             Becomes(h, [s EXCEPT !.pc = "parts", !.want = n])

\* The next part is there and all of them are written.
PartWritten(h, failed) ==
  Becomes(h, [hs[h] EXCEPT !.parts = @ + 1, !.failed = @ \/ failed,
                           !.status = Written(hs[h], 200)])

\* Mutant of MergePart: a call which fails does not end the handler.
MergePartContinues(h, given) ==
  /\ At(h, "parts") /\ hs[h].parts < hs[h].want
  /\ \E x \in HandleRequest(FALSE) : PartWritten(h, HasError(x))

\* A part: its URL is wrong, the call fails, the answer is not JSON, or it is
\* (an error, maybe), if the client is still there.
MergePart(h, given) ==
  /\ At(h, "parts") /\ hs[h].parts < hs[h].want
  /\ \/ given /\ Answered(h, 400, FALSE)
     \/ \E x \in HandleRequest(FALSE) :
          IF HasError(x) THEN Answered(h, 500, TRUE)
          ELSE \/ Answered(h, 500, FALSE)
               \/ Answered(h, 200, FALSE)
               \/ PartWritten(h, FALSE)

MergeStore(h) ==
  /\ At(h, "parts") /\ hs[h].parts = hs[h].want
  /\ Becomes(h, [hs[h] EXCEPT !.pc = "log", !.cached = hs[h].parts,
                              !.status = Written(hs[h], 200)])

Merge(h, kind, given) ==
  \/ Start(h, kind)
  \/ Unread(h, kind)
  \/ BadBody(h, kind)
  \/ /\ Serves(h, kind)
     /\ \/ AuthorizeRequestOrRespondErr(h)
        \/ Identify(h)
        \/ MergeBegin(h, given)
        \/ MergePart(h, given)
        \/ MergeStore(h)
        \/ LogRequest(h)

MergeFreqs(h) == Merge(h, "MergeFreqs", TRUE)

CollocationsTT(h) == Merge(h, "CollocationsTT", FALSE)

\* determineTrueUserID of the public proxy, whose sessions are those of CNC.
PublicTrueUser(r) ==
  LET c == [conf EXCEPT !.session = "cnc"]
  IN IF r.back = None THEN {Found(InvalidUserID)}
     ELSE FindUserBySession(c, UpdatedFrom(c, r.back), live)

\* A failure to find the user is ignored.
PublicStart(h) ==
  /\ hs[h] = Idle
  /\ \E r \in RequestsTo(h, "PublicAnyPath") :
       \E f \in IF conf.header THEN PublicTrueUser(r) ELSE {Found(ZeroUserID)} :
         Becomes(h, [Idle EXCEPT !.pc = "count", !.kind = "PublicAnyPath",
                                 !.r = r, !.human = f.user])

\* A client is sent over a channel without a buffer before its request is
\* evaluated: somebody has to run the guard.
CountClient(h) ==
  /\ At(h, "count")
  /\ ServiceInitializers[conf.service].runs
  /\ Becomes(h, [hs[h] EXCEPT !.pc = "evaluate"])

PublicCall(h) ==
  /\ At(h, "call")
  /\ \E x \in MakeStreamRequest :
       \E code \in Interceptor(conf.service, GetStatusCode(x)) :
         Becomes(h, [hs[h] EXCEPT !.pc = "done", !.failed = x = "fail",
           !.status = Written(hs[h], code),
           !.sent = [key |-> None, cookie |-> hs[h].r.back, user |-> None,
                     trueID |-> IF conf.header /\ IsValid(hs[h].human)
                                THEN hs[h].human ELSE None]])

PublicAnyPath(h) ==
  \/ PublicStart(h)
  \/ /\ Serves(h, "PublicAnyPath")
     /\ \/ CountClient(h)
        \/ Evaluate(h, LAMBDA e :
             IF Refused(e) THEN [hs[h] EXCEPT !.pc = "done", !.status = e.status]
             ELSE [hs[h] EXCEPT !.pc = "call"])
        \/ PublicCall(h)

-----------------------------------------------------------------------------
(* The rest of the world. *)

\* A session is removed from the database.
Expire(s) ==
  /\ s \in live
  /\ live' = live \ {s}
  /\ UNCHANGED <<conf, buckets, budget, queued, hs>>

\* Time gives a token to a limiter.
Refill(ip) ==
  /\ buckets[ip] \in 0..(Burst - 1)
  /\ buckets' = [buckets EXCEPT ![ip] = @ + 1]
  /\ budget' = [budget EXCEPT ![ip] = @ + 1]
  /\ UNCHANGED <<conf, live, queued, hs>>

\* AlarmTicker.Run takes a request.
Drain ==
  /\ queued > 0
  /\ queued' = queued - 1
  /\ UNCHANGED <<conf, live, buckets, budget, hs>>

Handle(h) ==
  \/ AnyPath(h)
  \/ Preflight(h)
  \/ Login(h)
  \/ Speeches(h)
  \/ TimeDistAltWord(h)
  \/ QuerySubmitAndView(h)
  \/ MergeFreqs(h)
  \/ CollocationsTT(h)
  \/ PublicAnyPath(h)
  \/ Return(h)

Next ==
  \/ \E h \in Handlers : Handle(h)
  \/ \E s \in Sessions : Expire(s)
  \/ \E ip \in IPs : Refill(ip)
  \/ Drain

Spec == Init /\ [][Next]_vars

\* A goroutine which can run does; every call of a backend ends, by its
\* timeout at the latest; the alarm takes what is in its channel, and senders
\* which wait for room there get it in the order they came, so none is passed
\* over forever.  Nothing is said of the portal.
Fairness ==
  /\ \A h \in Handlers :
       /\ WF_vars(hs[h] # Idle /\ ~Serves(h, "Login") /\ Handle(h))
       /\ SF_vars(LogRequest(h))
  /\ WF_vars(Drain)

FairSpec == Spec /\ Fairness

-----------------------------------------------------------------------------
(* Properties. *)

HandlerStates ==
  [pc : {"idle", "count", "evaluate", "identify", "call", "parts", "log",
         "done"},
   kind : HandlerKinds \cup {None}, r : AnyRequest \cup {None}, client : Users,
   human : Users, status : {0, 200, 204, 302, 400, 401, 404, 429, 500, 503},
   sent : [key : Cookies, cookie : Cookies, user : Users \cup {None},
           trueID : Users \cup {None}] \cup {None},
   parts : 0..(MaxParts + 1), want : 0..MaxParts, failed : BOOLEAN,
   cached : 0..MaxParts \cup {None}, early : BOOLEAN, posts : {0, 1},
   charged : Users \cup {None}]

\* Every variable has its type; statuses are those the handlers write.
TypeOK ==
  /\ conf \in Confs
  /\ live \subseteq Sessions
  /\ buckets \in [IPs -> Fresh..Burst]
  /\ budget \in [IPs -> OverBudget..Burst]
  /\ queued \in 0..AlarmCap
  /\ hs \in [Handlers -> HandlerStates]

SessionGiven(c, sent) == IF c.key THEN sent.key ELSE sent.cookie

\* The session a backend is given to serve the request under, in X-Api-Key where
\* it reads that and otherwise in its cookie, is the one the cncauth guard
\* authorised the request by (cncauth.go EvaluateRequest, common.go
\* ProcessReqHeaders).  Two cases are excepted.  With X-Api-Key nothing is said
\* of the backend cookie, which is forwarded unmapped and may hold the other
\* session, unlike what conf.go:48-51 says of it.  And a frontend cookie without
\* a session is mapped though the guard has used the backend cookie.
SessionSentIsAuthorised ==
  \A h \in Handlers :
    (/\ conf.guard = "cncauth" /\ conf.db
     /\ hs[h].sent # None
     /\ hs[h].r.front # Blank)
      => SessionGiven(conf, hs[h].sent)
           = GetFrontendOrBackendSession(conf, hs[h].r)

Presented(r) ==
  {Owner[s] : s \in {r.front, r.back} \cap Sessions}
    \cup {TokenUser[t] : t \in {r.token} \cap Tokens}

Merging == {"MergeFreqs", "CollocationsTT"}
Uncounted == {"Preflight", "Login", "PublicAnyPath"}

\* A request to a limited service is reported to the alarm exactly once, by the
\* deferred LogRequest, however it ended (refused, failed, panicked), and the
\* user it is charged to is nobody or one whose session or token the request
\* presented, even when sessions expire while it is handled.  Excepted are the
\* handlers without that LogRequest (Preflight, Login and the public proxies) and
\* the merging ones which return before they defer it (mergefreq.go:50-53).
ChargedOnceToPresented ==
  \A h \in Handlers :
    At(h, "done") =>
      /\ hs[h].posts = (IF /\ conf.limits
                           /\ hs[h].kind \notin Uncounted
                           /\ ~hs[h].early
                        THEN 1 ELSE 0)
      /\ hs[h].posts = 1 => hs[h].charged \in
           Presented(hs[h].r) \cup {InvalidUserID, ZeroUserID}

\* Whatever handlers do at the same time, a limited guard lets no more requests
\* of an address through than the burst and what its limiter gained since
\* (rateLimiters of the guards).  cncauth without a database is excepted: it
\* accepts requests before it comes to the limiter.
LimiterHolds ==
  (conf.guard # "null" /\ (conf.guard = "cncauth" => conf.db)) =>
    \A ip \in IPs : budget[ip] >= 0

\* A merged answer is stored only whole: never after a part failed or could not
\* be parsed (MergeFreqs and CollocationsTT, ToCache).  A part the backend
\* answered by an error in JSON is a part like any other: its status is not
\* looked at (mergefreq.go:214-234), so that it is merged and stored.
CachedMergeIsWhole ==
  \A h \in Handlers :
    hs[h].cached # None => ~hs[h].failed /\ hs[h].cached = hs[h].want

\* A client is told that a backend call failed, by the status, unless a part
\* of a merged answer or the first event of a stream was written before.  A call
\* whose answer breaks off after its headers has not failed in this sense, nor
\* has one that ended with an error of the cache.
FailureIsTold ==
  \A h \in Handlers :
    At(h, "done") /\ hs[h].failed =>
      \/ hs[h].status >= 500
      \/ /\ hs[h].kind \in Merging
         /\ hs[h].parts > 0 \/ conf.streaming

\* Every request comes to its end, a login excepted: neither the channel of the
\* alarm nor the one of the dflt guard holds a handler forever.
RequestsEnd ==
  \A h \in Handlers :
    (hs[h] # Idle /\ ~Serves(h, "Login")) ~> (hs[h] = Idle)
=============================================================================
