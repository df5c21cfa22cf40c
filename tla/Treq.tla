-------------------------------- MODULE Treq --------------------------------
(***************************************************************************)
(* The proxy of Treq (src/services/backend/treq).  A request without a     *)
(* session of its own is served under a session APIGuard has logged in     *)
(* for, the fallback cookie, which all handlers share: a handler the guard *)
(* refuses logs in again, together with the others which wait for the same *)
(* (golang.org/x/sync/singleflight).  Subsets and WithExamples call        *)
(* backends from a goroutine for each part, put the parts together under a *)
(* lock and write what there is after each of them.  A race of two of      *)
(* these goroutines may end the process, which is then started anew.       *)
(***************************************************************************)
EXTENDS Guards, BackendCalls, Sequences

CONSTANTS
  Handlers,  \* handlers which may run at a time
  Requests,  \* Requests[h]: what clients may send to which handlers
  Confs,     \* configurations of the service
  Issued,    \* sessions the portal gives, in this order
  AlarmCap,  \* capacity of the alarm's channel
  MaxLines   \* maxLines; bound: subsets of a request

Kinds == {"AnyPath", "Subsets", "WithExamples"}

\* The fields are those of Gateway.
AnyRequest == [front : Cookies, back : Cookies]
AnyConf ==
  [guard : {"cncauth"}, session : {"cnc", "simple", "none"}, db : BOOLEAN,
   limits : BOOLEAN, cookies : {"none", "same", "own"}, key : BOOLEAN,
   streaming : BOOLEAN]

IssuedSessions == {Issued[i] : i \in DOMAIN Issued}

\* The portal gives every session once, and never to a client.
ASSUME TreqAssumption ==
  /\ Requests \in [Handlers -> SUBSET (Kinds \X AnyRequest)]
  /\ Confs \subseteq AnyConf
  /\ Issued \in Seq(Sessions)
  /\ \A i, j \in DOMAIN Issued : Issued[i] = Issued[j] => i = j
  /\ \A h \in Handlers : \A q \in Requests[h] :
       {q[2].front, q[2].back} \cap IssuedSessions = {}
  /\ AlarmCap \in Nat \ {0}
  /\ MaxLines \in Nat

Parts == 1..MaxLines

VARIABLES
  conf,    \* how the service is configured
  live,    \* sessions in the CNC database
  issued,  \* how many sessions the portal has given
  cookie,  \* authFallbackCookie
  queued,  \* requests in the channel of the alarm
  hs       \* hs[h]: the request h handles and how far it is

vars == <<conf, live, issued, cookie, queued, hs>>

\* user: the one the guard evaluated, then the one of X-Api-User; fallback:
\* RequiresFallbackCookie; login: the session the portal gave; sent: sessions
\* Treq is given in its cookie; key: the one in X-Api-Key of a call about to be
\* made; todo: parts whose goroutine is not started; wg: the WaitGroup's counter;
\* work[p]: the goroutine of a part; merged: parts of the answer; snap[p]: those
\* p has serialized and not written; out: what was written, each event as the
\* set of its parts.
Idle ==
  [pc |-> "idle", kind |-> None, r |-> None, user |-> ZeroUserID,
   fallback |-> FALSE, login |-> None, sent |-> {}, key |-> None, todo |-> {},
   wg |-> 0, work |-> [p \in Parts |-> "none"], merged |-> {},
   snap |-> [p \in Parts |-> {}], out |-> {}]

Init ==
  /\ conf \in Confs
  /\ live = IF conf.db THEN Sessions \ IssuedSessions ELSE {}
  /\ issued = 0
  /\ cookie = None
  /\ queued = 0
  /\ hs = [h \in Handlers |-> Idle]

-----------------------------------------------------------------------------

At(h, place) == hs[h].pc = place
Becomes(h, s) == hs' = [hs EXCEPT ![h] = s]
Moves(h, place) == Becomes(h, [hs[h] EXCEPT !.pc = place])
Leaves(h) == Becomes(h, [Idle EXCEPT !.pc = "log"])
shared == <<conf, live, issued, cookie, queued>>

Start(h) ==
  /\ At(h, "idle")
  /\ \E q \in Requests[h] :
       /\ conf.cookies = "none" => q[2].front = None
       /\ conf.cookies = "same" => q[2].front = q[2].back
       /\ Becomes(h, [Idle EXCEPT !.pc = "evaluate", !.kind = q[1], !.r = q[2]])
  /\ UNCHANGED shared

\* What the limiter says is left open: Gateway has it.  Everybody the guard
\* does not know is worth a login.
Evaluate(h) ==
  /\ At(h, "evaluate")
  /\ \E level \in {0, 1} :
       \E e \in EvaluateRequest(conf, hs[h].r, cookie, live, level) :
         IF e.status # 401 /\ (e.panic \/ e.err \/ ForbidsAccess(e))
         THEN Leaves(h)
         ELSE Becomes(h, [hs[h] EXCEPT
                !.user = e.client, !.fallback = e.fallback,
                !.pc = IF e.status = 401 THEN "reauth" ELSE "apply"])
  /\ UNCHANGED shared

\* Mutant of Do: nobody waits for the login of another one.
DoAlone(h) == At(h, "reauth") /\ Moves(h, "login") /\ UNCHANGED shared

LoggingIn == {h \in Handlers : hs[h].pc \in {"login", "answered"}}

\* reauthSF.Do: one of the handlers logs in, the others wait for it.
Do(h) ==
  /\ At(h, "reauth")
  /\ Moves(h, IF LoggingIn = {} THEN "login" ELSE "wait")
  /\ UNCHANGED shared

\* The portal (external) answers with a session cookie.  LoginWithToken does not
\* look at what it says: a token it refuses with a cookie in the answer brings a
\* session which is nobody's.
LoginWithToken(h) ==
  /\ At(h, "login")
  /\ issued < Len(Issued)
  /\ issued' = issued + 1
  /\ \/ live' = IF conf.db THEN live \cup {Issued[issued + 1]} ELSE live
     \/ live' = live
  /\ Becomes(h, [hs[h] EXCEPT !.pc = "answered", !.login = Issued[issued + 1]])
  /\ UNCHANGED <<conf, cookie, queued>>

\* Mutant of Landed: those who wait are not told.
LandedAlone(h, place) ==
  Becomes(h, IF place = "log" THEN [Idle EXCEPT !.pc = "log"]
             ELSE [hs[h] EXCEPT !.pc = place, !.login = None])

\* The login of h and of those who wait for it has ended.
Landed(h, place) ==
  hs' = [g \in Handlers |->
           CASE g # h /\ ~At(g, "wait") -> hs[g]
             [] (g = h \/ At(g, "wait")) /\ place = "log" ->
                  [Idle EXCEPT !.pc = "log"]
             [] OTHER -> [hs[g] EXCEPT !.pc = place, !.login = None]]

LoginSucceeds(h) ==
  /\ At(h, "answered")
  /\ cookie' = hs[h].login
  /\ Landed(h, "check")
  /\ UNCHANGED <<conf, live, issued, queued>>

\* The portal fails, or LoginWithToken panics in all of them ("log"); or its
\* answer, which may refuse the token, has no such cookie ("check").
LoginFails(h) ==
  /\ At(h, "login")
  /\ \E place \in {"log", "check"} : Landed(h, place)
  /\ UNCHANGED shared

\* Mutant of CheckCookie: the cookie is taken to be there.
CheckNothing(h) == At(h, "check") /\ Moves(h, "apply") /\ UNCHANGED shared

CheckCookie(h) ==
  /\ At(h, "check")
  /\ IF cookie = None THEN Leaves(h) ELSE Moves(h, "apply")
  /\ UNCHANGED shared

\* Mutant of WithFallback: the fallback cookie is used whenever there is one.
WithFallbackAlways(h) ==
  IF cookie = None THEN hs[h].r ELSE [hs[h].r EXCEPT !.back = cookie]

\* The request with the fallback cookie, if need be.  The frontend cookie is
\* replaced too when it has the same name.
WithFallback(h) ==
  LET r == hs[h].r
  IN IF ~hs[h].fallback THEN r
     ELSE [r EXCEPT !.back = cookie,
                    !.front = IF conf.cookies = "same" THEN cookie ELSE @]

reqUsesMappedSession(r) == conf.cookies # "none" /\ r.front # None
MapFrontendCookieToBackend(r) ==
  IF reqUsesMappedSession(r) THEN [r EXCEPT !.back = r.front] ELSE r

\* Mutant of HeadersProcessed: the cookie is not mapped yet.
HeadersUnprocessed(r) == r

\* What ProcessReqHeaders makes of the cookies, and its X-Api-Key.
HeadersProcessed(r) == IF conf.key THEN r ELSE MapFrontendCookieToBackend(r)
APIKey(r) == IF conf.key THEN MapFrontendCookieToBackend(r).back ELSE None

\* AnyPath and WithExamples up to the call of Treq: the user is looked for again
\* if the cookies have different names, and a failure to find it is ignored.
Apply(h) ==
  /\ At(h, "apply") /\ hs[h].kind # "Subsets"
  /\ LET r == HeadersProcessed(WithFallback(h))
         final == MapFrontendCookieToBackend(r)
         ready(u) == [hs[h] EXCEPT !.pc = "call", !.user = u,
                        !.sent = {final.back}, !.key = APIKey(WithFallback(h))]
     IN IF conf.cookies = "same" THEN Becomes(h, ready(hs[h].user))
        ELSE \E f \in DetermineTrueUserID(conf, r, live) :
               IF f.panic THEN Leaves(h) ELSE Becomes(h, ready(f.user))
  /\ UNCHANGED shared

\* Subsets: the body, which asks for a subset or more or for none.
BindJSON(h) ==
  /\ At(h, "apply") /\ hs[h].kind = "Subsets"
  /\ \/ Leaves(h)
     \/ \E n \in 0..MaxLines :
          Becomes(h, [hs[h] EXCEPT !.pc = "parts", !.user = ZeroUserID,
                                   !.todo = {p \in Parts : p <= n}])
  /\ UNCHANGED shared

\* Whatever HandleRequest comes back with.
AnyPathCall(h) ==
  /\ At(h, "call") /\ hs[h].kind = "AnyPath"
  /\ Leaves(h)
  /\ UNCHANGED shared

\* WithExamples: the fallback cookie is put in once more; the lines of the
\* answer are cut to maxLines.
TranslationsCall(h) ==
  /\ At(h, "call") /\ hs[h].kind = "WithExamples"
  /\ LET given == IF hs[h].fallback THEN {cookie} ELSE hs[h].sent
         s == [hs[h] EXCEPT !.sent = given, !.key = None]
     IN \E x \in HandleRequest(TRUE) :
          \/ Leaves(h)                                   \* failed, not JSON
          \/ /\ ~HasError(x)
             /\ \E n \in 0..(MaxLines + 1) :
                  Becomes(h, [s EXCEPT !.pc = "parts", !.user = ZeroUserID,
                                     !.todo = {p \in Parts : p <= n}])
  /\ UNCHANGED shared

-----------------------------------------------------------------------------
(* The goroutines of the parts. *)

\* Mutant of Spawn: there is no wg.Add(1).
SpawnWithoutAdd(h) ==
  /\ At(h, "parts")
  /\ \E p \in hs[h].todo :
       /\ \A q \in hs[h].todo : p <= q
       /\ Becomes(h, [hs[h] EXCEPT !.todo = @ \ {p}, !.work[p] = "fetch"])
  /\ UNCHANGED shared

\* Mutant of Spawn: wg.Add(1) stands before the loop.
SpawnAddOnce(h) ==
  /\ At(h, "parts")
  /\ \E p \in hs[h].todo :
       /\ \A q \in hs[h].todo : p <= q
       /\ Becomes(h, [hs[h] EXCEPT !.todo = @ \ {p}, !.work[p] = "fetch",
                                   !.wg = IF p = 1 THEN 1 ELSE @])
  /\ UNCHANGED shared

\* wg.Add(1) and go: parts are numbered in the order the loop comes to them.
Spawn(h) ==
  /\ At(h, "parts")
  /\ \E p \in hs[h].todo :
       /\ \A q \in hs[h].todo : p <= q
       /\ Becomes(h, [hs[h] EXCEPT !.todo = @ \ {p}, !.work[p] = "fetch",
                                   !.wg = @ + 1])
  /\ UNCHANGED shared

\* Subsets sends the session of the request or the fallback cookie.
SentByPart(h) ==
  IF hs[h].kind = "Subsets" THEN hs[h].sent \cup {WithFallback(h).back}
  ELSE hs[h].sent

\* The deferred wg.Done() of the goroutine of p, in state s of its handler.
Returned(s, p) == [s EXCEPT !.work[p] = "done", !.snap[p] = {}, !.wg = @ - 1]

\* The goroutine has no part: the call failed or, in WithExamples, the URL is not
\* one, which it is going to tell the client; or, in Subsets, the answer is not
\* JSON, and it returns.
PartFails(h, p) ==
  /\ hs[h].work[p] = "fetch"
  /\ LET s == [hs[h] EXCEPT !.sent = SentByPart(h)]
     IN \/ Becomes(h, [s EXCEPT !.work[p] = "error"])
        \/ hs[h].kind = "Subsets" /\ Becomes(h, Returned(s, p))
  /\ UNCHANGED shared

\* Mutant of PartMerged: the answer is serialized before the part is in it.
PartMergedLate(h, p) ==
  /\ hs[h].work[p] = "fetch"
  /\ Becomes(h, [hs[h] EXCEPT !.work[p] = "write", !.merged = @ \cup {p},
       !.snap[p] = hs[h].merged, !.sent = SentByPart(h)])
  /\ UNCHANGED shared

\* mapLock, ansEditLock: the part is added and the answer serialized.  A line
\* without examples is a part as well.
PartMerged(h, p) ==
  /\ hs[h].work[p] = "fetch"
  /\ Becomes(h, [hs[h] EXCEPT !.work[p] = "write", !.merged = @ \cup {p},
       !.snap[p] = hs[h].merged \cup {p}, !.sent = SentByPart(h)])
  /\ UNCHANGED shared

\* What http.Error writes instead of an event.
ErrorText == None

\* The writer is shared and no lock is held: writes of two goroutines may
\* overlap, and net/http's buffer is no place for that, so that one of them is
\* lost, while in the streaming mode a write is a send to a channel.
Writes(h, p, event) ==
  /\ \/ Becomes(h, Returned([hs[h] EXCEPT !.out = @ \cup {event}], p))
     \/ /\ ~conf.streaming
        /\ \E q \in Parts \ {p} : hs[h].work[q] \notin {"none", "fetch"}
        /\ Becomes(h, Returned(hs[h], p))
  /\ UNCHANGED shared

PartWritten(h, p) ==
  hs[h].work[p] = "write" /\ Writes(h, p, hs[h].snap[p])

ErrorWritten(h, p) == hs[h].work[p] = "error" /\ Writes(h, p, ErrorText)

Part(h, p) ==
  \/ PartFails(h, p) \/ PartMerged(h, p) \/ PartWritten(h, p)
  \/ ErrorWritten(h, p)

\* The loop is over; wg.Wait() and Flush, which in the streaming mode closes the
\* channel.
Flush(h) ==
  /\ At(h, "parts") /\ hs[h].todo = {}
  /\ hs[h].wg = 0
  /\ Moves(h, "flushed")
  /\ UNCHANGED shared

\* Deferred.
CountRequest(h) ==
  /\ hs[h].pc \in {"log", "flushed"}
  /\ conf.limits => queued < AlarmCap
  /\ queued' = IF conf.limits THEN queued + 1 ELSE queued
  /\ Becomes(h, Idle)
  /\ UNCHANGED <<conf, live, issued, cookie>>

-----------------------------------------------------------------------------

Expire(s) ==
  /\ s \in live
  /\ live' = live \ {s}
  /\ UNCHANGED <<conf, issued, cookie, queued, hs>>

Drain ==
  /\ queued > 0
  /\ queued' = queued - 1
  /\ UNCHANGED <<conf, live, issued, cookie, hs>>

\* http.Error sets headers in a map the goroutines of h share.  Two of them there
\* at once, or one where net/http reads the map for the first write, is a fatal
\* error: the process ends and is started again, without its clients.
Races(h) ==
  \E p, q \in Parts :
    /\ p # q /\ hs[h].work[p] = "error"
    /\ \/ hs[h].work[q] = "error"
       \/ ~conf.streaming /\ hs[h].work[q] = "write"

Restart ==
  /\ \E h \in Handlers : Races(h)
  /\ cookie' = None
  /\ queued' = 0
  /\ hs' = [h \in Handlers |-> Idle]
  /\ UNCHANGED <<conf, live, issued>>

Portal(h) == LoginWithToken(h) \/ LoginFails(h)

Handle(h) ==
  \/ Evaluate(h) \/ Do(h) \/ LoginSucceeds(h) \/ CheckCookie(h)
  \/ Apply(h) \/ BindJSON(h) \/ AnyPathCall(h) \/ TranslationsCall(h)
  \/ Spawn(h) \/ Flush(h) \/ \E p \in Parts : Part(h, p)

Next ==
  \/ \E h \in Handlers :
       Start(h) \/ Portal(h) \/ Handle(h) \/ CountRequest(h)
  \/ \E s \in Sessions : Expire(s)
  \/ Drain
  \/ Restart

Spec == Init /\ [][Next]_vars

\* As in Gateway; and the portal answers: LoginWithToken has no timeout, so
\* nothing else ends it.
Fairness ==
  /\ \A h \in Handlers :
       WF_vars(Portal(h) \/ Handle(h)) /\ SF_vars(CountRequest(h))
  /\ WF_vars(Drain)

FairSpec == Spec /\ Fairness

-----------------------------------------------------------------------------
(* Properties. *)

HandlerStates ==
  [pc : {"idle", "evaluate", "reauth", "login", "answered", "wait", "check",
         "apply", "call", "parts", "flushed", "log"},
   kind : Kinds \cup {None}, r : AnyRequest \cup {None}, user : Users,
   fallback : BOOLEAN, login : IssuedSessions \cup {None},
   sent : SUBSET Cookies, key : Cookies, todo : SUBSET Parts, wg : 0..MaxLines,
   work : [Parts -> {"none", "fetch", "write", "error", "done"}],
   merged : SUBSET Parts, snap : [Parts -> SUBSET Parts],
   out : SUBSET ((SUBSET Parts) \cup {ErrorText})]

\* Every variable has its type.
TypeOK ==
  /\ conf \in Confs
  /\ live \subseteq Sessions
  /\ issued \in 0..Len(Issued)
  /\ cookie \in IssuedSessions \cup {None}
  /\ queued \in 0..AlarmCap
  /\ hs \in [Handlers -> HandlerStates]

\* Wherever a handler or a goroutine of it reads the value of the fallback
\* cookie (handler.go:186-191, subsets.go:165-170, withexamples.go:234-239 and
\* 303-308), the cookie is there, whatever other handlers did since it was
\* looked at: reading it would be a nil dereference, in Subsets one nobody
\* recovers from.
FallbackIsThere ==
  \A h \in Handlers :
    hs[h].pc \in {"apply", "call", "parts"} /\ hs[h].fallback => cookie # None

\* The order in which the portal gave the sessions.
Age(s) == CHOOSE i \in DOMAIN Issued : Issued[i] = s

\* The shared cookie is only ever replaced by one of a later login, never by
\* that of a login which was overtaken, and never removed unless the process was
\* started anew.
CookieNeverOlder ==
  [][cookie' # cookie =>
       \/ /\ cookie' # None
          /\ cookie # None => Age(cookie') > Age(cookie)
       \/ hs' = [h \in Handlers |-> Idle]]_vars

\* The sessions Treq is given: in the cookie, and in X-Api-Key.
Given(s) ==
  s.sent \cup (IF conf.key /\ s.pc = "call" THEN {s.key} ELSE {})

\* Treq is given a session of APIGuard's if and only if the guard said that the
\* request has none to be used (RequiresFallbackCookie).  Excepted is AnyPath
\* with a frontend cookie, which is mapped over the fallback one.
FallbackIffRequired ==
  \A h \in Handlers :
    (hs[h].kind = "AnyPath" \/ At(h, "call") => hs[h].r.front = None) =>
      \A s \in Given(hs[h]) : hs[h].fallback <=> s \in IssuedSessions

\* A request with a session of its own names in X-Api-User the user whose session
\* Treq is given, or nobody, even when sessions expire meanwhile.  With the
\* session in X-Api-Key the user is looked for before the cookie is mapped, so
\* that it may be the other one of the two whose sessions the request presented
\* (handler.go:208-231).  Requests served under the fallback cookie are left out:
\* of them HumanIsNamed speaks.
NamedUserOwnsSession ==
  \A h \in Handlers :
    At(h, "call") /\ ~hs[h].fallback =>
      \/ hs[h].user \in {InvalidUserID, ZeroUserID}
      \/ \E s \in {hs[h].r.front, hs[h].r.back} \cap Sessions :
           /\ Owner[s] = hs[h].user
           /\ ~conf.key => hs[h].sent = {s}

\* "here we reveal actual human user ID to the API (i.e. not a special fallback
\* user)" (handler.go:207, withexamples.go:255): where the cookies have different
\* names, X-Api-User names the user whose session the request has, or nobody.
\* The code reads the cookie it has just put in, and names the fallback user.
HumanIsNamed ==
  \A h \in Handlers :
    At(h, "call") /\ conf.cookies # "same" =>
      \/ hs[h].user \in {InvalidUserID, ZeroUserID}
      \/ /\ GetFrontendOrBackendSession(conf, hs[h].r) \in Sessions
         /\ Owner[GetFrontendOrBackendSession(conf, hs[h].r)] = hs[h].user

\* In the streaming mode one event holds all the parts which came, though every
\* goroutine writes its own after the lock is released and another one may have
\* gone on.  Which event is the last one is left open: it may be an older one.
CompleteAnswerWritten ==
  \A h \in Handlers :
    At(h, "flushed") /\ conf.streaming =>
      hs[h].merged = {} \/ hs[h].merged \in hs[h].out

\* No goroutine is left to write once the WaitGroup has let the handler flush,
\* which closes the channel of the stream: a write to it would end the process
\* (wagstream's ESAPIWriter), and without a stream the response is gone.
NoWriteAfterFlush ==
  \A h \in Handlers :
    At(h, "flushed") => \A p \in Parts : hs[h].work[p] \in {"none", "done"}

\* As long as the portal answers, every request comes to its end: no handler is
\* left waiting for the login of another one or for its goroutines.
RequestsEnd == \A h \in Handlers : ~At(h, "idle") ~> At(h, "idle")
=============================================================================
