--------------------------- MODULE ResponseCache ---------------------------
(***************************************************************************)
(* The response cache: how the handlers of the proxies look an answer up,  *)
(* ask the backend and store what it says (src/proxy, src/services), over  *)
(* a store of files or over Redis (src/proxy/cache).  A file is written in *)
(* place in several steps, beside readers which refresh or delete it;      *)
(* Redis is written by a goroutine which works off a bounded queue.  An    *)
(* administrator may flush the entries of a service and the process may be *)
(* killed at any time; the store outlives it.                              *)
(*                                                                         *)
(* An answer is the request it was made for.                               *)
(***************************************************************************)
EXTENDS Naturals, Sequences, FiniteSets, SequencesExt

CONSTANTS
  None,         \* nothing: no cookie, no body, an idle handler
  Resources,    \* paths with queries
  Services,     \* the services' keys
  Tag,          \* Tag[x]: the service a resource belongs to
  Sessions,     \* values of the session cookies
  Bodies,       \* bodies of POST requests
  Rest,         \* what is left of a body which was read in part
  Chars,        \* what texts are made of
  Text,         \* Text[x]: the text a resource, session or body is hashed as
  Requests,     \* the requests clients may make
  Confs,        \* configurations: store, perSession (CachingPerSession) and
                \* streaming (IsStreamingMode)
  QueueCap,     \* writeChannelCapacity
  TTLSecs,      \* CacheConf.TTLSecs
  Handlers,     \* handlers which may run at a time
  MaxTime,      \* bound: the last second
  MaxRequests   \* bound: requests ever made

\* Who handles a request: "cnc" and "public" are the two AnyPath, which write
\* the answer through the cache; "export" handlers call HandleRequest for data
\* they process themselves; "stream" is MakeStreamRequest, "submit" is
\* MakeCacheablePOSTRequest, "merge" is MergeFreqs and CollocationsTT.
Kinds == {"cnc", "public", "export", "stream", "submit", "merge"}

AnyRequest ==
  [kind : Kinds, method : {"GET", "POST"}, res : Resources,
   session : Sessions \cup {None}, body : Bodies \cup {None},
   noCache : BOOLEAN]

ASSUME ResponseCacheAssumption ==
  /\ Requests \subseteq AnyRequest /\ None \notin Requests
  /\ \A r \in Requests :
       /\ r.kind \in {"submit", "merge"} => r.body # None
       /\ r.kind = "submit" => r.method = "POST"
       /\ r.kind \in {"export", "stream"} => r.method = "GET"
  /\ Tag \in [Resources -> Services]
  /\ Text \in [Resources \cup Sessions \cup Bodies \cup {Rest}
               -> Seq(Chars) \ {<<>>}]
  /\ None \notin Sessions \cup Bodies
  /\ Rest \notin Sessions \cup Bodies /\ Rest # None
  /\ Sessions \cap Bodies = {}
  /\ Confs \subseteq [store : {"file", "redis", "null"}, perSession : BOOLEAN,
                     streaming : BOOLEAN]
  /\ QueueCap \in Nat \ {0}
  /\ TTLSecs \in Nat \ {0}
  /\ {MaxTime, MaxRequests} \subseteq Nat

VARIABLES
  conf,     \* the configuration the process is started with
  task,     \* task[h]: None or the request h works on and how far it is
  entries,  \* the store: key -> entry
  queue,    \* Redis.writeQueue
  flush,    \* None, or the service being flushed and the keys listed
  now,      \* the clock
  arrived   \* requests so far

vars == <<conf, task, entries, queue, flush, now, arrived>>

Init ==
  /\ conf \in Confs
  /\ task = [h \in Handlers |-> None]
  /\ entries = <<>>
  /\ queue = <<>>
  /\ flush = None
  /\ now = 0
  /\ arrived = 0

-----------------------------------------------------------------------------
(* Keys and options. *)

ReadOpts(r) ==
  [cookies      |-> conf.perSession /\ r.kind # "public",
   post         |-> r.kind \in {"submit", "merge"},
   cacheControl |-> ~conf.streaming]

NoOpts == [cookies |-> FALSE, post |-> FALSE, cacheControl |-> FALSE]

\* ThroughCacheResponse is made without options; only the merging handlers
\* pass the ones they read with.
WriteOpts(r) == IF r.kind = "merge" THEN ReadOpts(r) ELSE NoOpts

\* A missing cookie contributes nothing, and so does a body which was read
\* before.
TextOf(x) == IF x = None THEN <<>> ELSE Text[x]

\* Mutant of GenerateCacheId: the body is left out of the key.
GenerateCacheIdNoBody(r, opts, left) ==
  [tag  |-> Tag[r.res],
   text |-> Text[r.res]
              \o (IF opts.cookies THEN TextOf(r.session) ELSE <<>>)]

\* The texts are hashed one after another, without separators.  The stores put
\* the hash under the service's key.
GenerateCacheId(r, opts, left) ==
  [tag  |-> Tag[r.res],
   text |-> Text[r.res]
              \o (IF opts.cookies THEN TextOf(r.session) ELSE <<>>)
              \o (IF opts.post THEN TextOf(left) ELSE <<>>)]

\* ShouldReadFromCache; ShouldWriteToCache is the same, since the status of
\* the entries it is given is always 200.
ShouldUseCache(r, opts) ==
  /\ r.method = "GET" \/ opts.post
  /\ ~r.noCache \/ ~opts.cacheControl

\* The body left in the request when a key has been made of it: a bytes.Buffer
\* is empty then, a ReReader starts again.
LeftAfterKey(r, opts, left) ==
  IF opts.post /\ r.kind # "merge" THEN None ELSE left

-----------------------------------------------------------------------------
(* Steps of a handler. *)

At(h, place) == task[h] # None /\ task[h].at = place

Go(h, place) == task' = [task EXCEPT ![h].at = place]

Done(h) == task' = [task EXCEPT ![h] = None]

Arrive(h, r) ==
  /\ task[h] = None
  /\ arrived < MaxRequests
  /\ arrived' = arrived + 1
  /\ task' = [task EXCEPT ![h] =
       [req |-> r, at |-> "get", left |-> r.body, key |-> None, ans |-> None,
        linked |-> FALSE]]
  /\ UNCHANGED <<conf, entries, queue, flush, now>>

Reads(h) ==
  At(h, "get") /\ ShouldUseCache(task[h].req, ReadOpts(task[h].req))

ReadKey(h) == GenerateCacheId(task[h].req, ReadOpts(task[h].req), task[h].left)

\* FromCache made the key, the handler goes on at the given place.
Keyed(h, place, ans) ==
  [task EXCEPT ![h].at = place, ![h].key = ReadKey(h), ![h].ans = ans,
               ![h].left = LeftAfterKey(task[h].req, ReadOpts(task[h].req), @)]

GetSkip(h) ==
  /\ At(h, "get")
  /\ conf.store = "null" \/ ~ShouldUseCache(task[h].req, ReadOpts(task[h].req))
  /\ Go(h, "fetch")
  /\ UNCHANGED <<conf, entries, queue, flush, now, arrived>>

\* Redis.Get: a hit asks the writer to prolong the entry, if there is room.
GetRedisHit(h) ==
  /\ conf.store = "redis"
  /\ Reads(h)
  /\ ReadKey(h) \in DOMAIN entries
  /\ now - entries[ReadKey(h)].touched < TTLSecs
  /\ task' = Keyed(h, "hit", entries[ReadKey(h)].ans)
  /\ queue' = IF Len(queue) < QueueCap
              THEN Append(queue, [op |-> "expire", key |-> ReadKey(h),
                                  ans |-> None])
              ELSE queue
  /\ UNCHANGED <<conf, entries, flush, now, arrived>>

GetRedisMiss(h) ==
  /\ conf.store = "redis"
  /\ Reads(h)
  /\ ReadKey(h) \in DOMAIN entries =>
       now - entries[ReadKey(h)].touched >= TTLSecs
  /\ task' = Keyed(h, "fetch", None)
  /\ UNCHANGED <<conf, entries, queue, flush, now, arrived>>

GetRedisFails(h) ==
  /\ conf.store = "redis"
  /\ Reads(h)
  /\ task' = Keyed(h, "failed", None)
  /\ UNCHANGED <<conf, entries, queue, flush, now, arrived>>

\* File.Get up to the test of the file's age.
GetFile(h) ==
  /\ conf.store = "file"
  /\ Reads(h)
  /\ task' = Keyed(h, IF ReadKey(h) \notin DOMAIN entries THEN "fetch"
                      ELSE IF now - entries[ReadKey(h)].touched > TTLSecs
                      THEN "expired" ELSE "touch", None)
  /\ UNCHANGED <<conf, entries, queue, flush, now, arrived>>

Exists(h) == task[h].key \in DOMAIN entries

\* The file vanished since the test: its deletion, os.Chtimes or os.OpenFile
\* returns an error.
GetVanished(h) ==
  /\ \E place \in {"expired", "touch", "decode"} : At(h, place)
  /\ ~Exists(h)
  /\ Go(h, "failed")
  /\ UNCHANGED <<conf, entries, queue, flush, now, arrived>>

\* What a deletion leaves: who has the file open writes to nowhere.
Without(k) == [l \in DOMAIN entries \ {k} |-> entries[l]]
Unlinked(k) ==
  [h \in Handlers |->
     IF task[h] # None /\ task[h].at \in {"header", "value"} /\ task[h].key = k
     THEN [task[h] EXCEPT !.linked = FALSE] ELSE task[h]]

\* fs.DeleteFile(filePath), whatever is written there by now.
GetExpired(h) ==
  /\ At(h, "expired")
  /\ Exists(h)
  /\ entries' = Without(task[h].key)
  /\ task' = [Unlinked(task[h].key) EXCEPT ![h].at = "fetch"]
  /\ UNCHANGED <<conf, queue, flush, now, arrived>>

GetTouch(h) ==
  /\ At(h, "touch")
  /\ Exists(h)
  /\ entries' = [entries EXCEPT ![task[h].key].touched = now]
  /\ Go(h, "decode")
  /\ UNCHANGED <<conf, queue, flush, now, arrived>>

\* The file does not decode unless it has been written as a whole.
GetDecode(h) ==
  /\ At(h, "decode")
  /\ Exists(h)
  /\ LET e == entries[task[h].key]
     IN  task' = [task EXCEPT ![h].at = IF e.part = "whole" THEN "hit"
                                        ELSE "failed",
                              ![h].ans = e.ans]
  /\ UNCHANGED <<conf, entries, queue, flush, now, arrived>>

\* The answer found is written to the client.
Hit(h) ==
  /\ At(h, "hit")
  /\ Done(h)
  /\ UNCHANGED <<conf, entries, queue, flush, now, arrived>>

\* HandleRequest returns an error of the cache before it asks the backend ...
CacheErrorEnds(h) ==
  /\ At(h, "failed")
  /\ task[h].req.kind \in {"cnc", "export"}
  /\ Done(h)
  /\ UNCHANGED <<conf, entries, queue, flush, now, arrived>>

\* ... the others ask it all the same.
CacheErrorIgnored(h) ==
  /\ At(h, "failed")
  /\ task[h].req.kind \notin {"cnc", "export"}
  /\ Go(h, "fetch")
  /\ UNCHANGED <<conf, entries, queue, flush, now, arrived>>

\* An error, a status which is not 2xx, a body which cannot be read; or the
\* handler keeps the answer for itself.
FetchEnds(h) ==
  /\ At(h, "fetch")
  /\ Done(h)
  /\ UNCHANGED <<conf, entries, queue, flush, now, arrived>>

\* WriteResponse of a good answer.
FetchAnswer(h) ==
  /\ At(h, "fetch")
  /\ task[h].req.kind \in {"cnc", "public", "stream"}
  /\ task' = [task EXCEPT ![h].at = "set", ![h].ans = task[h].req]
  /\ UNCHANGED <<conf, entries, queue, flush, now, arrived>>

\* All the parts are there.  The body goes along with the requests for them:
\* a backend which answers early leaves it read in part, or read to its end
\* but not rewound.
FetchParts(h) ==
  /\ At(h, "fetch")
  /\ task[h].req.kind = "merge"
  /\ \E left \in {task[h].req.body, Rest, None} :
       task' = [task EXCEPT ![h].at = "set", ![h].ans = task[h].req,
                            ![h].left = left]
  /\ UNCHANGED <<conf, entries, queue, flush, now, arrived>>

-----------------------------------------------------------------------------
(* Set. *)

Writes(h) ==
  At(h, "set") /\ ShouldUseCache(task[h].req, WriteOpts(task[h].req))

WriteKey(h) ==
  GenerateCacheId(task[h].req, WriteOpts(task[h].req), task[h].left)

SetSkip(h) ==
  /\ At(h, "set")
  /\ conf.store = "null" \/ ~ShouldUseCache(task[h].req, WriteOpts(task[h].req))
  /\ Done(h)
  /\ UNCHANGED <<conf, entries, queue, flush, now, arrived>>

\* Mutant of SetRedis: the send waits for room.
SetRedisBlocking(h) ==
  /\ conf.store = "redis"
  /\ Writes(h)
  /\ Len(queue) < QueueCap
  /\ Done(h)
  /\ queue' = Append(queue, [op |-> "set", key |-> WriteKey(h),
                             ans |-> task[h].ans])
  /\ UNCHANGED <<conf, entries, flush, now, arrived>>

\* Mutant of SetRedis: the entry is queued whether there is room or not.
SetRedisUnbounded(h) ==
  /\ conf.store = "redis"
  /\ Writes(h)
  /\ Done(h)
  /\ queue' = Append(queue, [op |-> "set", key |-> WriteKey(h),
                             ans |-> task[h].ans])
  /\ UNCHANGED <<conf, entries, flush, now, arrived>>

\* Redis.Set: the entry is dropped when the queue is full.
SetRedis(h) ==
  /\ conf.store = "redis"
  /\ Writes(h)
  /\ Done(h)
  /\ queue' = IF Len(queue) < QueueCap
              THEN Append(queue, [op |-> "set", key |-> WriteKey(h),
                                  ans |-> task[h].ans])
              ELSE queue
  /\ UNCHANGED <<conf, entries, flush, now, arrived>>

\* File.Set: os.OpenFile creates the file or opens it as it is ...
SetOpen(h) ==
  /\ conf.store = "file"
  /\ Writes(h)
  /\ task' = [task EXCEPT ![h].at = "header", ![h].key = WriteKey(h),
                          ![h].linked = TRUE]
  /\ entries' =
       [k \in DOMAIN entries \cup {WriteKey(h)} |->
          IF k \in DOMAIN entries THEN entries[k]
          ELSE [ans |-> None, part |-> "empty", touched |-> now]]
  /\ UNCHANGED <<conf, queue, flush, now, arrived>>

\* ... the encoder writes the description of the types, which is the same in
\* all the files ...
SetHeader(h) ==
  /\ At(h, "header")
  /\ Go(h, "value")
  /\ entries' =
       IF ~task[h].linked THEN entries
       ELSE [entries EXCEPT ![task[h].key].touched = now,
                            ![task[h].key].part = IF @ = "empty" THEN "header"
                                                  ELSE @]
  /\ UNCHANGED <<conf, queue, flush, now, arrived>>

\* ... and the value.
SetValue(h) ==
  /\ At(h, "value")
  /\ Done(h)
  /\ entries' =
       IF ~task[h].linked THEN entries
       ELSE [entries EXCEPT ![task[h].key] =
               [ans |-> task[h].ans, part |-> "whole", touched |-> now]]
  /\ UNCHANGED <<conf, queue, flush, now, arrived>>

\* A step of the write fails; what has been written stays.
SetFails(h) ==
  /\ At(h, "header") \/ At(h, "value")
  /\ Done(h)
  /\ UNCHANGED <<conf, entries, queue, flush, now, arrived>>

-----------------------------------------------------------------------------
(* The writing goroutine of Redis. *)

WriterSet ==
  /\ queue # <<>>
  /\ Head(queue).op = "set"
  /\ queue' = Tail(queue)
  /\ entries' =
       [k \in DOMAIN entries \cup {Head(queue).key} |->
          IF k # Head(queue).key THEN entries[k]
          ELSE [ans |-> Head(queue).ans, part |-> "whole", touched |-> now]]
  /\ UNCHANGED <<conf, task, flush, now, arrived>>

\* EXPIRE does nothing for a key which is gone.
WriterExpire ==
  /\ queue # <<>>
  /\ Head(queue).op = "expire"
  /\ queue' = Tail(queue)
  /\ entries' =
       LET k == Head(queue).key
       IN  IF k \in DOMAIN entries /\ now - entries[k].touched < TTLSecs
           THEN [entries EXCEPT ![k].touched = now] ELSE entries
  /\ UNCHANGED <<conf, task, flush, now, arrived>>

WriterFails ==
  /\ queue # <<>>
  /\ queue' = Tail(queue)
  /\ UNCHANGED <<conf, task, entries, flush, now, arrived>>

-----------------------------------------------------------------------------
(* Flush, and the end of the process. *)

FlushStart(S) ==
  /\ conf.store # "null"
  /\ flush = None
  /\ flush' = [service |-> S, todo |-> {k \in DOMAIN entries : k.tag = S}]
  /\ UNCHANGED <<conf, task, entries, queue, now, arrived>>

\* SCAN may also return a key which was not there when it started.
FlushDelete(k) ==
  /\ flush # None
  /\ k \in flush.todo \/ (conf.store = "redis" /\ k.tag = flush.service)
  /\ k \in DOMAIN entries
  /\ entries' = Without(k)
  /\ task' = Unlinked(k)
  /\ flush' = [flush EXCEPT !.todo = @ \ {k}]
  /\ UNCHANGED <<conf, queue, now, arrived>>

\* A key deleted by somebody else: nothing for Redis, an error for files.
FlushVanished(k) ==
  /\ flush # None
  /\ k \in flush.todo \ DOMAIN entries
  /\ flush' = IF conf.store = "redis" THEN [flush EXCEPT !.todo = @ \ {k}]
              ELSE None
  /\ UNCHANGED <<conf, task, entries, queue, now, arrived>>

\* All is deleted, or an error of the store.
FlushEnds ==
  /\ flush # None
  /\ flush' = None
  /\ UNCHANGED <<conf, task, entries, queue, now, arrived>>

Killed ==
  /\ task' = [h \in Handlers |-> None]
  /\ queue' = <<>>
  /\ flush' = None
  /\ UNCHANGED <<conf, entries, now, arrived>>

Tick ==
  /\ now < MaxTime
  /\ now' = now + 1
  /\ UNCHANGED <<conf, task, entries, queue, flush, arrived>>

-----------------------------------------------------------------------------

Get(h) ==
  \/ GetSkip(h) \/ GetRedisHit(h) \/ GetRedisMiss(h) \/ GetRedisFails(h)
  \/ GetFile(h) \/ GetVanished(h) \/ GetExpired(h) \/ GetTouch(h)
  \/ GetDecode(h)

Answer(h) ==
  \/ Hit(h) \/ CacheErrorEnds(h) \/ CacheErrorIgnored(h)
  \/ FetchEnds(h) \/ FetchAnswer(h) \/ FetchParts(h)

Set(h) ==
  \/ SetSkip(h) \/ SetRedis(h) \/ SetOpen(h) \/ SetHeader(h) \/ SetValue(h)
  \/ SetFails(h)

Handle(h) == Get(h) \/ Answer(h) \/ Set(h)

Next ==
  \/ \E h \in Handlers : Handle(h) \/ \E r \in Requests : Arrive(h, r)
  \/ WriterSet \/ WriterExpire \/ WriterFails
  \/ FlushEnds \/ \E S \in Services : FlushStart(S)
  \/ \E k \in DOMAIN entries : FlushDelete(k)
  \/ flush # None /\ \E k \in flush.todo : FlushVanished(k)
  \/ Killed
  \/ Tick

Spec == Init /\ [][Next]_vars

\* The Go scheduler runs the handlers, and calls to a backend time out.
\* Nothing is assumed of the goroutine which writes to Redis.
FairSpec == Spec /\ \A h \in Handlers : WF_vars(Handle(h))

-----------------------------------------------------------------------------
(* Properties. *)

Key == [tag : Services, text : Seq(Chars)]
Places ==
  {"get", "expired", "touch", "decode", "hit", "failed", "fetch", "set",
   "header", "value"}
Answers == Requests \cup {None}

TypeOK ==
  /\ conf \in Confs
  /\ task \in [Handlers -> {None} \cup
       [req : Requests, at : Places, left : Bodies \cup {Rest, None},
        key : Key \cup {None}, ans : Answers, linked : BOOLEAN]]
  /\ DOMAIN entries \subseteq Key
  /\ \A k \in DOMAIN entries :
       /\ entries[k] \in [ans : Answers, part : {"empty", "header", "whole"},
                          touched : 0..now]
       /\ entries[k].part = "whole" => entries[k].ans # None
  /\ queue \in Seq([op : {"set", "expire"}, key : Key, ans : Answers])
  /\ Len(queue) <= QueueCap
  /\ flush # None => flush.service \in Services /\ flush.todo \subseteq Key
  /\ now \in 0..MaxTime
  /\ arrived \in 0..MaxRequests

\* What is hashed behind the resource of a or of b.
Extras(a, b) == {a.session, a.body, b.session, b.body, Rest} \ {None}

\* The text of y behind that of x.
Behind(x, y) == SubSeq(Text[y], Len(Text[x]) + 1, Len(Text[y]))

Alike(s, t) == IsPrefix(s, t) \/ IsPrefix(t, s)

\* What separators would exclude: requests the hashed text of which could be cut
\* in another way, since a cookie or a body begins like another, or a resource
\* goes on, after the text of the other, like one of them ("/x?sid=1" and "/x"
\* with the cookie sid=1).
Ambiguous(a, b) ==
  \/ \E x, y \in Extras(a, b) : x # y /\ IsPrefix(Text[x], Text[y])
  \/ \E x, y \in {a.res, b.res} :
       /\ x # y
       /\ IsPrefix(Text[x], Text[y])
       /\ \/ Text[x] = Text[y]
          \/ \E z \in Extras(a, b) : Alike(Behind(x, y), Text[z])

\* A request is answered from the cache by an answer to a request for the same
\* resource, with the same body where the body counts and, for a request with a
\* session where sessions are kept apart, of the same session, although entries
\* are written with other options than they are read with
\* (proxy/response.go:266-273, services/cnc/common.go:160-164) and files are
\* written, refreshed and deleted by several handlers at a time.  Two exceptions:
\* requests which only separators between the hashed texts would tell apart
\* (proxy/cache.go:35-66), and requests without a session, which get answers of
\* any session, see SessionsKeptApart.
HitAnswersTheRequest ==
  \A h \in Handlers : At(h, "hit") /\ ~Ambiguous(task[h].req, task[h].ans) =>
    LET r == task[h].req
        a == task[h].ans
    IN  /\ a.res = r.res
        /\ ReadOpts(r).post => a.body = r.body
        /\ ReadOpts(r).cookies /\ r.session # None => a.session = r.session

\* "CachingPerSession allows for more granular caching (per session)"
\* (services/cnc/conf.go:85-87): where it is set, an answer found for a user is
\* one of their session, and a request without a session gets none of another's.
SessionsKeptApart ==
  \A h \in Handlers : At(h, "hit") /\ ReadOpts(task[h].req).cookies =>
    task[h].ans.session = task[h].req.session

\* "asynchronous write operations [...] to avoid blocking HTTP request
\* processing" (redis.go:57-59): every request comes to its end whatever the
\* state of the queue, the store and the writer, a stuck writer included.
RequestsEnd == \A h \in Handlers : task[h] # None ~> task[h] = None

\* "This should prevent unwanted reading of a body from `req` which would lead
\* to an empty body during backend requesting" (services/cnc/common.go:217-218):
\* a cacheable POST is sent to the backend with its body.
BodyReachesBackend ==
  \A h \in Handlers : At(h, "fetch") /\ task[h].req.kind = "submit" =>
    task[h].left = task[h].req.body
=============================================================================
