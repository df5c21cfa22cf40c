-------------------------- MODULE MCResponseCache --------------------------
(***************************************************************************)
(* ResponseCache for a choice of requests which differ in what a key is    *)
(* made of.                                                                *)
(***************************************************************************)
EXTENDS ResponseCache, TLC

CONSTANTS page, pageOf, merged, form, list, s1, s2, b1, b2

Request(kind, method, res, session, body, noCache) ==
  [kind |-> kind, method |-> method, res |-> res, session |-> session,
   body |-> body, noCache |-> noCache]

\* A page, a merge and a form of one service, the list of a public one.
MCTag ==
  page :> "cnc" @@ pageOf :> "cnc" @@ merged :> "cnc" @@ form :> "cnc"
    @@ list :> "public"

\* pageOf is the page with the query sid=1: it is hashed like the page for the
\* session s1.  A body read in part is a part of it.
MCText ==
  page :> <<"/page">> @@ pageOf :> <<"/page", "sid=1">>
    @@ merged :> <<"/merged">> @@ form :> <<"/form">> @@ list :> <<"/list">>
    @@ s1 :> <<"sid=1">> @@ s2 :> <<"sid=2">>
    @@ b1 :> <<"{", "b1">> @@ b2 :> <<"{", "b2">> @@ Rest :> <<"b1">>

MCChars == {"/page", "/merged", "/form", "/list", "sid=1", "sid=2", "{", "b1",
            "b2"}

\* A request of every kind whose answers may be stored or found: a public one
\* past the cache, merges with and without a session for different bodies.
Cacheable ==
  { Request("cnc", "GET", pageOf, None, None, FALSE),
    Request("export", "GET", page, s1, None, FALSE),
    Request("stream", "GET", page, None, None, FALSE),
    Request("merge", "POST", merged, s1, b1, FALSE),
    Request("merge", "POST", merged, None, b2, FALSE),
    Request("public", "GET", list, s2, None, TRUE) }

\* A cacheable POST, the answer to which is never stored.
SubmitOnly == { Request("submit", "POST", form, s1, b1, FALSE) }

\* A page with and without a session.
PageOnly ==
  { Request("cnc", "GET", page, s1, None, FALSE),
    Request("cnc", "GET", page, None, None, FALSE) }

Conf(store, perSession, streaming) ==
  [store |-> store, perSession |-> perSession, streaming |-> streaming]

PerSession == [store : {"file", "redis"}, perSession : {TRUE},
               streaming : {FALSE}]

Shared == [store : {"file", "redis"}, perSession : {FALSE},
           streaming : {FALSE}]

\* Both stores with sessions kept apart, a streaming service, the answers of
\* which are cached for requests past the cache too, and no cache.
AllConfs ==
  PerSession \cup {Conf("redis", FALSE, TRUE), Conf("null", FALSE, FALSE)}
=============================================================================
