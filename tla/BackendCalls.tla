---------------------------- MODULE BackendCalls ----------------------------
(***************************************************************************)
(* What a call of a backend may come back with (src/services/cnc/common.go,*)
(* src/proxy): found in the cache, answered by 200 or by another status,   *)
(* failed, or the cache failed.                                            *)
(***************************************************************************)
EXTENDS Integers

CoreProxyRequest == {"ok", "other", "fail"}

\* A failed cache is all HandleRequest comes back with.
HandleRequest(useCache) ==
  CoreProxyRequest \cup IF useCache THEN {"hit", "cacheErr"} ELSE {}

\* These two call the backend though the cache has failed; what Error() is
\* then is looked at for the latter only.
MakeStreamRequest == CoreProxyRequest \cup {"hit"}
MakeCacheablePOSTRequest == CoreProxyRequest \cup {"hit", "cacheErr"}

HasError(x) == x \in {"fail", "cacheErr"}

\* A redirect stands for all the statuses a backend may answer by but 200.
GetStatusCode(x) ==
  CASE x \in {"hit", "cacheErr"} -> 0
    [] x = "ok" -> 200
    [] x = "other" -> 302
    [] x = "fail" -> 500
=============================================================================
