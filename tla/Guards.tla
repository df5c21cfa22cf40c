------------------------------- MODULE Guards -------------------------------
(***************************************************************************)
(* The guards which decide about a request (src/guard): cncauth, token,    *)
(* dflt and null, with the sessions (src/session) and the finders of users *)
(* (src/guard/user.go) they use.  A guard is a function of the request, of *)
(* the sessions alive and of the rate limiter of the address the request   *)
(* comes from; a database may fail, so what it answers is a set.           *)
(***************************************************************************)
EXTENDS Integers

CONSTANTS
  None,       \* no cookie, no header
  Blank,      \* the value of a cookie which holds no session
  Sessions,   \* values of session cookies
  Short,      \* those of fewer than twelve characters
  Owner,      \* the user of each session
  Tokens,     \* the tokens configured for a service
  TokenUser,  \* TokenConf.UserID of each token
  Burst       \* BurstLimit of the first of the limits

Cookies == Sessions \cup {None, Blank}

ASSUME GuardsAssumption ==
  /\ None # Blank /\ {None, Blank} \cap (Sessions \cup Tokens) = {}
  /\ Short \subseteq Sessions
  /\ Owner \in [Sessions -> Nat \ {0}]
  /\ TokenUser \in [Tokens -> Nat \ {0}]
  /\ Burst \in Nat \ {0}

InvalidUserID == -1
ZeroUserID == 0          \* what a UserID holds before it is assigned
Users == {Owner[s] : s \in Sessions} \cup {TokenUser[t] : t \in Tokens}
           \cup {InvalidUserID, ZeroUserID}

IsValid(u) == u > InvalidUserID

-----------------------------------------------------------------------------
(* Sessions and users. *)

\* The session a cookie of a service stands for, None if it is the zero one.
UpdatedFrom(c, cookie) ==
  IF c.session = "none" \/ cookie = Blank THEN None ELSE cookie

\* Found(u) a user, Broken a failed query, Panic a value without a selector: a
\* simple session takes the first twelve characters of what it is given, also
\* when there are fewer.
Found(u) == [user |-> u, err |-> FALSE, panic |-> FALSE]
Broken   == [user |-> InvalidUserID, err |-> TRUE, panic |-> FALSE]
Panic    == [user |-> InvalidUserID, err |-> FALSE, panic |-> TRUE]

NilUserFinder == {Found(InvalidUserID)}

SQLUserFinder(s, live) ==
  {Broken, Found(IF s \in live THEN Owner[s] ELSE InvalidUserID)}

FindUserBySession(c, s, live) ==
  CASE ~c.db -> NilUserFinder
    [] c.db /\ c.session = "simple" /\ s \in Short \cup {None} -> {Panic}
    [] OTHER -> SQLUserFinder(s, live)

-----------------------------------------------------------------------------
(* The rate limiter (external): a bucket of tokens per address, made full    *)
(* when an address is first met.                                             *)

Fresh == -1

\* Mutant of Level: a limiter is made anew for every request.
LevelAnew(bucket) == Burst

Level(bucket) == IF bucket = Fresh THEN Burst ELSE bucket
Allow(c, bucket) == ~c.limits \/ Level(bucket) > 0

\* NilStorage, the only telemetry storage there is, bans nobody.
TestIPBan == FALSE

-----------------------------------------------------------------------------
(* Evaluations.  `asked' tells that the limiter was asked.                   *)

Evaluation(status, client, err, fallback, asked) ==
  [status |-> status, client |-> client, err |-> err, fallback |-> fallback,
   asked |-> asked, panic |-> FALSE]

ForbidsAccess(e) == e.status >= 400 /\ e.status < 500

\* What every guard ends with.
Throttled(c, bucket, client, fallback) ==
  CASE ~Allow(c, bucket) -> Evaluation(429, client, FALSE, fallback, c.limits)
    [] Allow(c, bucket) /\ TestIPBan ->
         Evaluation(403, ZeroUserID, FALSE, fallback, c.limits)
    [] OTHER -> Evaluation(200, client, FALSE, fallback, c.limits)

GetFrontendOrBackendSession(c, r) ==
  IF UpdatedFrom(c, r.front) # None THEN UpdatedFrom(c, r.front)
  ELSE UpdatedFrom(c, r.back)

\* cncauth: what follows once a user was looked for.
CNCAuthFound(c, f, needs, bucket) ==
  CASE f.panic -> [Evaluation(500, ZeroUserID, TRUE, needs, FALSE)
                     EXCEPT !.panic = TRUE]
    [] ~f.panic /\ f.err -> Evaluation(500, InvalidUserID, TRUE, needs, FALSE)
    [] ~f.panic /\ ~f.err /\ ~IsValid(f.user) ->
         IF c.db THEN Evaluation(401, ZeroUserID, FALSE, TRUE, FALSE)
         ELSE Evaluation(200, InvalidUserID, FALSE, FALSE, FALSE)
    [] OTHER -> Throttled(c, bucket, f.user, needs)

\* The session is the one of the request or else the one of the fallback.
CNCAuthEvaluate(c, r, fallback, live, bucket) ==
  LET s == GetFrontendOrBackendSession(c, r)
      needs == s = None
      used == IF needs THEN fallback ELSE s
  IN IF needs /\ fallback = None
     THEN {Evaluation(401, InvalidUserID, TRUE, TRUE, FALSE)}
     ELSE {CNCAuthFound(c, f, needs, bucket) :
             f \in FindUserBySession(c, UpdatedFrom(c, used), live)}

ValidateToken(r) ==
  IF r.token \in Tokens THEN TokenUser[r.token] ELSE InvalidUserID

TokenEvaluate(c, r, bucket) ==
  IF ~IsValid(ValidateToken(r)) /\ ~r.openapi
  THEN {Evaluation(401, InvalidUserID, TRUE, FALSE, FALSE)}
  ELSE {Throttled(c, bucket, ValidateToken(r), FALSE)}

DfltEvaluate(c, bucket) == {Throttled(c, bucket, ZeroUserID, FALSE)}

NullEvaluate == {Evaluation(200, ZeroUserID, FALSE, FALSE, FALSE)}

EvaluateRequest(c, r, fallback, live, bucket) ==
  CASE c.guard = "cncauth" -> CNCAuthEvaluate(c, r, fallback, live, bucket)
    [] c.guard = "token"   -> TokenEvaluate(c, r, bucket)
    [] c.guard = "dflt"    -> DfltEvaluate(c, bucket)
    [] c.guard = "null"    -> NullEvaluate

\* The level of the limiter after an evaluation.
Spent(bucket, e) ==
  CASE ~e.asked -> bucket
    [] e.asked /\ e.status = 429 -> 0
    [] OTHER -> Level(bucket) - 1

-----------------------------------------------------------------------------
(* Who the human behind a request is.                                        *)

CNCAuthTrueUser(c, r, live) ==
  IF r.back = None THEN {Found(InvalidUserID)}
  ELSE FindUserBySession(c, UpdatedFrom(c, r.back), live)

DetermineTrueUserID(c, r, live) ==
  CASE c.guard = "cncauth" -> CNCAuthTrueUser(c, r, live)
    [] c.guard = "token"   -> {Found(ValidateToken(r))}
    [] c.guard \in {"dflt", "null"} -> {Found(InvalidUserID)}
=============================================================================
