----------------------------- MODULE MCGateway -----------------------------
(***************************************************************************)
(* Gateway for a choice of services, configurations and requests.          *)
(***************************************************************************)
EXTENDS Gateway, TLC

CONSTANTS s1, s2, t1, ip1, h1, h2

MCOwner == s1 :> 1 @@ s2 :> 2
MCTokenUser == t1 :> 3

Request(ip, front, back, token, openapi) ==
  [ip |-> ip, front |-> front, back |-> back, token |-> token,
   openapi |-> openapi]

\* Cookies of both kinds, one or the other or none, with or without a session;
\* a known token, an unknown one and the open path.
Various ==
  { Request(ip1, None, None, Blank, FALSE),
    Request(ip1, s1, s2, t1, FALSE),
    Request(ip1, Blank, s2, None, FALSE),
    Request(ip1, s1, Blank, t1, FALSE),
    Request(ip1, s1, s1, None, FALSE),
    Request(ip1, None, None, None, TRUE) }

\* A client with a session and a token.
Usual == { Request(ip1, None, s2, t1, FALSE) }

Simple == {"AnyPath", "Preflight", "Login", "PublicAnyPath"}

\* One handler is asked for everything, in various ways for what is simple,
\* beside one which serves usual requests to any path.
MCRequests ==
  h1 :> (Simple \X Various) \cup (HandlerKinds \X Usual)
    @@ h2 :> {"AnyPath", "PublicAnyPath"} \X Usual

Plain(service, guard, session) ==
  [service |-> service, guard |-> guard, session |-> session, db |-> FALSE,
   limits |-> TRUE, cookies |-> "none", key |-> FALSE, header |-> FALSE,
   simplified |-> FALSE, streaming |-> FALSE]

MCConfs ==
  { [Plain("mquery", "cncauth", "cnc") EXCEPT !.db = TRUE, !.cookies = "own"],
    [Plain("mquery", "cncauth", "simple") EXCEPT !.db = TRUE, !.cookies = "own",
                                                 !.limits = FALSE],
    [Plain("mquery", "cncauth", "cnc") EXCEPT !.streaming = TRUE],
    [Plain("kontext", "cncauth", "cnc") EXCEPT !.db = TRUE, !.cookies = "own",
                                               !.key = TRUE, !.header = TRUE,
                                               !.simplified = TRUE],
    [Plain("kontext", "cncauth", "cnc") EXCEPT !.db = TRUE, !.cookies = "same"],
    [Plain("kontext", "null", "none") EXCEPT !.streaming = TRUE],
    [Plain("wss", "dflt", "none") EXCEPT !.streaming = TRUE],
    Plain("wss", "token", "none"),
    Plain("frodo", "token", "none"),
    Plain("scollex", "dflt", "none"),
    [Plain("hex", "dflt", "none") EXCEPT !.db = TRUE, !.header = TRUE],
    [Plain("kwords", "dflt", "none") EXCEPT !.header = TRUE],
    Plain("gunstick", "dflt", "none") }
=============================================================================
