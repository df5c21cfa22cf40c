------------------------------ MODULE Services ------------------------------
(***************************************************************************)
(* The services APIGuard stands before, as their factories create them     *)
(* (src/services/backend/*/factory.go): the guards a service supports, the *)
(* handlers its routes lead to, whether it counts requests for the alarm   *)
(* and whether the counter of its guard is read.                           *)
(***************************************************************************)

\* The first handlers are those of services/cnc, the last one is that of
\* proxy/public.
HandlerKinds ==
  {"AnyPath", "Preflight", "Login", "MergeFreqs", "Speeches",
   "TimeDistAltWord", "CollocationsTT", "QuerySubmitAndView", "PublicAnyPath"}

Service(guards, kinds, alarm, runs) ==
  [guards |-> guards, kinds |-> kinds, alarm |-> alarm, runs |-> runs]

\* The route of the login is compared with "login", while a path the router
\* gives starts with a slash: a POST of /login is handled by AnyPath.
MQuery ==
  Service({"token", "dflt", "cncauth"},
          {"AnyPath", "Preflight", "MergeFreqs", "Speeches", "TimeDistAltWord"},
          TRUE, FALSE)

\* As above, no Login.
Frodo == Service({"token", "dflt"}, {"AnyPath", "Preflight"}, TRUE, FALSE)

Scollex == Service({"token", "dflt"}, {"AnyPath"}, TRUE, FALSE)

\* Here it is "/login".
KonText ==
  Service({"null", "cncauth"},
          {"AnyPath", "Preflight", "Login", "QuerySubmitAndView"}, TRUE, FALSE)

\* The guard which runs is not the one of the handlers, which never count.
WSS == Service({"token", "dflt"}, {"AnyPath", "CollocationsTT"}, TRUE, TRUE)

\* Mutant of Gunstick: go grd.Run() is missing.
GunstickNotRun == Service({"dflt"}, {"PublicAnyPath"}, FALSE, FALSE)

Gunstick == Service({"dflt"}, {"PublicAnyPath"}, FALSE, TRUE)

Hex == Service({"dflt"}, {"PublicAnyPath"}, FALSE, TRUE)

KWords == Service({"dflt"}, {"PublicAnyPath"}, FALSE, TRUE)

ServiceInitializers ==
  [mquery |-> MQuery, frodo |-> Frodo, scollex |-> Scollex,
   kontext |-> KonText, wss |-> WSS, gunstick |-> Gunstick, hex |-> Hex,
   kwords |-> KWords]

\* What a service answers with for a redirect of its backend: Hex makes a page
\* of the redirect which says that nothing was found.
Interceptor(service, status) ==
  IF service = "hex" /\ status = 302 THEN {200, 302} ELSE {status}
=============================================================================
