------------------------------- MODULE MCTreq -------------------------------
(***************************************************************************)
(* Treq for some requests and configurations.                              *)
(***************************************************************************)
EXTENDS Treq, TLC

CONSTANTS s1, s2, f1, f2, h1, h2

\* Two users, and the one APIGuard logs in as.
MCOwner == s1 :> 1 @@ s2 :> 2 @@ f1 :> 9 @@ f2 :> 9
MCIssued == <<f1, f2>>
NoTokens == <<>>

Anonymous == [front |-> None, back |-> None]

\* No cookie, cookies with different sessions or with the same, a frontend one
\* without a session.
Various ==
  { Anonymous,
    [front |-> s1, back |-> s2],
    [front |-> s1, back |-> s1],
    [front |-> Blank, back |-> s2] }

\* One handler is asked for everything beside one without parts.
MCRequests ==
  h1 :> ({"AnyPath"} \X Various) \cup ({"Subsets"} \X {Anonymous})
          \cup ({"WithExamples"} \X {[front |-> s1, back |-> s2]})
    @@ h2 :> {"AnyPath"} \X {Anonymous}

Plain ==
  [guard |-> "cncauth", session |-> "simple", db |-> TRUE, limits |-> FALSE,
   cookies |-> "own", key |-> FALSE, streaming |-> TRUE]

MCConfs ==
  { Plain,
    [Plain EXCEPT !.session = "cnc", !.cookies = "same", !.streaming = FALSE],
    [Plain EXCEPT !.session = "cnc", !.key = TRUE],
    [Plain EXCEPT !.db = FALSE, !.limits = TRUE] }

PlainConfs == {Plain}
=============================================================================
