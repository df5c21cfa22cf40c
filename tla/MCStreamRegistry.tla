-------------------------- MODULE MCStreamRegistry --------------------------
(***************************************************************************)
(* A stream of any short list of requests beside an empty one.             *)
(***************************************************************************)
EXTENDS StreamRegistry, TLC

CONSTANTS
  id1, id2,
  MaxRequests  \* bound: requests of a stream

\* Two tiles with a query each, or a tile with two queries.
TwoTiles == RequestsOver(Tiles, {0}, {"api"})
TwoQueries == RequestsOver({1}, Queries, {"api"})

MCLists ==
  id1 :> SeqOf(TwoTiles, MaxRequests) \cup SeqOf(TwoQueries, 2)
    @@ id2 :> {<<>>}

\* Selected does what SelectSeq does.
ASSUME SelectedAssumption ==
  \A s \in SeqOf(1..3, 4), P \in SUBSET (1..3) :
    LET inP(x) == x \in P IN Selected(s, P) = SelectSeq(s, inP)
=============================================================================
