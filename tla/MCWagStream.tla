---------------------------- MODULE MCWagStream ----------------------------
(***************************************************************************)
(* WagStream for concrete lists of tile requests, grouped by TileRequests. *)
(***************************************************************************)
EXTENDS WagStream, TileRequests

CONSTANT Requests  \* args.Requests

Ask(tile, kind) ==
  [tile |-> tile, query |-> 0, otherTile |-> None, otherQuery |-> None,
   kind |-> kind]

Share(tile, other) ==
  [tile |-> tile, query |-> 0, otherTile |-> other, otherQuery |-> 0,
   kind |-> "empty"]

\* A data API and an EventSource API.
ApiAndStream == <<Ask(1, "api"), Ask(2, "es")>>

\* A tile without data and an EventSource API read by another tile as well,
\* whose own request comes first.
EmptyAndShared == <<Share(3, 1), Ask(1, "es"), Ask(2, "empty")>>

\* One EventSource API: the smallest channel a stream can have.
OneStream == <<Ask(1, "es")>>

MCGrouped == Grouped(Requests)
MCGroups == DOMAIN MCGrouped
MCKind == [k \in MCGroups |-> performed(MCGrouped, k).kind]
MCCapacity == 2 * Len(Requests)
=============================================================================
