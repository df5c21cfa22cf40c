---------------------------- MODULE TileRequests ----------------------------
(***************************************************************************)
(* The tile requests of one stream and how StartStream groups them         *)
(* (src/wagstream/conf.go, src/wagstream/dupreq.go).  A tile may declare   *)
(* that it reads the data of another tile; requests for the same data are  *)
(* put in one group and the head of the group is the request performed.    *)
(***************************************************************************)
EXTENDS Naturals, Sequences

CONSTANT None  \* a JSON member which is not there

\* The type request: TileID, QueryIdx, OtherTileID, OtherTileQueryIdx; URL,
\* Method and IsEventSource matter by the kind of service they ask for.
RequestsOver(tiles, queries, kinds) ==
  { r \in [tile : tiles, query : queries, otherTile : tiles \cup {None},
           otherQuery : queries \cup {None}, kind : kinds] :
      r.otherTile = None => r.otherQuery = None }

IsDependent(r) == r.otherTile # None

groupingKey(r) == <<IF IsDependent(r) THEN r.otherTile ELSE r.tile, r.query>>

\* Mutant of register: a request without a dependency replaces the group.
registerReplacing(groups, r) ==
  LET key == groupingKey(r)
      vals == IF key \in DOMAIN groups /\ IsDependent(r)
              THEN Append(groups[key], r)
              ELSE <<r>>
  IN  [k \in DOMAIN groups \cup {key} |-> IF k = key THEN vals ELSE groups[k]]

\* Mutant of register: every request goes to the end.
registerAppending(groups, r) ==
  LET key == groupingKey(r)
      vals == IF key \in DOMAIN groups THEN Append(groups[key], r) ELSE <<r>>
  IN  [k \in DOMAIN groups \cup {key} |-> IF k = key THEN vals ELSE groups[k]]

\* groupedRequests.register; groups maps a key to the requests of the group.
register(groups, r) ==
  LET key == groupingKey(r)
      vals == IF key \notin DOMAIN groups THEN <<r>>
              ELSE IF IsDependent(r) THEN Append(groups[key], r)
              ELSE <<r>> \o groups[key]
  IN  [k \in DOMAIN groups \cup {key} |-> IF k = key THEN vals ELSE groups[k]]

\* The loop of StartStream which registers the requests one by one.
Grouped(requests) ==
  LET upTo[i \in 0..Len(requests)] ==
        IF i = 0 THEN <<>> ELSE register(upTo[i - 1], requests[i])
  IN  upTo[Len(requests)]

\* valIter yields the head of each group as the request to perform; the worker
\* labels the answer with its ident, so the other members get none.
performed(groups, k) == Head(groups[k])
=============================================================================
