----------------------------- MODULE TileGroups -----------------------------
(***************************************************************************)
(* The groups of the stream which is being read, as StartStream makes them *)
(* (src/wagstream/handler.go:123-126), with a declarative definition of    *)
(* the groups that must come out of the loop.                              *)
(***************************************************************************)
EXTENDS TileRequests, SelectedItems, SequencesExt

CONSTANTS Tiles, Queries

ASSUME TileGroupsAssumption ==
  /\ Tiles \subseteq Nat
  /\ Queries \subseteq Nat
  /\ None \notin Nat

VARIABLES
  args,   \* args.Requests
  groups  \* groupedRequests

gvars == <<args, groups>>

Request == RequestsOver(Tiles, Queries, {"api"})

GInit == args = <<>> /\ groups = <<>>

-----------------------------------------------------------------------------

\* The key of the data a request asks for.  OtherTileQueryIdx is there "to
\* address a concrete query in the other tile" (conf.go:47-50); groupingKey does
\* not look at it.
AddressedKey(r) ==
  IF IsDependent(r) /\ r.otherQuery # None THEN <<r.otherTile, r.otherQuery>>
                                           ELSE groupingKey(r)

Addressed(requests) == { AddressedKey(requests[i]) : i \in DOMAIN requests }

\* The keys of groups with a request too many, which asks for other data than
\* groupingKey says, or with that request missing.
Misgrouped(requests) ==
  LET misled == { i \in DOMAIN requests :
                    groupingKey(requests[i]) # AddressedKey(requests[i]) }
  IN  { groupingKey(requests[i]) : i \in misled }
        \cup { AddressedKey(requests[i]) : i \in misled }

\* The requests for the given data which are or are not dependent.
Members(key, dependent) ==
  { r \in Request : AddressedKey(r) = key /\ IsDependent(r) = dependent }

\* The group of a key: the requests without a dependency, last one first, then
\* the dependent ones in their order.
ReferenceGroup(requests, key) ==
  Reverse(Selected(requests, Members(key, FALSE)))
    \o Selected(requests, Members(key, TRUE))

\* Registering in any order gives the groups of the reference: no request is
\* lost or put in two groups however independent and dependent ones interleave
\* (groupedRequests.register, dupreq.go:33-49), and each is in the group of the
\* data it asks for.  Excepted are the two groups concerned by a request whose
\* OtherTileQueryIdx differs from its QueryIdx: the code puts it in the group of
\* QueryIdx (groupingKey, conf.go:85-94), against the documentation of the field.
GroupsMatchReference ==
  LET wrong == Misgrouped(args)
  IN  Restrict(groups, DOMAIN groups \ wrong)
        = [key \in Addressed(args) \ wrong |-> ReferenceGroup(args, key)]

\* "request without a dependency must be always first" (dupreq.go:37): a group
\* is performed through a dependent request only if nothing else is in it.
IndependentFirst ==
  \A k \in DOMAIN groups :
    /\ groups[k] # <<>>
    /\ IsDependent(performed(groups, k)) =>
         \A i \in DOMAIN groups[k] : IsDependent(groups[k][i])
=============================================================================
