--------------------------- MODULE StreamRegistry ---------------------------
(***************************************************************************)
(* The streams clients have created and not read yet (streams.go) from     *)
(* CreateStream, which stores a list of tile requests under a new id, to   *)
(* StartStream, which looks the id up and groups the requests, see         *)
(* TileGroups.  A goroutine removes old streams: it makes a filtered copy  *)
(* of the map and then replaces the map by it.                             *)
(***************************************************************************)
EXTENDS TileGroups

CONSTANTS
  Ids,     \* uuids of streams
  Lists,   \* Lists[id]: what may be posted to become stream id
  MaxAge,  \* maxRecAge
  Period   \* of the ticker which starts the cleanup

ASSUME StreamRegistryAssumption ==
  /\ Lists \in [Ids -> SUBSET Seq(Request)]
  /\ MaxAge \in Nat /\ Period \in Nat \ {0}

VARIABLES
  data,     \* streams.data
  copy,     \* None or the copy the cleanup has made
  age,      \* age[id]: None or how long ago it was created, MaxAge + 1 at most
  phase,    \* time since the ticker's last tick
  due,      \* the ticker has ticked
  raced,    \* streams added while a copy was there
  started   \* None or the stream which is being read

rvars == <<data, copy, age, phase, due, raced, started>>
vars == <<gvars, rvars>>

Init ==
  /\ GInit
  /\ data = <<>>
  /\ copy = None
  /\ age = [id \in Ids |-> None]
  /\ phase = 0
  /\ due = FALSE
  /\ raced = {}
  /\ started = None

\* streams.Add: the map it writes to may be about to be replaced.
CreateStream(id) ==
  /\ age[id] = None
  /\ \E list \in Lists[id] :
       data' = [i \in DOMAIN data \cup {id} |->
                  IF i = id THEN list ELSE data[i]]
  /\ age' = [age EXCEPT ![id] = 0]
  /\ raced' = IF copy # None THEN raced \cup {id} ELSE raced
  /\ UNCHANGED <<gvars, copy, phase, due, started>>

\* StartStream up to the groups; an id which is not there is answered by 404.
\* The stream stays and may be read again.
StartStream(id) ==
  /\ started = None
  /\ id \in DOMAIN data
  /\ started' = id
  /\ args' = data[id]
  /\ groups' = Grouped(data[id])
  /\ UNCHANGED <<data, copy, age, phase, due, raced>>

\* The rest of StartStream is WagStream.
EndStream ==
  /\ started # None
  /\ started' = None
  /\ args' = <<>> /\ groups' = <<>>
  /\ UNCHANGED <<data, copy, age, phase, due, raced>>

Elapse ==
  /\ age' = [id \in Ids |-> IF age[id] = None \/ age[id] > MaxAge THEN age[id]
                            ELSE age[id] + 1]
  /\ phase' = (phase + 1) % Period
  /\ due' = (due \/ phase' = 0)
  /\ UNCHANGED <<gvars, data, copy, raced, started>>

\* Mutant of Filter: the age at which a stream is removed is off by one.
FilterEarly == {id \in DOMAIN data : age[id] < MaxAge}

Filter == {id \in DOMAIN data : age[id] <= MaxAge}

\* cleanup(): the copy, ...
CleanupCopies ==
  /\ due /\ copy = None
  /\ copy' = [id \in Filter |-> data[id]]
  /\ due' = FALSE
  /\ UNCHANGED <<gvars, data, age, phase, raced, started>>

\* Mutant of CleanupAssigns: the copy is never used.
CleanupForgets ==
  /\ copy # None
  /\ copy' = None
  /\ UNCHANGED <<gvars, data, age, phase, due, raced, started>>

\* ... and the assignment.
CleanupAssigns ==
  /\ copy # None
  /\ data' = copy
  /\ copy' = None
  /\ UNCHANGED <<gvars, age, phase, due, raced, started>>

Next ==
  \/ \E id \in Ids : CreateStream(id) \/ StartStream(id)
  \/ EndStream
  \/ Elapse
  \/ CleanupCopies
  \/ CleanupAssigns

Spec == Init /\ [][Next]_vars

\* Time goes on and the goroutine of NewActions runs.
FairSpec ==
  Spec /\ WF_vars(Elapse) /\ WF_vars(CleanupCopies \/ CleanupAssigns)

-----------------------------------------------------------------------------
(* Properties. *)

\* A stream which is not older than maxRecAge can be started, whatever cleanups
\* there were since it was created (streams.go:58-64), unless it was added
\* between the copy and the assignment of one.
FreshStreamIsFound ==
  \A id \in Ids :
    age[id] \in 0..MaxAge /\ id \notin raced => id \in DOMAIN data

\* Streams do not pile up: each is removed in the end, whether or not somebody
\* read it.
StreamsAreForgotten ==
  \A id \in Ids : id \in DOMAIN data ~> id \notin DOMAIN data
=============================================================================
