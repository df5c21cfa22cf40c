--------------------------- MODULE StreamContract ---------------------------
(***************************************************************************)
(* What a wagstream data stream promises to the page that opened it,       *)
(* without goroutines, channels or tickers: the parts of each group's      *)
(* answer arrive in the order in which the backend produced them, none     *)
(* twice and none skipped, and the close event is sent only when every     *)
(* backend has ended its answer and all of it has been written.            *)
(***************************************************************************)
EXTENDS Naturals, Sequences

CONSTANTS
  Groups,       \* the groups of tile requests of the stream
  StreamGroups  \* those answered in chunks (request.IsEventSource)

VARIABLES
  made,   \* made[g]: the parts g's backend has produced so far
  ended,  \* ended[g]: there will be no more of them
  got,    \* got[g]: the parts written to the client, in order
  phase   \* "open", "closed" (close event written) or "broken"

cvars == <<made, ended, got, phase>>

CInit ==
  /\ made = [g \in Groups |-> 0]
  /\ ended = [g \in Groups |-> FALSE]
  /\ got = [g \in Groups |-> <<>>]
  /\ phase = "open"

\* One more chunk of a streamed answer.
Produce(g) ==
  /\ g \in StreamGroups
  /\ ~ended[g]
  /\ made' = [made EXCEPT ![g] = @ + 1]
  /\ UNCHANGED <<ended, got, phase>>

\* The end of a streamed answer; any other answer is a single part.
End(g) ==
  /\ ~ended[g]
  /\ ended' = [ended EXCEPT ![g] = TRUE]
  /\ made' = IF g \in StreamGroups THEN made ELSE [made EXCEPT ![g] = 1]
  /\ UNCHANGED <<got, phase>>

\* The next part of g's answer is written.
Deliver(g) ==
  /\ phase = "open"
  /\ Len(got[g]) < made[g]
  /\ got' = [got EXCEPT ![g] = Append(@, Len(@) + 1)]
  /\ UNCHANGED <<made, ended, phase>>

\* The close event: nothing is outstanding.
Close ==
  /\ phase = "open"
  /\ \A g \in Groups : ended[g] /\ Len(got[g]) = made[g]
  /\ phase' = "closed"
  /\ UNCHANGED <<made, ended, got>>

\* The client went away.
Break ==
  /\ phase = "open"
  /\ phase' = "broken"
  /\ UNCHANGED <<made, ended, got>>

CNext ==
  \/ \E g \in Groups : Produce(g) \/ End(g) \/ Deliver(g)
  \/ Close
  \/ Break

CSpec == CInit /\ [][CNext]_cvars
=============================================================================
