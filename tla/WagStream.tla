------------------------------ MODULE WagStream ------------------------------
(***************************************************************************)
(* One data stream of the WaG streaming API: Actions.StartStream of        *)
(* src/wagstream/handler.go with the writers of apiwriter.go and           *)
(* eswriter.go.  The handler groups the tile requests (module TileGroups), *)
(* starts one worker goroutine per group, a forwarder goroutine for each   *)
(* group whose backend is itself an EventSource, a ping goroutine driven   *)
(* by a ticker and a closer goroutine; all of them share one buffered      *)
(* channel which the handler itself (the consumer) drains into the HTTP    *)
(* response.                                                               *)
(*                                                                         *)
(* A send on a closed channel and a nil dereference in one of these        *)
(* goroutines are not recovered by anybody: they end the whole process,    *)
(* here crashed.                                                           *)
(***************************************************************************)
EXTENDS Naturals, Sequences, FiniteSets, SelectedItems

CONSTANTS
  Groups,              \* keys of groupedRequests
  Kind,                \* Kind[g]: how the head of the group is served
  Capacity,            \* capacity of responseCh: len(args.Requests) * 2
  EsCap,               \* esAPIWriterChanBufferSize
  Malformed,           \* groups whose method or URL may be no legal one
  NoFlush,             \* groups routed to a handler which may skip Flush
  ContextWithFallback, \* gin's switch which makes ctx.Done() deliver
  MaxChunks            \* bound: chunks a backend writes per group

\* "empty": the URL is empty; "es": IsEventSource; "api": any other.
Kinds == {"empty", "es", "api"}

ASSUME WagStreamAssumption ==
  /\ IsFiniteSet(Groups)
  /\ Kind \in [Groups -> Kinds]
  /\ Capacity \in Nat \ {0}
  /\ EsCap \in Nat \ {0}
  /\ Malformed \subseteq Groups
  /\ NoFlush \subseteq Groups
  /\ ContextWithFallback \in BOOLEAN
  /\ MaxChunks \in Nat

VARIABLES
  main,     \* the handler: "spawn", "loop", then how it returned
  client,   \* the connection to the browser: "connected" or "gone"
  out,      \* out[g]: parts of g's answer written to the response
  ch,       \* responseCh
  closed,   \* responseCh has been closed
  wg,       \* the WaitGroup's counter
  worker,   \* worker[g]: the goroutine serving group g
  fwd,      \* fwd[g]: the goroutine forwarding g's EventSource chunks
  held,     \* held[g]: the chunk that goroutine is about to send
  es,       \* es[g]: the channel in g's ESAPIWriter
  esClosed, \* es[g] has been closed by Flush
  written,  \* written[g]: parts of the answer g's backend has produced
  okStatus, \* okStatus[g]: its HTTP status is 2xx
  ticking,  \* the ping ticker has not been stopped
  tick,     \* a tick waits in ticker.C
  ping,     \* the ping goroutine: "range" or "send"
  closer,   \* the goroutine waiting for wg
  crashed   \* an unrecovered panic ended the process

clientVars == <<main, client, out>>
chanVars   == <<ch, closed>>
esVars     == <<es, esClosed, written, okStatus>>
workVars   == <<worker, fwd, held, wg>>
tickVars   == <<ticking, tick, ping>>
vars == <<clientVars, chanVars, esVars, workVars, tickVars, closer, crashed>>

PingResp == [type |-> "ping"]

\* StreamingReadyResp: the one part of an answer which is not streamed.
ReadyResp(g) == [type |-> "ready", g |-> g, n |-> 1, ok |-> TRUE]

\* RawStreamingReadyResp with the status the writer has at that time.
RawResp(g, n) == [type |-> "raw", g |-> g, n |-> n, ok |-> okStatus[g]]

Message ==
  {PingResp} \cup
  [type : {"ready", "raw"}, g : Groups, n : Nat, ok : BOOLEAN]

TypeOK ==
  /\ main \in {"spawn", "loop", "closed", "aborted", "cancelled"}
  /\ client \in {"connected", "gone"}
  /\ out \in [Groups -> Seq(Nat)]
  /\ ch \in Seq(Message)
  /\ closed \in BOOLEAN
  /\ wg \in Nat
  /\ worker \in
       [Groups -> {"unborn", "start", "serve", "respond", "done", "finished"}]
  /\ fwd \in [Groups -> {"unborn", "range", "send", "finished"}]
  /\ held \in [Groups -> Nat]
  /\ es \in [Groups -> Seq(Nat)]
  /\ esClosed \in [Groups -> BOOLEAN]
  /\ written \in [Groups -> Nat]
  /\ okStatus \in [Groups -> BOOLEAN]
  /\ ticking \in BOOLEAN
  /\ tick \in BOOLEAN
  /\ ping \in {"range", "send"}
  /\ closer \in {"unborn", "wait", "stop", "close", "finished"}
  /\ crashed \in BOOLEAN

Init ==
  /\ main = "spawn"
  /\ client = "connected"
  /\ out = [g \in Groups |-> <<>>]
  /\ ch = <<>>
  /\ closed = FALSE
  /\ wg = 0
  /\ worker = [g \in Groups |-> "unborn"]
  /\ fwd = [g \in Groups |-> "unborn"]
  /\ held = [g \in Groups |-> 0]
  /\ es = [g \in Groups |-> <<>>]
  /\ esClosed = [g \in Groups |-> FALSE]
  /\ written = [g \in Groups |-> 0]
  /\ okStatus = [g \in Groups |-> TRUE]
  /\ ticking = TRUE
  /\ tick = FALSE
  /\ ping = "range"
  /\ closer = "unborn"
  /\ crashed = FALSE

-----------------------------------------------------------------------------
(* responseCh.  A send blocks while the buffer is full and panics once the *)
(* channel is closed, also when it was blocked before the close.           *)

Send(m) ==
  /\ closed \/ Len(ch) < Capacity
  /\ ch' = IF closed THEN ch ELSE Append(ch, m)
  /\ crashed' = closed
  /\ UNCHANGED closed

-----------------------------------------------------------------------------
(* The handler up to its loop. *)

\* Mutant of Spawn: wg.Add(1) is forgotten.
SpawnWithoutAdd(g) ==
  /\ ~crashed
  /\ main = "spawn"
  /\ worker[g] = "unborn"
  /\ worker' = [worker EXCEPT ![g] = "start"]
  /\ UNCHANGED <<clientVars, chanVars, esVars, fwd, held, wg, tickVars, closer,
                 crashed>>

\* wg.Add(1) and the start of g's worker, in the map's random order.
Spawn(g) ==
  /\ ~crashed
  /\ main = "spawn"
  /\ worker[g] = "unborn"
  /\ wg' = wg + 1
  /\ worker' = [worker EXCEPT ![g] = "start"]
  /\ UNCHANGED <<clientVars, chanVars, esVars, fwd, held, tickVars, closer,
                 crashed>>

\* All groups have a worker: start the closer and enter the loop.
StartCloser ==
  /\ ~crashed
  /\ main = "spawn"
  /\ \A g \in Groups : worker[g] # "unborn"
  /\ main' = "loop"
  /\ closer' = "wait"
  /\ UNCHANGED <<client, out, chanVars, esVars, workVars, tickVars, crashed>>

-----------------------------------------------------------------------------
(* Workers. *)

\* The result of http.NewRequest is used without looking at its error: if it
\* rejects the method or the URL, the worker dereferences nil.
StartInvalid(g) ==
  /\ ~crashed
  /\ worker[g] = "start"
  /\ g \in Malformed
  /\ crashed' = TRUE
  /\ UNCHANGED <<clientVars, chanVars, esVars, workVars, tickVars, closer>>

StartEmpty(g) ==
  /\ ~crashed
  /\ worker[g] = "start"
  /\ Kind[g] = "empty"
  /\ worker' = [worker EXCEPT ![g] = "respond"]
  /\ written' = [written EXCEPT ![g] = 1]
  /\ UNCHANGED <<clientVars, chanVars, es, esClosed, okStatus, fwd, held, wg,
                 tickVars, closer, crashed>>

StartEventSource(g) ==
  /\ ~crashed
  /\ worker[g] = "start"
  /\ Kind[g] = "es"
  /\ worker' = [worker EXCEPT ![g] = "serve"]
  /\ fwd' = [fwd EXCEPT ![g] = "range"]
  /\ UNCHANGED <<clientVars, chanVars, esVars, held, wg, tickVars, closer,
                 crashed>>

StartApi(g) ==
  /\ ~crashed
  /\ worker[g] = "start"
  /\ Kind[g] = "api"
  /\ worker' = [worker EXCEPT ![g] = "serve"]
  /\ UNCHANGED <<clientVars, chanVars, esVars, fwd, held, wg, tickVars, closer,
                 crashed>>

\* Mutant of ApiServed: wg.Done() is called before the response is sent.
ApiServedAndDone(g) ==
  /\ ~crashed
  /\ worker[g] = "serve"
  /\ Kind[g] = "api"
  /\ worker' = [worker EXCEPT ![g] = "respond"]
  /\ written' = [written EXCEPT ![g] = 1]
  /\ wg' = wg - 1
  /\ UNCHANGED <<clientVars, chanVars, es, esClosed, okStatus, fwd, held,
                 tickVars, closer, crashed>>

\* ServeHTTP into an APIWriter returns; all the data are in its buffer.
ApiServed(g) ==
  /\ ~crashed
  /\ worker[g] = "serve"
  /\ Kind[g] = "api"
  /\ worker' = [worker EXCEPT ![g] = "respond"]
  /\ written' = [written EXCEPT ![g] = 1]
  /\ UNCHANGED <<clientVars, chanVars, es, esClosed, okStatus, fwd, held, wg,
                 tickVars, closer, crashed>>

Respond(g) ==
  /\ ~crashed
  /\ worker[g] = "respond"
  /\ Send(ReadyResp(g))
  /\ worker' = [worker EXCEPT ![g] = "done"]
  /\ UNCHANGED <<clientVars, esVars, fwd, held, wg, tickVars, closer>>

WorkerDone(g) ==
  /\ ~crashed
  /\ worker[g] = "done"
  /\ wg' = wg - 1
  /\ worker' = [worker EXCEPT ![g] = "finished"]
  /\ UNCHANGED <<clientVars, chanVars, esVars, fwd, held, tickVars, closer,
                 crashed>>

-----------------------------------------------------------------------------
(* EventSource backends: the route handler runs in the worker and writes   *)
(* chunks; ESAPIWriter.Write blocks while its channel is full.             *)

\* Mutant of EsWrite: a chunk for which there is no room is dropped.
EsWriteDrops(g) ==
  /\ ~crashed
  /\ worker[g] = "serve"
  /\ Kind[g] = "es"
  /\ written[g] < MaxChunks
  /\ es' = [es EXCEPT ![g] = IF Len(@) < EsCap THEN Append(@, written[g] + 1)
                             ELSE @]
  /\ written' = [written EXCEPT ![g] = @ + 1]
  /\ UNCHANGED <<clientVars, chanVars, esClosed, okStatus, workVars, tickVars,
                 closer, crashed>>

\* gin passes the status on before the first chunk and never again.
EsWrite(g) ==
  /\ ~crashed
  /\ worker[g] = "serve"
  /\ Kind[g] = "es"
  /\ written[g] < MaxChunks
  /\ Len(es[g]) < EsCap
  /\ es' = [es EXCEPT ![g] = Append(@, written[g] + 1)]
  /\ written' = [written EXCEPT ![g] = @ + 1]
  /\ \E ok \in BOOLEAN :
       /\ written[g] > 0 => ok = okStatus[g]
       /\ okStatus' = [okStatus EXCEPT ![g] = ok]
  /\ UNCHANGED <<clientVars, chanVars, esClosed, workVars, tickVars, closer,
                 crashed>>

\* Mutant of EsFlush: the worker calls wg.Done() too.
EsFlushAndDone(g) ==
  /\ ~crashed
  /\ worker[g] = "serve"
  /\ Kind[g] = "es"
  /\ esClosed' = [esClosed EXCEPT ![g] = TRUE]
  /\ worker' = [worker EXCEPT ![g] = "finished"]
  /\ wg' = wg - 1
  /\ UNCHANGED <<clientVars, chanVars, es, written, okStatus, fwd, held,
                 tickVars, closer, crashed>>

\* Mutant of EsFlush: Flush does nothing, as APIWriter.Flush does.
EsFlushIgnored(g) ==
  /\ ~crashed
  /\ worker[g] = "serve"
  /\ Kind[g] = "es"
  /\ worker' = [worker EXCEPT ![g] = "finished"]
  /\ UNCHANGED <<clientVars, chanVars, esVars, fwd, held, wg, tickVars, closer,
                 crashed>>

\* The handler, or the callback installed after it, calls Flush and returns.
EsFlush(g) ==
  /\ ~crashed
  /\ worker[g] = "serve"
  /\ Kind[g] = "es"
  /\ esClosed' = [esClosed EXCEPT ![g] = TRUE]
  /\ worker' = [worker EXCEPT ![g] = "finished"]
  /\ UNCHANGED <<clientVars, chanVars, es, written, okStatus, fwd, held, wg,
                 tickVars, closer, crashed>>

\* The handler returns and nobody calls Flush: treq's handlers after an error
\* they have written, any handler after a panic which gin recovered (it skips
\* the callback installed after the handler).
EsReturnWithoutFlush(g) ==
  /\ ~crashed
  /\ worker[g] = "serve"
  /\ Kind[g] = "es"
  /\ g \in NoFlush
  /\ worker' = [worker EXCEPT ![g] = "finished"]
  /\ UNCHANGED <<clientVars, chanVars, esVars, fwd, held, wg, tickVars, closer,
                 crashed>>

\* One turn of "for resp := range apiWriter.Responses()".
FwdReceive(g) ==
  /\ ~crashed
  /\ fwd[g] = "range"
  /\ es[g] # <<>>
  /\ held' = [held EXCEPT ![g] = Head(es[g])]
  /\ es' = [es EXCEPT ![g] = Tail(@)]
  /\ fwd' = [fwd EXCEPT ![g] = "send"]
  /\ UNCHANGED <<clientVars, chanVars, esClosed, written, okStatus, worker, wg,
                 tickVars, closer, crashed>>

FwdSend(g) ==
  /\ ~crashed
  /\ fwd[g] = "send"
  /\ Send(RawResp(g, held[g]))
  /\ fwd' = [fwd EXCEPT ![g] = "range"]
  /\ UNCHANGED <<clientVars, esVars, worker, held, wg, tickVars, closer>>

\* Mutant of FwdDone: the loop ends as soon as the channel is closed.
FwdDoneUndrained(g) ==
  /\ ~crashed
  /\ fwd[g] = "range"
  /\ esClosed[g]
  /\ wg' = wg - 1
  /\ fwd' = [fwd EXCEPT ![g] = "finished"]
  /\ UNCHANGED <<clientVars, chanVars, esVars, worker, held, tickVars, closer,
                 crashed>>

\* The range ends when the channel is closed and drained; then wg.Done().
FwdDone(g) ==
  /\ ~crashed
  /\ fwd[g] = "range"
  /\ es[g] = <<>>
  /\ esClosed[g]
  /\ wg' = wg - 1
  /\ fwd' = [fwd EXCEPT ![g] = "finished"]
  /\ UNCHANGED <<clientVars, chanVars, esVars, worker, held, tickVars, closer,
                 crashed>>

-----------------------------------------------------------------------------
(* Ping and close. *)

\* ticker.C holds one tick; a tick nobody took yet swallows the next one.
Tick ==
  /\ ~crashed
  /\ ticking
  /\ tick' = TRUE
  /\ UNCHANGED <<clientVars, chanVars, esVars, workVars, ticking, ping, closer,
                 crashed>>

PingReceive ==
  /\ ~crashed
  /\ ping = "range"
  /\ tick
  /\ tick' = FALSE
  /\ ping' = "send"
  /\ UNCHANGED <<clientVars, chanVars, esVars, workVars, ticking, closer,
                 crashed>>

PingSend ==
  /\ ~crashed
  /\ ping = "send"
  /\ Send(PingResp)
  /\ ping' = "range"
  /\ UNCHANGED <<clientVars, esVars, workVars, ticking, tick, closer>>

\* wg.Wait() returns.
CloserWake ==
  /\ ~crashed
  /\ closer = "wait"
  /\ wg = 0
  /\ closer' = "stop"
  /\ UNCHANGED <<clientVars, chanVars, esVars, workVars, tickVars, crashed>>

\* ticker.Stop(): no tick is received after it, but one may be in the ping
\* goroutine's hands already.
CloserStop ==
  /\ ~crashed
  /\ closer = "stop"
  /\ ticking' = FALSE
  /\ tick' = FALSE
  /\ closer' = "close"
  /\ UNCHANGED <<clientVars, chanVars, esVars, workVars, ping, crashed>>

CloserClose ==
  /\ ~crashed
  /\ closer = "close"
  /\ closed' = TRUE
  /\ closer' = "finished"
  /\ UNCHANGED <<clientVars, ch, esVars, workVars, tickVars, crashed>>

-----------------------------------------------------------------------------
(* The consumer's select loop. *)

\* The event is written and the loop goes on.  For a raw response with an
\* error status it is writeStreamingError's event.
RecvWrite ==
  /\ ~crashed
  /\ main = "loop"
  /\ ch # <<>>
  /\ ch' = Tail(ch)
  /\ out' = IF Head(ch).type = "ping" THEN out
            ELSE [out EXCEPT ![Head(ch).g] = Append(@, Head(ch).n)]
  /\ UNCHANGED <<main, client, closed, esVars, workVars, tickVars, closer,
                 crashed>>

\* The write fails and the handler returns; only writeStreamingError ignores
\* a failed write.
RecvWriteFails ==
  /\ ~crashed
  /\ main = "loop"
  /\ client = "gone"
  /\ ch # <<>>
  /\ Head(ch).type # "ping" => Head(ch).ok
  /\ ch' = Tail(ch)
  /\ main' = "aborted"
  /\ UNCHANGED <<client, out, closed, esVars, workVars, tickVars, closer,
                 crashed>>

\* The channel is closed and drained: write the close event and return.
RecvClosed ==
  /\ ~crashed
  /\ main = "loop"
  /\ ch = <<>>
  /\ closed
  /\ main' = "closed"
  /\ UNCHANGED <<client, out, chanVars, esVars, workVars, tickVars, closer,
                 crashed>>

\* <-ctx.Done()
RecvDone ==
  /\ ~crashed
  /\ main = "loop"
  /\ ContextWithFallback
  /\ client = "gone"
  /\ main' = "cancelled"
  /\ UNCHANGED <<client, out, chanVars, esVars, workVars, tickVars, closer,
                 crashed>>

\* The browser leaves, or the server's write timeout expires.
ClientLeaves ==
  /\ ~crashed
  /\ client = "connected"
  /\ client' = "gone"
  /\ UNCHANGED <<main, out, chanVars, esVars, workVars, tickVars, closer,
                 crashed>>

-----------------------------------------------------------------------------

Worker(g) ==
  \/ StartInvalid(g) \/ StartEmpty(g) \/ StartEventSource(g) \/ StartApi(g)
  \/ ApiServed(g) \/ Respond(g) \/ WorkerDone(g)

RouteHandler(g) == EsFlush(g) \/ EsReturnWithoutFlush(g)

Forwarder(g) == FwdReceive(g) \/ FwdSend(g) \/ FwdDone(g)

Ping == PingReceive \/ PingSend

Closer == CloserWake \/ CloserStop \/ CloserClose

Consumer == RecvWrite \/ RecvWriteFails \/ RecvClosed \/ RecvDone

Next ==
  \/ \E g \in Groups : Spawn(g)
  \/ StartCloser
  \/ \E g \in Groups : Worker(g) \/ EsWrite(g) \/ RouteHandler(g)
                         \/ Forwarder(g)
  \/ Tick
  \/ Ping
  \/ Closer
  \/ Consumer
  \/ ClientLeaves

Spec == Init /\ [][Next]_vars

\* The Go scheduler runs every goroutine that can run, and a full channel
\* takes the waiting sends in their order: a send which can go on again and
\* again, between the pings, goes on.  The ticker ticks for as long as it is
\* not stopped, and of the writes to a connection which is gone one fails in
\* the end.  Nothing makes a backend write one more chunk or the browser
\* leave.
Fairness ==
  /\ \A g \in Groups : /\ WF_vars(Spawn(g))
                       /\ WF_vars(Worker(g))
                       /\ WF_vars(RouteHandler(g))
                       /\ WF_vars(Forwarder(g))
                       /\ SF_vars(Respond(g))
                       /\ SF_vars(FwdSend(g))
  /\ WF_vars(StartCloser)
  /\ WF_vars(Tick)
  /\ WF_vars(Ping)
  /\ WF_vars(Closer)
  /\ WF_vars(Consumer)
  /\ SF_vars(RecvWriteFails)

FairSpec == Spec /\ Fairness

-----------------------------------------------------------------------------
(* Properties. *)

\* Once responseCh is closed (closer goroutine, handler.go:205-209), no worker
\* and no forwarder is before its last send: every wg.Done() comes after the
\* send it accounts for, and the closer starts after the last wg.Add(1).
SendersDone ==
  closed => \A g \in Groups : /\ worker[g] = "finished"
                             /\ fwd[g] \in {"unborn", "finished"}

\* The groups for which wg.Add(1) has been called and wg.Done() has not.
Outstanding ==
  { g \in Groups :
      /\ worker[g] # "unborn"
      /\ IF Kind[g] = "es" THEN fwd[g] # "finished"
                           ELSE worker[g] # "finished" }

\* Which goroutine of a group can be where: only an EventSource group has a
\* forwarder, which then is the one to call wg.Done().
WorkerShape ==
  \A g \in Groups :
    /\ Kind[g] # "es" => fwd[g] = "unborn"
    /\ Kind[g] = "es" =>
         /\ worker[g] \notin {"respond", "done"}
         /\ fwd[g] = "unborn" <=> worker[g] \in {"unborn", "start"}
    /\ fwd[g] = "finished" => esClosed[g]
    /\ esClosed[g] => worker[g] = "finished"

CloserShape ==
  /\ main = "spawn" <=> closer = "unborn"
  /\ main # "spawn" => \A g \in Groups : worker[g] # "unborn"
  /\ closer \in {"stop", "close", "finished"} => Outstanding = {}
  /\ closed <=> closer = "finished"

\* The WaitGroup's counter (handler.go:131, 155, 174, 198) is the number of
\* groups which may still send, in every interleaving of the goroutines, and
\* the closer has got past wg.Wait() only when there is none: the invariant
\* SendersDone follows from by induction.
StreamInv ==
  /\ TypeOK
  /\ WorkerShape
  /\ wg = Cardinality(Outstanding)
  /\ CloserShape

\* The messages which carry parts of g's answer.
PartsOf(g) == [type : {"ready", "raw"}, g : {g}, n : Nat, ok : BOOLEAN]

Numbers(parts) == [i \in DOMAIN parts |-> parts[i].n]

\* The parts of g's answer that wait in responseCh, oldest first.
InChannel(g) == Numbers(Selected(ch, PartsOf(g)))

\* The part a worker or a forwarder of g holds and has not sent yet.
InHand(g) ==
  IF worker[g] = "respond" THEN <<1>>
  ELSE IF fwd[g] = "send" THEN <<held[g]>>
  ELSE <<>>

\* Until a write to the client fails, no part of an answer is lost, duplicated
\* or overtaken on its way from the backend's Write through the ESAPIWriter's
\* channel, the forwarder and responseCh to the response.
NothingLost ==
  main \in {"spawn", "loop", "closed"} /\ ~crashed =>
    \A g \in Groups :
      out[g] \o InChannel(g) \o InHand(g) \o es[g]
        = [i \in 1..written[g] |-> i]

\* How many parts of g's answer are in front of responseCh, and how many have
\* been sent to it.
Waiting(g) ==
  IF worker[g] = "respond" \/ fwd[g] = "send" THEN Len(es[g]) + 1
                                               ELSE Len(es[g])
Sent(g) == written[g] - Waiting(g)

IsPart(m, g) == m.type # "ping" /\ m.g = g

\* Before responseCh: the writer's channel holds the newest chunks, the
\* forwarder the one before them.
SourceInv ==
  \A g \in Groups :
    /\ Waiting(g) <= written[g]
    /\ \A i \in 1..Len(es[g]) : es[g][i] = written[g] - Len(es[g]) + i
    /\ fwd[g] = "send" => held[g] = written[g] - Len(es[g])
    /\ fwd[g] = "finished" => es[g] = <<>>
    /\ Kind[g] # "es" =>
         /\ es[g] = <<>>
         /\ written[g] =
              IF worker[g] \in {"respond", "done", "finished"} THEN 1 ELSE 0

\* In responseCh: exactly the parts sent and not yet written, in order.
ChannelInv ==
  main \in {"spawn", "loop"} =>
    \A g \in Groups :
      /\ Len(out[g]) <= Sent(g)
      /\ \A i \in 1..Len(ch) : IsPart(ch[i], g) =>
            ch[i].n \in (Len(out[g]) + 1)..Sent(g)
      /\ \A n \in (Len(out[g]) + 1)..Sent(g) :
            \E i \in 1..Len(ch) : IsPart(ch[i], g) /\ ch[i].n = n
      /\ \A i, j \in 1..Len(ch) :
            i < j /\ IsPart(ch[i], g) /\ IsPart(ch[j], g) => ch[i].n < ch[j].n

\* The inductive form of NothingLost, from which the refinement of the
\* contract follows.
DeliveryInv == SourceInv /\ ChannelInv

\* The stream as its client sees it.
Contract == INSTANCE StreamContract WITH
  StreamGroups <- {g \in Groups : Kind[g] = "es"},
  made  <- written,
  ended <- [g \in Groups |->
              IF Kind[g] = "es" THEN esClosed[g] ELSE written[g] = 1],
  got   <- out,
  phase <- CASE main \in {"spawn", "loop"} -> "open"
             [] main = "closed" -> "closed"
             [] OTHER -> "broken"

\* StartStream implements the contract: in-order delivery of every part and a
\* close event (handler.go:214-220) only after the last part of all groups.
ImplementsContract == Contract!CSpec

\* Every stream ends: with the close event, or because its client has gone, or
\* with the process.  It is what the note in handler.go:159-164 is about: a
\* sub-stream whose writer is not flushed makes the stream "never finish".
StreamFinishes ==
  <>(\/ main = "closed"
     \/ client = "gone" /\ main \in {"aborted", "cancelled"}
     \/ crashed)

\* The pings which "keep the stream active" (responses.go:61-63) never end the
\* process which serves it.
ProcessSurvives == ~crashed
=============================================================================
