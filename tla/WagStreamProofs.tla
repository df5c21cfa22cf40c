-------------------------- MODULE WagStreamProofs --------------------------
(***************************************************************************)
(* Proofs about WagStream for every set of groups, every capacity of the   *)
(* channels and every number of chunks.                                    *)
(***************************************************************************)
EXTENDS WagStream, FiniteSetTheorems, TLAPS

\* The outstanding groups are finitely many, so wg = 0 means there is none.
LEMMA OutstandingFinite ==
  /\ IsFiniteSet(Outstanding)
  /\ Cardinality(Outstanding) \in Nat
  /\ Cardinality(Outstanding) = 0 <=> Outstanding = {}
<1>1. Outstanding \subseteq Groups
  BY DEF Outstanding
<1>2. IsFiniteSet(Outstanding)
  BY <1>1, FS_Subset, WagStreamAssumption
<1> QED
  BY <1>2, FS_EmptySet, FS_CardinalityType

\* wg.Add(1) for a group which was not outstanding.
LEMMA OneMore ==
  ASSUME NEW S, NEW x, IsFiniteSet(S), x \notin S
  PROVE  Cardinality(S \cup {x}) = Cardinality(S) + 1
BY FS_AddElement

\* wg.Done() for a group which was.
LEMMA OneLess ==
  ASSUME NEW S, NEW x, IsFiniteSet(S), x \in S
  PROVE  /\ Cardinality(S \ {x}) = Cardinality(S) - 1
         /\ Cardinality(S) - 1 \in Nat
<1>1. /\ IsFiniteSet(S \ {x})
      /\ Cardinality(S \ {x}) = Cardinality(S) - 1
  BY FS_RemoveElement
<1>2. Cardinality(S \ {x}) \in Nat
  BY <1>1, FS_CardinalityType
<1> QED
  BY <1>1, <1>2

\* Before the first worker starts nothing is outstanding.
LEMMA InitInv == Init => StreamInv
<1> SUFFICES ASSUME Init PROVE StreamInv
  OBVIOUS
<1>1. TypeOK
  <2>1. ch \in Seq(Message)
    BY DEF Init
  <2>2. out \in [Groups -> Seq(Nat)] /\ es \in [Groups -> Seq(Nat)]
    BY DEF Init
  <2> QED
    BY <2>1, <2>2 DEF Init, TypeOK
<1>2. WorkerShape
  BY WagStreamAssumption DEF Init, WorkerShape
<1>3. Outstanding = {}
  BY DEF Init, Outstanding
<1>4. wg = Cardinality(Outstanding)
  BY <1>3, FS_EmptySet DEF Init
<1>5. CloserShape
  BY <1>3 DEF Init, CloserShape
<1> QED
  BY <1>1, <1>2, <1>4, <1>5 DEF StreamInv

\* A step which moves no worker, forwarder or closer keeps all but the types;
\* the handler may return, that is leave its loop, on such a step.
LEMMA QuietStep ==
  ASSUME StreamInv, TypeOK',
         UNCHANGED <<worker, fwd, wg, esClosed, closer, closed>>,
         main' = main \/ (main = "loop" /\ main' # "spawn")
  PROVE  StreamInv'
<1> USE DEF StreamInv
<1>1. Outstanding' = Outstanding
  BY DEF Outstanding
<1>2. WorkerShape'
  BY DEF WorkerShape
<1>3. CloserShape'
  BY <1>1 DEF CloserShape
<1> QED
  BY <1>1, <1>2, <1>3

\* A step of one group's worker or forwarder before the group's wg.Done().
LEMMA GroupStep ==
  ASSUME StreamInv, TypeOK', WorkerShape', NEW g \in Groups,
         g \in Outstanding, g \in Outstanding',
         \A h \in Groups \ {g} : worker'[h] = worker[h] /\ fwd'[h] = fwd[h],
         UNCHANGED <<wg, main, closer, closed>>
  PROVE  StreamInv'
<1> USE DEF StreamInv
<1>1. Outstanding' = Outstanding
  BY DEF Outstanding
<1>2. CloserShape'
  BY <1>1 DEF CloserShape, Outstanding
<1> QED
  BY <1>1, <1>2

\* A group's wg.Done().
LEMMA DoneStep ==
  ASSUME StreamInv, NEW g \in Groups,
         wg \in Nat /\ wg - 1 \in Nat => TypeOK',
         WorkerShape', g \in Outstanding, g \notin Outstanding',
         worker'[g] # "unborn",
         \A h \in Groups \ {g} : worker'[h] = worker[h] /\ fwd'[h] = fwd[h],
         wg' = wg - 1,
         UNCHANGED <<main, closer, closed>>
  PROVE  StreamInv'
<1> USE DEF StreamInv
<1>1. Outstanding' = Outstanding \ {g}
  BY DEF Outstanding
<1>2. /\ Cardinality(Outstanding') = wg - 1
      /\ wg - 1 \in Nat
  BY <1>1, OutstandingFinite, OneLess
<1>3. TypeOK'
  BY <1>2 DEF TypeOK
<1>4. CloserShape'
  BY <1>1 DEF CloserShape, Outstanding
<1> QED
  BY <1>2, <1>3, <1>4

\* Every step of every goroutine, and of the client, keeps the invariant.
LEMMA NextInv == StreamInv /\ [Next]_vars => StreamInv'
<1> SUFFICES ASSUME StreamInv, [Next]_vars PROVE StreamInv'
  OBVIOUS
<1> USE WagStreamAssumption
<1> USE DEF StreamInv, clientVars, chanVars, esVars, workVars, tickVars
<1>1. ASSUME NEW g \in Groups, Spawn(g) PROVE StreamInv'
  <2>1. TypeOK'
    BY <1>1 DEF TypeOK, Spawn
  <2>2. WorkerShape'
    BY <1>1 DEF TypeOK, WorkerShape, Spawn
  <2>3. g \notin Outstanding
    BY <1>1 DEF Outstanding, Spawn
  <2>4. Outstanding' = Outstanding \cup {g}
    BY <1>1 DEF TypeOK, WorkerShape, Outstanding, Spawn
  <2>5. wg' = Cardinality(Outstanding')
    BY <1>1, <2>3, <2>4, OutstandingFinite, OneMore DEF Spawn
  <2>6. CloserShape'
    BY <1>1 DEF CloserShape, Spawn
  <2> QED
    BY <2>1, <2>2, <2>5, <2>6
<1>2. ASSUME StartCloser PROVE StreamInv'
  <2>1. TypeOK'
    BY <1>2 DEF TypeOK, StartCloser
  <2>2. WorkerShape'
    BY <1>2 DEF WorkerShape, StartCloser
  <2>3. Outstanding' = Outstanding
    BY <1>2 DEF Outstanding, StartCloser
  <2>4. CloserShape'
    BY <1>2 DEF CloserShape, StartCloser
  <2> QED
    BY <1>2, <2>1, <2>2, <2>3, <2>4 DEF StartCloser
<1>3. ASSUME NEW g \in Groups, StartInvalid(g) PROVE StreamInv'
  <2>1. TypeOK'
    BY <1>3 DEF TypeOK, StartInvalid
  <2> QED
    BY <1>3, <2>1, QuietStep DEF StartInvalid
<1>4. ASSUME NEW g \in Groups, StartEmpty(g) PROVE StreamInv'
  <2>1. TypeOK'
    BY <1>4 DEF TypeOK, StartEmpty
  <2>2. WorkerShape'
    BY <1>4 DEF TypeOK, WorkerShape, StartEmpty
  <2>3. g \in Outstanding /\ g \in Outstanding'
    BY <1>4 DEF TypeOK, Outstanding, StartEmpty
  <2> QED
    BY <1>4, <2>1, <2>2, <2>3, GroupStep DEF TypeOK, StartEmpty
<1>5. ASSUME NEW g \in Groups, StartEventSource(g) PROVE StreamInv'
  <2>1. TypeOK'
    BY <1>5 DEF TypeOK, StartEventSource
  <2>2. WorkerShape'
    BY <1>5 DEF TypeOK, WorkerShape, StartEventSource
  <2>3. g \in Outstanding /\ g \in Outstanding'
    BY <1>5 DEF TypeOK, WorkerShape, Outstanding, StartEventSource
  <2> QED
    BY <1>5, <2>1, <2>2, <2>3, GroupStep DEF TypeOK, StartEventSource
<1>6. ASSUME NEW g \in Groups, StartApi(g) PROVE StreamInv'
  <2>1. TypeOK'
    BY <1>6 DEF TypeOK, StartApi
  <2>2. WorkerShape'
    BY <1>6 DEF TypeOK, WorkerShape, StartApi
  <2>3. g \in Outstanding /\ g \in Outstanding'
    BY <1>6 DEF TypeOK, Outstanding, StartApi
  <2> QED
    BY <1>6, <2>1, <2>2, <2>3, GroupStep DEF TypeOK, StartApi
<1>7. ASSUME NEW g \in Groups, ApiServed(g) PROVE StreamInv'
  <2>1. TypeOK'
    BY <1>7 DEF TypeOK, ApiServed
  <2>2. WorkerShape'
    BY <1>7 DEF TypeOK, WorkerShape, ApiServed
  <2>3. g \in Outstanding /\ g \in Outstanding'
    BY <1>7 DEF TypeOK, Outstanding, ApiServed
  <2> QED
    BY <1>7, <2>1, <2>2, <2>3, GroupStep DEF TypeOK, ApiServed
<1>8. ASSUME NEW g \in Groups, Respond(g) PROVE StreamInv'
  <2>1. ReadyResp(g) \in Message
    BY DEF ReadyResp, Message
  <2>2. TypeOK'
    BY <1>8, <2>1 DEF TypeOK, Respond, Send
  <2>3. WorkerShape'
    BY <1>8 DEF TypeOK, WorkerShape, Respond, Send
  <2>4. g \in Outstanding /\ g \in Outstanding'
    BY <1>8 DEF TypeOK, WorkerShape, Outstanding, Respond, Send
  <2> QED
    BY <1>8, <2>2, <2>3, <2>4, GroupStep DEF TypeOK, Respond, Send
<1>9. ASSUME NEW g \in Groups, WorkerDone(g) PROVE StreamInv'
  <2>1. wg \in Nat /\ wg - 1 \in Nat => TypeOK'
    BY <1>9 DEF TypeOK, WorkerDone
  <2>2. WorkerShape'
    BY <1>9 DEF TypeOK, WorkerShape, WorkerDone
  <2>3. g \in Outstanding /\ g \notin Outstanding'
    BY <1>9 DEF TypeOK, WorkerShape, Outstanding, WorkerDone
  <2> QED
    BY <1>9, <2>1, <2>2, <2>3, DoneStep DEF TypeOK, WorkerDone
<1>10. ASSUME NEW g \in Groups, EsWrite(g) PROVE StreamInv'
  <2>1. TypeOK'
    BY <1>10 DEF TypeOK, EsWrite
  <2> QED
    BY <1>10, <2>1, QuietStep DEF EsWrite
<1>11. ASSUME NEW g \in Groups, EsFlush(g) PROVE StreamInv'
  <2>1. TypeOK'
    BY <1>11 DEF TypeOK, EsFlush
  <2>2. WorkerShape'
    BY <1>11 DEF TypeOK, WorkerShape, EsFlush
  <2>3. g \in Outstanding /\ g \in Outstanding'
    BY <1>11 DEF TypeOK, WorkerShape, Outstanding, EsFlush
  <2> QED
    BY <1>11, <2>1, <2>2, <2>3, GroupStep DEF TypeOK, EsFlush
<1>12. ASSUME NEW g \in Groups, EsReturnWithoutFlush(g) PROVE StreamInv'
  <2>1. TypeOK'
    BY <1>12 DEF TypeOK, EsReturnWithoutFlush
  <2>2. WorkerShape'
    BY <1>12 DEF TypeOK, WorkerShape, EsReturnWithoutFlush
  <2>3. g \in Outstanding /\ g \in Outstanding'
    BY <1>12 DEF TypeOK, WorkerShape, Outstanding, EsReturnWithoutFlush
  <2> QED
    BY <1>12, <2>1, <2>2, <2>3, GroupStep DEF TypeOK, EsReturnWithoutFlush
<1>13. ASSUME NEW g \in Groups, FwdReceive(g) PROVE StreamInv'
  <2>1. TypeOK'
    BY <1>13 DEF TypeOK, FwdReceive
  <2>2. WorkerShape'
    BY <1>13 DEF TypeOK, WorkerShape, FwdReceive
  <2>3. g \in Outstanding /\ g \in Outstanding'
    BY <1>13 DEF TypeOK, WorkerShape, Outstanding, FwdReceive
  <2> QED
    BY <1>13, <2>1, <2>2, <2>3, GroupStep DEF TypeOK, FwdReceive
<1>14. ASSUME NEW g \in Groups, FwdSend(g) PROVE StreamInv'
  <2>1. RawResp(g, held[g]) \in Message
    BY DEF TypeOK, RawResp, Message
  <2>2. TypeOK'
    BY <1>14, <2>1 DEF TypeOK, FwdSend, Send
  <2>3. WorkerShape'
    BY <1>14 DEF TypeOK, WorkerShape, FwdSend, Send
  <2>4. g \in Outstanding /\ g \in Outstanding'
    BY <1>14 DEF TypeOK, WorkerShape, Outstanding, FwdSend, Send
  <2> QED
    BY <1>14, <2>2, <2>3, <2>4, GroupStep DEF TypeOK, FwdSend, Send
<1>15. ASSUME NEW g \in Groups, FwdDone(g) PROVE StreamInv'
  <2>1. wg \in Nat /\ wg - 1 \in Nat => TypeOK'
    BY <1>15 DEF TypeOK, FwdDone
  <2>2. WorkerShape'
    BY <1>15 DEF TypeOK, WorkerShape, FwdDone
  <2>3. /\ g \in Outstanding /\ g \notin Outstanding'
        /\ worker'[g] # "unborn"
    BY <1>15 DEF TypeOK, WorkerShape, Outstanding, FwdDone
  <2> QED
    BY <1>15, <2>1, <2>2, <2>3, DoneStep DEF TypeOK, FwdDone
<1>16. ASSUME Tick PROVE StreamInv'
  <2>1. TypeOK'
    BY <1>16 DEF TypeOK, Tick
  <2> QED
    BY <1>16, <2>1, QuietStep DEF Tick
<1>17. ASSUME PingReceive PROVE StreamInv'
  <2>1. TypeOK'
    BY <1>17 DEF TypeOK, PingReceive
  <2> QED
    BY <1>17, <2>1, QuietStep DEF PingReceive
<1>18. ASSUME PingSend PROVE StreamInv'
  <2>1. PingResp \in Message
    BY DEF Message
  <2>2. TypeOK'
    BY <1>18, <2>1 DEF TypeOK, PingSend, Send
  <2> QED
    BY <1>18, <2>2, QuietStep DEF PingSend, Send
<1>19. ASSUME CloserWake PROVE StreamInv'
  <2>1. TypeOK'
    BY <1>19 DEF TypeOK, CloserWake
  <2>2. WorkerShape'
    BY <1>19 DEF WorkerShape, CloserWake
  <2>3. Outstanding' = Outstanding /\ Outstanding = {}
    BY <1>19, OutstandingFinite DEF Outstanding, CloserWake
  <2>4. CloserShape'
    BY <1>19, <2>3 DEF CloserShape, CloserWake
  <2> QED
    BY <1>19, <2>1, <2>2, <2>3, <2>4 DEF CloserWake
<1>20. ASSUME CloserStop \/ CloserClose PROVE StreamInv'
  <2>1. TypeOK'
    BY <1>20 DEF TypeOK, CloserStop, CloserClose
  <2>2. WorkerShape'
    BY <1>20 DEF WorkerShape, CloserStop, CloserClose
  <2>3. Outstanding' = Outstanding
    BY <1>20 DEF Outstanding, CloserStop, CloserClose
  <2>4. CloserShape'
    BY <1>20, <2>3 DEF CloserShape, CloserStop, CloserClose
  <2> QED
    BY <1>20, <2>1, <2>2, <2>3, <2>4 DEF CloserStop, CloserClose
<1>21. ASSUME RecvWrite PROVE StreamInv'
  <2>1. /\ Tail(ch) \in Seq(Message)
        /\ Head(ch) \in Message
    BY <1>21 DEF TypeOK, RecvWrite
  <2>2. out' \in [Groups -> Seq(Nat)]
    <3>1. CASE Head(ch).type = "ping"
      BY <1>21, <3>1 DEF TypeOK, RecvWrite
    <3>2. CASE Head(ch).type # "ping"
      <4>1. Head(ch).g \in Groups /\ Head(ch).n \in Nat
        BY <2>1, <3>2 DEF Message, PingResp
      <4> QED
        BY <1>21, <3>2, <4>1 DEF TypeOK, RecvWrite
    <3> QED
      BY <3>1, <3>2
  <2>3. TypeOK'
    BY <1>21, <2>1, <2>2 DEF TypeOK, RecvWrite
  <2> QED
    BY <1>21, <2>3, QuietStep DEF RecvWrite
<1>22. ASSUME RecvWriteFails PROVE StreamInv'
  <2>1. TypeOK'
    BY <1>22 DEF TypeOK, RecvWriteFails
  <2> QED
    BY <1>22, <2>1, QuietStep DEF RecvWriteFails
<1>23. ASSUME RecvClosed \/ RecvDone PROVE StreamInv'
  <2>1. TypeOK'
    BY <1>23 DEF TypeOK, RecvClosed, RecvDone
  <2> QED
    BY <1>23, <2>1, QuietStep DEF RecvClosed, RecvDone
<1>24. ASSUME ClientLeaves PROVE StreamInv'
  <2>1. TypeOK'
    BY <1>24 DEF TypeOK, ClientLeaves
  <2> QED
    BY <1>24, <2>1, QuietStep DEF ClientLeaves
<1>25. ASSUME UNCHANGED vars PROVE StreamInv'
  <2>1. TypeOK'
    BY <1>25 DEF TypeOK, vars
  <2> QED
    BY <1>25, <2>1, QuietStep DEF vars
<1> QED
  BY <1>1, <1>2, <1>3, <1>4, <1>5, <1>6, <1>7, <1>8, <1>9, <1>10, <1>11,
     <1>12, <1>13, <1>14, <1>15, <1>16, <1>17, <1>18, <1>19, <1>20, <1>21,
     <1>22, <1>23, <1>24, <1>25
  DEF Next, Worker, RouteHandler, Forwarder, Ping, Closer, Consumer

\* The wait group counts the groups that may still send, in every reachable
\* state and for any number of groups (handler.go:128-209).
THEOREM StreamInvariant == Spec => []StreamInv
<1> QED
  BY InitInv, NextInv, PTL DEF Spec

\* The types of the stream's state: in particular wg never gets below zero,
\* where WaitGroup.Done would panic.
THEOREM TypeCorrect == Spec => []TypeOK
<1>1. StreamInv => TypeOK
  BY DEF StreamInv
<1> QED
  BY <1>1, StreamInvariant, PTL

\* No worker and no forwarder can send on responseCh after the closer
\* goroutine has closed it: of all its senders only the ping goroutine can.
THEOREM NoSendAfterClose == Spec => []SendersDone
<1>1. StreamInv => SendersDone
  <2> SUFFICES ASSUME StreamInv, closed, NEW g \in Groups
               PROVE  /\ worker[g] = "finished"
                      /\ fwd[g] \in {"unborn", "finished"}
    BY DEF SendersDone
  <2>1. worker[g] # "unborn" /\ g \notin Outstanding
    BY DEF StreamInv, CloserShape
  <2> QED
    BY <2>1, WagStreamAssumption DEF StreamInv, TypeOK, WorkerShape, Outstanding
<1> QED
  BY <1>1, StreamInvariant, PTL
=============================================================================
