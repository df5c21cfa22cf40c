-------------------------- MODULE WagStreamRefines --------------------------
(***************************************************************************)
(* WagStream implements StreamContract, for every set of groups, every     *)
(* capacity of the channels and every number of chunks.                    *)
(***************************************************************************)
EXTENDS WagStreamProofs, SelectedItemsProofs

\* The numbers which Waiting and Sent stand for.
LEMMA SentType ==
  ASSUME TypeOK, SourceInv
  PROVE  \A g \in Groups : Waiting(g) \in Nat /\ Sent(g) \in Nat
<1> SUFFICES ASSUME NEW g \in Groups
             PROVE  Waiting(g) \in Nat /\ Sent(g) \in Nat
  OBVIOUS
<1>1. Len(es[g]) \in Nat /\ written[g] \in Nat
  BY DEF TypeOK
<1>2. Waiting(g) \in Nat
  BY <1>1 DEF Waiting
<1>3. Waiting(g) <= written[g]
  BY DEF SourceInv
<1> QED
  BY <1>1, <1>2, <1>3 DEF Sent

\* A step which neither sends to responseCh nor takes anything from it.
LEMMA ChannelUntouched ==
  ASSUME ChannelInv, UNCHANGED <<ch, out>>,
         \A g \in Groups : Sent(g)' = Sent(g),
         main' \in {"spawn", "loop"} => main \in {"spawn", "loop"}
  PROVE  ChannelInv'
BY DEF ChannelInv, IsPart

\* A worker or a forwarder of g sends the next part of g's answer.
LEMMA ChannelSend ==
  ASSUME TypeOK, SourceInv, ChannelInv, NEW g \in Groups, NEW m \in Message,
         IsPart(m, g), m.n = Sent(g) + 1,
         ch' = Append(ch, m), UNCHANGED <<out, main>>,
         Sent(g)' = Sent(g) + 1,
         \A h \in Groups \ {g} : Sent(h)' = Sent(h)
  PROVE  ChannelInv'
<1> SUFFICES ASSUME main \in {"spawn", "loop"}, NEW h \in Groups
             PROVE  /\ Len(out[h]) <= Sent(h)'
                    /\ \A i \in 1..Len(ch') : IsPart(ch'[i], h) =>
                         ch'[i].n \in (Len(out[h]) + 1)..Sent(h)'
                    /\ \A n \in (Len(out[h]) + 1)..Sent(h)' :
                         \E i \in 1..Len(ch') : IsPart(ch'[i], h) /\ ch'[i].n = n
                    /\ \A i, j \in 1..Len(ch') :
                         i < j /\ IsPart(ch'[i], h) /\ IsPart(ch'[j], h)
                           => ch'[i].n < ch'[j].n
  BY DEF ChannelInv, IsPart
<1>1. /\ Len(ch) \in Nat
      /\ Len(ch') = Len(ch) + 1
      /\ ch'[Len(ch) + 1] = m
      /\ \A i \in 1..Len(ch) : ch'[i] = ch[i]
  BY DEF TypeOK
<1>2. Sent(h) \in Nat /\ Sent(g) \in Nat /\ Len(out[h]) \in Nat
  <2>1. Len(out[h]) \in Nat
    BY DEF TypeOK
  <2> QED
    BY <2>1, SentType
<1>3. /\ Len(out[h]) <= Sent(h)
      /\ \A i \in 1..Len(ch) : IsPart(ch[i], h) =>
           ch[i].n \in (Len(out[h]) + 1)..Sent(h)
      /\ \A n \in (Len(out[h]) + 1)..Sent(h) :
           \E i \in 1..Len(ch) : IsPart(ch[i], h) /\ ch[i].n = n
      /\ \A i, j \in 1..Len(ch) :
           i < j /\ IsPart(ch[i], h) /\ IsPart(ch[j], h) => ch[i].n < ch[j].n
  BY DEF ChannelInv
<1>4. /\ 1..Len(ch') = 1..Len(ch) \cup {Len(ch) + 1}
      /\ \A i \in 1..Len(ch) : i < Len(ch) + 1
      /\ \A i \in 1..Len(ch) : ~(Len(ch) + 1 < i)
      /\ ~(Len(ch) + 1 < Len(ch) + 1)
  BY <1>1
<1>5. CASE h = g
  <2>1. Sent(h)' = Sent(h) + 1 /\ IsPart(m, h) /\ m.n = Sent(h) + 1
    BY <1>5
  <2>2. /\ Len(out[h]) <= Sent(h)'
        /\ (Len(out[h]) + 1)..Sent(h)'
             = (Len(out[h]) + 1)..Sent(h) \cup {Sent(h) + 1}
    BY <1>2, <1>3, <2>1
  <2>3. \A i \in 1..Len(ch') : IsPart(ch'[i], h) =>
          ch'[i].n \in (Len(out[h]) + 1)..Sent(h)'
    BY <1>1, <1>3, <1>4, <2>1, <2>2
  <2>4. \A n \in (Len(out[h]) + 1)..Sent(h)' :
          \E i \in 1..Len(ch') : IsPart(ch'[i], h) /\ ch'[i].n = n
    BY <1>1, <1>3, <1>4, <2>1, <2>2
  <2>5. \A i \in 1..Len(ch) : IsPart(ch[i], h) => ch[i].n < m.n
    BY <1>2, <1>3, <2>1
  <2>6. \A i, j \in 1..Len(ch') :
          i < j /\ IsPart(ch'[i], h) /\ IsPart(ch'[j], h) => ch'[i].n < ch'[j].n
    BY <1>1, <1>3, <1>4, <2>5
  <2> QED
    BY <2>2, <2>3, <2>4, <2>6
<1>6. CASE h # g
  <2>1. ~IsPart(m, h) /\ Sent(h)' = Sent(h)
    BY <1>6 DEF IsPart
  <2>2. \A i \in 1..Len(ch') : IsPart(ch'[i], h) =>
          ch'[i].n \in (Len(out[h]) + 1)..Sent(h)'
    BY <1>1, <1>3, <1>4, <2>1
  <2>3. \A n \in (Len(out[h]) + 1)..Sent(h)' :
          \E i \in 1..Len(ch') : IsPart(ch'[i], h) /\ ch'[i].n = n
    BY <1>1, <1>3, <1>4, <2>1
  <2>4. \A i, j \in 1..Len(ch') :
          i < j /\ IsPart(ch'[i], h) /\ IsPart(ch'[j], h) => ch'[i].n < ch'[j].n
    BY <1>1, <1>3, <1>4, <2>1
  <2> QED
    BY <1>3, <2>1, <2>2, <2>3, <2>4
<1> QED
  BY <1>5, <1>6

\* The ping goroutine sends, to no group.
LEMMA ChannelPing ==
  ASSUME TypeOK, ChannelInv, UNCHANGED <<out, main>>,
         ch' = Append(ch, PingResp),
         \A g \in Groups : Sent(g)' = Sent(g)
  PROVE  ChannelInv'
<1> SUFFICES ASSUME main \in {"spawn", "loop"}, NEW h \in Groups
             PROVE  /\ Len(out[h]) <= Sent(h)
                    /\ \A i \in 1..Len(ch') : IsPart(ch'[i], h) =>
                         ch'[i].n \in (Len(out[h]) + 1)..Sent(h)
                    /\ \A n \in (Len(out[h]) + 1)..Sent(h) :
                         \E i \in 1..Len(ch') : IsPart(ch'[i], h) /\ ch'[i].n = n
                    /\ \A i, j \in 1..Len(ch') :
                         i < j /\ IsPart(ch'[i], h) /\ IsPart(ch'[j], h)
                           => ch'[i].n < ch'[j].n
  BY DEF ChannelInv, IsPart
<1>1. /\ Len(ch) \in Nat
      /\ Len(ch') = Len(ch) + 1
      /\ ch'[Len(ch) + 1] = PingResp
      /\ \A i \in 1..Len(ch) : ch'[i] = ch[i]
  BY DEF TypeOK, Message
<1>2. ~IsPart(PingResp, h)
  BY DEF IsPart, PingResp
<1>3. 1..Len(ch') = 1..Len(ch) \cup {Len(ch) + 1}
  BY <1>1
<1>4. \A i \in 1..Len(ch') : IsPart(ch'[i], h) => i \in 1..Len(ch)
  BY <1>1, <1>2, <1>3
<1> QED
  BY <1>1, <1>3, <1>4 DEF ChannelInv

\* The oldest part of a group in responseCh is the next one the client needs.
LEMMA HeadIsNext ==
  ASSUME TypeOK, SourceInv, ChannelInv, main \in {"spawn", "loop"},
         ch # <<>>, NEW g \in Groups, IsPart(ch[1], g)
  PROVE  ch[1].n = Len(out[g]) + 1 /\ Len(out[g]) < Sent(g)
<1>1. Len(ch) \in Nat /\ Len(ch) >= 1 /\ Len(out[g]) \in Nat /\ Sent(g) \in Nat
  <2>1. Len(ch) \in Nat /\ Len(ch) >= 1 /\ Len(out[g]) \in Nat
    BY DEF TypeOK
  <2> QED
    BY <2>1, SentType
<1>2. ch[1].n \in (Len(out[g]) + 1)..Sent(g)
  BY <1>1 DEF ChannelInv
<1>n. Len(out[g]) + 1 \in (Len(out[g]) + 1)..Sent(g)
  BY <1>1, <1>2
<1>3. PICK i \in 1..Len(ch) : IsPart(ch[i], g) /\ ch[i].n = Len(out[g]) + 1
  BY <1>n DEF ChannelInv
<1>4. i = 1 \/ ch[1].n < ch[i].n
  BY <1>1, <1>3 DEF ChannelInv
<1> QED
  BY <1>1, <1>2, <1>3, <1>4

\* The consumer writes the oldest message.
LEMMA ChannelRecv ==
  ASSUME TypeOK, SourceInv, ChannelInv, RecvWrite,
         \A g \in Groups : Sent(g)' = Sent(g)
  PROVE  ChannelInv'
<1> SUFFICES ASSUME NEW h \in Groups
             PROVE  /\ Len(out'[h]) <= Sent(h)
                    /\ \A i \in 1..Len(ch') : IsPart(ch'[i], h) =>
                         ch'[i].n \in (Len(out'[h]) + 1)..Sent(h)
                    /\ \A n \in (Len(out'[h]) + 1)..Sent(h) :
                         \E i \in 1..Len(ch') : IsPart(ch'[i], h) /\ ch'[i].n = n
                    /\ \A i, j \in 1..Len(ch') :
                         i < j /\ IsPart(ch'[i], h) /\ IsPart(ch'[j], h)
                           => ch'[i].n < ch'[j].n
  BY DEF ChannelInv, IsPart
<1>1. main = "loop" /\ ch # <<>> /\ ch' = Tail(ch)
  BY DEF RecvWrite
<1>2. /\ Len(ch) \in Nat
      /\ Len(ch) >= 1
      /\ Len(ch') = Len(ch) - 1
      /\ \A i \in 1..Len(ch') : ch'[i] = ch[i + 1]
      /\ Head(ch) = ch[1] /\ ch[1] \in Message
  BY <1>1 DEF TypeOK
<1>3. Sent(h) \in Nat /\ Len(out[h]) \in Nat
  <2>1. Len(out[h]) \in Nat
    BY DEF TypeOK
  <2> QED
    BY <2>1, SentType
<1>4. /\ Len(out[h]) <= Sent(h)
      /\ \A i \in 1..Len(ch) : IsPart(ch[i], h) =>
           ch[i].n \in (Len(out[h]) + 1)..Sent(h)
      /\ \A n \in (Len(out[h]) + 1)..Sent(h) :
           \E i \in 1..Len(ch) : IsPart(ch[i], h) /\ ch[i].n = n
      /\ \A i, j \in 1..Len(ch) :
           i < j /\ IsPart(ch[i], h) /\ IsPart(ch[j], h) => ch[i].n < ch[j].n
  BY <1>1 DEF ChannelInv
<1>7. \A i, j \in 1..Len(ch') :
        i < j /\ IsPart(ch'[i], h) /\ IsPart(ch'[j], h) => ch'[i].n < ch'[j].n
  <2> SUFFICES ASSUME NEW i \in 1..Len(ch'), NEW j \in 1..Len(ch'), i < j,
                      IsPart(ch'[i], h), IsPart(ch'[j], h)
               PROVE  ch'[i].n < ch'[j].n
    OBVIOUS
  <2>1. i + 1 \in 1..Len(ch) /\ j + 1 \in 1..Len(ch) /\ i + 1 < j + 1
    BY <1>2
  <2>2. ch'[i] = ch[i + 1] /\ ch'[j] = ch[j + 1]
    BY <1>2
  <2> QED
    BY <1>4, <2>1, <2>2
<1>5. CASE IsPart(ch[1], h)
  <2>1. ch[1].n = Len(out[h]) + 1 /\ Len(out[h]) < Sent(h)
    BY <1>1, <1>5, HeadIsNext
  <2>2. Len(out'[h]) = Len(out[h]) + 1
    BY <1>2, <1>5, <2>1 DEF RecvWrite, TypeOK, IsPart
  <2>3. \A n \in (Len(out'[h]) + 1)..Sent(h) :
          \E i \in 1..Len(ch') : IsPart(ch'[i], h) /\ ch'[i].n = n
    <3> SUFFICES ASSUME NEW n \in (Len(out'[h]) + 1)..Sent(h)
                 PROVE  \E i \in 1..Len(ch') : IsPart(ch'[i], h) /\ ch'[i].n = n
      OBVIOUS
    <3>1. PICK i \in 1..Len(ch) : IsPart(ch[i], h) /\ ch[i].n = n
      BY <1>3, <1>4, <2>2
    <3>2. i # 1
      BY <1>3, <2>1, <2>2, <3>1
    <3>3. i - 1 \in 1..Len(ch') /\ ch'[i - 1] = ch[i]
      BY <1>2, <3>2
    <3> QED
      BY <3>1, <3>3
  <2>4. \A i \in 1..Len(ch') : IsPart(ch'[i], h) =>
          ch'[i].n \in (Len(out'[h]) + 1)..Sent(h)
    <3> SUFFICES ASSUME NEW i \in 1..Len(ch'), IsPart(ch'[i], h)
                 PROVE  ch'[i].n \in (Len(out'[h]) + 1)..Sent(h)
      OBVIOUS
    <3>1. i + 1 \in 1..Len(ch) /\ 1 \in 1..Len(ch) /\ 1 < i + 1
          /\ ch'[i] = ch[i + 1]
      BY <1>2
    <3>2. ch[1].n < ch[i + 1].n
      BY <1>4, <1>5, <3>1
    <3> QED
      BY <1>3, <1>4, <2>1, <2>2, <3>1, <3>2
  <2> QED
    BY <1>3, <1>7, <2>1, <2>2, <2>3, <2>4
<1>6. CASE ~IsPart(ch[1], h)
  <2>1. out'[h] = out[h]
    BY <1>2, <1>6 DEF RecvWrite, TypeOK, IsPart, Message, PingResp
  <2>2. \A n \in (Len(out[h]) + 1)..Sent(h) :
          \E i \in 1..Len(ch') : IsPart(ch'[i], h) /\ ch'[i].n = n
    <3> SUFFICES ASSUME NEW n \in (Len(out[h]) + 1)..Sent(h)
                 PROVE  \E i \in 1..Len(ch') : IsPart(ch'[i], h) /\ ch'[i].n = n
      OBVIOUS
    <3>1. PICK i \in 1..Len(ch) : IsPart(ch[i], h) /\ ch[i].n = n
      BY <1>4
    <3>2. i - 1 \in 1..Len(ch') /\ ch'[i - 1] = ch[i]
      BY <1>2, <1>6, <3>1
    <3> QED
      BY <3>1, <3>2
  <2>3. \A i \in 1..Len(ch') : IsPart(ch'[i], h) =>
          ch'[i].n \in (Len(out[h]) + 1)..Sent(h)
    BY <1>2, <1>4
  <2> QED
    BY <1>4, <1>7, <2>1, <2>2, <2>3
<1> QED
  BY <1>5, <1>6

\* What a step of the goroutines before responseCh does to a group's counts.
LEMMA SourceStep ==
  ASSUME StreamInv, StreamInv', SourceInv, [Next]_vars
  PROVE  SourceInv'
<1> USE WagStreamAssumption
<1> USE DEF StreamInv, clientVars, chanVars, esVars, workVars, tickVars
<1> DEFINE Src(g) ==
      /\ Waiting(g) <= written[g]
      /\ \A i \in 1..Len(es[g]) : es[g][i] = written[g] - Len(es[g]) + i
      /\ fwd[g] = "send" => held[g] = written[g] - Len(es[g])
      /\ fwd[g] = "finished" => es[g] = <<>>
      /\ Kind[g] # "es" =>
           /\ es[g] = <<>>
           /\ written[g] =
                IF worker[g] \in {"respond", "done", "finished"} THEN 1 ELSE 0
<1>0. SUFFICES ASSUME NEW h \in Groups PROVE Src(h)'
  BY DEF SourceInv
<1>a. /\ Src(h)
      /\ Len(es[h]) \in Nat /\ written[h] \in Nat
  BY DEF SourceInv, TypeOK
<1>b. ASSUME UNCHANGED <<worker[h], fwd[h], held[h], es[h], written[h]>>
      PROVE  Src(h)'
  BY <1>a, <1>b DEF Waiting
<1>1. CASE Spawn(h) \/ StartApi(h) \/ StartEventSource(h)
  <2>1. /\ UNCHANGED <<written[h], es[h], held[h]>>
        /\ worker[h] \in {"unborn", "start"} /\ worker'[h] \in {"start", "serve"}
        /\ fwd[h] = "unborn" /\ fwd'[h] \in {"unborn", "range"}
    BY <1>1 DEF TypeOK, WorkerShape, Spawn, StartApi, StartEventSource
  <2> QED
    BY <1>a, <2>1 DEF Waiting
<1>2. CASE StartEmpty(h) \/ ApiServed(h)
  <2>1. /\ UNCHANGED <<es[h], held[h], fwd[h]>>
        /\ worker[h] \in {"start", "serve"} /\ worker'[h] = "respond"
        /\ fwd[h] = "unborn" /\ Kind[h] # "es" /\ written'[h] = 1
    BY <1>2 DEF TypeOK, WorkerShape, StartEmpty, ApiServed
  <2>2. es[h] = <<>> /\ Waiting(h)' = 1
    BY <1>a, <2>1 DEF Waiting
  <2> QED
    BY <1>a, <2>1, <2>2
<1>3. CASE Respond(h) \/ WorkerDone(h)
  <2>1. /\ UNCHANGED <<written[h], es[h], held[h], fwd[h]>>
        /\ worker[h] \in {"respond", "done"} /\ worker'[h] \in {"done", "finished"}
        /\ fwd[h] = "unborn" /\ Kind[h] # "es"
    BY <1>3 DEF TypeOK, WorkerShape, Respond, Send, WorkerDone
  <2> QED
    BY <1>a, <2>1 DEF Waiting
<1>4. CASE EsWrite(h)
  <2>1. /\ UNCHANGED <<worker[h], held[h], fwd[h]>>
        /\ worker[h] = "serve" /\ Kind[h] = "es"
        /\ fwd[h] # "finished"
        /\ written'[h] = written[h] + 1
        /\ es'[h] = Append(es[h], written[h] + 1)
    BY <1>4 DEF TypeOK, WorkerShape, EsWrite
  <2>2. /\ Len(es'[h]) = Len(es[h]) + 1
        /\ es'[h][Len(es[h]) + 1] = written[h] + 1
        /\ \A i \in 1..Len(es[h]) : es'[h][i] = es[h][i]
    BY <2>1 DEF TypeOK
  <2>3. Waiting(h)' = Waiting(h) + 1
    BY <1>a, <2>1, <2>2 DEF Waiting
  <2>4. \A i \in 1..Len(es'[h]) : es'[h][i] = written'[h] - Len(es'[h]) + i
    BY <1>a, <2>1, <2>2
  <2>5. Waiting(h) \in Nat
    BY SentType
  <2>6. Waiting(h)' <= written'[h]
    BY <1>a, <2>1, <2>3, <2>5
  <2>7. fwd'[h] = "send" => held'[h] = written'[h] - Len(es'[h])
    BY <1>a, <2>1, <2>2
  <2> QED
    BY <2>1, <2>4, <2>6, <2>7
<1>5. CASE EsFlush(h) \/ EsReturnWithoutFlush(h)
  <2>1. /\ UNCHANGED <<written[h], es[h], held[h], fwd[h]>>
        /\ worker[h] = "serve" /\ worker'[h] = "finished" /\ Kind[h] = "es"
    BY <1>5 DEF TypeOK, EsFlush, EsReturnWithoutFlush
  <2> QED
    BY <1>a, <2>1 DEF Waiting
<1>6. CASE FwdReceive(h)
  <2>1. /\ UNCHANGED <<worker[h], written[h]>>
        /\ fwd[h] = "range" /\ fwd'[h] = "send"
        /\ Kind[h] = "es" /\ worker[h] # "respond"
        /\ es[h] # <<>> /\ es'[h] = Tail(es[h]) /\ held'[h] = Head(es[h])
    BY <1>6 DEF TypeOK, WorkerShape, FwdReceive
  <2>2. /\ Len(es[h]) >= 1 /\ Len(es'[h]) = Len(es[h]) - 1
        /\ held'[h] = es[h][1]
        /\ \A i \in 1..Len(es'[h]) : es'[h][i] = es[h][i + 1]
    BY <2>1 DEF TypeOK
  <2>3. Waiting(h)' = Waiting(h)
    BY <1>a, <2>1, <2>2 DEF Waiting
  <2>4. /\ \A i \in 1..Len(es'[h]) : es'[h][i] = written[h] - Len(es'[h]) + i
        /\ held'[h] = written[h] - Len(es'[h])
    BY <1>a, <2>1, <2>2
  <2> QED
    BY <1>a, <2>1, <2>2, <2>3, <2>4
<1>9. CASE FwdSend(h) \/ FwdDone(h)
  <2>1. /\ UNCHANGED <<worker[h], written[h], es[h], held[h]>>
        /\ fwd[h] \in {"send", "range"} /\ fwd'[h] \in {"range", "finished"}
        /\ fwd'[h] = "finished" => es[h] = <<>>
        /\ Kind[h] = "es" /\ worker[h] # "respond"
    BY <1>9 DEF TypeOK, WorkerShape, FwdSend, Send, FwdDone
  <2> QED
    BY <1>a, <2>1 DEF Waiting
<1>7. ASSUME NEW g \in Groups \ {h}, Spawn(g) \/ Worker(g) \/ EsWrite(g)
                                     \/ RouteHandler(g) \/ Forwarder(g)
      PROVE  Src(h)'
  <2>1. UNCHANGED <<worker[h], fwd[h], held[h], es[h], written[h]>>
    BY <1>7 DEF TypeOK, Spawn, Worker, EsWrite, RouteHandler, Forwarder,
         StartInvalid, StartEmpty, StartEventSource, StartApi, ApiServed,
         Respond, Send, WorkerDone, EsFlush, EsReturnWithoutFlush, FwdReceive,
         FwdSend, FwdDone
  <2> QED
    BY <1>b, <2>1
<1>8. ASSUME StartInvalid(h) \/ StartCloser \/ Tick \/ Ping \/ Closer \/ Consumer
             \/ ClientLeaves \/ UNCHANGED vars
      PROVE  Src(h)'
  <2>1. UNCHANGED <<worker[h], fwd[h], held[h], es[h], written[h]>>
    BY <1>8 DEF StartInvalid, StartCloser, Tick, Ping, PingReceive, PingSend,
         Closer, CloserWake, CloserStop, CloserClose, Consumer, RecvWrite,
         RecvWriteFails, RecvClosed, RecvDone, ClientLeaves, vars
  <2> QED
    BY <1>b, <2>1
<1> QED
  BY <1>1, <1>2, <1>3, <1>4, <1>5, <1>6, <1>7, <1>8, <1>9
  DEF Next, Worker, RouteHandler, Forwarder

\* Sent counts a group's sends: nothing else changes it.
LEMMA SentStep ==
  ASSUME StreamInv, SourceInv, [Next]_vars, NEW h \in Groups,
         ~Respond(h), ~FwdSend(h)
  PROVE  Sent(h)' = Sent(h)
<1> USE WagStreamAssumption
<1> USE DEF StreamInv, clientVars, chanVars, esVars, workVars, tickVars
<1>a. /\ Len(es[h]) \in Nat /\ written[h] \in Nat
      /\ Waiting(h) \in Nat /\ Sent(h) = written[h] - Waiting(h)
      /\ Sent(h)' = written'[h] - Waiting(h)'
  <2>1. Len(es[h]) \in Nat /\ written[h] \in Nat
    BY DEF TypeOK
  <2>2. Waiting(h) \in Nat
    BY SentType
  <2> QED
    BY <2>1, <2>2 DEF Sent
<1>b. ASSUME UNCHANGED <<written[h], es[h]>>,
             worker[h] # "respond", worker'[h] # "respond",
             (fwd[h] # "send" /\ fwd'[h] # "send") \/ fwd'[h] = fwd[h]
      PROVE  Sent(h)' = Sent(h)
  BY <1>a, <1>b DEF Waiting
<1>1. CASE Spawn(h) \/ StartApi(h) \/ StartEventSource(h)
  <2>1. /\ UNCHANGED <<written[h], es[h]>>
        /\ worker[h] # "respond" /\ worker'[h] # "respond"
        /\ fwd[h] = "unborn" /\ fwd'[h] \in {"unborn", "range"}
    BY <1>1 DEF TypeOK, WorkerShape, Spawn, StartApi, StartEventSource
  <2> QED
    BY <1>b, <2>1
<1>2. CASE StartEmpty(h) \/ ApiServed(h)
  <2>1. /\ UNCHANGED <<es[h], fwd[h]>>
        /\ worker[h] \in {"start", "serve"} /\ worker'[h] = "respond"
        /\ fwd[h] = "unborn" /\ Kind[h] # "es" /\ written'[h] = 1
    BY <1>2 DEF TypeOK, WorkerShape, StartEmpty, ApiServed
  <2>2. es[h] = <<>> /\ written[h] = 0
    BY <2>1 DEF SourceInv
  <2>3. Waiting(h) = 0 /\ Waiting(h)' = 1
    BY <2>1, <2>2 DEF Waiting
  <2> QED
    BY <1>a, <2>1, <2>2, <2>3
<1>3. CASE WorkerDone(h) \/ FwdDone(h) \/ EsFlush(h) \/ EsReturnWithoutFlush(h)
  <2>1. /\ UNCHANGED <<written[h], es[h]>>
        /\ worker[h] # "respond" /\ worker'[h] # "respond"
        /\ (fwd[h] # "send" /\ fwd'[h] # "send") \/ fwd'[h] = fwd[h]
    BY <1>3 DEF TypeOK, WorkerShape, WorkerDone, FwdDone, EsFlush,
                EsReturnWithoutFlush
  <2> QED
    BY <1>b, <2>1
<1>4. CASE EsWrite(h)
  <2>1. /\ UNCHANGED <<worker[h], fwd[h]>>
        /\ written'[h] = written[h] + 1
        /\ Len(es'[h]) = Len(es[h]) + 1
    BY <1>4 DEF TypeOK, EsWrite
  <2>2. Waiting(h)' = Waiting(h) + 1
    BY <1>a, <2>1 DEF Waiting
  <2> QED
    BY <1>a, <2>1, <2>2
<1>5. CASE FwdReceive(h)
  <2>1. /\ UNCHANGED <<worker[h], written[h]>>
        /\ fwd[h] = "range" /\ fwd'[h] = "send" /\ worker[h] # "respond"
        /\ Len(es'[h]) = Len(es[h]) - 1
    BY <1>5 DEF TypeOK, WorkerShape, FwdReceive
  <2>2. Waiting(h)' = Waiting(h)
    BY <1>a, <2>1 DEF Waiting
  <2> QED
    BY <1>a, <2>1, <2>2
<1>6. ASSUME NEW g \in Groups \ {h}, Spawn(g) \/ Worker(g) \/ EsWrite(g)
                                     \/ RouteHandler(g) \/ Forwarder(g)
      PROVE  Sent(h)' = Sent(h)
  <2>1. UNCHANGED <<worker[h], fwd[h], es[h], written[h]>>
    BY <1>6 DEF TypeOK, Spawn, Worker, EsWrite, RouteHandler, Forwarder,
         StartInvalid, StartEmpty, StartEventSource, StartApi, ApiServed,
         Respond, Send, WorkerDone, EsFlush, EsReturnWithoutFlush, FwdReceive,
         FwdSend, FwdDone
  <2> QED
    BY <2>1 DEF Sent, Waiting
<1>7. ASSUME StartInvalid(h) \/ StartCloser \/ Tick \/ Ping \/ Closer \/ Consumer
             \/ ClientLeaves \/ UNCHANGED vars
      PROVE  Sent(h)' = Sent(h)
  <2>1. UNCHANGED <<worker[h], fwd[h], es[h], written[h]>>
    BY <1>7 DEF StartInvalid, StartCloser, Tick, Ping, PingReceive, PingSend,
         Closer, CloserWake, CloserStop, CloserClose, Consumer, RecvWrite,
         RecvWriteFails, RecvClosed, RecvDone, ClientLeaves, vars
  <2> QED
    BY <2>1 DEF Sent, Waiting
<1> QED
  BY <1>1, <1>2, <1>3, <1>4, <1>5, <1>6, <1>7
  DEF Next, Worker, RouteHandler, Forwarder

\* A send is never refused: nobody of the group sends on a closed channel.
LEMMA SenderSends ==
  ASSUME StreamInv, SourceInv, NEW g \in Groups, Respond(g) \/ FwdSend(g)
  PROVE  \E m \in Message :
           /\ IsPart(m, g)
           /\ m.n = Sent(g) + 1
           /\ ch' = Append(ch, m)
           /\ UNCHANGED <<out, main>>
           /\ Sent(g)' = Sent(g) + 1
<1> USE WagStreamAssumption
<1> USE DEF StreamInv, clientVars, esVars
<1>1. ~closed
  <2>1. g \in Outstanding
    BY DEF TypeOK, WorkerShape, Outstanding, Respond, FwdSend
  <2> QED
    BY <2>1 DEF CloserShape
<1>a. /\ Len(es[g]) \in Nat /\ written[g] \in Nat
      /\ Waiting(g) \in Nat /\ Sent(g) = written[g] - Waiting(g)
      /\ Sent(g)' = written'[g] - Waiting(g)'
  <2>1. Len(es[g]) \in Nat /\ written[g] \in Nat
    BY DEF TypeOK
  <2>2. Waiting(g) \in Nat
    BY SentType
  <2> QED
    BY <2>1, <2>2 DEF Sent
<1>2. CASE Respond(g)
  <2>1. /\ worker[g] = "respond" /\ worker'[g] = "done"
        /\ Kind[g] # "es" /\ fwd[g] = "unborn"
        /\ UNCHANGED <<fwd, es, written, out, main>>
    BY <1>2 DEF TypeOK, WorkerShape, Respond
  <2>2. es[g] = <<>> /\ written[g] = 1
    BY <2>1 DEF SourceInv
  <2>3. Waiting(g) = 1 /\ Waiting(g)' = 0
    BY <2>1, <2>2 DEF Waiting
  <2>4. ch' = Append(ch, ReadyResp(g))
    BY <1>1, <1>2 DEF Respond, Send
  <2>5. ReadyResp(g) \in Message /\ IsPart(ReadyResp(g), g) /\ ReadyResp(g).n = 1
    BY DEF ReadyResp, Message, IsPart
  <2> QED
    BY <1>a, <2>1, <2>2, <2>3, <2>4, <2>5
<1>3. CASE FwdSend(g)
  <2>1. /\ fwd[g] = "send" /\ fwd'[g] = "range" /\ worker[g] # "respond"
        /\ UNCHANGED <<worker, es, written, out, main>>
    BY <1>3 DEF TypeOK, WorkerShape, FwdSend
  <2>2. held[g] = written[g] - Len(es[g])
    BY <2>1 DEF SourceInv
  <2>3. Waiting(g) = Len(es[g]) + 1 /\ Waiting(g)' = Len(es[g])
    BY <2>1 DEF Waiting
  <2>4. ch' = Append(ch, RawResp(g, held[g]))
    BY <1>1, <1>3 DEF FwdSend, Send
  <2>5. /\ RawResp(g, held[g]) \in Message
        /\ IsPart(RawResp(g, held[g]), g)
        /\ RawResp(g, held[g]).n = held[g]
    BY DEF TypeOK, RawResp, Message, IsPart
  <2> QED
    BY <1>a, <2>1, <2>2, <2>3, <2>4, <2>5
<1> QED
  BY <1>2, <1>3

\* responseCh keeps holding exactly what was sent and not yet written.
LEMMA ChannelStep ==
  ASSUME StreamInv, StreamInv', SourceInv, ChannelInv, [Next]_vars
  PROVE  ChannelInv'
<1> USE DEF StreamInv, clientVars, chanVars, esVars, workVars, tickVars
<1>1. ASSUME NEW g \in Groups, Respond(g) \/ FwdSend(g) PROVE ChannelInv'
  <2>1. \A h \in Groups \ {g} : Sent(h)' = Sent(h)
    <3> SUFFICES ASSUME NEW h \in Groups \ {g} PROVE Sent(h)' = Sent(h)
      OBVIOUS
    <3>1. UNCHANGED <<worker[h], fwd[h], es[h], written[h]>>
      BY <1>1 DEF TypeOK, Respond, FwdSend
    <3> QED
      BY <3>1 DEF Sent, Waiting
  <2> QED
    BY <1>1, <2>1, SenderSends, ChannelSend
<1>2. ASSUME \A g \in Groups : ~Respond(g) /\ ~FwdSend(g) PROVE ChannelInv'
  <2>1. \A g \in Groups : Sent(g)' = Sent(g)
    BY <1>2, SentStep
  <2>2. CASE PingSend
    <3>1. CASE closed
      BY <2>1, <2>2, <3>1, ChannelUntouched DEF PingSend, Send
    <3>2. CASE ~closed
      BY <2>1, <2>2, <3>2, ChannelPing DEF PingSend, Send
    <3> QED
      BY <3>1, <3>2
  <2>3. CASE RecvWrite
    BY <2>1, <2>3, ChannelRecv
  <2>4. CASE RecvWriteFails
    BY <2>4 DEF RecvWriteFails, ChannelInv
  <2>5. CASE ~PingSend /\ ~RecvWrite /\ ~RecvWriteFails
    <3>1. /\ UNCHANGED <<ch, out>>
          /\ main' \in {"spawn", "loop"} => main \in {"spawn", "loop"}
      BY <1>2, <2>5 DEF TypeOK, Next, Worker, RouteHandler, Forwarder, Ping,
           Closer, Consumer, Spawn, StartCloser, StartInvalid, StartEmpty,
           StartEventSource, StartApi, ApiServed, WorkerDone, EsWrite, EsFlush,
           EsReturnWithoutFlush, FwdReceive, FwdDone, Tick, PingReceive,
           CloserWake, CloserStop, CloserClose, RecvClosed, RecvDone,
           ClientLeaves, vars
    <3> QED
      BY <2>1, <3>1, ChannelUntouched
  <2> QED
    BY <2>2, <2>3, <2>4, <2>5
<1> QED
  BY <1>1, <1>2

\* Initially there is nothing to deliver.
LEMMA InitDelivery == Init => DeliveryInv
<1> SUFFICES ASSUME Init PROVE DeliveryInv
  OBVIOUS
<1>1. \A g \in Groups : Waiting(g) = 0 /\ Sent(g) = 0
  BY DEF Init, Waiting, Sent
<1>2. SourceInv
  BY <1>1 DEF Init, SourceInv
<1>3. ChannelInv
  BY <1>1 DEF Init, ChannelInv
<1> QED
  BY <1>2, <1>3 DEF DeliveryInv

\* No part of an answer is lost, duplicated or overtaken between the backend
\* and the consumer's loop (handler.go:165-175, 191-198, 211-263).
THEOREM Delivery == Spec => [](StreamInv /\ DeliveryInv)
<1>1. Init => StreamInv /\ DeliveryInv
  BY InitInv, InitDelivery
<1>2. StreamInv /\ DeliveryInv /\ [Next]_vars => (StreamInv /\ DeliveryInv)'
  <2> SUFFICES ASSUME StreamInv, DeliveryInv, [Next]_vars
               PROVE  (StreamInv /\ DeliveryInv)'
    OBVIOUS
  <2>1. StreamInv'
    BY NextInv
  <2>2. SourceInv'
    BY <2>1, SourceStep DEF DeliveryInv
  <2>3. ChannelInv'
    BY <2>1, ChannelStep DEF DeliveryInv
  <2> QED
    BY <2>1, <2>2, <2>3 DEF DeliveryInv
<1> QED
  BY <1>1, <1>2, PTL DEF Spec

-----------------------------------------------------------------------------
(* The way of the parts as one sequence of numbers. *)

\* The numbers of the first n parts.
UpTo(n) == [i \in 1..n |-> i]

LEMMA OneNumberMore ==
  ASSUME NEW n \in Nat
  PROVE  /\ UpTo(n) \in Seq(Nat)
         /\ UpTo(n + 1) = Append(UpTo(n), n + 1)
         /\ UpTo(0) = <<>>
<1>1. UpTo(n) \in Seq(Nat) /\ UpTo(n + 1) \in Seq(Nat) /\ UpTo(0) = <<>>
  BY DEF UpTo
<1>2. Len(UpTo(n)) = n /\ Len(UpTo(n + 1)) = n + 1
  BY DEF UpTo
<1>3. /\ Append(UpTo(n), n + 1) \in Seq(Nat)
      /\ Len(Append(UpTo(n), n + 1)) = n + 1
      /\ Append(UpTo(n), n + 1)[n + 1] = n + 1
      /\ \A i \in 1..n : Append(UpTo(n), n + 1)[i] = UpTo(n)[i]
  BY <1>1, <1>2, AppendProperties
<1>4. \A i \in 1..(n + 1) : UpTo(n + 1)[i] = Append(UpTo(n), n + 1)[i]
  <2> TAKE i \in 1..(n + 1)
  <2>1. UpTo(n + 1)[i] = i /\ (i \in 1..n => UpTo(n)[i] = i)
    BY DEF UpTo
  <2>2. i = n + 1 \/ i \in 1..n
    OBVIOUS
  <2> QED BY <1>3, <2>1, <2>2
<1>5. UpTo(n + 1) = Append(UpTo(n), n + 1)
  <2> DEFINE a == UpTo(n + 1)
             b == Append(UpTo(n), n + 1)
  <2>1. a \in Seq(Nat) /\ b \in Seq(Nat) /\ Len(a) = Len(b)
        /\ \A i \in 1..Len(a) : a[i] = b[i]
    BY <1>1, <1>2, <1>3, <1>4
  <2> HIDE DEF a, b
  <2>2. a = b
    BY <2>1, SeqEqual
  <2> QED BY <2>2 DEF a, b
<1> QED BY <1>1, <1>5

\* The numbers of a sequence of parts.
LEMMA NumbersOfParts ==
  ASSUME NEW g, NEW p \in Seq(PartsOf(g)), NEW m \in PartsOf(g)
  PROVE  /\ Numbers(p) \in Seq(Nat) /\ m.n \in Nat
         /\ Numbers(Append(p, m)) = Append(Numbers(p), m.n)
         /\ Numbers(Joined(<<m>>, p)) = Joined(<<m.n>>, Numbers(p))
<1> DEFINE n == Len(p)
           q == Numbers(p)
<1>1. n \in Nat /\ DOMAIN p = 1..n /\ \A i \in 1..n : p[i] \in PartsOf(g)
  BY LenProperties, ElementOfSeq
<1>2. \A x \in PartsOf(g) : x.n \in Nat
  BY DEF PartsOf
<1>3. m.n \in Nat
  BY <1>2
<1>4. q = [i \in 1..n |-> p[i].n]
  BY <1>1 DEF Numbers
<1>5. q \in Seq(Nat) /\ Len(q) = n
  BY <1>1, <1>2, <1>4
<1>6. Numbers(Append(p, m)) = Append(Numbers(p), m.n)
  <2> DEFINE a == Append(p, m)
             x == Numbers(a)
             y == Append(q, m.n)
  <2>1. /\ Len(a) = n + 1 /\ DOMAIN a = 1..(n + 1) /\ a[n + 1] = m
        /\ \A i \in 1..n : a[i] = p[i]
        /\ a \in Seq(PartsOf(g))
    BY AppendProperties, LenProperties
  <2>2. x = [i \in 1..(n + 1) |-> a[i].n]
    BY <2>1 DEF Numbers
  <2>3. /\ y \in Seq(Nat) /\ Len(y) = n + 1 /\ y[n + 1] = m.n
        /\ \A i \in 1..n : y[i] = q[i]
    BY <1>3, <1>5, AppendProperties
  <2> HIDE DEF a, x, y, q, n
  <2>4. \A i \in 1..(n + 1) : x[i] = y[i]
    <3> TAKE i \in 1..(n + 1)
    <3>1. i = n + 1 \/ i \in 1..n
      BY <1>1
    <3> QED BY <1>4, <2>1, <2>2, <2>3, <3>1
  <2>5. y = [i \in 1..(n + 1) |-> y[i]]
    BY <1>1, <2>3
  <2>6. x = y
    BY <2>2, <2>4, <2>5
  <2> QED BY <2>6 DEF a, x, y, q
<1>7. Numbers(Joined(<<m>>, p)) = Joined(<<m.n>>, Numbers(p))
  <2> DEFINE a == <<m>> \o p
             x == Numbers(a)
             y == <<m.n>> \o q
  <2>1. <<m>> \in Seq(PartsOf(g)) /\ Len(<<m>>) = 1 /\ <<m>>[1] = m
    OBVIOUS
  <2>2. /\ a \in Seq(PartsOf(g)) /\ Len(a) = 1 + n
        /\ \A i \in 1..(1 + n) : a[i] = IF i <= 1 THEN <<m>>[i] ELSE p[i - 1]
    BY <2>1, ConcatProperties
  <2>3. <<m.n>> \in Seq(Nat) /\ Len(<<m.n>>) = 1 /\ <<m.n>>[1] = m.n
    BY <1>3
  <2>4. /\ y \in Seq(Nat) /\ Len(y) = 1 + n
        /\ \A i \in 1..(1 + n) : y[i] = IF i <= 1 THEN <<m.n>>[i] ELSE q[i - 1]
    BY <1>5, <2>3, ConcatProperties
  <2>5. x = [i \in 1..(1 + n) |-> a[i].n]
    BY <2>2, LenProperties DEF Numbers
  <2> HIDE DEF a, x, y, q, n
  <2>6. \A i \in 1..(1 + n) : x[i] = y[i]
    <3> TAKE i \in 1..(1 + n)
    <3>1. CASE i = 1
      BY <2>1, <2>2, <2>3, <2>4, <2>5, <3>1
    <3>2. CASE i # 1
      <4>1. i - 1 \in 1..n /\ ~(i <= 1)
        BY <1>1, <3>2
      <4>2. x[i] = p[i - 1].n /\ y[i] = q[i - 1]
        BY <2>2, <2>4, <2>5, <4>1
      <4> QED BY <1>4, <4>1, <4>2
    <3> QED BY <3>1, <3>2
  <2>7. y = [i \in 1..(1 + n) |-> y[i]]
    BY <1>1, <2>4
  <2>8. x = y
    BY <2>5, <2>6, <2>7
  <2> QED BY <2>8 DEF a, x, y, q, Joined
<1> QED BY <1>3, <1>5, <1>6, <1>7

\* What the client has, what is in responseCh, in a hand and in the writer's
\* channel, one after another.
Way(a, b, c, d) == Joined(Joined(Joined(a, b), c), d)

\* A part moves on its way without changing it: from the hand to responseCh, ...
LEMMA WaySend ==
  ASSUME NEW a \in Seq(Nat), NEW b \in Seq(Nat), NEW d \in Seq(Nat), NEW x \in Nat
  PROVE  Way(a, Append(b, x), <<>>, d) = Way(a, b, <<x>>, d)
<1>1. Joined(a, b) \in Seq(Nat) /\ Append(b, x) \in Seq(Nat)
  BY JoinedType, AppendProperties
<1>2. Joined(a, Append(b, x)) = Append(Joined(a, b), x)
  BY JoinedAppend
<1>3. Joined(a, Append(b, x)) \in Seq(Nat)
  BY <1>1, JoinedType
<1>4. Joined(Joined(a, Append(b, x)), <<>>) = Joined(a, Append(b, x))
  BY <1>3, JoinedEmpty
<1>5. Joined(Joined(a, b), <<x>>) = Append(Joined(a, b), x)
  BY <1>1, JoinedOne
<1> QED BY <1>2, <1>4, <1>5 DEF Way

\* ... from the writer's channel to the hand, ...
LEMMA WayTake ==
  ASSUME NEW a \in Seq(Nat), NEW b \in Seq(Nat), NEW d \in Seq(Nat), d # <<>>
  PROVE  Way(a, b, <<Head(d)>>, Tail(d)) = Way(a, b, <<>>, d)
<1> DEFINE x == Head(d)
           t == Tail(d)
           ab == Joined(a, b)
           u == <<x>>
<1>1. ab \in Seq(Nat)
  BY JoinedType
<1>2. x \in Nat /\ t \in Seq(Nat) /\ u \in Seq(Nat)
  BY HeadTailProperties
<1>3. d = Joined(u, t)
  BY DEF Joined
<1>4. Joined(ab, <<>>) = ab
  BY <1>1, JoinedEmpty
<1> HIDE DEF x, t, ab, u
<1>5. Joined(Joined(ab, u), t) = Joined(ab, Joined(u, t))
  BY <1>1, <1>2, JoinedAssociative
<1>6. Joined(Joined(ab, u), t) = Joined(Joined(ab, <<>>), d)
  BY <1>3, <1>4, <1>5
<1> QED BY <1>6 DEF Way, x, t, ab, u

\* ... and from responseCh to the client.
LEMMA WayDeliver ==
  ASSUME NEW a \in Seq(Nat), NEW b \in Seq(Nat), NEW x \in Nat, NEW c, NEW d
  PROVE  Way(a, Joined(<<x>>, b), c, d) = Way(Append(a, x), b, c, d)
<1> DEFINE u == <<x>>
<1>1. u \in Seq(Nat) /\ Joined(a, u) = Append(a, x)
  BY JoinedOne
<1>4. u \in Seq(Nat)
  BY <1>1
<1> HIDE DEF u
<1>2. Joined(Joined(a, u), b) = Joined(a, Joined(u, b))
  BY <1>4, JoinedAssociative
<1>3. Joined(a, Joined(u, b)) = Joined(Append(a, x), b)
  BY <1>1, <1>2
<1> QED BY <1>3 DEF Way, u

\* A new part enters at the end.
LEMMA WayWrite ==
  ASSUME NEW a \in Seq(Nat), NEW b \in Seq(Nat), NEW c \in Seq(Nat),
         NEW d \in Seq(Nat), NEW n \in Nat, Way(a, b, c, d) = UpTo(n)
  PROVE  Way(a, b, c, Append(d, n + 1)) = UpTo(n + 1)
<1>1. Joined(a, b) \in Seq(Nat)
  BY JoinedType
<1> DEFINE abc == Joined(Joined(a, b), c)
           x == n + 1
<1>2. abc \in Seq(Nat) /\ x \in Nat
  BY <1>1, JoinedType
<1>3. UpTo(x) = Append(UpTo(n), x)
  BY OneNumberMore
<1> HIDE DEF abc, x
<1>4. Joined(abc, Append(d, x)) = Append(Joined(abc, d), x)
  BY <1>2, JoinedAppend
<1>5. Joined(abc, d) = UpTo(n)
  BY DEF abc, Way
<1>6. Joined(abc, Append(d, x)) = UpTo(x)
  BY <1>3, <1>4, <1>5
<1> QED BY <1>6 DEF Way, abc, x

\* The answer of a worker: its only part.
LEMMA WayOnly ==
  ASSUME NEW a \in Seq(Nat), NEW b \in Seq(Nat), Way(a, b, <<>>, <<>>) = <<>>
  PROVE  Way(a, b, <<1>>, <<>>) = <<1>>
<1> DEFINE ab == Joined(a, b)
<1>1. ab \in Seq(Nat)
  BY JoinedType
<1> HIDE DEF ab
<1>2. Joined(ab, <<>>) = ab
  BY <1>1, JoinedEmpty
<1>3. ab = <<>>
  BY <1>2 DEF Way, ab
<1>4. <<1>> \in Seq(Nat)
  OBVIOUS
<1>5. Joined(Joined(<<>>, <<1>>), <<>>) = <<1>>
  BY <1>4, JoinedEmpty
<1> QED BY <1>3, <1>5 DEF Way, ab

\* NothingLost in these terms.
LEMMA NothingLostIs ==
  NothingLost <=>
    (main \in {"spawn", "loop", "closed"} /\ ~crashed =>
       \A g \in Groups :
         Way(out[g], InChannel(g), InHand(g), es[g]) = UpTo(written[g]))
BY DEF NothingLost, Way, Joined, UpTo

\* A message in responseCh is a ping or a part for one group.
LEMMA PartsOfMessage ==
  ASSUME NEW m \in Message, NEW g \in Groups
  PROVE  m \in PartsOf(g) <=> IsPart(m, g)
BY DEF Message, PartsOf, IsPart, PingResp

\* What a send adds to a group's parts in the channel, and a receive takes.
LEMMA ChannelParts ==
  ASSUME TypeOK, NEW g \in Groups
  PROVE  /\ InChannel(g) \in Seq(Nat)
         /\ \A m \in Message : ch' = Append(ch, m) =>
              InChannel(g)' = IF IsPart(m, g) THEN Append(InChannel(g), m.n)
                              ELSE InChannel(g)
         /\ ch # <<>> /\ ch' = Tail(ch) =>
              InChannel(g) = IF IsPart(Head(ch), g)
                             THEN Joined(<<Head(ch).n>>, InChannel(g)')
                             ELSE InChannel(g)'
<1> DEFINE P == PartsOf(g)
<1>1. ch \in Seq(Message)
  BY DEF TypeOK
<1>2. Selected(ch, P) \in Seq(P)
  BY <1>1, SelectedInSet
<1>3. InChannel(g) \in Seq(Nat)
  <2> DEFINE p == Selected(ch, P)
  <2>1. \A i \in 1..Len(p) : p[i] \in P
    BY <1>2, ElementOfSeq
  <2>2. \A x \in P : x.n \in Nat
    BY DEF PartsOf
  <2>3. Len(p) \in Nat /\ DOMAIN p = 1..Len(p)
    BY <1>2, LenProperties
  <2> HIDE DEF p, P
  <2>4. Numbers(p) = [i \in 1..Len(p) |-> p[i].n]
    BY <2>3 DEF Numbers
  <2>5. Numbers(p) \in Seq(Nat)
    BY <2>1, <2>2, <2>3, <2>4
  <2> QED BY <2>5 DEF InChannel, p, P
<1>4. ASSUME NEW m \in Message, ch' = Append(ch, m)
      PROVE  InChannel(g)' = IF IsPart(m, g) THEN Append(InChannel(g), m.n)
                             ELSE InChannel(g)
  <2>1. Selected(Append(ch, m), P) =
          IF m \in P THEN Append(Selected(ch, P), m) ELSE Selected(ch, P)
    BY <1>1, SelectedAppend
  <2>2. m \in P <=> IsPart(m, g)
    BY PartsOfMessage
  <2>3. InChannel(g)' = Numbers(Selected(Append(ch, m), P))
    BY <1>4 DEF InChannel
  <2>4. CASE IsPart(m, g)
    <3>1. m \in P /\ InChannel(g)' = Numbers(Append(Selected(ch, P), m))
      BY <2>1, <2>2, <2>3, <2>4
    <3>2. Numbers(Append(Selected(ch, P), m))
            = Append(Numbers(Selected(ch, P)), m.n)
      BY <1>2, <3>1, NumbersOfParts
    <3> QED BY <2>4, <3>1, <3>2 DEF InChannel
  <2>5. CASE ~IsPart(m, g)
    BY <2>1, <2>2, <2>3, <2>5 DEF InChannel
  <2> QED BY <2>4, <2>5
<1>5. ASSUME ch # <<>>, ch' = Tail(ch)
      PROVE  InChannel(g) = IF IsPart(Head(ch), g)
                            THEN Joined(<<Head(ch).n>>, InChannel(g)')
                            ELSE InChannel(g)'
  <2>1. Head(ch) \in Message /\ Tail(ch) \in Seq(Message)
    BY <1>1, <1>5, HeadTailProperties
  <2>2. Selected(ch, P) =
          IF Head(ch) \in P THEN <<Head(ch)>> \o Selected(Tail(ch), P)
          ELSE Selected(Tail(ch), P)
    BY <1>1, <1>5, SelectedTail
  <2>3. Head(ch) \in P <=> IsPart(Head(ch), g)
    BY <2>1, PartsOfMessage
  <2>4. InChannel(g)' = Numbers(Selected(Tail(ch), P))
    BY <1>5 DEF InChannel
  <2>5. CASE IsPart(Head(ch), g)
    <3>1. Head(ch) \in P
      BY <2>3, <2>5
    <3>2. Selected(ch, P) = Joined(<<Head(ch)>>, Selected(Tail(ch), P))
      BY <2>2, <3>1 DEF Joined
    <3>3. Selected(Tail(ch), P) \in Seq(P)
      BY <2>1, SelectedInSet
    <3>4. Numbers(Joined(<<Head(ch)>>, Selected(Tail(ch), P)))
            = Joined(<<Head(ch).n>>, Numbers(Selected(Tail(ch), P)))
      BY <3>1, <3>3, NumbersOfParts
    <3> QED BY <2>4, <2>5, <3>2, <3>4 DEF InChannel
  <2>6. CASE ~IsPart(Head(ch), g)
    BY <2>2, <2>3, <2>4, <2>6 DEF InChannel
  <2> QED BY <2>5, <2>6
<1> QED BY <1>3, <1>4, <1>5

\* A step which leaves everything on the way of a group's parts where it is.
LEMMA WayUntouched ==
  ASSUME NEW g \in Groups,
         UNCHANGED <<out[g], ch, es[g], written[g], held[g]>>,
         (worker[g] = "respond") = (worker'[g] = "respond"),
         (fwd[g] = "send") = (fwd'[g] = "send")
  PROVE  /\ Way(out[g], InChannel(g), InHand(g), es[g])'
              = Way(out[g], InChannel(g), InHand(g), es[g])
         /\ UpTo(written[g])' = UpTo(written[g])
<1>1. InHand(g)' = InHand(g)
  BY DEF InHand
<1>2. InChannel(g)' = InChannel(g)
  BY DEF InChannel
<1> QED BY <1>1, <1>2

\* Every step keeps the parts of every group on their way.
LEMMA LostStep ==
  ASSUME StreamInv, DeliveryInv, NothingLost, [Next]_vars
  PROVE  NothingLost'
<1> USE DEF StreamInv, clientVars, chanVars, esVars, workVars, tickVars
<1> DEFINE Whole(g) ==
      Way(out[g], InChannel(g), InHand(g), es[g]) = UpTo(written[g])
<1>0. NothingLost' <=> (main' \in {"spawn", "loop", "closed"} /\ ~crashed' =>
                          \A g \in Groups : Whole(g)')
  BY DEF NothingLost, Way, Joined, UpTo
<1>s. SUFFICES ASSUME main' \in {"spawn", "loop", "closed"}, ~crashed',
                      NEW h \in Groups
               PROVE  Whole(h)'
  BY <1>0
<1>a. /\ TypeOK
      /\ out[h] \in Seq(Nat) /\ InChannel(h) \in Seq(Nat) /\ es[h] \in Seq(Nat)
      /\ written[h] \in Nat /\ held[h] \in Nat
  BY ChannelParts DEF TypeOK
<1>u. ASSUME UNCHANGED <<out[h], ch, es[h], written[h], held[h]>>,
             (worker[h] = "respond") = (worker'[h] = "respond"),
             (fwd[h] = "send") = (fwd'[h] = "send"),
             Whole(h)
      PROVE  Whole(h)'
  BY <1>u, WayUntouched
<1>b. Whole(h)
  <2>1. main \in {"spawn", "loop", "closed"} /\ ~crashed
    BY <1>s DEF TypeOK, Next, Worker, RouteHandler, Forwarder, Ping,
         Closer, Consumer, Spawn, StartCloser, StartInvalid, StartEmpty,
         StartEventSource, StartApi, ApiServed, WorkerDone, Respond, EsWrite,
         EsFlush, EsReturnWithoutFlush, FwdReceive, FwdSend, FwdDone, Tick,
         PingReceive, PingSend, CloserWake, CloserStop, CloserClose, RecvWrite,
         RecvWriteFails, RecvClosed, RecvDone, ClientLeaves, vars
  <2> QED BY <2>1, NothingLostIs
<1> HIDE DEF Whole
<1>1. CASE Spawn(h) \/ StartApi(h) \/ StartEventSource(h) \/ WorkerDone(h)
           \/ EsFlush(h) \/ EsReturnWithoutFlush(h) \/ FwdDone(h)
  <2>1. /\ UNCHANGED <<out[h], ch, es[h], written[h], held[h]>>
        /\ (worker[h] = "respond") = (worker'[h] = "respond")
        /\ (fwd[h] = "send") = (fwd'[h] = "send")
    BY <1>1 DEF TypeOK, WorkerShape, Spawn, StartApi, StartEventSource,
         WorkerDone, EsFlush, EsReturnWithoutFlush, FwdDone
  <2> QED BY <1>b, <1>u, <2>1
<1>2. CASE StartEmpty(h) \/ ApiServed(h)
  <2>1. /\ UNCHANGED <<out, ch, es, fwd>>
        /\ worker[h] \in {"start", "serve"} /\ worker'[h] = "respond"
        /\ fwd[h] = "unborn" /\ Kind[h] # "es" /\ written'[h] = 1
    BY <1>2 DEF TypeOK, WorkerShape, StartEmpty, ApiServed
  <2>2. es[h] = <<>> /\ written[h] = 0
    BY <2>1 DEF DeliveryInv, SourceInv
  <2>3. InHand(h) = <<>> /\ InHand(h)' = <<1>> /\ InChannel(h)' = InChannel(h)
    BY <2>1 DEF InHand, InChannel
  <2>4. UpTo(0) = <<>> /\ UpTo(1) = <<1>>
    BY DEF UpTo
  <2>5. Way(out[h], InChannel(h), <<>>, <<>>) = <<>>
    BY <1>b, <2>2, <2>3, <2>4 DEF Whole
  <2>6. Way(out[h], InChannel(h), <<1>>, <<>>) = <<1>>
    BY <1>a, <2>5, WayOnly
  <2> QED BY <2>1, <2>2, <2>3, <2>4, <2>6 DEF Whole
<1>3. CASE Respond(h) \/ FwdSend(h)
  <2>1. PICK m \in Message :
          IsPart(m, h) /\ ch' = Append(ch, m) /\ InHand(h) = <<m.n>> /\ m.n \in Nat
    <3>1. CASE Respond(h)
      <4>1. ReadyResp(h) \in Message /\ IsPart(ReadyResp(h), h)
            /\ ReadyResp(h).n = 1
        BY DEF ReadyResp, Message, IsPart
      <4>2. ch' = Append(ch, ReadyResp(h)) /\ InHand(h) = <<1>>
        BY <1>s, <3>1 DEF Respond, Send, InHand
      <4> QED BY <4>1, <4>2
    <3>2. CASE FwdSend(h)
      <4>1. /\ RawResp(h, held[h]) \in Message
            /\ IsPart(RawResp(h, held[h]), h)
            /\ RawResp(h, held[h]).n = held[h]
        BY DEF TypeOK, RawResp, Message, IsPart
      <4>2. worker[h] # "respond"
        BY <3>2 DEF TypeOK, WorkerShape, FwdSend
      <4>3. ch' = Append(ch, RawResp(h, held[h])) /\ InHand(h) = <<held[h]>>
        BY <1>s, <3>2, <4>2 DEF FwdSend, Send, InHand
      <4> QED BY <1>a, <4>1, <4>3
    <3> QED BY <1>3, <3>1, <3>2
  <2>2. InChannel(h)' = Append(InChannel(h), m.n)
    BY <1>a, <2>1, ChannelParts
  <2>3. UNCHANGED <<out, es, written>> /\ InHand(h)' = <<>>
    BY <1>3 DEF TypeOK, WorkerShape, Respond, FwdSend, InHand
  <2>4. Way(out[h], Append(InChannel(h), m.n), <<>>, es[h])
          = Way(out[h], InChannel(h), <<m.n>>, es[h])
    BY <1>a, <2>1, WaySend
  <2> QED BY <1>b, <2>1, <2>2, <2>3, <2>4 DEF Whole
<1>4. CASE EsWrite(h)
  <2>1. /\ UNCHANGED <<out, ch, worker, fwd, held>>
        /\ written'[h] = written[h] + 1
        /\ es'[h] = Append(es[h], written[h] + 1)
    BY <1>4 DEF TypeOK, EsWrite
  <2>2. InChannel(h)' = InChannel(h) /\ InHand(h)' = InHand(h)
    BY <2>1 DEF InChannel, InHand
  <2>6. InHand(h) \in Seq(Nat)
    BY <1>a DEF InHand
  <2>3. Way(out[h], InChannel(h), InHand(h), Append(es[h], written[h] + 1))
          = UpTo(written[h] + 1)
    BY <1>a, <1>b, <2>6, WayWrite DEF Whole
  <2> QED BY <2>1, <2>2, <2>3 DEF Whole
<1>5. CASE FwdReceive(h)
  <2>1. /\ UNCHANGED <<out, ch, worker, written>>
        /\ fwd[h] = "range" /\ fwd'[h] = "send" /\ worker[h] # "respond"
        /\ es[h] # <<>> /\ es'[h] = Tail(es[h]) /\ held'[h] = Head(es[h])
    BY <1>5 DEF TypeOK, WorkerShape, FwdReceive
  <2>2. /\ InChannel(h)' = InChannel(h)
        /\ InHand(h) = <<>> /\ InHand(h)' = <<Head(es[h])>>
    BY <2>1 DEF InChannel, InHand
  <2>3. Way(out[h], InChannel(h), <<Head(es[h])>>, Tail(es[h]))
          = Way(out[h], InChannel(h), <<>>, es[h])
    BY <1>a, <2>1, WayTake
  <2> QED BY <1>b, <2>1, <2>2, <2>3 DEF Whole
<1>6. ASSUME NEW g \in Groups \ {h}, Respond(g) \/ FwdSend(g)
      PROVE  Whole(h)'
  <2>1. PICK m \in Message : IsPart(m, g) /\ ch' = Append(ch, m)
    <3>1. CASE Respond(g)
      <4>1. ReadyResp(g) \in Message /\ IsPart(ReadyResp(g), g)
        BY DEF ReadyResp, Message, IsPart
      <4>2. ch' = Append(ch, ReadyResp(g))
        BY <1>s, <3>1 DEF Respond, Send
      <4> QED BY <4>1, <4>2
    <3>2. CASE FwdSend(g)
      <4>1. RawResp(g, held[g]) \in Message /\ IsPart(RawResp(g, held[g]), g)
        BY DEF TypeOK, RawResp, Message, IsPart
      <4>2. ch' = Append(ch, RawResp(g, held[g]))
        BY <1>s, <3>2 DEF FwdSend, Send
      <4> QED BY <4>1, <4>2
    <3> QED BY <1>6, <3>1, <3>2
  <2>2. ~IsPart(m, h)
    BY <2>1 DEF IsPart
  <2>3. InChannel(h)' = InChannel(h)
    BY <1>a, <2>1, <2>2, ChannelParts
  <2>4. UNCHANGED <<out, es, written, worker[h], fwd[h], held[h]>>
    BY <1>6 DEF TypeOK, Respond, FwdSend
  <2>5. InHand(h)' = InHand(h)
    BY <2>4 DEF InHand
  <2> QED BY <1>b, <2>3, <2>4, <2>5 DEF Whole
<1>7. ASSUME NEW g \in Groups \ {h},
             Spawn(g) \/ StartEmpty(g) \/ StartEventSource(g) \/ StartApi(g)
               \/ ApiServed(g) \/ WorkerDone(g) \/ EsWrite(g) \/ EsFlush(g)
               \/ EsReturnWithoutFlush(g) \/ FwdReceive(g) \/ FwdDone(g)
      PROVE  Whole(h)'
  <2>1. UNCHANGED <<out[h], ch, es[h], written[h], held[h], worker[h], fwd[h]>>
    BY <1>7 DEF TypeOK, Spawn, StartEmpty, StartEventSource, StartApi, ApiServed,
         WorkerDone, EsWrite, EsFlush, EsReturnWithoutFlush, FwdReceive, FwdDone
  <2> QED BY <1>b, <1>u, <2>1
<1>8. CASE PingSend
  <2>1. ch' = Append(ch, PingResp) /\ PingResp \in Message
    BY <1>s, <1>8 DEF PingSend, Send, Message
  <2>2. ~IsPart(PingResp, h)
    BY DEF IsPart, PingResp
  <2>3. InChannel(h)' = InChannel(h)
    BY <1>a, <2>1, <2>2, ChannelParts
  <2>4. UNCHANGED <<out, es, written, worker, fwd, held>>
    BY <1>8 DEF PingSend
  <2>5. InHand(h)' = InHand(h)
    BY <2>4 DEF InHand
  <2> QED BY <1>b, <2>3, <2>4, <2>5 DEF Whole
<1>9. CASE RecvWrite
  <2>1. /\ ch # <<>> /\ ch' = Tail(ch)
        /\ UNCHANGED <<es, written, worker, fwd, held>>
    BY <1>9 DEF RecvWrite
  <2>2. Head(ch) \in Message
    BY <2>1, HeadTailProperties DEF TypeOK
  <2>3. InHand(h)' = InHand(h)
    BY <2>1 DEF InHand
  <2>4. CASE IsPart(Head(ch), h)
    <3>1. out'[h] = Append(out[h], Head(ch).n)
      BY <1>9, <2>4 DEF RecvWrite, TypeOK, IsPart
    <3>2. InChannel(h) = Joined(<<Head(ch).n>>, InChannel(h)')
      BY <1>a, <2>1, <2>4, ChannelParts
    <3>3. Head(ch).n \in Nat
      <4>1. Head(ch) \in PartsOf(h)
        BY <2>2, <2>4, PartsOfMessage
      <4> QED BY <4>1 DEF PartsOf
    <3>4. InChannel(h)' \in Seq(Nat)
      <4>1. Tail(ch) \in Seq(Message)
        BY <2>1, HeadTailProperties DEF TypeOK
      <4>2. Selected(Tail(ch), PartsOf(h)) \in Seq(PartsOf(h))
        BY <4>1, SelectedInSet
      <4>3. Numbers(Selected(Tail(ch), PartsOf(h))) \in Seq(Nat)
        BY <2>2, <2>4, <4>2, PartsOfMessage, NumbersOfParts
      <4> QED BY <2>1, <4>3 DEF InChannel
    <3>5. Way(out[h], Joined(<<Head(ch).n>>, InChannel(h)'), InHand(h), es[h])
            = Way(Append(out[h], Head(ch).n), InChannel(h)', InHand(h), es[h])
      BY <1>a, <3>3, <3>4, WayDeliver
    <3> QED BY <1>b, <2>1, <2>3, <3>1, <3>2, <3>5 DEF Whole
  <2>5. CASE ~IsPart(Head(ch), h)
    <3>1. out'[h] = out[h]
      BY <1>9, <2>2, <2>5 DEF RecvWrite, TypeOK, IsPart, Message, PingResp
    <3>2. InChannel(h)' = InChannel(h)
      BY <1>a, <2>1, <2>5, ChannelParts
    <3> QED BY <1>b, <2>1, <2>3, <3>1, <3>2 DEF Whole
  <2> QED BY <2>4, <2>5
<1>10. CASE RecvWriteFails \/ RecvDone \/ \E g \in Groups : StartInvalid(g)
  BY <1>s, <1>10 DEF RecvWriteFails, RecvDone, StartInvalid
<1>11. CASE StartCloser \/ Tick \/ PingReceive \/ Closer \/ RecvClosed
            \/ ClientLeaves \/ UNCHANGED vars
  <2>1. UNCHANGED <<out[h], ch, es[h], written[h], held[h], worker[h], fwd[h]>>
    BY <1>11 DEF StartCloser, Tick, PingReceive, Closer, CloserWake, CloserStop,
         CloserClose, RecvClosed, ClientLeaves, vars
  <2> QED BY <1>b, <1>u, <2>1
<1> QED
  BY <1>1, <1>2, <1>3, <1>4, <1>5, <1>6, <1>7, <1>8, <1>9, <1>10, <1>11
  DEF Next, Worker, RouteHandler, Forwarder, Ping, Consumer

\* Until a write to the client fails, the parts of an answer which the client
\* has and those in responseCh, in a goroutine's hand and in the writer's
\* channel are, one after another, all the parts its backend has produced: for
\* any groups and any sizes of the channels (handler.go:165-175, 191-263).
THEOREM NothingEverLost == Spec => []NothingLost
<1>1. Init => NothingLost
  <2> SUFFICES ASSUME Init, NEW g \in Groups
               PROVE  Way(out[g], InChannel(g), InHand(g), es[g]) = UpTo(written[g])
    BY NothingLostIs
  <2>1. /\ ch = <<>> /\ out[g] = <<>> /\ es[g] = <<>> /\ written[g] = 0
        /\ worker[g] = "unborn" /\ fwd[g] = "unborn"
    BY DEF Init
  <2>2. InHand(g) = <<>>
    BY <2>1 DEF InHand
  <2>3. InChannel(g) = <<>>
    BY <2>1, SelectedEmpty DEF InChannel, Numbers
  <2>4. <<>> \in Seq(Nat)
    OBVIOUS
  <2>5. Way(<<>>, <<>>, <<>>, <<>>) = <<>>
    BY <2>4, JoinedEmpty DEF Way
  <2>6. UpTo(0) = <<>>
    BY DEF UpTo
  <2> QED BY <2>1, <2>2, <2>3, <2>5, <2>6
<1>2. StreamInv /\ DeliveryInv /\ NothingLost /\ [Next]_vars => NothingLost'
  BY LostStep
<1> QED BY <1>1, <1>2, Delivery, PTL DEF Spec

-----------------------------------------------------------------------------
(* The refinement. *)

\* A step of the stream is a step of the contract or leaves it alone.
LEMMA StepRefines ==
  ASSUME StreamInv, StreamInv', DeliveryInv, [Next]_vars
  PROVE  [Contract!CNext]_Contract!cvars
<1> USE WagStreamAssumption
<1> USE DEF StreamInv, DeliveryInv, clientVars, chanVars, esVars, workVars,
            tickVars
<1> DEFINE End(g) == IF Kind[g] = "es" THEN esClosed[g] ELSE written[g] = 1
<1> DEFINE phase == CASE main \in {"spawn", "loop"} -> "open"
                      [] main = "closed" -> "closed"
                      [] OTHER -> "broken"
<1>1. ASSUME NEW g \in Groups, StartEmpty(g) \/ ApiServed(g)
      PROVE  Contract!End(g)
  <2>1. /\ Kind[g] # "es" /\ worker[g] \in {"start", "serve"}
        /\ written' = [written EXCEPT ![g] = 1]
        /\ UNCHANGED <<out, main, esClosed>>
    BY <1>1 DEF StartEmpty, ApiServed
  <2>2. written[g] = 0
    BY <2>1 DEF SourceInv
  <2>3. written'[g] = 1 /\ \A h \in Groups \ {g} : written'[h] = written[h]
    BY <2>1 DEF TypeOK
  <2>4. /\ ~End(g) /\ End(g)'
        /\ \A h \in Groups \ {g} : End(h)' = End(h)
    BY <2>1, <2>2, <2>3
  <2>5. [h \in Groups |-> End(h)]' = [[h \in Groups |-> End(h)] EXCEPT ![g] = TRUE]
    BY <2>4
  <2> QED
    BY <2>1, <2>4, <2>5 DEF Contract!End
<1>2. ASSUME NEW g \in Groups, EsWrite(g)
      PROVE  Contract!Produce(g)
  <2>1. /\ Kind[g] = "es" /\ ~esClosed[g]
        /\ written' = [written EXCEPT ![g] = @ + 1]
        /\ UNCHANGED <<out, main, esClosed>>
    BY <1>2 DEF EsWrite, WorkerShape
  <2> QED
    BY <2>1 DEF TypeOK, Contract!Produce
<1>3. ASSUME NEW g \in Groups, EsFlush(g)
      PROVE  Contract!End(g)
  <2>1. /\ Kind[g] = "es" /\ ~esClosed[g]
        /\ esClosed' = [esClosed EXCEPT ![g] = TRUE]
        /\ UNCHANGED <<out, main, written>>
    BY <1>3 DEF EsFlush, WorkerShape
  <2> QED
    BY <2>1 DEF TypeOK, Contract!End
<1>4. ASSUME RecvWrite
      PROVE  UNCHANGED Contract!cvars \/ \E g \in Groups : Contract!Deliver(g)
  <2>1. /\ main = "loop" /\ ch # <<>> /\ Head(ch) = ch[1] /\ ch[1] \in Message
        /\ UNCHANGED <<main, written, esClosed>>
    BY <1>4 DEF TypeOK, RecvWrite
  <2>2. CASE ch[1].type = "ping"
    BY <1>4, <2>1, <2>2 DEF RecvWrite, Contract!cvars
  <2>3. CASE ch[1].type # "ping"
    <3>1. PICK g \in Groups : IsPart(ch[1], g)
      BY <2>1, <2>3 DEF Message, PingResp, IsPart
    <3>2. ch[1].n = Len(out[g]) + 1 /\ Len(out[g]) < Sent(g)
      BY <2>1, <3>1, HeadIsNext
    <3>3. Len(out[g]) < written[g]
      <4>1. Waiting(g) \in Nat
        BY SentType
      <4>2. written[g] \in Nat /\ Len(out[g]) \in Nat
        BY DEF TypeOK
      <4> QED
        BY <3>2, <4>1, <4>2 DEF Sent
    <3>4. out' = [out EXCEPT ![g] = Append(@, Len(@) + 1)]
      BY <1>4, <2>1, <2>3, <3>1, <3>2 DEF RecvWrite, IsPart
    <3> QED
      BY <2>1, <3>3, <3>4 DEF Contract!Deliver
  <2> QED
    BY <2>2, <2>3
<1>5. ASSUME RecvClosed PROVE Contract!Close
  <2>1. /\ main = "loop" /\ main' = "closed" /\ ch = <<>> /\ closed
        /\ UNCHANGED <<out, written, esClosed>>
    BY <1>5 DEF RecvClosed
  <2>2. ASSUME NEW g \in Groups PROVE End(g) /\ Len(out[g]) = written[g]
    <3>1. worker[g] # "unborn" /\ g \notin Outstanding
      BY <2>1 DEF CloserShape
    <3>2. /\ worker[g] = "finished"
          /\ Kind[g] = "es" => fwd[g] = "finished" /\ esClosed[g]
          /\ fwd[g] # "send"
      BY <3>1 DEF Outstanding, WorkerShape, TypeOK
    <3>3. es[g] = <<>> /\ (Kind[g] # "es" => written[g] = 1)
      BY <3>2 DEF SourceInv
    <3>4. Waiting(g) = 0 /\ Sent(g) = written[g]
      BY <3>2, <3>3 DEF Waiting, Sent, TypeOK
    <3>5. Len(out[g]) <= Sent(g) /\ Len(out[g]) \in Nat /\ Sent(g) \in Nat
      <4>1. Len(out[g]) \in Nat
        BY DEF TypeOK
      <4>2. Len(out[g]) <= Sent(g)
        BY <2>1 DEF ChannelInv
      <4> QED
        BY <4>1, <4>2, SentType
    <3>6. ~(Len(out[g]) < Sent(g))
      <4>1. ASSUME Len(out[g]) < Sent(g) PROVE FALSE
        <5>1. Sent(g) \in (Len(out[g]) + 1)..Sent(g)
          BY <3>5, <4>1
        <5>2. \E i \in 1..Len(ch) : ch[i].n = Sent(g)
          BY <2>1, <5>1 DEF ChannelInv
        <5> QED
          BY <2>1, <5>2
      <4> QED
        BY <4>1
    <3> QED
      BY <3>2, <3>3, <3>4, <3>5, <3>6
  <2> QED
    BY <2>1, <2>2 DEF Contract!Close
<1>6. ASSUME RecvWriteFails \/ RecvDone PROVE Contract!Break
  BY <1>6 DEF RecvWriteFails, RecvDone, Contract!Break
<1>7. ASSUME UNCHANGED <<out, written, esClosed>>,
             main' = main \/ (main = "spawn" /\ main' = "loop")
      PROVE  UNCHANGED Contract!cvars
  BY <1>7 DEF Contract!cvars
<1>8. ASSUME NEW g \in Groups,
             Spawn(g) \/ StartInvalid(g) \/ StartEventSource(g) \/ StartApi(g)
               \/ Respond(g) \/ WorkerDone(g) \/ EsReturnWithoutFlush(g)
               \/ Forwarder(g)
      PROVE  UNCHANGED Contract!cvars
  BY <1>7, <1>8 DEF Spawn, StartInvalid, StartEventSource, StartApi, Respond,
       WorkerDone, EsReturnWithoutFlush, Forwarder, FwdReceive, FwdSend, FwdDone
<1>9. ASSUME StartCloser \/ Tick \/ Ping \/ Closer \/ ClientLeaves
             \/ UNCHANGED vars
      PROVE  UNCHANGED Contract!cvars
  BY <1>7, <1>9 DEF StartCloser, Tick, Ping, PingReceive, PingSend, Closer,
       CloserWake, CloserStop, CloserClose, ClientLeaves, vars
<1> QED
  BY <1>1, <1>2, <1>3, <1>4, <1>5, <1>6, <1>8, <1>9
  DEF Next, Worker, RouteHandler, Consumer, Contract!CNext

\* StartStream implements the contract of a data stream: every part of every
\* answer in order, and the close event only after the last of them.
THEOREM Refinement == Spec => ImplementsContract
<1>1. ASSUME Init PROVE Contract!CInit
  <2>1. [g \in Groups |->
           IF Kind[g] = "es" THEN esClosed[g] ELSE written[g] = 1]
        = [g \in Groups |-> FALSE]
    <3>1. \A g \in Groups : esClosed[g] = FALSE /\ (written[g] = 1) = FALSE
      BY <1>1 DEF Init
    <3>2. \A g \in Groups :
            (IF Kind[g] = "es" THEN esClosed[g] ELSE written[g] = 1) = FALSE
      BY <3>1
    <3> QED
      BY <3>2
  <2> QED
    BY <1>1, <2>1 DEF Init, Contract!CInit
<1>2. StreamInv /\ DeliveryInv /\ StreamInv' /\ [Next]_vars
        => [Contract!CNext]_Contract!cvars
  BY StepRefines
<1> QED
  BY <1>1, <1>2, Delivery, PTL DEF Spec, ImplementsContract, Contract!CSpec
=============================================================================
