---------------------------- MODULE AlarmTicker ----------------------------
(***************************************************************************)
(* The usage alarm of one service (src/monitoring) within the life of the  *)
(* process which runs it (src/server/service.go).  Request handlers post   *)
(* the requests they served to the channel counter; the goroutine Run      *)
(* keeps the recent requests of each client, measures them against the     *)
(* limits of the service and appends a report when a client is above a     *)
(* limit for long enough.  Short-lived goroutines remove clients which     *)
(* became silent, an HTTP action removes old reports, and the state is     *)
(* saved on exit and loaded on start.                                      *)
(*                                                                         *)
(* A client is the key "userID@IP" of ClientRequests.  Time is counted in  *)
(* seconds; floats are integers scaled by Scale.                           *)
(***************************************************************************)
EXTENDS Integers, Sequences, SequencesExt, FiniteSets, FiniteSetsExt

CONSTANTS
  None,           \* nil
  Clients,        \* keys of ClientRequests
  AllowListed,    \* clients whose user is in the table api_user_allowlist
  Invalid,        \* clients whose user ID is not a valid one
  Limit,          \* serviceEntry.limits: interval -> requests allowed in it
  BufferSize,     \* UserReqCounterBufferSize
  ExceedingsSize, \* ExceedingsBufferSize
  Threshold,      \* ExceedingThreshold, scaled
  MinReports,     \* minReportsInterval
  CounterCap,     \* capacity of the channel counter
  Handlers,       \* request handlers which may run at a time
  Cleaners,       \* removal goroutines which may run at a time
  MaxTime,        \* bound: the last second
  MaxRequests,    \* bound: requests ever made
  MaxStarts       \* bound: starts of the process

Scale == 1000
Intervals == DOMAIN Limit
MaxInterval == Max(Intervals)

ASSUME AlarmTickerAssumption ==
  /\ Intervals # {} /\ Intervals \subseteq Nat \ {0}
  /\ \A iv \in Intervals : Limit[iv] \in Nat \ {0}
  /\ AllowListed \subseteq Clients /\ Invalid \subseteq Clients
  /\ IsFiniteSet(Handlers)
  /\ {BufferSize, ExceedingsSize, Threshold, CounterCap} \subseteq Nat \ {0}
  /\ {MinReports, MaxTime, MaxRequests} \subseteq Nat
  /\ MaxStarts \in Nat \ {0}

VARIABLES
  phase,   \* the process: see Phases
  starts,  \* starts so far
  run,     \* the goroutine Run: "start", "loop", "busy" or "returned"
  known,   \* the service has an entry in aticker.clients
  allow,   \* aticker.allowListUsers for the service
  now,     \* the clock
  handler, \* handler[h]: None or the request it serves
  counter, \* the channel of RequestInfo
  act,     \* ClientRequests: client -> UserActivity
  cur,     \* None or the request Run works on, with its UserActivity
  cleaner, \* cleaner[k]: None or a removal goroutine on its way
  reports, \* aticker.reports
  clean,   \* None or the HandleCleanAction being served
  saver,   \* SaveState: "idle", "created", "header", "done", "failed"
  file,    \* alarm-status.gob
  made,    \* history: all the requests made
  due      \* history: the reports there were when the exit was requested

lifeVars  == <<phase, starts, saver, file, due>>
runVars   == <<run, cur, act>>
httpVars  == <<handler, counter, made>>
adminVars == <<reports, clean>>
vars == <<lifeVars, runVars, known, allow, now, httpVars, cleaner, adminVars>>

Phases ==
  {"boot", "loaded", "registered", "serving", "stopping", "down", "fatal"}
Alive == phase \notin {"down", "fatal"}

\* The zero time.Time: before any time the code compares it with.
ZeroTime == -(MinReports + 1)

NewActivity ==
  [requests |-> <<>>, exceed |-> [iv \in Intervals |-> <<>>],
   lastReport |-> ZeroTime]

\* NewAlarmTicker and "go alarm.Run(reloadChan)"; there is no file yet.
Init ==
  /\ phase = "boot"
  /\ starts = 1
  /\ run = "start"
  /\ known = FALSE
  /\ allow = {}
  /\ now = 0
  /\ handler = [h \in Handlers |-> None]
  /\ counter = <<>>
  /\ act = <<>>
  /\ cur = None
  /\ cleaner = [k \in Cleaners |-> None]
  /\ reports = <<>>
  /\ clean = None
  /\ saver = "idle"
  /\ file = [type |-> "absent"]
  /\ made = {}
  /\ due = <<>>

\* The process ends; of its state only the file is left.
End(newPhase) ==
  /\ phase' = newPhase
  /\ run' = "start"
  /\ known' = FALSE
  /\ allow' = {}
  /\ handler' = [h \in Handlers |-> None]
  /\ counter' = <<>>
  /\ act' = <<>>
  /\ cur' = None
  /\ cleaner' = [k \in Cleaners |-> None]
  /\ reports' = <<>>
  /\ clean' = None
  /\ saver' = "idle"
  /\ due' = <<>>
  /\ UNCHANGED <<starts, now, file, made>>

-----------------------------------------------------------------------------
(* Start. *)

\* Mutant of LoadState: the list of reports is not decoded.
LoadStateNoReports ==
  /\ phase = "boot"
  /\ file.type # "partial"
  /\ phase' = "loaded"
  /\ IF file.type = "data"
     THEN act' = file.act /\ known' = TRUE
     ELSE UNCHANGED <<act, known>>
  /\ UNCHANGED <<starts, saver, file, due, run, cur, allow, now, httpVars,
                 cleaner, adminVars>>

\* No file and a file of zero size are fine; the clients and the reports of a
\* complete one are taken over.
LoadState ==
  /\ phase = "boot"
  /\ file.type # "partial"
  /\ phase' = "loaded"
  /\ IF file.type = "data"
     THEN act' = file.act /\ known' = TRUE /\ reports' = file.reports
     ELSE UNCHANGED <<act, known, reports>>
  /\ UNCHANGED <<starts, saver, file, due, run, cur, allow, now, httpVars,
                 cleaner, clean>>

\* log.Fatal(): the file cannot be decoded.
LoadStateFails ==
  /\ phase = "boot"
  /\ file.type = "partial"
  /\ End("fatal")

\* Register puts a new entry in place of the one LoadState has restored.
Register ==
  /\ phase = "loaded"
  /\ phase' = "registered"
  /\ known' = TRUE
  /\ act' = <<>>
  /\ UNCHANGED <<starts, saver, file, due, run, cur, allow, now, httpVars,
                 cleaner, adminVars>>

Listen ==
  /\ phase = "registered"
  /\ phase' = "serving"
  /\ UNCHANGED <<starts, saver, file, due, runVars, known, allow, now,
                 httpVars, cleaner, adminVars>>

\* loadAllowList asks the database for the services known at that time; a
\* failed query leaves the new list empty.
loadAllowList == allow' \in {{}, IF known THEN AllowListed ELSE {}}

RunStart ==
  /\ Alive
  /\ run = "start"
  /\ loadAllowList
  /\ run' = "loop"
  /\ UNCHANGED <<lifeVars, cur, act, known, now, httpVars, cleaner, adminVars>>

\* SIGHUP, passed to Run through reloadChan.
Reload ==
  /\ Alive
  /\ run = "loop"
  /\ loadAllowList
  /\ UNCHANGED <<lifeVars, runVars, known, now, httpVars, cleaner, adminVars>>

-----------------------------------------------------------------------------
(* Request handlers. *)

Arrive(h, c) ==
  /\ phase = "serving"
  /\ handler[h] = None
  /\ Cardinality(made) < MaxRequests
  /\ handler' = [handler EXCEPT ![h] = [c |-> c, created |-> now]]
  /\ made' = made \cup {[c |-> c, at |-> now, id |-> Cardinality(made)]}
  /\ UNCHANGED <<lifeVars, runVars, known, allow, now, counter, cleaner,
                 adminVars>>

\* The deferred LogRequest or CountRequest: the send blocks while the channel
\* is full.  Created is the time when the request came.
Post(h) ==
  /\ Alive
  /\ handler[h] # None
  /\ Len(counter) < CounterCap
  /\ counter' = Append(counter, handler[h])
  /\ handler' = [handler EXCEPT ![h] = None]
  /\ UNCHANGED <<lifeVars, runVars, known, allow, now, made, cleaner,
                 adminVars>>

-----------------------------------------------------------------------------
(* Run. *)

\* CircularList.Append: the oldest item makes room.
AppendCircular(s, x, size) == Append(IF Len(s) < size THEN s ELSE Tail(s), x)

reqIsIgnorable(c) == c \in allow \/ c \in Invalid

\* Mutant of RunIgnores: the break leaves the loop.
RunIgnoresAndReturns ==
  /\ Alive
  /\ run = "loop"
  /\ counter # <<>>
  /\ reqIsIgnorable(Head(counter).c) \/ ~known
  /\ counter' = Tail(counter)
  /\ run' = "returned"
  /\ UNCHANGED <<lifeVars, cur, act, known, allow, now, handler, made, cleaner,
                 adminVars>>

\* A request of an ignored user, or of a service nobody registered.
RunIgnores ==
  /\ Alive
  /\ run = "loop"
  /\ counter # <<>>
  /\ reqIsIgnorable(Head(counter).c) \/ ~known
  /\ counter' = Tail(counter)
  /\ UNCHANGED <<lifeVars, runVars, known, allow, now, handler, made, cleaner,
                 adminVars>>

\* Mutant of RunReceive: the request is appended to a copy of the UserActivity.
RunReceiveCopied ==
  /\ Alive
  /\ run = "loop"
  /\ counter # <<>>
  /\ LET req == Head(counter)
         old == IF req.c \in DOMAIN act THEN act[req.c] ELSE NewActivity
     IN  /\ known /\ ~reqIsIgnorable(req.c)
         /\ act' = [c \in DOMAIN act \cup {req.c} |->
                      IF c = req.c THEN old ELSE act[c]]
         /\ cur' = [c |-> req.c, todo |-> Intervals, removed |-> None]
  /\ counter' = Tail(counter)
  /\ run' = "busy"
  /\ UNCHANGED <<lifeVars, known, allow, now, handler, made, cleaner,
                 adminVars>>

\* Find or create the client's UserActivity and append the request to it.
RunReceive ==
  /\ Alive
  /\ run = "loop"
  /\ counter # <<>>
  /\ LET req == Head(counter)
         old == IF req.c \in DOMAIN act THEN act[req.c] ELSE NewActivity
         new == [old EXCEPT !.requests =
                   AppendCircular(@, req.created, BufferSize)]
     IN  /\ known /\ ~reqIsIgnorable(req.c)
         /\ act' = [c \in DOMAIN act \cup {req.c} |->
                      IF c = req.c THEN new ELSE act[c]]
         /\ cur' = [c |-> req.c, todo |-> Intervals, removed |-> None]
  /\ counter' = Tail(counter)
  /\ run' = "busy"
  /\ UNCHANGED <<lifeVars, known, allow, now, handler, made, cleaner,
                 adminVars>>

\* The UserActivity Run has a pointer to: the client's entry, or what was the
\* entry before a removal goroutine deleted it.
CurActivity == IF cur.removed = None THEN act[cur.c] ELSE cur.removed

\* Mutant of NumReqSince: all the requests in the buffer are counted.
NumReqEver(a, iv) == Len(a.requests)

NumReqSince(a, iv) ==
  Cardinality({i \in DOMAIN a.requests : a.requests[i] > now - iv})

registerMeasurement(a, iv, numReq) ==
  IF numReq < Limit[iv] THEN a
  ELSE [a EXCEPT !.exceed[iv] =
          AppendCircular(@, [value |-> numReq - Limit[iv], at |-> now],
                         ExceedingsSize)]

\* 1 / (1 + d * 9 * d / iv) for a measurement d seconds old, scaled.
Weight(iv, d) == (Scale * iv) \div (iv + 9 * d * d)

\* What is added to ans for each item of a list.
Weighted(list, iv) ==
  [i \in DOMAIN list |->
     IF now - list[i].at <= iv
     THEN list[i].value * Weight(iv, now - list[i].at) ELSE 0]

\* ForEach: the items are added one after another.
Total(parts) ==
  LET ans[i \in 0..Len(parts)] == IF i = 0 THEN 0 ELSE ans[i - 1] + parts[i]
  IN  ans[Len(parts)]

\* The weighted sum of relativeExceeding, before the divisions by the length
\* of the list and by the limit.
WeightedExceeding(a, iv) == Total(Weighted(a.exceed[iv], iv))

exceedsThreshold(a, iv) ==
  /\ a.exceed[iv] # <<>>
  /\ WeightedExceeding(a, iv) >= Threshold * Len(a.exceed[iv]) * Limit[iv]

\* Mutant of checkServiceUsage: the average is taken before the measurement.
checkServiceUsageBefore(a, iv) ==
  LET numReq == NumReqSince(a, iv)
      measured == registerMeasurement(a, iv, numReq)
      isReport == /\ exceedsThreshold(a, iv)
                  /\ measured.lastReport < now - MinReports
  IN  [activity |-> IF isReport THEN [measured EXCEPT !.lastReport = now]
                                ELSE measured,
       isReport |-> isReport,
       numReq |-> numReq]

\* One turn of checkServiceUsage's loop: the activity after it and whether
\* there is a report.  A client is reported once per MinReports.
checkServiceUsage(a, iv) ==
  LET numReq == NumReqSince(a, iv)
      measured == registerMeasurement(a, iv, numReq)
      isReport == /\ exceedsThreshold(measured, iv)
                  /\ measured.lastReport < now - MinReports
  IN  [activity |-> IF isReport THEN [measured EXCEPT !.lastReport = now]
                                ELSE measured,
       isReport |-> isReport,
       numReq |-> numReq]

\* The limits are visited in the map's random order.
RunCheck(iv) ==
  /\ Alive
  /\ run = "busy"
  /\ iv \in cur.todo
  /\ LET new == checkServiceUsage(CurActivity, iv)
     IN  /\ IF cur.removed = None
            THEN /\ act' = [act EXCEPT ![cur.c] = new.activity]
                 /\ cur' = [cur EXCEPT !.todo = @ \ {iv}]
            ELSE /\ cur' = [cur EXCEPT !.todo = @ \ {iv},
                                       !.removed = new.activity]
                 /\ UNCHANGED act
         /\ reports' = IF new.isReport
                       THEN Append(reports, [c |-> cur.c, iv |-> iv, at |-> now,
                                             numReq |-> new.numReq])
                       ELSE reports
  /\ UNCHANGED <<lifeVars, run, known, allow, now, httpVars, cleaner, clean>>

\* A removal goroutine which has not run yet.
Started == [oldest |-> None, todo |-> {}, doomed |-> None]

\* All limits are checked; with some probability a removal goroutine is started.
RunDone ==
  /\ Alive
  /\ run = "busy"
  /\ cur.todo = {}
  /\ run' = "loop"
  /\ cur' = None
  /\ \/ UNCHANGED cleaner
     \/ \E k \in Cleaners :
          /\ cleaner[k] = None
          /\ cleaner' = [cleaner EXCEPT ![k] = Started]
  /\ UNCHANGED <<lifeVars, act, known, allow, now, httpVars, adminVars>>

\* <-aticker.ctx.Done(): the select may still prefer the other channels.
RunReturns ==
  /\ phase = "stopping"
  /\ run = "loop"
  /\ run' = "returned"
  /\ UNCHANGED <<lifeVars, cur, act, known, allow, now, httpVars, cleaner,
                 adminVars>>

-----------------------------------------------------------------------------
(* removeUsersWithNoRecentActivity. *)

\* The goroutine gets to run: only now it takes the time and the clients.
CleanerBegins(k) ==
  /\ Alive
  /\ cleaner[k] = Started
  /\ cleaner' = [cleaner EXCEPT ![k] =
       IF act = <<>> THEN None
       ELSE [oldest |-> now - MaxInterval, todo |-> DOMAIN act, doomed |-> None]]
  /\ UNCHANGED <<lifeVars, runVars, known, allow, now, httpVars, adminVars>>

\* Look at the request posted last by the next client.
CleanerLooks(k, c) ==
  /\ Alive
  /\ cleaner[k] # None
  /\ cleaner[k].doomed = None
  /\ c \in cleaner[k].todo
  /\ LET silent == /\ c \in DOMAIN act
                   /\ Last(act[c].requests) < cleaner[k].oldest
         rest == cleaner[k].todo \ {c}
     IN  cleaner' = [cleaner EXCEPT ![k] =
           IF silent THEN [@ EXCEPT !.todo = rest, !.doomed = c]
           ELSE IF rest = {} THEN None
           ELSE [@ EXCEPT !.todo = rest]]
  /\ UNCHANGED <<lifeVars, runVars, known, allow, now, httpVars, adminVars>>

\* Delete whatever the client's entry is by now.
CleanerDeletes(k) ==
  /\ Alive
  /\ cleaner[k] # None
  /\ LET c == cleaner[k].doomed
     IN  /\ c # None
         /\ act' = [d \in DOMAIN act \ {c} |-> act[d]]
         /\ cur' = IF cur # None /\ cur.c = c /\ cur.removed = None
                   THEN [cur EXCEPT !.removed = act[c]]
                   ELSE cur
  /\ cleaner' = [cleaner EXCEPT ![k] =
       IF @.todo = {} THEN None ELSE [@ EXCEPT !.doomed = None]]
  /\ UNCHANGED <<lifeVars, run, known, allow, now, httpVars, adminVars>>

-----------------------------------------------------------------------------
(* HandleCleanAction.  Run appends the reports in the order the action     *)
(* sorts them by, so the ones it drops are the first ones, and no route    *)
(* makes a report a reviewed one.                                          *)

\* A zero maxAge is answered with an error, but the action goes on.
CleanSelect(maxAge, alsoNonReviewed) ==
  /\ phase = "serving"
  /\ clean = None
  /\ LET dropped == {i \in DOMAIN reports :
                       reports[i].at <= now - maxAge /\ alsoNonReviewed}
     IN  clean' = [remain |-> SubSeq(reports, Cardinality(dropped) + 1,
                                     Len(reports))]
  /\ UNCHANGED <<lifeVars, runVars, known, allow, now, httpVars, cleaner,
                 reports>>

\* aticker.reports = remainReports, whatever was appended in the meantime.
CleanAssign ==
  /\ Alive
  /\ clean # None
  /\ reports' = clean.remain
  /\ clean' = None
  /\ due' = <<>>
  /\ UNCHANGED <<phase, starts, saver, file, runVars, known, allow, now,
                 httpVars, cleaner>>

-----------------------------------------------------------------------------
(* Exit. *)

\* SIGINT or SIGTERM.
Signal ==
  /\ phase = "serving"
  /\ phase' = "stopping"
  /\ due' = reports
  /\ UNCHANGED <<starts, saver, file, runVars, known, allow, now, httpVars,
                 cleaner, adminVars>>

SaveStep(from, to, newFile) ==
  /\ phase = "stopping"
  /\ saver = from
  /\ saver' = to
  /\ file' = newFile
  /\ UNCHANGED <<phase, starts, due, runVars, known, allow, now, httpVars,
                 cleaner, adminVars>>

\* os.Create truncates the file of the previous run.
SaveCreate == SaveStep("idle", "created", [type |-> "empty"])

\* gob writes the description of the type before it asks for the value ...
SaveHeader == SaveStep("created", "header", [type |-> "partial"])

\* ... which AlarmTicker.GobEncode composes of the clients and the reports.
SaveValue ==
  SaveStep("header", "done",
           [type |-> "data", act |-> act, reports |-> reports, due |-> due])

\* The file cannot be created, or a write to it fails.
SaveFails ==
  \/ SaveStep("idle", "failed", file)
  \/ SaveStep("created", "failed", [type |-> "empty"])
  \/ SaveStep("header", "failed", [type |-> "partial"])

Served == clean = None /\ \A h \in Handlers : handler[h] = None

\* The server has shut down and the state is saved.
Exit == phase = "stopping" /\ saver \in {"done", "failed"} /\ Served
          /\ End("down")

\* The ten seconds are over.
ExitTimeout == phase = "stopping" /\ End("down")

\* SIGKILL, a panic or a power failure.
Killed == Alive /\ End("down")

\* The next start; after log.Fatal() with the problematic file removed.
Restart ==
  /\ ~Alive
  /\ starts < MaxStarts
  /\ starts' = starts + 1
  /\ phase' = "boot"
  /\ file' = IF phase = "fatal" THEN [type |-> "absent"] ELSE file
  /\ UNCHANGED <<saver, due, runVars, known, allow, now, httpVars, cleaner,
                 adminVars>>

Tick ==
  /\ now < MaxTime
  /\ now' = now + 1
  /\ UNCHANGED <<lifeVars, runVars, known, allow, httpVars, cleaner, adminVars>>

-----------------------------------------------------------------------------

Start == LoadState \/ LoadStateFails \/ Register \/ Listen

Run == RunStart \/ RunIgnores \/ RunReceive \/ RunDone
         \/ \E iv \in Intervals : RunCheck(iv)

Save == SaveCreate \/ SaveHeader \/ SaveValue

Next ==
  \/ Start \/ Run \/ Reload \/ RunReturns
  \/ \E h \in Handlers : Post(h) \/ \E c \in Clients : Arrive(h, c)
  \/ \E k \in Cleaners :
       CleanerBegins(k) \/ CleanerDeletes(k) \/ \E c \in Clients : CleanerLooks(k, c)
  \/ CleanAssign \/ \E maxAge \in 0..MaxTime, all \in BOOLEAN : CleanSelect(maxAge, all)
  \/ Signal \/ Save \/ SaveFails \/ Exit \/ ExitTimeout
  \/ Killed \/ Restart \/ Tick

Spec == Init /\ [][Next]_vars

\* The Go scheduler runs Run and the handlers; a handler whose backend has
\* answered gets to its deferred call.
Fairness ==
  /\ WF_vars(Run)
  /\ \A h \in Handlers : WF_vars(Post(h))

FairSpec == Spec /\ Fairness

-----------------------------------------------------------------------------
(* Properties. *)

Time == 0..MaxTime
Activity ==
  [requests : Seq(Time),
   exceed : [Intervals -> Seq([value : Nat, at : Time])],
   lastReport : Time \cup {ZeroTime}]
Report == [c : Clients, iv : Intervals, at : Time, numReq : Nat]
IsActivity(a) ==
  /\ a \in Activity
  /\ Len(a.requests) \in 1..BufferSize
  /\ \A iv \in Intervals : Len(a.exceed[iv]) <= ExceedingsSize
IsActivities(f) ==
  DOMAIN f \subseteq Clients /\ \A c \in DOMAIN f : IsActivity(f[c])

\* Run's request, with what remains to be checked.
Current == [c : Clients, todo : SUBSET Intervals, removed : Activity \cup {None}]

\* nil is no value.
ASSUME NoneAssumption == None \notin Activity /\ None \notin Current

\* Types, with the bounds of the two circular lists (counter.go:87, alarms.go:314)
\* and of the channel (alarms.go:384), here and in what LoadState restores; and
\* every client known has a request, which the removal goroutine asks for.
TypeOK ==
  /\ phase \in Phases
  /\ starts \in 1..MaxStarts
  /\ run \in {"start", "loop", "busy", "returned"}
  /\ run = "busy" <=> cur # None
  /\ known \in BOOLEAN
  /\ allow \subseteq AllowListed
  /\ now \in Time
  /\ \A h \in Handlers : handler[h] \in {None} \cup [c : Clients, created : Time]
  /\ counter \in Seq([c : Clients, created : Time])
  /\ Len(counter) <= CounterCap
  /\ IsActivities(act)
  /\ cur # None =>
       /\ cur.todo \subseteq Intervals
       /\ cur.removed = None => cur.c \in DOMAIN act
  /\ reports \in Seq(Report)
  /\ saver \in {"idle", "created", "header", "done", "failed"}
  /\ file.type = "data" => IsActivities(file.act)

\* How many requests client c made in the iv seconds up to m.
MadeIn(c, iv, m) ==
  Cardinality({q \in made : q.c = c /\ q.at > m - iv /\ q.at <= m})

\* No alarm is false: a report on a client (alarms.go:213-229) means that at a
\* time no more than the interval ago this very client really had made more
\* requests within the interval than the limit allows, however the requests
\* were delayed and reordered on their way through handlers and channel,
\* removed with the client's entry or carried over a restart.
NoFalseAlarm ==
  \A i \in DOMAIN reports :
    LET r == reports[i]
    IN  \E m \in (r.at - r.iv)..r.at : MadeIn(r.c, r.iv, m) > Limit[r.iv]

\* No burst is averaged away: a measurement which alone reaches the threshold
\* whatever else is in the list (counter.go:119-142) leads to a report, unless
\* there was one within minReportsInterval before it (alarms.go:212).
BurstReported ==
  \A c \in DOMAIN act, iv \in Intervals :
    \A i \in DOMAIN act[c].exceed[iv] :
      LET e == act[c].exceed[iv][i]
      IN  Scale * e.value >= Threshold * ExceedingsSize * Limit[iv] =>
            act[c].lastReport >= e.at - MinReports

\* The reports there were when the exit was requested (service.go:448) and
\* which no HandleCleanAction removed since are there again after a start from
\* a completely saved file (state.go:36-83), although Run, the handlers and
\* SaveState go on side by side after the signal.
ReportsSurviveRestart ==
  phase = "registered" /\ file.type = "data" => IsPrefix(file.due, reports)

\* As long as the service is up, a handler never hangs in its send to a full
\* counter (services/cnc/common.go:39): Run always comes back for more.
HandlersUnblock ==
  \A h \in Handlers :
    handler[h] # None ~> handler[h] = None \/ phase # "serving"
=============================================================================
