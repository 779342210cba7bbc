--------------------------- MODULE VdecLifeProofs ---------------------------
(***************************************************************************)
(* The life of a decoder instance, from vdec_connect to vdec_destroy: what *)
(* is listed can be scheduled, what decodes holds its cores, and nothing   *)
(* of an instance is left when its memory is freed.                        *)
(*                                                                         *)
(* This holds for any number of instances with any cores, as long as the   *)
(* work functions stop their timer before they return their cores, nothing *)
(* is reset and every disconnect ends within its two seconds.              *)
(***************************************************************************)
EXTENDS VdecCoreProofs

\* The conditions of this module.
Orderly == LateTimer = {} /\ Resets = {} /\ TimesOut = {}

\* Its work function is not in the part that ends a run.
NoEnding(v) == wpc[v] \in {"idle", "callback"}
Unstarted(v) == ~hw[v] /\ ~timer[v] /\ ~work[v] /\ NoEnding(v)
Holds(v) == Needs[v] \subseteq granted[v] \cap working[v]

\* opened, and connected but not yet linked
New(v) ==
  /\ life[v] \in {"opened", "linking"}
  /\ life[v] = "opened" => status[v] = "disconnected"
  /\ life[v] = "linking" => status[v] = "connected" /\ next[v] = "connected"
  /\ v \notin Listed \cup disconnecting \cup {active}
  /\ done[v] = 0 /\ granted[v] = {} /\ working[v] = {}
  /\ Unstarted(v)

\* listed: it waits for its turn
Resting(v) == status[v] = "connected" /\ working[v] = {} /\ Unstarted(v)

\* It ended its last run and is asked to leave.  A second work item may still
\* be queued; the cores it has not given back keep it from being elected.
Spent(v) ==
  /\ status[v] = "connected" /\ next[v] = "disconnected"
  /\ working[v] = {} /\ Needs[v] \subseteq granted[v]
  /\ ~hw[v] /\ ~timer[v]

AtRun(v) == thread = "run" /\ worker = v

\* chosen, its run not yet called
Elected(v) == AtRun(v) /\ status[v] = "active" /\ Holds(v) /\ Unstarted(v)

\* in its run: one of the hardware, the queued work and the work function has
\* it, unless the forced exit of the check timer queues the work once more
Decoding(v) ==
  /\ ~AtRun(v) /\ status[v] = "active" /\ Holds(v)
  /\ hw[v] => NoEnding(v)
  /\ wpc[v] = "finish" => ~timer[v]
  /\ timer[v] /\ v \in FlagsTimer => flag[v]
  /\ next[v] = "connected" /\ (hw[v] \/ ~NoEnding(v)) => ~work[v]

Serving(v) ==
  /\ life[v] \in {"up", "release"}
  /\ life[v] = "up" => next[v] = "connected"
  /\ life[v] = "release" => next[v] = "disconnected"
  /\ v \in Listed /\ v \notin disconnecting
  /\ done[v] = 0
  /\ Resting(v) \/ Spent(v) \/ Elected(v) \/ Decoding(v)

\* off the list: the work function may still run to its end
Gone(v) ==
  /\ life[v] \in {"release", "leaving", "stopped", "freed"}
  /\ v \notin Listed \cup {active}
  /\ status[v] # "active" /\ granted[v] = {} /\ working[v] = {}
  /\ ~hw[v] /\ ~timer[v]
  /\ life[v] = "freed" => ~work[v] /\ wpc[v] = "idle"

Alive(v) == New(v) \/ Serving(v) \/ Gone(v)

\* the one whose run is about to be called was elected
RunsElected == thread = "run" => worker \in Listed /\ status[worker] = "active"

Lives == RunsElected /\ \A v \in Vdecs : Alive(v)

LEMMA ListedAreVdecs == ASSUME TypeOK PROVE Listed \subseteq Vdecs
BY LenProperties, ElementOfSeq DEF TypeOK, Listed, Range

LEMMA InitAlive == Init => Lives
<1> SUFFICES ASSUME Init PROVE Lives
  OBVIOUS
<1>1. Listed = {}
  BY DEF Init, Listed, Range
<1>2. NoVdec \notin Vdecs
  BY CoreConstants
<1>3. ASSUME NEW v \in Vdecs PROVE New(v)
  BY <1>1, <1>2 DEF Init, New, Unstarted, NoEnding
<1> QED
  BY <1>3 DEF Lives, Alive, RunsElected, Init

\* Everything that the state holds of one instance.
Own(v) == <<life[v], status[v], next[v], done[v], granted[v], working[v],
            hw[v], timer[v], flag[v], work[v], wpc[v]>>

\* An instance that a step does not touch lives on as before.
LEMMA Untouched ==
  ASSUME NEW w \in Vdecs, Alive(w), UNCHANGED Own(w),
         w \in Listed' <=> w \in Listed,
         w \in disconnecting' => w \in disconnecting,
         w = active' => w = active \/ w \in Listed,
         AtRun(w)' <=> AtRun(w)
  PROVE  Alive(w)'
<1>1. CASE New(w)
  <2>1. New(w)'
    BY <1>1 DEF New, Own, Unstarted, NoEnding
  <2> QED
    BY <2>1 DEF Alive
<1>2. CASE Gone(w)
  <2>1. Gone(w)'
    BY <1>2 DEF Gone, Own
  <2> QED
    BY <2>1 DEF Alive
<1>3. CASE Serving(w)
  <2>1. Resting(w) => Resting(w)'
    BY DEF Resting, Own, Unstarted, NoEnding
  <2>2. Spent(w) => Spent(w)'
    BY DEF Spent, Own
  <2>3. Elected(w) => Elected(w)'
    BY DEF Elected, Own, Unstarted, NoEnding, Holds
  <2>4. Decoding(w) => Decoding(w)'
    BY DEF Decoding, Own, NoEnding, Holds
  <2>5. Serving(w)'
    BY <1>3, <2>1, <2>2, <2>3, <2>4 DEF Serving, Own
  <2> QED
    BY <2>5 DEF Alive
<1> QED
  BY <1>1, <1>2, <1>3 DEF Alive

\* A user thread or a driver at work on one instance touches no other.
LEMMA OthersUntouched ==
  ASSUME TypeOK, NEW v \in Vdecs,
         \/ Connect(v) \/ User(v) \/ Disconnect(v, "release")
         \/ Feed(v) \/ Report(v) \/ ForceExit(v) \/ Worker(v),
         NEW w \in Vdecs, w # v, Alive(w)
  PROVE  Alive(w)'
<1>1. UNCHANGED <<disconnecting, active, thread, worker>>
  BY DEF Connect, User, Link, Waited, StopDriver, Destroy, Disconnect, Feed, Report,
     ForceExit, Worker, StartWork, FinishRun, DelTimer, Callback, lists, masks, loop
<1>2. w \in Listed' <=> w \in Listed
  <2>1. CASE Link(v)
    <3>1. connected' = Append(connected, v) /\ connected \in Seq(Vdecs)
      BY <2>1 DEF Link, TypeOK
    <3> QED
      BY <3>1, AppendProperties, LenProperties DEF Listed, Range
  <2>2. CASE ~Link(v)
    <3>1. connected' = connected
      BY <2>2 DEF Connect, User, Waited, StopDriver, Destroy, Disconnect, Feed, Report,
         ForceExit, Worker, StartWork, FinishRun, DelTimer, Callback, lists
    <3> QED
      BY <3>1 DEF Listed
  <2> QED
    BY <2>1, <2>2
<1>3. UNCHANGED <<granted[w], working[w]>>
  BY DEF Connect, User, Link, Waited, StopDriver, Destroy, Disconnect, Feed, Report,
     ForceExit, Worker, StartWork, FinishRun, DelTimer, Callback, masks, Set, TypeOK
<1>4. UNCHANGED <<life[w], status[w], next[w], done[w]>>
  BY DEF Connect, User, Link, Waited, StopDriver, Destroy, Disconnect, Feed, Report,
     ForceExit, Worker, StartWork, FinishRun, FinishStatus, DelTimer, Callback, Set, TypeOK
<1>5. UNCHANGED <<hw[w], timer[w], flag[w], work[w], wpc[w]>>
  <2>1. CASE Connect(v) \/ Link(v) \/ Waited(v) \/ Disconnect(v, "release") \/ Feed(v)
    BY <2>1 DEF Connect, Link, Waited, Disconnect, Feed, driver
  <2>2. CASE StopDriver(v) \/ Destroy(v)
    BY <2>2 DEF StopDriver, Destroy, FlaggedStop, Cancelled, Set, TypeOK
  <2>3. CASE Report(v) \/ ForceExit(v)
    BY <2>3 DEF Report, ForceExit, Set, TypeOK
  <2>4. CASE Worker(v)
    BY <2>4 DEF Worker, StartWork, FinishRun, DelTimer, Callback, FlaggedStop, Set, TypeOK
  <2> QED
    BY <2>1, <2>2, <2>3, <2>4 DEF User
<1> QED
  BY <1>1, <1>2, <1>3, <1>4, <1>5, Untouched DEF Own, AtRun

\* The user thread takes an instance from one part of its life to the next.
LEMMA UserLives ==
  ASSUME TypeOK, Orderly, NEW v \in Vdecs, Alive(v),
         Connect(v) \/ User(v) \/ Disconnect(v, "release")
  PROVE  Alive(v)'
<1>1. CASE Connect(v)
  <2>1. New(v) /\ status[v] = "disconnected"
    BY <1>1 DEF Connect, Alive, New, Serving, Gone
  <2>2. New(v)'
    BY <1>1, <2>1 DEF Connect, New, Unstarted, NoEnding, Set, TypeOK, lists, masks, loop,
       driver, Listed
  <2> QED
    BY <2>2 DEF Alive
<1>2. CASE Link(v)
  <2>1. New(v) /\ status[v] = "connected" /\ next[v] = "connected"
    BY <1>2 DEF Link, Alive, New, Serving, Gone
  <2>2. v \in Listed'
    <3>1. connected' = Append(connected, v) /\ connected \in Seq(Vdecs)
      BY <1>2 DEF Link, TypeOK
    <3>2. connected'[Len(connected) + 1] = v /\ Len(connected) + 1 \in DOMAIN connected'
      BY <3>1, AppendProperties, LenProperties
    <3> QED
      BY <3>2 DEF Listed, Range
  <2>3. Resting(v)'
    BY <1>2, <2>1 DEF Link, New, Resting, Unstarted, NoEnding, masks, driver
  <2>4. Serving(v)'
    BY <1>2, <2>1, <2>2, <2>3 DEF Link, New, Serving, Set, TypeOK
  <2> QED
    BY <2>4 DEF Alive
<1>3. CASE Disconnect(v, "release")
  <2>1. Serving(v) /\ status[v] \in {"connected", "active"} /\ next[v] = "connected"
    BY <1>3 DEF Disconnect, Alive, New, Serving, Gone, Resting, Spent, Elected, Decoding
  <2>2. /\ next' = Set(next, v, "disconnected") /\ life' = Set(life, v, "release")
        /\ UNCHANGED <<status, done, lists, masks, loop, ready, driver>>
    BY <1>3, <2>1 DEF Disconnect
  <2>3. next'[v] = "disconnected" /\ life'[v] = "release"
    BY <2>2 DEF Set, TypeOK
  <2>4. Resting(v) \/ Elected(v) \/ Decoding(v)
    BY <2>1 DEF Serving, Spent
  <2>5. Resting(v) => Resting(v)'
    BY <2>2 DEF Resting, Unstarted, NoEnding, masks, driver
  <2>6. Elected(v) => Elected(v)'
    BY <2>2 DEF Elected, AtRun, Holds, Unstarted, NoEnding, masks, driver, loop
  <2>7. Decoding(v) => Decoding(v)'
    BY <2>2, <2>3 DEF Decoding, AtRun, Holds, NoEnding, masks, driver, loop
  <2>8. Serving(v)'
    BY <2>1, <2>2, <2>3, <2>4, <2>5, <2>6, <2>7 DEF Serving, lists, Listed
  <2> QED
    BY <2>8 DEF Alive
<1>4. CASE Waited(v)
  <2>1. Completed(v)
    BY <1>4 DEF Waited, Orderly
  <2>2. Gone(v) /\ life[v] = "release"
    BY <1>4, <2>1 DEF Waited, Completed, Alive, New, Serving, Gone, TypeOK
  <2>3. life'[v] = "leaving" /\ UNCHANGED <<status, lists, masks, driver>>
    BY <1>4, <2>2 DEF Waited, Set, TypeOK
  <2>4. Gone(v)'
    BY <2>2, <2>3 DEF Gone, lists, masks, driver, Listed
  <2> QED
    BY <2>4 DEF Alive
<1>5. CASE StopDriver(v)
  <2>1. Gone(v)
    BY <1>5 DEF StopDriver, Alive, New, Serving
  <2>2. /\ life'[v] = "stopped" /\ ~hw'[v] /\ ~timer'[v]
        /\ UNCHANGED <<status, lists, masks>>
    BY <1>5, <2>1 DEF StopDriver, FlaggedStop, Gone, Set, TypeOK
  <2>3. Gone(v)'
    BY <2>1, <2>2 DEF Gone, lists, masks, Listed
  <2> QED
    BY <2>3 DEF Alive
<1>6. CASE Destroy(v)
  <2>1. Gone(v)
    BY <1>6 DEF Destroy, Alive, New, Serving
  <2>2. /\ life'[v] = "freed" /\ ~work'[v] /\ wpc'[v] = "idle"
        /\ status'[v] = "disconnected"
        /\ UNCHANGED <<lists, masks, hw, timer>>
    BY <1>6 DEF Destroy, Cancelled, Set, TypeOK
  <2>3. Gone(v)'
    BY <2>1, <2>2 DEF Gone, lists, masks, Listed
  <2> QED
    BY <2>3 DEF Alive
<1> QED
  BY <1>1, <1>2, <1>3, <1>4, <1>5, <1>6 DEF User

\* The steps of a work function that stops its timer first.
LEMMA InOrderOfSteps ==
  ASSUME Orderly, NEW v \in Vdecs
  PROVE  /\ WorkSteps(v)[1] = "timer"
         /\ After(v, "timer") = "finish"
         /\ After(v, "finish") = "callback"
<1> DEFINE s == <<"timer", "finish", "callback", "idle">>
<1>1. WorkSteps(v) = s
  BY DEF WorkSteps, Orderly
<1>2. (CHOOSE i \in 1..4 : s[i] = "timer") = 1
  OBVIOUS
<1>3. (CHOOSE i \in 1..4 : s[i] = "finish") = 2
  OBVIOUS
<1> QED
  BY <1>1, <1>2, <1>3 DEF After

\* The driver ends a run in order.
LEMMA DriverLives ==
  ASSUME TypeOK, Orderly, NEW v \in Vdecs, Alive(v),
         Feed(v) \/ Report(v) \/ ForceExit(v) \/ Worker(v)
  PROVE  Alive(v)'
<1>0. /\ UNCHANGED <<life, next, done, lists, granted, active, thread, worker>>
      /\ AtRun(v)' <=> AtRun(v)
      /\ v \in Listed' <=> v \in Listed
  BY DEF Feed, Report, ForceExit, Worker, StartWork, FinishRun, DelTimer, Callback,
     masks, loop, lists, AtRun, Listed
<1>1. CASE Feed(v)
  <2>1. UNCHANGED Own(v)
    BY <1>1 DEF Feed, Own, masks, driver
  <2> QED
    BY <1>0, <2>1, Untouched DEF lists
<1>2. CASE Report(v)
  <2>1. hw[v] /\ ~hw'[v] /\ work'[v]
    BY <1>2 DEF Report, Set, TypeOK
  <2>2. UNCHANGED <<status, working, timer, flag, wpc>>
    BY <1>2 DEF Report, masks
  <2>3. Serving(v) /\ Decoding(v)
    BY <2>1 DEF Alive, New, Serving, Gone, Resting, Spent, Elected, Unstarted
  <2>4. Decoding(v)'
    BY <1>0, <2>1, <2>2, <2>3 DEF Decoding, Holds, NoEnding
  <2> QED
    BY <1>0, <2>3, <2>4 DEF Serving, Alive, lists
<1>3. CASE ForceExit(v)
  <2>1. timer[v] /\ ~timer'[v] /\ work'[v] /\ next[v] = "disconnected"
    BY <1>3 DEF ForceExit, Set, TypeOK
  <2>2. UNCHANGED <<status, working, hw, flag, wpc>>
    BY <1>3 DEF ForceExit, masks
  <2>3. Serving(v) /\ Decoding(v)
    BY <2>1 DEF Alive, New, Serving, Gone, Resting, Spent, Elected, Unstarted
  <2>4. Decoding(v)'
    BY <1>0, <2>1, <2>2, <2>3 DEF Decoding, Holds, NoEnding
  <2> QED
    BY <1>0, <2>3, <2>4 DEF Serving, Alive, lists
<1>4. CASE StartWork(v)
  <2>1. work[v] /\ wpc[v] = "idle" /\ ~work'[v] /\ ~hw'[v] /\ wpc'[v] = "timer"
    BY <1>4, InOrderOfSteps DEF StartWork, Set, TypeOK
  <2>2. UNCHANGED <<status, working, timer, flag>>
    BY <1>4 DEF StartWork, masks
  <2>3. CASE Gone(v)
    <3>1. Gone(v)'
      BY <1>0, <2>1, <2>2, <2>3 DEF Gone
    <3> QED
      BY <3>1 DEF Alive
  <2>4. CASE ~Gone(v)
    <3>1. Serving(v) /\ (Spent(v) \/ Decoding(v))
      BY <2>1, <2>4 DEF Alive, New, Serving, Resting, Elected, Unstarted
    <3>2. Spent(v) => Spent(v)'
      BY <1>0, <2>1, <2>2 DEF Spent
    <3>3. Decoding(v) => Decoding(v)'
      BY <1>0, <2>1, <2>2 DEF Decoding, Holds, NoEnding
    <3> QED
      BY <1>0, <3>1, <3>2, <3>3 DEF Serving, Alive, lists
  <2> QED
    BY <2>3, <2>4
<1>5. CASE DelTimer(v)
  <2>1. wpc[v] = "timer" /\ wpc'[v] = "finish" /\ ~flag'[v]
    BY <1>5, InOrderOfSteps DEF DelTimer, Set, TypeOK
  <2>2. UNCHANGED <<status, working, hw, work>>
    BY <1>5 DEF DelTimer, masks
  <2>3. timer'[v] => timer[v] /\ v \in FlagsTimer /\ ~flag[v]
    BY <1>5 DEF DelTimer, FlaggedStop, Set, TypeOK
  <2>4. CASE Gone(v)
    <3>1. Gone(v)'
      BY <1>0, <2>1, <2>2, <2>3, <2>4 DEF Gone
    <3> QED
      BY <3>1 DEF Alive
  <2>5. CASE ~Gone(v)
    <3>1. Serving(v) /\ (Spent(v) \/ Decoding(v))
      BY <2>1, <2>5 DEF Alive, New, Serving, Resting, Elected, Unstarted, NoEnding
    <3>2. Spent(v) => Spent(v)'
      BY <1>0, <2>2, <2>3 DEF Spent
    <3>3. Decoding(v) => Decoding(v)'
      BY <1>0, <2>1, <2>2, <2>3 DEF Decoding, Holds, NoEnding
    <3> QED
      BY <1>0, <3>1, <3>2, <3>3 DEF Serving, Alive, lists
  <2> QED
    BY <2>4, <2>5
<1>6. CASE FinishRun(v)
  <2>1. wpc[v] = "finish" /\ wpc'[v] = "callback"
    BY <1>6, InOrderOfSteps DEF FinishRun, Set, TypeOK
  <2>2. working'[v] = {} /\ status'[v] = "connected"
    BY <1>6 DEF FinishRun, FinishStatus, Set, TypeOK
  <2>3. UNCHANGED <<hw, timer, flag, work>>
    BY <1>6 DEF FinishRun
  <2>4. CASE Gone(v)
    <3>1. Gone(v)'
      BY <1>0, <2>1, <2>2, <2>3, <2>4 DEF Gone
    <3> QED
      BY <3>1 DEF Alive
  <2>5. CASE ~Gone(v)
    <3>1. Serving(v) /\ (Spent(v) \/ Decoding(v))
      BY <2>1, <2>5 DEF Alive, New, Serving, Resting, Elected, Unstarted, NoEnding
    <3>2. Spent(v) => Spent(v)'
      BY <1>0, <2>2, <2>3 DEF Spent
    <3>3. Decoding(v) /\ next[v] = "connected" => Resting(v)'
      BY <2>1, <2>2, <2>3 DEF Decoding, Resting, Unstarted, NoEnding
    <3>4. Decoding(v) /\ next[v] = "disconnected" => Spent(v)'
      BY <1>0, <2>1, <2>2, <2>3 DEF Decoding, Spent, Holds, NoEnding
    <3>5. next[v] \in {"disconnected", "connected"}
      BY DEF TypeOK
    <3> QED
      BY <1>0, <3>1, <3>2, <3>3, <3>4, <3>5 DEF Serving, Alive, lists
  <2> QED
    BY <2>4, <2>5
<1>7. CASE Callback(v)
  <2>1. wpc[v] = "callback" /\ wpc'[v] = "idle"
    BY <1>7 DEF Callback, Set, TypeOK
  <2>2. UNCHANGED <<status, working, hw, timer, flag, work>>
    BY <1>7 DEF Callback, masks
  <2>3. New(v) => New(v)'
    BY <1>0, <2>1, <2>2 DEF New, Unstarted, NoEnding, lists
  <2>4. Gone(v) => Gone(v)'
    BY <1>0, <2>1, <2>2 DEF Gone
  <2>5. Resting(v) => Resting(v)'
    BY <1>0, <2>1, <2>2 DEF Resting, Unstarted, NoEnding
  <2>6. Spent(v) => Spent(v)'
    BY <1>0, <2>2 DEF Spent
  <2>7. Elected(v) => Elected(v)'
    BY <1>0, <2>1, <2>2 DEF Elected, Holds, Unstarted, NoEnding
  <2>8. Decoding(v) => Decoding(v)'
    BY <1>0, <2>1, <2>2 DEF Decoding, Holds, NoEnding
  <2>9. Serving(v) => Serving(v)'
    BY <1>0, <2>5, <2>6, <2>7, <2>8 DEF Serving, lists
  <2> QED
    BY <2>3, <2>4, <2>9 DEF Alive
<1> QED
  BY <1>1, <1>2, <1>3, <1>4, <1>5, <1>6, <1>7 DEF Worker

\* The beginning of a turn takes from the list what can leave it, and nothing
\* that decodes.
LEMMA CleanLives ==
  ASSUME TypeOK, Clean, NEW w \in Vdecs, Alive(w)
  PROVE  Alive(w)'
<1> DEFINE out == {v \in Listed : Leaving(v)}
<1>1. /\ granted' = [v \in Vdecs |-> IF v \in Listed THEN granted[v] \ GivesBack(v)
                                    ELSE granted[v]]
      /\ active' = IF active \in out THEN NoVdec ELSE active
      /\ connected' \in Remaining(connected, out)
      /\ disconnecting' = out
      /\ thread = "down" /\ thread' = "elect"
      /\ UNCHANGED <<life, status, next, done, working, worker, ready, driver>>
  BY DEF Clean
<1>2. Listed' = Listed \ out
  BY <1>1 DEF Remaining, Listed
<1>3. w # NoVdec
  BY CoreConstants
<1>4. ~AtRun(w) /\ ~AtRun(w)'
  BY <1>1 DEF AtRun
<1>5. UNCHANGED <<hw, timer, flag, work, wpc>>
  BY <1>1 DEF driver
<1>6. CASE w \notin Listed
  <2>1. granted'[w] = granted[w]
    BY <1>1, <1>6
  <2>2. UNCHANGED Own(w)
    BY <1>1, <1>5, <2>1 DEF Own
  <2>3. w \notin disconnecting' /\ w \notin Listed'
    BY <1>1, <1>2, <1>6
  <2>4. w = active' => w = active
    BY <1>1, <1>3
  <2> QED
    BY <1>4, <1>6, <2>2, <2>3, <2>4, Untouched
<1>7. CASE w \in Listed
  <2> HIDE DEF out
  <2>1. Serving(w) /\ ~Elected(w)
    BY <1>4, <1>7 DEF Alive, New, Gone, Elected
  <2>2. granted'[w] = granted[w] \cap working[w]
    BY <1>1, <1>7 DEF GivesBack
  <2>3. CASE w \in out
    <3>1. status[w] = "connected" /\ next[w] = "disconnected"
      BY <2>3 DEF out, Leaving
    <3>2. Resting(w) \/ Spent(w)
      BY <2>1, <3>1 DEF Serving, Decoding
    <3>3. working[w] = {} /\ ~hw[w] /\ ~timer[w]
      BY <3>2 DEF Resting, Spent, Unstarted
    <3>4. life[w] = "release"
      BY <2>1, <3>1 DEF Serving
    <3>5. w \notin Listed' /\ w # active'
      BY <1>1, <1>2, <1>3, <2>3
    <3>6. Gone(w)'
      BY <1>1, <1>5, <2>2, <3>1, <3>3, <3>4, <3>5 DEF Gone
    <3> QED
      BY <3>6 DEF Alive
  <2>4. CASE w \notin out
    <3>1. ~Spent(w)
      BY <1>7, <2>4 DEF out, Leaving, Spent
    <3>2. Resting(w) => Resting(w)'
      BY <1>1, <1>5 DEF Resting, Unstarted, NoEnding
    <3>3. Decoding(w) => Decoding(w)'
      BY <1>1, <1>4, <1>5, <2>2 DEF Decoding, Holds, NoEnding
    <3>4. w \in Listed' /\ w \notin disconnecting'
      BY <1>1, <1>2, <1>7, <2>4
    <3>5. Serving(w)'
      BY <1>1, <2>1, <3>1, <3>2, <3>3, <3>4 DEF Serving
    <3> QED
      BY <3>5 DEF Alive
  <2> QED
    BY <2>3, <2>4
<1> QED
  BY <1>6, <1>7

\* The election looks only at listed instances.
LEMMA OrderOfListed ==
  ASSUME TypeOK, NEW i \in DOMAIN ElectionOrder
  PROVE  ElectionOrder[i] \in Listed
<1>1. connected \in Seq(Listed)
  <2>1. connected \in [1..Len(connected) -> Listed] /\ Len(connected) \in Nat
    <3>1. /\ connected \in [1..Len(connected) -> Vdecs]
          /\ Len(connected) \in Nat
          /\ DOMAIN connected = 1..Len(connected)
      BY LenProperties DEF TypeOK
    <3> QED
      BY <3>1 DEF Listed, Range
  <2> QED
    BY <2>1, IsASeq
<1>2. CASE active \notin Listed
  <2>1. ElectionOrder = connected
    BY <1>2 DEF ElectionOrder
  <2> QED
    BY <1>1, <2>1, ElementOfSeq, LenProperties
<1>3. CASE active \in Listed
  <2> DEFINE k == CHOOSE j \in DOMAIN connected : connected[j] = active
  <2>1. \E j \in DOMAIN connected : connected[j] = active
    BY <1>3 DEF Listed, Range
  <2>2. k \in DOMAIN connected
    BY <2>1
  <2>3. k \in 1..Len(connected) /\ Len(connected) \in Nat
    BY <1>1, <2>2, LenProperties
  <2> HIDE DEF k
  <2>4. /\ SubSeq(connected, k + 1, Len(connected)) \in Seq(Listed)
        /\ SubSeq(connected, 1, k) \in Seq(Listed)
    <3>1. \A j \in (k + 1)..Len(connected) : connected[j] \in Listed
      BY <1>1, <2>3, ElementOfSeq
    <3>2. \A j \in 1..k : connected[j] \in Listed
      BY <1>1, <2>3, ElementOfSeq
    <3> QED
      BY <2>3, <3>1, <3>2, SubSeqProperties
  <2>5. ElectionOrder = SubSeq(connected, k + 1, Len(connected))
                          \o SubSeq(connected, 1, k)
    BY <1>3 DEF ElectionOrder, k
  <2>6. ElectionOrder \in Seq(Listed)
    BY <2>4, <2>5, ConcatProperties
  <2> QED
    BY <2>6, ElementOfSeq, LenProperties
<1> QED
  BY <1>2, <1>3

\* Only an instance that rests is elected, for the others hold their cores.
LEMMA ElectLives ==
  ASSUME TypeOK, CoresOwned, Elect, \A v \in Vdecs : Alive(v)
  PROVE  Lives'
<1>0. /\ thread = "elect"
      /\ UNCHANGED <<life, next, done, lists, driver>>
      /\ Listed' = Listed
  BY DEF Elect, lists, Listed
<1>1. CASE /\ worker' = NoVdec /\ thread' = "clear"
           /\ UNCHANGED <<status, masks>>
  <2>1. ASSUME NEW w \in Vdecs PROVE Alive(w)'
    <3>1. UNCHANGED Own(w) /\ (AtRun(w)' <=> AtRun(w))
      BY <1>0, <1>1 DEF Own, AtRun, masks, driver
    <3> QED
      BY <1>0, <1>1, <3>1, Untouched DEF lists, masks
  <2> QED
    BY <1>1, <2>1 DEF Lives, RunsElected
<1>2. ASSUME NEW v \in Listed, Runnable(v),
             worker' = v,
             working' = Set(working, v, working[v] \cup Needs[v]),
             granted' = Set(granted, v, granted[v] \cup Needs[v]),
             status' = Set(status, v, "active"),
             active' = v,
             thread' = "run"
      PROVE  Lives'
  <2>1. v \in Vdecs
    BY ListedAreVdecs
  <2>2. ~(Needs[v] \subseteq granted[v])
    <3>1. PICK c : c \in Needs[v]
      BY <2>1, CoreConstants
    <3>2. c \notin busy
      BY <1>2, <3>1 DEF Runnable
    <3> QED
      BY <2>1, <3>1, <3>2 DEF CoresOwned
  <2>3. Serving(v) /\ Resting(v)
    <3>1. Serving(v)
      BY <2>1 DEF Alive, New, Gone
    <3> QED
      BY <2>2, <3>1 DEF Serving, Spent, Elected, Decoding, Holds
  <2>4. /\ status'[v] = "active"
        /\ working'[v] = working[v] \cup Needs[v]
        /\ granted'[v] = granted[v] \cup Needs[v]
    BY <1>2, <2>1 DEF Set, TypeOK
  <2>5. Elected(v)'
    BY <1>0, <1>2, <2>3, <2>4 DEF Resting, Elected, AtRun, Holds, Unstarted, NoEnding, driver
  <2>6. Alive(v)'
    BY <1>0, <2>3, <2>5 DEF Serving, Alive, lists
  <2>7. ASSUME NEW w \in Vdecs, w # v PROVE Alive(w)'
    <3>1. UNCHANGED <<status[w], working[w], granted[w]>>
      BY <1>2, <2>1, <2>7 DEF Set, TypeOK
    <3>2. UNCHANGED Own(w)
      BY <1>0, <3>1 DEF Own, driver
    <3>3. AtRun(w)' <=> AtRun(w)
      BY <1>0, <1>2, <2>7 DEF AtRun
    <3> QED
      BY <1>0, <1>2, <2>7, <3>2, <3>3, Untouched DEF lists
  <2>8. RunsElected'
    BY <1>0, <1>2, <2>4 DEF RunsElected
  <2> QED
    BY <2>6, <2>7, <2>8 DEF Lives
<1>3. CASE \E i \in DOMAIN ElectionOrder :
             LET v == ElectionOrder[i] IN
             /\ Runnable(v)
             /\ worker' = v
             /\ working' = Set(working, v, working[v] \cup Needs[v])
             /\ granted' = Set(granted, v, granted[v] \cup Needs[v])
             /\ status' = Set(status, v, "active")
             /\ active' = v
             /\ thread' = "run"
  BY <1>2, <1>3, OrderOfListed
<1> QED
  BY <1>1, <1>3 DEF Elect

\* The run is called for the instance that was elected.
LEMMA RunLives ==
  ASSUME TypeOK, Run, Lives
  PROVE  Lives'
<1>0. /\ thread = "run" /\ thread' = "clear"
      /\ UNCHANGED <<life, status, next, done, lists, masks, worker, wpc>>
      /\ Listed' = Listed
  BY DEF Run, lists, Listed
<1>1. worker \in Listed /\ worker \in Vdecs /\ status[worker] = "active"
  BY <1>0, ListedAreVdecs DEF Lives, RunsElected
<1>2. Serving(worker) /\ Elected(worker)
  <2>1. Alive(worker) /\ AtRun(worker)
    BY <1>0, <1>1 DEF Lives, AtRun
  <2> QED
    BY <1>1, <2>1 DEF Alive, New, Gone, Serving, Resting, Spent, Decoding
<1>3. Alive(worker)'
  <2>1. /\ hw'[worker] => ~work'[worker]
        /\ timer'[worker] /\ worker \in FlagsTimer => flag'[worker]
    BY <1>1, <1>2 DEF Run, Elected, Unstarted, Set, TypeOK
  <2>2. NoEnding(worker)'
    BY <1>0, <1>2 DEF Elected, Unstarted, NoEnding
  <2>3. Decoding(worker)'
    BY <1>0, <1>1, <1>2, <2>1, <2>2 DEF Decoding, Elected, AtRun, Holds, NoEnding, masks
  <2> QED
    BY <1>0, <1>2, <2>3 DEF Serving, Alive, lists
<1>4. ASSUME NEW w \in Vdecs, w # worker PROVE Alive(w)'
  <2>1. UNCHANGED <<hw[w], timer[w], flag[w], work[w]>>
    BY <1>1, <1>4 DEF Run, Set, TypeOK
  <2>2. UNCHANGED Own(w)
    BY <1>0, <2>1 DEF Own, masks
  <2>3. AtRun(w)' <=> AtRun(w)
    BY <1>0, <1>4 DEF AtRun
  <2> QED
    BY <1>0, <2>2, <2>3, Untouched DEF Lives, lists, masks
<1> QED
  BY <1>0, <1>3, <1>4 DEF Lives, RunsElected

\* The end of a turn tells those that left.
LEMMA ClearLives ==
  ASSUME TypeOK, Clear, NEW w \in Vdecs, Alive(w)
  PROVE  Alive(w)'
<1>0. /\ thread = "clear" /\ thread' = "down" /\ disconnecting' = {}
      /\ UNCHANGED <<life, next, connected, masks, driver>>
      /\ Listed' = Listed
  BY DEF Clear, Listed
<1>1. /\ w \in disconnecting => status'[w] = "disconnected"
      /\ w \notin disconnecting => UNCHANGED <<status[w], done[w]>>
  BY DEF Clear, Completing
<1>2. CASE w \in disconnecting
  <2>1. Gone(w)
    BY <1>2 DEF Alive, New, Serving
  <2>2. Gone(w)'
    BY <1>0, <1>1, <1>2, <2>1 DEF Gone, masks, driver
  <2> QED
    BY <2>2 DEF Alive
<1>3. CASE w \notin disconnecting
  <2>1. UNCHANGED Own(w) /\ (AtRun(w)' <=> AtRun(w))
    BY <1>0, <1>1, <1>3 DEF Own, AtRun, masks, driver
  <2> QED
    BY <1>0, <1>3, <2>1, Untouched DEF masks
<1> QED
  BY <1>2, <1>3

\* Until the run is called nothing changes the status of the elected.
LEMMA ElectedWaits ==
  ASSUME TypeOK, Lives, NEW v \in Vdecs,
         \/ Connect(v) \/ User(v) \/ Disconnect(v, "release")
         \/ Feed(v) \/ Report(v) \/ ForceExit(v) \/ Worker(v)
  PROVE  RunsElected'
<1> SUFFICES ASSUME thread' = "run"
             PROVE  worker' \in Listed' /\ status'[worker'] = "active"
  BY DEF RunsElected
<1>1. thread' = thread /\ worker' = worker
  BY DEF Connect, User, Link, Waited, StopDriver, Destroy, Disconnect, Feed, Report,
     ForceExit, Worker, StartWork, FinishRun, DelTimer, Callback, loop
<1>2. worker \in Listed /\ worker \in Vdecs /\ status[worker] = "active" /\ Alive(worker)
  BY <1>1, ListedAreVdecs DEF Lives, RunsElected
<1>3. Serving(worker) /\ Elected(worker)
  BY <1>1, <1>2 DEF Alive, New, Gone, Serving, Resting, Spent, Decoding, AtRun
<1>4. worker \in Listed'
  <2>1. CASE Link(v)
    <3>1. connected' = Append(connected, v) /\ connected \in Seq(Vdecs)
      BY <2>1 DEF Link, TypeOK
    <3> QED
      BY <1>2, <3>1, AppendProperties, LenProperties DEF Listed, Range
  <2>2. CASE ~Link(v)
    <3>1. connected' = connected
      BY <2>2 DEF Connect, User, Waited, StopDriver, Destroy, Disconnect, Feed, Report,
         ForceExit, Worker, StartWork, FinishRun, DelTimer, Callback, lists
    <3> QED
      BY <1>2, <3>1 DEF Listed
  <2> QED
    BY <2>1, <2>2
<1>5. status'[worker] = "active"
  <2>1. CASE v # worker
    BY <1>2, <2>1 DEF Connect, User, Link, Waited, StopDriver, Destroy, Disconnect, Feed,
       Report, ForceExit, Worker, StartWork, FinishRun, FinishStatus, DelTimer, Callback,
       Set, TypeOK
  <2>2. CASE v = worker
    <3>1. ~Connect(v) /\ ~Destroy(v) /\ ~FinishRun(v)
      BY <1>3, <2>2 DEF Serving, Elected, Unstarted, NoEnding, Connect, Destroy, FinishRun
    <3>2. status' = status
      BY <3>1 DEF User, Link, Waited, StopDriver, Disconnect, Feed, Report, ForceExit,
         Worker, StartWork, DelTimer, Callback
    <3> QED
      BY <1>2, <3>2
  <2> QED
    BY <2>1, <2>2
<1> QED
  BY <1>1, <1>4, <1>5

LEMMA NextLives ==
  ASSUME TypeOK, CoresOwned, Orderly, Lives, [Next]_vars
  PROVE  Lives'
<1>1. CASE Clean
  <2>1. RunsElected'
    BY <1>1 DEF Clean, RunsElected
  <2> QED
    BY <1>1, <2>1, CleanLives DEF Lives
<1>2. CASE Elect
  BY <1>2, ElectLives DEF Lives
<1>3. CASE Run
  BY <1>3, RunLives
<1>4. CASE Clear
  <2>1. RunsElected'
    BY <1>4 DEF Clear, RunsElected
  <2> QED
    BY <1>4, <2>1, ClearLives DEF Lives
<1>5. ASSUME NEW v \in Vdecs,
             \/ Connect(v) \/ User(v) \/ Disconnect(v, "release")
             \/ Feed(v) \/ Report(v) \/ ForceExit(v) \/ Worker(v)
      PROVE  Lives'
  <2>1. Alive(v)'
    BY <1>5, UserLives, DriverLives DEF Lives
  <2>2. \A w \in Vdecs : w # v => Alive(w)'
    BY <1>5, OthersUntouched DEF Lives
  <2>3. RunsElected'
    BY <1>5, ElectedWaits
  <2> QED
    BY <2>1, <2>2, <2>3 DEF Lives
<1>6. CASE UNCHANGED vars
  <2>1. \A w \in Vdecs : UNCHANGED Own(w) /\ (AtRun(w)' <=> AtRun(w))
    BY <1>6 DEF vars, Own, AtRun
  <2>2. Listed' = Listed /\ UNCHANGED <<disconnecting, active, thread, worker, status>>
    BY <1>6 DEF vars, Listed
  <2>3. \A w \in Vdecs : Alive(w)'
    BY <2>1, <2>2, Untouched DEF Lives
  <2> QED
    BY <2>2, <2>3 DEF Lives, RunsElected
<1> QED
  BY <1>1, <1>2, <1>3, <1>4, <1>5, <1>6 DEF Next, Core, Orderly

LEMMA AlwaysLives == ASSUME Orderly PROVE Spec => [](TypeOK /\ Lives)
<1>1. TypeOK /\ CoresOwned /\ Lives /\ [Next]_vars => Lives'
  BY NextLives
<1> QED
  BY <1>1, InitAlive, TypeCorrect, CoresAreOwned, PTL DEF Spec

\* A listed instance is connected or active, so vdec_core_thread may elect it
\* or take it off: the comment in vdec_connect.
THEOREM ListedCanRun == ASSUME Orderly PROVE Spec => []ListedStatus
<1>1. TypeOK /\ Lives => ListedStatus
  BY ListedAreVdecs DEF Lives, Alive, New, Serving, Gone, Resting, Spent, Elected, Decoding,
     ListedStatus
<1> QED
  BY <1>1, AlwaysLives, PTL

\* While the hardware decodes for an instance no other can be granted one of
\* the cores it uses: the work function returns them only when it has stopped.
THEOREM DecodesOnItsCores == ASSUME Orderly PROVE Spec => []DecodesOnGranted
<1>1. TypeOK /\ Lives => DecodesOnGranted
  <2> SUFFICES ASSUME Lives, NEW v \in Vdecs, hw[v]
               PROVE  Needs[v] \subseteq granted[v] \cap working[v]
    BY DEF DecodesOnGranted
  <2>1. Decoding(v)
    BY DEF Lives, Alive, New, Serving, Gone, Resting, Spent, Elected, Unstarted
  <2> QED
    BY <2>1 DEF Decoding, Holds
<1> QED
  BY <1>1, AlwaysLives, PTL

\* Once vdec_disconnect returned the instance is off the list, holds no core,
\* and has nothing on the hardware.
THEOREM LeftIsQuiet == ASSUME Orderly PROVE Spec => []DisconnectedIsQuiet
<1>1. TypeOK /\ Lives => DisconnectedIsQuiet
  <2> SUFFICES ASSUME Lives, NEW v \in Vdecs, life[v] \in {"leaving", "stopped", "freed"}
               PROVE  v \notin Listed \cup {active} /\ granted[v] = {} /\ ~hw[v]
    BY DEF DisconnectedIsQuiet
  <2>1. Gone(v)
    BY DEF Lives, Alive, New, Serving
  <2> QED
    BY <2>1 DEF Gone
<1> QED
  BY <1>1, AlwaysLives, PTL

\* When vdec_destroy frees an instance no timer and no work of it is left, even
\* if the forced exit queued its work once more than it ran.
THEOREM NothingAfterFree == ASSUME Orderly PROVE Spec => []FreedIsStopped
<1>1. TypeOK /\ Lives => FreedIsStopped
  <2> SUFFICES ASSUME Lives, NEW v \in Vdecs, life[v] = "freed"
               PROVE  ~timer[v] /\ ~work[v] /\ wpc[v] = "idle" /\ v \notin Listed
    BY DEF FreedIsStopped
  <2>1. Gone(v)
    BY DEF Lives, Alive, New, Serving
  <2> QED
    BY <2>1 DEF Gone
<1> QED
  BY <1>1, AlwaysLives, PTL

=============================================================================
