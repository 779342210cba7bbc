--------------------------- MODULE VdecCoreProofs ---------------------------
(***************************************************************************)
(* The scheduler's book-keeping of the cores is exact, whatever instances  *)
(* are reset, whatever disconnect times out and whatever order a driver    *)
(* gives its cores back in: no core is ever granted twice.                 *)
(***************************************************************************)
EXTENDS VdecCore, SequenceTheorems, TLAPS

IInv == TypeOK /\ CoresOwned

\* what is left of a list is a list of instances
LEMMA RemainingIsList ==
  ASSUME NEW s \in Seq(Vdecs), NEW out, NEW r \in Remaining(s, out)
  PROVE  r \in Seq(Vdecs)
<1>1. PICK m \in 0..Len(s) : r \in [1..m -> Vdecs]
  BY DEF Remaining, SeqOf
<1>2. m \in Nat
  <2>1. Len(s) \in Nat
    BY LenProperties
  <2> QED
    BY <2>1
<1> QED
  BY <1>1, <1>2, IsASeq

\* whom the election looks at is an instance
LEMMA OrderOfVdecs ==
  ASSUME connected \in Seq(Vdecs), NEW i \in DOMAIN ElectionOrder
  PROVE  ElectionOrder[i] \in Vdecs
<1>1. CASE active \notin Listed
  <2>1. ElectionOrder = connected
    BY <1>1 DEF ElectionOrder
  <2> QED
    BY <2>1, ElementOfSeq, LenProperties
<1>2. CASE active \in Listed
  <2> DEFINE k == CHOOSE j \in DOMAIN connected : connected[j] = active
  <2>1. \E j \in DOMAIN connected : connected[j] = active
    BY <1>2 DEF Listed, Range
  <2>2. k \in DOMAIN connected
    BY <2>1
  <2>3. k \in 1..Len(connected) /\ Len(connected) \in Nat
    BY <2>2, LenProperties
  <2> HIDE DEF k
  <2>4. /\ SubSeq(connected, k + 1, Len(connected)) \in Seq(Vdecs)
        /\ SubSeq(connected, 1, k) \in Seq(Vdecs)
    <3>1. \A j \in (k + 1)..Len(connected) : connected[j] \in Vdecs
      BY <2>3, ElementOfSeq
    <3>2. \A j \in 1..k : connected[j] \in Vdecs
      BY <2>3, ElementOfSeq
    <3> QED
      BY <2>3, <3>1, <3>2, SubSeqProperties
  <2>5. ElectionOrder = SubSeq(connected, k + 1, Len(connected))
                          \o SubSeq(connected, 1, k)
    BY <1>2 DEF ElectionOrder, k
  <2>6. ElectionOrder \in Seq(Vdecs)
    BY <2>4, <2>5, ConcatProperties
  <2> QED
    BY <2>6, ElementOfSeq, LenProperties
<1> QED
  BY <1>1, <1>2

LEMMA InitTyped == Init => IInv
<1> SUFFICES ASSUME Init PROVE IInv
  OBVIOUS
<1>1. connected \in Seq(Vdecs)
  BY EmptySeq DEF Init
<1>2. TypeOK
  BY <1>1, CoreConstants DEF Init, TypeOK
<1>3. CoresOwned
  BY DEF Init, CoresOwned
<1> QED
  BY <1>2, <1>3 DEF IInv

\* The user threads, the drivers and the end of a turn touch no mask but that
\* of what an instance works with.
LEMMA MasksKept ==
  ASSUME CoresOwned, UNCHANGED <<granted, busy>>
  PROVE  CoresOwned'
BY DEF CoresOwned

\* The beginning of a turn frees exactly what it takes from the instances.
LEMMA CleanOwned ==
  ASSUME TypeOK, CoresOwned, Clean
  PROVE  CoresOwned'
<1> DEFINE back == UNION {GivesBack(v) : v \in Listed}
<1>1. granted' = [v \in Vdecs |-> IF v \in Listed THEN granted[v] \ GivesBack(v)
                                  ELSE granted[v]]
  BY DEF Clean
<1>2. busy' = busy \ back
  BY DEF Clean
<1>3. \A v \in Vdecs : granted'[v] \subseteq granted[v]
  BY <1>1
<1>4. \A v, w \in Vdecs : v # w => granted'[v] \cap granted'[w] = {}
  BY <1>3 DEF CoresOwned
<1>5. Listed \subseteq Vdecs
  BY LenProperties, ElementOfSeq DEF TypeOK, Listed, Range
<1>6. ASSUME NEW c \in busy', NEW v \in Vdecs, c \in granted[v]
      PROVE  c \in granted'[v]
  <2>1. v \in Listed => c \notin GivesBack(v)
    BY <1>2, <1>6
  <2> QED
    BY <1>1, <1>6, <2>1
<1>7. ASSUME NEW v \in Vdecs, NEW c \in granted'[v]
      PROVE  c \in busy'
  <2>1. c \in granted[v] /\ c \in busy
    BY <1>3, <1>7 DEF CoresOwned
  <2>2. ASSUME NEW w \in Listed, c \in GivesBack(w)
        PROVE  FALSE
    <3>1. c \in granted[w] /\ w \in Vdecs
      BY <1>5, <2>2 DEF GivesBack
    <3>2. w = v
      BY <2>1, <3>1 DEF CoresOwned
    <3> QED
      BY <1>1, <1>7, <2>2, <3>2
  <2> QED
    BY <1>2, <2>1, <2>2
<1>8. busy' = UNION {granted'[v] : v \in Vdecs}
  <2>1. ASSUME NEW c \in busy'
        PROVE  \E v \in Vdecs : c \in granted'[v]
    <3>1. PICK v \in Vdecs : c \in granted[v]
      BY <1>2, <2>1 DEF CoresOwned
    <3> QED
      BY <1>6, <2>1, <3>1
  <2> QED
    BY <1>7, <2>1
<1> QED
  BY <1>4, <1>8 DEF CoresOwned

\* An election grants cores that are free, so that nobody holds.
LEMMA ElectOwned ==
  ASSUME TypeOK, CoresOwned, Elect
  PROVE  CoresOwned'
<1>1. CASE UNCHANGED <<granted, busy>>
  BY <1>1, MasksKept
<1>2. ASSUME NEW v \in Vdecs, Runnable(v),
             granted' = Set(granted, v, granted[v] \cup Needs[v]),
             busy' = busy \cup Needs[v]
      PROVE  CoresOwned'
  <2>1. \A w \in Vdecs : granted'[w] =
          IF w = v THEN granted[v] \cup Needs[v] ELSE granted[w]
    BY <1>2 DEF Set, TypeOK
  <2>2. \A w \in Vdecs : granted[w] \cap Needs[v] = {}
    BY <1>2 DEF CoresOwned, Runnable
  <2>3. \A w, u \in Vdecs : w # u => granted'[w] \cap granted'[u] = {}
    BY <2>1, <2>2 DEF CoresOwned
  <2>4. busy' = UNION {granted'[w] : w \in Vdecs}
    <3>1. ASSUME NEW c \in busy'
          PROVE  \E w \in Vdecs : c \in granted'[w]
      <4>1. CASE c \in Needs[v]
        <5>1. c \in granted'[v]
          BY <2>1, <4>1
        <5> QED
          BY <5>1
      <4>2. CASE c \in busy
        <5>1. PICK w \in Vdecs : c \in granted[w]
          BY <4>2 DEF CoresOwned
        <5>2. c \in granted'[w]
          BY <2>1, <5>1
        <5> QED
          BY <5>2
      <4> QED
        BY <1>2, <3>1, <4>1, <4>2
    <3>2. ASSUME NEW w \in Vdecs, NEW c \in granted'[w]
          PROVE  c \in busy'
      <4>1. c \in granted[w] => c \in busy
        BY DEF CoresOwned
      <4>2. c \in granted[w] \/ c \in Needs[v]
        BY <2>1, <3>2
      <4> QED
        BY <1>2, <4>1, <4>2
    <3> QED
      BY <3>1, <3>2
  <2> QED
    BY <2>3, <2>4 DEF CoresOwned
<1>3. connected \in Seq(Vdecs)
  BY DEF TypeOK
<1>4. CASE \E i \in DOMAIN ElectionOrder :
             LET v == ElectionOrder[i] IN
             /\ Runnable(v)
             /\ granted' = Set(granted, v, granted[v] \cup Needs[v])
             /\ busy' = busy \cup Needs[v]
  BY <1>2, <1>3, <1>4, OrderOfVdecs
<1> QED
  BY <1>1, <1>4 DEF Elect, masks

LEMMA StepOwned ==
  ASSUME TypeOK, CoresOwned, [Next]_vars
  PROVE  CoresOwned'
<1>1. CASE Clean
  BY <1>1, CleanOwned
<1>2. CASE Elect
  BY <1>2, ElectOwned
<1>3. CASE Run \/ Clear
  <2>1. UNCHANGED <<granted, busy>>
    BY <1>3 DEF Run, Clear, masks
  <2> QED
    BY <2>1, MasksKept
<1>4. ASSUME NEW v \in Vdecs,
             \/ Connect(v) \/ User(v)
             \/ Disconnect(v, "release") \/ Disconnect(v, "reset")
             \/ Feed(v) \/ Report(v) \/ ForceExit(v) \/ Worker(v)
      PROVE  CoresOwned'
  <2>1. UNCHANGED <<granted, busy>>
    BY <1>4 DEF Connect, User, Link, Waited, StopDriver, Destroy, Disconnect, Feed,
       Report, ForceExit, Worker, StartWork, FinishRun, DelTimer, Callback, masks
  <2> QED
    BY <2>1, MasksKept
<1>5. CASE UNCHANGED vars
  BY <1>5, MasksKept DEF vars
<1> QED
  BY <1>1, <1>2, <1>3, <1>4, <1>5 DEF Next, Core

\* the work function goes from one of its steps to another
LEMMA AfterTyped ==
  ASSUME NEW v \in Vdecs, NEW step \in {"finish", "timer", "callback"}
  PROVE  After(v, step) \in {"idle", "finish", "timer", "callback"}
<1> DEFINE k == CHOOSE i \in 1..4 : WorkSteps(v)[i] = step
<1>1. WorkSteps(v) \in [1..4 -> {"idle", "finish", "timer", "callback"}]
  BY DEF WorkSteps
<1>2. /\ \E i \in 1..4 : WorkSteps(v)[i] = step
      /\ WorkSteps(v)[4] = "idle"
  BY DEF WorkSteps
<1>3. k \in 1..4 /\ WorkSteps(v)[k] = step
  BY <1>2
<1>4. k + 1 \in 1..4
  BY <1>2, <1>3
<1> HIDE DEF k
<1>5. After(v, step) = WorkSteps(v)[k + 1]
  BY DEF After, k
<1> QED
  BY <1>1, <1>4, <1>5

\* stopping the timer as the flag says
LEMMA FlaggedTyped ==
  ASSUME TypeOK, NEW v \in Vdecs
  PROVE  FlaggedStop(v) \in [Vdecs -> BOOLEAN]
BY DEF FlaggedStop, TypeOK, Set

\* the steps of the core thread
LEMMA CoreTyped ==
  ASSUME TypeOK, Core
  PROVE  TypeOK'
<1>1. CASE Clean
  <2>1. connected' \in Seq(Vdecs)
    <3>1. connected' \in Remaining(connected, {v \in Listed : Leaving(v)})
      BY <1>1 DEF Clean
    <3> QED
      BY <3>1, RemainingIsList DEF TypeOK
  <2>2. Listed \subseteq Vdecs
    BY LenProperties, ElementOfSeq DEF TypeOK, Listed, Range
  <2>3. disconnecting' \subseteq Vdecs
    BY <1>1, <2>2 DEF Clean
  <2>4. granted' \in [Vdecs -> SUBSET Cores] /\ busy' \subseteq Cores
    <3>1. busy' \subseteq busy
      BY <1>1 DEF Clean
    <3>2. granted' \in [Vdecs -> SUBSET Cores]
      BY <1>1 DEF Clean, TypeOK, GivesBack
    <3> QED
      BY <3>1, <3>2 DEF TypeOK
  <2>5. /\ active' \in Vdecs \cup {NoVdec}
        /\ sem' \in BOOLEAN /\ thread' = "elect"
        /\ UNCHANGED <<life, status, next, done, working, worker, ready, driver>>
    BY <1>1 DEF Clean, TypeOK
  <2> QED
    BY <2>1, <2>3, <2>4, <2>5 DEF TypeOK, driver
<1>2. CASE Elect
  <2>1. CASE /\ worker' = NoVdec /\ thread' = "clear"
             /\ UNCHANGED <<status, masks>>
    BY <1>2, <2>1 DEF Elect, TypeOK, lists, driver, masks
  <2>2. ASSUME NEW v \in Vdecs,
               worker' = v,
               working' = Set(working, v, working[v] \cup Needs[v]),
               granted' = Set(granted, v, granted[v] \cup Needs[v]),
               busy' = busy \cup Needs[v],
               status' = Set(status, v, "active"),
               active' = v,
               thread' = "run"
        PROVE  TypeOK'
    <3>1. Needs[v] \subseteq Cores
      BY CoreConstants
    <3>2. /\ working' \in [Vdecs -> SUBSET Cores]
          /\ granted' \in [Vdecs -> SUBSET Cores]
          /\ busy' \subseteq Cores
      BY <2>2, <3>1 DEF TypeOK, Set
    <3>3. status' \in [Vdecs -> {"disconnected", "connected", "active"}]
      BY <2>2 DEF TypeOK, Set
    <3> QED
      BY <1>2, <2>2, <3>2, <3>3 DEF Elect, TypeOK, lists, driver
  <2>3. connected \in Seq(Vdecs)
    BY DEF TypeOK
  <2>4. CASE \E i \in DOMAIN ElectionOrder :
               LET v == ElectionOrder[i] IN
               /\ worker' = v
               /\ working' = Set(working, v, working[v] \cup Needs[v])
               /\ granted' = Set(granted, v, granted[v] \cup Needs[v])
               /\ busy' = busy \cup Needs[v]
               /\ status' = Set(status, v, "active")
               /\ active' = v
               /\ thread' = "run"
    BY <2>2, <2>3, <2>4, OrderOfVdecs
  <2> QED
    BY <1>2, <2>1, <2>4 DEF Elect
<1>3. CASE Run
  <2>1. timer' \in [Vdecs -> BOOLEAN] /\ flag' \in [Vdecs -> BOOLEAN]
    BY <1>3 DEF Run, TypeOK, Set
  <2>2. hw' \in [Vdecs -> BOOLEAN] /\ work' \in [Vdecs -> BOOLEAN]
    BY <1>3 DEF Run, TypeOK, Set
  <2> QED
    BY <1>3, <2>1, <2>2 DEF Run, TypeOK, lists, masks
<1>4. CASE Clear
  <2>1. done' \in [Vdecs -> Nat]
    BY <1>4 DEF Clear, TypeOK
  <2>2. status' \in [Vdecs -> {"disconnected", "connected", "active"}]
    BY <1>4 DEF Clear, TypeOK
  <2>3. sem' \in BOOLEAN
    <3>1. Idling \in BOOLEAN
      BY DEF Idling
    <3> QED
      BY <1>4, <3>1 DEF Clear, TypeOK
  <2> QED
    BY <1>4, <2>1, <2>2, <2>3 DEF Clear, TypeOK, masks, driver
<1> QED
  BY <1>1, <1>2, <1>3, <1>4 DEF Core

\* the steps of the user thread of an instance
LEMMA UserTyped ==
  ASSUME TypeOK, NEW v \in Vdecs,
         Connect(v) \/ User(v) \/ Disconnect(v, "release") \/ Disconnect(v, "reset")
  PROVE  TypeOK'
<1>1. CASE Connect(v)
  <2>1. CASE status[v] = "disconnected"
    <3>1. done' \in [Vdecs -> Nat]
      <4>1. done' = [done EXCEPT ![v] = 0] /\ done \in [Vdecs -> Nat]
        BY <1>1, <2>1 DEF Connect, TypeOK, Set
      <4>2. 0 \in Nat
        OBVIOUS
      <4> QED
        BY <4>1, <4>2, Zenon
    <3>2. /\ status' = [status EXCEPT ![v] = "connected"]
          /\ next' = [next EXCEPT ![v] = "connected"]
          /\ life' = [life EXCEPT ![v] = "linking"]
      BY <1>1, <2>1 DEF Connect, Set
    <3>3. /\ status' \in [Vdecs -> {"disconnected", "connected", "active"}]
          /\ next' \in [Vdecs -> {"disconnected", "connected"}]
      BY <3>2 DEF TypeOK
    <3>4. life' \in [Vdecs -> {"opened", "linking", "up", "reset", "release",
                               "leaving", "stopped", "freed"}]
      BY <3>2 DEF TypeOK
    <3>5. /\ UNCHANGED <<connected, disconnecting, granted, working, busy, active>>
          /\ UNCHANGED <<sem, thread, worker, ready, hw, timer, flag, work, wpc>>
      BY <1>1 DEF Connect, lists, masks, loop, driver
    <3> QED
      BY <3>1, <3>3, <3>4, <3>5 DEF TypeOK
  <2>2. CASE status[v] # "disconnected"
    BY <1>1, <2>2 DEF Connect, TypeOK, Set, lists, masks, loop, driver
  <2> QED
    BY <2>1, <2>2
<1>2. CASE Link(v)
  <2>1. connected' \in Seq(Vdecs)
    BY <1>2, AppendProperties DEF Link, TypeOK
  <2> QED
    BY <1>2, <2>1 DEF Link, TypeOK, Set, masks, loop, driver
<1>3. ASSUME NEW why \in {"reset", "release"}, Disconnect(v, why)
      PROVE  TypeOK'
  <2>1. next' \in [Vdecs -> {"disconnected", "connected"}]
    BY <1>3 DEF Disconnect, TypeOK, Set
  <2>2. life' \in [Vdecs -> {"opened", "linking", "up", "reset", "release",
                           "leaving", "stopped", "freed"}]
    <3>1. PICK s \in {"opened", "leaving", "reset", "release"} :
            life' = [life EXCEPT ![v] = s]
      BY <1>3 DEF Disconnect, Set
    <3> QED
      BY <3>1 DEF TypeOK
  <2>3. sem' \in BOOLEAN
    BY <1>3 DEF Disconnect, TypeOK
  <2>4. /\ UNCHANGED <<status, done, connected, disconnecting>>
        /\ UNCHANGED <<granted, working, busy, active, thread, worker, ready>>
        /\ UNCHANGED <<hw, timer, flag, work, wpc>>
    BY <1>3 DEF Disconnect, lists, masks, loop, driver
  <2> QED
    BY <2>1, <2>2, <2>3, <2>4 DEF TypeOK
<1>4. CASE Waited(v)
  <2>1. done' \in [Vdecs -> Nat]
    BY <1>4 DEF Waited, Completed, TypeOK, Set
  <2>2. life' \in [Vdecs -> {"opened", "linking", "up", "reset", "release",
                           "leaving", "stopped", "freed"}]
    BY <1>4 DEF Waited, TypeOK, Set
  <2>3. UNCHANGED <<status, next, lists, masks, sem, loop, ready, driver>>
    BY <1>4 DEF Waited
  <2> QED
    BY <2>1, <2>2, <2>3 DEF TypeOK, lists, masks, loop, driver
<1>5. CASE StopDriver(v)
  BY <1>5, FlaggedTyped DEF StopDriver, TypeOK, Set, lists, masks, loop
<1>6. CASE Destroy(v)
  BY <1>6 DEF Destroy, Cancelled, TypeOK, Set, lists, masks, loop
<1> QED
  BY <1>1, <1>2, <1>3, <1>4, <1>5, <1>6 DEF User

\* the steps of the driver of an instance
LEMMA DriverTyped ==
  ASSUME TypeOK, NEW v \in Vdecs,
         Feed(v) \/ Report(v) \/ ForceExit(v) \/ Worker(v)
  PROVE  TypeOK'
<1>1. CASE Feed(v)
  BY <1>1 DEF Feed, TypeOK, lists, masks, loop, driver
<1>2. CASE Report(v)
  BY <1>2 DEF Report, TypeOK, Set, lists, masks, loop
<1>3. CASE ForceExit(v)
  BY <1>3 DEF ForceExit, TypeOK, Set, lists, masks, loop
<1>4. CASE StartWork(v)
  <2>1. WorkSteps(v)[1] \in {"idle", "finish", "timer", "callback"}
    BY DEF WorkSteps
  <2> QED
    BY <1>4, <2>1 DEF StartWork, TypeOK, Set, lists, masks, loop
<1>5. CASE FinishRun(v)
  BY <1>5, AfterTyped DEF FinishRun, FinishStatus, TypeOK, Set, lists, loop
<1>6. CASE DelTimer(v)
  <2>1. timer' \in [Vdecs -> BOOLEAN]
    BY <1>6, FlaggedTyped DEF DelTimer, TypeOK, Set
  <2>2. flag' \in [Vdecs -> BOOLEAN]
    BY <1>6 DEF DelTimer, TypeOK, Set
  <2>3. wpc' \in [Vdecs -> {"idle", "finish", "timer", "callback"}]
    BY <1>6, AfterTyped DEF DelTimer, TypeOK, Set
  <2> QED
    BY <1>6, <2>1, <2>2, <2>3 DEF DelTimer, TypeOK, lists, masks, loop
<1>7. CASE Callback(v)
  BY <1>7 DEF Callback, Up, TypeOK, Set, lists, masks, loop
<1> QED
  BY <1>1, <1>2, <1>3, <1>4, <1>5, <1>6, <1>7 DEF Worker

LEMMA StepTyped ==
  ASSUME TypeOK, [Next]_vars
  PROVE  TypeOK'
<1>1. CASE Core
  BY <1>1, CoreTyped
<1>2. ASSUME NEW v \in Vdecs,
             \/ Connect(v) \/ User(v)
             \/ Disconnect(v, "release") \/ Disconnect(v, "reset")
      PROVE  TypeOK'
  BY <1>2, UserTyped
<1>3. ASSUME NEW v \in Vdecs, Feed(v) \/ Report(v) \/ ForceExit(v) \/ Worker(v)
      PROVE  TypeOK'
  BY <1>3, DriverTyped
<1>4. CASE UNCHANGED vars
  BY <1>4 DEF vars, TypeOK
<1> QED
  BY <1>1, <1>2, <1>3, <1>4 DEF Next

\* The lists, masks and statuses of the scheduler keep their types in every
\* interleaving of the core thread, the users and the drivers.
THEOREM TypeCorrect == Spec => []TypeOK
<1>1. Init => TypeOK
  BY InitTyped DEF IInv
<1>2. TypeOK /\ [Next]_vars => TypeOK'
  BY StepTyped
<1> QED
  BY <1>1, <1>2, PTL DEF Spec

\* A core is granted to at most one instance at a time, and vdec_core's
\* sched_mask says exactly which cores are granted: for any number of
\* instances, with resets, timeouts and either order of the work function.
THEOREM CoresAreOwned == Spec => []CoresOwned
<1>1. Init => IInv
  BY InitTyped
<1>2. IInv /\ [Next]_vars => IInv'
  BY StepTyped, StepOwned DEF IInv
<1>3. IInv => CoresOwned
  BY DEF IInv
<1> QED
  BY <1>1, <1>2, <1>3, PTL DEF Spec

=============================================================================
