------------------------------ MODULE VdecCore ------------------------------
(***************************************************************************)
(* The scheduler of the decoders that share the hardware (utils/vdec.c,    *)
(* vdec_core_thread) and the life of a decoder instance around it: it is   *)
(* connected, elected, run, gives its cores back from a work item, is      *)
(* disconnected on request, and reset or released.                         *)
(*                                                                         *)
(* Besides the core thread there are, for each instance, the user thread   *)
(* that opens and closes it, its work item, its check timer and the        *)
(* hardware.  The two halves of a work item and of a disconnect are steps  *)
(* of their own, for the thread and the timer run in between.              *)
(*                                                                         *)
(* Every decoder of the tree asks for its cores with CORE_MASK_COMBINE, so *)
(* they are granted and returned together.  Dual (master and slave)        *)
(* instances are left out.  The semaphore is told only whether it is up:   *)
(* one turn of the loop looks at everything that a second turn would.      *)
(***************************************************************************)
EXTENDS Naturals, Sequences, FiniteSets, SequencesExt

CONSTANTS
  Vdecs,      \* the instances
  Cores,      \* the cores of the hardware
  Needs,      \* core_mask of an instance
  LateTimer,  \* instances of vmpeg12_multi, which stop their timer late
  NoVdec,     \* NULL
  FlagsTimer, \* instances of vh265: each run sets STAT_TIMER_ARM again
  Resets,     \* instances that may be reset: vh265, whose reset does nothing
  TimesOut    \* instances whose disconnect may last longer than two seconds

ASSUME CoreConstants ==
  /\ Needs \in [Vdecs -> SUBSET Cores]
  /\ \A v \in Vdecs : Needs[v] # {}
  /\ LateTimer \subseteq Vdecs
  /\ NoVdec \notin Vdecs
  /\ FlagsTimer \subseteq Vdecs \ LateTimer
  /\ Resets \subseteq FlagsTimer /\ TimesOut \subseteq Vdecs

VARIABLES
  life,           \* where the user thread of an instance is
  status, next,   \* vdec_s.status and next_status
  done,           \* inactive_done: the completions not yet waited for
  connected,      \* connected_vdec_list
  disconnecting,  \* disconnecting_list, private to the thread
  granted,        \* vdec_s.sched_mask
  working,        \* vdec_s.active_mask
  busy,           \* vdec_core_s.sched_mask
  active,         \* active_vdec
  sem,            \* is the semaphore up?
  thread,         \* where the core thread is
  worker,         \* the instance elected in this turn
  ready,          \* instances that run_ready would let run
  hw,             \* the hardware decodes for it and has not reported
  timer,          \* its check timer is pending
  flag,           \* STAT_TIMER_ARM
  work,           \* its work item is queued
  wpc             \* where its work function is

vars == <<life, status, next, done, connected, disconnecting, granted, working,
          busy, active, sem, thread, worker, ready, hw, timer, flag, work, wpc>>
lists == <<connected, disconnecting>>
masks == <<granted, working, busy, active>>
loop == <<thread, worker>>
driver == <<hw, timer, flag, work, wpc>>

Listed == Range(connected)
Set(f, v, x) == [f EXCEPT ![v] = x]

Init ==
  /\ life = [v \in Vdecs |-> "opened"]
  /\ status = [v \in Vdecs |-> "disconnected"]
  /\ next = [v \in Vdecs |-> "disconnected"]
  /\ done = [v \in Vdecs |-> 0]
  /\ connected = <<>> /\ disconnecting = {}
  /\ granted = [v \in Vdecs |-> {}] /\ working = [v \in Vdecs |-> {}]
  /\ busy = {} /\ active = NoVdec
  /\ sem = FALSE /\ thread = "down" /\ worker = NoVdec
  /\ ready = {}
  /\ hw = [v \in Vdecs |-> FALSE] /\ timer = [v \in Vdecs |-> FALSE]
  /\ flag = [v \in Vdecs |-> TRUE]
  /\ work = [v \in Vdecs |-> FALSE] /\ wpc = [v \in Vdecs |-> "idle"]

----------------------------------------------------------------------------
(* The user thread.                                                        *)

\* vdec_connect: an instance that is not disconnected is left alone
Connect(v) ==
  /\ life[v] = "opened"
  /\ IF status[v] = "disconnected"
     THEN /\ status' = Set(status, v, "connected")
          /\ next' = Set(next, v, "connected")
          /\ done' = Set(done, v, 0)
          /\ life' = Set(life, v, "linking")
     ELSE life' = Set(life, v, "up") /\ UNCHANGED <<status, next, done>>
  /\ UNCHANGED <<lists, masks, sem, loop, ready, driver>>

\* and its second half, under the lock of the list
Link(v) ==
  /\ life[v] = "linking"
  /\ connected' = Append(connected, v)
  /\ sem' = TRUE
  /\ life' = Set(life, v, "up")
  /\ UNCHANGED <<status, next, done, disconnecting, masks, loop, ready, driver>>

\* vdec_disconnect, called by vdec_release and vdec_reset (why): asks the core
\* thread, unless the instance is disconnected already
Disconnect(v, why) ==
  /\ life[v] = "up"
  /\ IF status[v] \in {"connected", "active"}
     THEN /\ next' = Set(next, v, "disconnected")
          /\ sem' = TRUE
          /\ life' = Set(life, v, why)
     ELSE /\ life' = Set(life, v, IF why = "reset" THEN "opened" ELSE "leaving")
          /\ UNCHANGED <<next, sem>>
  /\ UNCHANGED <<status, done, lists, masks, loop, ready, driver>>

CompletedUnchecked(v) == TRUE
Completed(v) == done[v] > 0

\* The wait for inactive_done ends, or times out, which is logged only; a
\* reset then connects the instance again, a release goes on to the driver.
Waited(v) ==
  /\ life[v] \in {"reset", "release"}
  /\ \/ Completed(v) /\ done' = Set(done, v, done[v] - 1)
     \/ ~Completed(v) /\ v \in TimesOut /\ done' = done
  /\ life' = Set(life, v, IF life[v] = "reset" THEN "opened" ELSE "leaving")
  /\ UNCHANGED <<status, next, lists, masks, sem, loop, ready, driver>>

\* the timer without v's, if STAT_TIMER_ARM is believed
FlaggedStop(v) == IF flag[v] THEN Set(timer, v, FALSE) ELSE timer

\* The driver's remove, first half: the hardware is stopped, and the timer if
\* STAT_TIMER_ARM is set, which the work clears and only vh265 sets again.
StopDriver(v) ==
  /\ life[v] = "leaving"
  /\ life' = Set(life, v, "stopped")
  /\ hw' = Set(hw, v, FALSE)
  /\ timer' = FlaggedStop(v)
  /\ flag' = Set(flag, v, FALSE)
  /\ UNCHANGED <<status, next, done, lists, masks, sem, loop, ready, work, wpc>>

CancelledNot(v) == work
Cancelled(v) == Set(work, v, FALSE)

\* The second half, up to vdec_destroy: cancel_work_sync waits for the work
\* that runs, the status is set, and the instance is freed.
Destroy(v) ==
  /\ life[v] = "stopped"
  /\ wpc[v] = "idle"
  /\ work' = Cancelled(v)
  /\ status' = Set(status, v, "disconnected")
  /\ life' = Set(life, v, "freed")
  /\ UNCHANGED <<next, done, lists, masks, sem, loop, ready, hw, timer, flag, wpc>>

----------------------------------------------------------------------------
(* vdec_core_thread.                                                       *)

GivesBackAll(v) == granted[v]
\* the cores an instance was granted and works with no more
GivesBack(v) == granted[v] \ working[v]

\* the instances the thread takes off the list in this turn
LeavingAny(v) == next[v] = "disconnected"
Leaving(v) == status[v] = "connected" /\ next[v] = "disconnected"

\* the list s without the members of out, in the same order (one such list)
Remaining(s, out) ==
  {r \in SeqOf(Vdecs, Len(s)) :
     /\ Range(r) = Range(s) \ out
     /\ \A i, j \in DOMAIN r : i < j =>
          \E k, l \in DOMAIN s : k < l /\ r[i] = s[k] /\ r[j] = s[l]}

\* A turn begins, under vdec_mutex: the cores that were given back are free,
\* and the instances that shall and can be disconnected leave the list.
Clean ==
  LET out == {v \in Listed : Leaving(v)}
      back == UNION {GivesBack(v) : v \in Listed} IN
  /\ thread = "down" /\ sem
  /\ sem' = FALSE
  /\ granted' = [v \in Vdecs |-> IF v \in Listed THEN granted[v] \ GivesBack(v)
                                 ELSE granted[v]]
  /\ busy' = busy \ back
  /\ active' = IF active \in out THEN NoVdec ELSE active
  /\ connected' \in Remaining(connected, out)
  /\ disconnecting' = out
  /\ thread' = "elect"
  /\ UNCHANGED <<life, status, next, done, working, worker, ready, driver>>

\* vdec_schedule_mask and vdec_ready_to_run
RunnableBusy(v) == status[v] \in {"connected", "active"} /\ v \in ready
Runnable(v) == /\ Needs[v] \cap busy = {}
               /\ status[v] \in {"connected", "active"}
               /\ v \in ready

\* the list in the order of election: from the one after active_vdec, round
ListOrder == connected
ElectionOrder ==
  IF active \notin Listed THEN connected
  ELSE LET k == CHOOSE i \in DOMAIN connected : connected[i] = active
       IN SubSeq(connected, k + 1, Len(connected)) \o SubSeq(connected, 1, k)

\* The election, without the mutex: the first in that order that can run.
Elect ==
  /\ thread = "elect"
  /\ \/ /\ \A v \in Listed : ~Runnable(v)
        /\ worker' = NoVdec
        /\ thread' = "clear"
        /\ UNCHANGED <<status, masks>>
     \/ \E i \in DOMAIN ElectionOrder :
          LET v == ElectionOrder[i] IN
          /\ Runnable(v)
          /\ \A j \in 1..(i - 1) : ~Runnable(ElectionOrder[j])
          /\ worker' = v
          /\ working' = Set(working, v, working[v] \cup Needs[v])
          /\ granted' = Set(granted, v, granted[v] \cup Needs[v])
          /\ busy' = busy \cup Needs[v]
          /\ status' = Set(status, v, "active")
          /\ active' = v
          /\ thread' = "run"
  /\ UNCHANGED <<life, next, done, lists, sem, ready, driver>>

\* vdec->run: the hardware and the timer are started, or the work item is
\* queued at once because the input or the firmware failed
Run ==
  /\ thread = "run"
  /\ \/ /\ hw' = Set(hw, worker, TRUE)
        /\ timer' = Set(timer, worker, TRUE)
        /\ flag' = IF worker \in FlagsTimer THEN Set(flag, worker, TRUE) ELSE flag
        /\ work' = work
     \/ /\ work' = Set(work, worker, TRUE)
        /\ UNCHANGED <<hw, timer, flag>>
  /\ sem' = TRUE
  /\ thread' = "clear"
  /\ UNCHANGED <<life, status, next, done, lists, masks, worker, ready, wpc>>

\* does the thread wake itself when it found nothing to do?
Idling == worker = NoVdec /\ busy = {} /\ \E v \in Vdecs : life[v] # "freed"

\* the instances whose disconnection is completed in this turn
CompletingAll == {v \in Vdecs : next[v] = "disconnected"}
Completing == disconnecting

\* The turn ends: the waiters are told, and an idle thread comes back soon.
Clear ==
  /\ thread = "clear"
  /\ status' = [v \in Vdecs |-> IF v \in Completing THEN "disconnected"
                                ELSE status[v]]
  /\ done' = [v \in Vdecs |-> IF v \in Completing THEN done[v] + 1 ELSE done[v]]
  /\ disconnecting' = {}
  /\ sem' = (sem \/ Idling)
  /\ thread' = "down"
  /\ worker' = NoVdec
  /\ UNCHANGED <<life, next, connected, masks, ready, driver>>

----------------------------------------------------------------------------
(* The driver of an instance: interrupt, timer, and work item.             *)

\* input arrives or is used up, buffers are taken or returned
Feed(v) ==
  /\ life[v] # "freed"
  /\ ready' = IF v \in ready THEN ready \ {v} ELSE ready \cup {v}
  /\ UNCHANGED <<life, status, next, done, lists, masks, sem, loop, driver>>

\* the interrupt that ends a run, or the timer that finds it took too long
Report(v) ==
  /\ hw[v]
  /\ hw' = Set(hw, v, FALSE)
  /\ work' = Set(work, v, TRUE)
  /\ UNCHANGED <<life, status, next, done, lists, masks, sem, loop, ready,
                 timer, flag, wpc>>

\* check_timer_func of an instance that is asked to disconnect
ForceExit(v) ==
  /\ timer[v]
  /\ next[v] = "disconnected"
  /\ timer' = Set(timer, v, FALSE)
  /\ work' = Set(work, v, TRUE)
  /\ UNCHANGED <<life, status, next, done, lists, masks, sem, loop, ready,
                 hw, flag, wpc>>

\* The steps of the work function in order: vh265 and vmh264 stop the timer
\* before they give the cores back, vmpeg12_multi after.
WorkStepsLate(v) == <<"finish", "timer", "callback", "idle">>
WorkSteps(v) == IF v \in LateTimer THEN <<"finish", "timer", "callback", "idle">>
                ELSE <<"timer", "finish", "callback", "idle">>
After(v, step) == LET k == CHOOSE i \in 1..4 : WorkSteps(v)[i] = step
                  IN WorkSteps(v)[k + 1]

\* the work item is taken up and stops the hardware
StartWork(v) ==
  /\ work[v] /\ wpc[v] = "idle"
  /\ work' = Set(work, v, FALSE)
  /\ hw' = Set(hw, v, FALSE)
  /\ wpc' = Set(wpc, v, WorkSteps(v)[1])
  /\ UNCHANGED <<life, status, next, done, lists, masks, sem, loop, ready,
                 timer, flag>>

\* vdec_core_finish_run
FinishStatus(v) == Set(status, v, "connected")
FinishRun(v) ==
  /\ wpc[v] = "finish"
  /\ working' = Set(working, v, {})
  /\ status' = FinishStatus(v)
  /\ wpc' = Set(wpc, v, After(v, "finish"))
  /\ UNCHANGED <<life, next, done, lists, granted, busy, active, sem, loop, ready,
                 hw, timer, flag, work>>

DelTimer(v) ==
  /\ wpc[v] = "timer"
  /\ timer' = IF v \in FlagsTimer THEN FlaggedStop(v) ELSE Set(timer, v, FALSE)
  /\ flag' = Set(flag, v, FALSE)
  /\ wpc' = Set(wpc, v, After(v, "timer"))
  /\ UNCHANGED <<life, status, next, done, lists, masks, sem, loop, ready, hw, work>>

\* vdec_callback: up
UpForgotten == sem
Up == TRUE
Callback(v) ==
  /\ wpc[v] = "callback"
  /\ sem' = Up
  /\ wpc' = Set(wpc, v, "idle")
  /\ UNCHANGED <<life, status, next, done, lists, masks, loop, ready,
                 hw, timer, flag, work>>

----------------------------------------------------------------------------
User(v) == Link(v) \/ Waited(v) \/ StopDriver(v) \/ Destroy(v)
Core == Clean \/ Elect \/ Run \/ Clear
Worker(v) == StartWork(v) \/ FinishRun(v) \/ DelTimer(v) \/ Callback(v)

Next ==
  \/ \E v \in Vdecs :
       \/ Connect(v) \/ User(v)
       \/ Disconnect(v, "release")
       \/ v \in Resets /\ Disconnect(v, "reset")
       \/ Feed(v) \/ Report(v) \/ ForceExit(v) \/ Worker(v)
  \/ Core

Spec == Init /\ [][Next]_vars

\* The core thread has the highest real-time priority, the worker and a user
\* inside a call are scheduled, and a pending timer fires.
FairSpec ==
  /\ Spec
  /\ WF_vars(Core)
  /\ \A v \in Vdecs : WF_vars(User(v)) /\ WF_vars(Worker(v)) /\ WF_vars(ForceExit(v))

\* the hardware, or the decode timeout, ends every run
Answers == \A v \in Vdecs : WF_vars(Report(v))

----------------------------------------------------------------------------
(* Properties.                                                             *)

TypeOK ==
  /\ life \in [Vdecs -> {"opened", "linking", "up", "reset", "release",
                         "leaving", "stopped", "freed"}]
  /\ status \in [Vdecs -> {"disconnected", "connected", "active"}]
  /\ next \in [Vdecs -> {"disconnected", "connected"}]
  /\ done \in [Vdecs -> Nat]
  /\ connected \in Seq(Vdecs) /\ disconnecting \subseteq Vdecs
  /\ granted \in [Vdecs -> SUBSET Cores] /\ working \in [Vdecs -> SUBSET Cores]
  /\ busy \subseteq Cores
  /\ active \in Vdecs \cup {NoVdec} /\ worker \in Vdecs \cup {NoVdec}
  /\ sem \in BOOLEAN
  /\ thread \in {"down", "elect", "run", "clear"}
  /\ ready \subseteq Vdecs
  /\ hw \in [Vdecs -> BOOLEAN] /\ timer \in [Vdecs -> BOOLEAN]
  /\ flag \in [Vdecs -> BOOLEAN]
  /\ work \in [Vdecs -> BOOLEAN]
  /\ wpc \in [Vdecs -> {"idle", "finish", "timer", "callback"}]

\* A core is granted to one instance at a time, and the thread's own mask says
\* exactly which are granted, although they are given back elsewhere.
CoresOwned ==
  /\ \A v, w \in Vdecs : v # w => granted[v] \cap granted[w] = {}
  /\ busy = UNION {granted[v] : v \in Vdecs}

\* The hardware decodes only for an instance that holds all cores it needs.
DecodesOnGranted ==
  \A v \in Vdecs : hw[v] => Needs[v] \subseteq granted[v] \cap working[v]

\* "When a vdec is added into the active list, it can only be in two status:
\* VDEC_STATUS_CONNECTED [...] VDEC_STATUS_ACTIVE."
ListedStatus == \A v \in Listed : status[v] \in {"connected", "active"}

\* An instance whose disconnect returned is off the list, holds no core and
\* has nothing on the hardware: the driver may be removed and the memory freed.
DisconnectedIsQuiet ==
  \A v \in Vdecs : life[v] \in {"leaving", "stopped", "freed"} =>
    /\ v \notin Listed \cup {active}
    /\ granted[v] = {} /\ ~hw[v]

\* Nothing of an instance is left to run once its memory is freed: no timer is
\* pending, no work is queued or running, and the list does not lead to it.
FreedIsStopped ==
  \A v \in Vdecs : life[v] = "freed" =>
    ~timer[v] /\ ~work[v] /\ wpc[v] = "idle" /\ v \notin Listed

\* "Currently we rely on the decoder instance to go back to
\* VDEC_STATUS_CONNECTED from VDEC_STATUS_ACTIVE by its own" when the system
\* side wants to stop it, even if the hardware never answers again.
ComesBack ==
  \A v \in Vdecs :
    (status[v] = "active" /\ next[v] = "disconnected") ~> status[v] # "active"

\* vdec_release ends, whatever the hardware and the other instances do.
ReleaseEnds == \A v \in Vdecs : life[v] = "release" ~> life[v] = "freed"

\* On hardware that answers, an instance that stays ready is run, however many
\* others are ready too.
NotStarved ==
  Answers => \A v \in Vdecs :
    (v \in Listed /\ v \in ready) ~> (granted[v] # {} \/ v \notin ready
                                     \/ next[v] = "disconnected")

=============================================================================
