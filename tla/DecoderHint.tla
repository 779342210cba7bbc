----------------------------- MODULE DecoderHint -----------------------------
(***************************************************************************)
(* How a decoder that runs alone (vmpeg12.c, vmpeg4.c, avs.c, vh264.c,     *)
(* vvc1.c in the afr tree) tells its receiver the frame rate: from its     *)
(* probe, from a work item that the interrupt handler or the recycle timer *)
(* queues, and how it tells the end from its remove.                       *)
(*                                                                         *)
(* Three threads run here: the one that probes and removes the device, the *)
(* interrupt of the hardware, and the worker.  A rate is the duration of a *)
(* frame, 0 when it is not known.  is_reset is cleared by every probe      *)
(* before it is read, so it does not appear.                               *)
(***************************************************************************)
EXTENDS Naturals, Sequences

CONSTANTS
  Decoders,     \* the decoders one of which is looked at
  Rates,        \* the frame durations a stream may have
  EsRates,      \* what the container says of them: dec_sysinfo.rate
  Early,        \* those that may meet a picture or a tick before probe ends
  Quiet         \* does the stream stop before the device is removed?

ASSUME HintConstants ==
  /\ Decoders \subseteq {"vmpeg12", "vmpeg4", "vavs", "vh264", "vvc1"}
  /\ Rates \subseteq Nat \ {0}
  /\ EsRates \subseteq Rates \cup {0}
  /\ Early \subseteq Decoders
  /\ Quiet \in BOOLEAN

VARIABLES
  dec,      \* which decoder it is
  pos,      \* where the probing and removing thread is in Program
  running,  \* amvdec_start was called and amvdec_stop was not
  armed,    \* recycle_timer is pending
  winit,    \* the work item was initialised
  queued,   \* the work item is queued
  wpc,      \* the worker: "idle", or "mark" between the hint and the status
  status,   \* fr_hint_status
  es,       \* dec_sysinfo.rate
  dur,      \* frame_dur
  saved,    \* saved_frame_dur (vvc1)
  sure,     \* frm.state is RATE_MEASURE_DONE (vvc1)
  told,     \* the hint the receiver has, 0 for none
  broken    \* the work item was queued or initialised out of turn

vars == <<dec, pos, running, armed, winit, queued, wpc, status, es, dur,
          saved, sure, told, broken>>
worker == <<winit, queued, wpc, broken>>
stream == <<es, dur, saved, sure>>

----------------------------------------------------------------------------
(* The order of the calls in probe and remove.                             *)

ProbeStepsLate == <<"hint", "start", "init_work">>
\* INIT_WORK comes after xxx_init, which starts the hardware, except in vmpeg4
ProbeSteps == IF dec = "vmpeg4" THEN <<"init_work", "hint", "start">>
              ELSE <<"hint", "start", "init_work">>

\* vmpeg4 cancels its work last, the others first
RemoveSteps ==
  IF dec = "vmpeg4" THEN <<"stop", "del_timer", "end", "no_need", "cancel">>
  ELSE <<"cancel", "stop", "del_timer", "end", "no_need">>

Program == <<"off">> \o ProbeSteps \o <<"play">> \o RemoveSteps

At(step) == Program[pos] = step
AdvanceOn == pos' = pos + 1
Advance == pos' = IF pos = Len(Program) THEN 1 ELSE pos + 1
Probing == pos \in 2..4
Removing == pos > 5

\* schedule_work on the item; one that was never initialised breaks the queue
Schedule == queued' = TRUE /\ broken' = (broken \/ ~winit)

Init ==
  /\ dec \in Decoders
  /\ pos = 1
  /\ running = FALSE /\ armed = FALSE
  /\ winit = FALSE /\ queued = FALSE /\ wpc = "idle"
  /\ status = "no_need"
  /\ es = 0 /\ dur = 0 /\ saved = 0 /\ sure = FALSE
  /\ told = 0
  /\ broken = FALSE

----------------------------------------------------------------------------
(* Probe.                                                                  *)

\* A video starts: the probe copies the container's rate and xxx_local_init
\* forgets what the last video left; vh264 starts from the container's rate.
Open ==
  /\ At("off")
  /\ es' \in EsRates
  /\ dur' = IF dec \in {"vh264", "vmpeg4"} THEN es' ELSE 0
  /\ saved' = 0 /\ sure' = FALSE
  /\ Advance
  /\ UNCHANGED <<dec, running, armed, worker, status, told>>

\* INIT_WORK on an item that is still queued corrupts the work list.
InitWork ==
  /\ At("init_work")
  /\ winit' = TRUE
  /\ broken' = (broken \/ queued)
  /\ Advance
  /\ UNCHANGED <<dec, running, armed, queued, wpc, status, stream, told>>

FirstStatusForgotten == "need_hint"
FirstStatus == IF es # 0 THEN "hinted" ELSE "need_hint"

\* xxx_init registers the provider and tells the container's rate, if there
\* is one, to the receiver.
FirstHint ==
  /\ At("hint")
  /\ told' = IF es # 0 THEN es ELSE told
  /\ status' = FirstStatus
  /\ Advance
  /\ UNCHANGED <<dec, running, armed, worker, stream>>

\* the end of xxx_init: the timer is armed and the hardware runs
StartDecoder ==
  /\ At("start")
  /\ running' = TRUE
  /\ armed' = TRUE
  /\ Advance
  /\ UNCHANGED <<dec, worker, status, stream, told>>

----------------------------------------------------------------------------
(* The interrupt and the timer.                                            *)

\* when a picture or a tick may come
Eventful == /\ Probing => dec \in Early
            /\ Removing => ~Quiet

\* The decoders' tests for a frame rate worth telling: vmpeg12 looks at its
\* first picture, vavs at each one, vmpeg4 when the container said nothing,
\* vh264 when the sequence header differs from (half) what it has.
News(r) ==
  \/ dec = "vmpeg12" /\ dur = 0
  \/ dec = "vavs"
  \/ dec = "vmpeg4" /\ es = 0
  \/ dec = "vh264" /\ dur * 2 # r

\* fr_hint_status as the handler leaves it; it is the work that marks it hinted
NewsStatusHinted == "hinted"
NewsStatus == "need_hint"

\* The interrupt handler meets a picture of rate r.
Picture(r) ==
  /\ running
  /\ Eventful
  /\ News(r)
  /\ dur' = r
  /\ es' = IF dec = "vmpeg4" THEN r ELSE es
  /\ status' = NewsStatus
  /\ Schedule
  /\ UNCHANGED <<dec, pos, running, armed, winit, wpc, saved, sure, told>>

\* vh264 also corrects its duration from the time stamps, and tells nobody.
Correct(r) ==
  /\ running
  /\ Eventful
  /\ dec = "vh264"
  /\ dur' = r
  /\ UNCHANGED <<dec, pos, running, armed, worker, status, es, saved, sure, told>>

\* vvc1_isr: the rate is measured until it is sure, and the picture's duration
\* is whatever the rate then is.
PictureVc1(r) ==
  /\ running
  /\ Eventful
  /\ dec = "vvc1"
  /\ \/ es # 0 /\ es' = es /\ sure' \in BOOLEAN /\ (sure => sure')
     \/ es = 0 /\ es' \in {0, r} /\ sure' = sure
     \/ ~sure /\ es # 0 /\ es' = r /\ sure' = TRUE
  /\ dur' = es'
  /\ UNCHANGED <<dec, pos, running, armed, worker, status, saved, told>>

\* vvc1_put_timer_func: a decoder that lost its way is restarted, by way of
\* vvc1_local_init (what it does to the frames is in Vvc1Frames);
\* then set_clk_work is queued and the timer armed again.
Tick ==
  /\ armed
  /\ Eventful
  /\ dec = "vvc1"
  /\ \/ UNCHANGED <<dur, saved, sure>>
     \/ dur' = 0 /\ saved' = 0 /\ sure' = FALSE
  /\ Schedule
  /\ UNCHANGED <<dec, pos, running, armed, winit, wpc, status, es, told>>

----------------------------------------------------------------------------
(* The worker.                                                             *)

\* xxx_notify_work, and vvc1_set_clk, which looks for a changed duration
MustTell == IF dec = "vvc1" THEN dur > 0 /\ saved # dur ELSE status = "need_hint"

\* what the worker hands to the receiver
ToldNow == IF dec = "vmpeg4" THEN es ELSE dur

\* The worker takes the item off the queue and tells the rate.
Work ==
  /\ queued /\ wpc = "idle"
  /\ queued' = FALSE
  /\ IF MustTell
     THEN /\ told' = ToldNow
          /\ saved' = IF dec = "vvc1" THEN dur ELSE saved
          /\ wpc' = "mark"
     ELSE UNCHANGED <<told, saved, wpc>>
  /\ UNCHANGED <<dec, pos, running, armed, winit, broken, status, es, dur, sure>>

\* fr_hint_status = VDEC_HINTED, whatever became of it meanwhile
Mark ==
  /\ wpc = "mark"
  /\ wpc' = "idle"
  /\ status' = "hinted"
  /\ UNCHANGED <<dec, pos, running, armed, winit, queued, broken, stream, told>>

----------------------------------------------------------------------------
(* Remove.                                                                 *)

\* The device is removed.  A quiet stream has its last hint told by then.
Close ==
  /\ At("play")
  /\ Quiet => ~queued /\ wpc = "idle"
  /\ Advance
  /\ UNCHANGED <<dec, running, armed, worker, status, stream, told>>

\* cancel_work_sync waits for the work that runs
CancelWork ==
  /\ At("cancel")
  /\ wpc = "idle"
  /\ queued' = FALSE
  /\ Advance
  /\ UNCHANGED <<dec, running, armed, winit, wpc, broken, status, stream, told>>

StopDecoder ==
  /\ At("stop")
  /\ running' = FALSE
  /\ Advance
  /\ UNCHANGED <<dec, armed, worker, status, stream, told>>

DelTimer ==
  /\ At("del_timer")
  /\ armed' = FALSE
  /\ Advance
  /\ UNCHANGED <<dec, running, worker, status, stream, told>>

\* the end is told when the status says that a hint was
EndHint ==
  /\ At("end")
  /\ told' = IF status = "hinted" THEN 0 ELSE told
  /\ Advance
  /\ UNCHANGED <<dec, running, armed, worker, status, stream>>

NoNeedHint ==
  /\ At("no_need")
  /\ status' = "no_need"
  /\ Advance
  /\ UNCHANGED <<dec, running, armed, worker, stream, told>>

Thread == \/ InitWork \/ FirstHint \/ StartDecoder
          \/ CancelWork \/ StopDecoder \/ DelTimer \/ EndHint \/ NoNeedHint

Events == \/ \E r \in Rates : Picture(r) \/ Correct(r) \/ PictureVc1(r)
          \/ Tick

Worker == Work \/ Mark

Next == Open \/ Close \/ Thread \/ Events \/ Worker

Spec == Init /\ [][Next]_vars

\* The thread and the worker are run by the scheduler, the timer arms itself
\* again, and pictures keep coming while the stream plays.
FairSpec == /\ Spec
            /\ WF_vars(Thread)
            /\ WF_vars(Worker)
            /\ WF_vars(Tick)
            /\ \A r \in Rates : WF_vars(dur = r /\ Picture(r))

----------------------------------------------------------------------------
(* Properties.                                                             *)

TypeOK ==
  /\ dec \in Decoders
  /\ pos \in 1..10
  /\ running \in BOOLEAN /\ armed \in BOOLEAN
  /\ winit \in BOOLEAN /\ queued \in BOOLEAN /\ broken \in BOOLEAN
  /\ wpc \in {"idle", "mark"}
  /\ status \in {"no_need", "need_hint", "hinted"}
  /\ es \in Rates \cup {0} /\ dur \in Rates \cup {0} /\ saved \in Rates \cup {0}
  /\ sure \in BOOLEAN
  /\ told \in Rates \cup {0}

\* the steps of the video between Open and the end of EndHint
Playing == pos # 1 /\ ~At("no_need") /\ ~(dec = "vmpeg4" /\ At("cancel"))

\* The decoder keeps the promise of HintSession: no rate is told before a video
\* starts or after its end was told, and the end is told if a rate was.
Session == INSTANCE HintSession WITH playing <- Playing
SessionSpec == Session!Spec

\* The work item is never queued before INIT_WORK and never initialised while
\* it is queued, from one video to the next.
WorkIntact == ~broken

\* When the device is gone no rate is in force: "notify" broadcasts tell the
\* daemon of the start and of the finish of every video.
SilentWhenOff == At("off") => told = 0

\* The rate the decoder works with is told to the receiver while it plays:
\* a rate that arrives while the worker tells the one before is not lost.
\* (vh264 corrects its rate without telling; after WorkIntact is lost nothing
\* is known of the worker.)
RateIsTold ==
  \A r \in Rates :
    (At("play") /\ dur = r /\ dec # "vh264")
      ~> (told = r \/ dur # r \/ ~At("play") \/ broken)

=============================================================================
