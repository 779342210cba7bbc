-------------------------- MODULE DecoderHintProofs --------------------------
(***************************************************************************)
(* Theorems about the rate notification of the single-instance decoders,   *)
(* for any set of them and any rates: a decoder whose stream stops before  *)
(* its device is removed keeps the promise of HintSession, and its work    *)
(* item is never misused.                                                  *)
(***************************************************************************)
EXTENDS DecoderHint, SequenceTheorems, TLAPS

\* The program of the probing thread, put together from its three parts.
LEMMA JoinProbe ==
  ASSUME NEW a, NEW b, NEW c, NEW d
  PROVE  <<a>> \o <<b, c, d>> = <<a, b, c, d>>
<1> DEFINE S == {a, b, c, d}
           x == <<a>>
           y == <<b, c, d>>
           z == <<a, b, c, d>>
           w == x \o y
<1>1. x \in Seq(S) /\ y \in Seq(S) /\ z \in Seq(S)
  OBVIOUS
<1>2. Len(x) = 1 /\ Len(y) = 3 /\ Len(z) = 4
  OBVIOUS
<1>3. w \in Seq(S) /\ Len(w) = 4
  BY <1>1, <1>2, ConcatProperties
<1>4. \A n \in 1..4 : w[n] = IF n <= 1 THEN x[n] ELSE y[n - 1]
  BY <1>1, <1>2, ConcatProperties
<1>5. \A n \in 1..4 : w[n] = z[n]
  BY <1>4
<1> QED BY <1>1, <1>2, <1>3, <1>5, SeqEqual

\* The second part.
LEMMA JoinPlay ==
  ASSUME NEW a, NEW b, NEW c, NEW d, NEW e
  PROVE  <<a, b, c, d>> \o <<e>> = <<a, b, c, d, e>>
<1> DEFINE S == {a, b, c, d, e}
           x == <<a, b, c, d>>
           y == <<e>>
           z == <<a, b, c, d, e>>
           w == x \o y
<1>1. x \in Seq(S) /\ y \in Seq(S) /\ z \in Seq(S)
  OBVIOUS
<1>2. Len(x) = 4 /\ Len(y) = 1 /\ Len(z) = 5
  OBVIOUS
<1>3. w \in Seq(S) /\ Len(w) = 5
  BY <1>1, <1>2, ConcatProperties
<1>4. \A n \in 1..5 : w[n] = IF n <= 4 THEN x[n] ELSE y[n - 4]
  BY <1>1, <1>2, ConcatProperties
<1>5. \A n \in 1..5 : w[n] = z[n]
  BY <1>4
<1> QED BY <1>1, <1>2, <1>3, <1>5, SeqEqual

\* The third part.
LEMMA JoinRemove ==
  ASSUME NEW a, NEW b, NEW c, NEW d, NEW e, NEW f, NEW g, NEW h, NEW i, NEW j
  PROVE  <<a, b, c, d, e>> \o <<f, g, h, i, j>> = <<a, b, c, d, e, f, g, h, i, j>>
<1> DEFINE S == {a, b, c, d, e, f, g, h, i, j}
           x == <<a, b, c, d, e>>
           y == <<f, g, h, i, j>>
           z == <<a, b, c, d, e, f, g, h, i, j>>
           w == x \o y
<1>1. x \in Seq(S) /\ y \in Seq(S) /\ z \in Seq(S)
  OBVIOUS
<1>2. Len(x) = 5 /\ Len(y) = 5 /\ Len(z) = 10
  OBVIOUS
<1>3. w \in Seq(S) /\ Len(w) = 10
  BY <1>1, <1>2, ConcatProperties
<1>4. \A n \in 1..10 : w[n] = IF n <= 5 THEN x[n] ELSE y[n - 5]
  BY <1>1, <1>2, ConcatProperties
<1>5. \A n \in 1..10 : w[n] = z[n]
  BY <1>4
<1> QED BY <1>1, <1>2, <1>3, <1>5, SeqEqual

\* The two orders of calls, that of vmpeg4.c and that of the others.
LEMMA ProgramIs ==
  Program = IF dec = "vmpeg4"
            THEN <<"off", "init_work", "hint", "start", "play",
                   "stop", "del_timer", "end", "no_need", "cancel">>
            ELSE <<"off", "hint", "start", "init_work", "play",
                   "cancel", "stop", "del_timer", "end", "no_need">>
<1>1. CASE dec = "vmpeg4"
  <2>1. /\ ProbeSteps = <<"init_work", "hint", "start">>
        /\ RemoveSteps = <<"stop", "del_timer", "end", "no_need", "cancel">>
    BY <1>1 DEF ProbeSteps, RemoveSteps
  <2>2. <<"off">> \o ProbeSteps = <<"off", "init_work", "hint", "start">>
    BY <2>1, JoinProbe
  <2>3. <<"off">> \o ProbeSteps \o <<"play">>
          = <<"off", "init_work", "hint", "start", "play">>
    BY <2>2, JoinPlay
  <2>4. Program = <<"off", "init_work", "hint", "start", "play">> \o RemoveSteps
    BY <2>3 DEF Program
  <2> QED BY <1>1, <2>1, <2>4, JoinRemove
<1>2. CASE dec # "vmpeg4"
  <2>1. /\ ProbeSteps = <<"hint", "start", "init_work">>
        /\ RemoveSteps = <<"cancel", "stop", "del_timer", "end", "no_need">>
    BY <1>2 DEF ProbeSteps, RemoveSteps
  <2>2. <<"off">> \o ProbeSteps = <<"off", "hint", "start", "init_work">>
    BY <2>1, JoinProbe
  <2>3. <<"off">> \o ProbeSteps \o <<"play">>
          = <<"off", "hint", "start", "init_work", "play">>
    BY <2>2, JoinPlay
  <2>4. Program = <<"off", "hint", "start", "init_work", "play">> \o RemoveSteps
    BY <2>3 DEF Program
  <2> QED BY <1>2, <2>1, <2>4, JoinRemove
<1> QED BY <1>1, <1>2

\* the place of a call in vmpeg4 and in the others
Pos(four, others) == pos = IF dec = "vmpeg4" THEN four ELSE others

\* Which call is made at which place.
LEMMA AtIs ==
  ASSUME TypeOK
  PROVE  /\ At("off") <=> pos = 1
         /\ At("init_work") <=> Pos(2, 4)
         /\ At("hint") <=> Pos(3, 2)
         /\ At("start") <=> Pos(4, 3)
         /\ At("play") <=> pos = 5
         /\ At("stop") <=> Pos(6, 7)
         /\ At("del_timer") <=> Pos(7, 8)
         /\ At("end") <=> Pos(8, 9)
         /\ At("no_need") <=> Pos(9, 10)
         /\ At("cancel") <=> Pos(10, 6)
         /\ Advance => pos' = IF pos = 10 THEN 1 ELSE pos + 1
<1>1. pos \in 1..10 BY DEF TypeOK
<1>2. CASE dec = "vmpeg4"
  <2>1. Program = <<"off", "init_work", "hint", "start", "play",
                   "stop", "del_timer", "end", "no_need", "cancel">>
    BY <1>2, ProgramIs
  <2> QED BY <1>1, <1>2, <2>1 DEF At, Pos, Advance
<1>3. CASE dec # "vmpeg4"
  <2>1. Program = <<"off", "hint", "start", "init_work", "play",
                   "cancel", "stop", "del_timer", "end", "no_need">>
    BY <1>3, ProgramIs
  <2> QED BY <1>1, <1>3, <2>1 DEF At, Pos, Advance
<1> QED BY <1>2, <1>3

\* A driver that is loaded has the types.
LEMMA InitTyped == Init => TypeOK
<1> SUFFICES ASSUME Init PROVE TypeOK
  OBVIOUS
<1>1. pos \in 1..10 BY DEF Init
<1>2. {running, armed, winit, queued, broken, sure} \subseteq BOOLEAN BY DEF Init
<1>3. es = 0 /\ dur = 0 /\ saved = 0 /\ told = 0 BY DEF Init
<1>4. dec \in Decoders /\ wpc = "idle" /\ status = "no_need" BY DEF Init
<1> QED BY <1>1, <1>2, <1>3, <1>4 DEF TypeOK

\* Every step of probe, handler, timer, worker and remove keeps the types.
LEMMA NextTyped ==
  ASSUME TypeOK, [Next]_vars
  PROVE  TypeOK'
<1>1. Advance => pos' \in 1..10
  <2>1. pos \in 1..10 BY DEF TypeOK
  <2> QED BY <2>1, AtIs
<1>2. CASE Open BY <1>1, <1>2, HintConstants DEF Open, TypeOK, worker
<1>3. CASE Close BY <1>1, <1>3 DEF Close, TypeOK, worker, stream
<1>4. CASE InitWork BY <1>1, <1>4 DEF InitWork, TypeOK, stream
<1>5. CASE FirstHint
  BY <1>1, <1>5 DEF FirstHint, FirstStatus, TypeOK, worker, stream
<1>6. CASE StartDecoder BY <1>1, <1>6 DEF StartDecoder, TypeOK, worker, stream
<1>7. CASE CancelWork BY <1>1, <1>7 DEF CancelWork, TypeOK, stream
<1>8. CASE StopDecoder
  <2>1. pos' \in 1..10 /\ running' = FALSE BY <1>1, <1>8 DEF StopDecoder
  <2>2. UNCHANGED <<dec, armed, winit, queued, wpc, broken, status, es, dur, saved, sure, told>>
    BY <1>8 DEF StopDecoder, worker, stream
  <2>3. {running', armed', winit', queued', broken', sure'} \subseteq BOOLEAN
    BY <2>1, <2>2 DEF TypeOK
  <2>4. {es', dur', saved', told'} \subseteq Rates \cup {0} BY <2>2 DEF TypeOK
  <2>5. /\ dec' \in Decoders /\ wpc' \in {"idle", "mark"}
        /\ status' \in {"no_need", "need_hint", "hinted"}
    BY <2>2 DEF TypeOK
  <2> QED BY <2>1, <2>3, <2>4, <2>5 DEF TypeOK
<1>9. CASE DelTimer
  <2>1. pos' \in 1..10 /\ armed' = FALSE BY <1>1, <1>9 DEF DelTimer
  <2>2. UNCHANGED <<dec, running, winit, queued, wpc, broken, status, es, dur, saved, sure, told>>
    BY <1>9 DEF DelTimer, worker, stream
  <2>3. {running', armed', winit', queued', broken', sure'} \subseteq BOOLEAN
    BY <2>1, <2>2 DEF TypeOK
  <2>4. {es', dur', saved', told'} \subseteq Rates \cup {0} BY <2>2 DEF TypeOK
  <2>5. /\ dec' \in Decoders /\ wpc' \in {"idle", "mark"}
        /\ status' \in {"no_need", "need_hint", "hinted"}
    BY <2>2 DEF TypeOK
  <2> QED BY <2>1, <2>3, <2>4, <2>5 DEF TypeOK
<1>10. CASE EndHint BY <1>1, <1>10 DEF EndHint, TypeOK, worker, stream
<1>11. CASE NoNeedHint BY <1>1, <1>11 DEF NoNeedHint, TypeOK, worker, stream
<1>12. ASSUME NEW r \in Rates, Picture(r) PROVE TypeOK'
  BY <1>12 DEF Picture, NewsStatus, Schedule, TypeOK
<1>13. ASSUME NEW r \in Rates, Correct(r) PROVE TypeOK'
  BY <1>13 DEF Correct, TypeOK, worker
<1>14. ASSUME NEW r \in Rates, PictureVc1(r) PROVE TypeOK'
  BY <1>14 DEF PictureVc1, TypeOK, worker
<1>15. CASE Tick BY <1>15 DEF Tick, Schedule, TypeOK
<1>16. CASE Work
  <2>1. told' \in Rates \cup {0} /\ saved' \in Rates \cup {0}
    BY <1>16 DEF Work, ToldNow, TypeOK
  <2>2. wpc' \in {"idle", "mark"} /\ queued' = FALSE
    BY <1>16 DEF Work, TypeOK
  <2> QED BY <1>16, <2>1, <2>2 DEF Work, TypeOK
<1>17. CASE Mark BY <1>17 DEF Mark, TypeOK, stream
<1>18. CASE UNCHANGED vars BY <1>18 DEF vars, TypeOK, worker, stream
<1> QED BY <1>2, <1>3, <1>4, <1>5, <1>6, <1>7, <1>8, <1>9, <1>10, <1>11, <1>12, <1>13,
           <1>14, <1>15, <1>16, <1>17, <1>18 DEF Next, Thread, Events, Worker

\* The fields of the decoder keep their types, also when pictures come while the
\* device is removed.
THEOREM TypeCorrect == Spec => []TypeOK
<1>1. TypeOK /\ [Next]_vars => TypeOK' BY NextTyped
<1> QED BY <1>1, InitTyped, PTL DEF Spec

-----------------------------------------------------------------------------
\* the work item and its worker are at rest
Idle == ~queued /\ wpc = "idle"
\* the thread is in this part of its program
Within(four, others) == pos \in IF dec = "vmpeg4" THEN four ELSE others

\* no work outside the time in which pictures come
Calm == Removing \/ ~running \/ (Probing /\ dec \notin Early) => Idle
\* hardware and timer run only between start and stop
Hardware == /\ running => Within(5..6, 4..7)
            /\ armed => Within(5..7, 4..8) /\ (running \/ Removing)
\* the work will tell a rate
ToBeTold == queued /\ status = "need_hint" /\ dec # "vvc1"
\* a rate in force is marked, or about to be, so the end will be told
Told == /\ told # 0 => Within(4..8, 3..9)
        /\ told # 0 => status = "hinted" \/ wpc = "mark" \/ ToBeTold
        /\ ToBeTold => (IF dec = "vmpeg4" THEN es ELSE dur) # 0
HInv == Calm /\ Hardware /\ Told

\* Nothing is queued or told before the first probe.
LEMMA InitInv == Init => HInv
BY DEF Init, HInv, Calm, Hardware, Told, ToBeTold, Idle

\* Every step of a decoder with a quiet stream keeps the invariant.
LEMMA NextInv ==
  ASSUME Quiet, TypeOK, HInv, [Next]_vars
  PROVE  HInv'
<1> USE DEF HInv, Calm, Hardware, Told, ToBeTold, Idle, Within, Pos
<1>0. \A r \in Rates : r # 0 BY HintConstants
<1>1. pos \in 1..10 BY DEF TypeOK
<1>2. CASE Open
  BY <1>1, <1>2, AtIs DEF Open, TypeOK, worker, Removing, Probing
<1>3. CASE Close
  BY <1>1, <1>3, AtIs DEF Close, worker, stream, Removing, Probing
<1>4. CASE InitWork
  BY <1>1, <1>4, AtIs DEF InitWork, stream, Removing, Probing
<1>5. CASE FirstHint
  BY <1>1, <1>5, AtIs DEF FirstHint, FirstStatus, TypeOK, worker, stream, Removing, Probing
<1>6. CASE StartDecoder
  BY <1>1, <1>6, AtIs DEF StartDecoder, worker, stream, Removing, Probing
<1>7. CASE CancelWork
  BY <1>1, <1>7, AtIs DEF CancelWork, stream, Removing, Probing
<1>8. CASE StopDecoder
  BY <1>1, <1>8, AtIs DEF StopDecoder, worker, stream, Removing, Probing
<1>9. CASE DelTimer
  BY <1>1, <1>9, AtIs DEF DelTimer, worker, stream, Removing, Probing
<1>10. CASE EndHint
  BY <1>1, <1>10, AtIs DEF EndHint, worker, stream, Removing, Probing
<1>11. CASE NoNeedHint
  BY <1>1, <1>11, AtIs DEF NoNeedHint, worker, stream, Removing, Probing
<1>12. ASSUME NEW r \in Rates, Picture(r) PROVE HInv'
  BY <1>0, <1>1, <1>12 DEF Picture, News, NewsStatus, Schedule, Eventful, Removing, Probing, TypeOK
<1>13. ASSUME NEW r \in Rates, Correct(r) PROVE HInv'
  BY <1>0, <1>1, <1>13 DEF Correct, worker, Eventful, Removing, Probing
<1>14. ASSUME NEW r \in Rates, PictureVc1(r) PROVE HInv'
  <2>1. dec = "vvc1" /\ UNCHANGED <<dec, pos, running, armed, worker, status, told>>
    BY <1>14 DEF PictureVc1
  <2> QED BY <1>1, <2>1 DEF worker, Removing, Probing
<1>15. CASE Tick
  <2>1. dec = "vvc1" /\ armed /\ ~Removing /\ (Probing => dec \in Early)
    BY <1>15 DEF Tick, Eventful
  <2>2. UNCHANGED <<dec, pos, running, armed, wpc, status, told>>
    BY <1>15 DEF Tick
  <2> QED BY <1>1, <2>1, <2>2 DEF Removing, Probing
<1>16. CASE Work
  BY <1>1, <1>16 DEF Work, MustTell, ToldNow, TypeOK, Removing, Probing
<1>17. CASE Mark
  BY <1>1, <1>17 DEF Mark, stream, Removing, Probing
<1>18. CASE UNCHANGED vars BY <1>18 DEF vars, worker, stream, Removing, Probing
<1> QED BY <1>2, <1>3, <1>4, <1>5, <1>6, <1>7, <1>8, <1>9, <1>10, <1>11, <1>12, <1>13,
           <1>14, <1>15, <1>16, <1>17, <1>18 DEF Next, Thread, Events, Worker

\* The invariant holds in all reachable states.
LEMMA Invariance ==
  ASSUME Quiet
  PROVE  Spec => [](TypeOK /\ HInv)
<1>1. Init => TypeOK /\ HInv BY InitTyped, InitInv
<1>2. (TypeOK /\ HInv) /\ [Next]_vars => (TypeOK /\ HInv)'
  BY NextTyped, NextInv
<1> QED BY <1>1, <1>2, PTL DEF Spec

-----------------------------------------------------------------------------
\* the work item is initialised before the hardware may queue it
Prepared == /\ WorkIntact
            /\ (IF dec = "vmpeg4" THEN pos >= 3 ELSE pos >= 5) => winit

\* Only a decoder that is prepared schedules, and INIT_WORK meets an idle item.
LEMMA NextPrepared ==
  ASSUME Quiet, Early \subseteq {"vmpeg4"}, TypeOK, HInv, Prepared, [Next]_vars
  PROVE  Prepared'
<1> USE DEF Prepared, WorkIntact
<1>1. pos \in 1..10 BY DEF TypeOK
<1>2. CASE InitWork
  <2>1. Pos(2, 4) BY <1>2, AtIs DEF InitWork
  <2>2. Idle
    <3>1. CASE dec = "vmpeg4" BY <2>1, <3>1 DEF HInv, Calm, Hardware, Within, Pos
    <3>2. CASE dec # "vmpeg4"
      <4>1. Probing BY <2>1, <3>2 DEF Pos, Probing
      <4>2. dec \notin Early BY <3>2
      <4> QED BY <4>1, <4>2 DEF HInv, Calm
    <3> QED BY <3>1, <3>2
  <2>3. winit' = TRUE /\ broken' = (broken \/ queued) BY <1>2 DEF InitWork
  <2> QED BY <2>2, <2>3 DEF Idle
<1>3. CASE UNCHANGED <<dec, broken, winit>> /\ Advance /\ ~At("init_work")
  BY <1>1, <1>3, AtIs DEF Pos
<1>4. CASE UNCHANGED <<dec, pos, broken, winit>>
  BY <1>4
<1>5. CASE Schedule /\ UNCHANGED <<dec, pos, winit>> /\ Eventful /\ (running \/ armed)
  <2>1. winit
    <3>1. ~Removing BY <1>5 DEF Eventful
    <3>2. pos >= 4 BY <1>1, <1>5 DEF HInv, Hardware, Within
    <3>3. dec # "vmpeg4" => ~Probing BY <1>5 DEF Eventful
    <3> QED BY <1>1, <3>2, <3>3 DEF Probing
  <2> QED BY <1>5, <2>1 DEF Schedule
<1>6. \/ InitWork
      \/ UNCHANGED <<dec, broken, winit>> /\ Advance /\ ~At("init_work")
      \/ UNCHANGED <<dec, pos, broken, winit>>
      \/ Schedule /\ UNCHANGED <<dec, pos, winit>> /\ Eventful /\ (running \/ armed)
  <2>1. Open \/ Close \/ Thread =>
          \/ InitWork
          \/ UNCHANGED <<dec, broken, winit>> /\ Advance /\ ~At("init_work")
    BY DEF Open, Close, Thread, FirstHint, StartDecoder, CancelWork, StopDecoder, DelTimer,
           EndHint, NoNeedHint, At, worker
  <2>2. Events =>
          \/ UNCHANGED <<dec, pos, broken, winit>>
          \/ Schedule /\ UNCHANGED <<dec, pos, winit>> /\ Eventful /\ (running \/ armed)
    BY DEF Events, Picture, Correct, PictureVc1, Tick, worker
  <2>3. Worker \/ UNCHANGED vars => UNCHANGED <<dec, pos, broken, winit>>
    BY DEF Worker, Work, Mark, vars, worker
  <2> QED BY <2>1, <2>2, <2>3 DEF Next
<1> QED BY <1>2, <1>3, <1>4, <1>5, <1>6

\* The work item is never queued before INIT_WORK nor initialised while queued,
\* if only vmpeg4, which initialises it first, meets pictures during its probe.
THEOREM WorkIsIntact ==
  ASSUME Quiet, Early \subseteq {"vmpeg4"}
  PROVE  Spec => []WorkIntact
<1>1. Init => Prepared BY DEF Init, Prepared, WorkIntact
<1>2. TypeOK /\ HInv /\ Prepared /\ [Next]_vars => Prepared' BY NextPrepared
<1>3. Prepared => WorkIntact BY DEF Prepared
<1> QED BY <1>1, <1>2, <1>3, Invariance, PTL DEF Spec

-----------------------------------------------------------------------------
\* the mapping of HintSession's variable, in places of the program
Plays == Playing = Within(2..8, 2..9)

\* A video lasts from xxx_local_init to the end hint.
LEMMA PlayingIs ==
  ASSUME TypeOK
  PROVE  Plays
<1>1. pos \in 1..10 BY DEF TypeOK
<1>2. Playing <=> Within(2..8, 2..9) BY <1>1, AtIs DEF Playing, Pos, Within
<1> QED BY <1>2 DEF Playing, Within, Plays

\* Every step is one of HintSession or changes neither the video nor the rate.
LEMMA StepKeepsPromise ==
  ASSUME Quiet, TypeOK, HInv, Plays, Plays', [Next]_vars
  PROVE  [Session!Next]_<<Playing, told>>
<1> USE DEF Session!Next, Session!Start, Session!Tell, Session!Finish
<1> DEFINE last == IF dec = "vmpeg4" THEN 8 ELSE 9
<1>1. pos \in 1..10 /\ last \in {8, 9} BY DEF TypeOK
<1>2. /\ Playing <=> pos \in 2..last
      /\ Playing' <=> pos' \in 2..last'
      /\ Playing \in BOOLEAN /\ Playing' \in BOOLEAN
  <2>1. (Playing <=> pos \in 2..last) /\ (Playing' <=> pos' \in 2..last')
    BY DEF Plays, Within
  <2>2. Playing \in BOOLEAN /\ Playing' \in BOOLEAN
    BY DEF Playing
  <2> QED BY <2>1, <2>2
<1>3. ASSUME Advance, dec' = dec
      PROVE  pos' = (IF pos = 10 THEN 1 ELSE pos + 1) /\ last' = last
  BY <1>3, AtIs
<1> HIDE DEF last
<1>4. CASE Open
  <2>1. pos = 1 /\ pos' = 2 /\ last' = last /\ told' = told
    BY <1>3, <1>4, AtIs DEF Open
  <2>2. ~Playing /\ Playing' = TRUE BY <1>1, <1>2, <2>1
  <2>3. told' \in Rates \cup {told} BY <2>1
  <2> QED BY <2>2, <2>3
<1>5. CASE FirstHint
  <2>1. pos \in {2, 3} /\ pos' = pos + 1 /\ last' = last
    BY <1>1, <1>3, <1>5, AtIs DEF FirstHint, worker, stream, Pos
  <2>2. told' \in Rates \cup {told} BY <1>5 DEF FirstHint, TypeOK
  <2> QED BY <1>1, <1>2, <2>1, <2>2
<1>6. CASE EndHint
  <2>1. pos = last /\ pos' = pos + 1 /\ last' = last
    BY <1>1, <1>3, <1>6, AtIs DEF EndHint, worker, stream, Pos, last
  <2>2. told' = 0
    <3>1. Idle BY <1>1, <2>1 DEF HInv, Calm, Removing
    <3>2. told # 0 => status = "hinted"
      BY <3>1 DEF HInv, Told, ToBeTold, Idle
    <3> QED BY <1>6, <3>2 DEF EndHint
  <2> QED BY <1>1, <1>2, <2>1, <2>2
<1>7. CASE Work
  <2>1. running /\ ~Removing BY <1>7 DEF Work, HInv, Calm, Idle
  <2>2. pos \in 4..5 BY <1>1, <2>1 DEF HInv, Hardware, Within, Removing
  <2>3. pos' = pos /\ last' = last BY <1>7 DEF Work, last
  <2>4. told' \in Rates \cup {told}
    <3>1. CASE MustTell
      <4>1. told' = ToldNow BY <1>7, <3>1 DEF Work
      <4>2. ToldNow # 0
        <5>1. CASE dec = "vvc1" BY <3>1, <5>1 DEF MustTell, ToldNow
        <5>2. CASE dec # "vvc1"
          BY <1>7, <3>1, <5>2 DEF MustTell, Work, ToldNow, HInv, Told, ToBeTold
        <5> QED BY <5>1, <5>2
      <4>3. ToldNow \in Rates \cup {0} BY DEF ToldNow, TypeOK
      <4> QED BY <4>1, <4>2, <4>3
    <3>2. CASE ~MustTell BY <1>7, <3>2 DEF Work
    <3> QED BY <3>1, <3>2
  <2>5. Playing /\ Playing' = Playing BY <1>1, <1>2, <2>2, <2>3
  <2> QED BY <2>4, <2>5
<1>8. CASE InitWork \/ StartDecoder \/ CancelWork \/ StopDecoder \/ DelTimer \/ NoNeedHint
           \/ Close
  <2>1. told' = told /\ dec' = dec /\ Advance
    BY <1>8 DEF InitWork, StartDecoder, CancelWork, StopDecoder, DelTimer, NoNeedHint, Close,
                worker, stream
  <2>2. pos # 1 /\ pos # last
    BY <1>8, AtIs DEF InitWork, StartDecoder, CancelWork, StopDecoder, DelTimer, NoNeedHint,
                      Close, Pos, last
  <2>3. Playing' <=> Playing BY <1>1, <1>2, <1>3, <2>1, <2>2
  <2> QED BY <1>2, <2>1, <2>3
<1>9. CASE Events \/ Mark \/ UNCHANGED vars
  <2>1. told' = told /\ pos' = pos /\ last' = last
    BY <1>9 DEF Events, Picture, Correct, PictureVc1, Tick, Mark, vars, last
  <2>2. Playing' <=> Playing BY <1>2, <2>1
  <2> QED BY <1>2, <2>1, <2>2
<1> QED BY <1>4, <1>5, <1>6, <1>7, <1>8, <1>9 DEF Next, Thread, Worker

\* The decoder implements HintSession: no rate is told between two videos, and the
\* end is told if a rate was (fr_hint_status is "hinted" whenever one is in force).
THEOREM KeepsPromise ==
  ASSUME Quiet
  PROVE  Spec => SessionSpec
<1>1. Init => Session!Init
  <2> SUFFICES ASSUME Init PROVE Session!Init
    OBVIOUS
  <2>1. pos = 1 /\ told = 0 BY DEF Init
  <2> QED BY <2>1 DEF Session!Init, Playing
<1>2. TypeOK => Plays BY PlayingIs
<1>3. TypeOK /\ HInv /\ Plays /\ Plays' /\ [Next]_vars => [Session!Next]_<<Playing, told>>
  BY StepKeepsPromise
<1> QED BY <1>1, <1>2, <1>3, Invariance, PTL DEF Spec, SessionSpec, Session!Spec
=============================================================================
