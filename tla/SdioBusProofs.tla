---------------------------- MODULE SdioBusProofs ----------------------------
(* Theorems about the bus of dhd_sdio.c, for every width of the sequence numbers,
   every window and every number of receive buffers that SdioConstants allows.
   The window arithmetic comes first, then the types, then the owner of the
   waiting control frame, then the order of the frames and the window, and last
   that the bus is awake when it is used.                                      *)
EXTENDS SdioBus, TLAPS

(* One wrap is all that a sum of two numbers needs. *)
LEMMA ModOnce ==
  ASSUME NEW W \in Nat \ {0}, NEW x \in 0..(2 * W - 1)
  PROVE  x % W = IF x < W THEN x ELSE x - W
<1>1. CASE x < W BY <1>1, Z3
<1>2. CASE x >= W BY <1>2, Z3
<1> QED BY <1>1, <1>2

(* A remainder is a sequence number. *)
LEMMA ModRange ==
  ASSUME NEW W \in Nat \ {0}, NEW x \in Int
  PROVE  x % W \in 0..(W - 1)
OBVIOUS

(* Min of FiniteSetsExt, for the queue length of Enqueue. *)
LEMMA MinTwo ==
  ASSUME NEW a \in Int, NEW b \in Int
  PROVE  /\ Min({a, b}) \in {a, b}
         /\ Min({a, b}) <= a /\ Min({a, b}) <= b
<1>1. \E x \in {a, b} : \A y \in {a, b} : x <= y
  <2>1. CASE a <= b BY <2>1
  <2>2. CASE b <= a BY <2>2
  <2> QED BY <2>1, <2>2
<1> QED BY <1>1 DEF Min

(* Min again, for the three bounds of a glom in dhdsdio_sendfromq. *)
LEMMA MinThree ==
  ASSUME NEW a \in Int, NEW b \in Int, NEW c \in Int
  PROVE  /\ Min({a, b, c}) \in {a, b, c}
         /\ Min({a, b, c}) <= a /\ Min({a, b, c}) <= b /\ Min({a, b, c}) <= c
<1>1. \E x \in {a, b, c} : \A y \in {a, b, c} : x <= y
  <2>1. CASE a <= b /\ a <= c BY <2>1
  <2>2. CASE b <= a /\ b <= c BY <2>2
  <2>3. CASE c <= a /\ c <= b BY <2>3
  <2> QED BY <2>1, <2>2, <2>3
<1> QED BY <1>1 DEF Min

-----------------------------------------------------------------------------
(* The number after n more frames, (tx_seq + n) % SDPCM_SEQUENCE_WRAP. *)
LEMMA PlusValue ==
  ASSUME NEW s \in Numbers, NEW n \in 0..SDPCM_SEQUENCE_WRAP
  PROVE  /\ Plus(s, n) = IF s + n < SDPCM_SEQUENCE_WRAP THEN s + n
                         ELSE s + n - SDPCM_SEQUENCE_WRAP
         /\ Plus(s, n) \in Numbers
<1>1. SDPCM_SEQUENCE_WRAP \in Nat \ {0} BY SdioConstants
<1> DEFINE x == s + n
<1>2. x \in 0..(2 * SDPCM_SEQUENCE_WRAP - 1) BY <1>1 DEF Numbers
<1>3. x % SDPCM_SEQUENCE_WRAP = IF x < SDPCM_SEQUENCE_WRAP THEN x
                                ELSE x - SDPCM_SEQUENCE_WRAP
  <2> HIDE DEF x
  <2> QED BY <1>1, <1>2, ModOnce
<1> QED BY <1>1, <1>3 DEF Plus, Numbers

(* The uint8 difference tx_max - tx_seq that all credit tests take. *)
LEMMA AheadValue ==
  ASSUME NEW m \in Numbers, NEW s \in Numbers
  PROVE  /\ Ahead(m, s) = IF m < s THEN m + SDPCM_SEQUENCE_WRAP - s ELSE m - s
         /\ Ahead(m, s) \in Numbers
<1>1. SDPCM_SEQUENCE_WRAP \in Nat \ {0} BY SdioConstants
<1> DEFINE x == m + SDPCM_SEQUENCE_WRAP - s
<1>2. x \in 0..(2 * SDPCM_SEQUENCE_WRAP - 1) BY <1>1 DEF Numbers
<1>3. x % SDPCM_SEQUENCE_WRAP = IF x < SDPCM_SEQUENCE_WRAP THEN x
                                ELSE x - SDPCM_SEQUENCE_WRAP
  <2> HIDE DEF x
  <2> QED BY <1>1, <1>2, ModOnce
<1> QED BY <1>1, <1>3 DEF Ahead, Numbers

(* Sending n frames within a window narrows it by n, across the wrap too. *)
LEMMA SendingNarrows ==
  ASSUME NEW m \in Numbers, NEW s \in Numbers, NEW n \in 0..Ahead(m, s)
  PROVE  Ahead(m, Plus(s, n)) = Ahead(m, s) - n
<1>1. SDPCM_SEQUENCE_WRAP \in Nat \ {0} BY SdioConstants
<1>2. /\ Ahead(m, s) = IF m < s THEN m + SDPCM_SEQUENCE_WRAP - s ELSE m - s
      /\ Ahead(m, s) \in Numbers
  BY AheadValue
<1>3. n \in 0..SDPCM_SEQUENCE_WRAP BY <1>1, <1>2 DEF Numbers
<1>4. /\ Plus(s, n) = IF s + n < SDPCM_SEQUENCE_WRAP THEN s + n
                      ELSE s + n - SDPCM_SEQUENCE_WRAP
      /\ Plus(s, n) \in Numbers
  BY <1>3, PlusValue
<1> DEFINE t == Plus(s, n)
<1>5. Ahead(m, t) = IF m < t THEN m + SDPCM_SEQUENCE_WRAP - t ELSE m - t
  BY <1>4, AheadValue
<1> QED BY <1>1, <1>2, <1>3, <1>4, <1>5 DEF Numbers

(* A number that is n after s is n ahead of it: the credit of a header means the
   frames it was computed from.                                                *)
LEMMA CreditIsAhead ==
  ASSUME NEW s \in Numbers, NEW n \in Numbers
  PROVE  Ahead(Plus(s, n), s) = n
<1>1. SDPCM_SEQUENCE_WRAP \in Nat \ {0} BY SdioConstants
<1>2. n \in 0..SDPCM_SEQUENCE_WRAP BY <1>1 DEF Numbers
<1>4. /\ Plus(s, n) = IF s + n < SDPCM_SEQUENCE_WRAP THEN s + n
                      ELSE s + n - SDPCM_SEQUENCE_WRAP
      /\ Plus(s, n) \in Numbers
  BY <1>2, PlusValue
<1> DEFINE t == Plus(s, n)
<1>5. Ahead(t, s) = IF t < s THEN t + SDPCM_SEQUENCE_WRAP - s ELSE t - s
  BY <1>4, AheadValue
<1> QED BY <1>1, <1>2, <1>4, <1>5 DEF Numbers

-----------------------------------------------------------------------------
(* the constants, for the provers *)
Bounds ==
  /\ {SDPCM_SEQUENCE_WRAP, QLEN, RxBound, IdleTime, GlomSize, InitMax, DongleBufs,
      Unlikely} \subseteq Nat \ {0}
  /\ MaxStops \in Nat
  /\ InitMax \in Numbers /\ DongleBufs \in Numbers /\ Unlikely \in Numbers
  /\ Numbers \subseteq Nat

(* What SdioConstants says of the constants, in the form the types need. *)
LEMMA ConstantsFit == Bounds
BY SdioConstants DEF Bounds, Numbers

(* a turn of the reading loop has frames left to read *)
Turns == dpc \in {"turn", "read", "deliver"} => rxleft > 0

(* The window is a byte, and DATAOK leaves at least one frame to send. *)
LEMMA WindowType ==
  ASSUME TypeOK
  PROVE  Window \in Numbers /\ (DATAOK => DATABUFCNT \in 1..SDPCM_SEQUENCE_WRAP)
<1>1. Window \in Numbers BY AheadValue DEF TypeOK, Window
<1> QED BY <1>1, ConstantsFit DEF DATAOK, DATABUFCNT, Numbers, Bounds

(* A transfer of dhdsdio_sendfromq has no more frames than credit and queue. *)
LEMMA GlomType ==
  ASSUME TypeOK, DATAOK, txq > 0
  PROVE  GlomCount \in Nat /\ GlomCount <= DATABUFCNT /\ GlomCount <= txq
<1>1. DATABUFCNT \in Nat BY WindowType
<1>2. GlomSize \in Nat /\ txq \in Nat BY ConstantsFit DEF Bounds, TypeOK
<1> QED BY <1>1, <1>2, MinThree DEF GlomCount

(* A transfer, whether it succeeds or fails, keeps the numbers bytes. *)
LEMMA TransferType ==
  ASSUME TypeOK, NEW s \in Numbers, NEW n \in 0..SDPCM_SEQUENCE_WRAP, Transfer(s, n)
  PROVE  /\ tx_seq' \in Numbers /\ expects' \in Numbers /\ held' \in Nat
         /\ badSeq' \in BOOLEAN
<1>1. Plus(tx_seq, n) \in Numbers /\ Plus(s, n) \in Numbers
  BY PlusValue DEF TypeOK
<1>2. n \in Nat BY DEF Bounds
<1>3. CASE Sent(s, n)
  <2>1. badSeq' \in BOOLEAN BY <1>3 DEF Sent
  <2> QED BY <1>1, <1>2, <1>3, <2>1 DEF Sent, TypeOK
<1>4. CASE NotSent BY <1>4 DEF NotSent, TypeOK
<1> QED BY <1>3, <1>4 DEF Transfer

(* what the two sending functions leave in range *)
SendType ==
  /\ txq' \in 0..QLEN /\ txoff' \in BOOLEAN
  /\ {tx_seq', tx_max', expects'} \subseteq Numbers
  /\ ctrl' \in Numbers \cup {NoFrame}
  /\ held' \in Nat /\ badSeq' \in BOOLEAN /\ ctl' = ctl

(* dhdsdio_sendpendctl keeps the types. *)
LEMMA ControlType ==
  ASSUME TypeOK, sendpendctl
  PROVE  SendType
<1>1. FrameSeq = tx_seq BY DEF FrameSeq
<1>2. tx_seq \in Numbers /\ 1 \in 0..SDPCM_SEQUENCE_WRAP
  BY ConstantsFit DEF TypeOK, Bounds
<1>3. Transfer(tx_seq, 1) BY <1>1 DEF sendpendctl
<1>4. /\ tx_seq' \in Numbers /\ expects' \in Numbers /\ held' \in Nat
      /\ badSeq' \in BOOLEAN
  BY <1>2, <1>3, TransferType
<1> QED BY <1>4 DEF sendpendctl, TypeOK, SendType, queue

(* dhdsdio_sendfromq keeps the types. *)
LEMMA DataType ==
  ASSUME TypeOK, DATAOK, txq > 0, sendfromq
  PROVE  SendType
<1>1. GlomCount \in 0..SDPCM_SEQUENCE_WRAP /\ GlomCount <= txq
  BY GlomType, WindowType, ConstantsFit DEF Bounds
<1>2. tx_seq \in Numbers BY DEF TypeOK
<1>3. /\ tx_seq' \in Numbers /\ expects' \in Numbers /\ held' \in Nat
      /\ badSeq' \in BOOLEAN
  BY <1>1, <1>2, TransferType DEF sendfromq
<1>4. txq' \in 0..QLEN
  BY <1>1, ConstantsFit DEF sendfromq, TypeOK, Bounds
<1>5. txoff' \in BOOLEAN BY DEF sendfromq, TypeOK
<1> QED BY <1>3, <1>4, <1>5 DEF sendfromq, TypeOK, SendType, control

(* The bus as it is attached has the types. *)
LEMMA InitType == Init => TypeOK /\ Turns
<1> SUFFICES ASSUME Init PROVE TypeOK /\ Turns
  OBVIOUS
<1>1. {SDPCM_SEQUENCE_WRAP - 1, 0} \subseteq Numbers
  BY ConstantsFit DEF Bounds, Numbers
<1>2. 0 \in 0..QLEN /\ 0 \in 0..IdleTime /\ 0 \in 0..RxBound /\ 0 \in 0..MaxStops
  BY ConstantsFit DEF Bounds
<1> QED BY <1>1, <1>2 DEF Init, TypeOK, Turns

(* dhdsdio_dpc keeps the types. *)
LEMMA DpcType ==
  ASSUME TypeOK, Turns, Dpc
  PROVE  TypeOK' /\ Turns'
<1> USE ConstantsFit
<1>1. CASE StartDpc
  <2>1. UNCHANGED <<up, queue, window, control, dpc_sched, intdis, txd, stops,
                    expects, held, out, badSeq>> /\ sem' = FALSE
    BY <1>1 DEF StartDpc
  <2>2. CASE ~up
    BY <1>1, <2>1, <2>2 DEF StartDpc, TypeOK, Turns, power, dpcVars, queue, window, control
  <2>3. CASE up
    <3>1. {rxskip', intstatus', frameInd', nakHandled'} \subseteq BOOLEAN
      <4>1. rxskip' \in BOOLEAN BY <1>1, <2>3 DEF StartDpc, StillSkips
      <4>2. intstatus' \in BOOLEAN BY <1>1, <2>3 DEF StartDpc, StillSkips
      <4>3. frameInd' \in BOOLEAN BY <1>1, <2>3 DEF StartDpc
      <4>4. nakHandled' \in BOOLEAN BY <1>1, <2>3 DEF StartDpc
      <4> QED BY <4>1, <4>2, <4>3, <4>4
    <3>2. dpc' \in {"turn", "send"} /\ rxleft' = IF dpc' = "turn" THEN RxBound ELSE 0
      BY <1>1, <2>3 DEF StartDpc
    <3>3. /\ sleeping' = FALSE /\ idlecount' = 0 /\ activity' = TRUE /\ wdTimer' = TRUE
          /\ ipend' = FALSE /\ resched' = resched
      BY <1>1, <2>3 DEF StartDpc, BusWake
    <3>4. rxleft' \in 0..RxBound /\ Turns' /\ idlecount' \in 0..IdleTime
      BY <3>2, <3>3 DEF Turns, Bounds
    <3>5. dpc' \in {"idle", "turn", "read", "deliver", "send", "decide", "finish"}
      BY <3>2
    <3>6. {sleeping', activity', wdTimer', ipend', resched', sem'} \subseteq BOOLEAN
      BY <2>1, <3>3 DEF TypeOK
    <3> QED BY <2>1, <3>1, <3>4, <3>5, <3>6 DEF TypeOK, queue, window, control
  <2> QED BY <2>2, <2>3 DEF TypeOK
<1>2. CASE TxInRx
  <2>1. CASE ControlFirst /\ sendpendctl
    BY <1>2, <2>1, ControlType DEF TxInRx, TypeOK, Turns, SendType, power
  <2>2. CASE DATAOK /\ txq > 0 /\ sendfromq
    BY <1>2, <2>2, DataType DEF TxInRx, TypeOK, Turns, SendType, power
  <2>3. CASE UNCHANGED <<queue, control, window, expects, held, badSeq>>
    BY <1>2, <2>3 DEF TxInRx, TypeOK, Turns, power, queue, control, window
  <2> QED BY <1>2, <2>1, <2>2, <2>3 DEF TxInRx
<1>3. CASE ReadFrame
  BY <1>3 DEF ReadFrame, Reading, NextTurn, Believed, TypeOK, Turns, Bounds, power,
              queue, control
<1>4. CASE Relock
  BY <1>4 DEF Relock, NextTurn, TypeOK, Turns, Bounds, power, queue, control, window, device
<1>5. CASE ReadNothing
  BY <1>5 DEF ReadNothing, LeaveRead, TypeOK, Turns, Bounds, power, queue, control, window, device
<1>6. CASE ReadFails
  BY <1>6 DEF ReadFails, LeaveRead, TypeOK, Turns, Bounds, power, queue, control, window, device
<1>7. CASE ReadInVain
  BY <1>7 DEF ReadInVain, LeaveRead, TypeOK, Turns, Bounds, power, queue, control, window, device
<1>8. CASE Send
  <2>1. CASE ControlFirst /\ sendpendctl
    BY <1>8, <2>1, ControlType DEF Send, TypeOK, Turns, SendType, power
  <2>2. CASE DATAOK /\ txq > 0 /\ sendfromq
    BY <1>8, <2>2, DataType DEF Send, TypeOK, Turns, SendType, power
  <2>3. CASE UNCHANGED <<queue, control, window, expects, held, badSeq>>
    BY <1>8, <2>3 DEF Send, TypeOK, Turns, power, queue, control, window
  <2> QED BY <1>8, <2>1, <2>2, <2>3 DEF Send
<1>9. CASE Decide
  <2>1. resched' \in BOOLEAN /\ intstatus' \in BOOLEAN BY <1>9 DEF Decide
  <2> QED BY <1>9, <2>1 DEF Decide, TypeOK, Turns, power, queue, control, window, device
<1>10. CASE Finish
  <2>1. {dpc_sched', sem', resched'} \subseteq BOOLEAN BY <1>10 DEF Finish, TypeOK
  <2>2. dpc' = "idle" BY <1>10 DEF Finish
  <2> QED BY <1>10, <2>1, <2>2
         DEF Finish, TypeOK, Turns, power, queue, control, window, device
<1> QED BY <1>1, <1>2, <1>3, <1>4, <1>5, <1>6, <1>7, <1>8, <1>9, <1>10 DEF Dpc

(* The interrupt, the watchdog, the senders, stop and restart, and the device keep
   the types.                                                                  *)
LEMMA OthersType ==
  ASSUME TypeOK, Turns, Isr \/ Watchdog \/ TxData \/ TxCtl \/ Stop \/ Restart \/ Device
  PROVE  TypeOK' /\ Turns'
<1> USE ConstantsFit
<1>1. CASE Isr
  BY <1>1 DEF Isr, TypeOK, Turns, queue, window, control, power, dpcVars, device
<1>2. CASE Watchdog
  <2>1. dpc_sched' \in BOOLEAN BY <1>2 DEF Watchdog
  <2>2. sem' \in BOOLEAN BY <1>2 DEF Watchdog
  <2>3. sleeping' \in BOOLEAN BY <1>2 DEF Watchdog, TypeOK
  <2>4. /\ activity' \in BOOLEAN /\ wdTimer' \in BOOLEAN
        /\ idlecount' \in 0..IdleTime
    <3>1. activity' \in BOOLEAN /\ wdTimer' \in BOOLEAN BY <1>2 DEF Watchdog, TypeOK
    <3>2. idlecount \in Nat /\ idlecount <= IdleTime /\ IdleTime \in Nat
      BY DEF TypeOK, Bounds
    <3>3. idlecount' = 0 \/ idlecount' = idlecount
            \/ (idlecount' = idlecount + 1 /\ idlecount + 1 < IdleTime)
      BY <1>2 DEF Watchdog
    <3> QED BY <3>1, <3>2, <3>3
  <2> QED BY <1>2, <2>1, <2>2, <2>3, <2>4
         DEF Watchdog, TypeOK, Turns, queue, window, control, dpcVars, device
<1>3. CASE Enqueue
  <2>1. txq' \in 0..QLEN
    <3> DEFINE a == txq + 1
    <3>1. a \in Nat /\ QLEN \in Nat BY DEF TypeOK, Bounds
    <3>2. txq' = Min({a, QLEN}) BY <1>3 DEF Enqueue
    <3> HIDE DEF a
    <3>3. \A x, y \in Int : Min({x, y}) \in {x, y} /\ Min({x, y}) <= y
      BY MinTwo
    <3>4. txq' \in {a, QLEN} /\ txq' <= QLEN
      BY <3>1, <3>2, <3>3
    <3> QED BY <3>1, <3>4
  <2>2. txoff' \in BOOLEAN BY <1>3 DEF Enqueue
  <2> QED BY <1>3, <2>1, <2>2 DEF Enqueue, TypeOK, Turns, window, control, power,
         dpcVars, device
<1>4. CASE Look
  BY <1>4 DEF Look, TypeOK, Turns, queue, window, control, power, dpcVars, device
<1>5. CASE Kick
  BY <1>5 DEF Kick, TypeOK, Turns, queue, window, control, power, dpcVars, device
<1>6. CASE TxCtlNow
  <2>1. tx_seq \in Numbers /\ 1 \in 0..SDPCM_SEQUENCE_WRAP BY DEF TypeOK, Bounds
  <2>2. /\ tx_seq' \in Numbers /\ expects' \in Numbers /\ held' \in Nat
        /\ badSeq' \in BOOLEAN
    BY <1>6, <2>1, TransferType DEF TxCtlNow
  <2>3. sleeping' = FALSE /\ idlecount' = 0 /\ activity' = TRUE /\ wdTimer' = TRUE
    BY <1>6 DEF TxCtlNow, BusWake
  <2>4. idlecount' \in 0..IdleTime BY <2>3 DEF Bounds
  <2>5. {sleeping', activity', wdTimer'} \subseteq BOOLEAN BY <2>3
  <2> QED BY <1>6, <2>2, <2>4, <2>5 DEF TxCtlNow, TypeOK, Turns, queue, control, dpcVars
<1>7. CASE TxCtlWait
  <2>1. sem' \in BOOLEAN BY <1>7 DEF TxCtlWait
  <2>2. sleeping' = FALSE /\ idlecount' = 0 /\ activity' = TRUE /\ wdTimer' = TRUE
    BY <1>7 DEF TxCtlWait, BusWake
  <2>3. idlecount' \in 0..IdleTime BY <2>2 DEF Bounds
  <2>4. {sleeping', activity', wdTimer'} \subseteq BOOLEAN BY <2>2
  <2> QED BY <1>7, <2>1, <2>3, <2>4 DEF TxCtlWait, TypeOK, Turns, queue, window,
         dpcVars, device
<1>8. CASE TxCtlDone
  BY <1>8 DEF TxCtlDone, TypeOK, Turns, queue, window, power, dpcVars, device
<1>9. CASE TxCtlTimeout
  BY <1>9 DEF TxCtlTimeout, Withdrawn, TypeOK, Turns, queue, window, power, dpcVars, device
<1>10. CASE Stop
  <2>1. 0 \in 0..QLEN /\ 0 \in 0..IdleTime /\ 0 \in Numbers /\ InitMax \in Numbers
    BY DEF Bounds, Numbers
  <2>2. stops' \in 0..MaxStops BY <1>10 DEF Stop, TypeOK, Bounds
  <2>3. txq' \in 0..QLEN /\ idlecount' \in 0..IdleTime /\ {tx_seq', tx_max'} \subseteq Numbers
    BY <1>10, <2>1 DEF Stop, BusWake
  <2>4. {up', sleeping', activity', wdTimer', rxskip', intdis'} \subseteq BOOLEAN
    BY <1>10 DEF Stop, BusWake
  <2> QED BY <1>10, <2>2, <2>3, <2>4 DEF Stop, TypeOK, Turns, control, dpcVars, device
<1>11. CASE Restart
  <2>1. 0 \in 0..IdleTime /\ 0 \in Numbers /\ InitMax \in Numbers
    BY DEF Bounds, Numbers
  <2>2. out' \in {<<m>> : m \in Numbers} BY <1>11, <2>1 DEF Restart
  <2>3. idlecount' \in 0..IdleTime /\ expects' \in Numbers /\ held' \in Nat
    BY <1>11, <2>1 DEF Restart
  <2>4. {up', intdis', txoff', activity', wdTimer', frameInd', nakHandled'} \subseteq BOOLEAN
    BY <1>11 DEF Restart
  <2> QED BY <1>11, <2>2, <2>3, <2>4 DEF Restart, TypeOK, Turns, window, control, dpcVars
<1>12. CASE Consume
  BY <1>12 DEF Consume, TypeOK, Turns, queue, window, control, power, dpcVars
<1>13. CASE Offer
  <2>1. out' \in {<<m>> : m \in Numbers}
    <3>1. Credit \in Numbers
      <4> DEFINE x == expects + (DongleBufs - held)
      <4>1. x \in Int /\ SDPCM_SEQUENCE_WRAP \in Nat \ {0}
        <5>1. expects \in Numbers /\ held \in Nat BY DEF TypeOK
        <5>2. Numbers \subseteq Nat /\ DongleBufs \in Nat BY DEF Bounds
        <5>3. SDPCM_SEQUENCE_WRAP \in Nat \ {0} BY SdioConstants
        <5> QED BY <5>1, <5>2, <5>3
      <4>2. x % SDPCM_SEQUENCE_WRAP \in 0..(SDPCM_SEQUENCE_WRAP - 1)
        <5> HIDE DEF x
        <5> QED BY <4>1, ModRange
      <4> QED BY <4>2 DEF Credit, Plus, Numbers
    <3> QED BY <1>13, <3>1 DEF Offer
  <2> QED BY <1>13, <2>1 DEF Offer, TypeOK, Turns, queue, window, control, power, dpcVars
<1>14. CASE HandleNak
  BY <1>14 DEF HandleNak, TypeOK, Turns, queue, window, control, power, dpcVars
<1> QED BY <1>1, <1>2, <1>3, <1>4, <1>5, <1>6, <1>7, <1>8, <1>9, <1>10, <1>11, <1>12,
       <1>13, <1>14 DEF TxData, TxCtl, Device

(* So does a step that changes nothing. *)
LEMMA StutterType ==
  ASSUME TypeOK, Turns, UNCHANGED vars
  PROVE  TypeOK' /\ Turns'
BY DEF TypeOK, Turns, vars, queue, window, control, power, dpcVars, device

(* Every field of the bus stays in its range, for all constants. *)
THEOREM TypeCorrect == Spec => []TypeOK
<1>1. Init => TypeOK /\ Turns BY InitType
<1>2. TypeOK /\ Turns /\ [Next]_vars => (TypeOK /\ Turns)'
  <2> SUFFICES ASSUME TypeOK, Turns, [Next]_vars PROVE (TypeOK /\ Turns)'
    OBVIOUS
  <2>1. CASE Dpc BY <2>1, DpcType
  <2>2. CASE Isr \/ Watchdog \/ TxData \/ TxCtl \/ Stop \/ Restart \/ Device
    BY <2>2, OthersType
  <2>3. CASE UNCHANGED vars BY <2>3, StutterType
  <2> QED BY <2>1, <2>2, <2>3 DEF Next
<1> QED BY <1>1, <1>2, PTL DEF Spec

-----------------------------------------------------------------------------
(* dhdsdio_sendpendctl never sends the buffer of a caller that gave up: only
   dhd_bus_txctl sets ctrl_frame_stat, and it clears it when its wait ends.    *)
THEOREM BufferIsOwned == Spec => []BufferHasOwner
<1>1. Init => BufferHasOwner BY DEF Init, BufferHasOwner, ctrl_frame_stat
<1>2. TypeOK /\ BufferHasOwner /\ [Next]_vars => BufferHasOwner'
  <2> SUFFICES ASSUME TypeOK, BufferHasOwner, [Next]_vars PROVE BufferHasOwner'
    OBVIOUS
  <2> USE DEF BufferHasOwner, ctrl_frame_stat
  <2>1. CASE UNCHANGED control BY <2>1 DEF control
  <2>2. CASE sendpendctl BY <2>2 DEF sendpendctl
  <2>3. CASE TxCtlWait BY <2>3 DEF TxCtlWait
  <2>4. CASE TxCtlDone BY <2>4 DEF TxCtlDone
  <2>5. CASE TxCtlTimeout BY <2>5 DEF TxCtlTimeout, Withdrawn
  <2>6. UNCHANGED control \/ sendpendctl \/ TxCtlWait \/ TxCtlDone \/ TxCtlTimeout
    <3>1. Dpc => UNCHANGED control \/ sendpendctl
      BY DEF Dpc, StartDpc, TxInRx, ReadFrame, Relock, ReadNothing, ReadFails, ReadInVain,
             Send, Decide, Finish, sendfromq, control, device
    <3>2. Isr \/ Watchdog \/ TxData \/ TxCtlNow \/ Stop \/ Restart \/ Device
            => UNCHANGED control
      BY DEF Isr, Watchdog, TxData, Enqueue, Look, Kick, TxCtlNow, Stop, Restart, Device,
             Consume, Offer, HandleNak
    <3>3. UNCHANGED vars => UNCHANGED control BY DEF vars
    <3> QED BY <3>1, <3>2, <3>3 DEF Next, TxCtl
  <2> QED BY <2>1, <2>2, <2>3, <2>4, <2>5, <2>6
<1> QED BY <1>1, <1>2, TypeCorrect, PTL DEF Spec

-----------------------------------------------------------------------------
(* driver and device agree on the next number, or the bus is down and reset *)
InStep ==
  /\ InSequence
  /\ up => expects = tx_seq
  /\ ~up => tx_seq = 0 /\ tx_max = InitMax
  /\ dpc = "read" => up

(* the frame the device offers grants no more than it has room for, and no less than
   the driver already believes                                                  *)
Covered(m) == Window <= Ahead(m, tx_seq) /\ Ahead(m, tx_seq) + held <= DongleBufs
(* the window, and the credit on its way, are inside the free buffers *)
Fits ==
  /\ NoOverrun
  /\ up => Window + held <= DongleBufs
  /\ up => \A m \in Numbers : out = <<m>> => Covered(m)

(* A transfer of at most Window frames keeps the driver in step with the device
   and inside its buffers.                                                     *)
LEMMA TransferFits ==
  ASSUME TypeOK, InStep, Fits, NEW n \in 0..Window, Transfer(tx_seq, n),
         UNCHANGED <<up, tx_max, out>>, dpc' = "read" => up
  PROVE  InStep' /\ Fits'
<1> USE DEF InStep, Fits, InSequence, NoOverrun
<1>1. CASE NotSent BY <1>1 DEF NotSent, Window, Covered
<1>2. CASE Sent(tx_seq, n)
  <2>1. up /\ up' /\ expects = tx_seq BY <1>2 DEF Sent
  <2>2. InStep' BY <1>2, <2>1 DEF Sent
  <2>3. Window' = Window - n /\ held' = held + n
    BY <1>2, SendingNarrows DEF Sent, Window, TypeOK
  <2>4. Window \in Nat /\ held \in Nat /\ n \in Nat /\ DongleBufs \in Nat
    BY WindowType, ConstantsFit DEF TypeOK, Bounds
  <2>5. Window' + held' = Window + held BY <2>3, <2>4
  <2>6. NoOverrun'
    <3>1. n <= Window BY <2>4
    <3> QED BY <2>1, <2>3, <2>4, <3>1
  <2>7. ASSUME NEW m \in Numbers, out' = <<m>> PROVE Covered(m)'
    <3>1. Covered(m) BY <2>1, <2>7
    <3>2. Ahead(m, tx_seq) \in Nat BY AheadValue, ConstantsFit DEF TypeOK, Bounds
    <3>3. n \in 0..Ahead(m, tx_seq) BY <2>4, <3>1, <3>2 DEF Covered
    <3>4. Ahead(m, tx_seq') = Ahead(m, tx_seq) - n
      BY <1>2, <3>3, SendingNarrows DEF Sent, TypeOK
    <3> QED BY <2>3, <2>4, <3>1, <3>2, <3>4 DEF Covered
  <2> QED BY <2>1, <2>2, <2>5, <2>6, <2>7
<1> QED BY <1>1, <1>2 DEF Transfer

(* Both sending functions of the dpc send at most Window frames. *)
LEMMA SendsFit ==
  ASSUME TypeOK, InStep, Fits, UNCHANGED <<up, out>>, dpc' = "read" => up,
         (ControlFirst /\ sendpendctl) \/ (DATAOK /\ txq > 0 /\ sendfromq)
  PROVE  InStep' /\ Fits'
<1>0. Window \in Nat BY WindowType, ConstantsFit DEF Bounds
<1>1. CASE ControlFirst /\ sendpendctl
  <2>1. 1 \in 0..Window BY <1>0, <1>1 DEF ControlFirst, TXCTLOK
  <2>2. FrameSeq = tx_seq BY DEF FrameSeq
  <2>3. Transfer(tx_seq, 1) /\ tx_max' = tx_max BY <1>1, <2>2 DEF sendpendctl
  <2> QED BY <2>1, <2>3, TransferFits
<1>2. CASE DATAOK /\ txq > 0 /\ sendfromq
  <2>1. GlomCount \in Nat /\ GlomCount <= DATABUFCNT BY <1>2, GlomType
  <2>2. GlomCount \in 0..Window BY <1>0, <2>1 DEF DATABUFCNT
  <2>3. Transfer(tx_seq, GlomCount) /\ tx_max' = tx_max BY <1>2 DEF sendfromq
  <2> QED BY <2>2, <2>3, TransferFits
<1> QED BY <1>1, <1>2

(* At the start the window is the one frame the device has room for. *)
LEMMA InitFits == Init => InStep /\ Fits
<1> SUFFICES ASSUME Init PROVE InStep /\ Fits
  OBVIOUS
<1>1. {SDPCM_SEQUENCE_WRAP, DongleBufs} \subseteq Nat \ {0}
  BY ConstantsFit DEF Bounds
<1>2. SDPCM_SEQUENCE_WRAP - 1 \in Numbers /\ 0 \in Numbers
  BY <1>1 DEF Numbers
<1>3. SDPCM_SEQUENCE_WRAP \in Nat /\ SDPCM_SEQUENCE_WRAP >= 2
  BY SdioConstants
<1>4. Window = 1
  BY <1>2, <1>3, AheadValue DEF Init, Window
<1> QED BY <1>1, <1>4 DEF Init, InStep, Fits, InSequence, NoOverrun

(* Every step keeps the window inside what the device can take: only a transfer
   narrows it, only the header of a frame widens it.                           *)
LEMMA NextFits ==
  ASSUME TypeOK, InStep, Fits, [Next]_vars
  PROVE  InStep' /\ Fits'
<1>0. /\ Window \in Nat /\ held \in Nat /\ {tx_seq, tx_max, expects} \subseteq Numbers
      /\ {DongleBufs, InitMax, Unlikely, SDPCM_SEQUENCE_WRAP} \subseteq Nat
      /\ InitMax <= DongleBufs /\ DongleBufs <= Unlikely
      /\ DongleBufs < SDPCM_SEQUENCE_WRAP
      /\ {0, InitMax} \subseteq Numbers
  <2>1. Window \in Nat BY WindowType, ConstantsFit DEF Bounds
  <2>2. held \in Nat /\ {tx_seq, tx_max, expects} \subseteq Numbers BY DEF TypeOK
  <2>3. /\ {DongleBufs, InitMax, Unlikely, SDPCM_SEQUENCE_WRAP} \subseteq Nat \ {0}
        /\ InitMax <= DongleBufs /\ DongleBufs <= Unlikely
        /\ 2 * Unlikely < SDPCM_SEQUENCE_WRAP
    BY SdioConstants
  <2>4. DongleBufs < SDPCM_SEQUENCE_WRAP BY <2>3
  <2>5. {0, InitMax} \subseteq Numbers BY <2>3, <2>4 DEF Numbers
  <2> QED BY <2>1, <2>2, <2>3, <2>4, <2>5
(* steps that leave the window, its numbers and the device alone *)
<1>1. CASE /\ UNCHANGED <<up, tx_seq, tx_max, expects, held, out, badSeq>>
           /\ dpc' = "read" => up
  BY <1>1 DEF InStep, Fits, InSequence, NoOverrun, Window, Covered
<1>2. CASE TxInRx
  <2>1. up' = up /\ out' = out /\ up BY <1>2 DEF TxInRx
  <2>2. CASE UNCHANGED <<queue, control, window, expects, held, badSeq>>
    BY <1>1, <2>1, <2>2 DEF window
  <2> QED BY <1>2, <2>1, <2>2, SendsFit DEF TxInRx
<1>3. CASE Send
  <2>1. up' = up /\ out' = out /\ dpc' = "decide" BY <1>3 DEF Send
  <2>2. CASE UNCHANGED <<queue, control, window, expects, held, badSeq>>
    BY <1>1, <2>1, <2>2 DEF window
  <2> QED BY <1>3, <2>1, <2>2, SendsFit DEF Send
<1>4. CASE ReadFrame
  <2>1. up /\ up' BY <1>4 DEF ReadFrame, Reading, InStep
  <2>2. PICK m \in Numbers : out = <<m>> BY <1>4 DEF ReadFrame, TypeOK
  <2>3. Covered(m) BY <2>1, <2>2 DEF Fits
  <2>4. Ahead(m, tx_seq) \in Nat BY <1>0, AheadValue, ConstantsFit DEF Bounds
  <2>5. Ahead(m, tx_seq) <= Unlikely BY <1>0, <2>3, <2>4 DEF Covered
  <2>6. tx_max' = m
    BY <1>0, <1>4, <2>2, <2>4, <2>5 DEF ReadFrame, Believed
  <2>7. Window' = Ahead(m, tx_seq) BY <1>4, <2>6 DEF ReadFrame, Window
  <2>8. dpc' # "read" BY <1>4 DEF ReadFrame, NextTurn
  <2>9. UNCHANGED <<tx_seq, expects, held, badSeq>> /\ out' = <<>> BY <1>4 DEF ReadFrame
  <2> QED BY <2>1, <2>3, <2>7, <2>8, <2>9 DEF InStep, Fits, InSequence, NoOverrun, Covered
<1>5. CASE TxCtlNow
  <2>1. 1 \in 0..Window BY <1>0, <1>5 DEF TxCtlNow, TXCTLOK
  <2>2. /\ Transfer(tx_seq, 1) /\ UNCHANGED <<up, tx_max, out>>
        /\ dpc' = "read" => up
    BY <1>5 DEF TxCtlNow, dpcVars
  <2> QED BY <2>1, <2>2, TransferFits
<1>6. CASE Stop
  BY <1>6 DEF Stop, dpcVars, device, LockFree, InStep, Fits, InSequence, NoOverrun
<1>7. CASE Restart
  <2>1. /\ up' /\ expects' = 0 /\ held' = 0 /\ out' = <<InitMax>> /\ badSeq' = badSeq
        /\ tx_seq' = 0 /\ tx_max' = InitMax
    BY <1>7 DEF Restart, window, InStep
  <2>2. Ahead(InitMax, 0) = InitMax BY <1>0, AheadValue
  <2>3. Window' = InitMax BY <2>1, <2>2 DEF Window
  <2>4. ASSUME NEW m \in Numbers, out' = <<m>> PROVE Covered(m)'
    <3>1. m = InitMax BY <2>1, <2>4
    <3> QED BY <1>0, <2>1, <2>2, <2>3, <3>1 DEF Covered
  <2> QED BY <1>0, <2>1, <2>3, <2>4 DEF InStep, Fits, InSequence, NoOverrun
<1>8. CASE Consume
  <2>1. /\ up /\ held' = held - 1 /\ held - 1 \in Nat
        /\ UNCHANGED <<up, tx_seq, tx_max, expects, out, badSeq, dpc>>
    BY <1>0, <1>8 DEF Consume, window, dpcVars
  <2>2. Window' = Window BY <2>1 DEF Window
  <2>3. ASSUME NEW m \in Numbers, out' = <<m>> PROVE Covered(m)'
    <3>1. Covered(m) BY <2>1, <2>3 DEF Fits
    <3>2. Ahead(m, tx_seq) \in Nat BY <1>0, AheadValue, ConstantsFit DEF Bounds
    <3> QED BY <1>0, <2>1, <2>2, <3>1, <3>2 DEF Covered
  <2> QED BY <1>0, <2>1, <2>2, <2>3 DEF InStep, Fits, InSequence, NoOverrun
<1>9. CASE Offer
  <2>1. /\ up /\ out' = <<Credit>>
        /\ UNCHANGED <<up, tx_seq, tx_max, expects, held, badSeq, dpc>>
    BY <1>9 DEF Offer, window, dpcVars
  <2>2. expects = tx_seq /\ Window + held <= DongleBufs BY <2>1 DEF InStep, Fits
  <2>3. DongleBufs - held \in Numbers
    BY <1>0, <2>2 DEF Numbers
  <2>4. Ahead(Credit, tx_seq) = DongleBufs - held
    BY <1>0, <2>2, <2>3, CreditIsAhead DEF Credit
  <2>5. ASSUME NEW m \in Numbers, out' = <<m>> PROVE Covered(m)'
    <3>1. m = Credit BY <2>1, <2>5
    <3>2. Ahead(m, tx_seq)' = DongleBufs - held BY <2>1, <2>4, <3>1
    <3>3. Window' = Window BY <2>1 DEF Window
    <3> QED BY <1>0, <2>1, <2>2, <3>2, <3>3 DEF Covered
  <2> QED BY <2>1, <2>2, <2>5 DEF InStep, Fits, InSequence, NoOverrun, Window
<1>10. CASE StartDpc \/ Relock \/ ReadNothing \/ ReadFails \/ ReadInVain \/ Decide \/ Finish
  <2>1. dpc' # "read" \/ dpc' = dpc
    BY <1>10 DEF StartDpc, Relock, ReadNothing, ReadFails, ReadInVain, LeaveRead, NextTurn,
                 Decide, Finish, dpcVars
  <2>2. UNCHANGED <<up, tx_seq, tx_max, expects, held, out, badSeq>>
    BY <1>10 DEF StartDpc, Relock, ReadNothing, ReadFails, ReadInVain, Decide, Finish,
                 window, device
  <2> QED BY <1>1, <2>1, <2>2 DEF InStep
<1>11. CASE Isr \/ Watchdog \/ TxData \/ TxCtlWait \/ TxCtlDone \/ TxCtlTimeout \/ HandleNak
  <2>1. UNCHANGED <<up, tx_seq, tx_max, expects, held, out, badSeq, dpc>>
    BY <1>11 DEF Isr, Watchdog, TxData, Enqueue, Look, Kick, TxCtlWait, TxCtlDone,
                 TxCtlTimeout, HandleNak, window, device, dpcVars
  <2> QED BY <1>1, <2>1 DEF InStep
<1>12. CASE UNCHANGED vars
  BY <1>1, <1>12 DEF vars, window, device, dpcVars, InStep
<1> QED BY <1>2, <1>3, <1>4, <1>5, <1>6, <1>7, <1>8, <1>9, <1>10, <1>11, <1>12
       DEF Next, Dpc, TxCtl, Device

(* The inductive invariant holds in all reachable states. *)
LEMMA AlwaysFits == Spec => [](InStep /\ Fits)
<1>1. Init => InStep /\ Fits BY InitFits
<1>2. TypeOK /\ (InStep /\ Fits) /\ [Next]_vars => (InStep /\ Fits)' BY NextFits
<1> QED BY <1>1, <1>2, TypeCorrect, PTL DEF Spec

(* The device never meets a frame out of sequence (FrameSeq, Transfer, Restart). *)
THEOREM InOrder == Spec => []InSequence
<1>1. InStep /\ Fits => InSequence BY DEF InStep
<1> QED BY <1>1, AlwaysFits, PTL

(* The device is never sent more frames than it has buffers. *)
THEOREM NeverOverrun == Spec => []NoOverrun
<1>1. InStep /\ Fits => NoOverrun BY DEF Fits
<1> QED BY <1>1, AlwaysFits, PTL
-----------------------------------------------------------------------------
(* where the dpc transfers, and where it waits for the stack to come back to it *)
Awake == dpc \in {"turn", "read", "deliver", "send"} => ~sleeping

(* A stack that is faster than the idle ticks gives the watchdog no time to put the
   bus to sleep: it needs the lock, and counts the ticks from the wake-up on.  *)
LEMMA WatchdogIsLate ==
  ASSUME ~SlowStack, Awake, Watchdog
  PROVE  Awake'
<1>1. dpc' = dpc /\ LockFree /\ Patient BY DEF Watchdog, dpcVars
<1>2. CASE dpc = "idle" BY <1>1, <1>2 DEF Awake
<1>3. CASE dpc = "deliver"
  <2>1. activity \/ idlecount + 1 < IdleTime BY <1>1, <1>3 DEF Patient
  <2>2. sleeping' = sleeping BY <2>1 DEF Watchdog
  <2> QED BY <1>1, <2>2 DEF Awake
<1> QED BY <1>1, <1>2, <1>3 DEF LockFree

(* The dpc never transfers to a sleeping device, as long as dhd_rx_frame returns
   before the ticks of a sleep have passed: only StartDpc brings it to its
   transfers, and wakes the bus first.                                         *)
THEOREM NeverAsleep == ASSUME ~SlowStack PROVE Spec => []AwakeTransfers
<1>1. Init => Awake BY DEF Init, Awake
<1>2. Awake /\ [Next]_vars => Awake'
  <2> SUFFICES ASSUME Awake, [Next]_vars PROVE Awake'
    OBVIOUS
  <2>1. CASE StartDpc
    <3>1. CASE up BY <2>1, <3>1 DEF StartDpc, BusWake, Awake
    <3>2. CASE ~up BY <2>1, <3>2 DEF StartDpc, power, dpcVars, Awake
    <3> QED BY <3>1, <3>2
  <2>2. CASE TxInRx \/ ReadFrame \/ Relock \/ ReadNothing \/ ReadFails \/ Send
    <3>1. dpc \in {"turn", "read", "deliver", "send"}
      BY <2>2 DEF TxInRx, ReadFrame, Relock, ReadNothing, ReadFails, Reading, Send
    <3>2. sleeping' = sleeping
      BY <2>2 DEF TxInRx, ReadFrame, Relock, ReadNothing, ReadFails, Send, power
    <3> QED BY <3>1, <3>2 DEF Awake
  <2>3. CASE ReadInVain
    <3>1. dpc \in {"turn", "read"} /\ sleeping' = sleeping BY <2>3 DEF ReadInVain, power
    <3> QED BY <3>1 DEF Awake
  <2>4. CASE Decide \/ Finish BY <2>4 DEF Decide, Finish, Awake
  <2>5. CASE Watchdog BY <2>5, WatchdogIsLate
  <2>6. CASE TxCtlNow \/ TxCtlWait \/ Stop
    BY <2>6 DEF TxCtlNow, TxCtlWait, Stop, BusWake, dpcVars, Awake
  <2>7. CASE Restart \/ TxCtlDone \/ TxCtlTimeout \/ Isr \/ TxData \/ Device \/ UNCHANGED vars
    <3>1. dpc' = dpc /\ sleeping' = sleeping
      BY <2>7 DEF Restart, TxCtlDone, TxCtlTimeout, Isr, TxData, Enqueue, Look, Kick,
                  Device, Consume, Offer, HandleNak, vars, power, dpcVars
    <3> QED BY <3>1 DEF Awake
  <2> QED BY <2>1, <2>2, <2>3, <2>4, <2>5, <2>6, <2>7 DEF Next, Dpc, TxCtl
<1>3. Awake => AwakeTransfers BY DEF Awake, AwakeTransfers
<1> QED BY <1>1, <1>2, <1>3, PTL DEF Spec
=============================================================================
