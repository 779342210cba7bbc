------------------------------- MODULE SdioBus -------------------------------
(* The SDIO bus of the Broadcom Wi-Fi driver (bcmdhd, dhd_sdio.c) as this
   repository builds it: interrupts out of band, no interrupt thread, a device
   that sleeps by itself (SLPAUTO), one packet queue, credits counted in sequence
   numbers.  The thread that runs dhdsdio_dpc, the interrupt handler, the
   watchdog, a sender of data, a sender of control frames, and the stop and
   restart of the bus work on the same fields; all but the first two and the
   sender of data hold the lock sdlock, which the dpc lets go while it hands a
   received frame to the network stack.                                        *)
EXTENDS Naturals, Sequences, FiniteSetsExt

CONSTANTS
  SDPCM_SEQUENCE_WRAP, \* sequence numbers are taken modulo this
  InitMax,       \* tx_max after a stop of the bus (4)
  Unlikely,      \* the largest window that is believed (0x70)
  DongleBufs,    \* receive buffers of the device
  GlomSize,      \* packets sent as one transfer
  FCHI, FCLOW,   \* queue lengths at which the stack is stopped and resumed
  QLEN,          \* length at which the queue is full
  RxBound,       \* frames that one run of the dpc reads (dhd_rxbound)
  IdleTime,      \* watchdog ticks without work before the bus sleeps
  SlowStack,     \* may dhd_rx_frame take longer than that?
  Faults,        \* may a transfer fail?
  MaxStops       \* bound on the restarts

ASSUME SdioConstants ==
  /\ {SDPCM_SEQUENCE_WRAP, InitMax, Unlikely, DongleBufs, GlomSize, FCHI, FCLOW,
      QLEN, RxBound, IdleTime} \subseteq Nat \ {0}
  /\ MaxStops \in Nat
  /\ SDPCM_SEQUENCE_WRAP % 2 = 0
  /\ InitMax <= DongleBufs
  /\ DongleBufs <= Unlikely /\ 2 * Unlikely < SDPCM_SEQUENCE_WRAP
  /\ FCLOW <= FCHI /\ FCHI <= QLEN
  /\ {SlowStack, Faults} \subseteq BOOLEAN

VARIABLES
  up,          \* busstate is DHD_BUS_DATA
  txq,         \* packets in bus->txq
  txoff,       \* the stack is told to stop
  tx_seq, tx_max,
  ctrl,        \* the number in the control frame that waits for the dpc
  rxskip,
  dpc_sched, ipend, intdis,
  intstatus,   \* FRAME_AVAIL is left over from the last run of the dpc
  sleeping, idlecount, activity,
  wdTimer,     \* the watchdog timer runs
  sem,         \* the dpc thread is woken
  dpc,         \* where dhdsdio_dpc is
  rxleft, resched,   \* its local variables
  txd,         \* where dhd_bus_txdata is
  ctl,         \* where dhd_bus_txctl is
  stops,
  \* the device:
  expects,     \* the sequence number it expects next
  held,        \* frames in its buffers
  out,         \* the credit in the header of each frame it offers
  frameInd, nakHandled,  \* bits of its interrupt status
  badSeq       \* it met a frame out of sequence

queue   == <<txq, txoff>>
window  == <<tx_seq, tx_max>>
control == <<ctrl, ctl>>
power   == <<sleeping, idlecount, activity, wdTimer>>
dpcVars == <<dpc, rxleft, resched>>
device  == <<expects, held, out, frameInd, nakHandled, badSeq>>
vars == <<up, queue, window, control, rxskip, dpc_sched, ipend, intdis,
          intstatus, power, sem, dpcVars, txd, stops, device>>

-----------------------------------------------------------------------------
PlusUnwrapped(s, n) == s + n
Plus(s, n) == (s + n) % SDPCM_SEQUENCE_WRAP
(* (uint8)(m - s) *)
Ahead(m, s) == (m + SDPCM_SEQUENCE_WRAP - s) % SDPCM_SEQUENCE_WRAP
Window == Ahead(tx_max, tx_seq)
NotNegative == Window < SDPCM_SEQUENCE_WRAP \div 2

DATAOK == Window > 1 /\ NotNegative
AnyCredit == NotNegative
TXCTLOK == Window # 0 /\ NotNegative
DATABUFCNT == Window - 1

Numbers == 0..(SDPCM_SEQUENCE_WRAP - 1)
NoFrame == SDPCM_SEQUENCE_WRAP
ctrl_frame_stat == ctrl # NoFrame

(* the dpc owns sdlock in all its steps but one *)
LockFree == dpc \in {"idle", "deliver"}

TypeOK ==
  /\ {up, txoff, rxskip, dpc_sched, ipend, intdis, intstatus, sleeping,
      activity, wdTimer, sem, resched, frameInd, nakHandled, badSeq}
       \subseteq BOOLEAN
  /\ txq \in 0..QLEN
  /\ {tx_seq, tx_max, expects} \subseteq Numbers
  /\ ctrl \in Numbers \cup {NoFrame}
  /\ idlecount \in 0..IdleTime
  /\ rxleft \in 0..RxBound
  /\ dpc \in {"idle", "turn", "read", "deliver", "send", "decide", "finish"}
  /\ txd \in {"idle", "look", "kick"}
  /\ ctl \in {"idle", "wait"}
  /\ stops \in 0..MaxStops
  /\ held \in Nat
  /\ out \in {<<>>} \cup {<<m>> : m \in Numbers}

(* a bus that was attached and started *)
Init ==
  /\ up = TRUE
  /\ txq = 0 /\ txoff = FALSE
  /\ tx_seq = SDPCM_SEQUENCE_WRAP - 1 /\ tx_max = 0
  /\ ctrl = NoFrame /\ ctl = "idle"
  /\ rxskip = FALSE
  /\ dpc_sched = FALSE /\ ipend = FALSE /\ intdis = FALSE /\ intstatus = FALSE
  /\ sleeping = FALSE /\ idlecount = 0 /\ activity = TRUE /\ wdTimer = TRUE
  /\ sem = FALSE /\ dpc = "idle" /\ rxleft = 0 /\ resched = FALSE
  /\ txd = "idle"
  /\ stops = 0
  /\ expects = SDPCM_SEQUENCE_WRAP - 1 /\ held = 0 /\ out = <<>>
  /\ frameInd = FALSE /\ nakHandled = FALSE /\ badSeq = FALSE

-----------------------------------------------------------------------------
(* dhdsdio_clkctl(CLK_AVAIL), with BUS_WAKE before it *)
ClockOnly ==
  /\ activity' = TRUE /\ wdTimer' = TRUE /\ idlecount' = 0
  /\ UNCHANGED sleeping
BusWake ==
  /\ sleeping' = FALSE /\ idlecount' = 0
  /\ activity' = TRUE /\ wdTimer' = TRUE

(* n frames, numbered from s on, reach the device, or the transfer fails and
   the number is used again; a transfer to a sleeping or stopped device fails  *)
Sent(s, n) ==
  /\ up /\ ~sleeping'
  /\ tx_seq' = Plus(tx_seq, n)
  /\ expects' = Plus(s, n)
  /\ held' = held + n
  /\ badSeq' = (badSeq \/ s # expects)
NotSent ==
  /\ Faults \/ ~up \/ sleeping'
  /\ UNCHANGED <<tx_seq, expects, held, badSeq>>
Transfer(s, n) == Sent(s, n) \/ NotSent

(* In dhdsdio_sendpendctl the header has the number of the time the frame was made,
   and is corrected                                                            *)
FrameSeqMade == ctrl
FrameSeq == IF ctrl # tx_seq THEN tx_seq ELSE ctrl

(* what waits for control frames goes before data *)
ControlLast == TXCTLOK /\ ctrl_frame_stat /\ ~(DATAOK /\ txq > 0)
ControlFirst == TXCTLOK /\ ctrl_frame_stat

sendpendctl ==
  /\ Transfer(FrameSeq, 1)
  /\ ctrl' = NoFrame
  /\ UNCHANGED <<queue, ctl, tx_max>>

(* one turn of the loop of dhdsdio_sendfromq, and its flow control at the end *)
GlomCount == Min({DATABUFCNT, GlomSize, txq})
sendfromq ==
  /\ Transfer(tx_seq, GlomCount)
  /\ txq' = txq - GlomCount
  /\ txoff' = (txoff /\ (~up \/ txq' >= FCLOW))
  /\ UNCHANGED <<control, tx_max>>

-----------------------------------------------------------------------------
(* the device has handled a NAK and sends the frame again (dhdsdio_hostmail) *)
SkipsOn(mail) == rxskip
StillSkips(mail) == rxskip /\ ~mail

(* dhdsdio_dpc: wake up, take the interrupt status, look for frames *)
StartDpc ==
  /\ dpc = "idle" /\ sem
  /\ sem' = FALSE
  /\ IF ~up
     THEN /\ intstatus' = FALSE
          /\ UNCHANGED <<power, ipend, rxskip, frameInd, nakHandled, dpcVars>>
     ELSE LET mail  == ipend /\ nakHandled
              skip  == StillSkips(mail)
              frame == (intstatus \/ (ipend /\ frameInd) \/ mail) /\ ~skip
          IN /\ BusWake
             /\ ipend' = FALSE
             /\ nakHandled' = (nakHandled /\ ~ipend)
             /\ frameInd' = (frameInd /\ ~ipend)
             /\ rxskip' = skip
             /\ intstatus' = frame
             /\ dpc' = IF frame THEN "turn" ELSE "send"
             /\ rxleft' = IF frame THEN RxBound ELSE 0
             /\ UNCHANGED resched
  /\ UNCHANGED <<up, queue, window, control, dpc_sched, intdis, txd, stops,
                 expects, held, out, badSeq>>

(* the first half of a turn of dhdsdio_readframes: send more to receive more, a
   control frame always, packets if they are many (txinrx_thres)                *)
TxInRx ==
  /\ dpc = "turn" /\ up
  /\ dpc' = "read"
  /\ UNCHANGED <<up, rxskip, dpc_sched, ipend, intdis, intstatus, power, sem,
                 rxleft, resched, txd, stops, out, frameInd, nakHandled>>
  /\ IF ControlFirst THEN sendpendctl
     ELSE \/ DATAOK /\ txq > 0 /\ ~sleeping /\ sendfromq
          \/ UNCHANGED <<queue, control, window, expects, held, badSeq>>

(* the window in a header, unless it is an unlikely one *)
Believed(m) == IF Ahead(m, tx_seq) > Unlikely THEN tx_max ELSE m

LeaveRead(done) ==
  /\ dpc' = "send" /\ rxleft' = 0
  /\ intstatus' = (intstatus /\ ~done /\ ~rxskip')

(* the second half: a control frame is taken, and a data frame goes to the stack
   with the lock released                                                       *)
Reading == dpc = "read" /\ ~sleeping
NextTurn ==
  /\ rxleft' = rxleft - 1
  /\ dpc' = IF rxleft = 1 THEN "send" ELSE "turn"
ReadFrame ==
  /\ Reading /\ out # <<>>
  /\ tx_max' = Believed(Head(out))
  /\ out' = <<>>
  /\ \/ NextTurn
     \/ dpc' = "deliver" /\ UNCHANGED rxleft
  /\ UNCHANGED <<up, queue, tx_seq, control, rxskip, dpc_sched, ipend, intdis,
                 intstatus, power, sem, resched, txd, stops, expects, held,
                 frameInd, nakHandled, badSeq>>

(* dhd_rx_frame returns; the BUS_WAKE here needs SDIO_ISR_THREAD *)
Relock ==
  /\ dpc = "deliver"
  /\ NextTurn
  /\ UNCHANGED <<up, queue, window, control, rxskip, dpc_sched, ipend, intdis,
                 intstatus, power, sem, resched, txd, stops, device>>

ReadNothing ==
  /\ Reading /\ out = <<>>
  /\ UNCHANGED <<up, queue, window, control, rxskip, dpc_sched, ipend, intdis, power,
                 sem, resched, txd, stops, device>>
  /\ LeaveRead(TRUE)

(* dhdsdio_rxfail: a NAK, after which the device sends the frame again *)
ReadFails ==
  /\ Reading /\ out # <<>> /\ Faults
  /\ rxskip' = TRUE
  /\ LeaveRead(FALSE)
  /\ UNCHANGED <<up, queue, window, control, dpc_sched, ipend, intdis, power,
                 sem, resched, txd, stops, device>>

(* the bus went down in dhd_rx_frame, or all reads fail because the device sleeps *)
ReadInVain ==
  /\ (dpc = "turn" /\ ~up) \/ (dpc = "read" /\ sleeping)
  /\ UNCHANGED <<up, queue, window, control, rxskip, dpc_sched, ipend, intdis, power,
                 sem, resched, txd, stops, device>>
  /\ LeaveRead(FALSE)

(* interrupts on again, then a control frame or else packets *)
Send ==
  /\ dpc = "send"
  /\ dpc' = "decide" /\ intdis' = FALSE
  /\ UNCHANGED <<up, rxskip, dpc_sched, ipend, intstatus, power, sem, rxleft,
                 resched, txd, stops, out, frameInd, nakHandled>>
  /\ IF ControlFirst THEN sendpendctl
     ELSE IF DATAOK /\ txq > 0 /\ ~sleeping THEN sendfromq
     ELSE UNCHANGED <<queue, control, window, expects, held, badSeq>>

(* will there be another run? *)
Pending == intstatus \/ ipend \/ (txq > 0 /\ DATAOK)
Decide ==
  /\ dpc = "decide"
  /\ resched' = (ctrl_frame_stat \/ (up /\ Pending))
  /\ intstatus' = (intstatus /\ up)
  /\ dpc' = "finish"
  /\ UNCHANGED <<up, queue, window, control, rxskip, dpc_sched, ipend, intdis,
                 power, sem, rxleft, txd, stops, device>>

Finish ==
  /\ dpc = "finish"
  /\ dpc_sched' = resched
  /\ sem' = (sem \/ resched)
  /\ dpc' = "idle" /\ resched' = FALSE
  /\ UNCHANGED <<up, queue, window, control, rxskip, ipend, intdis,
                 intstatus, power, rxleft, txd, stops, device>>

-----------------------------------------------------------------------------
(* dhdsdio_isr; the level of the interrupt line is that of the device *)
Isr ==
  /\ up /\ ~intdis
  /\ frameInd \/ nakHandled
  /\ ipend' = TRUE /\ intdis' = TRUE
  /\ dpc_sched' = TRUE /\ sem' = TRUE
  /\ UNCHANGED <<up, queue, window, control, rxskip, intstatus, power, dpcVars,
                 txd, stops, device>>

(* dhd_rx_frame is over before the ticks of a sleep have passed *)
Patient == SlowStack \/ dpc # "deliver" \/ activity \/ idlecount + 1 < IdleTime

(* dhd_bus_watchdog schedules the dpc for packets that nobody looks after, counts
   idle ticks, and puts the bus to sleep unless it is busy                      *)
NoneForgotten == FALSE
Forgotten == ~dpc_sched /\ txq > 0
Busy == dpc_sched' \/ rxskip \/ txq > 0
Watchdog ==
  /\ wdTimer /\ up /\ LockFree /\ Patient
  /\ dpc_sched' = (dpc_sched \/ Forgotten)
  /\ sem' = (sem \/ Forgotten)
  /\ IF activity
     THEN activity' = FALSE /\ UNCHANGED <<sleeping, idlecount, wdTimer>>
     ELSE IF idlecount + 1 < IdleTime
     THEN idlecount' = idlecount + 1 /\ UNCHANGED <<sleeping, activity, wdTimer>>
     ELSE /\ idlecount' = 0
          /\ sleeping' = (sleeping \/ ~Busy)
          /\ wdTimer' = ~sleeping'
          /\ UNCHANGED activity
  /\ UNCHANGED <<up, queue, window, control, rxskip, ipend, intdis, intstatus,
                 dpcVars, txd, stops, device>>

-----------------------------------------------------------------------------
(* dhd_bus_txdata, which takes no sdlock: the packet is queued, the stack
   stopped if need be, and the dpc scheduled if nobody seems to have done so    *)
Enqueue ==
  /\ txd = "idle" /\ up /\ ~txoff
  /\ txq' = Min({txq + 1, QLEN})
  /\ txoff' = (txoff \/ txq' >= FCHI)
  /\ txd' = "look"
  /\ UNCHANGED <<up, window, control, rxskip, dpc_sched, ipend, intdis, intstatus,
                 power, sem, dpcVars, stops, device>>
Look ==
  /\ txd = "look"
  /\ txd' = IF dpc_sched THEN "idle" ELSE "kick"
  /\ dpc_sched' = TRUE
  /\ UNCHANGED <<up, queue, window, control, rxskip, ipend, intdis, intstatus,
                 power, sem, dpcVars, stops, device>>
Kick ==
  /\ txd = "kick"
  /\ sem' = TRUE
  /\ txd' = "idle"
  /\ UNCHANGED <<up, queue, window, control, rxskip, dpc_sched, ipend, intdis,
                 intstatus, power, dpcVars, stops, device>>

(* dhd_bus_txctl, with credit and without *)
TxCtlNow ==
  /\ ctl = "idle" /\ up /\ LockFree /\ TXCTLOK
  /\ BusWake
  /\ Transfer(tx_seq, 1)
  /\ UNCHANGED <<up, queue, tx_max, control, rxskip, dpc_sched, ipend, intdis,
                 intstatus, sem, dpcVars, txd, stops, out, frameInd, nakHandled>>
TxCtlWait ==
  /\ ctl = "idle" /\ up /\ LockFree /\ ~TXCTLOK
  /\ BusWake
  /\ ctrl' = tx_seq /\ ctl' = "wait"
  /\ dpc_sched' = TRUE
  /\ sem' = (sem \/ ~dpc_sched)
  /\ UNCHANGED <<up, queue, window, rxskip, ipend, intdis, intstatus, dpcVars,
                 txd, stops, device>>
TxCtlDone ==
  /\ ctl = "wait" /\ LockFree /\ ~ctrl_frame_stat
  /\ ctl' = "idle"
  /\ UNCHANGED <<up, queue, window, ctrl, rxskip, dpc_sched, ipend, intdis,
                 intstatus, power, sem, dpcVars, txd, stops, device>>
StaysThere == ctrl
Withdrawn == NoFrame
TxCtlTimeout ==
  /\ ctl = "wait" /\ LockFree /\ ctrl_frame_stat
  /\ ctl' = "idle" /\ ctrl' = Withdrawn
  /\ UNCHANGED <<up, queue, window, rxskip, dpc_sched, ipend, intdis,
                 intstatus, power, sem, dpcVars, txd, stops, device>>

-----------------------------------------------------------------------------
(* dhd_bus_stop, which wakes the device and forgets nothing of the scheduling *)
Stop ==
  /\ up /\ LockFree /\ stops < MaxStops
  /\ stops' = stops + 1
  /\ up' = FALSE
  /\ BusWake
  /\ txq' = 0
  /\ rxskip' = FALSE
  /\ tx_seq' = 0 /\ tx_max' = InitMax
  /\ intdis' = TRUE
  /\ UNCHANGED <<txoff, control, dpc_sched, ipend, intstatus, sem, dpcVars, txd,
                 device>>

(* dhd_bus_init, after new firmware was loaded; the stack may send again, and
   the firmware reports that it is there                                       *)
Restart ==
  /\ ~up /\ LockFree
  /\ up' = TRUE
  /\ intdis' = FALSE
  /\ txoff' = FALSE
  /\ activity' = TRUE /\ idlecount' = 0 /\ wdTimer' = TRUE
  /\ expects' = 0 /\ held' = 0
  /\ out' = <<InitMax>> /\ frameInd' = TRUE /\ nakHandled' = FALSE
  /\ UNCHANGED <<txq, window, control, rxskip, dpc_sched, ipend, intstatus,
                 sleeping, sem, dpcVars, txd, stops, badSeq>>

-----------------------------------------------------------------------------
(* The device consumes a frame, offers one with its credit in the header, and
   answers a NAK                                                               *)
Credit == Plus(expects, DongleBufs - held)
Consume ==
  /\ up /\ held > 0
  /\ held' = held - 1
  /\ UNCHANGED <<up, queue, window, control, rxskip, dpc_sched, ipend, intdis,
                 intstatus, power, sem, dpcVars, txd, stops, expects, out, frameInd,
                 nakHandled, badSeq>>
Offer ==
  /\ up /\ out = <<>>
  /\ out' = <<Credit>>
  /\ frameInd' = TRUE
  /\ UNCHANGED <<up, queue, window, control, rxskip, dpc_sched, ipend, intdis,
                 intstatus, power, sem, dpcVars, txd, stops, expects, held,
                 nakHandled, badSeq>>
HandleNak ==
  /\ up /\ rxskip /\ ~nakHandled
  /\ nakHandled' = TRUE
  /\ UNCHANGED <<up, queue, window, control, rxskip, dpc_sched, ipend, intdis,
                 intstatus, power, sem, dpcVars, txd, stops, expects, held, out,
                 frameInd, badSeq>>

Dpc == StartDpc \/ TxInRx \/ ReadFrame \/ Relock \/ ReadNothing \/ ReadFails
         \/ ReadInVain \/ Send \/ Decide \/ Finish
TxData == Enqueue \/ Look \/ Kick
TxCtl == TxCtlNow \/ TxCtlWait \/ TxCtlDone \/ TxCtlTimeout
Device == Consume \/ Offer \/ HandleNak

Next == Dpc \/ Isr \/ Watchdog \/ TxData \/ TxCtl \/ Stop \/ Restart \/ Device
Spec == Init /\ [][Next]_vars

(* Threads and timers run, a call that began goes on, and the device consumes
   frames, tells new credit, and answers; nothing makes a caller give up, and a
   read may fail any number of times but not for ever.                         *)
Fairness ==
  /\ WF_vars(Dpc) /\ WF_vars(Isr) /\ WF_vars(Watchdog)
  /\ WF_vars(Look \/ Kick) /\ SF_vars(TxCtlDone)
  /\ WF_vars(Consume) /\ WF_vars(Offer /\ tx_max # Credit) /\ WF_vars(HandleNak)
  /\ SF_vars(ReadFrame)
FairSpec == Spec /\ Fairness

-----------------------------------------------------------------------------
(* The window arithmetic, in bytes that wrap, never lets the driver send more
   than the device has buffers for (DATAOK, TXCTLOK, DATABUFCNT).              *)
NoOverrun == held <= DongleBufs

(* The device never sees a frame out of sequence, though numbers are taken in
   three functions, transfers fail and the bus restarts under a waiting control
   frame (dhdsdio_sendpendctl corrects its number).                            *)
InSequence == ~badSeq

(* The dpc never transfers to a device that the watchdog put to sleep while the
   lock was released for dhd_rx_frame.                                         *)
AwakeTransfers == dpc \in {"turn", "read", "send"} => ~sleeping

(* The dpc sends a control frame only while the caller that owns the buffer
   waits for it (dhd_bus_txctl withdraws it on a time-out).                    *)
BufferHasOwner == ctrl_frame_stat => ctl = "wait"

(* Packets do not stay in the queue: a wake-up lost between dhd_bus_txdata and the
   end of the dpc is made good by the watchdog.  Control frames go first and take
   a credit each, so callers that never stop could starve data.                *)
IoctlsEnd == <>[][~TxCtlNow /\ ~TxCtlWait]_vars
QueueMoves == IoctlsEnd /\ <>[](up /\ txq > 0) => []<><<txq' < txq>>_vars

(* A control frame that found no credit is sent, without the time-out of its caller. *)
ControlIsSent == []<>(~up \/ ctl = "idle")

(* What the device offers is read, even after a NAK and a sleep. *)
OfferedIsRead == []<>(~up \/ out = <<>>)

=============================================================================
