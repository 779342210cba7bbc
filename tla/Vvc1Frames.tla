----------------------------- MODULE Vvc1Frames -----------------------------
(***************************************************************************)
(* The frames of the VC-1 decoder (vvc1.c): the buffers the hardware       *)
(* decodes into, the vframes that show them, the three queues a vframe     *)
(* goes round, and the two pools that a reset flips between.               *)
(*                                                                         *)
(* The interrupt handler, the recycle timer, the receiver and the hardware *)
(* run beside each other.  A picture shown as two fields takes two vframes *)
(* of one buffer, so a buffer is counted in vfbuf_use and goes back to the *)
(* hardware when the last of them is recycled.                             *)
(*                                                                         *)
(* The order of newframe_q and recycle_q decides nothing, so they are sets.*)
(* What is assumed of the world is said where it is used: FieldHold,       *)
(* FirmwareReads, LateFrames, and that a reset does not meet the handler   *)
(* between two fields.                                                     *)
(***************************************************************************)
EXTENDS Naturals, Sequences, FiniteSets, Functions

CONSTANTS Buffers,    \* the decoding buffers (DECODE_BUFFER_NUM_MAX of them)
          Slots,      \* the vframes of one pool (VF_POOL_SIZE)
          Scans,      \* has a buffer pictures of two fields (TRUE), of one (FALSE)?
          NoBuffer    \* DECODE_BUFFER_NUM_MAX as an index, 0 in a register

ASSUME FrameConstants ==
  /\ IsFiniteSet(Buffers) /\ Buffers # {}
  /\ IsFiniteSet(Slots) /\ Slots # {}
  /\ NoBuffer \notin Buffers
  /\ Scans \in [Buffers -> SUBSET BOOLEAN]

VARIABLES
  newq, dispq, recyq,  \* newframe_q, display_q, recycle_q
  held,                \* vframes the receiver has
  index,               \* vframe_s.index
  use,                 \* vfbuf_use
  pool,                \* cur_pool_idx
  intra,               \* intra_output
  field,               \* the handler has queued the first of two fields
  bufout,              \* the picture in VC1_BUFFEROUT
  bufin,               \* the buffer in VC1_BUFFERIN
  free                 \* buffers the hardware may decode into

vars == <<newq, dispq, recyq, held, index, use, pool, intra, field,
          bufout, bufin, free>>
hardware == <<bufout, bufin, free>>

Frames == {0, 1} \X Slots
PoolOf(f) == f[1]
Fresh(p) == {f \in Frames : PoolOf(f) = p}

Pictures == {p \in [buf : Buffers, interlaced : BOOLEAN, intra : BOOLEAN] :
               p.interlaced \in Scans[p.buf]}
NoPicture == [buf |-> NoBuffer, interlaced |-> FALSE, intra |-> FALSE]

Init ==
  /\ newq = Fresh(0) /\ dispq = <<>> /\ recyq = {} /\ held = {}
  /\ index = [f \in Frames |-> NoBuffer]
  /\ use = [b \in Buffers |-> 0]
  /\ pool = 0
  /\ intra = FALSE
  /\ field = FALSE
  /\ bufout = NoPicture /\ bufin = NoBuffer /\ free = Buffers

----------------------------------------------------------------------------
(* The hardware and its firmware.                                          *)

\* The firmware takes a release from VC1_BUFFERIN before it puts out a picture
\* that may be thrown away, for the handler then writes the register unread.
FirmwareReads == intra \/ bufin = NoBuffer

\* A picture is decoded into a free buffer and put into VC1_BUFFEROUT.
Decode(p) ==
  /\ bufout = NoPicture
  /\ p.buf \in free
  /\ FirmwareReads
  /\ bufout' = p
  /\ free' = free \ {p.buf}
  /\ UNCHANGED <<newq, dispq, recyq, held, index, use, pool, intra, field, bufin>>

\* The firmware takes a buffer back and clears VC1_BUFFERIN.
TakeBack ==
  /\ bufin # NoBuffer
  /\ free' = free \cup {bufin}
  /\ bufin' = NoBuffer
  /\ UNCHANGED <<newq, dispq, recyq, held, index, use, pool, intra, field, bufout>>

----------------------------------------------------------------------------
(* vvc1_isr.                                                               *)

Interrupt == bufout # NoPicture
Unwanted == ~intra /\ ~bufout.intra

\* pictures before the first I picture are given straight back
DropPicture ==
  /\ Interrupt
  /\ Unwanted
  /\ bufin' = bufout.buf
  /\ bufout' = NoPicture
  /\ UNCHANGED <<newq, dispq, recyq, held, index, use, pool, intra, field, free>>

UseOnce(b) == [use EXCEPT ![b] = 1]
CountUp(b) == [use EXCEPT ![b] = @ + 1]

\* one vframe for the picture: off newframe_q, counted, on display_q
Queue(f) ==
  /\ newq' = newq \ {f}
  /\ index' = [index EXCEPT ![f] = bufout.buf]
  /\ use' = CountUp(bufout.buf)
  /\ dispq' = Append(dispq, f)
  /\ UNCHANGED <<recyq, held, pool, bufin, free>>

\* the whole picture, or its first field, and the notification
ShowPicture(f) ==
  /\ Interrupt
  /\ ~Unwanted
  /\ ~field
  /\ f \in newq
  /\ Queue(f)
  /\ intra' = TRUE
  /\ field' = bufout.interlaced
  /\ bufout' = IF bufout.interlaced THEN bufout ELSE NoPicture

\* the second field; the receiver was notified of the first before this
ShowSecondField(f) ==
  /\ field
  /\ f \in newq
  /\ Queue(f)
  /\ field' = FALSE
  /\ bufout' = NoPicture
  /\ UNCHANGED intra

----------------------------------------------------------------------------
(* The receiver: vvc1_vf_get and vvc1_vf_put.                              *)

Get ==
  /\ dispq # <<>>
  /\ held' = held \cup {Head(dispq)}
  /\ dispq' = Tail(dispq)
  /\ UNCHANGED <<newq, recyq, index, use, pool, intra, field, hardware>>

\* A field stays with the receiver for a display period at least, and the
\* handler queues both within microseconds.
FieldHold(f) == field => index[f] # bufout.buf

TakesAny(f) == TRUE
Takes(f) == PoolOf(f) = pool

\* a vframe of the other pool was lost in a reset and is forgotten
Put(f) ==
  /\ f \in held
  /\ FieldHold(f)
  /\ held' = held \ {f}
  /\ recyq' = IF Takes(f) THEN recyq \cup {f} ELSE recyq
  /\ UNCHANGED <<newq, dispq, index, use, pool, intra, field, hardware>>

----------------------------------------------------------------------------
(* vvc1_put_timer_func.                                                    *)

\* the count of a buffer that a vframe leaves
LastUseFirst(b) == TRUE
LastUseLate(b) == use[b] = 0
LastUse(b) == use[b] = 1

RecycledIndex(f) == IF index[f] \in Buffers /\ LastUse(index[f])
                    THEN [index EXCEPT ![f] = NoBuffer] ELSE index

\* newframe_q after it: a vframe of the other pool was lost in a reset
RenewedLast(f) == IF index[f] \in Buffers /\ LastUse(index[f]) /\ PoolOf(f) = pool
                  THEN newq \cup {f} ELSE newq
Renewed(f) == IF PoolOf(f) = pool THEN newq \cup {f} ELSE newq

\* One turn of the loop: the vframe's buffer is counted down and released at
\* zero; the loop waits while the firmware has not read VC1_BUFFERIN.
Recycle(f) ==
  /\ bufin = NoBuffer
  /\ f \in recyq
  /\ recyq' = recyq \ {f}
  /\ use' = IF index[f] \in Buffers THEN [use EXCEPT ![index[f]] = @ - 1] ELSE use
  /\ bufin' = IF index[f] \in Buffers /\ LastUse(index[f]) THEN index[f] ELSE bufin
  /\ index' = RecycledIndex(f)
  /\ newq' = Renewed(f)
  /\ UNCHANGED <<dispq, held, pool, intra, field, bufout, free>>

OtherPoolNever == pool
OtherPool == 1 - pool

\* The vframes a receiver may still have after a reset: those it had of the
\* pool that is left, never one it kept through the reset before.
LateFrames == SUBSET {f \in held : PoolOf(f) = pool}

\* The restart of a decoder that lost its way, and the receiver's own reset
\* (vvc1_event_cb): vvc1_local_init empties the queues and fills newframe_q
\* from the other pool, vvc1_prot_init clears the registers.
Reset ==
  /\ ~field
  /\ pool' = OtherPool
  /\ newq' = Fresh(pool') /\ dispq' = <<>> /\ recyq' = {}
  /\ held' \in LateFrames
  /\ index' = [f \in Frames |-> IF PoolOf(f) = pool' THEN NoBuffer ELSE index[f]]
  /\ use' = [b \in Buffers |-> 0]
  /\ bufout' = NoPicture /\ bufin' = NoBuffer /\ free' = Buffers
  /\ UNCHANGED <<intra, field>>

----------------------------------------------------------------------------
Isr == DropPicture \/ \E f \in Frames : ShowPicture(f) \/ ShowSecondField(f)

Next ==
  \/ \E p \in Pictures : Decode(p)
  \/ TakeBack
  \/ Isr
  \/ Get
  \/ \E f \in Frames : Put(f) \/ Recycle(f)
  \/ Reset

Spec == Init /\ [][Next]_vars

\* The firmware and the handler answer, the timer comes back every 10 ms, and
\* the receiver shows and returns what it is given.
FairSpec ==
  /\ Spec
  /\ WF_vars(TakeBack) /\ WF_vars(Isr) /\ WF_vars(Get)
  /\ \A s \in Slots : /\ WF_vars(\E p \in {0, 1} : Put(<<p, s>>))
                      /\ SF_vars(\E p \in {0, 1} : Recycle(<<p, s>>))

----------------------------------------------------------------------------
(* Properties.                                                             *)

TypeOK ==
  /\ newq \subseteq Frames /\ recyq \subseteq Frames /\ held \subseteq Frames
  /\ dispq \in Seq(Frames)
  /\ index \in [Frames -> Buffers \cup {NoBuffer}]
  /\ use \in [Buffers -> Nat]
  /\ pool \in {0, 1}
  /\ intra \in BOOLEAN /\ field \in BOOLEAN
  /\ bufout \in Pictures \cup {NoPicture}
  /\ bufin \in Buffers \cup {NoBuffer}
  /\ free \subseteq Buffers

\* the vframes of the present pool that show buffer b, wherever they are
Showing(b) == {f \in Range(dispq) \cup held \cup recyq :
                 PoolOf(f) = pool /\ index[f] = b}

\* vfbuf_use counts the vframes of a buffer exactly, through fields, late
\* returns and resets.
CountsExact == \A b \in Buffers : use[b] = Cardinality(Showing(b))

\* The hardware never decodes into, nor is offered, a buffer that is queued
\* for display or on the screen.
ShownIsSafe ==
  \A f \in Range(dispq) \cup held :
    PoolOf(f) = pool => index[f] \notin free \cup {bufin}

\* the vframes of the present pool that the receiver has
HeldNow == {f \in held : PoolOf(f) = pool}

\* Every vframe of the present pool is in exactly one place, and once in it.
EachInOnePlace ==
  /\ Fresh(pool) = newq \cup Range(dispq) \cup recyq \cup HeldNow
  /\ newq \cap (Range(dispq) \cup recyq \cup HeldNow) = {}
  /\ Range(dispq) \cap (recyq \cup HeldNow) = {}
  /\ recyq \cap HeldNow = {}
  /\ IsInjective(dispq)

\* newframe_q has a vframe whenever the handler looks for one: its "fatal
\* error, no available buffer slot" return, which would leave the interrupt
\* and VC1_BUFFEROUT standing, is never taken.
SlotForPicture == Interrupt /\ ~Unwanted => newq # {}

\* A buffer that was taken for a picture always comes back to the hardware.
BuffersComeBack == \A b \in Buffers : []<>(b \in free)

=============================================================================
