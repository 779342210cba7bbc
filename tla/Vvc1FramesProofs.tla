--------------------------- MODULE Vvc1FramesProofs ---------------------------
(***************************************************************************)
(* Theorems about the frames of vvc1.c, for any number of buffers, any     *)
(* pool and any mix of field and frame pictures: where a vframe is, what   *)
(* vfbuf_use counts, and that the hardware is never given a buffer that is *)
(* shown.  One inductive invariant carries these; with a second one beside *)
(* it, a pool that is large enough is never empty for the handler.         *)
(***************************************************************************)
EXTENDS Vvc1Frames, FiniteSetTheorems, SequenceTheorems, TLAPS

\* kfifo_put on display_q: the vframe joins the queued ones, once.
LEMMA AppendRange ==
  ASSUME NEW S, NEW s \in Seq(S), NEW e \in S
  PROVE  /\ Range(Append(s, e)) = Range(s) \cup {e}
         /\ IsInjective(s) /\ e \notin Range(s) => IsInjective(Append(s, e))
<1> DEFINE t == Append(s, e)
<1>1. /\ t \in Seq(S) /\ Len(t) = Len(s) + 1 /\ Len(s) \in Nat
      /\ \A i \in 1..Len(s) : t[i] = s[i]
      /\ t[Len(s) + 1] = e
  BY AppendProperties, LenProperties
<1>2. DOMAIN s = 1..Len(s) /\ DOMAIN t = 1..(Len(s) + 1)
  BY <1>1, LenProperties
<1> HIDE DEF t
<1>3. Range(t) = Range(s) \cup {e}
  <2>1. ASSUME NEW i \in DOMAIN t PROVE t[i] \in Range(s) \cup {e}
    <3>1. i \in 1..Len(s) \/ i = Len(s) + 1 BY <1>1, <1>2
    <3> QED BY <1>1, <1>2, <3>1 DEF Range
  <2>2. ASSUME NEW i \in DOMAIN s PROVE s[i] \in Range(t)
    <3>1. i \in DOMAIN t /\ t[i] = s[i] BY <1>1, <1>2
    <3> QED BY <3>1 DEF Range
  <2>3. e \in Range(t)
    <3>1. Len(s) + 1 \in DOMAIN t BY <1>1, <1>2
    <3> QED BY <1>1, <3>1 DEF Range
  <2> QED BY <2>1, <2>2, <2>3 DEF Range
<1>4. ASSUME IsInjective(s), e \notin Range(s) PROVE IsInjective(t)
  <2> SUFFICES ASSUME NEW a \in DOMAIN t, NEW b \in DOMAIN t, t[a] = t[b]
               PROVE  a = b
    BY DEF IsInjective
  <2>1. \A i \in DOMAIN t : i = Len(s) + 1 \/ (i \in DOMAIN s /\ t[i] = s[i])
    BY <1>1, <1>2
  <2>2. \A i \in DOMAIN s : s[i] # e BY <1>4 DEF Range
  <2> QED BY <1>1, <1>4, <2>1, <2>2 DEF IsInjective
<1> QED BY <1>3, <1>4 DEF t

\* kfifo_get from display_q: exactly the first vframe leaves.
LEMMA TailRange ==
  ASSUME NEW S, NEW s \in Seq(S), s # <<>>
  PROVE  /\ Range(s) = {Head(s)} \cup Range(Tail(s))
         /\ IsInjective(s) => IsInjective(Tail(s)) /\ Head(s) \notin Range(Tail(s))
<1> DEFINE t == Tail(s)
<1>1. /\ t \in Seq(S) /\ Len(t) = Len(s) - 1 /\ Len(s) \in Nat \ {0}
      /\ \A i \in 1..Len(t) : t[i] = s[i + 1]
  BY HeadTailProperties, EmptySeq
<1>2. DOMAIN s = 1..Len(s) /\ DOMAIN t = 1..(Len(s) - 1) /\ Head(s) = s[1]
  BY <1>1, LenProperties
<1> DEFINE h == Head(s)
<1> HIDE DEF t, h
<1>3. \A i \in DOMAIN s : i = 1 \/ (i - 1 \in DOMAIN t /\ t[i - 1] = s[i])
  BY <1>1, <1>2
<1>4. \A i \in DOMAIN t : i + 1 \in DOMAIN s /\ t[i] = s[i + 1] /\ i + 1 # 1
  BY <1>1, <1>2
<1>5. 1 \in DOMAIN s /\ h = s[1] BY <1>1, <1>2 DEF h
<1>6. Range(s) = {h} \cup Range(t) BY <1>3, <1>4, <1>5 DEF Range
<1>7. ASSUME IsInjective(s) PROVE IsInjective(t) /\ h \notin Range(t)
  <2>1. h \notin Range(t) BY <1>4, <1>5, <1>7 DEF Range, IsInjective
  <2>2. ASSUME NEW a \in DOMAIN t, NEW b \in DOMAIN t, t[a] = t[b] PROVE a = b
    <3>1. a + 1 = b + 1 BY <1>4, <1>7, <2>2 DEF IsInjective
    <3>2. a \in Nat /\ b \in Nat BY <1>2, <1>1
    <3> QED BY <3>1, <3>2
  <2> QED BY <2>1, <2>2 DEF IsInjective
<1> QED BY <1>6, <1>7 DEF t, h

-----------------------------------------------------------------------------
\* the vframes of the present pool that are in use
Shown == Range(dispq) \cup recyq \cup HeldNow

\* what is shown, what the hardware may take and what it puts out are different
ShownApart ==
  /\ bufin \notin free
  /\ \A f \in Shown : index[f] \in Buffers /\ index[f] \notin free \cup {bufin}
  /\ bufout # NoPicture =>
       /\ bufout.buf \notin free \cup {bufin}
       /\ ~field => \A f \in Shown : index[f] # bufout.buf

\* between two fields the picture stands, and its first field is not yet recycled
FieldsTogether ==
  field => bufout # NoPicture /\ intra /\ \A f \in recyq : index[f] # bufout.buf

IInv == TypeOK /\ EachInOnePlace /\ CountsExact /\ ShownApart /\ FieldsTogether

\* Pictures have buffers, the absent picture has none, and the pools are finite.
LEMMA DataTypes ==
  /\ NoPicture.buf = NoBuffer /\ NoPicture \notin Pictures
  /\ \A p \in Pictures : p.buf \in Buffers /\ p.interlaced \in BOOLEAN
  /\ \A f \in Frames : PoolOf(f) \in {0, 1}
  /\ IsFiniteSet(Frames)
<1>1. NoPicture.buf = NoBuffer BY DEF NoPicture
<1>2. \A p \in Pictures : p.buf \in Buffers /\ p.interlaced \in BOOLEAN
  BY DEF Pictures
<1>3. NoPicture \notin Pictures BY <1>1, <1>2, FrameConstants
<1>4. \A f \in Frames : PoolOf(f) \in {0, 1} BY DEF Frames, PoolOf
<1>5. IsFiniteSet({0, 1})
  <2>1. IsFiniteSet(0..1) BY FS_Interval, 0 \in Int, 1 \in Int
  <2>2. 0..1 = {0, 1} OBVIOUS
  <2> QED BY <2>1, <2>2
<1>6. IsFiniteSet(Frames) BY <1>5, FrameConstants, FS_Product DEF Frames
<1> QED BY <1>1, <1>2, <1>3, <1>4, <1>6

\* What is counted for a buffer are the vframes in use that name it.
LEMMA ShowingIs ==
  ASSUME TypeOK, EachInOnePlace
  PROVE  /\ \A b : Showing(b) = {f \in Shown : index[f] = b}
         /\ \A b : IsFiniteSet(Showing(b))
         /\ Shown \subseteq Fresh(pool) /\ newq \subseteq Fresh(pool)
         /\ newq \cap Shown = {}
         /\ \A f \in Shown : f \in Frames /\ PoolOf(f) = pool
<1>1. Shown \subseteq Fresh(pool) /\ newq \subseteq Fresh(pool) /\ newq \cap Shown = {}
  BY DEF EachInOnePlace, Shown
<1>2. \A f \in Fresh(pool) : f \in Frames /\ PoolOf(f) = pool BY DEF Fresh
<1>3. \A b : Showing(b) = {f \in Shown : index[f] = b}
  BY <1>1, <1>2 DEF Showing, Shown, HeldNow
<1>4. ASSUME NEW b PROVE IsFiniteSet(Showing(b))
  <2>1. Showing(b) \in SUBSET Frames BY <1>1, <1>2, <1>3
  <2> QED BY <2>1, DataTypes, FS_Subset
<1> QED BY <1>1, <1>2, <1>3, <1>4

\* The invariant holds when vvc1_local_init has filled newframe_q.
LEMMA InitInv == Init => IInv
<1> SUFFICES ASSUME Init PROVE IInv
  OBVIOUS
<1>1. Range(dispq) = {} /\ IsInjective(dispq) /\ dispq \in Seq(Frames)
  <2>1. dispq = <<>> BY DEF Init
  <2>2. DOMAIN dispq = {} BY <2>1
  <2> QED BY <2>1, <2>2, EmptySeq DEF Range, IsInjective
<1>2. HeldNow = {} BY DEF Init, HeldNow
<1>3. TypeOK
  BY <1>1, FrameConstants DEF Init, TypeOK, Fresh, Frames
<1>4. EachInOnePlace BY <1>1, <1>2 DEF Init, EachInOnePlace
<1>5. CountsExact
  <2>1. \A b \in Buffers : Showing(b) = {} BY <1>1 DEF Init, Showing
  <2> QED BY <2>1, FS_EmptySet DEF Init, CountsExact
<1>6. ShownApart /\ FieldsTogether
  BY <1>1, <1>2, FrameConstants DEF Init, ShownApart, Shown, FieldsTogether
<1> QED BY <1>3, <1>4, <1>5, <1>6 DEF IInv

\* The hardware takes only free buffers, the firmware only the one it is given,
\* and a picture that vvc1_isr throws away was never shown.
LEMMA HardwareStep ==
  ASSUME IInv, (\E p \in Pictures : Decode(p)) \/ TakeBack \/ DropPicture
  PROVE  IInv'
<1> USE DEF IInv
<1>1. UNCHANGED <<newq, dispq, recyq, held, index, use, pool, intra, field>>
  BY DEF Decode, TakeBack, DropPicture
<1>2. EachInOnePlace' /\ CountsExact'
  BY <1>1 DEF EachInOnePlace, HeldNow, CountsExact, Showing
<1>3. Shown' = Shown BY <1>1 DEF Shown, HeldNow
<1>4. ASSUME NEW p \in Pictures, Decode(p) PROVE TypeOK' /\ ShownApart' /\ FieldsTogether'
  <2>1. bufout' = p /\ free' = free \ {p.buf} /\ bufin' = bufin /\ p.buf \in free
        /\ bufout = NoPicture /\ (intra \/ bufin = NoBuffer)
    BY <1>4 DEF Decode, FirmwareReads
  <2>2. TypeOK' BY <1>1, <2>1 DEF TypeOK
  <2>3. ~field BY <2>1 DEF FieldsTogether
  <2>4. FieldsTogether' BY <1>1, <2>3 DEF FieldsTogether
  <2>5. p.buf # bufin BY <2>1 DEF ShownApart
  <2>6. ShownApart' BY <1>1, <1>3, <2>1, <2>3, <2>5 DEF ShownApart
  <2> QED BY <2>2, <2>4, <2>6
<1>5. CASE TakeBack
  <2>1. /\ bufout' = bufout /\ bufin \in Buffers /\ free' = free \cup {bufin}
        /\ bufin' = NoBuffer
    BY <1>5 DEF TakeBack, TypeOK
  <2>2. TypeOK' BY <1>1, <2>1 DEF TypeOK
  <2>3. FieldsTogether' BY <1>1, <2>1 DEF FieldsTogether
  <2>4. bufout # NoPicture => bufout.buf \in Buffers BY DataTypes DEF TypeOK
  <2>5. \A b \in Buffers : b \notin free \cup {bufin} => b \notin (free \cup {bufin})'
    BY <2>1, FrameConstants
  <2>6. bufin' \notin free' BY <2>1, FrameConstants DEF TypeOK
  <2>7. \A f \in Shown' : index'[f] \in Buffers /\ index'[f] \notin (free \cup {bufin})'
    BY <1>1, <1>3, <2>5 DEF ShownApart
  <2>8. bufout' # NoPicture => bufout'.buf \notin (free \cup {bufin})'
    BY <2>1, <2>4, <2>5 DEF ShownApart
  <2>9. bufout' # NoPicture /\ ~field' => \A f \in Shown' : index'[f] # bufout'.buf
    BY <1>1, <1>3, <2>1 DEF ShownApart
  <2>10. ShownApart' BY <2>6, <2>7, <2>8, <2>9 DEF ShownApart
  <2> QED BY <1>2, <2>2, <2>3, <2>10
<1>6. CASE DropPicture
  <2>1. /\ bufout # NoPicture /\ ~intra /\ bufin' = bufout.buf /\ bufout' = NoPicture
        /\ free' = free
    BY <1>6 DEF DropPicture, Interrupt, Unwanted
  <2>2. bufout.buf \in Buffers BY <2>1, DataTypes DEF TypeOK
  <2>3. ~field BY <2>1 DEF FieldsTogether
  <2>4. TypeOK' BY <1>1, <2>1, <2>2 DEF TypeOK
  <2>5. FieldsTogether' BY <1>1, <2>3 DEF FieldsTogether
  <2>6. ShownApart' BY <1>1, <1>3, <2>1, <2>2, <2>3 DEF ShownApart
  <2> QED BY <1>2, <2>4, <2>5, <2>6
<1> QED BY <1>1, <1>2, <1>4, <1>5, <1>6

\* vvc1_isr: a picture or a field goes from newframe_q to display_q and is counted.
LEMMA QueueStep ==
  ASSUME IInv, NEW f \in Frames, ShowPicture(f) \/ ShowSecondField(f)
  PROVE  IInv'
<1> USE DEF IInv
<1>0. PICK b : b = bufout.buf OBVIOUS
<1>1. /\ f \in newq /\ newq' = newq \ {f} /\ dispq' = Append(dispq, f)
      /\ index' = [index EXCEPT ![f] = b] /\ use' = [use EXCEPT ![b] = @ + 1]
      /\ UNCHANGED <<recyq, held, pool, bufin, free>>
  BY <1>0 DEF ShowPicture, ShowSecondField, Queue, CountUp
<1>2. bufout # NoPicture /\ bufout \in Pictures /\ b \in Buffers
  <2>1. bufout # NoPicture
    BY DEF ShowPicture, ShowSecondField, Interrupt, FieldsTogether
  <2> QED BY <1>0, <2>1, DataTypes DEF TypeOK
<1>3. bufout' = bufout \/ bufout' = NoPicture
  BY DEF ShowPicture, ShowSecondField
<1>4. PoolOf(f) = pool /\ f \notin Shown /\ f \notin Range(dispq)
  <2>1. newq \subseteq Fresh(pool) /\ newq \cap Shown = {} BY ShowingIs
  <2>2. f \in Fresh(pool) /\ f \notin Shown BY <1>1, <2>1
  <2> QED BY <2>2 DEF Fresh, Shown
<1>5. /\ Range(dispq') = Range(dispq) \cup {f} /\ IsInjective(dispq')
      /\ dispq' \in Seq(Frames)
  BY <1>1, <1>4, AppendRange, AppendProperties DEF TypeOK, EachInOnePlace
<1>6. HeldNow' = HeldNow BY <1>1 DEF HeldNow
<1>7. Shown' = Shown \cup {f} BY <1>1, <1>5, <1>6 DEF Shown
<1>8. index'[f] = b /\ \A g \in Shown : index'[g] = index[g]
  <2>1. \A g \in Shown : g \in Frames BY ShowingIs
  <2> QED BY <1>1, <1>4, <2>1 DEF TypeOK
<1>9. TypeOK'
  <2>1. /\ index' \in [Frames -> Buffers \cup {NoBuffer}] /\ use' \in [Buffers -> Nat]
    BY <1>1, <1>2 DEF TypeOK
  <2>2. intra' \in BOOLEAN /\ field' \in BOOLEAN
    BY <1>2, DataTypes DEF ShowPicture, ShowSecondField, TypeOK
  <2>3. bufout' \in Pictures \cup {NoPicture} BY <1>2, <1>3
  <2> QED BY <1>1, <1>5, <2>1, <2>2, <2>3 DEF TypeOK
<1>10. EachInOnePlace'
  <2>1. Fresh(pool)' = Fresh(pool) BY <1>1 DEF Fresh
  <2>2. f \notin recyq /\ f \notin HeldNow BY <1>4 DEF Shown
  <2> QED BY <1>1, <1>5, <1>6, <2>1, <2>2 DEF EachInOnePlace
<1>11. CountsExact'
  <2>1. \A c : Showing(c)' = {g \in Shown' : index'[g] = c}
    <3>1. \A g \in Shown' : PoolOf(g) = pool' BY <1>1, <1>4, <1>7, ShowingIs
    <3> QED BY <3>1 DEF Showing, Shown, HeldNow
  <2>2. Showing(b)' = Showing(b) \cup {f} /\ f \notin Showing(b)
    <3>1. Showing(b)' = {g \in Shown' : index'[g] = b} BY <2>1
    <3>2. Showing(b) = {g \in Shown : index[g] = b} BY ShowingIs
    <3> QED BY <1>4, <1>7, <1>8, <3>1, <3>2
  <2>3. ASSUME NEW c \in Buffers \ {b} PROVE Showing(c)' = Showing(c)
    <3>1. Showing(c)' = {g \in Shown' : index'[g] = c} BY <2>1
    <3>2. Showing(c) = {g \in Shown : index[g] = c} BY ShowingIs
    <3>3. c # b BY <2>3
    <3> QED BY <1>4, <1>7, <1>8, <3>1, <3>2, <3>3
  <2>4. IsFiniteSet(Showing(b)) BY ShowingIs
  <2>5. Cardinality(Showing(b)') = Cardinality(Showing(b)) + 1
    BY <2>2, <2>4, FS_AddElement
  <2>6. use'[b] = use[b] + 1 /\ \A c \in Buffers \ {b} : use'[c] = use[c]
    BY <1>1, <1>2 DEF TypeOK
  <2>7. ASSUME NEW c \in Buffers PROVE use'[c] = Cardinality(Showing(c)')
    <3>1. CASE c = b BY <1>2, <2>5, <2>6, <3>1 DEF CountsExact
    <3>2. CASE c # b
      <4>1. Showing(c)' = Showing(c) BY <2>3, <3>2
      <4>2. use'[c] = use[c] BY <2>6, <3>2
      <4>3. use[c] = Cardinality(Showing(c)) BY DEF CountsExact
      <4> QED BY <4>1, <4>2, <4>3
    <3> QED BY <3>1, <3>2
  <2> QED BY <2>7 DEF CountsExact
<1>12. ShownApart'
  <2>1. b \notin free \cup {bufin} BY <1>0, <1>2 DEF ShownApart
  <2>2. \A g \in Shown' : index'[g] \in Buffers /\ index'[g] \notin free \cup {bufin}
    BY <1>2, <1>7, <1>8, <2>1 DEF ShownApart
  <2>3. bufout' # NoPicture => field'
    BY DEF ShowPicture, ShowSecondField
  <2> QED BY <1>0, <1>1, <1>3, <2>1, <2>2, <2>3 DEF ShownApart
<1>13. FieldsTogether'
  <2>1. CASE ShowPicture(f)
    <3>1. ~field /\ intra' = TRUE /\ (field' => bufout' = bufout)
      BY <2>1 DEF ShowPicture
    <3>2. \A g \in recyq : index'[g] # b
      BY <1>0, <1>2, <1>8, <3>1 DEF ShownApart, Shown
    <3> QED BY <1>0, <1>1, <1>2, <3>1, <3>2 DEF FieldsTogether
  <2>2. CASE ShowSecondField(f) BY <2>2 DEF ShowSecondField, FieldsTogether
  <2> QED BY <2>1, <2>2
<1> QED BY <1>9, <1>10, <1>11, <1>12, <1>13

\* vvc1_vf_get hands a vframe on and changes nothing that is counted.
LEMMA GetStep ==
  ASSUME IInv, Get
  PROVE  IInv'
<1> USE DEF IInv
<1> DEFINE h == Head(dispq)
<1>1. /\ dispq # <<>> /\ held' = held \cup {h} /\ dispq' = Tail(dispq)
      /\ UNCHANGED <<newq, recyq, index, use, pool, intra, field, bufout, bufin, free>>
  BY DEF Get, hardware
<1>2. /\ h \in Frames /\ dispq' \in Seq(Frames)
      /\ Range(dispq) = {h} \cup Range(dispq') /\ h \notin Range(dispq')
      /\ IsInjective(dispq')
  BY <1>1, TailRange, HeadTailProperties DEF TypeOK, EachInOnePlace
<1>3. PoolOf(h) = pool /\ h \notin newq /\ h \notin recyq
  BY <1>2, ShowingIs DEF Shown, EachInOnePlace
<1>4. HeldNow' = HeldNow \cup {h} BY <1>1, <1>3 DEF HeldNow
<1>5. Shown' = Shown BY <1>1, <1>2, <1>4 DEF Shown
<1>6. TypeOK' BY <1>1, <1>2 DEF TypeOK
<1>7. EachInOnePlace'
  <2>1. Fresh(pool)' = Fresh(pool) BY <1>1 DEF Fresh
  <2> QED BY <1>1, <1>2, <1>3, <1>4, <2>1 DEF EachInOnePlace
<1>8. CountsExact'
  <2>1. \A c : Showing(c)' = Showing(c)
    BY <1>1, <1>2 DEF Showing
  <2> QED BY <1>1, <2>1 DEF CountsExact
<1>9. ShownApart' /\ FieldsTogether'
  BY <1>1, <1>5 DEF ShownApart, FieldsTogether
<1> QED BY <1>6, <1>7, <1>8, <1>9

\* vvc1_vf_put takes a vframe back, unless a reset has lost it.
LEMMA PutStep ==
  ASSUME IInv, NEW f \in Frames, Put(f)
  PROVE  IInv'
<1> USE DEF IInv
<1>1. /\ f \in held /\ FieldHold(f) /\ held' = held \ {f}
      /\ recyq' = IF PoolOf(f) = pool THEN recyq \cup {f} ELSE recyq
      /\ UNCHANGED <<newq, dispq, index, use, pool, intra, field, bufout, bufin, free>>
  BY DEF Put, Takes, hardware
<1>2. HeldNow' = HeldNow \ {f} BY <1>1 DEF HeldNow
<1>3. PoolOf(f) = pool <=> f \in HeldNow BY <1>1 DEF HeldNow
<1>4. Shown' = Shown BY <1>1, <1>2, <1>3 DEF Shown
<1>5. TypeOK' BY <1>1 DEF TypeOK
<1>6. EachInOnePlace'
  <2>1. Fresh(pool)' = Fresh(pool) BY <1>1 DEF Fresh
  <2> QED BY <1>1, <1>2, <1>3, <2>1 DEF EachInOnePlace
<1>7. CountsExact'
  <2>1. \A c : Showing(c)' = Showing(c)
    BY <1>1 DEF Showing
  <2> QED BY <1>1, <2>1 DEF CountsExact
<1>8. ShownApart' BY <1>1, <1>4 DEF ShownApart
<1>9. FieldsTogether' BY <1>1 DEF FieldsTogether, FieldHold
<1> QED BY <1>5, <1>6, <1>7, <1>8, <1>9

\* vvc1_put_timer_func: the last vframe of a buffer, and no other, releases it.
LEMMA RecycleStep ==
  ASSUME IInv, NEW f \in Frames, Recycle(f)
  PROVE  IInv'
<1> USE DEF IInv
<1> DEFINE b == index[f]
<1> DEFINE last == use[b] = 1
<1>1. /\ bufin = NoBuffer /\ f \in recyq /\ recyq' = recyq \ {f}
      /\ UNCHANGED <<dispq, held, pool, intra, field, bufout, free>>
  BY DEF Recycle
<1>2. /\ f \in Shown /\ b \in Buffers /\ PoolOf(f) = pool /\ b \notin free
      /\ f \notin Range(dispq) /\ f \notin HeldNow /\ f \notin newq
  BY <1>1, ShowingIs DEF Shown, ShownApart, EachInOnePlace
<1>3. /\ use' = [use EXCEPT ![b] = @ - 1]
      /\ bufin' = IF last THEN b ELSE bufin
      /\ index' = IF last THEN [index EXCEPT ![f] = NoBuffer] ELSE index
      /\ newq' = newq \cup {f}
  BY <1>2 DEF Recycle, LastUse, RecycledIndex, Renewed
<1>4. HeldNow' = HeldNow BY <1>1 DEF HeldNow
<1>5. Shown' = Shown \ {f} BY <1>1, <1>2, <1>4 DEF Shown
<1>6. \A g \in Shown' : g \in Shown /\ index'[g] = index[g]
  <2>1. \A g \in Shown : g \in Frames BY ShowingIs
  <2> QED BY <1>3, <1>5, <2>1 DEF TypeOK
<1>7. /\ IsFiniteSet(Showing(b)) /\ f \in Showing(b)
      /\ use[b] = Cardinality(Showing(b)) /\ use[b] \in Nat \ {0}
  <2>1. IsFiniteSet(Showing(b)) /\ f \in Showing(b) BY <1>2, ShowingIs
  <2>2. use[b] = Cardinality(Showing(b)) BY <1>2 DEF CountsExact
  <2> QED BY <2>1, <2>2, FS_CardinalityType, FS_EmptySet
<1>8. last => \A g \in Shown' : index'[g] # b
  <2>1. last => Showing(b) \ {f} = {}
    <3>1. IsFiniteSet(Showing(b) \ {f})
          /\ Cardinality(Showing(b) \ {f}) = Cardinality(Showing(b)) - 1
      BY <1>7, FS_RemoveElement
    <3> QED BY <1>7, <3>1, FS_EmptySet
  <2> QED BY <1>5, <1>6, <2>1, ShowingIs
<1>9. TypeOK'
  <2>1. use' \in [Buffers -> Nat] BY <1>2, <1>3, <1>7 DEF TypeOK
  <2>2. index' \in [Frames -> Buffers \cup {NoBuffer}] /\ bufin' \in Buffers \cup {NoBuffer}
    BY <1>2, <1>3 DEF TypeOK
  <2> QED BY <1>1, <1>3, <2>1, <2>2 DEF TypeOK
<1>10. EachInOnePlace'
  <2>1. Fresh(pool)' = Fresh(pool) BY <1>1 DEF Fresh
  <2> QED BY <1>1, <1>2, <1>3, <1>4, <2>1 DEF EachInOnePlace
<1>11. CountsExact'
  <2>1. \A c : Showing(c)' = {g \in Shown' : index'[g] = c}
    <3>1. \A g \in Shown' : PoolOf(g) = pool' BY <1>1, <1>6, ShowingIs
    <3> QED BY <3>1 DEF Showing, Shown, HeldNow
  <2>2. \A c \in Buffers : Showing(c)' = Showing(c) \ {f}
    BY <1>5, <1>6, <2>1, ShowingIs
  <2>3. \A c \in Buffers \ {b} : f \notin Showing(c) BY ShowingIs
  <2>4. Cardinality(Showing(b) \ {f}) = Cardinality(Showing(b)) - 1
    BY <1>7, FS_RemoveElement
  <2>5. use'[b] = use[b] - 1 /\ \A c \in Buffers \ {b} : use'[c] = use[c]
    BY <1>2, <1>3 DEF TypeOK
  <2>6. ASSUME NEW c \in Buffers PROVE use'[c] = Cardinality(Showing(c)')
    <3>1. CASE c = b BY <1>7, <2>2, <2>4, <2>5, <3>1
    <3>2. CASE c # b
      <4>1. Showing(c)' = Showing(c) BY <2>2, <2>3, <3>2
      <4> QED BY <2>5, <3>2, <4>1 DEF CountsExact
    <3> QED BY <3>1, <3>2
  <2> QED BY <2>6 DEF CountsExact
<1>12. ShownApart'
  <2>1. bufin' \notin free' BY <1>1, <1>2, <1>3 DEF ShownApart
  <2>2. \A g \in Shown' : index'[g] \in Buffers /\ index'[g] \notin (free \cup {bufin})'
    BY <1>1, <1>3, <1>6, <1>8 DEF ShownApart
  <2>3. bufout # NoPicture => bufout.buf # b
    BY <1>1, <1>2 DEF ShownApart, FieldsTogether
  <2>4. bufout' # NoPicture => bufout'.buf \notin (free \cup {bufin})'
    BY <1>1, <1>3, <2>3 DEF ShownApart
  <2>5. bufout' # NoPicture /\ ~field' => \A g \in Shown' : index'[g] # bufout'.buf
    BY <1>1, <1>6 DEF ShownApart
  <2> QED BY <2>1, <2>2, <2>4, <2>5 DEF ShownApart
<1>13. FieldsTogether'
  <2>1. \A g \in recyq' : g \in Shown' BY DEF Shown
  <2> QED BY <1>1, <1>6, <2>1 DEF FieldsTogether
<1> QED BY <1>9, <1>10, <1>11, <1>12, <1>13

\* vvc1_local_init: the other pool starts afresh, late returns are of the old one.
LEMMA ResetStep ==
  ASSUME IInv, Reset
  PROVE  IInv'
<1> USE DEF IInv
<1>1. /\ ~field /\ pool' = 1 - pool /\ newq' = Fresh(pool') /\ dispq' = <<>> /\ recyq' = {}
      /\ held' \in SUBSET {f \in held : PoolOf(f) = pool}
      /\ index' = [f \in Frames |-> IF PoolOf(f) = pool' THEN NoBuffer ELSE index[f]]
      /\ use' = [b \in Buffers |-> 0]
      /\ bufout' = NoPicture /\ bufin' = NoBuffer /\ free' = Buffers
      /\ UNCHANGED <<intra, field>>
  BY DEF Reset, OtherPool, LateFrames
<1>2. pool' \in {0, 1} /\ pool' # pool BY <1>1 DEF TypeOK
<1>3. Range(dispq') = {} /\ IsInjective(dispq') /\ dispq' \in Seq(Frames)
  <2>1. DOMAIN dispq' = {} BY <1>1
  <2> QED BY <1>1, <2>1, EmptySeq DEF Range, IsInjective
<1>4. HeldNow' = {} BY <1>1, <1>2 DEF HeldNow
<1>5. Shown' = {} BY <1>1, <1>3, <1>4 DEF Shown
<1>6. TypeOK'
  <2>1. Fresh(pool') \subseteq Frames BY DEF Fresh
  <2> QED BY <1>1, <1>2, <1>3, <2>1 DEF TypeOK
<1>7. EachInOnePlace'
  <2>1. Fresh(pool)' = Fresh(pool') BY DEF Fresh
  <2> QED BY <1>1, <1>3, <1>4, <2>1 DEF EachInOnePlace
<1>8. CountsExact'
  <2>1. \A b : Showing(b)' = {} BY <1>1, <1>2, <1>3 DEF Showing
  <2> QED BY <1>1, <2>1, FS_EmptySet DEF CountsExact
<1>9. ShownApart' /\ FieldsTogether'
  BY <1>1, <1>5, FrameConstants DEF ShownApart, FieldsTogether
<1> QED BY <1>6, <1>7, <1>8, <1>9

\* Every step keeps the invariant.
LEMMA NextInv ==
  ASSUME IInv, [Next]_vars
  PROVE  IInv'
<1>1. CASE \E p \in Pictures : Decode(p) BY <1>1, HardwareStep
<1>2. CASE TakeBack \/ DropPicture BY <1>2, HardwareStep
<1>3. ASSUME NEW f \in Frames, ShowPicture(f) \/ ShowSecondField(f) PROVE IInv'
  BY <1>3, QueueStep
<1>4. CASE Get BY <1>4, GetStep
<1>5. ASSUME NEW f \in Frames, Put(f) PROVE IInv' BY <1>5, PutStep
<1>6. ASSUME NEW f \in Frames, Recycle(f) PROVE IInv' BY <1>6, RecycleStep
<1>7. CASE Reset BY <1>7, ResetStep
<1>8. CASE UNCHANGED vars
  BY <1>8 DEF vars, hardware, IInv, TypeOK, EachInOnePlace, HeldNow, CountsExact, Showing,
              ShownApart, Shown, FieldsTogether
<1> QED BY <1>1, <1>2, <1>3, <1>4, <1>5, <1>6, <1>7, <1>8 DEF Next, Isr

\* The invariant holds in all reachable states.
LEMMA Invariance == Spec => []IInv
<1>1. IInv /\ [Next]_vars => IInv' BY NextInv
<1> QED BY <1>1, InitInv, PTL DEF Spec

\* Queues, counts and registers keep their types; vfbuf_use never goes below zero.
THEOREM TypeCorrect == Spec => []TypeOK
<1>1. IInv => TypeOK BY DEF IInv
<1> QED BY <1>1, Invariance, PTL

\* A vframe is on one queue or with the receiver, never in two places and never
\* lost, in every order of interrupt, timer, receiver and reset.
THEOREM OnePlace == Spec => []EachInOnePlace
<1>1. IInv => EachInOnePlace BY DEF IInv
<1> QED BY <1>1, Invariance, PTL

\* vfbuf_use of a buffer is the number of vframes that show it.
THEOREM CountIsExact == Spec => []CountsExact
<1>1. IInv => CountsExact BY DEF IInv
<1> QED BY <1>1, Invariance, PTL

\* The hardware is never offered a buffer that is queued or on the screen.
THEOREM ShownNotDecoded == Spec => []ShownIsSafe
<1>1. IInv => ShownIsSafe BY DEF IInv, ShownApart, Shown, HeldNow, ShownIsSafe
<1> QED BY <1>1, Invariance, PTL
-----------------------------------------------------------------------------
(* A pool is large enough if it has a vframe for each buffer, and two for a
   buffer whose pictures come in fields.  VF_POOL_SIZE is 16 for the four
   buffers of the code.                                                    *)
Places == {p \in Buffers \X {1, 2} : p[2] = 2 => TRUE \in Scans[p[1]]}
PoolSuffices == Cardinality(Places) <= Cardinality(Slots)

\* A buffer is shown by at most two vframes, and by two only if its pictures
\* come in fields.  Between two fields the first alone shows it.
FewShown ==
  /\ \A f, g, h \in Shown : index[f] = index[g] /\ index[g] = index[h]
                              => f = g \/ g = h \/ f = h
  /\ \A f, g \in Shown : index[f] = index[g] => f = g \/ TRUE \in Scans[index[f]]
  /\ field => bufout.interlaced
  /\ field => \A f, g \in Shown : index[f] = bufout.buf /\ index[g] = bufout.buf => f = g

\* No vframe is in use when the decoder starts.
LEMMA InitFew == Init => FewShown
<1> SUFFICES ASSUME Init PROVE FewShown
  OBVIOUS
<1>1. dispq = <<>> BY DEF Init
<1>2. Range(dispq) = {}
  <2>1. DOMAIN dispq = {} BY <1>1
  <2> QED BY <2>1 DEF Range
<1>3. Shown = {} BY <1>2 DEF Init, Shown, HeldNow
<1> QED BY <1>3 DEF FewShown, Init

\* Where no vframe comes into use and none changes its buffer nothing is lost.
LEMMA FewerShown ==
  ASSUME FewShown, Shown' \subseteq Shown, \A f \in Shown' : index'[f] = index[f],
         field' => field /\ bufout' = bufout
  PROVE  FewShown'
BY DEF FewShown

\* The first field finds its buffer unshown, the second finds one vframe.
LEMMA QueueFew ==
  ASSUME IInv, FewShown, NEW f \in Frames, ShowPicture(f) \/ ShowSecondField(f)
  PROVE  FewShown'
<1> USE DEF IInv
<1>0. PICK b : b = bufout.buf OBVIOUS
<1>1. /\ f \in newq /\ dispq' = Append(dispq, f) /\ index' = [index EXCEPT ![f] = b]
      /\ UNCHANGED <<recyq, held, pool>>
  BY <1>0 DEF ShowPicture, ShowSecondField, Queue
<1>2. bufout # NoPicture /\ bufout \in Pictures /\ b \in Buffers
  <2>1. bufout # NoPicture
    BY DEF ShowPicture, ShowSecondField, Interrupt, FieldsTogether
  <2> QED BY <1>0, <2>1, DataTypes DEF TypeOK
<1>3. f \notin Shown
  <2>1. newq \cap Shown = {} BY ShowingIs
  <2> QED BY <1>1, <2>1
<1>4. Range(dispq') = Range(dispq) \cup {f}
  BY <1>1, AppendRange DEF TypeOK
<1>5. HeldNow' = HeldNow BY <1>1 DEF HeldNow
<1>6. Shown' = Shown \cup {f} BY <1>1, <1>4, <1>5 DEF Shown
<1>7. index'[f] = b /\ \A g \in Shown : index'[g] = index[g]
  <2>1. \A g \in Shown : g \in Frames BY ShowingIs
  <2> QED BY <1>1, <1>3, <2>1 DEF TypeOK
<1>8. CASE ShowPicture(f)
  <2>1. ~field /\ field' = bufout.interlaced /\ (field' => bufout' = bufout)
    BY <1>8, <1>2, DataTypes DEF ShowPicture
  <2>2. \A g \in Shown : index[g] # b BY <1>0, <1>2, <2>1 DEF ShownApart
  <2>3. \A g, h, k \in Shown' : index'[g] = index'[h] /\ index'[h] = index'[k]
                                  => g = h \/ h = k \/ g = k
    BY <1>6, <1>7, <2>2 DEF FewShown
  <2>4. \A g, h \in Shown' : index'[g] = index'[h] => g = h \/ TRUE \in Scans[index'[g]]
    <3> TAKE g \in Shown', h \in Shown'
    <3> HAVE index'[g] = index'[h]
    <3>1. CASE g = f \/ h = f BY <1>6, <1>7, <2>2, <3>1
    <3>2. CASE g \in Shown /\ h \in Shown
      <4>1. index'[g] = index[g] /\ index'[h] = index[h] BY <1>7, <3>2
      <4>2. g = h \/ TRUE \in Scans[index[g]] BY <3>2, <4>1 DEF FewShown
      <4> QED BY <4>1, <4>2
    <3> QED BY <1>6, <3>1, <3>2
  <2>5. field' => bufout'.interlaced BY <2>1
  <2>6. field' => \A g, h \in Shown' :
                    index'[g] = bufout'.buf /\ index'[h] = bufout'.buf => g = h
    BY <1>0, <1>6, <1>7, <2>1, <2>2
  <2> QED BY <2>3, <2>4, <2>5, <2>6 DEF FewShown
<1>9. CASE ShowSecondField(f)
  <2>1. field /\ field' = FALSE BY <1>9 DEF ShowSecondField
  <2>2. TRUE \in Scans[b]
    <3>1. bufout.interlaced \in Scans[b] /\ bufout.interlaced \in BOOLEAN
      BY <1>0, <1>2 DEF Pictures
    <3> QED BY <2>1, <3>1 DEF FewShown
  <2>3. \A g, h \in Shown : index[g] = b /\ index[h] = b => g = h
    BY <1>0, <2>1 DEF FewShown
  <2>4. \A g, h, k \in Shown' : index'[g] = index'[h] /\ index'[h] = index'[k]
                                  => g = h \/ h = k \/ g = k
    BY <1>6, <1>7, <2>3 DEF FewShown
  <2>5. \A g, h \in Shown' : index'[g] = index'[h] => g = h \/ TRUE \in Scans[index'[g]]
    <3> TAKE g \in Shown', h \in Shown'
    <3> HAVE index'[g] = index'[h]
    <3>1. CASE g = f \/ h = f
      <4>1. index'[g] = b BY <1>7, <3>1
      <4> QED BY <2>2, <4>1
    <3>2. CASE g \in Shown /\ h \in Shown
      <4>1. index'[g] = index[g] /\ index'[h] = index[h] BY <1>7, <3>2
      <4>2. g = h \/ TRUE \in Scans[index[g]] BY <3>2, <4>1 DEF FewShown
      <4> QED BY <4>1, <4>2
    <3> QED BY <1>6, <3>1, <3>2
  <2> QED BY <2>1, <2>4, <2>5 DEF FewShown
<1> QED BY <1>8, <1>9

\* Every other step takes vframes out of use, or none.
LEMMA NextFew ==
  ASSUME IInv, FewShown, [Next]_vars
  PROVE  FewShown'
<1> USE DEF IInv
<1>1. ASSUME NEW p \in Pictures, Decode(p) PROVE FewShown'
  <2>1. UNCHANGED <<dispq, recyq, held, index, pool, field>> /\ bufout = NoPicture
    BY <1>1 DEF Decode
  <2>2. ~field BY <2>1 DEF FieldsTogether
  <2>3. Shown' = Shown BY <2>1 DEF Shown, HeldNow
  <2> QED BY <2>1, <2>2, <2>3, FewerShown
<1>2. CASE TakeBack
  <2>1. Shown' = Shown /\ UNCHANGED <<index, field, bufout>>
    BY <1>2 DEF TakeBack, Shown, HeldNow
  <2> QED BY <2>1, FewerShown
<1>3. CASE DropPicture
  <2>1. Shown' = Shown /\ UNCHANGED <<index, field>>
    BY <1>3 DEF DropPicture, Shown, HeldNow
  <2>2. ~field BY <1>3 DEF DropPicture, Unwanted, FieldsTogether
  <2> QED BY <2>1, <2>2, FewerShown
<1>4. ASSUME NEW f \in Frames, ShowPicture(f) \/ ShowSecondField(f) PROVE FewShown'
  BY <1>4, QueueFew
<1>5. CASE Get
  <2>1. /\ dispq # <<>> /\ held' = held \cup {Head(dispq)} /\ dispq' = Tail(dispq)
        /\ UNCHANGED <<recyq, index, pool, field, bufout>>
    BY <1>5 DEF Get, hardware
  <2>2. Range(dispq) = {Head(dispq)} \cup Range(dispq')
    BY <2>1, TailRange DEF TypeOK
  <2>3. HeldNow' \subseteq HeldNow \cup {Head(dispq)} BY <2>1 DEF HeldNow
  <2>4. Shown' \subseteq Shown BY <2>1, <2>2, <2>3 DEF Shown
  <2> QED BY <2>1, <2>4, FewerShown
<1>6. ASSUME NEW f \in Frames, Put(f) PROVE FewShown'
  <2>1. /\ f \in held /\ held' = held \ {f}
        /\ recyq' = IF PoolOf(f) = pool THEN recyq \cup {f} ELSE recyq
        /\ UNCHANGED <<dispq, index, pool, field, bufout>>
    BY <1>6 DEF Put, Takes, hardware
  <2>2. PoolOf(f) = pool => f \in HeldNow BY <2>1 DEF HeldNow
  <2>3. Shown' \subseteq Shown BY <2>1, <2>2 DEF Shown, HeldNow
  <2> QED BY <2>1, <2>3, FewerShown
<1>7. ASSUME NEW f \in Frames, Recycle(f) PROVE FewShown'
  <2>1. /\ f \in recyq /\ recyq' = recyq \ {f}
        /\ index' \in {index, [index EXCEPT ![f] = NoBuffer]}
        /\ UNCHANGED <<dispq, held, pool, field, bufout>>
    BY <1>7 DEF Recycle, RecycledIndex
  <2>2. f \notin Range(dispq) /\ f \notin HeldNow BY <2>1 DEF EachInOnePlace
  <2>3. Shown' = Shown \ {f} BY <2>1, <2>2 DEF Shown, HeldNow
  <2>4. \A g \in Shown' : index'[g] = index[g]
    <3>1. \A g \in Shown : g \in Frames BY ShowingIs
    <3> QED BY <2>1, <2>3, <3>1 DEF TypeOK
  <2> QED BY <2>1, <2>3, <2>4, FewerShown
<1>8. CASE Reset
  <2>1. /\ pool' = 1 - pool /\ dispq' = <<>> /\ recyq' = {} /\ ~field'
        /\ \A f \in held' : PoolOf(f) = pool
    BY <1>8 DEF Reset, OtherPool, LateFrames
  <2>2. pool' # pool BY <2>1 DEF TypeOK
  <2>3. Range(dispq') = {}
    <3>1. DOMAIN dispq' = {} BY <2>1
    <3> QED BY <3>1 DEF Range
  <2>4. Shown' = {} BY <2>1, <2>2, <2>3 DEF Shown, HeldNow
  <2> QED BY <2>1, <2>4 DEF FewShown
<1>9. CASE UNCHANGED vars
  <2>1. Shown' = Shown /\ UNCHANGED <<index, field, bufout>>
    BY <1>9 DEF vars, hardware, Shown, HeldNow
  <2> QED BY <2>1, FewerShown
<1> QED BY <1>1, <1>2, <1>3, <1>4, <1>5, <1>6, <1>7, <1>8, <1>9 DEF Next, Isr

\* The places of a pool, and the slots of one, can be counted.
LEMMA PlacesCounted ==
  ASSUME NEW r \in Places
  PROVE  /\ IsFiniteSet(Places) /\ IsFiniteSet(Places \ {r})
         /\ Cardinality(Places) \in Nat
         /\ Cardinality(Places \ {r}) = Cardinality(Places) - 1
<1>1. IsFiniteSet({1, 2})
  <2>1. IsFiniteSet(1..2) BY FS_Interval, 1 \in Int, 2 \in Int
  <2>2. 1..2 = {1, 2} OBVIOUS
  <2> QED BY <2>1, <2>2
<1>2. IsFiniteSet(Buffers \X {1, 2}) BY <1>1, FrameConstants, FS_Product
<1>3. Places \in SUBSET (Buffers \X {1, 2}) BY DEF Places
<1>4. IsFiniteSet(Places) BY <1>2, <1>3, FS_Subset
<1> QED BY <1>4, FS_RemoveElement, FS_CardinalityType

\* If every vframe is in use while a picture waits, each of them has a place of its
\* own, and none has the place that the waiting picture is due: too many for a
\* pool that suffices.
LEMMA SlotLeft ==
  ASSUME PoolSuffices, IInv, FewShown
  PROVE  SlotForPicture
<1> USE DEF IInv
<1> SUFFICES ASSUME Interrupt, newq = {} PROVE FALSE
  BY DEF SlotForPicture
<1> DEFINE b == bufout.buf
           reserved == <<b, IF field THEN 2 ELSE 1>>
           first == [c \in Buffers |-> CHOOSE g \in Shown : index[g] = c]
           rank(f) == IF f = first[index[f]] THEN 1 ELSE 2
           at == [s \in Slots |-> <<index[<<pool, s>>], rank(<<pool, s>>)>>]
<1>1. bufout \in Pictures /\ b \in Buffers /\ bufout.interlaced \in Scans[b]
  <2>1. bufout \in Pictures BY DEF Interrupt, TypeOK
  <2> QED BY <2>1 DEF Pictures
<1>2. reserved \in Places
  <2>1. field => TRUE \in Scans[b] BY <1>1 DEF FewShown, Pictures
  <2>2. CASE field
    <3>1. reserved = <<b, 2>> BY <2>2
    <3> QED BY <1>1, <2>1, <2>2, <3>1 DEF Places
  <2>3. CASE ~field
    <3>1. reserved = <<b, 1>> BY <2>3
    <3>2. ASSUME NEW c \in Buffers PROVE <<c, 1>> \in Places
      <4> DEFINE p == <<c, 1>>
      <4>1. p \in Buffers \X {1, 2} OBVIOUS
      <4>2. p[2] = 1 OBVIOUS
      <4>3. p[2] # 2 BY <4>2
      <4> HIDE DEF p
      <4> QED BY <4>1, <4>3 DEF Places
    <3> QED BY <1>1, <3>1, <3>2
  <2> QED BY <2>2, <2>3
<1>3. ASSUME NEW s \in Slots PROVE <<pool, s>> \in Shown
  <2>1. <<pool, s>> \in Fresh(pool) BY <1>3 DEF Fresh, Frames, PoolOf, TypeOK
  <2> QED BY <2>1 DEF EachInOnePlace, Shown
<1>4. \A f \in Shown : index[f] \in Buffers BY DEF ShownApart
<1>5. \A f \in Shown : first[index[f]] \in Shown /\ index[first[index[f]]] = index[f]
  BY <1>4
<1> HIDE DEF first
<1>6. ASSUME NEW f \in Shown PROVE <<index[f], rank(f)>> \in Places \ {reserved}
  <2>1. index[f] \in Buffers /\ rank(f) \in {1, 2} BY <1>4
  <2>2. rank(f) = 2 => f # first[index[f]] OBVIOUS
  <2>3. rank(f) = 2 => TRUE \in Scans[index[f]]
    BY <1>5, <2>2 DEF FewShown
  <2>4. <<index[f], rank(f)>> \in Places BY <2>1, <2>3 DEF Places
  <2>5. <<index[f], rank(f)>> # reserved
    <3>1. CASE ~field
      <4>1. index[f] # b BY <3>1 DEF Interrupt, ShownApart
      <4> QED BY <4>1
    <3>2. CASE field
      <4>1. index[f] = b => f = first[index[f]]
        BY <1>5, <3>2 DEF FewShown
      <4> QED BY <3>2, <4>1
    <3> QED BY <3>1, <3>2
  <2> QED BY <2>4, <2>5
<1>7. at \in [Slots -> Places \ {reserved}] BY <1>3, <1>6
<1>8. Cardinality(Places \ {reserved}) < Cardinality(Slots)
  <2>1. Cardinality(Slots) \in Nat BY FrameConstants, FS_CardinalityType
  <2> QED BY <1>2, <2>1, PlacesCounted DEF PoolSuffices
<1>9. IsFiniteSet(Places \ {reserved}) BY <1>2, PlacesCounted
<1> HIDE DEF at
<1>10. PICK s \in Slots, t \in Slots : s # t /\ at[s] = at[t]
  BY <1>7, <1>8, <1>9, FrameConstants, FS_PigeonHole
<1> DEFINE f == <<pool, s>>
           g == <<pool, t>>
<1>11. f \in Shown /\ g \in Shown /\ f # g BY <1>3, <1>10
<1>12. index[f] = index[g] /\ rank(f) = rank(g)
  BY <1>10 DEF at
<1>13. index[first[index[f]]] = index[f] /\ first[index[f]] \in Shown BY <1>5, <1>11
<1>14. f = first[index[f]] \/ g = first[index[f]]
  BY <1>11, <1>12, <1>13 DEF FewShown
<1> QED BY <1>11, <1>12, <1>14

\* The handler never fails to find a vframe for a picture, in pools that have one
\* for each field of each buffer: what a reset or a slow receiver keeps is of
\* buffers that wait for it, never of the one that is put out.
THEOREM AlwaysASlot == ASSUME PoolSuffices PROVE Spec => []SlotForPicture
<1>1. IInv /\ FewShown /\ [Next]_vars => FewShown' BY NextFew
<1>2. IInv /\ FewShown => SlotForPicture BY SlotLeft
<1> QED BY <1>1, <1>2, InitFew, Invariance, PTL DEF Spec
=============================================================================
