-------------------------- MODULE BuildStampsProofs --------------------------
(* Theorems about the stamps of build/*.mak, for every set of targets that may
   fail, every set of goals and any number of edits: the types, why the kernel is
   configured again, and that what is built or deployed is not a mixture of old
   and new files.                                                              *)
EXTENDS BuildStamps, SequenceTheorems, TLAPS

KernelGoals == {"deploy", "bootfiles", "menuconfig", "getconfig"}
ImageGoals == {"deploy", "bootfiles"}
AllFiles == Targets \cup Inputs \cup {".config"}

-----------------------------------------------------------------------------
(* The walks.                                                                  *)

(* The goals that make an image go through seventeen targets. *)
LEMMA ImageWalk ==
  ASSUME NEW g \in ImageGoals, NEW b \in Boards
  PROVE  /\ Len(Walk(g, b)) = 17
         /\ Walk(g, b)[1] = ".stamp.copy" /\ Walk(g, b)[2] = ".stamp.patch"
         /\ Walk(g, b)[3] = ".stamp.config" /\ Walk(g, b)[4] = "Image.gz"
         /\ Walk(g, b)[5] = "tree" /\ Walk(g, b)[6] = "wifi.copy"
         /\ Walk(g, b)[7] = "wifi.patch" /\ Walk(g, b)[8] = "dhd.ko"
         /\ Walk(g, b)[9] = "tree/dhd.ko" /\ Walk(g, b)[10] = ".stamp.modules"
         /\ Walk(g, b)[11] = "tree/btusb.ko" /\ Walk(g, b)[12] = "modules.dep"
         /\ Walk(g, b)[13] = "initramfs" /\ Walk(g, b)[14] = Dts(b)
         /\ Walk(g, b)[15] = Dtb(b) /\ Walk(g, b)[16] = BootImg(g)
         /\ Walk(g, b)[17] = "dtb.img"
<1> DEFINE y == <<"Image.gz", "tree", "wifi.copy", "wifi.patch", "dhd.ko", "tree/dhd.ko",
                  ".stamp.modules", "tree/btusb.ko", "modules.dep", "initramfs",
                  Dts(b), Dtb(b), BootImg(g), "dtb.img">>
           w == KernelTree \o y
<1>1. Walk(g, b) = w BY DEF Walk, ImageGoals
<1>2. KernelTree \in Seq(Targets) /\ Len(KernelTree) = 3
  BY DEF KernelTree, Targets
<1>3. {Dts(b), Dtb(b), BootImg(g)} \subseteq Targets
  BY DEF Targets, Dts, Dtb, BootImg
<1>4. y \in Seq(Targets) /\ Len(y) = 14
  <2>1. {"Image.gz", "tree", "wifi.copy", "wifi.patch", "dhd.ko", "tree/dhd.ko",
         ".stamp.modules", "tree/btusb.ko", "modules.dep", "initramfs", "dtb.img"}
           \subseteq Targets
    BY DEF Targets, InTree
  <2> QED BY <1>3, <2>1
<1>5. /\ KernelTree[1] = ".stamp.copy" /\ KernelTree[2] = ".stamp.patch"
      /\ KernelTree[3] = ".stamp.config"
  BY DEF KernelTree
<1>6. /\ y[1] = "Image.gz" /\ y[2] = "tree" /\ y[3] = "wifi.copy" /\ y[4] = "wifi.patch"
      /\ y[5] = "dhd.ko" /\ y[6] = "tree/dhd.ko" /\ y[7] = ".stamp.modules"
      /\ y[8] = "tree/btusb.ko" /\ y[9] = "modules.dep" /\ y[10] = "initramfs"
      /\ y[11] = Dts(b) /\ y[12] = Dtb(b) /\ y[13] = BootImg(g) /\ y[14] = "dtb.img"
  OBVIOUS
<1> HIDE DEF y
<1>7. Len(w) = 17 /\ \A n \in 1..17 : w[n] = IF n <= 3 THEN KernelTree[n] ELSE y[n - 3]
  <2>1. /\ Len(w) = Len(KernelTree) + Len(y)
        /\ \A n \in 1..(Len(KernelTree) + Len(y)) :
             w[n] = IF n <= Len(KernelTree) THEN KernelTree[n] ELSE y[n - Len(KernelTree)]
    BY <1>2, <1>4, ConcatProperties
  <2>2. Len(KernelTree) + Len(y) = 17 BY <1>2, <1>4
  <2> QED BY <1>2, <2>1, <2>2
<1> HIDE DEF w
<1>8. w[1] = KernelTree[1] /\ w[2] = KernelTree[2] /\ w[3] = KernelTree[3]
  BY <1>7
<1>9. /\ w[4] = y[1] /\ w[5] = y[2] /\ w[6] = y[3] /\ w[7] = y[4] /\ w[8] = y[5]
      /\ w[9] = y[6] /\ w[10] = y[7] /\ w[11] = y[8] /\ w[12] = y[9] /\ w[13] = y[10]
      /\ w[14] = y[11] /\ w[15] = y[12] /\ w[16] = y[13] /\ w[17] = y[14]
  BY <1>7
<1> QED BY <1>1, <1>5, <1>6, <1>7, <1>8, <1>9

(* The configuration goals need the kernel tree, cleaning the driver's. *)
LEMMA ShortWalk ==
  ASSUME NEW b \in Boards
  PROVE  /\ \A g \in {"menuconfig", "getconfig"} :
              /\ Len(Walk(g, b)) = 3
              /\ Walk(g, b)[1] = ".stamp.copy" /\ Walk(g, b)[2] = ".stamp.patch"
              /\ Walk(g, b)[3] = ".stamp.config"
         /\ Len(Walk("clean", b)) = 2
         /\ Walk("clean", b)[1] = "wifi.copy" /\ Walk("clean", b)[2] = "wifi.patch"
         /\ Len(Walk("touch", b)) = 0 /\ Len(Walk("none", b)) = 0
BY DEF Walk, KernelTree
-----------------------------------------------------------------------------
(* The types.                                                                  *)

Pairs(e, n) == \A p \in n : {p[1], p[2]} \subseteq e /\ Compared(p[1], p[2])
Version(v, l) == v \in Marks \X {0} \/ (v \in Inputs \X Nat /\ v[2] <= l[v[1]])

(* what a make is at *)
Running ==
  /\ job # "none" => /\ goal # "none" /\ done < Len(Walk(goal, board))
                     /\ job = Walk(goal, board)[done + 1]
                     /\ line <= Lines(job)
  /\ job = "none" => line = 1
  /\ goal = "none" => done = 0

(* a walk does not get past .stamp.config without it *)
Reached == goal \in KernelGoals /\ done >= 3 => ".stamp.config" \in exists

(* what the user's files and the built ones may be *)
FilesTyped(e, n, c, l) ==
  /\ e \subseteq AllFiles /\ Inputs \subseteq e /\ Pairs(e, n)
  /\ DOMAIN c = AllFiles /\ \A f \in AllFiles : \A v \in c[f] : Version(v, l)

Typed ==
  /\ FilesTyped(exists, newer, content, latest)
  /\ latest \in [Inputs -> Nat] /\ asked \in [Inputs -> Nat]
  /\ \A i \in Inputs : asked[i] <= latest[i]
  /\ applied \in [{".stamp.patch", "wifi.patch"} -> 0..2] /\ applied["wifi.patch"] \in 0..1
  /\ goal \in Goals \cup {"none"} /\ board \in Boards
  /\ job \in Targets \cup {"none"} /\ line \in 1..3
  /\ done \in 0..Len(Walk(goal, board))
  /\ {linked, wifiMade, deployed} \subseteq BOOLEAN
  /\ Running /\ Reached

(* The types of the module are among them. *)
LEMMA TypedIsTypeOK == Typed => TypeOK
<1> SUFFICES ASSUME Typed PROVE TypeOK
  OBVIOUS
<1>1. /\ exists \subseteq Targets \cup Inputs \cup {".config"}
      /\ \A e \in newer : {e[1], e[2]} \subseteq exists /\ Compared(e[1], e[2])
  BY DEF Typed, FilesTyped, AllFiles, Pairs
<1>2. ASSUME NEW f \in DOMAIN content, NEW e \in content[f]
      PROVE  e \in Marks \X {0} \/ (e[1] \in Inputs /\ e[2] <= latest[e[1]])
  BY DEF Typed, FilesTyped, Version
<1>3. applied[".stamp.patch"] \in 0..2 /\ applied["wifi.patch"] \in 0..1
  BY DEF Typed
<1> QED BY <1>1, <1>2, <1>3 DEF Typed, TypeOK

(* All the targets of a walk are targets. *)
LEMMA WalkTypes ==
  ASSUME NEW g \in Goals \cup {"none"}, NEW b \in Boards
  PROVE  /\ Len(Walk(g, b)) \in 0..17
         /\ \A n \in 1..Len(Walk(g, b)) : Walk(g, b)[n] \in Targets
<1> {".stamp.copy", ".stamp.patch", ".stamp.config", "Image.gz", "tree", "wifi.copy",
     "wifi.patch", "dhd.ko", "tree/dhd.ko", ".stamp.modules", "tree/btusb.ko",
     "modules.dep", "initramfs", Dts(b), Dtb(b), BootImg(g), "dtb.img"} \subseteq Targets
  BY DEF Targets, InTree, Dts, Dtb, BootImg
<1>1. CASE g \in ImageGoals
  <2>1. \A n \in 1..17 : n \in {1, 2, 3, 4, 5, 6, 7, 8, 9, 10, 11, 12, 13, 14, 15, 16, 17}
    OBVIOUS
  <2> DEFINE w == Walk(g, b)
  <2>2. /\ Len(w) = 17
        /\ {w[1], w[2], w[3], w[4], w[5], w[6], w[7], w[8], w[9], w[10], w[11], w[12], w[13],
            w[14], w[15], w[16], w[17]} \subseteq Targets
    BY <1>1, ImageWalk
  <2> HIDE DEF w
  <2>3. \A n \in 1..17 : w[n] \in Targets BY <2>1, <2>2
  <2> QED BY <2>2, <2>3 DEF w
<1>2. CASE g \in {"menuconfig", "getconfig"}
  <2>1. \A n \in 1..3 : n \in {1, 2, 3} OBVIOUS
  <2> QED BY <1>2, <2>1, ShortWalk
<1>3. CASE g = "clean"
  <2>1. \A n \in 1..2 : n \in {1, 2} OBVIOUS
  <2> QED BY <1>3, <2>1, ShortWalk
<1>4. CASE g \in {"touch", "none"} BY <1>4, ShortWalk
<1> QED BY <1>1, <1>2, <1>3, <1>4, BuildConstants DEF ImageGoals

(* What a touch does to the times. *)
LEMMA TouchIs ==
  ASSUME NEW f, Touch(f)
  PROVE  /\ exists' = exists \cup {f}
         /\ \A p, t : <<p, t>> \in newer' <=>
              \/ t # f /\ <<p, t>> \in newer
              \/ p = f /\ t \in exists /\ Compared(f, t)
<1>1. newer' = {pair \in newer : pair[2] # f} \cup
                 {<<f, t>> : t \in {g \in exists : Compared(f, g)}}
  BY DEF Touch, Touched
<1>2. ASSUME NEW p, NEW t
      PROVE  <<p, t>> \in newer' <=>
              \/ t # f /\ <<p, t>> \in newer
              \/ p = f /\ t \in exists /\ Compared(f, t)
  BY <1>1
<1> QED BY <1>2 DEF Touch

LEMMA TouchTypes ==
  ASSUME NEW f \in AllFiles, Touch(f), exists \subseteq AllFiles, Pairs(exists, newer)
  PROVE  exists' \subseteq AllFiles /\ Pairs(exists', newer')
<1>1. exists' = exists \cup {f} BY DEF Touch
<1>2. ASSUME NEW p \in newer' PROVE {p[1], p[2]} \subseteq exists' /\ Compared(p[1], p[2])
  <2>1. p \in newer \/ \E t \in exists : p = <<f, t>> /\ Compared(f, t)
    BY DEF Touch, Touched
  <2> QED BY <1>1, <2>1 DEF Pairs
<1> QED BY <1>1, <1>2 DEF Pairs

(* What rm does to the times. *)
LEMMA RemoveIs ==
  ASSUME NEW S, Remove(S)
  PROVE  /\ exists' = exists \ S
         /\ \A p, t : <<p, t>> \in newer' <=> <<p, t>> \in newer /\ p \notin S /\ t \notin S
<1>1. ASSUME NEW p, NEW t
      PROVE  <<p, t>> \in newer' <=> <<p, t>> \in newer /\ p \notin S /\ t \notin S
  BY DEF Remove
<1> QED BY <1>1 DEF Remove

LEMMA RemoveTypes ==
  ASSUME NEW S, Remove(S), exists \subseteq AllFiles, Pairs(exists, newer)
  PROVE  exists' \subseteq AllFiles /\ Pairs(exists', newer')
<1>1. ASSUME NEW p \in newer' PROVE {p[1], p[2]} \subseteq exists' /\ Compared(p[1], p[2])
  <2>1. p \in newer /\ p[1] \notin S /\ p[2] \notin S BY DEF Remove
  <2> QED BY <2>1 DEF Remove, Pairs
<1> QED BY <1>1 DEF Remove, Pairs
-----------------------------------------------------------------------------
(* The lines of a recipe.                                                      *)

Products == {t \in Targets : ~IsStamp(t)}
Work == Of(Reads(job)) \cup Mark(job)

(* What one line does to the files. *)
IdleLine == job \in {".stamp.copy", ".stamp.patch", "wifi.patch"} /\ line < Lines(job)
              /\ UNCHANGED <<exists, newer, content>>
ConfigLine == /\ job = ".stamp.config" /\ line \in {1, 2} /\ Touch(".config")
              /\ content' = IF line = 1 THEN [content EXCEPT ![".config"] = content["config"]]
                                        ELSE content
TreeLine == /\ job = "tree" /\ line = 1 /\ Remove(InTree)
            /\ content' = [Emptied(InTree) EXCEPT !["tree"] = content["template"]]
StampWork == /\ job \in {".stamp.modules", "wifi.copy"} /\ line = 1
             /\ UNCHANGED <<exists, newer>> /\ content' = [content EXCEPT ![job] = Work]
ProductWork == /\ job \in Products /\ line = 1 /\ Touch(job)
               /\ content' = [content EXCEPT ![job] = Work]
LastTouch == /\ job \in {".stamp.copy", ".stamp.patch", ".stamp.config", ".stamp.modules",
                         "wifi.copy", "wifi.patch", "tree", "Image.gz", "dhd.ko"}
             /\ line = Lines(job) /\ Touch(job) /\ UNCHANGED content

LEMMA LinesAre ==
  /\ Lines(".stamp.copy") = 3 /\ Lines(".stamp.patch") = 3 /\ Lines(".stamp.config") = 3
  /\ Lines("wifi.patch") = 2 /\ Lines("wifi.copy") = 2 /\ Lines("tree") = 2
  /\ Lines("Image.gz") = 2 /\ Lines("dhd.ko") = 2 /\ Lines(".stamp.modules") = 2
  /\ \A t \in Products \ {"Image.gz", "dhd.ko"} : Lines(t) = 1
BY DEF Lines, Patches, Products, IsStamp

LEMMA LineEffect ==
  ASSUME Typed, RunLine
  PROVE  \/ IdleLine
         \/ ConfigLine \/ TreeLine \/ StampWork \/ ProductWork \/ LastTouch
<1>1. /\ job \in Targets /\ line \in 1..3 /\ line <= Lines(job)
      /\ content' = ContentAfter /\ TimesAfter
  BY DEF RunLine, Typed, Running
<1>2. CASE job = ".stamp.config"
  <2>1. CASE line = 3
    BY <1>1, <1>2, <2>1, LinesAre
       DEF ContentAfter, TimesAfter, Configures, Works, LastLine, LastTouch
  <2>2. CASE line \in {1, 2}
    BY <1>1, <1>2, <2>2 DEF ContentAfter, TimesAfter, Configures, Works, ConfigLine
  <2> QED BY <1>1, <2>1, <2>2
<1>3. CASE job = "tree"
  <2>1. CASE line = 1
    BY <1>1, <1>3, <2>1 DEF ContentAfter, TimesAfter, Configures, TreeLine
  <2>2. CASE line = 2
    BY <1>1, <1>3, <2>2, LinesAre
       DEF ContentAfter, TimesAfter, Configures, Works, LastLine, LastTouch
  <2> QED BY <1>1, <1>3, <2>1, <2>2, LinesAre
<1>4. CASE job \in {".stamp.copy", ".stamp.patch", "wifi.patch"}
  BY <1>1, <1>4, LinesAre
     DEF ContentAfter, TimesAfter, Configures, Works, LastLine, LastTouch, Untouched, IdleLine
<1>5. CASE job \in {".stamp.modules", "wifi.copy"}
  <2>1. CASE line = 1
    BY <1>1, <1>5, <2>1, LinesAre
       DEF ContentAfter, TimesAfter, Configures, Works, LastLine, IsStamp, Untouched,
           StampWork, Work
  <2>2. CASE line = 2
    BY <1>1, <1>5, <2>2, LinesAre
       DEF ContentAfter, TimesAfter, Configures, Works, LastLine, LastTouch
  <2> QED BY <1>1, <1>5, <2>1, <2>2, LinesAre
<1>6. CASE job \in Products
  <2>1. job \notin {".stamp.copy", ".stamp.patch", ".stamp.config", "wifi.patch", "tree"}
    BY <1>6 DEF Products, IsStamp
  <2>2. CASE line = 1
    BY <1>1, <1>6, <2>1, <2>2
       DEF ContentAfter, TimesAfter, Configures, Works, Products, ProductWork, Work
  <2>3. CASE line = 2 /\ job \in {"Image.gz", "dhd.ko"}
    BY <1>1, <2>1, <2>3, LinesAre
       DEF ContentAfter, TimesAfter, Configures, Works, LastLine, LastTouch
  <2> QED BY <1>1, <1>6, <2>2, <2>3, LinesAre
<1> QED BY <1>1, <1>2, <1>3, <1>4, <1>5, <1>6 DEF Products, IsStamp
-----------------------------------------------------------------------------
(* The walk of make.                                                           *)

(* Min of FiniteSetsExt, for the next target that is out of date. *)
LEMMA MinIs ==
  ASSUME NEW S \in SUBSET (1..17), S # {}
  PROVE  Min(S) \in S /\ \A n \in S : Min(S) <= n
<1>1. ASSUME \A m \in S : \E n \in S : n < m PROVE FALSE
  <2>1. 1 \notin S /\ 2 \notin S /\ 3 \notin S BY <1>1
  <2>2. \A m \in 1..3 : m \notin S BY <2>1
  <2>3. \A m \in 1..17 : m \notin S BY <1>1, <2>2
  <2> QED BY <2>3
<1>2. \E m \in S : \A n \in S : m <= n BY <1>1
<1> QED BY <1>2 DEF Min

(* make passes over the targets that are up to date, and no others. *)
LEMMA ConsiderIs ==
  ASSUME Typed, Consider
  PROVE  LET walk == Walk(goal, board) IN
         /\ goal # "none" /\ job = "none" /\ done' \in done..Len(walk) /\ done < Len(walk)
         /\ \A n \in (done + 1)..done' : ~OutOfDate(walk[n])
         /\ \/ done' = Len(walk) /\ job' = "none"
            \/ done' < Len(walk) /\ job' = walk[done' + 1] /\ OutOfDate(walk[done' + 1])
         /\ UNCHANGED <<files, run, line, wifiMade, deployed>>
<1> DEFINE walk == Walk(goal, board)
           old == {n \in (done + 1)..Len(walk) : OutOfDate(walk[n])}
<1>1. /\ goal # "none" /\ job = "none" /\ done < Len(walk)
      /\ IF old = {} THEN done' = Len(walk) /\ UNCHANGED job
                     ELSE done' = Min(old) - 1 /\ job' = walk[Min(old)]
      /\ UNCHANGED <<files, run, line, wifiMade, deployed>>
  BY DEF Consider, Idle
<1>2. Len(walk) \in 0..17 /\ done \in Nat
  BY WalkTypes DEF Typed
<1> HIDE DEF walk
<1>3. CASE old = {}
  BY <1>1, <1>2, <1>3 DEF walk
<1>4. CASE old # {}
  <2> DEFINE m == Min(old)
  <2>1. old \in SUBSET (1..17) BY <1>2
  <2>2. m \in old /\ \A n \in old : m <= n BY <1>4, <2>1, MinIs
  <2>3. done' = m - 1 /\ job' = walk[m] BY <1>1, <1>4
  <2> HIDE DEF m
  <2>4. m \in (done + 1)..Len(walk) /\ OutOfDate(walk[m]) BY <2>2
  <2>5. \A n \in (done + 1)..done' : ~OutOfDate(walk[n])
    BY <1>2, <2>2, <2>3, <2>4
  <2>6. done' + 1 = m BY <1>2, <2>3, <2>4
  <2> QED BY <1>1, <1>2, <2>3, <2>4, <2>5, <2>6 DEF walk
<1> QED BY <1>3, <1>4
-----------------------------------------------------------------------------
(* Every step keeps the types.                                                 *)

(* Recipes read files. *)
LEMMA ReadsTypes ==
  ASSUME NEW t, board \in Boards
  PROVE  Reads(t) \subseteq AllFiles
<1>1. Prereqs(t, board) \subseteq AllFiles
  BY DEF Prereqs, AllFiles, Targets, InTree, Inputs, Dtb
<1> QED BY <1>1 DEF Reads, ReadsDtb, AllFiles, Targets, InTree

(* What a recipe makes is of the versions that it reads. *)
LEMMA WorkTypes ==
  ASSUME Typed
  PROVE  \A v \in Work : Version(v, latest)
<1>1. \A f \in Reads(job) : \A v \in content[f] : Version(v, latest)
  BY ReadsTypes DEF Typed, FilesTyped
<1>2. \A v \in Mark(job) : Version(v, latest) BY DEF Mark, Version
<1>3. \A v \in Of(Reads(job)) : \E f \in Reads(job) : v \in content[f]
  BY DEF Of
<1> QED BY <1>1, <1>2, <1>3 DEF Work

(* Emptying files does no harm. *)
LEMMA RemoveFiles ==
  ASSUME Typed, NEW S, Inputs \cap S = {}, Remove(S), content' = Emptied(S),
         latest' = latest
  PROVE  FilesTyped(exists, newer, content, latest)'
<1>1. FilesTyped(exists, newer, content, latest) BY DEF Typed
<1>2. exists' \subseteq AllFiles /\ Pairs(exists', newer')
  BY <1>1, RemoveTypes DEF FilesTyped
<1>3. Inputs \subseteq exists' BY <1>1 DEF FilesTyped, Remove
<1>4. DOMAIN content' = AllFiles BY <1>1 DEF Emptied, FilesTyped
<1>5. \A f \in AllFiles : content'[f] \in {{}, content[f]}
  BY <1>1 DEF Emptied, FilesTyped
<1> QED BY <1>1, <1>2, <1>3, <1>4, <1>5 DEF FilesTyped

(* Touching files does none. *)
LEMMA TouchFiles ==
  ASSUME Typed, NEW f \in AllFiles, Touch(f)
  PROVE  exists' \subseteq AllFiles /\ Pairs(exists', newer') /\ Inputs \subseteq exists'
<1>1. FilesTyped(exists, newer, content, latest) BY DEF Typed
<1>2. exists' \subseteq AllFiles /\ Pairs(exists', newer')
  BY <1>1, TouchTypes DEF FilesTyped
<1> QED BY <1>1, <1>2 DEF FilesTyped, Touch

LEMMA RunLineFiles ==
  ASSUME Typed, RunLine
  PROVE  FilesTyped(exists, newer, content, latest)'
<1>1. FilesTyped(exists, newer, content, latest) /\ job \in Targets
   BY DEF Typed, RunLine
<1>2. latest' = latest BY DEF RunLine
<1>3. job \in AllFiles /\ ".config" \in AllFiles BY <1>1 DEF AllFiles
<1>4. CASE IdleLine BY <1>1, <1>2, <1>4 DEF IdleLine
<1>5. CASE ConfigLine
  <2>1. exists' \subseteq AllFiles /\ Pairs(exists', newer') /\ Inputs \subseteq exists'
    BY <1>3, <1>5, TouchFiles DEF ConfigLine
  <2>2. DOMAIN content' = AllFiles BY <1>1, <1>5 DEF ConfigLine, FilesTyped
  <2>3. "config" \in AllFiles BY DEF AllFiles, Inputs
  <2>4. \A f \in AllFiles : content'[f] \in {content[f], content["config"]}
    BY <1>1, <1>5 DEF ConfigLine, FilesTyped
  <2> QED BY <1>1, <1>2, <2>1, <2>2, <2>3, <2>4 DEF FilesTyped
<1>6. CASE TreeLine
  <2>1. Inputs \cap InTree = {} BY DEF Inputs, InTree
  <2>2. exists' \subseteq AllFiles /\ Pairs(exists', newer')
    BY <1>1, <1>6, RemoveTypes DEF TreeLine, FilesTyped
  <2>3. Inputs \subseteq exists' BY <1>1, <1>6, <2>1 DEF TreeLine, Remove, FilesTyped
  <2>4. DOMAIN content' = AllFiles BY <1>1, <1>6 DEF TreeLine, Emptied, FilesTyped
  <2>5. "template" \in AllFiles BY DEF AllFiles, Inputs
  <2>6. \A f \in AllFiles : content'[f] \in {{}, content[f], content["template"]}
    BY <1>1, <1>6 DEF TreeLine, Emptied, FilesTyped
  <2> QED BY <1>1, <1>2, <2>2, <2>3, <2>4, <2>5, <2>6 DEF FilesTyped
<1>7. CASE StampWork \/ ProductWork
  <2>1. exists' \subseteq AllFiles /\ Pairs(exists', newer') /\ Inputs \subseteq exists'
    <3>1. CASE StampWork BY <1>1, <3>1 DEF StampWork, FilesTyped
    <3>2. CASE ProductWork BY <1>3, <3>2, TouchFiles DEF ProductWork
    <3> QED BY <1>7, <3>1, <3>2
  <2>2. content' = [content EXCEPT ![job] = Work] BY <1>7 DEF StampWork, ProductWork
  <2>3. DOMAIN content' = AllFiles BY <1>1, <2>2 DEF FilesTyped
  <2>4. \A f \in AllFiles : content'[f] \in {content[f], Work}
    BY <1>1, <2>2 DEF FilesTyped
  <2> QED BY <1>1, <1>2, <2>1, <2>3, <2>4, WorkTypes DEF FilesTyped
<1>8. CASE LastTouch
  <2>1. exists' \subseteq AllFiles /\ Pairs(exists', newer') /\ Inputs \subseteq exists'
    BY <1>3, <1>8, TouchFiles DEF LastTouch
  <2> QED BY <1>1, <1>2, <1>8, <2>1 DEF LastTouch, FilesTyped
<1> QED BY <1>4, <1>5, <1>6, <1>7, <1>8, LineEffect

(* The line, the target and the walk after a line. *)
LEMMA RunLineControl ==
  ASSUME Typed, RunLine
  PROVE  /\ UNCHANGED <<goal, board, asked, latest, wifiMade, deployed>>
         /\ goal # "none" /\ done < Len(Walk(goal, board))
         /\ job = Walk(goal, board)[done + 1] /\ job \in Targets
         /\ line \in 1..Lines(job) /\ Lines(job) \in 1..3
         /\ \/ line = Lines(job) /\ line' = 1 /\ job' = "none" /\ done' = done + 1
            \/ line < Lines(job) /\ line' = line + 1 /\ job' = job /\ done' = done
<1>1. job \in Targets BY DEF RunLine, Typed
<1>2. Lines(job) \in 1..3
  <2>1. job \in Products \ {"Image.gz", "dhd.ko"}
          \/ job \in {".stamp.copy", ".stamp.patch", ".stamp.config", ".stamp.modules",
                      "wifi.copy", "wifi.patch", "tree", "Image.gz", "dhd.ko"}
    BY <1>1 DEF Products, IsStamp
  <2> QED BY <2>1, LinesAre
<1>3. line \in 1..Lines(job) BY <1>2 DEF RunLine, Typed, Running
<1> QED BY <1>1, <1>2, <1>3 DEF RunLine, LastLine, run, Typed, Running

(* The walk of a goal that configures the kernel begins with the kernel tree. *)
LEMMA KernelWalk ==
  ASSUME NEW g \in KernelGoals, NEW b \in Boards
  PROVE  /\ Len(Walk(g, b)) \in 3..17
         /\ Walk(g, b)[1] = ".stamp.copy" /\ Walk(g, b)[2] = ".stamp.patch"
         /\ Walk(g, b)[3] = ".stamp.config"
BY ImageWalk, ShortWalk DEF KernelGoals, ImageGoals

(* No recipe removes a stamp of the kernel. *)
LEMMA StampStays ==
  ASSUME Typed, RunLine
  PROVE  \A t \in {".stamp.copy", ".stamp.patch", ".stamp.config"} : t \in exists => t \in exists'
BY LineEffect DEF IdleLine, ConfigLine, TreeLine, StampWork, ProductWork, LastTouch,
                  Touch, Remove, InTree

LEMMA RunLineTyped == Typed /\ RunLine => Typed'
<1> SUFFICES ASSUME Typed, RunLine PROVE Typed'
  OBVIOUS
<1>1. FilesTyped(exists, newer, content, latest)' BY RunLineFiles
<1>2. applied' \in [{".stamp.patch", "wifi.patch"} -> 0..2] /\ applied'["wifi.patch"] \in 0..1
  <2>1. CASE job \in {".stamp.patch", "wifi.patch"} /\ line < Lines(job)
    BY <2>1, RunLineControl, LinesAre DEF RunLine, Typed
  <2>2. CASE ~(job \in {".stamp.patch", "wifi.patch"} /\ line < Lines(job))
    BY <2>2, RunLineControl DEF RunLine, LastLine, Typed
  <2> QED BY <2>1, <2>2
<1>3. line' \in 1..3 BY RunLineControl
<1>4. done' \in 0..Len(Walk(goal, board))
  BY RunLineControl, WalkTypes DEF Typed
<1>5. Running'
  <2>1. goal' = goal /\ board' = board /\ goal # "none" BY RunLineControl
  <2>2. CASE line = Lines(job) /\ line' = 1 /\ job' = "none" BY <2>1, <2>2 DEF Running
  <2>3. CASE line < Lines(job) /\ line' = line + 1 /\ job' = job /\ done' = done
    <3>1. line' <= Lines(job') BY <2>3, RunLineControl
    <3>2. done' < Len(Walk(goal', board')) /\ job' = Walk(goal', board')[done' + 1]
      BY <2>1, <2>3, RunLineControl
    <3>3. job' # "none" BY <2>3 DEF RunLine
    <3> QED BY <2>1, <3>1, <3>2, <3>3 DEF Running
  <2> QED BY <2>2, <2>3, RunLineControl
<1>6. linked' \in BOOLEAN BY DEF RunLine, Typed
<1>7. job' \in Targets \cup {"none"} BY RunLineControl
<1>8. Reached'
  <2> SUFFICES ASSUME goal \in KernelGoals, done' >= 3 PROVE ".stamp.config" \in exists'
    BY RunLineControl DEF Reached
  <2>1. CASE done >= 3
    <3>1. ".stamp.config" \in exists BY <2>1 DEF Typed, Reached
    <3> QED BY <3>1, StampStays
  <2>2. CASE done < 3
    <3>1. done = 2 /\ line = Lines(job) /\ job = ".stamp.config"
      BY <2>2, RunLineControl, KernelWalk DEF Typed
    <3>2. ~(line < Lines(job)) /\ line = 3 BY <3>1, LinesAre
    <3>3. LastTouch
      BY <3>1, <3>2, LineEffect
         DEF IdleLine, ConfigLine, TreeLine, StampWork, ProductWork, Products, IsStamp
    <3> QED BY <3>1, <3>3 DEF LastTouch, Touch
  <2> QED BY <2>1, <2>2 DEF Typed
<1> QED BY <1>1, <1>2, <1>3, <1>4, <1>5, <1>6, <1>7, <1>8, RunLineControl DEF Typed

(* Where a make ends or changes the board, what it was at is forgotten. *)
LEMMA StopTyped ==
  ASSUME Typed, FilesTyped(exists, newer, content, latest)',
         goal' = "none", job' = "none", line' = 1, done' = 0, Forget,
         deployed' \in BOOLEAN, UNCHANGED <<applied, linked>>, latest' \in [Inputs -> Nat]
  PROVE  Typed'
<1>1. asked' = Forgotten /\ board' = "2G" /\ wifiMade' = FALSE BY DEF Forget
<1>2. asked' \in [Inputs -> Nat] /\ \A i \in Inputs : asked'[i] <= latest'[i]
  BY <1>1 DEF Forgotten
<1>3. board' \in Boards /\ done' \in 0..Len(Walk(goal', board'))
  <2>1. board' \in Boards BY <1>1 DEF Boards
  <2>2. Len(Walk("none", board')) = 0 BY <2>1, ShortWalk
  <2> QED BY <2>1, <2>2
<1>4. Running' BY DEF Running
<1>5. {linked', wifiMade', deployed'} \subseteq BOOLEAN BY <1>1 DEF Typed
<1>6. /\ goal' \in Goals \cup {"none"} /\ job' \in Targets \cup {"none"}
      /\ line' \in 1..3
  OBVIOUS
<1>7. Reached' BY DEF Reached, KernelGoals
<1> QED BY <1>2, <1>3, <1>4, <1>5, <1>6, <1>7 DEF Typed

LEMMA ConsiderTyped == Typed /\ Consider => Typed'
<1> SUFFICES ASSUME Typed, Consider PROVE Typed'
  OBVIOUS
<1> DEFINE walk == Walk(goal, board)
<1>1. /\ Len(walk) \in 0..17 /\ \A n \in 1..Len(walk) : walk[n] \in Targets
  BY WalkTypes DEF Typed
<1>2. /\ goal # "none" /\ job = "none" /\ done' \in done..Len(walk)
      /\ \/ done' = Len(walk) /\ job' = "none"
         \/ done' < Len(walk) /\ job' = walk[done' + 1]
      /\ UNCHANGED <<files, run, line, wifiMade, deployed>>
  BY ConsiderIs
<1>3. done \in Nat /\ line = 1 BY <1>2 DEF Typed, Running
<1> HIDE DEF walk
<1>4. job' \in Targets \cup {"none"} /\ done' \in 0..Len(walk)
  BY <1>1, <1>2, <1>3
<1>5. job' # "none" => 1 <= Lines(job')
  <2>1. ASSUME NEW t \in Targets PROVE 1 <= Lines(t)
    <3>1. t \in Products \ {"Image.gz", "dhd.ko"}
            \/ t \in {".stamp.copy", ".stamp.patch", ".stamp.config", ".stamp.modules",
                      "wifi.copy", "wifi.patch", "tree", "Image.gz", "dhd.ko"}
      BY <2>1 DEF Products, IsStamp
    <3> QED BY <3>1, LinesAre
  <2> QED BY <1>4, <2>1
<1>6. /\ UNCHANGED <<exists, newer, content, latest, applied, linked, goal, board, asked>>
      /\ UNCHANGED <<line, wifiMade, deployed>>
  BY <1>2 DEF files, run
<1>7. Running' BY <1>2, <1>3, <1>5, <1>6 DEF Running, walk
<1>8. Reached'
  <2> SUFFICES ASSUME goal \in KernelGoals, done' >= 3 PROVE ".stamp.config" \in exists
    BY <1>6 DEF Reached
  <2>1. CASE done >= 3 BY <2>1 DEF Typed, Reached
  <2>2. CASE done < 3
    <3>1. 3 \in (done + 1)..done' BY <1>1, <1>2, <1>3, <2>2
    <3>2. walk[3] = ".stamp.config" BY KernelWalk DEF Typed, walk
    <3>3. ~OutOfDate(".stamp.config") BY <3>1, <3>2, ConsiderIs DEF walk
    <3> QED BY <3>3 DEF OutOfDate, Missing
  <2> QED BY <1>3, <2>1, <2>2
<1> QED BY <1>4, <1>6, <1>7, <1>8 DEF Typed, walk

LEMMA AskTyped ==
  ASSUME Typed, NEW g \in Goals, Ask(g)
  PROVE  Typed'
<1>1. FilesTyped(exists, newer, content, latest)'
  <2>1. CASE g = "deploy"
    <3>1. Inputs \cap Obsolete = {} BY DEF Inputs, Obsolete
    <3> QED BY <2>1, <3>1, RemoveFiles DEF Ask
  <2>2. CASE g # "deploy" BY <2>2 DEF Ask, Typed
  <2> QED BY <2>1, <2>2
<1>2. asked' \in [Inputs -> Nat] /\ \A i \in Inputs : asked'[i] <= latest'[i]
  <2>1. asked' = latest /\ latest' = latest BY DEF Ask
  <2> QED BY <2>1 DEF Typed
<1>3. board' \in Boards BY DEF Ask, Boards
<1>4. goal' \in Goals /\ done' = 0 /\ job' = "none" /\ line' = 1
  <2>1. job = "none"
    BY DEF Ask, Typed, Running
  <2> QED BY <2>1 DEF Ask, Typed, Running
<1>5. 0 \in 0..Len(Walk(goal', board'))
  <2>1. ASSUME NEW b \in Boards PROVE Len(Walk(g, b)) \in 0..17 BY <2>1, WalkTypes
  <2>2. goal' = g BY DEF Ask
  <2> QED BY <1>3, <2>1, <2>2
<1>6. "none" \notin Goals BY BuildConstants
<1>7. Running' BY <1>4, <1>6 DEF Running
<1>8. wifiMade' \in BOOLEAN /\ deployed' \in BOOLEAN /\ UNCHANGED <<latest, applied, linked>>
  BY DEF Ask, ReadRules
<1>9. Reached' BY <1>4 DEF Reached
<1> QED BY <1>1, <1>2, <1>3, <1>4, <1>5, <1>7, <1>8, <1>9 DEF Typed

LEMMA EditTyped ==
  ASSUME Typed, NEW i \in Inputs, Edit(i)
  PROVE  Typed'
<1>1. /\ latest' = [latest EXCEPT ![i] = @ + 1]
      /\ content' = [content EXCEPT ![i] = {<<i, latest'[i]>>}]
      /\ Touch(i)
      /\ UNCHANGED <<applied, linked, goal, board, asked, done, job, line, wifiMade, deployed>>
  BY DEF Edit, run
<1>2. /\ FilesTyped(exists, newer, content, latest) /\ latest \in [Inputs -> Nat]
      /\ asked \in [Inputs -> Nat] /\ \A j \in Inputs : asked[j] <= latest[j]
  BY DEF Typed
<1>3. i \in AllFiles BY DEF AllFiles
<1>4. latest' \in [Inputs -> Nat] /\ \A j \in Inputs : latest[j] <= latest'[j]
  BY <1>1, <1>2
<1>5. \A j \in Inputs : asked[j] <= latest'[j] BY <1>2, <1>4
<1>6. FilesTyped(exists, newer, content, latest)'
  <2>1. exists' \subseteq AllFiles /\ Pairs(exists', newer') /\ Inputs \subseteq exists'
    BY <1>1, <1>3, TouchFiles
  <2>2. DOMAIN content' = AllFiles BY <1>1, <1>2 DEF FilesTyped
  <2>3. ASSUME NEW v, Version(v, latest) PROVE Version(v, latest')
    BY <1>2, <1>4, <2>3 DEF Version
  <2>4. Version(<<i, latest'[i]>>, latest') BY <1>4 DEF Version
  <2>5. \A f \in AllFiles : content'[f] \in {content[f], {<<i, latest'[i]>>}}
    BY <1>1, <1>2 DEF FilesTyped
  <2> QED BY <1>2, <2>1, <2>2, <2>3, <2>4, <2>5 DEF FilesTyped
<1>7. Running' BY <1>1 DEF Typed, Running
<1>8. Reached' BY <1>1 DEF Typed, Reached, Touch
<1> QED BY <1>1, <1>4, <1>5, <1>6, <1>7, <1>8 DEF Typed

(* The ends of a make. *)
LEMMA EndTyped ==
  ASSUME Typed, GiveUp \/ Built \/ (Ship /\ board # "2G") \/ Menuconfig \/ Getconfig
                  \/ KernelClean \/ KernelTouch
  PROVE  Typed'
<1> DEFINE ends == /\ goal' = "none" /\ job' = "none" /\ line' = 1 /\ done' = 0 /\ Forget
                   /\ deployed' \in BOOLEAN /\ UNCHANGED <<applied, linked>>
<1>0. FilesTyped(exists, newer, content, latest) /\ latest \in [Inputs -> Nat]
  BY DEF Typed
<1>1. CASE GiveUp
  BY <1>0, <1>1, StopTyped DEF GiveUp, files
<1>2. ASSUME NEW g, NEW how \in BOOLEAN, Ready(g), End(how) PROVE ends
  BY <1>2 DEF Ready, Idle, End, Typed, Running
<1>3. CASE Built
  BY <1>0, <1>2, <1>3, StopTyped DEF Built
<1>4. CASE Ship /\ board # "2G"
  <2>1. Inputs \cap Shipped = {} BY DEF Inputs, Shipped
  <2>2. FilesTyped(exists, newer, content, latest)' /\ latest' = latest
    BY <1>4, <2>1, RemoveFiles DEF Ship
  <2> QED BY <1>0, <1>2, <1>4, <2>2, StopTyped DEF Ship
<1>5. CASE KernelClean
  <2>1. Inputs \cap Cleaned = {} BY DEF Inputs, Cleaned
  <2>2. FilesTyped(exists, newer, content, latest)' /\ latest' = latest
    BY <1>5, <2>1, RemoveFiles DEF KernelClean
  <2> QED BY <1>0, <1>2, <1>5, <2>2, StopTyped DEF KernelClean
<1>6. CASE KernelTouch
  <2>1. ".stamp.config" \in AllFiles BY DEF AllFiles, Targets
  <2>2. exists' \subseteq AllFiles /\ Pairs(exists', newer') /\ Inputs \subseteq exists'
    BY <1>6, <2>1, TouchFiles DEF KernelTouch
  <2>3. content' = content /\ latest' = latest BY <1>6 DEF KernelTouch
  <2>4. FilesTyped(exists, newer, content, latest)' BY <1>0, <2>2, <2>3 DEF FilesTyped
  <2> QED BY <1>0, <1>2, <1>6, <2>3, <2>4, StopTyped DEF KernelTouch
<1>7. CASE Menuconfig
  <2>1. /\ latest' = [latest EXCEPT !["config"] = @ + 1]
        /\ content' = [content EXCEPT ![".config"] = {<<"config", latest'["config"]>>}]
        /\ exists' = exists \cup {".config"}
        /\ newer' = Touched(exists, Touched(exists, newer, ".config"), ".stamp.config")
    BY <1>7 DEF Menuconfig
  <2>2. "config" \in Inputs /\ {".config", ".stamp.config"} \subseteq AllFiles
    BY DEF Inputs, AllFiles, Targets
  <2>3. latest' \in [Inputs -> Nat] /\ \A j \in Inputs : latest[j] <= latest'[j]
    BY <1>0, <2>1, <2>2
  <2>4. ASSUME NEW v, Version(v, latest) PROVE Version(v, latest')
    BY <1>0, <2>3, <2>4 DEF Version
  <2>5. Version(<<"config", latest'["config"]>>, latest') BY <2>2, <2>3 DEF Version
  <2>6. DOMAIN content' = AllFiles
        /\ \A f \in AllFiles : content'[f] \in {content[f], {<<"config", latest'["config"]>>}}
    BY <1>0, <2>1 DEF FilesTyped
  <2>7. ".stamp.config" \in exists
    <3>1. goal = "menuconfig" /\ done = Len(Walk(goal, board))
      BY <1>7 DEF Menuconfig, Ready
    <3>2. goal \in KernelGoals /\ board \in Boards BY <3>1 DEF KernelGoals, Typed
    <3>3. done >= 3 BY <3>1, <3>2, KernelWalk
    <3> QED BY <3>2, <3>3 DEF Typed, Reached
  <2>8. Pairs(exists', newer')
    <3>1. ASSUME NEW p \in newer'
          PROVE  \/ p \in newer
                 \/ \E f \in {".config", ".stamp.config"}, t \in exists :
                      p = <<f, t>> /\ Compared(f, t)
      BY <2>1, <3>1 DEF Touched
    <3>2. ASSUME NEW p \in newer, p \in newer'
          PROVE  {p[1], p[2]} \subseteq exists' /\ Compared(p[1], p[2])
      BY <1>0, <2>1, <3>2 DEF Pairs, FilesTyped
    <3>3. ASSUME NEW f \in {".config", ".stamp.config"}, NEW t \in exists, Compared(f, t)
          PROVE  /\ {<<f, t>>[1], <<f, t>>[2]} \subseteq exists'
                 /\ Compared(<<f, t>>[1], <<f, t>>[2])
      BY <2>1, <2>7, <3>3
    <3>4. ASSUME NEW p \in newer' PROVE {p[1], p[2]} \subseteq exists' /\ Compared(p[1], p[2])
      <4>1. CASE p \in newer BY <3>2, <4>1
      <4>2. CASE p \notin newer
        <5>1. PICK f \in {".config", ".stamp.config"}, t \in exists :
                p = <<f, t>> /\ Compared(f, t)
          BY <3>1, <4>2
        <5> QED BY <3>3, <5>1
      <4> QED BY <4>1, <4>2
    <3> QED BY <3>4 DEF Pairs
  <2>9. FilesTyped(exists, newer, content, latest)'
    BY <1>0, <2>1, <2>2, <2>4, <2>5, <2>6, <2>8 DEF FilesTyped
  <2>10. Ready("menuconfig") /\ End(FALSE) BY <1>7 DEF Menuconfig
  <2> QED BY <1>2, <2>3, <2>9, <2>10, StopTyped
<1>8. CASE Getconfig
  <2>1. /\ content' = [content EXCEPT !["config"] = content[".config"]]
        /\ exists' = exists /\ latest' = latest
        /\ \/ newer' = (newer \ {<<"config", ".stamp.config">>}) \cup
                {<<"config", t>> : t \in {g \in exists : <<".config", g>> \in newer}}
           \/ newer' = newer
    BY <1>8 DEF Getconfig, Ucopy, Untouched
  <2>2. ".config" \in AllFiles BY DEF AllFiles
  <2>3. DOMAIN content' = AllFiles
        /\ \A f \in AllFiles : content'[f] \in {content[f], content[".config"]}
    BY <1>0, <2>1 DEF FilesTyped
  <2>4. ASSUME NEW t, <<".config", t>> \in newer
        PROVE  t \in exists /\ Compared("config", t) /\ "config" \in exists
    <3>1. t \in exists /\ Compared(".config", t) BY <1>0, <2>4 DEF FilesTyped, Pairs
    <3>2. \A b \in Boards : ".config" \notin Prereqs(t, b) BY DEF Prereqs, Dtb
    <3>3. t = ".stamp.config" BY <3>1, <3>2 DEF Compared
    <3>4. Compared("config", ".stamp.config")
      <4>1. "config" \in Prereqs(".stamp.config", "2G") BY DEF Prereqs
      <4> QED BY <4>1 DEF Compared, Boards
    <3> QED BY <1>0, <3>1, <3>3, <3>4 DEF FilesTyped, Inputs
  <2>5. Pairs(exists', newer')
    <3>1. ASSUME NEW p \in newer'
          PROVE  p \in newer \/ \E t \in exists : p = <<"config", t>> /\ <<".config", t>> \in newer
      BY <2>1
    <3>2. ASSUME NEW p \in newer' PROVE {p[1], p[2]} \subseteq exists' /\ Compared(p[1], p[2])
      <4>1. CASE p \in newer BY <1>0, <2>1, <4>1 DEF Pairs, FilesTyped
      <4>2. CASE p \notin newer
        <5>1. PICK t \in exists : p = <<"config", t>> /\ <<".config", t>> \in newer
          BY <3>1, <4>2
        <5> QED BY <2>1, <2>4, <5>1
      <4> QED BY <4>1, <4>2
    <3> QED BY <3>2 DEF Pairs
  <2>6. FilesTyped(exists, newer, content, latest)'
    BY <1>0, <2>1, <2>2, <2>3, <2>5 DEF FilesTyped
  <2>7. Ready("getconfig") /\ End(FALSE) BY <1>8 DEF Getconfig
  <2> QED BY <1>0, <1>2, <2>1, <2>6, <2>7, StopTyped
<1> QED BY <1>1, <1>3, <1>4, <1>5, <1>6, <1>7, <1>8

(* The make of the next board, for which the walk begins again. *)
LEMMA ShipTyped == Typed /\ Ship => Typed'
<1> SUFFICES ASSUME Typed, Ship PROVE Typed'
  OBVIOUS
<1>1. CASE board # "2G" BY <1>1, EndTyped
<1>2. CASE board = "2G"
  <2>1. Inputs \cap Shipped = {} BY DEF Inputs, Shipped
  <2>2. FilesTyped(exists, newer, content, latest)' /\ latest' = latest
    BY <2>1, RemoveFiles DEF Ship
  <2>3. /\ board' = "3G" /\ done' = 0 /\ wifiMade' \in BOOLEAN /\ job = "none" /\ goal = "deploy"
        /\ UNCHANGED <<goal, deployed, asked, job, line, applied, linked>>
    BY <1>2 DEF Ship, ReadRules, Ready, Idle
  <2>4. board' \in Boards /\ goal' \in Goals BY <2>3 DEF Boards, Typed
  <2>5. 0 \in 0..Len(Walk(goal', board'))
    BY <2>4, WalkTypes
  <2>6. Running' /\ Reached' BY <2>3 DEF Running, Reached, Typed
  <2> QED BY <2>2, <2>3, <2>4, <2>5, <2>6 DEF Typed
<1> QED BY <1>1, <1>2

LEMMA InitTyped == Init => Typed
<1> SUFFICES ASSUME Init PROVE Typed
  OBVIOUS
<1>1. FilesTyped(exists, newer, content, latest)
  <2>1. exists \subseteq AllFiles /\ Inputs \subseteq exists /\ Pairs(exists, newer)
    BY DEF Init, AllFiles, Pairs
  <2>2. DOMAIN content = AllFiles BY DEF Init, AllFiles
  <2>3. ASSUME NEW f \in AllFiles, NEW v \in content[f] PROVE Version(v, latest)
    <3>1. f \in Inputs /\ v = <<f, 0>> BY <2>3 DEF Init, AllFiles
    <3>2. latest[f] = 0 BY <3>1 DEF Init
    <3> QED BY <3>1, <3>2 DEF Version
  <2> QED BY <2>1, <2>2, <2>3 DEF FilesTyped
<1>2. latest \in [Inputs -> Nat] /\ asked \in [Inputs -> Nat] /\ \A i \in Inputs : asked[i] <= latest[i]
  BY DEF Init, Forgotten
<1>3. applied \in [{".stamp.patch", "wifi.patch"} -> 0..2] /\ applied["wifi.patch"] \in 0..1
  BY DEF Init
<1>4. board \in Boards /\ done \in 0..Len(Walk(goal, board))
  <2>1. board \in Boards BY DEF Init, Boards
  <2> QED BY <2>1, ShortWalk DEF Init
<1>5. Running /\ Reached BY DEF Init, Running, Reached, KernelGoals
<1>6. /\ goal \in Goals \cup {"none"} /\ job \in Targets \cup {"none"} /\ line \in 1..3
  BY DEF Init
<1>7. {linked, wifiMade, deployed} \subseteq BOOLEAN
  <2>1. linked = FALSE /\ wifiMade = FALSE /\ deployed = FALSE BY DEF Init
  <2> QED BY <2>1
<1> QED BY <1>1, <1>2, <1>3, <1>4, <1>5, <1>6, <1>7 DEF Typed

(* The types of the build, for every set of targets that may fail. *)
LEMMA NextTyped == Typed /\ [Next]_vars => Typed'
<1> SUFFICES ASSUME Typed, [Next]_vars PROVE Typed'
  OBVIOUS
<1>1. CASE RunLine BY <1>1, RunLineTyped
<1>2. CASE Consider BY <1>2, ConsiderTyped
<1>3. ASSUME NEW g \in Goals, Ask(g) PROVE Typed' BY <1>3, AskTyped
<1>4. ASSUME NEW i \in Inputs, Edit(i) PROVE Typed' BY <1>4, EditTyped
<1>5. CASE Ship BY <1>5, ShipTyped
<1>6. CASE CannotRun \/ Break \/ NothingThere \/ Built \/ Menuconfig \/ Getconfig \/ KernelClean
             \/ KernelTouch
  BY <1>6, EndTyped DEF CannotRun, Break, NothingThere
<1>7. CASE UNCHANGED vars
  BY <1>7 DEF vars, files, run, Typed, Running, Reached
<1> QED BY <1>1, <1>2, <1>3, <1>4, <1>5, <1>6, <1>7 DEF Next, Make

(* Files, times, versions and the place of make in its walk stay in their ranges. *)
THEOREM TypeCorrect == Spec => []TypeOK
<1> QED BY InitTyped, NextTyped, TypedIsTypeOK, PTL DEF Spec
-----------------------------------------------------------------------------
(* The place of a target in the walk.                                          *)

(* t is the n-th of the seventeen *)
PlaceOf(t, g, b, n) ==
  /\ t = ".stamp.copy" => n = 1
  /\ t = ".stamp.patch" => n = 2
  /\ t = ".stamp.config" => n = 3
  /\ t = "Image.gz" => n = 4
  /\ t = "tree" => n = 5
  /\ t = "wifi.copy" => n = 6
  /\ t = "wifi.patch" => n = 7
  /\ t = "dhd.ko" => n = 8
  /\ t = "tree/dhd.ko" => n = 9
  /\ t = ".stamp.modules" => n = 10
  /\ t = "tree/btusb.ko" => n = 11
  /\ t = "modules.dep" => n = 12
  /\ t = "initramfs" => n = 13
  /\ t \in {"2g.dts", "3g.dts"} => n = 14 /\ t = Dts(b)
  /\ t \in {"2g.dtb", "3g.dtb"} => n = 15 /\ t = Dtb(b)
  /\ t \in {"boot.img", "kernel.img"} => n = 16 /\ t = BootImg(g)
  /\ t = "dtb.img" => n = 17

LEMMA ImagePlace ==
  ASSUME NEW g \in ImageGoals, NEW b \in Boards, NEW n \in 1..17
  PROVE  PlaceOf(Walk(g, b)[n], g, b, n)
<1> DEFINE w == Walk(g, b)
<1>1. n \in {1, 2, 3, 4, 5, 6, 7, 8, 9, 10, 11, 12, 13, 14, 15, 16, 17}
  OBVIOUS
<1>2. Dts(b) \in {"2g.dts", "3g.dts"} /\ Dtb(b) \in {"2g.dtb", "3g.dtb"}
      /\ BootImg(g) \in {"boot.img", "kernel.img"}
  BY DEF Dts, Dtb, BootImg
<1>3. /\ w[1] = ".stamp.copy" /\ w[2] = ".stamp.patch" /\ w[3] = ".stamp.config"
      /\ w[4] = "Image.gz" /\ w[5] = "tree" /\ w[6] = "wifi.copy" /\ w[7] = "wifi.patch"
      /\ w[8] = "dhd.ko" /\ w[9] = "tree/dhd.ko" /\ w[10] = ".stamp.modules"
      /\ w[11] = "tree/btusb.ko" /\ w[12] = "modules.dep" /\ w[13] = "initramfs"
      /\ w[14] = Dts(b) /\ w[15] = Dtb(b) /\ w[16] = BootImg(g) /\ w[17] = "dtb.img"
  BY ImageWalk
<1>4. SUFFICES PlaceOf(w[n], g, b, n) OBVIOUS
<1> HIDE DEF w
<1>5. CASE n \in {1, 2, 3, 4, 5} BY <1>2, <1>3, <1>5 DEF PlaceOf
<1>6. CASE n \in {6, 7, 8, 9, 10} BY <1>2, <1>3, <1>6 DEF PlaceOf
<1>7. CASE n \in {11, 12, 13, 14} BY <1>2, <1>3, <1>7 DEF PlaceOf
<1>8. CASE n \in {15, 16, 17} BY <1>2, <1>3, <1>8 DEF PlaceOf
<1> QED BY <1>1, <1>5, <1>6, <1>7, <1>8

(* The stamps of the kernel are made in the walks of four goals, in this order. *)
LEMMA StampPlace ==
  ASSUME Typed, job # "none"
  PROVE  /\ done \in 0..16 /\ board \in Boards
         /\ job = ".stamp.copy" => goal \in KernelGoals /\ done = 0
         /\ job = ".stamp.patch" => goal \in KernelGoals /\ done = 1
         /\ job = ".stamp.config" => goal \in KernelGoals /\ done = 2
<1>1. /\ goal \in Goals /\ board \in Boards /\ done \in Nat /\ done < Len(Walk(goal, board))
      /\ job = Walk(goal, board)[done + 1]
  BY DEF Typed, Running
<1>2. CASE goal \in ImageGoals
  <2>1. Len(Walk(goal, board)) = 17 BY <1>1, <1>2, ImageWalk
  <2>2. PICK n \in 1..17 : n = done + 1 BY <1>1, <2>1
  <2>3. job = Walk(goal, board)[n] BY <1>1, <2>2
  <2>4. PlaceOf(job, goal, board, n) BY <1>1, <1>2, <2>3, ImagePlace
  <2>5. goal \in KernelGoals BY <1>2 DEF KernelGoals, ImageGoals
  <2> QED BY <1>1, <2>2, <2>4, <2>5 DEF PlaceOf
<1>3. CASE goal \in {"menuconfig", "getconfig"}
  <2>1. done \in {0, 1, 2} /\ goal \in KernelGoals
    BY <1>1, <1>3, ShortWalk DEF KernelGoals
  <2> QED BY <1>1, <1>3, <2>1, ShortWalk
<1>4. CASE goal = "clean"
  <2>1. done \in {0, 1} BY <1>1, <1>4, ShortWalk
  <2> QED BY <1>1, <1>4, <2>1, ShortWalk
<1>5. goal # "touch" BY <1>1, ShortWalk
<1> QED BY <1>1, <1>2, <1>3, <1>4, <1>5, BuildConstants DEF ImageGoals

-----------------------------------------------------------------------------
(* The stamps of the kernel tree.                                              *)

NewerThan(p, t) == <<p, t>> \in newer

(* Each stamp is there only with the one before it.  What .stamp.config says of
   .config is true: if config is not newer, .config is the last configuration; if
   it is newer, the kernel is to be configured, and not already.               *)
Stamps ==
  /\ ".stamp.config" \in exists => ".stamp.patch" \in exists
  /\ ".stamp.patch" \in exists => ".stamp.copy" \in exists
  /\ ~NewerThan(".stamp.copy", ".stamp.patch") /\ ~NewerThan(".stamp.patch", ".stamp.config")
  /\ NewerThan(".config", ".stamp.config") => NewerThan("config", ".stamp.config")
  /\ NewerThan("config", ".stamp.config") /\ ~NewerThan(".config", ".stamp.config")
       => content["config"] # content[".config"]
  /\ Configured => content[".config"] = {<<"config", latest["config"]>>}
  /\ ~Configured => content["config"] = {<<"config", latest["config"]>>}

(* what a make relies on while it makes the stamps, and after *)
StampRun ==
  /\ job \in {".stamp.copy", ".stamp.patch"} => job \notin exists
  /\ job = ".stamp.config" => ~Configured
  /\ job = ".stamp.config" /\ line > 1 => content[".config"] = content["config"]
  /\ goal \in KernelGoals /\ done >= 1 => ".stamp.copy" \in exists
  /\ goal \in KernelGoals /\ done >= 2 => ".stamp.patch" \in exists
  /\ goal \in {"menuconfig", "getconfig"} /\ done = 3 => Configured
  /\ goal = "touch" => Configured

(* a step that has nothing to do with the stamps *)
SameStamps ==
  /\ \A t \in {".stamp.copy", ".stamp.patch", ".stamp.config"} : t \in exists' <=> t \in exists
  /\ \A p \in {".stamp.copy", ".stamp.patch", "config", ".config"} :
       \A t \in {".stamp.patch", ".stamp.config"} : <<p, t>> \in newer' <=> <<p, t>> \in newer
  /\ content'["config"] = content["config"] /\ content'[".config"] = content[".config"]
  /\ latest'["config"] = latest["config"]

LEMMA SameStampsKeep ==
  ASSUME SameStamps
  PROVE  (Stamps => Stamps') /\ (Configured' <=> Configured)
BY DEF SameStamps, Stamps, NewerThan, Configured

(* Of two files that are compared both exist. *)
LEMMA NewerExist ==
  ASSUME Typed, NEW p, NEW t, NewerThan(p, t)
  PROVE  p \in exists /\ t \in exists
BY DEF Typed, FilesTyped, Pairs, NewerThan

(* The recipes of the other targets. *)
LEMMA OtherLine ==
  ASSUME Typed, RunLine, job \notin {".stamp.copy", ".stamp.patch", ".stamp.config"}
  PROVE  SameStamps
<1>1. job \in Targets /\ job \notin {"config", ".config"} /\ latest' = latest
      /\ {"config", ".config"} \subseteq DOMAIN content
  BY DEF RunLine, Typed, FilesTyped, Targets, InTree, AllFiles, Inputs
<1>2. CASE Touch(job)
  <2>1. /\ exists' = exists \cup {job}
        /\ \A p, t : <<p, t>> \in newer' <=>
             \/ t # job /\ <<p, t>> \in newer
             \/ p = job /\ t \in exists /\ Compared(job, t)
    BY <1>2, TouchIs
  <2>2. ProductWork \/ LastTouch \/ IdleLine \/ StampWork \/ TreeLine
    BY LineEffect DEF ConfigLine
  <2>3. content'["config"] = content["config"] /\ content'[".config"] = content[".config"]
    BY <1>1, <2>2 DEF ProductWork, LastTouch, IdleLine, StampWork, TreeLine, Emptied, InTree
  <2> QED BY <1>1, <2>1, <2>3 DEF SameStamps
<1>3. CASE IdleLine BY <1>1, <1>3 DEF IdleLine, SameStamps
<1>4. CASE StampWork BY <1>1, <1>4 DEF StampWork, SameStamps
<1>5. CASE TreeLine
  <2>1. /\ exists' = exists \ InTree
        /\ \A p, t : <<p, t>> \in newer' <=> <<p, t>> \in newer /\ p \notin InTree /\ t \notin InTree
    BY <1>5, RemoveIs DEF TreeLine
  <2>2. content'["config"] = content["config"] /\ content'[".config"] = content[".config"]
    BY <1>1, <1>5 DEF TreeLine, Emptied, InTree
  <2> QED BY <1>1, <2>1, <2>2 DEF SameStamps, InTree
<1> QED BY <1>2, <1>3, <1>4, <1>5, LineEffect DEF ConfigLine, ProductWork, LastTouch

(* make compares .stamp.config with both. *)
LEMMA ConfigCompared ==
  /\ Compared(".config", ".stamp.config") /\ Compared("config", ".stamp.config")
  /\ \A b \in Boards : Prereqs(".stamp.copy", b) = {} /\ Prereqs(".stamp.patch", b) = {".stamp.copy"}
                       /\ Prereqs(".stamp.config", b) = {".stamp.patch", "config"}
<1>1. \A b \in Boards : Prereqs(".stamp.copy", b) = {} /\ Prereqs(".stamp.patch", b) = {".stamp.copy"}
                        /\ Prereqs(".stamp.config", b) = {".stamp.patch", "config"}
  BY DEF Prereqs
<1> QED BY <1>1 DEF Compared, Boards

(* The recipes of the stamps. *)
LEMMA StampLine ==
  ASSUME Typed, Stamps, StampRun, RunLine, job \in {".stamp.copy", ".stamp.patch", ".stamp.config"}
  PROVE  /\ Stamps'
         /\ job = ".stamp.config" =>
              IF line = 3 THEN Configured' ELSE ~Configured' /\ content'[".config"] = content'["config"]
<1>1. /\ job # "none" /\ latest' = latest /\ line \in 1..3 /\ Lines(job) = 3
      /\ {"config", ".config"} \subseteq DOMAIN content
  BY LinesAre DEF RunLine, Typed, FilesTyped, AllFiles, Inputs
<1>2. CASE IdleLine
  <2>1. SameStamps /\ job # ".stamp.config" BY <1>1, <1>2 DEF IdleLine, SameStamps
  <2> QED BY <2>1, SameStampsKeep
<1>3. CASE ConfigLine
  <2>1. /\ exists' = exists \cup {".config"}
        /\ \A p, t : <<p, t>> \in newer' <=>
             \/ t # ".config" /\ <<p, t>> \in newer
             \/ p = ".config" /\ t \in exists /\ Compared(".config", t)
    BY <1>3, TouchIs DEF ConfigLine
  <2>2. content'["config"] = content["config"] /\ content'[".config"] = content["config"]
    BY <1>1, <1>3 DEF ConfigLine, StampRun
  <2>3. ~Configured /\ line # 3 /\ job = ".stamp.config" BY <1>3 DEF ConfigLine, StampRun
  <2>4. <<".config", ".stamp.config">> \in newer' <=> ".stamp.config" \in exists
    BY <2>1, ConfigCompared, NewerExist DEF NewerThan
  <2>5. \A p \in {".stamp.copy", ".stamp.patch", "config"} :
          \A t \in {".stamp.patch", ".stamp.config"} : <<p, t>> \in newer' <=> <<p, t>> \in newer
    BY <2>1
  <2>6. ~Configured' BY <2>1, <2>3, <2>5 DEF Configured
  <2>7. \A t \in {".stamp.copy", ".stamp.patch", ".stamp.config"} : t \in exists' <=> t \in exists
    BY <2>1
  <2>8. <<"config", ".stamp.config">> \in newer \/ ".stamp.config" \notin exists
    BY <2>3 DEF Configured
  <2>9. Stamps'
    BY <1>1, <2>2, <2>3, <2>4, <2>5, <2>6, <2>7, <2>8, NewerExist DEF Stamps, NewerThan
  <2> QED BY <2>2, <2>3, <2>6, <2>9
<1>4. CASE LastTouch
  <2>1. /\ exists' = exists \cup {job} /\ line = 3 /\ content' = content
        /\ \A p, t : <<p, t>> \in newer' <=>
             \/ t # job /\ <<p, t>> \in newer
             \/ p = job /\ t \in exists /\ Compared(job, t)
    BY <1>1, <1>4, TouchIs DEF LastTouch
  <2>2. CASE job = ".stamp.copy"
    <3>1. ".stamp.copy" \notin exists /\ ".stamp.patch" \notin exists /\ ".stamp.config" \notin exists
      BY <2>2 DEF Stamps, StampRun
    <3>2. Stamps'
      BY <1>1, <2>1, <2>2, <3>1, NewerExist DEF Stamps, NewerThan, Configured
    <3> QED BY <2>2, <3>2
  <2>3. CASE job = ".stamp.patch"
    <3>1. ".stamp.copy" \in exists /\ ".stamp.patch" \notin exists /\ ".stamp.config" \notin exists
      BY <1>1, <2>3, StampPlace DEF Stamps, StampRun
    <3>2. Stamps'
      BY <1>1, <2>1, <2>3, <3>1, NewerExist DEF Stamps, NewerThan, Configured
    <3> QED BY <2>3, <3>2
  <2>4. CASE job = ".stamp.config"
    <3>1. ".stamp.patch" \in exists BY <1>1, <2>4, StampPlace DEF StampRun
    <3>2. content[".config"] = {<<"config", latest["config"]>>}
      BY <2>1, <2>4 DEF Stamps, StampRun
    <3>3. /\ \A p \in {".stamp.copy", ".stamp.patch", "config", ".config"} :
               <<p, ".stamp.config">> \notin newer'
          /\ <<".stamp.copy", ".stamp.patch">> \in newer' <=> <<".stamp.copy", ".stamp.patch">> \in newer
      BY <2>1, <2>4
    <3>4. Configured' BY <2>1, <2>4, <3>3 DEF Configured
    <3>5. Stamps' BY <1>1, <2>1, <2>4, <3>1, <3>2, <3>3, <3>4 DEF Stamps, NewerThan
    <3> QED BY <2>1, <3>4, <3>5
  <2> QED BY <2>2, <2>3, <2>4
<1> QED BY <1>2, <1>3, <1>4, LineEffect DEF TreeLine, StampWork, ProductWork, Products, IsStamp
LEMMA RunLineStamps ==
  ASSUME Typed, Stamps, StampRun, RunLine
  PROVE  Stamps' /\ StampRun'
<1>1. CASE job \notin {".stamp.copy", ".stamp.patch", ".stamp.config"}
  <2>1. SameStamps BY <1>1, OtherLine
  <2>2. Stamps' /\ (Configured' <=> Configured) BY <2>1, SameStampsKeep
  <2>3. \A t \in {".stamp.copy", ".stamp.patch"} : t \in exists => t \in exists'
    BY <2>1 DEF SameStamps
  <2>4. job' \notin {".stamp.copy", ".stamp.patch", ".stamp.config"} /\ goal' = goal
    BY <1>1, RunLineControl
  <2>5. goal \in KernelGoals => done # 0 /\ done # 1 /\ done # 2
    <3>1. /\ done = 0 => job = Walk(goal, board)[1]
          /\ done = 1 => job = Walk(goal, board)[2]
          /\ done = 2 => job = Walk(goal, board)[3]
      BY RunLineControl
    <3> QED BY <1>1, <3>1, KernelWalk DEF Typed
  <2>6. goal \in KernelGoals => done \in Nat /\ done >= 3 /\ goal \notin {"menuconfig", "getconfig"}
    <3>1. done \in Nat BY DEF Typed
    <3>2. goal \in {"menuconfig", "getconfig"} => done < 3
      BY RunLineControl, ShortWalk DEF Typed
    <3> QED BY <2>5, <3>1, <3>2
  <2>7. goal # "touch"
    <3>1. Len(Walk("touch", board)) = 0 BY ShortWalk DEF Typed
    <3> QED BY <3>1, RunLineControl DEF Typed
  <2>8. goal \in KernelGoals => ".stamp.copy" \in exists /\ ".stamp.patch" \in exists
    BY <2>6 DEF StampRun
  <2> QED BY <2>2, <2>3, <2>4, <2>6, <2>7, <2>8 DEF StampRun, KernelGoals
<1>2. CASE job \in {".stamp.copy", ".stamp.patch", ".stamp.config"}
  <2>1. Stamps' BY <1>2, StampLine
  <2>2. job # "none" /\ goal \in KernelGoals /\ goal' = goal /\ Lines(job) = 3
    BY <1>2, StampPlace, RunLineControl, LinesAre
  <2>3. CASE line < 3
    <3>1. job' = job /\ done' = done /\ line' = line + 1 BY <2>2, <2>3, RunLineControl
    <3>2. \A t \in {".stamp.copy", ".stamp.patch", ".stamp.config"} : t \in exists => t \in exists'
      BY StampStays
    <3>3. job \in {".stamp.copy", ".stamp.patch"} => exists' = exists
      BY <2>2, <2>3, LineEffect
         DEF IdleLine, ConfigLine, TreeLine, StampWork, ProductWork, LastTouch, Products, IsStamp
    <3>4. done \in {0, 1, 2} BY <1>2, <2>2, StampPlace
    <3>5. goal # "touch" BY <2>2 DEF KernelGoals
    <3>6. job = ".stamp.config" => ~Configured' /\ content'[".config"] = content'["config"]
      BY <1>2, <2>3, StampLine
    <3> QED BY <2>1, <2>2, <3>1, <3>2, <3>3, <3>4, <3>5, <3>6 DEF StampRun
  <2>4. CASE line = 3
    <3>1. job' = "none" /\ done' = done + 1 BY <2>2, <2>4, RunLineControl
    <3>2. LastTouch
      BY <2>2, <2>4, LineEffect, <1>2
         DEF IdleLine, ConfigLine, TreeLine, StampWork, ProductWork, Products, IsStamp
    <3>3. exists' = exists \cup {job} BY <3>2 DEF LastTouch, Touch
    <3>4. /\ job = ".stamp.copy" => done = 0
          /\ job = ".stamp.patch" => done = 1
          /\ job = ".stamp.config" => done = 2
      BY <2>2, StampPlace
    <3>5. goal # "touch" BY <2>2 DEF KernelGoals
    <3>6. job = ".stamp.config" => Configured' BY <1>2, <2>4, StampLine
    <3> QED BY <1>2, <2>1, <2>2, <3>1, <3>3, <3>4, <3>5, <3>6 DEF StampRun
  <2>5. line \in {1, 2, 3} BY DEF Typed
  <2> QED BY <2>3, <2>4, <2>5
<1> QED BY <1>1, <1>2

(* make passes a stamp only if it is up to date, and makes it only if it is not. *)
LEMMA ConsiderStamps ==
  ASSUME Typed, Stamps, StampRun, Consider
  PROVE  Stamps' /\ StampRun'
<1> DEFINE walk == Walk(goal, board)
<1>1. /\ goal # "none" /\ job = "none" /\ done' \in done..Len(walk) /\ done < Len(walk)
      /\ \A n \in (done + 1)..done' : ~OutOfDate(walk[n])
      /\ \/ done' = Len(walk) /\ job' = "none"
         \/ done' < Len(walk) /\ job' = walk[done' + 1] /\ OutOfDate(walk[done' + 1])
      /\ UNCHANGED <<files, run, line, wifiMade, deployed>>
  BY ConsiderIs
<1>2. UNCHANGED <<exists, newer, content, latest, goal, board, line>> BY <1>1 DEF files, run
<1>3. /\ line = 1 /\ goal \in Goals /\ board \in Boards /\ done \in Nat
      /\ Len(walk) \in 0..17
  BY <1>1, WalkTypes DEF Typed, Running
<1> HIDE DEF walk
<1>4. SameStamps BY <1>2 DEF SameStamps
<1>5. Stamps' /\ (Configured' <=> Configured) BY <1>4, SameStampsKeep
<1>6. job' \in {".stamp.copy", ".stamp.patch"} => job' \notin exists'
  <2> SUFFICES ASSUME job' \in {".stamp.copy", ".stamp.patch"} PROVE job' \notin exists
    BY <1>2
  <2>1. OutOfDate(job') BY <1>1
  <2>2. CASE job' = ".stamp.copy"
    BY <1>3, <2>1, <2>2, ConfigCompared DEF OutOfDate, Missing, AlwaysMade
  <2>3. CASE job' = ".stamp.patch"
    BY <1>3, <2>1, <2>3, ConfigCompared DEF OutOfDate, Missing, AlwaysMade, Stamps, NewerThan
  <2> QED BY <2>2, <2>3
<1>7. job' = ".stamp.config" => ~Configured
  <2> SUFFICES ASSUME job' = ".stamp.config" PROVE ~Configured
    OBVIOUS
  <2>1. OutOfDate(".stamp.config") BY <1>1
  <2> QED BY <1>3, <2>1, ConfigCompared
          DEF OutOfDate, Missing, AlwaysMade, Configured, Stamps, NewerThan
<1>8. ASSUME goal \in KernelGoals
      PROVE  /\ done' >= 1 => ".stamp.copy" \in exists
             /\ done' >= 2 => ".stamp.patch" \in exists
             /\ goal \in {"menuconfig", "getconfig"} /\ done' = 3 => Configured
  <2>1. /\ walk[1] = ".stamp.copy" /\ walk[2] = ".stamp.patch" /\ walk[3] = ".stamp.config"
        /\ goal \in {"menuconfig", "getconfig"} => Len(walk) = 3
    BY <1>3, <1>8, KernelWalk, ShortWalk DEF walk
  <2>2. done' \in Nat BY <1>1, <1>3
  <2>3. done' >= 1 => done >= 1 \/ ~OutOfDate(".stamp.copy")
    BY <1>1, <1>3, <2>1, <2>2
  <2>4. done' >= 2 => done >= 2 \/ ~OutOfDate(".stamp.patch")
    BY <1>1, <1>3, <2>1, <2>2
  <2>5. done' = 3 => done >= 3 \/ ~OutOfDate(".stamp.config")
    BY <1>1, <1>3, <2>1, <2>2
  <2>6. \A t : ~OutOfDate(t) => t \in exists BY DEF OutOfDate, Missing
  <2>7. ~OutOfDate(".stamp.config") => Configured
    BY <1>3, ConfigCompared DEF OutOfDate, Missing, Configured
  <2>8. done' >= 1 => ".stamp.copy" \in exists BY <1>8, <2>3, <2>6 DEF StampRun
  <2>9. done' >= 2 => ".stamp.patch" \in exists BY <1>8, <2>4, <2>6 DEF StampRun
  <2>10. ASSUME goal \in {"menuconfig", "getconfig"}, done' = 3 PROVE Configured
    <3> DEFINE len == Len(walk)
    <3>0. len = 3 /\ done < len BY <1>1, <2>1, <2>10
    <3>1. ~(done >= 3) BY <1>3, <3>0
    <3> QED BY <2>5, <2>7, <2>10, <3>1
  <2> QED BY <2>8, <2>9, <2>10
<1>9. goal # "touch"
  <2>1. Len(Walk("touch", board)) = 0 BY <1>3, ShortWalk
  <2> QED BY <1>1, <1>3, <2>1 DEF walk
<1> QED BY <1>2, <1>3, <1>5, <1>6, <1>7, <1>8, <1>9 DEF StampRun, KernelGoals

(* Whoever edits config makes it newer than the stamp, and the last version. *)
LEMMA EditStamps ==
  ASSUME Careful, Typed, Stamps, StampRun, NEW i \in Inputs, Edit(i)
  PROVE  Stamps' /\ StampRun'
<1>1. /\ latest' = [latest EXCEPT ![i] = @ + 1] /\ ~BeingRead(i)
      /\ content' = [content EXCEPT ![i] = {<<i, latest'[i]>>}]
      /\ UNCHANGED <<goal, board, done, job, line>>
  BY DEF Edit, run
<1>2. /\ exists' = exists \cup {i}
      /\ \A p, t : <<p, t>> \in newer' <=>
           \/ t # i /\ <<p, t>> \in newer
           \/ p = i /\ t \in exists /\ Compared(i, t)
  BY TouchIs DEF Edit
<1>3. /\ {"config", ".config", i} \subseteq DOMAIN content /\ i \in exists
      /\ latest \in [Inputs -> Nat]
  BY DEF Typed, FilesTyped, AllFiles, Inputs
<1>4. exists' = exists BY <1>2, <1>3
<1>5. CASE i # "config"
  <2>1. i \notin {"config", ".config", ".stamp.copy", ".stamp.patch", ".stamp.config"}
    BY <1>5 DEF Inputs
  <2>2. SameStamps BY <1>1, <1>2, <1>3, <1>4, <2>1 DEF SameStamps
  <2>3. content'["config"] = content["config"] /\ content'[".config"] = content[".config"]
    BY <2>2 DEF SameStamps
  <2> QED BY <1>1, <1>4, <2>2, <2>3, SameStampsKeep DEF StampRun
<1>6. CASE i = "config"
  <2>1. goal \notin {"menuconfig", "getconfig", "touch"} BY <1>1, <1>6 DEF BeingRead
  <2>2. job # ".stamp.config"
    <3>1. ".stamp.config" \in Targets BY DEF Targets
    <3>2. "config" \in Reads(".stamp.config") BY DEF Reads, Prereqs
    <3> QED BY <1>1, <1>6, <3>1, <3>2 DEF BeingRead
  <2> DEFINE new == {<<"config", latest["config"] + 1>>}
  <2>3. /\ content'["config"] = new /\ content'[".config"] = content[".config"]
        /\ latest'["config"] = latest["config"] + 1 /\ latest["config"] \in Nat
    BY <1>1, <1>3, <1>6
  <2>4. new # content[".config"]
    <3>1. \A v \in content[".config"] : Version(v, latest)
      BY DEF Typed, FilesTyped, AllFiles
    <3>2. ~Version(<<"config", latest["config"] + 1>>, latest)
      <4>1. "config" \notin Marks BY DEF Marks
      <4> QED BY <2>3, <4>1 DEF Version
    <3> QED BY <3>1, <3>2
  <2>5. /\ <<"config", ".stamp.config">> \in newer' <=> ".stamp.config" \in exists
        /\ \A p \in {".stamp.copy", ".stamp.patch", ".config"} :
             \A t \in {".stamp.patch", ".stamp.config"} : <<p, t>> \in newer' <=> <<p, t>> \in newer
    BY <1>2, <1>6, NewerExist, ConfigCompared DEF NewerThan
  <2>6. ~Configured' BY <1>4, <2>5 DEF Configured
  <2>7. Stamps'
    BY <1>4, <2>3, <2>4, <2>5, <2>6, NewerExist DEF Stamps, NewerThan
  <2> QED BY <1>1, <1>4, <2>1, <2>2, <2>7 DEF StampRun
<1> QED BY <1>5, <1>6

(* menuconfig makes another configuration, and takes it for .stamp.config. *)
LEMMA MenuconfigStamps ==
  ASSUME Typed, Stamps, StampRun, Menuconfig
  PROVE  Stamps' /\ StampRun'
<1>1. /\ latest' = [latest EXCEPT !["config"] = @ + 1]
      /\ content' = [content EXCEPT ![".config"] = {<<"config", latest'["config"]>>}]
      /\ exists' = exists \cup {".config"}
      /\ newer' = Touched(exists, Touched(exists, newer, ".config"), ".stamp.config")
      /\ goal = "menuconfig" /\ job = "none" /\ done = Len(Walk(goal, board))
      /\ goal' = "none" /\ job' = "none"
  BY DEF Menuconfig, Ready, Idle, End
<1>2. Configured
  <2>1. done = 3 BY <1>1, ShortWalk DEF Typed
  <2> QED BY <1>1, <2>1 DEF StampRun
<1>3. /\ "config" \in DOMAIN content /\ ".config" \in DOMAIN content
      /\ "config" \in DOMAIN latest
  BY DEF Typed, FilesTyped, AllFiles, Inputs
<1>4. ASSUME NEW p \in {".stamp.copy", ".stamp.patch", "config", ".config"}
      PROVE  <<p, ".stamp.config">> \notin newer'
  BY <1>1 DEF Touched
<1>5. <<".stamp.copy", ".stamp.patch">> \in newer' => <<".stamp.copy", ".stamp.patch">> \in newer
  BY <1>1 DEF Touched
<1>6. content'[".config"] = {<<"config", latest'["config"]>>}
  BY <1>1, <1>3
<1>7. \A t \in {".stamp.copy", ".stamp.patch", ".stamp.config"} : t \in exists' <=> t \in exists
  BY <1>1
<1>8. Configured' BY <1>2, <1>4, <1>7 DEF Configured
<1>9. Stamps' BY <1>4, <1>5, <1>6, <1>7, <1>8 DEF Stamps, NewerThan
<1> QED BY <1>1, <1>9 DEF StampRun, KernelGoals

(* kernel-getconfig saves a configuration that is taken already. *)
LEMMA GetconfigStamps ==
  ASSUME Typed, Stamps, StampRun, Getconfig
  PROVE  Stamps' /\ StampRun'
<1>1. /\ content' = [content EXCEPT !["config"] = content[".config"]]
      /\ exists' = exists /\ latest' = latest
      /\ \/ newer' = (newer \ {<<"config", ".stamp.config">>}) \cup
              {<<"config", t>> : t \in {g \in exists : <<".config", g>> \in newer}}
         \/ newer' = newer
      /\ goal = "getconfig" /\ job = "none" /\ done = Len(Walk(goal, board))
      /\ goal' = "none" /\ job' = "none"
  BY DEF Getconfig, Ucopy, Untouched, Ready, Idle, End
<1>2. Configured
  <2>1. done = 3 BY <1>1, ShortWalk DEF Typed
  <2> QED BY <1>1, <2>1 DEF StampRun
<1>3. {"config", ".config"} \subseteq DOMAIN content
  BY DEF Typed, FilesTyped, AllFiles, Inputs
<1>4. <<"config", ".stamp.config">> \notin newer /\ <<".config", ".stamp.config">> \notin newer
  BY <1>2 DEF Configured, Stamps, NewerThan
<1>5. <<"config", ".stamp.config">> \notin newer'
  BY <1>1, <1>4
<1>6. \A p \in {".stamp.copy", ".stamp.patch", ".config"} :
        \A t \in {".stamp.patch", ".stamp.config"} : <<p, t>> \in newer' <=> <<p, t>> \in newer
  BY <1>1
<1>7. content'[".config"] = content[".config"] BY <1>1, <1>3
<1>8. Configured' BY <1>1, <1>2, <1>5 DEF Configured
<1>9. Stamps' BY <1>1, <1>2, <1>4, <1>5, <1>6, <1>7, <1>8 DEF Stamps, NewerThan
<1> QED BY <1>1, <1>9 DEF StampRun, KernelGoals

(* kernel-touch is for a configuration that is taken already. *)
LEMMA KernelTouchStamps ==
  ASSUME Typed, Stamps, StampRun, KernelTouch
  PROVE  Stamps' /\ StampRun'
<1>1. /\ goal = "touch" /\ goal' = "none" /\ job' = "none" /\ UNCHANGED <<content, latest>>
  BY DEF KernelTouch, Ready, Idle, End, Typed
<1>2. /\ exists' = exists \cup {".stamp.config"}
      /\ \A p, t : <<p, t>> \in newer' <=>
           \/ t # ".stamp.config" /\ <<p, t>> \in newer
           \/ p = ".stamp.config" /\ t \in exists /\ Compared(".stamp.config", t)
  BY TouchIs DEF KernelTouch
<1>3. Configured BY <1>1 DEF StampRun
<1>4. exists' = exists BY <1>2, <1>3 DEF Configured
<1>5. \A p \in {".stamp.copy", ".stamp.patch", "config", ".config"} :
        <<p, ".stamp.config">> \notin newer'
  BY <1>2
<1>6. <<".stamp.copy", ".stamp.patch">> \in newer' => <<".stamp.copy", ".stamp.patch">> \in newer
  BY <1>2
<1>7. Configured' BY <1>3, <1>4, <1>5 DEF Configured
<1>8. Stamps' BY <1>1, <1>3, <1>4, <1>5, <1>6, <1>7 DEF Stamps, NewerThan
<1> QED BY <1>1, <1>8 DEF StampRun, KernelGoals

(* rm removes no stamp of the kernel tree. *)
LEMMA RemoveStamps ==
  ASSUME Typed, NEW S, Remove(S), content' = Emptied(S), latest' = latest,
         S \cap {".stamp.copy", ".stamp.patch", ".stamp.config", "config", ".config"} = {}
  PROVE  SameStamps
<1>1. /\ exists' = exists \ S
      /\ \A p, t : <<p, t>> \in newer' <=> <<p, t>> \in newer /\ p \notin S /\ t \notin S
  BY RemoveIs
<1>2. content'["config"] = content["config"] /\ content'[".config"] = content[".config"]
  BY DEF Typed, FilesTyped, AllFiles, Inputs, Emptied
<1> QED BY <1>1, <1>2 DEF SameStamps

(* The user asks for kernel-touch only if the configuration is taken. *)
LEMMA AskStamps ==
  ASSUME Careful, Typed, Stamps, StampRun, NEW g \in Goals, Ask(g)
  PROVE  Stamps' /\ StampRun'
<1>1. SameStamps
  <2>1. CASE g = "deploy"
    <3>1. Obsolete \cap {".stamp.copy", ".stamp.patch", ".stamp.config", "config", ".config"} = {}
      BY DEF Obsolete
    <3> QED BY <2>1, <3>1, RemoveStamps DEF Ask
  <2>2. CASE g # "deploy"
    BY <2>2 DEF Ask, SameStamps
  <2> QED BY <2>1, <2>2
<1>2. Stamps' /\ (Configured' <=> Configured) BY <1>1, SameStampsKeep
<1>3. goal' = g /\ job' = "none" /\ done' = 0 /\ (g = "touch" => Configured)
  BY DEF Ask, Typed, Running
<1> QED BY <1>2, <1>3 DEF StampRun

(* Whatever else ends a make, or goes on to the next board, leaves the stamps. *)
LEMMA StopStamps ==
  ASSUME Typed, Stamps, StampRun, GiveUp \/ Built \/ Ship \/ KernelClean
  PROVE  Stamps' /\ StampRun'
<1>1. job' = "none" /\ (goal' = "none" \/ (goal' = "deploy" /\ done' = 0))
  BY DEF GiveUp, Built, Ship, KernelClean, End, Ready, Idle
<1>2. SameStamps
  <2>1. CASE GiveUp BY <2>1 DEF GiveUp, files, SameStamps
  <2>2. CASE Built BY <2>2 DEF Built, SameStamps
  <2>3. CASE Ship
    <3>1. Shipped \cap {".stamp.copy", ".stamp.patch", ".stamp.config", "config", ".config"} = {}
      BY DEF Shipped
    <3> QED BY <2>3, <3>1, RemoveStamps DEF Ship
  <2>4. CASE KernelClean
    <3>1. Cleaned \cap {".stamp.copy", ".stamp.patch", ".stamp.config", "config", ".config"} = {}
      BY DEF Cleaned
    <3> QED BY <2>4, <3>1, RemoveStamps DEF KernelClean
  <2> QED BY <2>1, <2>2, <2>3, <2>4
<1>3. Stamps' BY <1>2, SameStampsKeep
<1> QED BY <1>1, <1>3 DEF StampRun, KernelGoals

LEMMA InitStamps == Init => Stamps /\ StampRun
<1> SUFFICES ASSUME Init PROVE Stamps /\ StampRun
  OBVIOUS
<1>1. /\ {".stamp.copy", ".stamp.patch", ".stamp.config"} \cap exists = {} /\ newer = {}
      /\ content["config"] = {<<"config", 0>>} /\ latest["config"] = 0
      /\ goal = "none" /\ job = "none"
  BY DEF Init, Inputs
<1> QED BY <1>1 DEF Stamps, StampRun, NewerThan, Configured, KernelGoals

LEMMA NextStamps ==
  ASSUME Careful, Typed, Stamps, StampRun, [Next]_vars
  PROVE  Stamps' /\ StampRun'
<1>1. CASE RunLine BY <1>1, RunLineStamps
<1>2. CASE Consider BY <1>2, ConsiderStamps
<1>3. ASSUME NEW g \in Goals, Ask(g) PROVE Stamps' /\ StampRun' BY <1>3, AskStamps
<1>4. ASSUME NEW i \in Inputs, Edit(i) PROVE Stamps' /\ StampRun' BY <1>4, EditStamps
<1>5. CASE Menuconfig BY <1>5, MenuconfigStamps
<1>6. CASE Getconfig BY <1>6, GetconfigStamps
<1>7. CASE KernelTouch BY <1>7, KernelTouchStamps
<1>8. CASE CannotRun \/ Break \/ NothingThere \/ Built \/ Ship \/ KernelClean
  BY <1>8, StopStamps DEF CannotRun, Break, NothingThere
<1>9. CASE UNCHANGED vars
  <2>1. SameStamps BY <1>9 DEF vars, files, SameStamps
  <2>2. Stamps' /\ (Configured' <=> Configured) BY <2>1, SameStampsKeep
  <2>3. UNCHANGED <<exists, content, goal, done, job, line>> BY <1>9 DEF vars, files, run
  <2> QED BY <2>2, <2>3 DEF StampRun
<1> QED BY <1>1, <1>2, <1>3, <1>4, <1>5, <1>6, <1>7, <1>8, <1>9 DEF Next, Make

(* The one step that begins to configure finds .stamp.config out of date. *)
LEMMA WhyConfigure ==
  ASSUME Typed, Stamps, [Next]_vars, job' = ".stamp.config", job # job'
  PROVE  \/ content["config"] # content[".config"]
         \/ ".stamp.config" \notin exists
         \/ <<".config", ".stamp.config">> \in newer
<1>1. CASE Consider
  <2>1. OutOfDate(".stamp.config") /\ board \in Boards BY <1>1, ConsiderIs DEF Typed
  <2>3. Prereqs(".stamp.config", board) = {".stamp.patch", "config"} BY <2>1, ConfigCompared
  <2>4. ~AlwaysMade(".stamp.config") BY DEF AlwaysMade
  <2>2. \/ ".stamp.config" \notin exists
        \/ NewerThan(".stamp.patch", ".stamp.config")
        \/ NewerThan("config", ".stamp.config")
    <3>1. \/ ".stamp.config" \notin exists
          \/ \E p \in Prereqs(".stamp.config", board) : <<p, ".stamp.config">> \in newer
      BY <2>1, <2>4 DEF OutOfDate, Missing
    <3> QED BY <2>3, <3>1 DEF NewerThan
  <2> QED BY <2>2 DEF Stamps, NewerThan
<1>2. CASE RunLine BY <1>2, RunLineControl
<1>3. CASE ~Consider /\ ~RunLine
  <2>1. job' = job \/ job' = "none"
    BY <1>3 DEF Next, Make, Ask, CannotRun, Break, GiveUp, Built, Ship, Getconfig, KernelClean,
                NothingThere, KernelTouch, Menuconfig, Edit, End, vars
  <2> QED BY <2>1
<1> QED BY <1>1, <1>2, <1>3

(* The kernel is configured again only for another configuration, or when that was
   not finished: saving the configuration with kernel-getconfig, touching the kernel
   after it and a build that fails later are no reasons.                        *)
THEOREM StampsForCause ==
  ASSUME Careful
  PROVE  Spec => ConfiguredForCause
<1> DEFINE Inv == Typed /\ Stamps /\ StampRun
<1>1. Init => Inv BY InitTyped, InitStamps
<1>2. Inv /\ [Next]_vars => Inv' BY NextTyped, NextStamps
<1>3. Inv /\ [Next]_vars =>
        [job' = ".stamp.config" /\ job # job' =>
           \/ content["config"] # content[".config"]
           \/ ".stamp.config" \notin exists
           \/ <<".config", ".stamp.config">> \in newer]_vars
  BY WhyConfigure
<1> QED BY <1>1, <1>2, <1>3, PTL DEF Spec, ConfiguredForCause
-----------------------------------------------------------------------------
(* What is built is what its prerequisites were.                               *)

(* t exists, with the files e and the times n, and p is not newer *)
Fresh(p, t, e, n) == t \in e /\ <<p, t>> \notin n
UpToDate(p, t) == Fresh(p, t, exists, newer)

(* .stamp.config stands for .config, whatever happened to config *)
Settled == UpToDate(".config", ".stamp.config")

(* A target that is not older than what make compares it with was made of it, though
   what it is made of is mostly not what it is compared with.                   *)
Outputs(e, n, c, l) ==
  /\ \A t \in {"Image.gz", ".stamp.modules"} :
       Fresh(".config", ".stamp.config", e, n) /\ Fresh(".stamp.config", t, e, n)
         => c[t] = c[".config"]
  /\ Fresh(".config", ".stamp.config", e, n) /\ Fresh(".stamp.config", "Image.gz", e, n)
       /\ Fresh("Image.gz", "dhd.ko", e, n) => c["dhd.ko"] = c[".config"]
  /\ "dhd.ko" \in e /\ Fresh("dhd.ko", "tree/dhd.ko", e, n) => c["tree/dhd.ko"] = c["dhd.ko"]
  /\ Fresh("template", "tree", e, n) => c["tree"] = c["template"]
  /\ \A b \in Boards :
       /\ Fresh("dtspatch", Dts(b), e, n) => c[Dts(b)] = c["dtspatch"] \cup {<<Dts(b), 0>>}
       /\ Fresh(Dts(b), Dtb(b), e, n) => c[Dtb(b)] = c[Dts(b)]
  /\ \A i \in {"template", "dtspatch"} : c[i] = {<<i, l[i]>>}

(* the files that a recipe has written and not yet touched *)
Written ==
  /\ job \in {"Image.gz", ".stamp.modules", "dhd.ko"} /\ line = 2
       => content[job] = content[".config"]
  /\ job = "tree" /\ line = 2 => content["tree"] = content["template"]

LEMMA ComparedAre ==
  /\ Compared(".config", ".stamp.config")
  /\ Compared(".stamp.config", "Image.gz") /\ Compared(".stamp.config", ".stamp.modules")
  /\ Compared("Image.gz", "dhd.ko") /\ Compared("dhd.ko", "tree/dhd.ko")
  /\ Compared("template", "tree") /\ Compared("tree/btusb.ko", "initramfs")
  /\ Compared("initramfs", "boot.img") /\ Compared("initramfs", "kernel.img")
  /\ \A b \in Boards : Compared("dtspatch", Dts(b)) /\ Compared(Dts(b), Dtb(b))
<1>1. \A b \in Boards :
        /\ ".stamp.config" \in Prereqs("Image.gz", b)
        /\ ".stamp.config" \in Prereqs(".stamp.modules", b)
        /\ "Image.gz" \in Prereqs("dhd.ko", b) /\ "dhd.ko" \in Prereqs("tree/dhd.ko", b)
        /\ "template" \in Prereqs("tree", b) /\ "tree/btusb.ko" \in Prereqs("initramfs", b)
        /\ "initramfs" \in Prereqs("boot.img", b) /\ "initramfs" \in Prereqs("kernel.img", b)
  BY DEF Prereqs
<1>2. \A b \in Boards : "dtspatch" \in Prereqs(Dts(b), b) /\ Dts(b) \in Prereqs(Dtb(b), b)
  BY DEF Prereqs, Dts, Dtb, Boards
<1>3. "2G" \in Boards BY DEF Boards
<1> QED BY <1>1, <1>2, <1>3 DEF Compared

(* A touch makes a file newer than what depends on it, and older than nothing. *)
LEMMA TouchFresh ==
  ASSUME NEW f, Touch(f), NEW p, NEW t, Compared(p, t), p # t
  PROVE  /\ f = t => Fresh(p, t, exists', newer')
         /\ f = p => ~Fresh(p, t, exists', newer')
         /\ f \notin {p, t} => (Fresh(p, t, exists', newer') <=> UpToDate(p, t))
BY TouchIs DEF Fresh, UpToDate

(* The device trees of the boards. *)
LEMMA TreesAre ==
  ASSUME NEW b \in Boards
  PROVE  /\ <<Dts(b), Dtb(b)>> \in {<<"2g.dts", "2g.dtb">>, <<"3g.dts", "3g.dtb">>}
         /\ Dts(b) \in {"2g.dts", "3g.dts"} /\ Dtb(b) \in {"2g.dtb", "3g.dtb"}
         /\ \A a \in Boards : Dtb(a) = Dtb(b) => a = b
         /\ \A a \in Boards : Dts(a) = Dts(b) => a = b
BY DEF Boards, Dts, Dtb

(* What a touched file must hold. *)
Right(f, c, l) ==
  /\ f \in {"Image.gz", ".stamp.modules", "dhd.ko"} => c[f] = c[".config"]
  /\ f = "tree/dhd.ko" => c[f] = c["dhd.ko"]
  /\ f = "tree" => c[f] = c["template"]
  /\ \A b \in Boards : /\ f = Dts(b) => c[f] = c["dtspatch"] \cup {<<f, 0>>}
                       /\ f = Dtb(b) => c[f] = c[Dts(b)]
  /\ f \in {"template", "dtspatch"} => c[f] = {<<f, l[f]>>}

LEMMA TouchOutputs ==
  ASSUME Outputs(exists, newer, content, latest), NEW f, Touch(f),
         \A g \in AllFiles \ {f} : content'[g] = content[g],
         Right(f, content', latest'),
         \A i \in {"template", "dtspatch"} \ {f} : latest'[i] = latest[i]
  PROVE  Outputs(exists', newer', content', latest')
<1> DEFINE old(p, t) == Fresh(p, t, exists, newer)
           new(p, t) == Fresh(p, t, exists', newer')
<1>1. \A p, t : Compared(p, t) /\ p # t /\ new(p, t) => f = t \/ (f \notin {p, t} /\ old(p, t))
  BY TouchFresh DEF UpToDate
<1> HIDE DEF old, new
<1>2. {".config", "Image.gz", ".stamp.modules", ".stamp.config", "dhd.ko", "tree/dhd.ko", "tree",
       "template", "dtspatch"} \subseteq AllFiles
  BY DEF AllFiles, Targets, InTree, Inputs
<1>3. \A b \in Boards : {Dts(b), Dtb(b)} \subseteq AllFiles /\ Dts(b) # Dtb(b)
  BY TreesAre DEF AllFiles, Targets
<1>4. ASSUME NEW t \in {"Image.gz", ".stamp.modules"},
             new(".config", ".stamp.config"), new(".stamp.config", t)
      PROVE  content'[t] = content'[".config"]
  <2>1. f # ".config" /\ f # ".stamp.config" BY <1>1, <1>4, ComparedAre
  <2>2. CASE f = t BY <2>2 DEF Right
  <2>3. CASE f # t
    <3>1. old(".config", ".stamp.config") /\ old(".stamp.config", t)
      BY <1>1, <1>4, <2>1, <2>3, ComparedAre
    <3> QED BY <1>2, <2>1, <2>3, <3>1 DEF Outputs, old
  <2> QED BY <2>2, <2>3
<1>5. ASSUME new(".config", ".stamp.config"), new(".stamp.config", "Image.gz"),
             new("Image.gz", "dhd.ko")
      PROVE  content'["dhd.ko"] = content'[".config"]
  <2>1. f # ".config" /\ f # ".stamp.config" /\ f # "Image.gz" BY <1>1, <1>5, ComparedAre
  <2>2. CASE f = "dhd.ko" BY <2>2 DEF Right
  <2>3. CASE f # "dhd.ko"
    <3>1. old(".config", ".stamp.config") /\ old(".stamp.config", "Image.gz")
          /\ old("Image.gz", "dhd.ko")
      BY <1>1, <1>5, <2>1, <2>3, ComparedAre
    <3> QED BY <1>2, <2>1, <2>3, <3>1 DEF Outputs, old
  <2> QED BY <2>2, <2>3
<1>6. ASSUME "dhd.ko" \in exists', new("dhd.ko", "tree/dhd.ko")
      PROVE  content'["tree/dhd.ko"] = content'["dhd.ko"]
  <2>1. f # "dhd.ko" BY <1>1, <1>6, ComparedAre
  <2>2. CASE f = "tree/dhd.ko" BY <2>2 DEF Right
  <2>3. CASE f # "tree/dhd.ko"
    <3>1. old("dhd.ko", "tree/dhd.ko") /\ "dhd.ko" \in exists
      BY <1>1, <1>6, <2>1, <2>3, ComparedAre DEF Touch
    <3> QED BY <1>2, <2>1, <2>3, <3>1 DEF Outputs, old
  <2> QED BY <2>2, <2>3
<1>7. ASSUME new("template", "tree") PROVE content'["tree"] = content'["template"]
  <2>1. f # "template" BY <1>1, <1>7, ComparedAre
  <2>2. CASE f = "tree" BY <2>2 DEF Right
  <2>3. CASE f # "tree"
    <3>1. old("template", "tree") BY <1>1, <1>7, <2>1, <2>3, ComparedAre
    <3> QED BY <1>2, <2>1, <2>3, <3>1 DEF Outputs, old
  <2> QED BY <2>2, <2>3
<1>8. ASSUME NEW b \in Boards, new("dtspatch", Dts(b))
      PROVE  content'[Dts(b)] = content'["dtspatch"] \cup {<<Dts(b), 0>>}
  <2>0. "dtspatch" # Dts(b) BY TreesAre
  <2>1. f # "dtspatch" BY <1>1, <1>8, <2>0, ComparedAre
  <2>2. CASE f = Dts(b) BY <2>2 DEF Right
  <2>3. CASE f # Dts(b)
    <3>1. old("dtspatch", Dts(b)) BY <1>1, <1>8, <2>0, <2>1, <2>3, ComparedAre
    <3> QED BY <1>2, <1>3, <2>1, <2>3, <3>1 DEF Outputs, old
  <2> QED BY <2>2, <2>3
<1>9. ASSUME NEW b \in Boards, new(Dts(b), Dtb(b))
      PROVE  content'[Dtb(b)] = content'[Dts(b)]
  <2>1. f # Dts(b) BY <1>1, <1>3, <1>9, ComparedAre
  <2>2. CASE f = Dtb(b) BY <2>2 DEF Right
  <2>3. CASE f # Dtb(b)
    <3>1. old(Dts(b), Dtb(b)) BY <1>1, <1>3, <1>9, <2>1, <2>3, ComparedAre
    <3> QED BY <1>2, <1>3, <2>1, <2>3, <3>1 DEF Outputs, old
  <2> QED BY <2>2, <2>3
<1>10. ASSUME NEW i \in {"template", "dtspatch"} PROVE content'[i] = {<<i, latest'[i]>>}
  <2>1. CASE f = i BY <2>1 DEF Right
  <2>2. CASE f # i BY <1>2, <2>2 DEF Outputs
  <2> QED BY <2>1, <2>2
<1> QED BY <1>4, <1>5, <1>6, <1>7, <1>8, <1>9, <1>10 DEF Outputs, new

(* What rm leaves behind is neither older nor newer than before. *)
LEMMA RemoveFresh ==
  ASSUME NEW S, Remove(S), NEW p, NEW t, p \notin S
  PROVE  Fresh(p, t, exists', newer') <=> t \notin S /\ UpToDate(p, t)
BY RemoveIs DEF Fresh, UpToDate

Kept == {".config", ".stamp.config", "template", "dtspatch", "2g.dts", "3g.dts", "tree"}
LEMMA RemoveOutputs ==
  ASSUME Outputs(exists, newer, content, latest), NEW S, Remove(S), S \cap Kept = {},
         \A g \in AllFiles \ (S \cup {"tree"}) : content'[g] = content[g],
         content'["tree"] \in {content["tree"], content["template"]}, latest' = latest
  PROVE  Outputs(exists', newer', content', latest')
<1> DEFINE old(p, t) == Fresh(p, t, exists, newer)
           new(p, t) == Fresh(p, t, exists', newer')
<1>1. /\ \A p, t : p \notin S /\ new(p, t) => t \notin S /\ old(p, t)
      /\ \A p, t : new(p, t) => t \notin S
      /\ exists' = exists \ S
  BY RemoveFresh, RemoveIs DEF UpToDate, Fresh
<1> HIDE DEF old, new
<1>2. {".config", "Image.gz", ".stamp.modules", ".stamp.config", "dhd.ko", "tree/dhd.ko", "tree",
       "template", "dtspatch"} \subseteq AllFiles
  BY DEF AllFiles, Targets, InTree, Inputs
<1>3. \A b \in Boards : {Dts(b), Dtb(b)} \subseteq AllFiles \ {"tree"} /\ Dts(b) \notin S
  BY TreesAre DEF AllFiles, Targets, Kept
<1>4. /\ \A f \in {".config", ".stamp.config", "template", "dtspatch"} :
            f \notin S /\ content'[f] = content[f]
      /\ \A b \in Boards : content'[Dts(b)] = content[Dts(b)]
  <2>1. \A f \in {".config", ".stamp.config", "template", "dtspatch"} :
          f \notin S /\ f \in AllFiles \ (S \cup {"tree"})
    BY <1>2 DEF Kept
  <2> QED BY <1>3, <2>1
<1>5. ASSUME NEW t \in {"Image.gz", ".stamp.modules"},
             new(".config", ".stamp.config"), new(".stamp.config", t)
      PROVE  content'[t] = content'[".config"]
  <2>1. t \notin S /\ old(".config", ".stamp.config") /\ old(".stamp.config", t)
    BY <1>1, <1>4, <1>5
  <2> QED BY <1>2, <1>4, <2>1 DEF Outputs, old
<1>6. ASSUME new(".config", ".stamp.config"), new(".stamp.config", "Image.gz"),
             new("Image.gz", "dhd.ko")
      PROVE  content'["dhd.ko"] = content'[".config"]
  <2>1. /\ old(".config", ".stamp.config") /\ old(".stamp.config", "Image.gz")
        /\ "dhd.ko" \notin S /\ old("Image.gz", "dhd.ko")
    BY <1>1, <1>4, <1>6
  <2> QED BY <1>2, <1>4, <2>1 DEF Outputs, old
<1>7. ASSUME "dhd.ko" \in exists', new("dhd.ko", "tree/dhd.ko")
      PROVE  content'["tree/dhd.ko"] = content'["dhd.ko"]
  <2>1. "dhd.ko" \in exists /\ {"dhd.ko", "tree/dhd.ko"} \cap S = {} /\ old("dhd.ko", "tree/dhd.ko")
    BY <1>1, <1>7
  <2> QED BY <1>2, <2>1 DEF Outputs, old
<1>8. ASSUME new("template", "tree") PROVE content'["tree"] = content'["template"]
  <2>1. old("template", "tree") BY <1>1, <1>4, <1>8
  <2> QED BY <1>4, <2>1 DEF Outputs, old
<1>9. ASSUME NEW b \in Boards, new("dtspatch", Dts(b))
      PROVE  content'[Dts(b)] = content'["dtspatch"] \cup {<<Dts(b), 0>>}
  <2>1. old("dtspatch", Dts(b)) BY <1>1, <1>4, <1>9
  <2> QED BY <1>4, <2>1 DEF Outputs, old
<1>10. ASSUME NEW b \in Boards, new(Dts(b), Dtb(b))
       PROVE  content'[Dtb(b)] = content'[Dts(b)]
  <2>1. Dtb(b) \notin S /\ old(Dts(b), Dtb(b)) BY <1>1, <1>3, <1>10
  <2> QED BY <1>3, <1>4, <2>1 DEF Outputs, old
<1>11. ASSUME NEW i \in {"template", "dtspatch"} PROVE content'[i] = {<<i, latest'[i]>>}
  BY <1>4 DEF Outputs
<1> QED BY <1>5, <1>6, <1>7, <1>8, <1>9, <1>10, <1>11 DEF Outputs, new

(* What a recipe makes. *)
LEMMA OfOne == \A f : Of({f}) = content[f]
BY DEF Of

LEMMA WorkIs ==
  ASSUME Typed
  PROVE  /\ job \in {"Image.gz", ".stamp.modules", "dhd.ko"} => Work = content[".config"]
         /\ job = "tree/btusb.ko" => Work = content[".stamp.modules"]
         /\ job = "tree/dhd.ko" => Work = content["dhd.ko"]
         /\ job = "initramfs" =>
              Work = content["tree"] \cup content["tree/btusb.ko"] \cup content["tree/dhd.ko"]
         /\ \A b \in Boards : /\ job = Dts(b) => Work = content["dtspatch"] \cup {<<Dts(b), 0>>}
                              /\ job = Dtb(b) => Work = content[Dts(b)]
         /\ job \in {"boot.img", "kernel.img"} =>
              Work = content["Image.gz"] \cup content["initramfs"] \cup content[Dtb(board)]
         /\ job = "dtb.img" => Work = content[Dtb(board)]
<1>1. /\ Reads("Image.gz") = {".config"} /\ Reads(".stamp.modules") = {".config"}
      /\ Reads("dhd.ko") = {".config"} /\ Reads("tree/btusb.ko") = {".stamp.modules"}
      /\ Reads("tree/dhd.ko") = {"dhd.ko"}
      /\ Reads("initramfs") = {"tree", "tree/btusb.ko", "tree/dhd.ko"}
  BY DEF Reads
<1>2. \A b \in Boards : Reads(Dtb(b)) = {Dts(b)} /\ Reads(Dts(b)) = {"dtspatch"}
  BY DEF Reads, ReadsDtb, Prereqs, Dts, Dtb, Boards
<1>3. /\ \A t \in {"boot.img", "kernel.img"} : Reads(t) = {"Image.gz", "initramfs", Dtb(board)}
      /\ Reads("dtb.img") = {Dtb(board)}
  BY DEF Reads, Prereqs
<1>4. /\ job \notin {"wifi.copy", "2g.dts", "3g.dts"} => Mark(job) = {}
      /\ job \in {"2g.dts", "3g.dts"} => Mark(job) = {<<job, 0>>}
  BY DEF Mark, Marks
<1>5. job \in {"Image.gz", ".stamp.modules", "dhd.ko"} => Work = content[".config"]
  BY <1>1, <1>4, OfOne DEF Work
<1>6. /\ job = "tree/btusb.ko" => Work = content[".stamp.modules"]
      /\ job = "tree/dhd.ko" => Work = content["dhd.ko"]
  BY <1>1, <1>4, OfOne DEF Work
<1>7. job = "initramfs" =>
        Work = content["tree"] \cup content["tree/btusb.ko"] \cup content["tree/dhd.ko"]
  <2> SUFFICES ASSUME job = "initramfs"
               PROVE  Work = content["tree"] \cup content["tree/btusb.ko"] \cup content["tree/dhd.ko"]
    OBVIOUS
  <2>1. Reads(job) = {"tree", "tree/btusb.ko", "tree/dhd.ko"} BY <1>1
  <2>2. Of(Reads(job)) = content["tree"] \cup content["tree/btusb.ko"] \cup content["tree/dhd.ko"]
    BY <2>1 DEF Of
  <2>3. Mark(job) = {} BY <1>4
  <2> QED BY <2>2, <2>3 DEF Work
<1>8. ASSUME NEW b \in Boards
      PROVE  /\ job = Dts(b) => Work = content["dtspatch"] \cup {<<Dts(b), 0>>}
             /\ job = Dtb(b) => Work = content[Dts(b)]
  <2>1. job = Dts(b) => Mark(job) = {<<Dts(b), 0>>} BY <1>4, TreesAre
  <2>2. job = Dtb(b) => Mark(job) = {} BY <1>4, TreesAre
  <2> QED BY <1>2, <2>1, <2>2, OfOne DEF Work
<1>9. job \in {"boot.img", "kernel.img"} =>
         Work = content["Image.gz"] \cup content["initramfs"] \cup content[Dtb(board)]
  <2> SUFFICES ASSUME job \in {"boot.img", "kernel.img"}
               PROVE  Work = content["Image.gz"] \cup content["initramfs"] \cup content[Dtb(board)]
    OBVIOUS
  <2>1. Reads(job) = {"Image.gz", "initramfs", Dtb(board)} BY <1>3
  <2>2. Of(Reads(job)) = content["Image.gz"] \cup content["initramfs"] \cup content[Dtb(board)]
    BY <2>1 DEF Of
  <2>3. Mark(job) = {} BY <1>4
  <2> QED BY <2>2, <2>3 DEF Work
<1>10. job = "dtb.img" => Work = content[Dtb(board)]
  BY <1>3, <1>4, OfOne DEF Work
<1> QED BY <1>5, <1>6, <1>7, <1>8, <1>9, <1>10

(* The recipes keep what the outputs are. *)
LEMMA RunLineOutputs ==
  ASSUME Typed, Outputs(exists, newer, content, latest), Written, RunLine
  PROVE  Outputs(exists', newer', content', latest') /\ Written'
<1>0. /\ latest' = latest /\ DOMAIN content = AllFiles /\ job \in Targets /\ job \in AllFiles
      /\ {".config", "tree", "template", "dhd.ko", "dtspatch", ".stamp.modules"} \subseteq AllFiles
  BY RunLineControl DEF Typed, FilesTyped, AllFiles, Targets, InTree, Inputs
<1>1. CASE IdleLine
  <2>1. Outputs(exists', newer', content', latest') BY <1>0, <1>1 DEF IdleLine
  <2>2. job' \notin {"Image.gz", ".stamp.modules", "dhd.ko", "tree"}
    BY <1>1, RunLineControl DEF IdleLine
  <2> QED BY <2>1, <2>2 DEF Written
<1>2. CASE ConfigLine
  <2>1. Touch(".config") /\ \A g \in AllFiles \ {".config"} : content'[g] = content[g]
    BY <1>0, <1>2 DEF ConfigLine
  <2>2. Right(".config", content', latest') BY TreesAre DEF Right
  <2>3. Outputs(exists', newer', content', latest') BY <1>0, <2>1, <2>2, TouchOutputs
  <2>4. job' \notin {"Image.gz", ".stamp.modules", "dhd.ko", "tree"}
    BY <1>2, RunLineControl DEF ConfigLine
  <2> QED BY <2>3, <2>4 DEF Written
<1>3. CASE TreeLine
  <2>1. Remove(InTree) /\ InTree \cap Kept = {} BY <1>3 DEF TreeLine, InTree, Kept
  <2>2. \A g \in AllFiles \ (InTree \cup {"tree"}) : content'[g] = content[g]
    BY <1>0, <1>3 DEF TreeLine, Emptied
  <2>3. content'["tree"] = content["template"] BY <1>0, <1>3 DEF TreeLine, Emptied
  <2>4. content'["template"] = content["template"]
    BY <1>0, <2>2 DEF InTree
  <2>5. Outputs(exists', newer', content', latest') BY <1>0, <2>1, <2>2, <2>3, RemoveOutputs
  <2>6. job' \in {"tree", "none"} BY <1>3, RunLineControl DEF TreeLine
  <2> QED BY <2>3, <2>4, <2>5, <2>6 DEF Written
<1>4. CASE StampWork
  <2>1. /\ exists' = exists /\ newer' = newer /\ content' = [content EXCEPT ![job] = Work]
        /\ job \in {".stamp.modules", "wifi.copy"}
    BY <1>4 DEF StampWork
  <2>2. \A g \in AllFiles \ {job} : content'[g] = content[g] BY <1>0, <2>1
  <2>3. job = ".stamp.modules" => content'[job] = content[".config"]
    BY <1>0, <2>1, WorkIs
  <2>4. \A b \in Boards : Dts(b) \in AllFiles \ {job} /\ Dtb(b) \in AllFiles \ {job}
    BY <2>1, TreesAre DEF AllFiles, Targets
  <2>5. \A g \in {".config", "Image.gz", "dhd.ko", "tree/dhd.ko", "tree", "template", "dtspatch"} :
          content'[g] = content[g]
    BY <2>1, <2>2 DEF AllFiles, Targets, InTree, Inputs
  <2>6. job # ".stamp.modules" => content'[".stamp.modules"] = content[".stamp.modules"]
    BY <1>0, <2>2
  <2>7. Outputs(exists', newer', content', latest')
    <3>1. /\ \A t \in {"Image.gz", ".stamp.modules"} :
               content[t] = content[".config"] => content'[t] = content'[".config"]
      BY <2>1, <2>3, <2>5, <2>6
    <3>2. \A b \in Boards : content'[Dts(b)] = content[Dts(b)] /\ content'[Dtb(b)] = content[Dtb(b)]
      BY <2>2, <2>4
    <3> QED BY <1>0, <2>1, <2>5, <3>1, <3>2 DEF Outputs
  <2>8. Written'
    <3>1. job' \in {job, "none"} BY RunLineControl
    <3> QED BY <2>1, <2>3, <2>5, <3>1 DEF Written
  <2> QED BY <2>7, <2>8
<1>5. CASE ProductWork
  <2>1. /\ job \in Products /\ Touch(job) /\ content' = [content EXCEPT ![job] = Work]
    BY <1>5 DEF ProductWork
  <2>2. (\A g \in AllFiles \ {job} : content'[g] = content[g]) /\ content'[job] = Work
    BY <1>0, <2>1
  <2>3. job \notin {".config", "template", "dtspatch", "tree", ".stamp.modules"}
    BY <2>1 DEF Products, IsStamp, Targets, InTree
  <2>4. Right(job, content', latest')
    <3>1. job \in {"Image.gz", ".stamp.modules", "dhd.ko"} => content'[job] = content'[".config"]
      BY <1>0, <2>2, <2>3, WorkIs
    <3>2. job = "tree/dhd.ko" => content'[job] = content'["dhd.ko"]
      BY <1>0, <2>2, WorkIs
    <3>3. ASSUME NEW b \in Boards
          PROVE  /\ job = Dts(b) => content'[job] = content'["dtspatch"] \cup {<<job, 0>>}
                 /\ job = Dtb(b) => content'[job] = content'[Dts(b)]
      <4>1. Dts(b) \in AllFiles /\ Dts(b) # Dtb(b) BY TreesAre DEF AllFiles, Targets
      <4>2. job = Dts(b) => Work = content["dtspatch"] \cup {<<Dts(b), 0>>} BY WorkIs
      <4>3. job = Dtb(b) => Work = content[Dts(b)] BY WorkIs
      <4> QED BY <1>0, <2>2, <2>3, <4>1, <4>2, <4>3
    <3> QED BY <2>3, <3>1, <3>2, <3>3 DEF Right
  <2>5. Outputs(exists', newer', content', latest') BY <1>0, <2>1, <2>2, <2>4, TouchOutputs
  <2>6. Written'
    <3>1. job' \in {job, "none"} BY RunLineControl
    <3> QED BY <1>0, <2>2, <2>3, <3>1, WorkIs DEF Written
  <2> QED BY <2>5, <2>6
<1>6. CASE LastTouch
  <2>1. Touch(job) /\ content' = content /\ line = Lines(job) BY <1>6 DEF LastTouch
  <2>2. /\ job \in {"Image.gz", ".stamp.modules", "dhd.ko", "tree"} => line = 2
        /\ job \in {".stamp.copy", ".stamp.patch", ".stamp.config", ".stamp.modules",
                    "wifi.copy", "wifi.patch", "tree", "Image.gz", "dhd.ko"}
    BY <1>6, <2>1, LinesAre DEF LastTouch
  <2>3. Right(job, content', latest') BY <2>1, <2>2, TreesAre DEF Right, Written
  <2>4. Outputs(exists', newer', content', latest') BY <1>0, <2>1, <2>3, TouchOutputs
  <2>5. job' = "none"
    <3>1. ~(line < Lines(job)) BY <2>1, RunLineControl
    <3> QED BY <3>1, RunLineControl
  <2> QED BY <2>4, <2>5 DEF Written
<1> QED BY <1>1, <1>2, <1>3, <1>4, <1>5, <1>6, LineEffect

(* The user does not edit the template while the tree is made of it. *)
LEMMA EditOutputs ==
  ASSUME Typed, Outputs(exists, newer, content, latest), Written, NEW i \in Inputs, Edit(i)
  PROVE  Outputs(exists', newer', content', latest') /\ Written'
<1>1. /\ latest' = [latest EXCEPT ![i] = @ + 1] /\ ~BeingRead(i)
      /\ content' = [content EXCEPT ![i] = {<<i, latest'[i]>>}]
      /\ Touch(i) /\ UNCHANGED <<job, line>>
  BY DEF Edit
<1>2. DOMAIN content = AllFiles /\ i \in AllFiles /\ latest \in [Inputs -> Nat]
  BY DEF Typed, FilesTyped, AllFiles
<1>3. (\A g \in AllFiles \ {i} : content'[g] = content[g]) /\ content'[i] = {<<i, latest'[i]>>}
  BY <1>1, <1>2
<1>4. Right(i, content', latest') BY <1>3, TreesAre DEF Right, Inputs
<1>5. \A j \in {"template", "dtspatch"} \ {i} : latest'[j] = latest[j]
  BY <1>1, <1>2 DEF Inputs
<1>6. Outputs(exists', newer', content', latest')
  BY <1>1, <1>3, <1>4, <1>5, TouchOutputs
<1>7. job = "tree" => i # "template"
  <2>1. "tree" \in Targets /\ "template" \in Reads("tree") BY DEF Targets, Reads, Prereqs
  <2> QED BY <1>1, <2>1 DEF BeingRead
<1>8. {".config", "Image.gz", ".stamp.modules", "dhd.ko", "tree", "template"} \subseteq AllFiles
      /\ i \notin {".config", "Image.gz", ".stamp.modules", "dhd.ko", "tree"}
  BY DEF AllFiles, Targets, Inputs
<1>9. Written'
  <2>1. \A g \in {".config", "Image.gz", ".stamp.modules", "dhd.ko", "tree"} :
          content'[g] = content[g]
    BY <1>3, <1>8
  <2>2. job = "tree" => content'["template"] = content["template"] BY <1>3, <1>7, <1>8
  <2> QED BY <1>1, <2>1, <2>2 DEF Written
<1> QED BY <1>6, <1>9

(* What menuconfig configures makes all that depends on the kernel old. *)
LEMMA MenuconfigOutputs ==
  ASSUME Typed, Outputs(exists, newer, content, latest), Menuconfig
  PROVE  Outputs(exists', newer', content', latest')
<1>1. /\ latest' = [latest EXCEPT !["config"] = @ + 1]
      /\ content' = [content EXCEPT ![".config"] = {<<"config", latest'["config"]>>}]
      /\ exists' = exists \cup {".config"}
      /\ newer' = Touched(exists, Touched(exists, newer, ".config"), ".stamp.config")
  BY DEF Menuconfig
<1>2. DOMAIN content = AllFiles /\ latest \in [Inputs -> Nat] BY DEF Typed, FilesTyped
<1> DEFINE old(p, t) == Fresh(p, t, exists, newer)
           new(p, t) == Fresh(p, t, exists', newer')
<1>3. \A p, t : Compared(p, t) /\ t \notin {".config", ".stamp.config"} =>
        /\ p = ".stamp.config" => ~new(p, t)
        /\ p \notin {".config", ".stamp.config"} => (new(p, t) => old(p, t))
  BY <1>1 DEF Touched, Fresh
<1> HIDE DEF old, new
<1>4. \A g \in {"dhd.ko", "tree/dhd.ko", "tree", "template", "dtspatch"} :
        content'[g] = content[g]
  BY <1>1, <1>2 DEF AllFiles, Targets, InTree, Inputs
<1>5. ASSUME NEW b \in Boards
      PROVE  /\ content'[Dts(b)] = content[Dts(b)] /\ content'[Dtb(b)] = content[Dtb(b)]
             /\ {Dts(b), Dtb(b)} \cap {".config", ".stamp.config"} = {}
  <2>1. {Dts(b), Dtb(b)} \subseteq AllFiles \ {".config", ".stamp.config"}
    BY TreesAre DEF AllFiles, Targets
  <2> QED BY <1>1, <1>2, <2>1
<1>6. \A t \in {"Image.gz", ".stamp.modules"} : ~new(".stamp.config", t)
  BY <1>3, ComparedAre
<1>7. /\ new("dhd.ko", "tree/dhd.ko") => old("dhd.ko", "tree/dhd.ko")
      /\ new("template", "tree") => old("template", "tree")
      /\ "dhd.ko" \in exists' => "dhd.ko" \in exists
  BY <1>1, <1>3, ComparedAre
<1>8. ASSUME NEW b \in Boards
      PROVE  /\ new("dtspatch", Dts(b)) => old("dtspatch", Dts(b))
             /\ new(Dts(b), Dtb(b)) => old(Dts(b), Dtb(b))
  BY <1>3, <1>5, ComparedAre
<1>9. \A i \in {"template", "dtspatch"} : latest'[i] = latest[i]
  BY <1>1, <1>2 DEF Inputs
<1> QED BY <1>4, <1>5, <1>6, <1>7, <1>8, <1>9 DEF Outputs, old, new

(* The outputs do not depend on config itself. *)
LEMMA GetconfigOutputs ==
  ASSUME Typed, Outputs(exists, newer, content, latest), Getconfig
  PROVE  Outputs(exists', newer', content', latest')
<1>1. /\ content' = [content EXCEPT !["config"] = content[".config"]]
      /\ exists' = exists /\ latest' = latest
      /\ \/ newer' = (newer \ {<<"config", ".stamp.config">>}) \cup
              {<<"config", t>> : t \in {g \in exists : <<".config", g>> \in newer}}
         \/ newer' = newer
  BY DEF Getconfig, Ucopy, Untouched
<1>2. \A p, t : p # "config" => (Fresh(p, t, exists', newer') <=> Fresh(p, t, exists, newer))
  BY <1>1 DEF Fresh
<1>3. \A g \in AllFiles \ {"config"} : content'[g] = content[g]
  BY <1>1 DEF Typed, FilesTyped
<1>4. {".config", "Image.gz", ".stamp.modules", "dhd.ko", "tree/dhd.ko", "tree",
       "template", "dtspatch"} \subseteq AllFiles \ {"config"}
  BY DEF AllFiles, Targets, InTree, Inputs
<1>5. \A b \in Boards : {Dts(b), Dtb(b)} \subseteq AllFiles \ {"config"}
  BY TreesAre DEF AllFiles, Targets
<1> QED BY <1>1, <1>2, <1>3, <1>4, <1>5 DEF Outputs

(* The other steps remove files, or do nothing to them. *)
LEMMA RestOutputs ==
  ASSUME Typed, Outputs(exists, newer, content, latest),
         GiveUp \/ Built \/ Ship \/ KernelClean \/ KernelTouch \/ \E g \in Goals : Ask(g)
  PROVE  Outputs(exists', newer', content', latest')
<1>1. ASSUME NEW S, Remove(S), S \cap Kept = {}, content' = Emptied(S), latest' = latest
      PROVE  Outputs(exists', newer', content', latest')
  <2>1. \A g \in AllFiles \ S : content'[g] = content[g]
    BY <1>1 DEF Emptied, Typed, FilesTyped
  <2>2. "tree" \in AllFiles \ S BY <1>1 DEF Kept, AllFiles, Targets
  <2> QED BY <1>1, <2>1, <2>2, RemoveOutputs
<1>2. ASSUME UNCHANGED <<exists, newer, content, latest>>
      PROVE  Outputs(exists', newer', content', latest')
  BY <1>2
<1>3. CASE GiveUp BY <1>2, <1>3 DEF GiveUp, files
<1>4. CASE Built BY <1>2, <1>4 DEF Built
<1>5. CASE Ship
  <2>1. Shipped \cap Kept = {} BY DEF Shipped, Kept
  <2> QED BY <1>1, <1>5, <2>1 DEF Ship
<1>6. CASE KernelClean
  <2>1. Cleaned \cap Kept = {} BY DEF Cleaned, Kept
  <2> QED BY <1>1, <1>6, <2>1 DEF KernelClean
<1>7. CASE KernelTouch
  <2>1. Right(".stamp.config", content', latest') BY TreesAre DEF Right
  <2> QED BY <1>7, <2>1, TouchOutputs DEF KernelTouch
<1>8. ASSUME NEW g \in Goals, Ask(g) PROVE Outputs(exists', newer', content', latest')
  <2>1. CASE g = "deploy"
    <3>1. Obsolete \cap Kept = {} BY DEF Obsolete, Kept
    <3> QED BY <1>1, <1>8, <2>1, <3>1 DEF Ask
  <2>2. CASE g # "deploy" BY <1>2, <1>8, <2>2 DEF Ask
  <2> QED BY <2>1, <2>2
<1> QED BY <1>3, <1>4, <1>5, <1>6, <1>7, <1>8

LEMMA InitOutputs == Init => Outputs(exists, newer, content, latest) /\ Written
<1> SUFFICES ASSUME Init PROVE Outputs(exists, newer, content, latest) /\ Written
  OBVIOUS
<1>1. exists = Inputs /\ job = "none" /\ \A i \in Inputs : content[i] = {<<i, 0>>} /\ latest[i] = 0
  BY DEF Init
<1>2. /\ {".stamp.config", "Image.gz", "dhd.ko", "tree/dhd.ko", "tree"} \cap Inputs = {}
      /\ \A b \in Boards : {Dts(b), Dtb(b)} \cap Inputs = {}
      /\ {"template", "dtspatch"} \subseteq Inputs
  BY TreesAre DEF Inputs
<1> QED BY <1>1, <1>2 DEF Outputs, Fresh, Written

LEMMA NextOutputs ==
  ASSUME Typed, Outputs(exists, newer, content, latest), Written, [Next]_vars
  PROVE  Outputs(exists', newer', content', latest') /\ Written'
<1>1. CASE RunLine BY <1>1, RunLineOutputs
<1>2. ASSUME NEW i \in Inputs, Edit(i)
      PROVE  Outputs(exists', newer', content', latest') /\ Written'
  BY <1>2, EditOutputs
<1>3. CASE UNCHANGED vars BY <1>3 DEF vars, files, Written
<1>4. CASE Consider
  <2>1. UNCHANGED <<exists, newer, content, latest, line>> /\ line = 1
    BY <1>4, ConsiderIs DEF files, Typed, Running
  <2> QED BY <2>1 DEF Written
<1>5. CASE CannotRun \/ Break \/ NothingThere \/ Built \/ Ship \/ KernelClean \/ KernelTouch
             \/ Menuconfig \/ Getconfig \/ \E g \in Goals : Ask(g)
  <2>1. Outputs(exists', newer', content', latest')
    BY <1>5, MenuconfigOutputs, GetconfigOutputs, RestOutputs DEF CannotRun, Break, NothingThere
  <2>2. job' = "none"
    BY <1>5 DEF CannotRun, Break, NothingThere, GiveUp, Built, Ship, KernelClean, KernelTouch,
                Menuconfig, Getconfig, End, Ready, Idle, Ask, Typed, Running
  <2> QED BY <2>1, <2>2 DEF Written
<1> QED BY <1>1, <1>2, <1>3, <1>4, <1>5 DEF Next, Make
-----------------------------------------------------------------------------
(* What a make of an image has done.                                           *)

(* c is a version of the input i since make was asked, and the rest *)
Recent(c, i, rest, l, a) == \E v \in a[i]..l[i] : c = {<<i, v>>} \cup rest

(* The make for the goal g and the board b has dealt with k targets.  Then the
   targets that it has passed are up to date, even if the user has edited inputs
   since, and the image is built of them.                                      *)
Past(e, n, c, l, a, b, g, k) ==
  /\ k >= 3 => Fresh(".config", ".stamp.config", e, n) /\ Recent(c[".config"], "config", {}, l, a)
  /\ k >= 4 => Fresh(".stamp.config", "Image.gz", e, n)
  /\ k >= 5 => Recent(c["tree"], "template", {}, l, a)
  /\ k >= 8 => Fresh("Image.gz", "dhd.ko", e, n)
  /\ k >= 9 => Fresh("dhd.ko", "tree/dhd.ko", e, n)
  /\ k >= 10 => Fresh(".stamp.config", ".stamp.modules", e, n)
  /\ k >= 11 => c["tree/btusb.ko"] = c[".config"]
  /\ k >= 13 => c["initramfs"] = c[".config"] \cup c["tree"]
  /\ k >= 14 => Recent(c[Dts(b)], "dtspatch", {<<Dts(b), 0>>}, l, a)
  /\ k >= 15 => Fresh(Dts(b), Dtb(b), e, n)
  /\ k >= 16 => c[BootImg(g)] = c[".config"] \cup c["tree"] \cup c[Dts(b)]
  /\ k >= 17 /\ g = "deploy" => c["dtb.img"] = c[Dts(b)]

(* The make cannot pass the image and the files in it, because the modules, that
   are always made, are newer, nor the device tree, that deploy has removed.    *)
Ahead(e, n, g, k) ==
  /\ k \in 11..12 => ~Fresh("tree/btusb.ko", "initramfs", e, n)
  /\ k \in 13..15 => ~Fresh("initramfs", BootImg(g), e, n)
  /\ g = "deploy" /\ k < 17 => "dtb.img" \notin e
Made ==
  goal \in ImageGoals =>
    /\ Past(exists, newer, content, latest, asked, board, goal, done)
    /\ Ahead(exists, newer, goal, done)

(* After .stamp.config a line changes the file that it makes, and no other except
   the modules in a tree that is made again.                                   *)
LEMMA LineFrame ==
  ASSUME Typed, RunLine, job # ".stamp.config"
  PROVE  /\ \A f \in AllFiles : f # job /\ (job = "tree" => f \notin InTree) =>
              content'[f] = content[f] /\ (f \in exists' <=> f \in exists)
         /\ \A p, t :
              Compared(p, t) /\ p # t /\ job # t /\ (job = "tree" => {p, t} \cap InTree = {}) =>
                /\ Fresh(p, t, exists', newer') => Fresh(p, t, exists, newer)
                /\ job # p => (Fresh(p, t, exists', newer') <=> Fresh(p, t, exists, newer))
<1>0. DOMAIN content = AllFiles /\ job \in AllFiles
  BY RunLineControl DEF Typed, FilesTyped, AllFiles
<1> DEFINE kept(f) == content'[f] = content[f] /\ (f \in exists' <=> f \in exists)
<1>1. CASE IdleLine \/ StampWork
  BY <1>0, <1>1 DEF IdleLine, StampWork
<1>2. CASE ProductWork \/ LastTouch
  <2>1. Touch(job) /\ \A f \in AllFiles : f # job => content'[f] = content[f]
    BY <1>0, <1>2 DEF ProductWork, LastTouch
  <2>2. \A f : f # job => (f \in exists' <=> f \in exists) BY <2>1 DEF Touch
  <2>3. ASSUME NEW p, NEW t, Compared(p, t), p # t, job # t
        PROVE  /\ Fresh(p, t, exists', newer') => Fresh(p, t, exists, newer)
               /\ job # p => (Fresh(p, t, exists', newer') <=> Fresh(p, t, exists, newer))
    <3>1. /\ exists' = exists \cup {job}
          /\ <<p, t>> \in newer' <=> \/ <<p, t>> \in newer
                                     \/ p = job /\ t \in exists
      BY <2>1, <2>3, TouchIs
    <3> QED BY <2>3, <3>1 DEF Fresh
  <2> QED BY <2>1, <2>2, <2>3
<1>3. CASE TreeLine
  <2>1. job = "tree" /\ Remove(InTree) BY <1>3 DEF TreeLine
  <2>2. \A f \in AllFiles : f # job /\ f \notin InTree => content'[f] = content[f]
    BY <1>0, <1>3 DEF TreeLine, Emptied
  <2>3. \A f : f \notin InTree => (f \in exists' <=> f \in exists) BY <2>1 DEF Remove
  <2>4. ASSUME NEW p, NEW t, {p, t} \cap InTree = {}
        PROVE  Fresh(p, t, exists', newer') <=> Fresh(p, t, exists, newer)
    BY <2>1, <2>4, RemoveFresh DEF UpToDate
  <2> QED BY <2>1, <2>2, <2>3, <2>4
<1> QED BY <1>1, <1>2, <1>3, LineEffect DEF ConfigLine

(* The last line touches the target. *)
LEMMA LastLineTouches ==
  ASSUME Typed, RunLine, line = Lines(job)
  PROVE  /\ Touch(job)
         /\ job \in {"Image.gz", "dhd.ko"} \/ job \notin Products => content' = content
         /\ job \in Products \ {"Image.gz", "dhd.ko"} => content'[job] = Work
<1>0. DOMAIN content = AllFiles /\ job \in AllFiles /\ line = Lines(job)
  BY RunLineControl DEF Typed, FilesTyped, AllFiles
<1>1. CASE LastTouch BY <1>1 DEF LastTouch, Products, IsStamp
<1>2. CASE ProductWork
  <2>1. job \notin {"Image.gz", "dhd.ko"}
    <3>1. line = 1 BY <1>2 DEF ProductWork
    <3>2. Lines(job) # 2 BY <1>0, <3>1
    <3>3. Lines("Image.gz") = 2 /\ Lines("dhd.ko") = 2 BY LinesAre
    <3>4. job # "Image.gz" /\ job # "dhd.ko" BY <3>2, <3>3
    <3> QED BY <3>4
  <2> QED BY <1>0, <1>2, <2>1 DEF ProductWork
<1>3. ~IdleLine /\ ~ConfigLine /\ ~TreeLine /\ ~StampWork
  BY <1>0, LinesAre, RunLineControl DEF IdleLine, ConfigLine, TreeLine, StampWork
<1> QED BY <1>1, <1>2, <1>3, LineEffect

(* Where a recipe runs in the walk for an image. *)
LEMMA LinePlace ==
  ASSUME Typed, RunLine, goal \in ImageGoals
  PROVE  /\ done \in 0..16 /\ board \in Boards /\ job = Walk(goal, board)[done + 1]
         /\ PlaceOf(job, goal, board, done + 1)
<1>1. job # "none" BY DEF RunLine
<1>2. done \in 0..16 /\ board \in Boards BY <1>1, StampPlace
<1>3. job = Walk(goal, board)[done + 1] BY RunLineControl
<1>4. done + 1 \in 1..17 BY <1>2
<1>5. PlaceOf(Walk(goal, board)[done + 1], goal, board, done + 1) BY <1>2, <1>4, ImagePlace
<1> QED BY <1>2, <1>3, <1>5

LEMMA ImagesAre ==
  ASSUME NEW g
  PROVE  BootImg(g) \in {"boot.img", "kernel.img"}
BY DEF BootImg

(* No line of a recipe spoils what the make has passed. *)
LEMMA LineKeepsPast ==
  ASSUME Typed, RunLine, goal \in ImageGoals,
         Past(exists, newer, content, latest, asked, board, goal, done)
  PROVE  Past(exists', newer', content', latest', asked', board', goal', done)
<1>1. UNCHANGED <<goal, board, asked, latest>> /\ board \in Boards /\ done \in 0..16
  BY RunLineControl, LinePlace
<1> DEFINE n == done + 1
<1>2. PlaceOf(job, goal, board, n) BY LinePlace
<1> HIDE DEF n
<1>3. done = n - 1 /\ n \in 1..17 BY <1>1 DEF n
<1>4. done >= 3 => job # ".stamp.config" BY <1>2, <1>3 DEF PlaceOf
<1>5. done >= 5 => job # "tree" BY <1>2, <1>3 DEF PlaceOf
<1>6. /\ Dts(board) \in {"2g.dts", "3g.dts"} /\ Dtb(board) \in {"2g.dtb", "3g.dtb"}
      /\ BootImg(goal) \in {"boot.img", "kernel.img"}
  BY <1>1, TreesAre, ImagesAre
<1>7. ASSUME NEW f \in AllFiles, done >= 3, f # job, done >= 5 \/ f \notin InTree
      PROVE  content'[f] = content[f]
  BY <1>4, <1>5, <1>7, LineFrame
<1>8. ASSUME NEW p, NEW t, Compared(p, t), p # t, job # p, job # t, done >= 3,
             done >= 5 \/ {p, t} \cap InTree = {},
             Fresh(p, t, exists, newer)
      PROVE  Fresh(p, t, exists', newer')
  <2>1. job # ".stamp.config" /\ (job = "tree" => {p, t} \cap InTree = {})
    BY <1>4, <1>5, <1>8
  <2>2. \A q, u :
          Compared(q, u) /\ q # u /\ job # u /\ (job = "tree" => {q, u} \cap InTree = {}) =>
            (job # q => (Fresh(q, u, exists', newer') <=> Fresh(q, u, exists, newer)))
    BY <2>1, LineFrame
  <2>3. Compared(p, t) /\ p # t /\ job # t /\ job # p BY <1>8
  <2>4. Fresh(p, t, exists', newer') <=> Fresh(p, t, exists, newer)
    BY <2>1, <2>2, <2>3
  <2> QED BY <1>8, <2>4
<1>9. ASSUME done >= 3
      PROVE  /\ Fresh(".config", ".stamp.config", exists', newer')
             /\ content'[".config"] = content[".config"]
  <2>1. job # ".stamp.config" /\ job # ".config" /\ ".config" \in AllFiles
    BY <1>4, <1>9, RunLineControl DEF Targets, InTree, AllFiles
  <2>2. {".config", ".stamp.config"} \cap InTree = {} BY DEF InTree
  <2>3. Fresh(".config", ".stamp.config", exists, newer) BY <1>9 DEF Past
  <2> QED BY <1>7, <1>8, <1>9, <2>1, <2>2, <2>3, ComparedAre
<1>10. ASSUME done >= 4 PROVE Fresh(".stamp.config", "Image.gz", exists', newer')
  <2>1. job # ".stamp.config" /\ job # "Image.gz" /\ done >= 3
    BY <1>2, <1>3, <1>10 DEF PlaceOf
  <2>2. {".stamp.config", "Image.gz"} \cap InTree = {} BY DEF InTree
  <2>3. Fresh(".stamp.config", "Image.gz", exists, newer) BY <1>10 DEF Past
  <2> QED BY <1>8, <2>1, <2>2, <2>3, ComparedAre
<1>11. ASSUME done >= 5 PROVE content'["tree"] = content["tree"]
  <2>1. job # "tree" /\ done >= 3 /\ "tree" \in AllFiles
    BY <1>3, <1>5, <1>11 DEF AllFiles, Targets
  <2> QED BY <1>7, <1>11, <2>1
<1>12. ASSUME done >= 8 PROVE Fresh("Image.gz", "dhd.ko", exists', newer')
  <2>1. job # "Image.gz" /\ job # "dhd.ko" /\ done >= 3 /\ done >= 5
    BY <1>2, <1>3, <1>12 DEF PlaceOf
  <2>2. Fresh("Image.gz", "dhd.ko", exists, newer) BY <1>12 DEF Past
  <2> QED BY <1>8, <2>1, <2>2, ComparedAre
<1>13. ASSUME done >= 9 PROVE Fresh("dhd.ko", "tree/dhd.ko", exists', newer')
  <2>1. job # "dhd.ko" /\ job # "tree/dhd.ko" /\ done >= 3 /\ done >= 5
    BY <1>2, <1>3, <1>13 DEF PlaceOf
  <2>2. Fresh("dhd.ko", "tree/dhd.ko", exists, newer) BY <1>13 DEF Past
  <2> QED BY <1>8, <2>1, <2>2, ComparedAre
<1>14. ASSUME done >= 10 PROVE Fresh(".stamp.config", ".stamp.modules", exists', newer')
  <2>1. job # ".stamp.config" /\ job # ".stamp.modules" /\ done >= 3 /\ done >= 5
    BY <1>2, <1>3, <1>14 DEF PlaceOf
  <2>2. Fresh(".stamp.config", ".stamp.modules", exists, newer) BY <1>14 DEF Past
  <2> QED BY <1>8, <2>1, <2>2, ComparedAre
<1>15. ASSUME done >= 11 PROVE content'["tree/btusb.ko"] = content["tree/btusb.ko"]
  <2>1. job # "tree/btusb.ko" /\ done >= 3 /\ done >= 5 /\ "tree/btusb.ko" \in AllFiles
    BY <1>2, <1>3, <1>15 DEF PlaceOf, AllFiles, Targets, InTree
  <2> QED BY <1>7, <2>1
<1>16. ASSUME done >= 13 PROVE content'["initramfs"] = content["initramfs"]
  <2>1. job # "initramfs" /\ done >= 3 /\ done >= 5 /\ "initramfs" \in AllFiles
    BY <1>2, <1>3, <1>16 DEF PlaceOf, AllFiles, Targets
  <2> QED BY <1>7, <2>1
<1>17. ASSUME done >= 14 PROVE content'[Dts(board)] = content[Dts(board)]
  <2>1. job # Dts(board) /\ done >= 3 /\ done >= 5
    BY <1>2, <1>3, <1>6, <1>17 DEF PlaceOf
  <2>2. Dts(board) \in AllFiles BY <1>6 DEF AllFiles, Targets
  <2> QED BY <1>7, <2>1, <2>2
<1>18. ASSUME done >= 15 PROVE Fresh(Dts(board), Dtb(board), exists', newer')
  <2>1. job # Dts(board) /\ job # Dtb(board) /\ done >= 3 /\ done >= 5
    BY <1>2, <1>3, <1>6, <1>18 DEF PlaceOf
  <2>2. Fresh(Dts(board), Dtb(board), exists, newer) BY <1>18 DEF Past
  <2>3. Dts(board) # Dtb(board) BY <1>6
  <2> QED BY <1>1, <1>8, <2>1, <2>2, <2>3, ComparedAre
<1>19. ASSUME done >= 16 PROVE content'[BootImg(goal)] = content[BootImg(goal)]
  <2>1. job # BootImg(goal) /\ done >= 3 /\ done >= 5
    BY <1>2, <1>3, <1>6, <1>19 DEF PlaceOf
  <2>2. BootImg(goal) \in AllFiles BY <1>6 DEF AllFiles, Targets
  <2> QED BY <1>7, <2>1, <2>2
<1>20. ~(done >= 17) BY <1>1
<1> QED BY <1>1, <1>9, <1>10, <1>11, <1>12, <1>13, <1>14, <1>15, <1>16, <1>17, <1>18, <1>19, <1>20
        DEF Past

(* No line touches what is ahead but the line that makes it. *)
LEMMA LineKeepsAhead ==
  ASSUME Typed, RunLine, goal \in ImageGoals, Ahead(exists, newer, goal, done)
  PROVE  Ahead(exists', newer', goal', done')
<1>1. UNCHANGED <<goal, board>> /\ done \in 0..16
      /\ \/ line = Lines(job) /\ done' = done + 1
         \/ line < Lines(job) /\ done' = done
  BY RunLineControl, LinePlace
<1> DEFINE n == done + 1
<1>2. PlaceOf(job, goal, board, n) BY LinePlace
<1> HIDE DEF n
<1>3. done = n - 1 /\ n \in 1..17 BY <1>1 DEF n
<1>4. BootImg(goal) \in {"boot.img", "kernel.img"} BY ImagesAre
<1>5. job \in {"initramfs", "boot.img", "kernel.img", "dtb.img"} => done' = done + 1
  <2>1. {"initramfs", "boot.img", "kernel.img", "dtb.img"} \subseteq Products \ {"Image.gz", "dhd.ko"}
    BY DEF Products, Targets, IsStamp
  <2>2. job \in {"initramfs", "boot.img", "kernel.img", "dtb.img"} => Lines(job) = 1
    BY <2>1, LinesAre
  <2>3. line \in Nat /\ line >= 1 BY DEF Typed
  <2> QED BY <1>1, <2>2, <2>3
<1>6. ASSUME NEW p, NEW t, Compared(p, t), p # t, job # t, done >= 10,
             ~Fresh(p, t, exists, newer)
      PROVE  ~Fresh(p, t, exists', newer')
  <2>1. job # ".stamp.config" /\ job # "tree" BY <1>2, <1>3, <1>6 DEF PlaceOf
  <2> QED BY <1>6, <2>1, LineFrame
<1>7. ASSUME done' \in 11..12 PROVE ~Fresh("tree/btusb.ko", "initramfs", exists', newer')
  <2>1. CASE done = 10
    <3>1. job = Walk(goal, board)[11] /\ line = Lines(job)
      BY <1>1, <1>7, <2>1, LinePlace
    <3>2. job = "tree/btusb.ko" /\ Touch(job)
      BY <1>1, <3>1, ImageWalk, LinePlace, LastLineTouches
    <3> QED BY <3>2, TouchFresh, ComparedAre
  <2>2. CASE done \in 11..12
    <3>1. job # "initramfs"
      BY <1>2, <1>3, <1>5, <1>7 DEF PlaceOf
    <3> QED BY <1>6, <2>2, <3>1, ComparedAre DEF Ahead
  <2> QED BY <1>1, <1>7, <2>1, <2>2
<1>8. ASSUME done' \in 13..15 PROVE ~Fresh("initramfs", BootImg(goal), exists', newer')
  <2>0. Compared("initramfs", BootImg(goal)) /\ "initramfs" # BootImg(goal)
    BY <1>4, ComparedAre
  <2>1. CASE done = 12
    <3>1. job = Walk(goal, board)[13] /\ line = Lines(job)
      BY <1>1, <1>8, <2>1, LinePlace
    <3>2. job = "initramfs" /\ Touch(job)
      BY <1>1, <3>1, ImageWalk, LinePlace, LastLineTouches
    <3> QED BY <2>0, <3>2, TouchFresh
  <2>2. CASE done \in 13..15
    <3>1. job # BootImg(goal)
      BY <1>2, <1>3, <1>4, <1>5, <1>8 DEF PlaceOf
    <3> QED BY <1>6, <2>0, <2>2, <3>1 DEF Ahead
  <2> QED BY <1>1, <1>8, <2>1, <2>2
<1>9. ASSUME goal = "deploy", done' < 17 PROVE "dtb.img" \notin exists'
  <2>1. "dtb.img" \in exists' => "dtb.img" \in exists \/ job = "dtb.img"
    BY LineEffect DEF IdleLine, ConfigLine, TreeLine, StampWork, ProductWork, LastTouch,
                      Touch, Remove
  <2>2. job # "dtb.img" BY <1>1, <1>2, <1>3, <1>5, <1>9 DEF PlaceOf
  <2>3. done < 17 BY <1>1
  <2> QED BY <1>9, <2>1, <2>2, <2>3 DEF Ahead
<1> QED BY <1>1, <1>7, <1>8, <1>9 DEF Ahead

(* The last line of a recipe adds its target to what the make has passed. *)
LEMMA LineAddsPast ==
  ASSUME Typed, Stamps, StampRun, Outputs(exists, newer, content, latest), Written,
         RunLine, goal \in ImageGoals, line = Lines(job),
         Past(exists, newer, content, latest, asked, board, goal, done)
  PROVE  Past(exists', newer', content', latest', asked', board', goal', done + 1)
<1>1. /\ UNCHANGED <<goal, board, asked, latest>> /\ board \in Boards /\ done \in 0..16
      /\ job = Walk(goal, board)[done + 1]
  BY RunLineControl, LinePlace
<1>2. /\ Past(exists', newer', content', latest', asked, board, goal, done)
      /\ Past(exists, newer, content, latest, asked, board, goal, done)
  BY <1>1, LineKeepsPast
<1>3. Touch(job) BY LastLineTouches
<1>4. \A i \in Inputs : latest[i] \in asked[i]..latest[i]
  BY DEF Typed
<1>5. ASSUME done = 2
      PROVE  /\ Fresh(".config", ".stamp.config", exists', newer')
             /\ Recent(content'[".config"], "config", {}, latest', asked)
  <2>1. job = ".stamp.config" /\ line = 3 BY <1>1, <1>5, ImageWalk, LinesAre
  <2>2. Stamps' /\ Configured' BY <2>1, StampLine
  <2>3. content'[".config"] = {<<"config", latest'["config"]>>} \cup {} BY <2>2 DEF Stamps
  <2>4. Fresh(".config", ".stamp.config", exists', newer')
    BY <2>2 DEF Stamps, Configured, NewerThan, Fresh
  <2>5. latest'["config"] \in asked["config"]..latest'["config"] BY <1>1, <1>4 DEF Inputs
  <2> QED BY <2>3, <2>4, <2>5 DEF Recent
<1>6. ASSUME done = 3 PROVE Fresh(".stamp.config", "Image.gz", exists', newer')
  <2>1. job = "Image.gz" BY <1>1, <1>6, ImageWalk
  <2> QED BY <1>3, <2>1, TouchFresh, ComparedAre
<1>7. ASSUME done = 4 PROVE Recent(content'["tree"], "template", {}, latest', asked)
  <2>1. job = "tree" /\ line = 2 BY <1>1, <1>7, ImageWalk, LinesAre
  <2>2. content' = content BY <2>1, LastLineTouches DEF Products, IsStamp
  <2>3. content["tree"] = {<<"template", latest["template"]>>} \cup {}
    BY <2>1 DEF Written, Outputs
  <2>4. latest["template"] \in asked["template"]..latest["template"] BY <1>4 DEF Inputs
  <2> QED BY <1>1, <2>2, <2>3, <2>4 DEF Recent
<1>8. ASSUME done = 7 PROVE Fresh("Image.gz", "dhd.ko", exists', newer')
  <2>1. job = "dhd.ko" BY <1>1, <1>8, ImageWalk
  <2> QED BY <1>3, <2>1, TouchFresh, ComparedAre
<1>9. ASSUME done = 8 PROVE Fresh("dhd.ko", "tree/dhd.ko", exists', newer')
  <2>1. job = "tree/dhd.ko" BY <1>1, <1>9, ImageWalk
  <2> QED BY <1>3, <2>1, TouchFresh, ComparedAre
<1>10. ASSUME done = 9 PROVE Fresh(".stamp.config", ".stamp.modules", exists', newer')
  <2>1. job = ".stamp.modules" BY <1>1, <1>10, ImageWalk
  <2> QED BY <1>3, <2>1, TouchFresh, ComparedAre
<1>11. ASSUME NEW t \in Products \ {"Image.gz", "dhd.ko"}, job = t
       PROVE  content'[t] = Work
  BY <1>11, LastLineTouches
<1>12. ASSUME done = 10 PROVE content'["tree/btusb.ko"] = content'[".config"]
  <2>1. job = "tree/btusb.ko" BY <1>1, <1>12, ImageWalk
  <2>2. content'["tree/btusb.ko"] = content[".stamp.modules"]
    <3>1. "tree/btusb.ko" \in Products \ {"Image.gz", "dhd.ko"}
      BY DEF Products, Targets, InTree, IsStamp
    <3> QED BY <1>11, <2>1, <3>1, WorkIs
  <2>3. content[".stamp.modules"] = content[".config"]
    <3>1. /\ Fresh(".config", ".stamp.config", exists, newer)
          /\ Fresh(".stamp.config", ".stamp.modules", exists, newer)
      BY <1>2, <1>12 DEF Past
    <3> QED BY <3>1 DEF Outputs
  <2>4. content'[".config"] = content[".config"]
    <3>1. ".config" \in AllFiles /\ ".config" \notin InTree BY DEF AllFiles, InTree
    <3> QED BY <2>1, <3>1, LineFrame
  <2> QED BY <2>2, <2>3, <2>4
<1>13. ASSUME NEW f \in AllFiles \ InTree, done >= 10, f # job
       PROVE  content'[f] = content[f]
  <2>1. job # ".stamp.config"
    <3>1. ".stamp.config" = job => done = 2
      BY LinePlace DEF PlaceOf
    <3> QED BY <1>13, <3>1
  <2> QED BY <1>13, <2>1, LineFrame
<1>14. done >= 9 => content["tree/dhd.ko"] = content[".config"]
  <2> SUFFICES ASSUME done >= 9 PROVE content["tree/dhd.ko"] = content[".config"]
    OBVIOUS
  <2>1. /\ Fresh(".config", ".stamp.config", exists, newer)
        /\ Fresh(".stamp.config", "Image.gz", exists, newer)
        /\ Fresh("Image.gz", "dhd.ko", exists, newer)
        /\ Fresh("dhd.ko", "tree/dhd.ko", exists, newer)
    BY <1>1, <1>2 DEF Past
  <2>2. content["dhd.ko"] = content[".config"] BY <2>1 DEF Outputs
  <2>3. "dhd.ko" \in exists BY <2>1 DEF Fresh
  <2> QED BY <2>1, <2>2, <2>3 DEF Outputs
<1>15. ASSUME done = 12
       PROVE  content'["initramfs"] = content'[".config"] \cup content'["tree"]
  <2>1. job = "initramfs" BY <1>1, <1>15, ImageWalk
  <2>2. content'["initramfs"] =
          content["tree"] \cup content["tree/btusb.ko"] \cup content["tree/dhd.ko"]
    <3>1. "initramfs" \in Products \ {"Image.gz", "dhd.ko"}
      BY DEF Products, Targets, IsStamp
    <3> QED BY <1>11, <2>1, <3>1, WorkIs
  <2>3. content["tree/btusb.ko"] = content[".config"] BY <1>2, <1>15 DEF Past
  <2>4. content["tree/dhd.ko"] = content[".config"] BY <1>14, <1>15
  <2>5. content'[".config"] = content[".config"] /\ content'["tree"] = content["tree"]
    <3>1. {".config", "tree"} \subseteq AllFiles \ InTree BY DEF AllFiles, Targets, InTree
    <3> QED BY <1>13, <1>15, <2>1, <3>1
  <2> QED BY <2>2, <2>3, <2>4, <2>5
<1>16. /\ Dts(board) \in {"2g.dts", "3g.dts"} /\ Dtb(board) \in {"2g.dtb", "3g.dtb"}
       /\ BootImg(goal) \in {"boot.img", "kernel.img"}
       /\ {Dts(board), Dtb(board), BootImg(goal), "dtb.img"} \subseteq
            (Products \ {"Image.gz", "dhd.ko"}) \cap (AllFiles \ InTree)
  <2>1. /\ Dts(board) \in {"2g.dts", "3g.dts"} /\ Dtb(board) \in {"2g.dtb", "3g.dtb"}
        /\ BootImg(goal) \in {"boot.img", "kernel.img"}
    BY <1>1, TreesAre, ImagesAre
  <2>2. {"2g.dts", "3g.dts", "2g.dtb", "3g.dtb", "boot.img", "kernel.img", "dtb.img"} \subseteq
            (Products \ {"Image.gz", "dhd.ko"}) \cap (AllFiles \ InTree)
    BY DEF Products, Targets, InTree, IsStamp, AllFiles
  <2> QED BY <2>1, <2>2
<1>17. ASSUME done = 13
       PROVE  Recent(content'[Dts(board)], "dtspatch", {<<Dts(board), 0>>}, latest', asked)
  <2>1. job = Dts(board) BY <1>1, <1>17, ImageWalk
  <2>2. content'[job] = Work BY <1>16, <2>1, LastLineTouches
  <2>3. Work = content["dtspatch"] \cup {<<Dts(board), 0>>} BY <1>1, <2>1, WorkIs
  <2>4. content["dtspatch"] = {<<"dtspatch", latest["dtspatch"]>>} BY DEF Outputs
  <2>5. latest["dtspatch"] \in asked["dtspatch"]..latest["dtspatch"] BY <1>4 DEF Inputs
  <2>6. content'[Dts(board)] = Work BY <2>1, <2>2
  <2> QED BY <1>1, <2>3, <2>4, <2>5, <2>6 DEF Recent
<1>18. ASSUME done = 14 PROVE Fresh(Dts(board), Dtb(board), exists', newer')
  <2>1. job = Dtb(board) BY <1>1, <1>18, ImageWalk
  <2>2. /\ exists' = exists \cup {job}
        /\ \A p, t : <<p, t>> \in newer' <=>
              \/ t # job /\ <<p, t>> \in newer
              \/ p = job /\ t \in exists /\ Compared(job, t)
    BY <1>3, TouchIs
  <2>3. Dts(board) # Dtb(board) BY <1>16
  <2> QED BY <2>1, <2>2, <2>3 DEF Fresh
<1>19. done >= 15 => content[Dtb(board)] = content[Dts(board)]
  <2> SUFFICES ASSUME done >= 15 PROVE content[Dtb(board)] = content[Dts(board)]
    OBVIOUS
  <2>1. Fresh(Dts(board), Dtb(board), exists, newer) BY <1>2 DEF Past
  <2> QED BY <1>1, <2>1 DEF Outputs
<1>20. ASSUME done = 15
       PROVE  content'[BootImg(goal)] =
                content'[".config"] \cup content'["tree"] \cup content'[Dts(board)]
  <2>1. job = BootImg(goal) BY <1>1, <1>20, ImageWalk
  <2>2. job \in {"boot.img", "kernel.img"} BY <1>16, <2>1
  <2>3. content'[job] = Work BY <1>16, <2>1, LastLineTouches
  <2>4. Work = content["Image.gz"] \cup content["initramfs"] \cup content[Dtb(board)]
    BY <2>2, WorkIs
  <2>5. content["Image.gz"] = content[".config"]
    <3>1. /\ Fresh(".config", ".stamp.config", exists, newer)
          /\ Fresh(".stamp.config", "Image.gz", exists, newer)
      BY <1>2, <1>20 DEF Past
    <3> QED BY <3>1 DEF Outputs
  <2>6. content["initramfs"] = content[".config"] \cup content["tree"] BY <1>2, <1>20 DEF Past
  <2>7. content[Dtb(board)] = content[Dts(board)] BY <1>19, <1>20
  <2>8. /\ content'[".config"] = content[".config"] /\ content'["tree"] = content["tree"]
        /\ content'[Dts(board)] = content[Dts(board)]
    <3>1. {".config", "tree", Dts(board)} \subseteq AllFiles \ InTree
      BY <1>16 DEF AllFiles, Targets, InTree
    <3>2. job \notin {".config", "tree", Dts(board)} BY <1>16, <2>2
    <3> QED BY <1>13, <1>20, <3>1, <3>2
  <2>9. content'[BootImg(goal)] = Work BY <2>1, <2>3
  <2> QED BY <2>4, <2>5, <2>6, <2>7, <2>8, <2>9
<1>21. ASSUME done = 16 PROVE content'["dtb.img"] = content'[Dts(board)]
  <2>1. job = "dtb.img" BY <1>1, <1>21, ImageWalk
  <2>2. content'["dtb.img"] = content[Dtb(board)]
    BY <1>11, <1>16, <2>1, WorkIs
  <2>3. content'[Dts(board)] = content[Dts(board)]
    <3>1. Dts(board) \in AllFiles \ InTree /\ Dts(board) # "dtb.img" BY <1>16
    <3> QED BY <1>13, <1>21, <2>1, <3>1
  <2> QED BY <1>19, <1>21, <2>2, <2>3
<1>22. Past(exists', newer', content', latest', asked, board, goal, done + 1)
  <2> DEFINE k == done + 1
  <2>1. \A j \in 1..17 : k >= j => done >= j \/ done = j - 1 BY <1>1
  <2>2. done \in Nat /\ k \in Nat BY <1>1
  <2> HIDE DEF k
  <2>3. /\ k >= 3 => /\ Fresh(".config", ".stamp.config", exists', newer')
                     /\ Recent(content'[".config"], "config", {}, latest', asked)
        /\ k >= 4 => Fresh(".stamp.config", "Image.gz", exists', newer')
        /\ k >= 5 => Recent(content'["tree"], "template", {}, latest', asked)
    BY <1>2, <1>5, <1>6, <1>7, <2>1, <2>2 DEF Past
  <2>4. /\ k >= 8 => Fresh("Image.gz", "dhd.ko", exists', newer')
        /\ k >= 9 => Fresh("dhd.ko", "tree/dhd.ko", exists', newer')
        /\ k >= 10 => Fresh(".stamp.config", ".stamp.modules", exists', newer')
    BY <1>2, <1>8, <1>9, <1>10, <2>1, <2>2 DEF Past
  <2>5. /\ k >= 11 => content'["tree/btusb.ko"] = content'[".config"]
        /\ k >= 13 => content'["initramfs"] = content'[".config"] \cup content'["tree"]
        /\ k >= 14 => Recent(content'[Dts(board)], "dtspatch", {<<Dts(board), 0>>}, latest', asked)
        /\ k >= 15 => Fresh(Dts(board), Dtb(board), exists', newer')
    BY <1>2, <1>12, <1>15, <1>17, <1>18, <2>1, <2>2 DEF Past
  <2>6. /\ k >= 16 => content'[BootImg(goal)] =
                        content'[".config"] \cup content'["tree"] \cup content'[Dts(board)]
        /\ k >= 17 /\ goal = "deploy" => content'["dtb.img"] = content'[Dts(board)]
    BY <1>2, <1>20, <1>21, <2>1, <2>2 DEF Past
  <2>7. Past(exists', newer', content', latest', asked, board, goal, k)
    BY <2>3, <2>4, <2>5, <2>6 DEF Past
  <2> QED BY <2>7 DEF k
<1> QED BY <1>1, <1>22

(* A target that make passes exists, and no prerequisite of it is newer. *)
LEMMA PassedIs ==
  ASSUME NEW t, ~OutOfDate(t)
  PROVE  /\ t # "tree/btusb.ko" /\ t \in exists
         /\ \A p \in Prereqs(t, board) : Fresh(p, t, exists, newer)
BY DEF OutOfDate, Missing, AlwaysMade, Fresh

(* What make passes without making it is what it would have made. *)
LEMMA ConsiderMade ==
  ASSUME Typed, Stamps, Outputs(exists, newer, content, latest), Consider, goal \in ImageGoals,
         Past(exists, newer, content, latest, asked, board, goal, done),
         Ahead(exists, newer, goal, done)
  PROVE  /\ Past(exists, newer, content, latest, asked, board, goal, done')
         /\ Ahead(exists, newer, goal, done')
<1> DEFINE k == done'
           walk == Walk(goal, board)
<1>1. board \in Boards /\ \A i \in Inputs : latest[i] \in asked[i]..latest[i]
  BY DEF Typed
<1>2. /\ walk[3] = ".stamp.config" /\ walk[4] = "Image.gz" /\ walk[5] = "tree"
      /\ walk[8] = "dhd.ko" /\ walk[9] = "tree/dhd.ko" /\ walk[10] = ".stamp.modules"
      /\ walk[11] = "tree/btusb.ko" /\ walk[13] = "initramfs" /\ walk[14] = Dts(board)
      /\ walk[15] = Dtb(board) /\ walk[16] = BootImg(goal) /\ walk[17] = "dtb.img"
      /\ Len(walk) = 17
  BY <1>1, ImageWalk
<1>3. done \in Nat /\ k \in done..Len(walk) /\ \A n \in (done + 1)..k : ~OutOfDate(walk[n])
  BY ConsiderIs DEF Typed
<1> HIDE DEF k, walk
<1>4. k \in done..17 /\ \A n \in 1..17 : k >= n => done >= n \/ ~OutOfDate(walk[n])
  BY <1>2, <1>3
<1>5. /\ Compared("initramfs", BootImg(goal)) /\ "initramfs" \in Prereqs(BootImg(goal), board)
      /\ BootImg(goal) \in {"boot.img", "kernel.img"}
  BY ImagesAre, ComparedAre DEF Prereqs
<1>6. /\ ".stamp.config" \in Prereqs("Image.gz", board)
      /\ ".stamp.config" \in Prereqs(".stamp.modules", board)
      /\ "Image.gz" \in Prereqs("dhd.ko", board) /\ "dhd.ko" \in Prereqs("tree/dhd.ko", board)
      /\ "template" \in Prereqs("tree", board) /\ "tree/btusb.ko" \in Prereqs("initramfs", board)
      /\ "config" \in Prereqs(".stamp.config", board)
  BY DEF Prereqs
<1>7. "dtspatch" \in Prereqs(Dts(board), board) /\ Dts(board) \in Prereqs(Dtb(board), board)
  BY <1>1 DEF Prereqs, Dts, Dtb, Boards
<1>8. k >= 11 => done >= 11
  BY <1>2, <1>4, PassedIs
<1>9. k >= 13 => done >= 13
  <2> SUFFICES ASSUME k >= 13, done < 13 PROVE FALSE
    BY <1>3
  <2>1. done \in 11..12 BY <1>3, <1>4, <1>8
  <2>2. ~OutOfDate("initramfs")
    <3>1. ~(done >= 13) BY <1>3
    <3> QED BY <1>2, <1>4, <3>1
  <2>3. Fresh("tree/btusb.ko", "initramfs", exists, newer) BY <1>6, <2>2, PassedIs
  <2> QED BY <2>1, <2>3 DEF Ahead
<1>10. k >= 16 => done >= 16
  <2> SUFFICES ASSUME k >= 16, done < 16 PROVE FALSE
    BY <1>3
  <2>1. done \in 13..15 BY <1>3, <1>4, <1>9
  <2>2. ~OutOfDate(BootImg(goal))
    <3>1. ~(done >= 16) BY <1>3
    <3> QED BY <1>2, <1>4, <3>1
  <2>3. Fresh("initramfs", BootImg(goal), exists, newer) BY <1>5, <2>2, PassedIs
  <2> QED BY <2>1, <2>3 DEF Ahead
<1>11. k >= 17 /\ goal = "deploy" => done >= 17
  <2> SUFFICES ASSUME k >= 17, goal = "deploy", done < 17 PROVE FALSE
    BY <1>3
  <2>1. ~OutOfDate("dtb.img")
    <3>1. ~(done >= 17) BY <1>3
    <3> QED BY <1>2, <1>4, <3>1
  <2>2. "dtb.img" \in exists BY <2>1, PassedIs
  <2> QED BY <2>2 DEF Ahead
<1>12. ASSUME k >= 3
       PROVE  /\ Fresh(".config", ".stamp.config", exists, newer)
              /\ Recent(content[".config"], "config", {}, latest, asked)
  <2>1. CASE done >= 3 BY <2>1 DEF Past
  <2>2. CASE ~OutOfDate(".stamp.config")
    <3>1. Fresh("config", ".stamp.config", exists, newer) BY <1>6, <2>2, PassedIs
    <3>2. Configured BY <3>1 DEF Fresh, Configured
    <3>3. Fresh(".config", ".stamp.config", exists, newer)
      BY <3>1 DEF Stamps, NewerThan, Fresh
    <3>4. content[".config"] = {<<"config", latest["config"]>>} \cup {} BY <3>2 DEF Stamps
    <3> QED BY <1>1, <3>3, <3>4 DEF Recent, Inputs
  <2> QED BY <1>2, <1>4, <1>12, <2>1, <2>2
<1>13. k >= 4 => Fresh(".stamp.config", "Image.gz", exists, newer)
  BY <1>2, <1>4, <1>6, PassedIs DEF Past
<1>14. ASSUME k >= 5 PROVE Recent(content["tree"], "template", {}, latest, asked)
  <2>1. CASE done >= 5 BY <2>1 DEF Past
  <2>2. CASE ~OutOfDate("tree")
    <3>1. Fresh("template", "tree", exists, newer) BY <1>6, <2>2, PassedIs
    <3>2. content["tree"] = {<<"template", latest["template"]>>} \cup {} BY <3>1 DEF Outputs
    <3> QED BY <1>1, <3>2 DEF Recent, Inputs
  <2> QED BY <1>2, <1>4, <1>14, <2>1, <2>2
<1>15. /\ k >= 8 => Fresh("Image.gz", "dhd.ko", exists, newer)
       /\ k >= 9 => Fresh("dhd.ko", "tree/dhd.ko", exists, newer)
       /\ k >= 10 => Fresh(".stamp.config", ".stamp.modules", exists, newer)
  BY <1>2, <1>4, <1>6, PassedIs DEF Past
<1>16. ASSUME k >= 14
       PROVE  Recent(content[Dts(board)], "dtspatch", {<<Dts(board), 0>>}, latest, asked)
  <2>1. CASE done >= 14 BY <2>1 DEF Past
  <2>2. CASE ~OutOfDate(Dts(board))
    <3>1. Fresh("dtspatch", Dts(board), exists, newer) BY <1>7, <2>2, PassedIs
    <3>2. content[Dts(board)] = {<<"dtspatch", latest["dtspatch"]>>} \cup {<<Dts(board), 0>>}
      BY <1>1, <3>1 DEF Outputs
    <3> QED BY <1>1, <3>2 DEF Recent, Inputs
  <2> QED BY <1>2, <1>4, <1>16, <2>1, <2>2
<1>17. k >= 15 => Fresh(Dts(board), Dtb(board), exists, newer)
  BY <1>2, <1>4, <1>7, PassedIs DEF Past
<1>18. Past(exists, newer, content, latest, asked, board, goal, k)
  BY <1>8, <1>9, <1>10, <1>11, <1>12, <1>13, <1>14, <1>15, <1>16, <1>17 DEF Past
<1>19. Ahead(exists, newer, goal, k)
  BY <1>3, <1>4, <1>8, <1>9 DEF Ahead
<1> QED BY <1>18, <1>19 DEF k

(* An edit makes versions newer than when make was asked, and touches inputs only. *)
LEMMA EditMade ==
  ASSUME Typed, Made, NEW i \in Inputs, Edit(i)
  PROVE  Made'
<1>1. /\ latest' = [latest EXCEPT ![i] = @ + 1] /\ Touch(i)
      /\ content' = [content EXCEPT ![i] = {<<i, latest'[i]>>}]
      /\ UNCHANGED <<goal, board, asked, done>>
  BY DEF Edit, run
<1> SUFFICES ASSUME goal \in ImageGoals
             PROVE  /\ Past(exists', newer', content', latest', asked, board, goal, done)
                    /\ Ahead(exists', newer', goal, done)
  BY <1>1 DEF Made
<1>2. /\ Past(exists, newer, content, latest, asked, board, goal, done)
      /\ Ahead(exists, newer, goal, done)
  BY DEF Made
<1>3. /\ DOMAIN content = AllFiles /\ latest \in [Inputs -> Nat] /\ asked \in [Inputs -> Nat]
      /\ i \in exists /\ board \in Boards
  BY DEF Typed, FilesTyped
<1>4. exists' = exists BY <1>1, <1>3 DEF Touch
<1>5. \A f \in AllFiles \ Inputs : content'[f] = content[f] BY <1>1, <1>3
<1>6. \A p, t : p \notin Inputs /\ t \notin Inputs =>
        (Fresh(p, t, exists', newer') <=> Fresh(p, t, exists, newer))
  BY <1>1, <1>4, TouchIs DEF Fresh
<1>7. \A c, j, rest : j \in Inputs /\ Recent(c, j, rest, latest, asked)
        => Recent(c, j, rest, latest', asked)
  <2>1. \A j \in Inputs : asked[j] \in Nat /\ latest[j] \in Nat /\ latest'[j] \in Nat
                           /\ latest[j] <= latest'[j]
    BY <1>1, <1>3
  <2>2. \A j \in Inputs : \A v \in asked[j]..latest[j] : v \in asked[j]..latest'[j]
    BY <2>1
  <2> QED BY <2>2 DEF Recent
<1>8. /\ {Dts(board), Dtb(board), BootImg(goal)} \subseteq AllFiles \ Inputs
      /\ {".config", ".stamp.config", "Image.gz", "tree", "dhd.ko", "tree/dhd.ko",
          ".stamp.modules", "tree/btusb.ko", "initramfs", "dtb.img"} \subseteq AllFiles \ Inputs
  <2>1. /\ {"2g.dts", "3g.dts", "2g.dtb", "3g.dtb", "boot.img", "kernel.img"} \subseteq AllFiles \ Inputs
        /\ {".config", ".stamp.config", "Image.gz", "tree", "dhd.ko", "tree/dhd.ko",
            ".stamp.modules", "tree/btusb.ko", "initramfs", "dtb.img"} \subseteq AllFiles \ Inputs
    BY DEF AllFiles, Targets, InTree, Inputs
  <2> QED BY <1>3, <2>1, TreesAre, ImagesAre
<1>9. Past(exists', newer', content', latest', asked, board, goal, done)
  BY <1>2, <1>5, <1>6, <1>7, <1>8 DEF Past, Inputs
<1>10. Ahead(exists', newer', goal, done)
  BY <1>2, <1>4, <1>6, <1>8 DEF Ahead
<1> QED BY <1>9, <1>10

(* deploy begins without the files that it makes for each board. *)
LEMMA StartMade ==
  ASSUME Typed, (\E g \in Goals : Ask(g)) \/ (Ship /\ board = "2G")
  PROVE  Made'
<1>1. done' = 0 /\ (goal' = "deploy" => "dtb.img" \notin exists')
  <2>1. ASSUME NEW g \in Goals, Ask(g)
        PROVE  done' = 0 /\ (goal' = "deploy" => "dtb.img" \notin exists')
    BY <2>1 DEF Ask, Remove, Obsolete
  <2>2. ASSUME Ship, board = "2G"
        PROVE  done' = 0 /\ (goal' = "deploy" => "dtb.img" \notin exists')
    BY <2>2 DEF Ship, Remove, Shipped
  <2> QED BY <2>1, <2>2
<1>2. Past(exists', newer', content', latest', asked', board', goal', 0)
  BY DEF Past
<1>3. Ahead(exists', newer', goal', 0)
  BY <1>1 DEF Ahead
<1> QED BY <1>1, <1>2, <1>3 DEF Made

LEMMA NextMade ==
  ASSUME Typed, Stamps, StampRun, Outputs(exists, newer, content, latest), Written, Made,
         [Next]_vars
  PROVE  Made'
<1>1. CASE RunLine
  <2> SUFFICES ASSUME goal \in ImageGoals PROVE Made'
    BY <1>1, RunLineControl DEF Made
  <2>1. /\ Past(exists, newer, content, latest, asked, board, goal, done)
        /\ Ahead(exists, newer, goal, done)
    BY DEF Made
  <2>2. Ahead(exists', newer', goal', done') BY <1>1, <2>1, LineKeepsAhead
  <2>3. Past(exists', newer', content', latest', asked', board', goal', done')
    <3>1. CASE line = Lines(job)
      <4>1. done' = done + 1
        <5>1. ~(line < Lines(job)) BY <1>1, <3>1, RunLineControl
        <5> QED BY <1>1, <5>1, RunLineControl
      <4> QED BY <1>1, <2>1, <3>1, <4>1, LineAddsPast
    <3>2. CASE line # Lines(job)
      <4>1. done' = done BY <1>1, <3>2, RunLineControl
      <4> QED BY <1>1, <2>1, <4>1, LineKeepsPast
    <3> QED BY <3>1, <3>2
  <2> QED BY <2>2, <2>3 DEF Made
<1>2. CASE Consider
  <2>1. UNCHANGED <<exists, newer, content, latest, asked, board, goal>>
    BY <1>2, ConsiderIs DEF files, run
  <2> QED BY <1>2, <2>1, ConsiderMade DEF Made
<1>3. ASSUME NEW i \in Inputs, Edit(i) PROVE Made' BY <1>3, EditMade
<1>4. CASE (\E g \in Goals : Ask(g)) \/ (Ship /\ board = "2G") BY <1>4, StartMade
<1>5. CASE CannotRun \/ Break \/ NothingThere \/ Built \/ (Ship /\ board # "2G") \/ KernelClean
             \/ KernelTouch \/ Menuconfig \/ Getconfig
  <2>1. goal' = "none"
    BY <1>5 DEF CannotRun, Break, NothingThere, GiveUp, Built, Ship, KernelClean, KernelTouch,
                Menuconfig, Getconfig, End
  <2> QED BY <2>1 DEF Made, ImageGoals
<1>6. CASE UNCHANGED vars BY <1>6 DEF vars, files, run, Made
<1> QED BY <1>1, <1>2, <1>3, <1>4, <1>5, <1>6 DEF Next, Make
-----------------------------------------------------------------------------
(* What is built is fresh.                                                     *)

(* An image of one version of each input, and a device tree of one. *)
LEMMA OneOfEach ==
  ASSUME Typed, NEW x \in Nat, NEW y \in Nat, NEW z \in asked["dtspatch"]..latest["dtspatch"],
         x \in asked["config"]..latest["config"], y \in asked["template"]..latest["template"]
  PROVE  /\ IsFresh({<<"config", x>>, <<"template", y>>, <<"dtspatch", z>>, <<Dts(board), 0>>},
                    asked, Inputs, board)
         /\ IsFresh({<<"dtspatch", z>>, <<Dts(board), 0>>}, asked, {"dtspatch"}, board)
<1> DEFINE tree == {<<"dtspatch", z>>, <<Dts(board), 0>>}
           image == {<<"config", x>>, <<"template", y>>, <<"dtspatch", z>>, <<Dts(board), 0>>}
<1>1. /\ \A i \in Inputs : latest[i] \in Nat /\ asked[i] \in Nat
      /\ board \in Boards /\ Dts(board) \in {"2g.dts", "3g.dts"}
  BY TreesAre DEF Typed
<1>2. x \in 0..latest["config"] /\ y \in 0..latest["template"] /\ z \in 0..latest["dtspatch"]
  BY <1>1 DEF Inputs
<1>3. /\ \A v : <<"config", v>> \in image <=> v = x
      /\ \A v : <<"template", v>> \in image <=> v = y
      /\ \A v : <<"dtspatch", v>> \in image <=> v = z
      /\ \A v : <<"dtspatch", v>> \in tree <=> v = z
  BY <1>1
<1>4. /\ <<Dts(board), 0>> \in image /\ <<Dts(board), 0>> \in tree
      /\ \A d \in Boards \ {board} : <<Dts(d), 0>> \notin image /\ <<Dts(d), 0>> \notin tree
  <2>1. ASSUME NEW d \in Boards \ {board}
        PROVE  Dts(d) \notin {"config", "template", "dtspatch", Dts(board)}
    BY <1>1, TreesAre
  <2> QED BY <2>1
<1> HIDE DEF image, tree
<1>5. /\ VersionsOf(image, "config") = {x} /\ VersionsOf(image, "template") = {y}
      /\ VersionsOf(image, "dtspatch") = {z} /\ VersionsOf(tree, "dtspatch") = {z}
  BY <1>2, <1>3 DEF VersionsOf
<1>6. \A i \in Inputs : \E v \in asked[i]..latest[i] : VersionsOf(image, i) = {v}
  BY <1>5 DEF Inputs
<1>7. \A i \in {"dtspatch"} : \E v \in asked[i]..latest[i] : VersionsOf(tree, i) = {v}
  BY <1>5
<1>8. IsFresh(image, asked, Inputs, board) /\ IsFresh(tree, asked, {"dtspatch"}, board)
  BY <1>4, <1>6, <1>7 DEF IsFresh
<1> QED BY <1>8 DEF image, tree

LEMMA MadeIsFresh ==
  ASSUME Typed, Made, goal \in ImageGoals, done = Len(Walk(goal, board))
  PROVE  /\ IsFresh(content[BootImg(goal)], asked, Inputs, board)
         /\ goal = "deploy" => IsFresh(content["dtb.img"], asked, {"dtspatch"}, board)
<1>1. done = 17 /\ board \in Boards /\ \A i \in Inputs : asked[i] \in Nat /\ latest[i] \in Nat
  BY ImageWalk DEF Typed
<1>2. Past(exists, newer, content, latest, asked, board, goal, 17)
  BY <1>1 DEF Made
<1>3. PICK x \in asked["config"]..latest["config"] : content[".config"] = {<<"config", x>>} \cup {}
  BY <1>2 DEF Past, Recent
<1>4. PICK y \in asked["template"]..latest["template"] :
        content["tree"] = {<<"template", y>>} \cup {}
  BY <1>2 DEF Past, Recent
<1>5. PICK z \in asked["dtspatch"]..latest["dtspatch"] :
        content[Dts(board)] = {<<"dtspatch", z>>} \cup {<<Dts(board), 0>>}
  BY <1>2 DEF Past, Recent
<1>6. x \in Nat /\ y \in Nat BY <1>1 DEF Inputs
<1>7. /\ content[BootImg(goal)] = content[".config"] \cup content["tree"] \cup content[Dts(board)]
      /\ goal = "deploy" => content["dtb.img"] = content[Dts(board)]
  BY <1>2 DEF Past
<1>8. content[Dts(board)] = {<<"dtspatch", z>>, <<Dts(board), 0>>} BY <1>5
<1>9. content[BootImg(goal)] =
        {<<"config", x>>, <<"template", y>>, <<"dtspatch", z>>, <<Dts(board), 0>>}
  BY <1>3, <1>4, <1>7, <1>8
<1>10. /\ IsFresh({<<"config", x>>, <<"template", y>>, <<"dtspatch", z>>, <<Dts(board), 0>>},
                  asked, Inputs, board)
       /\ IsFresh({<<"dtspatch", z>>, <<Dts(board), 0>>}, asked, {"dtspatch"}, board)
  BY <1>6, OneOfEach
<1> QED BY <1>7, <1>8, <1>9, <1>10

(* all of it *)
BuildInv ==
  Typed /\ Stamps /\ StampRun /\ Outputs(exists, newer, content, latest) /\ Written /\ Made

LEMMA Building ==
  ASSUME Careful
  PROVE  Spec => []BuildInv
<1>1. Init => BuildInv
  BY InitTyped, InitStamps, InitOutputs DEF BuildInv, Init, Made, ImageGoals
<1>2. BuildInv /\ [Next]_vars => BuildInv'
  <2> SUFFICES ASSUME BuildInv, [Next]_vars PROVE BuildInv'
    OBVIOUS
  <2>1. Typed' /\ Made' /\ Stamps' /\ StampRun' BY NextTyped, NextStamps, NextMade DEF BuildInv
  <2>2. Outputs(exists', newer', content', latest') /\ Written' BY NextOutputs DEF BuildInv
  <2> QED BY <2>1, <2>2 DEF BuildInv
<1> QED BY <1>1, <1>2, PTL DEF Spec

(* When a make of bootfiles ends, the boot image has one version of each input, none
   of them from before the make began, and the device tree of its board.       *)
THEOREM BuiltFresh ==
  ASSUME Careful
  PROVE  Spec => []BuiltIsFresh
<1>1. BuildInv => BuiltIsFresh
  <2> SUFFICES ASSUME BuildInv, Ready("bootfiles")
               PROVE  IsFresh(content["boot.img"], asked, Inputs, board)
    BY DEF BuiltIsFresh
  <2>1. goal = "bootfiles" /\ done = Len(Walk(goal, board)) BY DEF Ready
  <2>2. BootImg(goal) = "boot.img" /\ goal \in ImageGoals BY <2>1 DEF BootImg, ImageGoals
  <2>3. IsFresh(content[BootImg(goal)], asked, Inputs, board)
    BY <2>1, <2>2, MadeIsFresh DEF BuildInv
  <2> QED BY <2>2, <2>3
<1> QED BY <1>1, Building, PTL

(* What deploy puts aside for a board has the same, for every board of the two. *)
THEOREM DeployedFresh ==
  ASSUME Careful
  PROVE  Spec => []DeployedIsFresh
<1>1. BuildInv => DeployedIsFresh
  <2> SUFFICES ASSUME BuildInv, Ready("deploy")
               PROVE  /\ IsFresh(content["kernel.img"], asked, Inputs, board)
                      /\ IsFresh(content["dtb.img"], asked, {"dtspatch"}, board)
    BY DEF DeployedIsFresh
  <2>1. goal = "deploy" /\ done = Len(Walk(goal, board)) BY DEF Ready
  <2>2. BootImg(goal) = "kernel.img" /\ goal \in ImageGoals BY <2>1 DEF BootImg, ImageGoals
  <2>3. /\ IsFresh(content[BootImg(goal)], asked, Inputs, board)
        /\ IsFresh(content["dtb.img"], asked, {"dtspatch"}, board)
    BY <2>1, <2>2, MadeIsFresh DEF BuildInv
  <2> QED BY <2>2, <2>3
<1> QED BY <1>1, Building, PTL
=============================================================================
