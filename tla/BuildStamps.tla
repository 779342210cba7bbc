----------------------------- MODULE BuildStamps -----------------------------
(* The build of a boot image (build/*.mak): make walks targets and stamp files,
   and compares modification times to decide which recipes to run.  A recipe may
   fail at any line, the user tries again, edits what the build reads, configures
   the kernel, cleans it, and deploys the files for more than one board.        *)
EXTENDS Naturals, Sequences, FiniteSetsExt, Functions

CONSTANTS
  MayFail,   \* targets whose recipes may fail
  Goals,     \* what the user asks make for
  Careful,   \* kernel-touch is used on a kernel whose last configuration was taken
  WifiSdio,  \* has the Makefile of the Wi-Fi driver a target bcmdhd_sdio?
  MaxEdits   \* bound on the edits of the inputs

(* the boards that deploy makes files for, one after the other; the second one is
   KERNEL.DTS if nobody says which                                             *)
Boards == {"2G", "3G"}
Inputs == {"config", "template", "dtspatch"}

ASSUME BuildConstants ==
  /\ {WifiSdio, Careful} \subseteq BOOLEAN /\ MaxEdits \in Nat
  /\ Goals \subseteq
       {"deploy", "bootfiles", "menuconfig", "getconfig", "clean", "touch"}

VARIABLES
  exists,    \* the files that exist
  newer,     \* <<f, g>>: f, which make compares with g, was modified after g
  content,   \* the versions of the inputs that went into a file
  latest,    \* the version of each input that the user made last
  applied,   \* number of patches applied to a source tree
  linked,    \* the links of PLATFORM.KERNEL_COPY exist
  goal, board,
  done,      \* number of targets that this make has dealt with
  job, line, \* the target whose recipe runs, and the line that is next
  wifiMade,  \* the Wi-Fi Makefile existed when make read its rules
  deployed,  \* the last make was a deploy that went well
  asked      \* (for the properties) latest when the goal was asked for

files == <<exists, newer, content, latest, applied, linked>>
run == <<goal, board, asked>>
vars == <<files, run, done, job, line, wifiMade, deployed>>

-----------------------------------------------------------------------------
Dts(b) == IF b = "2G" THEN "2g.dts" ELSE "3g.dts"
Dtb(b) == IF b = "2G" THEN "2g.dtb" ELSE "3g.dtb"

(* prerequisites of a target; those that are only for the order are in Walk *)
Prereqs(t, b) ==
  CASE t = ".stamp.patch"   -> {".stamp.copy"}
    [] t = ".stamp.config"  -> {".stamp.patch", "config"}
    [] t \in {"Image.gz", ".stamp.modules"} -> {".stamp.config"}
    [] t \in {"2g.dts", "3g.dts"} -> {"dtspatch"}
    [] t = "2g.dtb"         -> {"2g.dts"}
    [] t = "3g.dtb"         -> {"3g.dts"}
    [] t = "wifi.patch"     -> {"wifi.copy"}
    [] t = "dhd.ko"         -> {"wifi.patch", "Image.gz"}
    [] t = "tree"           -> {"template"}
    [] t = "tree/btusb.ko"  -> {".stamp.modules", "tree"}
    [] t = "tree/dhd.ko"    -> {"dhd.ko", "tree"}
    [] t = "modules.dep"    -> {"tree/btusb.ko", "tree/dhd.ko", "Image.gz"}
    [] t = "initramfs"      -> {"tree", "tree/btusb.ko", "tree/dhd.ko", "modules.dep"}
    [] t \in {"boot.img", "kernel.img"} -> {"Image.gz", "initramfs", Dtb(b)}
    [] t = "dtb.img"        -> {Dtb(b)}
    [] OTHER -> {}

InTree == {"tree/btusb.ko", "tree/dhd.ko", "modules.dep"}
Targets == InTree \cup
  {".stamp.copy", ".stamp.patch", ".stamp.config", "Image.gz", ".stamp.modules",
   "2g.dts", "3g.dts", "2g.dtb", "3g.dtb", "wifi.copy", "wifi.patch", "dhd.ko",
   "tree", "initramfs", "boot.img", "kernel.img", "dtb.img"}
(* BOOTIMG.FILE *)
BootImg(g) == IF g = "deploy" THEN "kernel.img" ELSE "boot.img"
(* the order in which make goes through the targets for a goal, depth first *)
KernelTree == <<".stamp.copy", ".stamp.patch", ".stamp.config">>
Walk(g, b) ==
  CASE g \in {"deploy", "bootfiles"} ->
         KernelTree \o
         <<"Image.gz", "tree", "wifi.copy", "wifi.patch", "dhd.ko", "tree/dhd.ko",
           ".stamp.modules", "tree/btusb.ko", "modules.dep", "initramfs",
           Dts(b), Dtb(b), BootImg(g), "dtb.img">>
    [] g \in {"menuconfig", "getconfig"} -> KernelTree
    [] g = "clean" -> <<"wifi.copy", "wifi.patch">>
    [] OTHER -> <<>>

(* what a recipe reads *)
ReadsDtb(t) == IF t = "2g.dtb" THEN {"2g.dts"} ELSE {"3g.dts"}
Reads(t) ==
  CASE t \in {"Image.gz", ".stamp.modules", "dhd.ko"} -> {".config"}
    [] t \in {"2g.dtb", "3g.dtb"} -> ReadsDtb(t)
    [] t = "tree/btusb.ko" -> {".stamp.modules"}
    [] t = "tree/dhd.ko" -> {"dhd.ko"}
    [] t = "initramfs" -> {"tree", "tree/btusb.ko", "tree/dhd.ko"}
    [] OTHER -> Prereqs(t, board)

Patches(t) == IF t = ".stamp.patch" THEN 2 ELSE 1
(* the number of lines of a recipe: the work, and the touch of the target *)
Lines(t) ==
  CASE t \in {".stamp.copy", ".stamp.config"} -> 3
    [] t \in {".stamp.patch", "wifi.patch"} -> Patches(t) + 1
    [] t \in {"Image.gz", ".stamp.modules", "dhd.ko", "tree", "wifi.copy"} -> 2
    [] OTHER -> 1

-----------------------------------------------------------------------------
(* Modification times matter where make compares two files, or UCOPY copies one *)
Compared(f, g) ==
  (\E b \in Boards : f \in Prereqs(g, b)) \/ <<f, g>> = <<".config", ".stamp.config">>
Touched(e, n, f) ==
  {pair \in n : pair[2] # f} \cup {<<f, t>> : t \in {g \in e : Compared(f, g)}}
Touch(f) == exists' = exists \cup {f} /\ newer' = Touched(exists, newer, f)
Remove(S) ==
  /\ exists' = exists \ S
  /\ newer' = {e \in newer : {e[1], e[2]} \cap S = {}}
Untouched == UNCHANGED <<exists, newer>>
Emptied(S) == [f \in DOMAIN content |-> IF f \in S THEN {} ELSE content[f]]
Of(S) == UNION {content[f] : f \in S}

(* the copied modules depend on kernel-modules, which is phony *)
AlwaysMade(t) == t = "tree/btusb.ko"
Missing(t) == t \notin exists \/ AlwaysMade(t)
OutOfDate(t) ==
  \/ Missing(t)
  \/ \E p \in Prereqs(t, board) : <<p, t>> \in newer

Marks == {"wifi.copy", "2g.dts", "3g.dts"}
Mark(t) == {<<t, 0>>} \cap (Marks \X {0})
Forgotten == [i \in Inputs |-> 0]

TypeOK ==
  /\ exists \subseteq Targets \cup Inputs \cup {".config"}
  /\ \A e \in newer : {e[1], e[2]} \subseteq exists /\ Compared(e[1], e[2])
  /\ \A f \in DOMAIN content : \A e \in content[f] :
       e \in Marks \X {0} \/ (e[1] \in Inputs /\ e[2] <= latest[e[1]])
  /\ \A i \in Inputs : asked[i] <= latest[i]
  /\ applied[".stamp.patch"] \in 0..2 /\ applied["wifi.patch"] \in 0..1
  /\ goal \in Goals \cup {"none"} /\ board \in Boards
  /\ job \in Targets \cup {"none"} /\ line \in 1..3
  /\ done \in 0..Len(Walk(goal, board))
  /\ {linked, wifiMade, deployed} \subseteq BOOLEAN

Init ==
  /\ exists = Inputs /\ newer = {}
  /\ content = [f \in Targets \cup Inputs \cup {".config"} |->
                  IF f \in Inputs THEN {<<f, 0>>} ELSE {}]
  /\ latest = [i \in Inputs |-> 0] /\ asked = Forgotten
  /\ applied = [t \in {".stamp.patch", "wifi.patch"} |-> 0] /\ linked = FALSE
  /\ goal = "none" /\ board = "2G" /\ done = 0 /\ job = "none" /\ line = 1
  /\ wifiMade = FALSE
  /\ deployed = FALSE

-----------------------------------------------------------------------------
Edits == FoldFunction(+, 0, latest)
Configured == ".stamp.config" \in exists /\ <<"config", ".stamp.config">> \notin newer
(* The user asks for a goal.  DEPLOY first removes what an earlier build left *)
LeftBehind == {}
Obsolete == {"kernel.img", "dtb.img"}
RulesNotRead == UNCHANGED wifiMade
ReadRules == wifiMade' = (content["wifi.copy"] # {})
Ask(g) ==
  /\ goal = "none" /\ g \in Goals /\ goal' = g
  /\ board' = IF g = "bootfiles" THEN "3G" ELSE "2G"
  /\ g = "menuconfig" => Edits < MaxEdits
  /\ g = "touch" /\ Careful => Configured
  /\ IF g = "deploy" THEN Remove(Obsolete) /\ content' = Emptied(Obsolete)
     ELSE UNCHANGED <<exists, newer, content>>
  /\ done' = 0 /\ deployed' = FALSE /\ asked' = latest
  /\ ReadRules
  /\ UNCHANGED <<latest, applied, linked, job, line>>

Idle == goal # "none" /\ job = "none"
(* go on to the next target that is out of date, or to the end *)
Consider ==
  LET walk == Walk(goal, board)
      old  == {n \in (done + 1)..Len(walk) : OutOfDate(walk[n])}
  IN /\ Idle /\ done < Len(walk)
     /\ IF old = {} THEN done' = Len(walk) /\ UNCHANGED job
                    ELSE done' = Min(old) - 1 /\ job' = walk[Min(old)]
     /\ UNCHANGED <<files, run, line, wifiMade, deployed>>

-----------------------------------------------------------------------------
(* One line of a recipe.  Commands fail on files that are not there, on a patch
   that is applied already, on a link that exists, and on a rule the driver's
   Makefile has not.                                                           *)
Fails ==
  CASE job = ".stamp.copy" -> line = 2 /\ linked
    [] job \in {".stamp.patch", "wifi.patch"} ->
         line < Lines(job) /\ applied[job] # line - 1
    [] job = "dhd.ko" -> content[".config"] = {} \/ (WifiSdio /\ ~wifiMade)
    [] OTHER -> \E f \in Reads(job) \ {".stamp.patch", ".stamp.copy"} :
                   content[f] = {} /\ f # "modules.dep"

LineBeyond == line > Lines(job)
LastLine == line = Lines(job)
(* stamps exist from their touch on, and other files from the work on *)
IsStamp(t) == t \in {".stamp.copy", ".stamp.patch", ".stamp.config", ".stamp.modules",
                     "wifi.copy", "wifi.patch", "tree"}
Works ==
  line = 1 /\ job \notin {".stamp.copy", ".stamp.patch", ".stamp.config", "wifi.patch"}

(* sed writes .config, and oldconfig writes it again *)
Configures == job = ".stamp.config" /\ line < 3
ContentAfter ==
  IF Configures /\ line = 1
  THEN [content EXCEPT ![".config"] = content["config"]]
  ELSE IF job = "tree" /\ line = 1
  THEN [Emptied(InTree) EXCEPT !["tree"] = content["template"]]
  ELSE IF Works
  THEN [content EXCEPT ![job] = Of(Reads(job)) \cup Mark(job)]
  ELSE content
TimesAfter ==
  IF Configures THEN Touch(".config")
  ELSE IF job = "tree" /\ line = 1 THEN Remove(InTree)
  ELSE IF LastLine \/ (Works /\ ~IsStamp(job)) THEN Touch(job)
  ELSE Untouched

RunLine ==
  /\ job # "none" /\ ~Fails
  /\ content' = ContentAfter /\ TimesAfter
  /\ applied' = IF job \in DOMAIN applied /\ ~LastLine
                THEN [applied EXCEPT ![job] = line] ELSE applied
  /\ linked' = (linked \/ (job = ".stamp.copy" /\ line = 2))
  /\ IF LastLine THEN line' = 1 /\ job' = "none" /\ done' = done + 1
                 ELSE line' = line + 1 /\ UNCHANGED <<job, done>>
  /\ UNCHANGED <<run, latest, wifiMade, deployed>>

(* the end of a make *)
Forget == asked' = Forgotten /\ board' = "2G" /\ wifiMade' = FALSE

(* make ends at a line that fails *)
GiveUp ==
  /\ goal' = "none" /\ job' = "none" /\ line' = 1 /\ done' = 0
  /\ deployed' = FALSE /\ Forget
  /\ UNCHANGED files
CannotRun == job # "none" /\ Fails /\ GiveUp
Break == job \in MayFail /\ ~Fails /\ GiveUp

-----------------------------------------------------------------------------
(* What is left to do when the prerequisites of a goal are made *)
Ready(g) == Idle /\ goal = g /\ done = Len(Walk(g, board))
End(how) ==
  /\ goal' = "none" /\ done' = 0 /\ deployed' = how /\ Forget
  /\ UNCHANGED <<job, line, applied, linked>>

Built == Ready("bootfiles") /\ End(FALSE) /\ UNCHANGED <<exists, newer, content, latest>>

(* the rest of DEPLOY, and the make of the next board *)
Shipped == {"kernel.img", "dtb.img"}
Ship ==
  /\ Ready("deploy")
  /\ Remove(Shipped) /\ content' = Emptied(Shipped)
  /\ UNCHANGED latest
  /\ IF board = "2G"
     THEN /\ board' = "3G" /\ done' = 0 /\ ReadRules
          /\ UNCHANGED <<goal, deployed, asked, job, line, applied, linked>>
     ELSE End(TRUE)

Menuconfig ==
  /\ Ready("menuconfig") /\ End(FALSE)
  /\ latest' = [latest EXCEPT !["config"] = @ + 1]
  /\ content' = [content EXCEPT ![".config"] = {<<"config", latest'["config"]>>}]
  /\ exists' = exists \cup {".config"}
  /\ newer' = Touched(exists, Touched(exists, newer, ".config"), ".stamp.config")

(* UCOPY keeps the time of .config, and does nothing if the text is the same *)
PlainCopy == Touch("config")
Ucopy ==
  /\ newer' = (newer \ {<<"config", ".stamp.config">>}) \cup
       {<<"config", t>> : t \in {g \in exists : <<".config", g>> \in newer}}
  /\ UNCHANGED exists
Getconfig ==
  /\ Ready("getconfig") /\ End(FALSE)
  /\ content' = [content EXCEPT !["config"] = content[".config"]]
  /\ Ucopy \/ (content["config"] = content[".config"] /\ Untouched)
  /\ UNCHANGED latest

(* kernel-clean, after kd-ap6xxx-clean *)
Cleaned == {"Image.gz", ".stamp.modules", "2g.dtb", "3g.dtb", "dhd.ko"}
KernelClean ==
  /\ Ready("clean") /\ ".stamp.copy" \in exists /\ End(FALSE)
  /\ Remove(Cleaned)
  /\ content' = Emptied(Cleaned)
  /\ UNCHANGED latest
NothingThere ==
  /\ Ready("clean") \/ Ready("touch")
  /\ ".stamp.copy" \notin exists
  /\ GiveUp

KernelTouch ==
  /\ Ready("touch") /\ ".stamp.copy" \in exists /\ End(FALSE)
  /\ Touch(".stamp.config")
  /\ UNCHANGED <<content, latest>>

-----------------------------------------------------------------------------
(* The user writes an input, but not while the recipe that reads it runs *)
BeingRead(i) ==
  \/ job \in {t \in Targets : i \in Reads(t)}
  \/ i = "config" /\ goal \in {"menuconfig", "getconfig"}
  \/ i = "config" /\ goal = "touch" /\ Careful
Edit(i) ==
  /\ Edits < MaxEdits /\ ~BeingRead(i)
  /\ latest' = [latest EXCEPT ![i] = @ + 1]
  /\ content' = [content EXCEPT ![i] = {<<i, latest'[i]>>}]
  /\ Touch(i)
  /\ UNCHANGED <<applied, linked, run, done, job, line, wifiMade, deployed>>

Make == Consider \/ RunLine \/ CannotRun
          \/ Built \/ Ship \/ Getconfig \/ KernelClean \/ NothingThere \/ KernelTouch
Next == \/ \E g \in Goals : Ask(g)
        \/ Make \/ Menuconfig \/ Break
        \/ \E i \in Inputs : Edit(i)
Spec == Init /\ [][Next]_vars

(* make goes on, and who has a build that failed tries again *)
FairSpec == Spec /\ WF_vars(Make) /\ WF_vars(Ask("deploy"))

-----------------------------------------------------------------------------
VersionsOf(c, i) == {v \in 0..latest[i] : <<i, v>> \in c}
(* c has one version of each input, none older than when make was asked, and the
   device tree of the board b and of no other                                  *)
IsFresh(c, from, inputs, b) ==
  /\ \A i \in inputs : \E v \in from[i]..latest[i] : VersionsOf(c, i) = {v}
  /\ <<Dts(b), 0>> \in c /\ \A d \in Boards \ {b} : <<Dts(d), 0>> \notin c

(* A boot image that was built has the kernel, the modules, the drivers and the files
   of the last configuration and template, and not a mixture of old and new ones:
   the stamps and order-only prerequisites forget no dependency (kernel.mak). *)
BuiltIsFresh ==
  Ready("bootfiles") => IsFresh(content["boot.img"], asked, Inputs, board)

(* What deploy puts aside for a board has that board's device tree, though all boards
   share the names of the files (DEPLOY in platform.mak).                      *)
DeployedIsFresh ==
  Ready("deploy") =>
    /\ IsFresh(content["kernel.img"], asked, Inputs, board)
    /\ IsFresh(content["dtb.img"], asked, {"dtspatch"}, board)

(* The kernel is configured again only for another configuration, or when that was not
   finished: saving it with kernel-getconfig (UCOPY) or a build that fails later is
   no reason, and configuring makes everything after it be built again.        *)
ConfiguredForCause ==
  [][job' = ".stamp.config" /\ job # job' =>
       \/ content["config"] # content[".config"]
       \/ ".stamp.config" \notin exists
       \/ <<".config", ".stamp.config">> \in newer]_vars

(* After a failure the build can be repeated until it succeeds (README). *)
TryAgain ==
  <>[][~Break]_vars /\ <>[](goal \in {"none", "deploy"}) => []<>(deployed)

=============================================================================
