----------------------------- MODULE VoutServe -----------------------------
(***************************************************************************)
(* The video-output registry of the 4.9 kernel (vout_func.c): the list of  *)
(* output servers of each vout, the current server, the mode switch, and   *)
(* the frame-rate hints that the afr patch turns into uevents.             *)
(*                                                                         *)
(* Every function takes vout_mutex for its whole body, so its locked part  *)
(* is one action.  What a function does outside the mutex is an action of  *)
(* its own: the uevent sent after the unlock, the second and third part of *)
(* vout_func_set_current_vmode, and the list walk of the shutdown, which   *)
(* takes no lock at all.                                                   *)
(*                                                                         *)
(* Every server of the tree has vmode_is_supported, so the branch for one  *)
(* without it is left out.  The list is a set, since the order of its      *)
(* members only decides between servers that support the same mode, and    *)
(* that choice is left open here.  A kernel oops stops the system: `oops'  *)
(* names what happened.                                                    *)
(***************************************************************************)
EXTENDS Naturals, FiniteSets

CONSTANTS Vouts, Servers, Devices, Modes, Rates, Policies, Callers, NULL,
          VoutOf,      \* the vout a server registers with
          DeviceOf,    \* the hardware behind a server; two servers may share it
          NameOf,      \* the server's name
          Supports,    \* the modes a server supports
          HasDev,      \* the servers whose driver fills in vout_server_s.dev
          Calls,       \* the entry points each caller uses
          CallVouts,   \* and the vouts it uses them on
          Booted,      \* the servers bound when the behaviour starts
          BootCurr,    \* the current server of each vout at that time
          MaxUnbind    \* bound: how many drivers are removed

CallKinds == {"mode", "rawmode", "hint", "policy", "power", "shutdown"}

ASSUME VoutConstants ==
  /\ NULL \notin Servers
  /\ Vouts # {}
  /\ VoutOf \in [Servers -> Vouts]
  /\ DeviceOf \in [Servers -> Devices]
  /\ Supports \in [Servers -> SUBSET Modes]
  /\ HasDev \subseteq Servers
  /\ Calls \in [Callers -> SUBSET CallKinds]
  /\ CallVouts \in [Callers -> SUBSET Vouts]
  /\ MaxUnbind \in Nat
  /\ "end" \notin Rates /\ "none" \notin Rates
  /\ "off" \notin Modes

\* What the boot code left behind: the booted servers carry different names
\* and each vout's current server is one of them.
ASSUME VoutBoot ==
  /\ Booted \subseteq Servers
  /\ BootCurr \in [Vouts -> Booted \cup {NULL}]
  /\ \A i \in Vouts : BootCurr[i] # NULL => VoutOf[BootCurr[i]] = i
  /\ \A s, q \in Booted :
       VoutOf[s] = VoutOf[q] /\ NameOf[s] = NameOf[q] => s = q

VARIABLES
  reg,      \* vout_server_list of each vout module
  curr,     \* curr_vout_server of each vout module
  bits,     \* a device's vout_state: the vouts that own it
  lit,      \* the mode a device shows, or "off"
  mux,      \* the device the VIU of a vout is routed to
  policy,   \* the frame-rate policy a server was given
  asleep,   \* servers that were suspended
  drv,      \* each server's driver: "unbound", "bound" or "leaving"
  devs,     \* servers whose struct device exists
  unbinds,
  pc, req,  \* where each caller is, and the request it carries
  told,     \* the last hint a server with a device was given, per vout
  bcast,    \* the last uevent user space received, per vout
  oops

vars == <<reg, curr, bits, lit, mux, policy, asleep, drv, devs, unbinds,
          pc, req, told, bcast, oops>>

display == <<bits, lit, mux>>
modules == <<reg, curr>>
drivers == <<drv, devs, unbinds>>
events == <<told, bcast>>

Messages == Rates \cup {"end", "none"}

Request == [vout : Vouts, mode : Modes \cup {"off"}, msg : Messages,
            srv : Servers \cup {NULL}, todo : SUBSET Servers]

NoRequest(i) == [vout |-> i, mode |-> "off", msg |-> "none",
                 srv |-> NULL, todo |-> {}]
\* the request of a caller that is not in a call
IdleRequest == NoRequest(CHOOSE i \in Vouts : TRUE)

MuxOfServer(s) == s
\* the device the VIU feeds when server s is current
MuxOf(s) == IF s = NULL THEN NULL ELSE DeviceOf[s]

Init ==
  /\ reg = [i \in Vouts |-> {s \in Booted : VoutOf[s] = i}]
  /\ curr = BootCurr
  /\ bits = [d \in Devices |->
               {i \in Vouts : BootCurr[i] # NULL /\ DeviceOf[BootCurr[i]] = d}]
  /\ lit = [d \in Devices |-> "off"]
  /\ mux = [i \in Vouts |-> MuxOf(BootCurr[i])]
  /\ policy = [s \in Servers |-> NULL]
  /\ asleep = {}
  /\ drv = [s \in Servers |-> IF s \in Booted THEN "bound" ELSE "unbound"]
  /\ devs = Booted \cap HasDev
  /\ unbinds = 0
  /\ pc = [c \in Callers |-> "idle"]
  /\ req = [c \in Callers |-> IdleRequest]
  /\ told = [i \in Vouts |-> "none"]
  /\ bcast = [i \in Vouts |-> "none"]
  /\ oops = "none"

Running == oops = "none"
Idle(c, kind) == Running /\ pc[c] = "idle" /\ kind \in Calls[c]
Done(c) == /\ pc' = [pc EXCEPT ![c] = "idle"]
           /\ req' = [req EXCEPT ![c] = IdleRequest]
Goto(c, l) == pc' = [pc EXCEPT ![c] = l]

----------------------------------------------------------------------------
(* The drivers: probe registers the server, remove unregisters it and then *)
(* destroys its device.                                                    *)

NameTakenNever(i, s) == FALSE
NameTaken(i, s) == \E q \in reg[i] : NameOf[q] = NameOf[s]

\* vout_func_vout_register_server: a second server of the same name is
\* refused with -1, which the drivers ignore.
Register(s) ==
  LET i == VoutOf[s] IN
  /\ Running
  /\ drv[s] = "unbound"
  /\ drv' = [drv EXCEPT ![s] = "bound"]
  /\ devs' = IF s \in HasDev THEN devs \cup {s} ELSE devs
  /\ reg' = IF NameTaken(i, s) THEN reg
            ELSE [reg EXCEPT ![i] = @ \cup {s}]
  /\ UNCHANGED <<curr, display, policy, asleep, unbinds, pc, req, events, oops>>

\* the current servers once the servers `same' of vout i are taken off
CurrKept(i, same) == curr
CurrAfterUnregister(i, same) ==
  IF curr[i] \in same THEN [curr EXCEPT ![i] = NULL] ELSE curr

\* vout_func_vout_unregister_server: finds the first server of that name,
\* drops it as current, and takes the caller's node off the list; a node
\* that is on no list is an oops in list_del.
Unregister(s) ==
  LET i == VoutOf[s]
      same == {q \in reg[i] : NameOf[q] = NameOf[s]} IN
  /\ Running
  /\ drv[s] = "bound"
  /\ unbinds < MaxUnbind
  /\ unbinds' = unbinds + 1
  /\ drv' = [drv EXCEPT ![s] = "leaving"]
  /\ curr' = CurrAfterUnregister(i, same)
  /\ reg' = IF same = {} THEN reg ELSE [reg EXCEPT ![i] = @ \ {s}]
  /\ oops' = IF same # {} /\ s \notin reg[i] THEN "list_del" ELSE oops
  /\ UNCHANGED <<display, policy, asleep, devs, pc, req, events>>

\* the rest of the driver's remove: device_destroy
DestroyDev(s) ==
  /\ Running
  /\ drv[s] = "leaving"
  /\ drv' = [drv EXCEPT ![s] = "unbound"]
  /\ devs' = devs \ {s}
  /\ UNCHANGED <<modules, display, policy, asleep, unbinds, pc, req, events, oops>>

----------------------------------------------------------------------------
(* Mode switch: validate_vmode, then set_state, update_viu and set_vmode,  *)
(* each under the mutex and none under the same hold of it.                *)

\* the servers of vout i that validate_vmode asks: not owned by another vout
Askable(i) == {s \in reg[i] : bits[DeviceOf[s]] \subseteq {i}}

OffersAny(i, m) == TRUE
Offers(i, m) == \E s \in Askable(i) : m \in Supports[s]

\* vout_func_validate_vmode: VMODE_MAX when no askable server knows the mode
Validate(c) ==
  /\ Idle(c, "mode")
  /\ \E i \in CallVouts[c], m \in Modes :
       /\ Offers(i, m)
       /\ req' = [req EXCEPT ![c] = [NoRequest(i) EXCEPT !.mode = m]]
  /\ Goto(c, "set_state")
  /\ UNCHANGED <<modules, display, policy, asleep, drivers, events, oops>>

\* set_vout_init and the like hand in a mode that nothing validated
StartRaw(c) ==
  /\ Idle(c, "rawmode")
  /\ \E i \in CallVouts[c], m \in Modes :
       req' = [req EXCEPT ![c] = [NoRequest(i) EXCEPT !.mode = m]]
  /\ Goto(c, "set_state")
  /\ UNCHANGED <<modules, display, policy, asleep, drivers, events, oops>>

FittingAny(i, m) == reg[i]
Fitting(i, m) == {s \in reg[i] : m \in Supports[s]}
Others(i, m) == {s \in reg[i] : m \notin Supports[s]}

\* the state of device d after vout_func_set_state(i, m)
BitsAfter(i, m, d) ==
  IF d \in {DeviceOf[s] : s \in Fitting(i, m)} THEN bits[d] \cup {i}
  ELSE IF d \in {DeviceOf[s] : s \in Others(i, m)} THEN bits[d] \ {i}
  ELSE bits[d]

\* the devices vout_func_set_state(i, m) switches off
DisabledAll(i, m) == {DeviceOf[s] : s \in Others(i, m)}
Disabled(i, m) == {DeviceOf[s] : s \in {q \in Others(i, m) : i \in bits[DeviceOf[q]]}}

\* what can be current after it: the last supporting server of the list, or
\* the old one when there is none
Candidates(i, m) == IF Fitting(i, m) = {} THEN {curr[i]} ELSE Fitting(i, m)

\* what vout_func_set_current_vmode calls next
AfterSetStateSkip == "set_vmode"
AfterSetState == "update_viu"

\* vout_func_set_state: every server that supports the mode becomes current
\* in turn, the others are disabled if this vout owned them
SetState(c) ==
  LET i == req[c].vout  m == req[c].mode IN
  /\ Running
  /\ pc[c] = "set_state"
  /\ \E s \in Candidates(i, m) : curr' = [curr EXCEPT ![i] = s]
  /\ bits' = [d \in Devices |-> BitsAfter(i, m, d)]
  /\ lit' = [d \in Devices |-> IF d \in Disabled(i, m) THEN "off" ELSE lit[d]]
  /\ Goto(c, AfterSetState)
  /\ UNCHANGED <<reg, mux, policy, asleep, drivers, req, events, oops>>

\* vout_func_update_viu
UpdateViu(c) ==
  LET i == req[c].vout IN
  /\ Running
  /\ pc[c] = "update_viu"
  /\ mux' = [mux EXCEPT ![i] = MuxOf(curr[i])]
  /\ Goto(c, "set_vmode")
  /\ UNCHANGED <<modules, bits, lit, policy, asleep, drivers, req, events, oops>>

\* vout_func_set_vmode: uses curr_vout_server without looking at it
SetVmode(c) ==
  LET s == curr[req[c].vout] IN
  /\ Running
  /\ pc[c] = "set_vmode"
  /\ IF s = NULL
     THEN oops' = "set_vmode" /\ lit' = lit
     ELSE oops' = oops /\ lit' = [lit EXCEPT ![DeviceOf[s]] = req[c].mode]
  /\ Done(c)
  /\ UNCHANGED <<modules, bits, mux, policy, asleep, drivers, events>>

----------------------------------------------------------------------------
(* Frame-rate hints and their uevents.                                     *)

\* The locked part of vout_func_set_vframe_rate_hint and of
\* vout_func_set_vframe_rate_end_hint: the current server's operation runs
\* and the pointer is kept for after the unlock.
Hint(c) ==
  /\ Idle(c, "hint")
  /\ \E i \in CallVouts[c], msg \in Rates \cup {"end"} :
       /\ req' = [req EXCEPT ![c] =
                    [NoRequest(i) EXCEPT !.msg = msg, !.srv = curr[i]]]
       /\ told' = IF curr[i] \in HasDev THEN [told EXCEPT ![i] = msg] ELSE told
  /\ Goto(c, "uevent")
  /\ UNCHANGED <<modules, display, policy, asleep, drivers, bcast, oops>>

\* the uevents received once one is sent for server s
BcastAfter(s, i, msg) == IF s \in devs THEN [bcast EXCEPT ![i] = msg] ELSE bcast

\* the server whose device sends it: the pointer read under the mutex
UeventServerReread(c) == curr[req[c].vout]
UeventServer(c) == req[c].srv

\* the code after the unlock: p_server->dev, then kobject_uevent_env on it
Uevent(c) ==
  LET s == UeventServer(c) IN
  /\ Running
  /\ pc[c] = "uevent"
  /\ oops' = IF s = NULL THEN "null_server"
             ELSE IF s \in HasDev \ devs THEN "freed_device" ELSE oops
  /\ bcast' = BcastAfter(s, req[c].vout, req[c].msg)
  /\ Done(c)
  /\ UNCHANGED <<modules, display, policy, asleep, drivers, told>>

----------------------------------------------------------------------------
(* The calls that only reach through to the current server.                *)

\* vout_func_set_vframe_rate_policy
SetPolicy(c) ==
  /\ Idle(c, "policy")
  /\ \E i \in CallVouts[c], p \in Policies :
       policy' = IF curr[i] = NULL THEN policy ELSE [policy EXCEPT ![curr[i]] = p]
  /\ UNCHANGED <<modules, display, asleep, drivers, pc, req, events, oops>>

\* vout_func_vout_suspend
Suspend(c) ==
  /\ Idle(c, "power")
  /\ \E i \in CallVouts[c] : asleep' = asleep \cup ({curr[i]} \ {NULL})
  /\ UNCHANGED <<modules, display, policy, drivers, pc, req, events, oops>>

\* vout_func_vout_resume
Resume(c) ==
  /\ Idle(c, "power")
  /\ \E i \in CallVouts[c] : asleep' = asleep \ {curr[i]}
  /\ UNCHANGED <<modules, display, policy, drivers, pc, req, events, oops>>

\* vout_func_vout_shutdown walks the list without the mutex.  A server added
\* meanwhile goes to the head, behind the walk.
StartShutdown(c) ==
  /\ Idle(c, "shutdown")
  /\ \E i \in CallVouts[c] :
       \E s \in reg[i] :
         req' = [req EXCEPT ![c] =
                   [NoRequest(i) EXCEPT !.srv = s, !.todo = reg[i] \ {s}]]
  /\ Goto(c, "shutdown")
  /\ UNCHANGED <<modules, display, policy, asleep, drivers, events, oops>>

\* The server under the cursor is shut down and the cursor moves to the next
\* one through its list node, which list_del poisons.
Shutdown(c) ==
  LET i == req[c].vout  s == req[c].srv
      left == req[c].todo \cap reg[i] IN
  /\ Running
  /\ pc[c] = "shutdown"
  /\ lit' = [lit EXCEPT ![DeviceOf[s]] = "off"]
  /\ IF s \notin reg[i]
     THEN oops' = "list_walk" /\ Done(c)
     ELSE /\ oops' = oops
          /\ IF left = {} THEN Done(c)
             ELSE /\ pc' = pc
                  /\ \E q \in left :
                       req' = [req EXCEPT ![c].srv = q, ![c].todo = left \ {q}]
  /\ UNCHANGED <<modules, bits, mux, policy, asleep, drivers, events>>

----------------------------------------------------------------------------
CallerStep(c) ==
  \/ Validate(c) \/ StartRaw(c) \/ SetState(c) \/ UpdateViu(c) \/ SetVmode(c)
  \/ Hint(c) \/ Uevent(c)
  \/ SetPolicy(c) \/ Suspend(c) \/ Resume(c)
  \/ StartShutdown(c) \/ Shutdown(c)

DriverStep(s) == Register(s) \/ Unregister(s) \/ DestroyDev(s)

Next == (\E c \in Callers : CallerStep(c)) \/ (\E s \in Servers : DriverStep(s))

Spec == Init /\ [][Next]_vars

----------------------------------------------------------------------------
(* Properties.                                                             *)

TypeOK ==
  /\ reg \in [Vouts -> SUBSET Servers]
  /\ curr \in [Vouts -> Servers \cup {NULL}]
  /\ bits \in [Devices -> SUBSET Vouts]
  /\ lit \in [Devices -> Modes \cup {"off"}]
  /\ mux \in [Vouts -> Devices \cup {NULL}]
  /\ policy \in [Servers -> Policies \cup {NULL}]
  /\ asleep \subseteq Servers
  /\ drv \in [Servers -> {"unbound", "bound", "leaving"}]
  /\ devs \subseteq HasDev
  /\ unbinds \in 0..MaxUnbind
  /\ pc \in [Callers -> {"idle", "set_state", "update_viu", "set_vmode",
                         "uevent", "shutdown"}]
  /\ req \in [Callers -> Request]
  /\ told \in [Vouts -> Messages]
  /\ bcast \in [Vouts -> Messages]
  /\ oops \in {"none", "list_del", "set_vmode", "null_server",
               "freed_device", "list_walk"}

\* The current server is on its vout's list: whatever drivers come and go
\* while modes are switched, no call is ever routed to a server that left.
CurrRegistered == \A i \in Vouts : curr[i] # NULL => curr[i] \in reg[i]

\* No two servers of a vout carry the same name, so unregistering by name
\* finds the server that asked for it.
UniqueNames ==
  \A i \in Vouts : \A s, q \in reg[i] : NameOf[s] = NameOf[q] => s = q

\* The current server's struct device exists: only the pointer kept across
\* the unlock can outlive it.
CurrHasDevice == \A i \in Vouts : curr[i] \in HasDev => curr[i] \in devs

Switching(i) == \E c \in Callers :
  pc[c] \in {"update_viu", "set_vmode"} /\ req[c].vout = i

\* Between mode switches the VIU of a vout feeds the device of its current
\* server (update_viu reads the server again, under a second hold of the lock).
MuxFollowsCurr ==
  \A i \in Vouts : Switching(i) \/ mux[i] = MuxOf(curr[i])

\* A device only ever shows a mode that one of its servers supports, although
\* set_vmode picks the server anew after set_state chose it.
LitSupported ==
  \A d \in Devices :
    lit[d] # "off" => \E s \in Servers : DeviceOf[s] = d /\ lit[d] \in Supports[s]

\* A mode switch changes the picture only on devices that its vout owned, so
\* neither the disabling loop of set_state nor the late look-up of the current
\* server in set_vmode ever reaches into a picture of the other vout alone.
PictureOwned ==
  [][\A c \in Callers, d \in Devices :
       (SetState(c) \/ SetVmode(c)) /\ lit'[d] # lit[d]
         => req[c].vout \in bits[d]]_vars

\* What afrd heard last is what the output was told last, as soon as the call
\* is over: no hint is lost or overtaken when one client serves a vout.
BroadcastAgrees ==
  \A i \in Vouts :
    \/ \E c \in Callers : pc[c] = "uevent" /\ req[c].vout = i
    \/ bcast[i] = told[i]

\* No call crashes the kernel while the boards' drivers stay: no hold of the lock
\* finds the current server gone that the hold before it left (set_vmode and the
\* code after the unlock of a hint use the pointer without a test).
NoOops == oops = "none"

\* At most one vout owns a device: "server %s is actived by another vout"
\* is what validate_vmode looks for before it offers a server.
DeviceExclusive == \A d \in Devices : Cardinality(bits[d]) <= 1

============================================================================
