-------------------------- MODULE VoutServeProofs --------------------------
(***************************************************************************)
(* Theorems about the output registry, for any set of vouts, servers,      *)
(* devices, modes and callers, and however often drivers come and go.      *)
(*                                                                         *)
(* CurrRegistered, UniqueNames and CurrHasDevice are not inductive alone:  *)
(* removing a server from a list says nothing unless a listed server is    *)
(* known to belong to a bound driver.  Listed adds that.                   *)
(*                                                                         *)
(* The mixer, the modes shown, the uevents and the freedom from crashes    *)
(* depend on what the callers do.  Those conditions are operators here,    *)
(* and hypotheses of the theorems that need them.                          *)
(***************************************************************************)
EXTENDS VoutServe, TLAPS

\* A listed server is on the list of its own vout, its driver is bound, and
\* the device the driver made for it is there.
Listed ==
  \A i \in Vouts : \A s \in reg[i] :
    /\ VoutOf[s] = i
    /\ drv[s] = "bound"
    /\ s \in HasDev => s \in devs

IInv == TypeOK /\ Listed /\ CurrRegistered /\ UniqueNames

\* A request made for a vout is well formed: what each entry point of the
\* registry hands to its later steps.
LEMMA RequestType ==
  ASSUME NEW i \in Vouts, NEW m \in Modes \cup {"off"}, NEW msg \in Messages,
         NEW s \in Servers \cup {NULL}, NEW todo \in SUBSET Servers
  PROVE  /\ [NoRequest(i) EXCEPT !.mode = m] \in Request
         /\ [NoRequest(i) EXCEPT !.msg = msg, !.srv = s] \in Request
         /\ [NoRequest(i) EXCEPT !.srv = s, !.todo = todo] \in Request
         /\ NoRequest(i) \in Request
BY DEF NoRequest, Request, Messages

LEMMA IdleRequestType == IdleRequest \in Request
<1>1. (CHOOSE i \in Vouts : TRUE) \in Vouts
  BY VoutConstants
<1> QED
  BY <1>1 DEF IdleRequest, NoRequest, Request, Messages

\* vout_func_set_state leaves the state words, the picture and the current
\* server well typed, and picks the current server from the list.
LEMMA SetStateType ==
  ASSUME TypeOK, NEW c \in Callers, SetState(c)
  PROVE  TypeOK'
<1> DEFINE i == req[c].vout
           m == req[c].mode
<1>1. i \in Vouts
  BY DEF TypeOK, Request
<1>2. Candidates(i, m) \subseteq Servers \cup {NULL}
  BY <1>1 DEF TypeOK, Candidates, Fitting
<1>3. curr' \in [Vouts -> Servers \cup {NULL}]
  BY <1>1, <1>2 DEF TypeOK, SetState
<1>4. \A d \in Devices : BitsAfter(i, m, d) \subseteq Vouts
  BY <1>1 DEF TypeOK, BitsAfter
<1>5. bits' \in [Devices -> SUBSET Vouts]
  BY <1>4 DEF SetState
<1>6. lit' \in [Devices -> Modes \cup {"off"}]
  BY DEF TypeOK, SetState
<1>7. pc' = [pc EXCEPT ![c] = "update_viu"]
  BY DEF SetState, Goto, AfterSetState
<1> QED
  BY <1>3, <1>5, <1>6, <1>7 DEF TypeOK, SetState, drivers, events

\* The walk of vout_func_vout_shutdown.
LEMMA ShutdownType ==
  ASSUME TypeOK, NEW c \in Callers, Shutdown(c)
  PROVE  TypeOK'
<1> DEFINE i == req[c].vout
           s == req[c].srv
           left == req[c].todo \cap reg[i]
<1>1. req[c] \in Request
  BY DEF TypeOK
<1>2. lit' \in [Devices -> Modes \cup {"off"}]
  BY DEF TypeOK, Shutdown
<1>3. left \subseteq Servers
  BY <1>1 DEF Request
<1>4. ASSUME NEW q \in left
      PROVE  [req EXCEPT ![c].srv = q, ![c].todo = left \ {q}]
               \in [Callers -> Request]
  <2>1. [req[c] EXCEPT !.srv = q, !.todo = left \ {q}] \in Request
    BY <1>1, <1>3, <1>4 DEF Request
  <2> QED
    BY <2>1 DEF TypeOK
<1>5. pc' \in [Callers -> {"idle", "set_state", "update_viu", "set_vmode",
                            "uevent", "shutdown"}]
  BY DEF TypeOK, Shutdown, Done
<1>6. req' \in [Callers -> Request]
  <2>1. CASE s \notin reg[i] \/ left = {}
    BY <2>1, IdleRequestType DEF Shutdown, Done, TypeOK
  <2>2. CASE s \in reg[i] /\ left # {}
    BY <2>2, <1>4 DEF Shutdown
  <2> QED
    BY <2>1, <2>2
<1>7. oops' \in {"none", "list_walk", oops}
  BY DEF Shutdown
<1> QED
  BY <1>2, <1>5, <1>6, <1>7 DEF TypeOK, Shutdown, modules, drivers, events

LEMMA TypeInductive == TypeOK /\ [Next]_vars => TypeOK'
<1> SUFFICES ASSUME TypeOK, [Next]_vars PROVE TypeOK'
  OBVIOUS
<1> USE VoutConstants
<1>1. ASSUME NEW s \in Servers, Register(s) PROVE TypeOK'
  <2>1. VoutOf[s] \in Vouts
    OBVIOUS
  <2>2. reg' \in [Vouts -> SUBSET Servers]
    BY <1>1, <2>1 DEF Register, TypeOK
  <2>3. devs' \subseteq HasDev
    BY <1>1 DEF Register, TypeOK
  <2> QED
    BY <1>1, <2>2, <2>3 DEF Register, TypeOK, display, events
<1>2. ASSUME NEW s \in Servers, Unregister(s) PROVE TypeOK'
  <2>1. reg' \in [Vouts -> SUBSET Servers]
    BY <1>2 DEF Unregister, TypeOK
  <2>2. curr' \in [Vouts -> Servers \cup {NULL}]
    BY <1>2 DEF Unregister, TypeOK, CurrAfterUnregister
  <2>3. unbinds' \in 0..MaxUnbind
    BY <1>2 DEF Unregister, TypeOK
  <2>4. oops' \in {"list_del", oops}
    BY <1>2 DEF Unregister
  <2> QED
    BY <1>2, <2>1, <2>2, <2>3, <2>4 DEF Unregister, TypeOK, display, events
<1>3. ASSUME NEW s \in Servers, DestroyDev(s) PROVE TypeOK'
  BY <1>3 DEF DestroyDev, TypeOK, modules, display, events
<1>4. ASSUME NEW c \in Callers, Validate(c) PROVE TypeOK'
  <2>1. PICK i \in CallVouts[c], m \in Modes :
          req' = [req EXCEPT ![c] = [NoRequest(i) EXCEPT !.mode = m]]
    BY <1>4 DEF Validate
  <2>2. i \in Vouts
    OBVIOUS
  <2>3. req' \in [Callers -> Request]
    BY <2>1, <2>2, RequestType DEF TypeOK
  <2> QED
    BY <1>4, <2>3 DEF Validate, Goto, TypeOK, modules, display, drivers, events
<1>5. ASSUME NEW c \in Callers, StartRaw(c) PROVE TypeOK'
  <2>1. PICK i \in CallVouts[c], m \in Modes :
          req' = [req EXCEPT ![c] = [NoRequest(i) EXCEPT !.mode = m]]
    BY <1>5 DEF StartRaw
  <2>2. i \in Vouts
    OBVIOUS
  <2>3. req' \in [Callers -> Request]
    BY <2>1, <2>2, RequestType DEF TypeOK
  <2> QED
    BY <1>5, <2>3 DEF StartRaw, Goto, TypeOK, modules, display, drivers, events
<1>6. ASSUME NEW c \in Callers, SetState(c) PROVE TypeOK'
  BY <1>6, SetStateType
<1>7. ASSUME NEW c \in Callers, UpdateViu(c) PROVE TypeOK'
  <2>1. req[c].vout \in Vouts
    BY DEF TypeOK, Request
  <2>2. mux' \in [Vouts -> Devices \cup {NULL}]
    BY <1>7, <2>1 DEF UpdateViu, TypeOK, MuxOf
  <2> QED
    BY <1>7, <2>2 DEF UpdateViu, Goto, TypeOK, modules, drivers, events
<1>8. ASSUME NEW c \in Callers, SetVmode(c) PROVE TypeOK'
  <2>1. req[c].mode \in Modes \cup {"off"}
    BY DEF TypeOK, Request
  <2>2. lit' \in [Devices -> Modes \cup {"off"}]
    BY <1>8, <2>1 DEF SetVmode, TypeOK
  <2>3. oops' \in {"set_vmode", oops}
    BY <1>8 DEF SetVmode
  <2>4. req' \in [Callers -> Request]
    BY <1>8, IdleRequestType DEF SetVmode, Done, TypeOK
  <2> QED
    BY <1>8, <2>2, <2>3, <2>4 DEF SetVmode, Done, TypeOK, modules, drivers, events
<1>9. ASSUME NEW c \in Callers, Hint(c) PROVE TypeOK'
  <2>1. PICK i \in CallVouts[c], msg \in Rates \cup {"end"} :
          /\ req' = [req EXCEPT ![c] =
                       [NoRequest(i) EXCEPT !.msg = msg, !.srv = curr[i]]]
          /\ told' = IF curr[i] \in HasDev
                     THEN [told EXCEPT ![i] = msg] ELSE told
    BY <1>9 DEF Hint
  <2>2. i \in Vouts /\ msg \in Messages
    BY DEF Messages
  <2>3. [NoRequest(i) EXCEPT !.msg = msg, !.srv = curr[i]] \in Request
    BY <2>2, RequestType DEF TypeOK
  <2>4. req' \in [Callers -> Request]
    BY <2>1, <2>3 DEF TypeOK
  <2>5. told' \in [Vouts -> Messages]
    BY <2>1, <2>2 DEF TypeOK
  <2> QED
    BY <1>9, <2>4, <2>5 DEF Hint, Goto, TypeOK, modules, display, drivers
<1>10. ASSUME NEW c \in Callers, Uevent(c) PROVE TypeOK'
  <2>1. req[c] \in Request
    BY DEF TypeOK
  <2>2. bcast' \in [Vouts -> Messages]
    BY <1>10, <2>1 DEF Uevent, BcastAfter, TypeOK, Request
  <2>3. oops' \in {"null_server", "freed_device", oops}
    BY <1>10 DEF Uevent
  <2>4. req' \in [Callers -> Request]
    BY <1>10, IdleRequestType DEF Uevent, Done, TypeOK
  <2> QED
    BY <1>10, <2>2, <2>3, <2>4 DEF Uevent, Done, TypeOK, modules, display, drivers
<1>11. ASSUME NEW c \in Callers, SetPolicy(c) PROVE TypeOK'
  <2>1. policy' \in [Servers -> Policies \cup {NULL}]
    BY <1>11 DEF SetPolicy, TypeOK
  <2> QED
    BY <1>11, <2>1 DEF SetPolicy, TypeOK, modules, display, drivers, events
<1>12. ASSUME NEW c \in Callers, Suspend(c) \/ Resume(c) PROVE TypeOK'
  <2>1. asleep' \subseteq Servers
    BY <1>12 DEF Suspend, Resume, TypeOK
  <2> QED
    BY <1>12, <2>1 DEF Suspend, Resume, TypeOK, modules, display, drivers, events
<1>13. ASSUME NEW c \in Callers, StartShutdown(c) PROVE TypeOK'
  <2>0. PICK i \in CallVouts[c] : \E s \in reg[i] :
          req' = [req EXCEPT ![c] =
                    [NoRequest(i) EXCEPT !.srv = s, !.todo = reg[i] \ {s}]]
    BY <1>13 DEF StartShutdown
  <2>1. PICK s \in reg[i] :
          req' = [req EXCEPT ![c] =
                    [NoRequest(i) EXCEPT !.srv = s, !.todo = reg[i] \ {s}]]
    BY <2>0
  <2>2. i \in Vouts /\ s \in Servers /\ reg[i] \ {s} \subseteq Servers
    BY DEF TypeOK
  <2>3. [NoRequest(i) EXCEPT !.srv = s, !.todo = reg[i] \ {s}] \in Request
    BY <2>2 DEF NoRequest, Request, Messages
  <2>4. req' \in [Callers -> Request]
    BY <2>1, <2>3 DEF TypeOK
  <2> QED
    BY <1>13, <2>4 DEF StartShutdown, Goto, TypeOK, modules, display, drivers, events
<1>14. ASSUME NEW c \in Callers, Shutdown(c) PROVE TypeOK'
  BY <1>14, ShutdownType
<1>15. CASE UNCHANGED vars
  BY <1>15 DEF TypeOK, vars, modules, display, drivers, events
<1> QED
  BY <1>1, <1>2, <1>3, <1>4, <1>5, <1>6, <1>7, <1>8, <1>9, <1>10, <1>11,
     <1>12, <1>13, <1>14, <1>15 DEF Next, CallerStep, DriverStep

LEMMA TypeInit == Init => TypeOK
<1> SUFFICES ASSUME Init PROVE TypeOK
  OBVIOUS
<1> USE VoutConstants, VoutBoot
<1>1. req \in [Callers -> Request]
  BY IdleRequestType DEF Init
<1>2. mux \in [Vouts -> Devices \cup {NULL}]
  BY DEF Init, MuxOf
<1> QED
  BY <1>1, <1>2 DEF Init, TypeOK, Messages

\* Type correctness of the registry, for any constants.
THEOREM TypeCorrect == Spec => []TypeOK
BY TypeInit, TypeInductive, PTL DEF Spec

----------------------------------------------------------------------------
(* The registry's lists and its current servers.                           *)

LEMMA RegistryInit == Init => Listed /\ CurrRegistered /\ UniqueNames
<1> SUFFICES ASSUME Init PROVE Listed /\ CurrRegistered /\ UniqueNames
  OBVIOUS
<1>1. Listed
  BY VoutBoot DEF Init, Listed
<1>2. CurrRegistered
  <2> SUFFICES ASSUME NEW i \in Vouts, BootCurr[i] # NULL
               PROVE  BootCurr[i] \in Booted /\ VoutOf[BootCurr[i]] = i
    BY DEF Init, CurrRegistered
  <2> QED
    BY VoutBoot
<1>3. UniqueNames
  BY VoutBoot DEF Init, UniqueNames
<1> QED
  BY <1>1, <1>2, <1>3

\* A bound driver that is not on its own vout's list is on no list, so
\* unregistering leaves no list pointing to it.
LEMMA UnregisterRemoves ==
  ASSUME IInv, NEW s \in Servers, Unregister(s)
  PROVE  /\ \A i \in Vouts : reg'[i] \subseteq reg[i] \ {s}
         /\ \A i \in Vouts : curr'[i] \in {curr[i], NULL} \ {s}
         /\ \A i \in Vouts : reg[i] \ {s} \subseteq reg'[i]
<1> DEFINE j == VoutOf[s]
           same == {q \in reg[j] : NameOf[q] = NameOf[s]}
<1>1. j \in Vouts /\ reg \in [Vouts -> SUBSET Servers] /\ s # NULL
  BY VoutConstants DEF IInv, TypeOK
<1>2. s \in reg[j] => s \in same
  OBVIOUS
<1>3. \A i \in Vouts : s \in reg[i] => i = j
  BY DEF IInv, Listed
<1>4. reg' = IF same = {} THEN reg ELSE [reg EXCEPT ![j] = @ \ {s}]
  BY DEF Unregister
<1>5. curr' = IF curr[j] \in same THEN [curr EXCEPT ![j] = NULL] ELSE curr
  BY DEF Unregister, CurrAfterUnregister
<1>6. \A i \in Vouts : reg'[i] = reg[i] \ {s}
  BY <1>1, <1>2, <1>3, <1>4
<1>7. \A i \in Vouts : curr[i] = s => i = j /\ s \in same
  BY <1>1, <1>2, <1>3 DEF IInv, CurrRegistered
<1>8. \A i \in Vouts : curr'[i] \in {curr[i], NULL} \ {s}
  BY <1>1, <1>5, <1>7 DEF IInv, TypeOK
<1> QED
  BY <1>6, <1>8

LEMMA RegistryInductive == IInv /\ [Next]_vars => IInv'
<1> SUFFICES ASSUME IInv, [Next]_vars PROVE (Listed /\ CurrRegistered /\ UniqueNames)'
  BY TypeInductive DEF IInv
<1>1. ASSUME NEW s \in Servers, Register(s)
      PROVE  (Listed /\ CurrRegistered /\ UniqueNames)'
  <2> DEFINE j == VoutOf[s]
  <2>1. j \in Vouts /\ reg \in [Vouts -> SUBSET Servers]
    BY VoutConstants DEF IInv, TypeOK
  <2>2. \A i \in Vouts : reg[i] \subseteq reg'[i]
    BY <1>1, <2>1 DEF Register
  <2>3. \A i \in Vouts : \A q \in reg'[i] : q \in reg[i] \/ (q = s /\ i = j)
    BY <1>1, <2>1 DEF Register
  <2>4. drv'[s] = "bound" /\ (s \in HasDev => s \in devs')
    BY <1>1 DEF Register, IInv, TypeOK
  <2>5. \A q \in Servers : drv[q] = "bound" => drv'[q] = "bound"
    BY <1>1 DEF Register, IInv, TypeOK
  <2>6. devs \subseteq devs' /\ curr' = curr
    BY <1>1 DEF Register
  <2>7. Listed'
    BY <2>1, <2>3, <2>4, <2>5, <2>6 DEF IInv, Listed
  <2>8. CurrRegistered'
    BY <2>2, <2>6 DEF IInv, CurrRegistered
  <2>9. CASE NameTaken(j, s)
    BY <1>1, <2>7, <2>8, <2>9 DEF Register, IInv, UniqueNames
  <2>10. CASE ~NameTaken(j, s)
    <3>1. \A q \in reg[j] : NameOf[q] # NameOf[s]
      BY <2>10 DEF NameTaken
    <3> QED
      BY <2>3, <2>7, <2>8, <3>1 DEF IInv, UniqueNames
  <2> QED
    BY <2>9, <2>10
<1>2. ASSUME NEW s \in Servers, Unregister(s)
      PROVE  (Listed /\ CurrRegistered /\ UniqueNames)'
  <2>1. \A i \in Vouts : reg'[i] \subseteq reg[i] \ {s}
    BY <1>2, UnregisterRemoves
  <2>2. \A i \in Vouts : curr'[i] \in {curr[i], NULL} \ {s}
    BY <1>2, UnregisterRemoves
  <2>3. \A i \in Vouts : reg[i] \ {s} \subseteq reg'[i]
    BY <1>2, UnregisterRemoves
  <2>4. devs' = devs /\ \A q \in Servers \ {s} : drv'[q] = drv[q]
    BY <1>2 DEF Unregister, IInv, TypeOK
  <2>5. Listed'
    BY <2>1, <2>4 DEF IInv, TypeOK, Listed
  <2>6. CurrRegistered'
    BY <2>2, <2>3 DEF IInv, CurrRegistered
  <2>7. UniqueNames'
    BY <2>1 DEF IInv, UniqueNames
  <2> QED
    BY <2>5, <2>6, <2>7
<1>3. ASSUME NEW s \in Servers, DestroyDev(s)
      PROVE  (Listed /\ CurrRegistered /\ UniqueNames)'
  <2>1. reg' = reg /\ curr' = curr /\ devs' = devs \ {s}
    BY <1>3 DEF DestroyDev, modules
  <2>2. \A i \in Vouts : s \notin reg[i]
    BY <1>3 DEF DestroyDev, IInv, Listed
  <2>3. \A q \in Servers \ {s} : drv'[q] = drv[q]
    BY <1>3 DEF DestroyDev, IInv, TypeOK
  <2> QED
    BY <2>1, <2>2, <2>3 DEF IInv, TypeOK, Listed, CurrRegistered, UniqueNames
<1>4. ASSUME NEW c \in Callers, SetState(c)
      PROVE  (Listed /\ CurrRegistered /\ UniqueNames)'
  <2> DEFINE i == req[c].vout
             m == req[c].mode
  <2>1. i \in Vouts
    BY DEF IInv, TypeOK, Request
  <2>2. PICK s \in Candidates(i, m) : curr' = [curr EXCEPT ![i] = s]
    BY <1>4 DEF SetState
  <2>3. s # NULL => s \in reg[i]
    BY <2>1, <2>2 DEF Candidates, Fitting, IInv, CurrRegistered
  <2>4. reg' = reg /\ drv' = drv /\ devs' = devs
    BY <1>4 DEF SetState, drivers
  <2>5. CurrRegistered'
    BY <2>1, <2>2, <2>3, <2>4 DEF IInv, TypeOK, CurrRegistered
  <2> QED
    BY <2>4, <2>5 DEF IInv, Listed, UniqueNames
<1>5. CASE UNCHANGED <<reg, curr, drv, devs>>
  BY <1>5 DEF IInv, Listed, CurrRegistered, UniqueNames
<1>6. ASSUME NEW c \in Callers, CallerStep(c), ~SetState(c)
      PROVE  UNCHANGED <<reg, curr, drv, devs>>
  BY <1>6 DEF CallerStep, Validate, StartRaw, UpdateViu, SetVmode, Hint, Uevent,
     SetPolicy, Suspend, Resume, StartShutdown, Shutdown, modules, drivers
<1>7. UNCHANGED vars => UNCHANGED <<reg, curr, drv, devs>>
  BY DEF vars, modules, drivers
<1> QED
  BY <1>1, <1>2, <1>3, <1>4, <1>5, <1>6, <1>7 DEF Next, DriverStep

\* The strengthened invariant holds in every reachable state of the registry
\* (vout_func_vout_register_server, _unregister_server, vout_func_set_state).
THEOREM RegistryInvariant == Spec => []IInv
<1>1. Init => IInv
  BY TypeInit, RegistryInit DEF IInv
<1> QED
  BY <1>1, RegistryInductive, PTL DEF Spec

\* The current server of a vout is on its list, whoever registers, leaves or
\* switches modes meanwhile.
THEOREM CurrentIsRegistered == Spec => []CurrRegistered
<1>1. IInv => CurrRegistered
  BY DEF IInv
<1> QED
  BY <1>1, RegistryInvariant, PTL

\* The servers of a vout have different names, so that the name search of
\* vout_func_vout_unregister_server finds the caller's own server.
THEOREM NamesAreUnique == Spec => []UniqueNames
<1>1. IInv => UniqueNames
  BY DEF IInv
<1> QED
  BY <1>1, RegistryInvariant, PTL

\* The device of the current server exists: a uevent sent for the server that
\* is current now never reaches a destroyed device.
THEOREM CurrentHasDevice == Spec => []CurrHasDevice
<1>1. IInv => CurrHasDevice
  BY VoutConstants DEF IInv, TypeOK, CurrRegistered, Listed, CurrHasDevice
<1> QED
  BY <1>1, RegistryInvariant, PTL

----------------------------------------------------------------------------
(* Ownership.  A mode that no server of the list supports makes set_state   *)
(* clear the state word of the server it leaves current, so what follows is *)
(* about systems that only switch to supported modes.                       *)

\* What validate_vmode establishes for the switches that go through it.
SwitchesSupported ==
  \A c \in Callers :
    pc[c] = "set_state" => Fitting(req[c].vout, req[c].mode) # {}

\* The device of a current server is owned by that server's vout.
OwnsCurr ==
  \A i \in Vouts : curr[i] # NULL => i \in bits[DeviceOf[curr[i]]]

LEMMA OwnsInit == Init => OwnsCurr
<1> SUFFICES ASSUME Init, NEW i \in Vouts, curr[i] # NULL
             PROVE  i \in bits[DeviceOf[curr[i]]]
  BY DEF OwnsCurr
<1>1. curr[i] = BootCurr[i] /\ BootCurr[i] \in Servers
  BY VoutBoot DEF Init
<1>2. DeviceOf[BootCurr[i]] \in Devices
  BY <1>1, VoutConstants
<1> QED
  BY <1>1, <1>2 DEF Init

LEMMA OwnsInductive ==
  ASSUME IInv, OwnsCurr, SwitchesSupported, [Next]_vars
  PROVE  OwnsCurr'
<1>1. ASSUME NEW c \in Callers, SetState(c) PROVE OwnsCurr'
  <2> DEFINE j == req[c].vout
             m == req[c].mode
  <2>1. j \in Vouts
    BY DEF IInv, TypeOK, Request
  <2>2. Candidates(j, m) = Fitting(j, m)
    BY <1>1 DEF SetState, SwitchesSupported, Candidates
  <2>3. PICK s \in Fitting(j, m) : curr' = [curr EXCEPT ![j] = s]
    BY <1>1, <2>2 DEF SetState
  <2>4. DeviceOf[s] \in Devices
    BY <2>1, <2>3, VoutConstants DEF Fitting, IInv, TypeOK
  <2>5. j \in bits'[DeviceOf[s]]
    BY <1>1, <2>3, <2>4 DEF SetState, BitsAfter
  <2>6. ASSUME NEW i \in Vouts, i # j, curr[i] # NULL
        PROVE  i \in bits'[DeviceOf[curr[i]]]
    <3>1. DeviceOf[curr[i]] \in Devices
      BY <2>6, VoutConstants DEF IInv, TypeOK
    <3>2. i \in bits[DeviceOf[curr[i]]]
      BY <2>6 DEF OwnsCurr
    <3> QED
      BY <1>1, <2>6, <3>1, <3>2 DEF SetState, BitsAfter
  <2> QED
    BY <2>1, <2>3, <2>5, <2>6 DEF OwnsCurr, IInv, TypeOK
<1>2. ASSUME NEW s \in Servers, Unregister(s) PROVE OwnsCurr'
  <2>1. \A i \in Vouts : curr'[i] \in {curr[i], NULL} \ {s}
    BY <1>2, UnregisterRemoves
  <2>2. bits' = bits
    BY <1>2 DEF Unregister, display
  <2> QED
    BY <2>1, <2>2 DEF OwnsCurr
<1>3. UNCHANGED <<curr, bits>> => OwnsCurr'
  BY DEF OwnsCurr
<1>4. ASSUME NEW c \in Callers, CallerStep(c), ~SetState(c)
      PROVE  UNCHANGED <<curr, bits>>
  BY <1>4 DEF CallerStep, Validate, StartRaw, UpdateViu, SetVmode, Hint, Uevent,
     SetPolicy, Suspend, Resume, StartShutdown, Shutdown, modules, display
<1>5. ASSUME NEW s \in Servers, Register(s) \/ DestroyDev(s)
      PROVE  UNCHANGED <<curr, bits>>
  BY <1>5 DEF Register, DestroyDev, modules, display
<1>6. UNCHANGED vars => UNCHANGED <<curr, bits>>
  BY DEF vars, modules, display
<1> QED
  BY <1>1, <1>2, <1>3, <1>4, <1>5, <1>6 DEF Next, DriverStep

LEMMA OwnedChange ==
  ASSUME IInv, OwnsCurr, NEW c \in Callers, NEW d \in Devices,
         SetState(c) \/ SetVmode(c), lit'[d] # lit[d]
  PROVE  req[c].vout \in bits[d]
<1>1. req[c].vout \in Vouts /\ lit \in [Devices -> Modes \cup {"off"}]
  BY DEF IInv, TypeOK, Request
<1>2. CASE SetState(c)
  BY <1>1, <1>2 DEF SetState, Disabled
<1>3. CASE SetVmode(c)
  <2> DEFINE s == curr[req[c].vout]
  <2>1. s # NULL /\ d = DeviceOf[s]
    BY <1>1, <1>3 DEF SetVmode
  <2> QED
    BY <1>1, <2>1 DEF OwnsCurr
<1> QED
  BY <1>2, <1>3

\* A mode switch changes the picture only on devices that its vout owned, for
\* any servers and however many vouts share a device, as long as the modes
\* handed to vout_func_set_current_vmode are supported by a listed server.
THEOREM PictureIsOwned == Spec /\ []SwitchesSupported => PictureOwned
<1>1. IInv /\ OwnsCurr /\ SwitchesSupported /\ [Next]_vars => OwnsCurr'
  BY OwnsInductive
<1>2. IInv /\ OwnsCurr =>
        [\A c \in Callers, d \in Devices :
           (SetState(c) \/ SetVmode(c)) /\ lit'[d] # lit[d]
             => req[c].vout \in bits[d]]_vars
  BY OwnedChange
<1> QED
  BY <1>1, <1>2, OwnsInit, RegistryInvariant, PTL DEF Spec, PictureOwned

----------------------------------------------------------------------------
(* A box whose drivers stay.  The rest of what the registry promises holds  *)
(* only under conditions that its callers keep; each is named here.         *)

\* No driver is removed while the system runs.
DriversStay == MaxUnbind = 0

\* Modes go through validate_vmode before they are set.
Validated == \A c \in Callers : "rawmode" \notin Calls[c]

\* Hints are given only on vouts that the boot code gave a current server.
HintsHaveOutput ==
  \A c \in Callers : "hint" \in Calls[c] =>
    \A i \in CallVouts[c] : BootCurr[i] # NULL

\* At most one client makes calls of this kind on a vout.
OneClient(kind) ==
  \A c, d \in Callers :
    c # d /\ kind \in Calls[c] /\ kind \in Calls[d]
      => CallVouts[c] \cap CallVouts[d] = {}

Stay == \A s \in Servers : drv[s] # "leaving"

\* With the drivers there the lists and the devices only grow.
LEMMA OnlyGrows ==
  ASSUME IInv, Stay, DriversStay, [Next]_vars
  PROVE  /\ Stay'
         /\ \A i \in Vouts : reg[i] \subseteq reg'[i]
         /\ devs \subseteq devs'
<1>1. ASSUME NEW s \in Servers, Register(s)
      PROVE  Stay' /\ (\A i \in Vouts : reg[i] \subseteq reg'[i]) /\ devs \subseteq devs'
  <2>1. VoutOf[s] \in Vouts /\ reg \in [Vouts -> SUBSET Servers]
    BY VoutConstants DEF IInv, TypeOK
  <2>2. Stay'
    BY <1>1 DEF Register, Stay, IInv, TypeOK
  <2> QED
    BY <1>1, <2>1, <2>2 DEF Register
<1>2. ASSUME NEW s \in Servers PROVE ~Unregister(s) /\ ~DestroyDev(s)
  BY DEF Unregister, DestroyDev, DriversStay, Stay, IInv, TypeOK
<1>3. ASSUME NEW c \in Callers, CallerStep(c) PROVE UNCHANGED <<reg, drv, devs>>
  BY <1>3 DEF CallerStep, Validate, StartRaw, SetState, UpdateViu, SetVmode, Hint,
     Uevent, SetPolicy, Suspend, Resume, StartShutdown, Shutdown, modules, drivers
<1>4. UNCHANGED vars => UNCHANGED <<reg, drv, devs>>
  BY DEF vars, modules, drivers
<1>5. UNCHANGED <<reg, drv, devs>> =>
        Stay' /\ (\A i \in Vouts : reg[i] \subseteq reg'[i]) /\ devs \subseteq devs'
  BY DEF Stay
<1> QED
  BY <1>1, <1>2, <1>3, <1>4, <1>5 DEF Next, DriverStep

LEMMA AlwaysStay == ASSUME DriversStay PROVE Spec => []Stay
<1>1. Init => Stay
  BY DEF Init, Stay
<1>2. IInv /\ Stay /\ [Next]_vars => Stay'
  BY OnlyGrows
<1> QED
  BY <1>1, <1>2, RegistryInvariant, PTL DEF Spec

\* A step of one caller leaves the calls of the others alone; a driver's step
\* leaves all.
LEMMA OneCallAtATime ==
  ASSUME IInv, NEW c \in Callers, CallerStep(c), NEW d \in Callers, d # c
  PROVE  pc'[d] = pc[d] /\ req'[d] = req[d]
<1>1. pc \in [Callers -> {"idle", "set_state", "update_viu", "set_vmode",
                           "uevent", "shutdown"}] /\ req \in [Callers -> Request]
  BY DEF IInv, TypeOK
<1>2. CASE SetPolicy(c) \/ Suspend(c) \/ Resume(c)
  BY <1>2 DEF SetPolicy, Suspend, Resume
<1>3. CASE Validate(c) \/ StartRaw(c) \/ Hint(c) \/ StartShutdown(c)
  BY <1>1, <1>3 DEF Validate, StartRaw, Hint, StartShutdown, Goto
<1>4. CASE SetState(c) \/ UpdateViu(c)
  BY <1>1, <1>4 DEF SetState, UpdateViu, Goto
<1>5. CASE SetVmode(c) \/ Uevent(c)
  BY <1>1, <1>5 DEF SetVmode, Uevent, Done
<1>6. CASE Shutdown(c)
  BY <1>1, <1>6 DEF Shutdown, Done
<1> QED
  BY <1>2, <1>3, <1>4, <1>5, <1>6 DEF CallerStep

\* The VIU of a vout is routed, or its update is still to come.
MuxOrDue ==
  \A i \in Vouts :
    \/ \E c \in Callers : pc[c] = "update_viu" /\ req[c].vout = i
    \/ mux[i] = MuxOf(curr[i])

LEMMA MuxStep ==
  ASSUME IInv, Stay, DriversStay, MuxOrDue, [Next]_vars
  PROVE  MuxOrDue'
<1>1. ASSUME NEW c \in Callers, SetState(c) PROVE MuxOrDue'
  <2>1. pc' = [pc EXCEPT ![c] = "update_viu"] /\ req' = req /\ mux' = mux
    BY <1>1 DEF SetState, Goto, AfterSetState
  <2>2. \A i \in Vouts : i # req[c].vout => curr'[i] = curr[i]
    BY <1>1 DEF SetState, IInv, TypeOK
  <2> QED
    BY <2>1, <2>2 DEF MuxOrDue, IInv, TypeOK, MuxOf
<1>2. ASSUME NEW c \in Callers, UpdateViu(c) PROVE MuxOrDue'
  <2> DEFINE j == req[c].vout
  <2>1. j \in Vouts BY DEF IInv, TypeOK, Request
  <2>2. pc' = [pc EXCEPT ![c] = "set_vmode"] /\ req' = req /\ curr' = curr
        /\ mux' = [mux EXCEPT ![j] = MuxOf(curr[j])]
    BY <1>2 DEF UpdateViu, Goto, modules
  <2>3. MuxOf(curr[j])' = MuxOf(curr[j]) BY <2>2 DEF MuxOf
  <2> QED
    BY <2>1, <2>2, <2>3 DEF MuxOrDue, IInv, TypeOK, MuxOf
<1>3. ASSUME NEW c \in Callers, pc[c] # "update_viu",
             \A d \in Callers \ {c} : pc'[d] = pc[d] /\ req'[d] = req[d],
             UNCHANGED <<mux, curr>>
      PROVE  MuxOrDue'
  <2> SUFFICES ASSUME NEW i \in Vouts, mux'[i] # MuxOf(curr[i])'
               PROVE  \E d \in Callers : pc'[d] = "update_viu" /\ req'[d].vout = i
    BY DEF MuxOrDue
  <2>1. mux[i] # MuxOf(curr[i])
    BY <1>3 DEF MuxOf
  <2>2. PICK d \in Callers : pc[d] = "update_viu" /\ req[d].vout = i
    BY <2>1 DEF MuxOrDue
  <2>3. d \in Callers \ {c}
    BY <1>3, <2>2
  <2> QED
    BY <1>3, <2>2, <2>3
<1>4. UNCHANGED <<mux, curr, pc, req>> => MuxOrDue'
  BY DEF MuxOrDue, MuxOf
<1>5. ASSUME NEW c \in Callers, CallerStep(c), ~SetState(c), ~UpdateViu(c)
      PROVE  /\ pc[c] # "update_viu" \/ UNCHANGED <<pc, req>>
             /\ \A d \in Callers \ {c} : pc'[d] = pc[d] /\ req'[d] = req[d]
             /\ UNCHANGED <<mux, curr>>
  <2>1. \A d \in Callers \ {c} : pc'[d] = pc[d] /\ req'[d] = req[d]
    BY <1>5, OneCallAtATime
  <2>2. UNCHANGED <<mux, curr>>
    BY <1>5 DEF CallerStep, Validate, StartRaw, SetVmode, Hint, Uevent, SetPolicy,
       Suspend, Resume, StartShutdown, Shutdown, modules, display
  <2>3. pc[c] # "update_viu" \/ UNCHANGED <<pc, req>>
    BY <1>5 DEF CallerStep, Validate, StartRaw, SetVmode, Hint, Uevent, SetPolicy,
       Suspend, Resume, StartShutdown, Shutdown, Idle
  <2> QED
    BY <2>1, <2>2, <2>3
<1>6. ASSUME NEW s \in Servers, DriverStep(s) PROVE UNCHANGED <<mux, curr, pc, req>>
  <2>1. ~Unregister(s)
    BY DEF Unregister, DriversStay, IInv, TypeOK
  <2> QED
    BY <1>6, <2>1 DEF DriverStep, Register, DestroyDev, modules, display
<1>7. UNCHANGED vars => UNCHANGED <<mux, curr, pc, req>>
  BY DEF vars, modules, display
<1> QED
  BY <1>1, <1>2, <1>3, <1>4, <1>5, <1>6, <1>7 DEF Next

\* Between mode switches the VIU feeds the device of the current server, even
\* if switches of one vout by several callers overlap: vout_func_update_viu
\* reads the current server again.
THEOREM MuxIsRouted == ASSUME DriversStay PROVE Spec => []MuxFollowsCurr
<1>1. Init => MuxOrDue
  BY DEF Init, MuxOrDue
<1>2. IInv /\ Stay /\ MuxOrDue /\ [Next]_vars => MuxOrDue'
  BY MuxStep
<1>3. MuxOrDue => MuxFollowsCurr
  BY DEF MuxOrDue, MuxFollowsCurr, Switching
<1> QED
  BY <1>1, <1>2, <1>3, AlwaysStay, RegistryInvariant, PTL DEF Spec

----------------------------------------------------------------------------
(* What each call may count on at the hold it is at.                        *)

HintsOpen ==
  \A c \in Callers : "hint" \in Calls[c] =>
    \A i \in CallVouts[c] : curr[i] # NULL

CallReady(c) ==
  /\ pc[c] # "idle" => req[c].vout \in CallVouts[c]
  /\ pc[c] = "uevent" =>
       /\ "hint" \in Calls[c]
       /\ req[c].srv \in Servers
       /\ req[c].srv \in HasDev => req[c].srv \in devs
  /\ pc[c] \in {"set_state", "update_viu", "set_vmode"} => "mode" \in Calls[c]
  /\ pc[c] = "set_state" => Fitting(req[c].vout, req[c].mode) # {}
  /\ pc[c] \in {"update_viu", "set_vmode"} => curr[req[c].vout] # NULL
  /\ pc[c] = "shutdown" => req[c].srv \in reg[req[c].vout]

CallsReady == HintsOpen /\ \A c \in Callers : CallReady(c)

\* A current server is never dropped while the drivers stay.
LEMMA CurrentStays ==
  ASSUME IInv, DriversStay, [Next]_vars, NEW i \in Vouts, curr[i] # NULL
  PROVE  curr'[i] # NULL
<1>1. ASSUME NEW c \in Callers, SetState(c) PROVE curr'[i] # NULL
  <2>1. PICK s \in Candidates(req[c].vout, req[c].mode) :
          curr' = [curr EXCEPT ![req[c].vout] = s]
    BY <1>1 DEF SetState
  <2>2. req[c].vout \in Vouts
    BY DEF IInv, TypeOK, Request
  <2>3. i = req[c].vout => s # NULL
    BY <2>1, <2>2, VoutConstants DEF Candidates, Fitting, IInv, TypeOK
  <2> QED
    BY <2>1, <2>3 DEF IInv, TypeOK
<1>2. ASSUME NEW c \in Callers, CallerStep(c), ~SetState(c) PROVE curr' = curr
  BY <1>2 DEF CallerStep, Validate, StartRaw, UpdateViu, SetVmode, Hint, Uevent,
     SetPolicy, Suspend, Resume, StartShutdown, Shutdown, modules
<1>3. ASSUME NEW s \in Servers, DriverStep(s) PROVE curr' = curr
  BY <1>3 DEF DriverStep, Register, Unregister, DestroyDev, modules, DriversStay,
     IInv, TypeOK
<1>4. UNCHANGED vars => curr' = curr
  BY DEF vars, modules
<1> QED
  BY <1>1, <1>2, <1>3, <1>4 DEF Next

\* A call that is not at work in a step is as ready after it as before.
LEMMA OtherReady ==
  ASSUME IInv, Stay, DriversStay, [Next]_vars, NEW c \in Callers, CallReady(c),
         pc'[c] = pc[c], req'[c] = req[c]
  PROVE  CallReady(c)'
<1>1. req[c].vout \in Vouts
  BY DEF IInv, TypeOK, Request
<1>2. reg[req[c].vout] \subseteq reg'[req[c].vout] /\ devs \subseteq devs'
  BY <1>1, OnlyGrows
<1>3. curr[req[c].vout] # NULL => curr'[req[c].vout] # NULL
  BY <1>1, CurrentStays
<1>4. Fitting(req[c].vout, req[c].mode) # {}
        => Fitting(req[c].vout, req[c].mode)' # {}
  BY <1>2 DEF Fitting
<1> QED
  BY <1>2, <1>3, <1>4 DEF CallReady

\* The caller at work leaves its own call ready for the next hold.
LEMMA OwnReady ==
  ASSUME IInv, Stay, DriversStay, Validated, CallsReady,
         NEW c \in Callers, CallerStep(c)
  PROVE  CallReady(c)'
<1> USE DEF IInv, TypeOK
<1> c \in Callers /\ CallReady(c)
  BY DEF CallsReady
<1>0. VoutConstants
  BY VoutConstants
<1>1. CASE Validate(c)
  <2>1. PICK i \in CallVouts[c], m \in Modes :
          Offers(i, m) /\ req' = [req EXCEPT ![c] = [NoRequest(i) EXCEPT !.mode = m]]
    BY <1>1 DEF Validate
  <2>2. req'[c].vout = i /\ req'[c].mode = m /\ pc'[c] = "set_state"
    BY <1>1, <2>1 DEF Validate, Goto, NoRequest
  <2>3. Fitting(i, m)' # {}
    BY <1>1, <2>1 DEF Validate, Offers, Askable, Fitting, modules
  <2>4. "mode" \in Calls[c]
    BY <1>1 DEF Validate, Idle
  <2> QED
    BY <2>2, <2>3, <2>4 DEF CallReady, Fitting
<1>2. CASE SetState(c)
  <2>1. PICK s \in Candidates(req[c].vout, req[c].mode) :
          curr' = [curr EXCEPT ![req[c].vout] = s]
    BY <1>2 DEF SetState
  <2>2. req[c].vout \in Vouts
    BY DEF Request
  <2>3. s # NULL
    BY <1>0, <1>2, <2>1, <2>2 DEF SetState, Candidates, Fitting, CallReady
  <2>4. pc'[c] = "update_viu" /\ req' = req
    BY <1>2 DEF SetState, Goto, AfterSetState
  <2> QED
    BY <1>2, <2>1, <2>2, <2>3, <2>4 DEF CallReady, SetState
<1>3. CASE UpdateViu(c)
  BY <1>3 DEF UpdateViu, Goto, CallReady, modules
<1>4. CASE SetVmode(c) \/ Uevent(c)
  <2>1. pc'[c] = "idle"
    BY <1>4 DEF SetVmode, Uevent, Done
  <2> QED
    BY <2>1 DEF CallReady
<1>5. CASE Hint(c)
  <2>1. PICK i \in CallVouts[c], msg \in Rates \cup {"end"} :
          req' = [req EXCEPT ![c] = [NoRequest(i) EXCEPT !.msg = msg, !.srv = curr[i]]]
    BY <1>5 DEF Hint
  <2>2. "hint" \in Calls[c] /\ pc'[c] = "uevent" /\ devs' = devs
    BY <1>5 DEF Hint, Idle, Goto, drivers
  <2>3. req'[c].vout = i /\ req'[c].srv = curr[i]
    BY <2>1 DEF NoRequest
  <2>4. i \in Vouts
    BY <1>0 DEF VoutConstants
  <2>5. curr[i] \in Servers /\ (curr[i] \in HasDev => curr[i] \in devs)
    BY <2>2, <2>4 DEF CallsReady, HintsOpen, CurrRegistered, Listed
  <2> QED
    BY <2>2, <2>3, <2>5 DEF CallReady
<1>6. CASE SetPolicy(c) \/ Suspend(c) \/ Resume(c)
  <2>1. pc'[c] = "idle"
    BY <1>6 DEF SetPolicy, Suspend, Resume, Idle
  <2> QED
    BY <2>1 DEF CallReady
<1>7. CASE StartShutdown(c)
  <2>0. PICK i \in CallVouts[c] : \E s \in reg[i] :
          req' = [req EXCEPT ![c] =
                    [NoRequest(i) EXCEPT !.srv = s, !.todo = reg[i] \ {s}]]
    BY <1>7 DEF StartShutdown
  <2>1. PICK s \in reg[i] :
          req' = [req EXCEPT ![c] =
                    [NoRequest(i) EXCEPT !.srv = s, !.todo = reg[i] \ {s}]]
    BY <2>0
  <2>2. req'[c].vout = i /\ req'[c].srv = s /\ pc'[c] = "shutdown" /\ reg' = reg
    BY <1>7, <2>1 DEF StartShutdown, Goto, NoRequest, modules
  <2> QED
    BY <2>2 DEF CallReady
<1>8. CASE Shutdown(c)
  <2>1. pc'[c] = "idle" \/ \E q \in reg[req[c].vout] :
          req' = [req EXCEPT ![c].srv = q,
                             ![c].todo = (req[c].todo \cap reg[req[c].vout]) \ {q}]
            /\ pc' = pc
    BY <1>8 DEF Shutdown, Done
  <2>2. pc[c] = "shutdown" /\ reg' = reg /\ req[c] \in Request
    BY <1>8 DEF Shutdown, modules
  <2>3. CASE pc'[c] = "idle"
    BY <2>3 DEF CallReady
  <2>4. CASE pc'[c] # "idle"
    <3>1. PICK q \in reg[req[c].vout] :
            req' = [req EXCEPT ![c].srv = q,
                               ![c].todo = (req[c].todo \cap reg[req[c].vout]) \ {q}]
            /\ pc' = pc
      BY <2>1, <2>4
    <3>2. req'[c].vout = req[c].vout /\ req'[c].srv = q
      BY <2>2, <3>1 DEF Request
    <3> QED
      BY <2>2, <3>1, <3>2 DEF CallReady
  <2> QED
    BY <2>3, <2>4
<1>9. ~StartRaw(c)
  BY DEF StartRaw, Idle, Validated
<1> QED
  BY <1>1, <1>2, <1>3, <1>4, <1>5, <1>6, <1>7, <1>8, <1>9 DEF CallerStep

LEMMA ReadyStep ==
  ASSUME IInv, Stay, DriversStay, Validated, CallsReady, [Next]_vars
  PROVE  CallsReady'
<1>1. HintsOpen'
  <2> SUFFICES ASSUME NEW c \in Callers, "hint" \in Calls[c], NEW i \in CallVouts[c]
               PROVE  curr'[i] # NULL
    BY DEF HintsOpen
  <2>1. i \in Vouts /\ curr[i] # NULL
    BY VoutConstants DEF CallsReady, HintsOpen
  <2> QED
    BY <2>1, CurrentStays
<1>2. ASSUME NEW d \in Callers PROVE CallReady(d)'
  <2>1. CASE \E c \in Callers : CallerStep(c)
    <3>1. PICK c \in Callers : CallerStep(c)
      BY <2>1
    <3>2. CASE c = d
      BY <3>1, <3>2, OwnReady
    <3>3. CASE c # d
      BY <3>1, <3>3, OneCallAtATime, OtherReady DEF CallsReady
    <3> QED
      BY <3>2, <3>3
  <2>2. CASE (\E s \in Servers : DriverStep(s)) \/ UNCHANGED vars
    <3>1. pc' = pc /\ req' = req
      BY <2>2 DEF DriverStep, Register, Unregister, DestroyDev, vars
    <3> QED
      BY <3>1, OtherReady DEF CallsReady
  <2> QED
    BY <2>1, <2>2 DEF Next
<1> QED
  BY <1>1, <1>2 DEF CallsReady

LEMMA ReadyInit == ASSUME HintsHaveOutput PROVE Init => CallsReady
<1> SUFFICES ASSUME Init PROVE CallsReady
  OBVIOUS
<1>1. HintsOpen
  BY DEF Init, HintsOpen, HintsHaveOutput
<1>2. \A c \in Callers : pc[c] = "idle"
  BY DEF Init
<1> QED
  BY <1>1, <1>2 DEF CallsReady, CallReady

LEMMA AlwaysReady ==
  ASSUME DriversStay, Validated, HintsHaveOutput
  PROVE  Spec => []CallsReady
<1>1. Init => CallsReady
  BY ReadyInit
<1>2. IInv /\ Stay /\ CallsReady /\ [Next]_vars => CallsReady'
  BY ReadyStep
<1> QED
  BY <1>1, <1>2, AlwaysStay, RegistryInvariant, PTL DEF Spec

LEMMA OopsStep ==
  ASSUME IInv, Stay, DriversStay, CallsReady, NoOops, [Next]_vars
  PROVE  NoOops'
<1>1. ASSUME NEW c \in Callers, CallerStep(c) PROVE oops' = oops
  <2>1. CASE SetVmode(c) \/ Uevent(c) \/ Shutdown(c)
    <3>1. CallReady(c)
      BY DEF CallsReady
    <3>2. CASE SetVmode(c)
      BY <3>1, <3>2 DEF SetVmode, CallReady
    <3>3. CASE Uevent(c)
      <4>1. NULL \notin Servers
        BY VoutConstants
      <4> QED
        BY <3>1, <3>3, <4>1 DEF Uevent, UeventServer, CallReady
    <3>4. CASE Shutdown(c)
      BY <3>1, <3>4 DEF Shutdown, CallReady
    <3> QED
      BY <2>1, <3>2, <3>3, <3>4
  <2>2. CASE ~(SetVmode(c) \/ Uevent(c) \/ Shutdown(c))
    BY <1>1, <2>2 DEF CallerStep, Validate, StartRaw, SetState, UpdateViu, Hint, SetPolicy,
       Suspend, Resume, StartShutdown
  <2> QED
    BY <2>1, <2>2
<1>2. ASSUME NEW s \in Servers, DriverStep(s) PROVE oops' = oops
  BY <1>2 DEF DriverStep, Register, Unregister, DestroyDev, DriversStay, IInv, TypeOK
<1>3. UNCHANGED vars => oops' = oops
  BY DEF vars
<1> QED
  BY <1>1, <1>2, <1>3 DEF Next, NoOops

\* No call ends in an oops while the drivers stay, modes are validated and
\* hints are given where there is an output: set_vmode and the code after the
\* unlock of a hint then always find a server, and its device.
THEOREM NeverCrashes ==
  ASSUME DriversStay, Validated, HintsHaveOutput
  PROVE  Spec => []NoOops
<1>1. Init => NoOops
  BY DEF Init, NoOops
<1>2. IInv /\ Stay /\ CallsReady /\ NoOops /\ [Next]_vars => NoOops'
  BY OopsStep
<1> QED
  BY <1>1, <1>2, AlwaysReady, AlwaysStay, RegistryInvariant, PTL DEF Spec

----------------------------------------------------------------------------
(* One client that switches a vout, one that gives it hints.                *)

\* The mode a switch is about is one of the server it made current.
SwitchFits ==
  \A c \in Callers :
    pc[c] \in {"update_viu", "set_vmode"}
      => req[c].mode \in Supports[curr[req[c].vout]]

LEMMA FitsStep ==
  ASSUME IInv, Stay, DriversStay, CallsReady, OneClient("mode"), SwitchFits, [Next]_vars
  PROVE  SwitchFits'
<1>1. ASSUME NEW c \in Callers, SetState(c) PROVE SwitchFits'
  <2> SUFFICES ASSUME NEW d \in Callers, pc'[d] \in {"update_viu", "set_vmode"}
               PROVE  req'[d].mode \in Supports[curr'[req'[d].vout]]
    BY DEF SwitchFits
  <2>1. pc' = [pc EXCEPT ![c] = "update_viu"] /\ req' = req
    BY <1>1 DEF SetState, Goto, AfterSetState
  <2>2. PICK s \in Candidates(req[c].vout, req[c].mode) :
          curr' = [curr EXCEPT ![req[c].vout] = s]
    BY <1>1 DEF SetState
  <2>3. req[c].vout \in Vouts
    BY DEF IInv, TypeOK, Request
  <2>4. CallReady(c) /\ CallReady(d) /\ pc[c] = "set_state"
    BY <1>1 DEF CallsReady, SetState
  <2>5. req[c].mode \in Supports[s]
    BY <2>2, <2>4 DEF CallReady, Candidates, Fitting
  <2>6. CASE d = c
    BY <2>1, <2>2, <2>3, <2>5, <2>6 DEF IInv, TypeOK
  <2>7. CASE d # c
    <3>1. pc[d] = pc'[d]
      BY <2>1, <2>7 DEF IInv, TypeOK
    <3>2. req[d].vout # req[c].vout
      BY <2>4, <2>7, <3>1 DEF CallReady, OneClient
    <3>3. req[d].mode \in Supports[curr[req[d].vout]]
      BY <3>1 DEF SwitchFits
    <3>4. curr'[req[d].vout] = curr[req[d].vout]
      BY <2>2, <3>2 DEF IInv, TypeOK
    <3> QED
      BY <2>1, <3>3, <3>4
  <2> QED
    BY <2>6, <2>7
<1>2. ASSUME NEW c \in Callers, CallerStep(c), ~SetState(c) PROVE SwitchFits'
  <2>1. curr' = curr
    BY <1>2 DEF CallerStep, Validate, StartRaw, UpdateViu, SetVmode, Hint, Uevent,
       SetPolicy, Suspend, Resume, StartShutdown, Shutdown, modules
  <2>2. pc'[c] \in {"update_viu", "set_vmode"} => pc[c] = "update_viu" /\ req' = req
    BY <1>2 DEF CallerStep, Validate, StartRaw, UpdateViu, SetVmode, Hint, Uevent,
       SetPolicy, Suspend, Resume, StartShutdown, Shutdown, Idle, Goto, Done, IInv, TypeOK
  <2>3. \A d \in Callers \ {c} : pc'[d] = pc[d] /\ req'[d] = req[d]
    BY <1>2, OneCallAtATime
  <2> QED
    BY <2>1, <2>2, <2>3 DEF SwitchFits
<1>3. ASSUME NEW s \in Servers, DriverStep(s) PROVE UNCHANGED <<curr, pc, req>>
  BY <1>3 DEF DriverStep, Register, Unregister, DestroyDev, modules, DriversStay,
     IInv, TypeOK
<1>4. UNCHANGED vars => UNCHANGED <<curr, pc, req>>
  BY DEF vars, modules
<1>5. UNCHANGED <<curr, pc, req>> => SwitchFits'
  BY DEF SwitchFits
<1> QED
  BY <1>1, <1>2, <1>3, <1>4, <1>5 DEF Next

LEMMA LitStep ==
  ASSUME IInv, DriversStay, CallsReady, SwitchFits, LitSupported, [Next]_vars
  PROVE  LitSupported'
<1>1. ASSUME NEW d \in Devices,
             lit'[d] \notin {lit[d], "off"}
      PROVE  \E s \in Servers : DeviceOf[s] = d /\ lit'[d] \in Supports[s]
  <2>1. PICK c \in Callers : SetVmode(c)
    <3>1. ASSUME NEW c \in Callers, CallerStep(c), ~SetVmode(c)
          PROVE  lit'[d] \in {lit[d], "off"}
      BY <3>1 DEF CallerStep, Validate, StartRaw, SetState, UpdateViu, Hint, Uevent,
         SetPolicy, Suspend, Resume, StartShutdown, Shutdown, display, IInv, TypeOK
    <3>2. ASSUME NEW s \in Servers, DriverStep(s) PROVE lit' = lit
      BY <3>2 DEF DriverStep, Register, Unregister, DestroyDev, display
    <3>3. UNCHANGED vars => lit' = lit
      BY DEF vars, display
    <3> QED
      BY <1>1, <3>1, <3>2, <3>3 DEF Next
  <2> DEFINE s == curr[req[c].vout]
  <2>2. pc[c] = "set_vmode" /\ CallReady(c)
    BY <2>1 DEF SetVmode, CallsReady
  <2>3. s # NULL /\ req[c].mode \in Supports[s]
    BY <2>2 DEF CallReady, SwitchFits
  <2>4. lit' = [lit EXCEPT ![DeviceOf[s]] = req[c].mode]
    BY <2>1, <2>3 DEF SetVmode
  <2>5. d = DeviceOf[s] /\ lit'[d] = req[c].mode
    BY <1>1, <2>4 DEF IInv, TypeOK
  <2>6. s \in Servers
    BY <2>3 DEF IInv, TypeOK, Request
  <2> QED
    BY <2>3, <2>5, <2>6
<1> QED
  BY <1>1 DEF LitSupported

\* A device only shows modes that one of its servers supports: with one client
\* that switches a vout, set_vmode finds the server that set_state chose.
THEOREM LitIsSupported ==
  ASSUME DriversStay, Validated, HintsHaveOutput, OneClient("mode")
  PROVE  Spec => []LitSupported
<1>1. Init => SwitchFits /\ LitSupported
  BY DEF Init, SwitchFits, LitSupported
<1>2. IInv /\ Stay /\ CallsReady /\ SwitchFits /\ [Next]_vars => SwitchFits'
  BY FitsStep
<1>3. IInv /\ CallsReady /\ SwitchFits /\ LitSupported /\ [Next]_vars => LitSupported'
  BY LitStep
<1> QED
  BY <1>1, <1>2, <1>3, AlwaysReady, AlwaysStay, RegistryInvariant, PTL DEF Spec

\* The uevents of a vout are up to date, or the one that is missing is about
\* to be sent.
SaidOrDue ==
  \A i \in Vouts :
    \/ \E c \in Callers : pc[c] = "uevent" /\ req[c].vout = i /\ req[c].srv \in HasDev
    \/ bcast[i] = told[i]

\* A uevent that is still to be sent is about the last hint of its vout.
PendingIsTold ==
  \A c \in Callers :
    pc[c] = "uevent" /\ req[c].srv \in HasDev => req[c].msg = told[req[c].vout]

LEMMA PendingStep ==
  ASSUME IInv, DriversStay, CallsReady, OneClient("hint"), PendingIsTold, [Next]_vars
  PROVE  PendingIsTold'
<1>1. ASSUME NEW c \in Callers, Hint(c) PROVE PendingIsTold'
  <2> SUFFICES ASSUME NEW d \in Callers, pc'[d] = "uevent", req'[d].srv \in HasDev
               PROVE  req'[d].msg = told'[req'[d].vout]
    BY DEF PendingIsTold
  <2>1. PICK i \in CallVouts[c], msg \in Rates \cup {"end"} :
          /\ req' = [req EXCEPT ![c] = [NoRequest(i) EXCEPT !.msg = msg, !.srv = curr[i]]]
          /\ told' = IF curr[i] \in HasDev THEN [told EXCEPT ![i] = msg] ELSE told
    BY <1>1 DEF Hint
  <2>2. i \in Vouts /\ "hint" \in Calls[c]
    BY <1>1, VoutConstants DEF Hint, Idle
  <2>3. CASE d = c
    <3>1. req'[d].vout = i /\ req'[d].srv = curr[i] /\ req'[d].msg = msg
      BY <2>1, <2>3 DEF NoRequest, IInv, TypeOK
    <3> QED
      BY <2>1, <2>2, <3>1 DEF IInv, TypeOK
  <2>4. CASE d # c
    <3>1. pc'[d] = pc[d] /\ req'[d] = req[d]
      BY <1>1, <2>4, OneCallAtATime DEF CallerStep
    <3>2. req[d].vout # i
      BY <2>1, <2>2, <2>4, <3>1 DEF CallsReady, CallReady, OneClient
    <3>3. told'[req[d].vout] = told[req[d].vout]
      BY <2>1, <3>2 DEF IInv, TypeOK
    <3> QED
      BY <3>1, <3>3 DEF PendingIsTold
  <2> QED
    BY <2>3, <2>4
<1>2. ASSUME NEW c \in Callers, CallerStep(c), ~Hint(c) PROVE PendingIsTold'
  <2>1. told' = told
    BY <1>2 DEF CallerStep, Validate, StartRaw, SetState, UpdateViu, SetVmode, Uevent,
       SetPolicy, Suspend, Resume, StartShutdown, Shutdown, events
  <2>2. pc'[c] = "uevent" => UNCHANGED <<pc, req>>
    BY <1>2 DEF CallerStep, Validate, StartRaw, SetState, UpdateViu, SetVmode, Uevent,
       SetPolicy, Suspend, Resume, StartShutdown, Shutdown, Idle, Goto, Done,
       AfterSetState, IInv, TypeOK
  <2>3. \A d \in Callers \ {c} : pc'[d] = pc[d] /\ req'[d] = req[d]
    BY <1>2, OneCallAtATime
  <2>4. \A d \in Callers : pc'[d] = "uevent" => pc'[d] = pc[d] /\ req'[d] = req[d]
    BY <2>2, <2>3
  <2> QED
    BY <2>1, <2>4 DEF PendingIsTold
<1>3. ASSUME NEW s \in Servers, DriverStep(s) PROVE UNCHANGED <<told, pc, req>>
  BY <1>3 DEF DriverStep, Register, Unregister, DestroyDev, events
<1>4. UNCHANGED vars => UNCHANGED <<told, pc, req>>
  BY DEF vars, events
<1>5. UNCHANGED <<told, pc, req>> => PendingIsTold'
  BY DEF PendingIsTold
<1> QED
  BY <1>1, <1>2, <1>3, <1>4, <1>5 DEF Next

LEMMA SaidStep ==
  ASSUME IInv, CallsReady, PendingIsTold, SaidOrDue, [Next]_vars
  PROVE  SaidOrDue'
<1>1. ASSUME NEW c \in Callers, Hint(c) PROVE SaidOrDue'
  <2>1. PICK i \in CallVouts[c], msg \in Rates \cup {"end"} :
          /\ req' = [req EXCEPT ![c] = [NoRequest(i) EXCEPT !.msg = msg, !.srv = curr[i]]]
          /\ told' = IF curr[i] \in HasDev THEN [told EXCEPT ![i] = msg] ELSE told
    BY <1>1 DEF Hint
  <2>2. i \in Vouts
    BY VoutConstants
  <2>3. pc[c] = "idle" /\ pc' = [pc EXCEPT ![c] = "uevent"] /\ bcast' = bcast
    BY <1>1 DEF Hint, Idle, Goto
  <2>4. req'[c].vout = i /\ req'[c].srv = curr[i] /\ req'[c].msg = msg
    BY <2>1 DEF NoRequest, IInv, TypeOK
  <2>5. ASSUME NEW j \in Vouts, told'[j] = told[j]
        PROVE  \/ \E d \in Callers : /\ pc'[d] = "uevent" /\ req'[d].vout = j
                                     /\ req'[d].srv \in HasDev
               \/ bcast'[j] = told'[j]
    <3>1. CASE bcast[j] = told[j]
      BY <2>3, <2>5, <3>1
    <3>2. CASE bcast[j] # told[j]
      <4>1. PICK d \in Callers : pc[d] = "uevent" /\ req[d].vout = j /\ req[d].srv \in HasDev
        BY <3>2 DEF SaidOrDue
      <4>2. d # c /\ pc'[d] = pc[d] /\ req'[d] = req[d]
        BY <2>1, <2>3, <4>1 DEF IInv, TypeOK
      <4> QED
        BY <2>5, <4>1, <4>2
    <3> QED
      BY <3>1, <3>2
  <2>6. ASSUME NEW j \in Vouts, told'[j] # told[j]
        PROVE  /\ pc'[c] = "uevent" /\ req'[c].vout = j
               /\ req'[c].srv \in HasDev
    <3>1. j = i /\ curr[i] \in HasDev /\ told'[j] = msg
      BY <2>1, <2>2, <2>6 DEF IInv, TypeOK
    <3> QED
      BY <2>3, <2>4, <3>1 DEF IInv, TypeOK
  <2> QED
    BY <2>5, <2>6 DEF SaidOrDue
<1>2. ASSUME NEW c \in Callers, Uevent(c) PROVE SaidOrDue'
  <2> DEFINE i == req[c].vout
  <2>1. CallReady(c) /\ pc[c] = "uevent" /\ told' = told /\ i \in Vouts
    BY <1>2 DEF Uevent, CallsReady, IInv, TypeOK, Request
  <2>2. bcast' = IF req[c].srv \in devs THEN [bcast EXCEPT ![i] = req[c].msg] ELSE bcast
    BY <1>2 DEF Uevent, UeventServer, BcastAfter
  <2>3. devs \subseteq HasDev
    BY DEF IInv, TypeOK
  <2>4. ASSUME NEW j \in Vouts, j # i
        PROVE  \/ \E d \in Callers : /\ pc'[d] = "uevent" /\ req'[d].vout = j
                                     /\ req'[d].srv \in HasDev
               \/ bcast'[j] = told'[j]
    <3>1. bcast'[j] = bcast[j]
      BY <2>2, <2>4 DEF IInv, TypeOK
    <3>2. CASE bcast[j] = told[j]
      BY <2>1, <3>1, <3>2
    <3>3. CASE bcast[j] # told[j]
      <4>1. PICK d \in Callers : pc[d] = "uevent" /\ req[d].vout = j /\ req[d].srv \in HasDev
        BY <3>3 DEF SaidOrDue
      <4>2. d # c
        BY <2>4, <4>1
      <4>3. pc'[d] = pc[d] /\ req'[d] = req[d]
        BY <1>2, <4>2, OneCallAtATime DEF CallerStep
      <4> QED
        BY <2>1, <4>1, <4>3
    <3> QED
      BY <3>2, <3>3
  <2>5. ASSUME req[c].srv \in HasDev PROVE bcast'[i] = told'[i]
    <3>1. req[c].srv \in devs /\ req[c].msg = told[i]
      BY <2>1, <2>5 DEF CallReady, PendingIsTold
    <3> QED
      BY <2>1, <2>2, <3>1 DEF IInv, TypeOK
  <2>6. ASSUME req[c].srv \notin HasDev, NEW j \in Vouts
        PROVE  \/ \E d \in Callers : /\ pc'[d] = "uevent" /\ req'[d].vout = j
                                     /\ req'[d].srv \in HasDev
               \/ bcast'[j] = told'[j]
    <3>1. bcast' = bcast
      BY <2>2, <2>3, <2>6
    <3>2. CASE bcast[j] = told[j]
      BY <2>1, <3>1, <3>2
    <3>3. CASE bcast[j] # told[j]
      <4>1. PICK d \in Callers :
              pc[d] = "uevent" /\ req[d].vout = j /\ req[d].srv \in HasDev
        BY <3>3 DEF SaidOrDue
      <4>2. d # c
        BY <2>6, <4>1
      <4>3. pc'[d] = pc[d] /\ req'[d] = req[d]
        BY <1>2, <4>2, OneCallAtATime DEF CallerStep
      <4> QED
        BY <4>1, <4>3
    <3> QED
      BY <3>2, <3>3
  <2> QED
    BY <2>4, <2>5, <2>6 DEF SaidOrDue
<1>3. ASSUME NEW c \in Callers, CallerStep(c), ~Hint(c), ~Uevent(c) PROVE SaidOrDue'
  <2>1. UNCHANGED <<told, bcast>>
    BY <1>3 DEF CallerStep, Validate, StartRaw, SetState, UpdateViu, SetVmode,
       SetPolicy, Suspend, Resume, StartShutdown, Shutdown, events
  <2>2. pc[c] = "uevent" => UNCHANGED <<pc, req>>
    BY <1>3 DEF CallerStep, Validate, StartRaw, SetState, UpdateViu, SetVmode,
       SetPolicy, Suspend, Resume, StartShutdown, Shutdown, Idle
  <2>3. \A d \in Callers \ {c} : pc'[d] = pc[d] /\ req'[d] = req[d]
    BY <1>3, OneCallAtATime
  <2>4. \A d \in Callers : pc[d] = "uevent" => pc'[d] = pc[d] /\ req'[d] = req[d]
    BY <2>2, <2>3
  <2> QED
    BY <2>1, <2>4 DEF SaidOrDue
<1>4. ASSUME NEW s \in Servers, DriverStep(s) PROVE UNCHANGED <<told, bcast, pc, req>>
  BY <1>4 DEF DriverStep, Register, Unregister, DestroyDev, events
<1>5. UNCHANGED vars => UNCHANGED <<told, bcast, pc, req>>
  BY DEF vars, events
<1>6. UNCHANGED <<told, bcast, pc, req>> => SaidOrDue'
  BY DEF SaidOrDue
<1> QED
  BY <1>1, <1>2, <1>3, <1>4, <1>5, <1>6 DEF Next

\* User space hears every hint the output was told, in that order, if one
\* client at a time gives hints on a vout: the uevent after the unlock is then
\* sent before the next hint is.
THEOREM BroadcastFollows ==
  ASSUME DriversStay, Validated, HintsHaveOutput, OneClient("hint")
  PROVE  Spec => []BroadcastAgrees
<1>1. Init => SaidOrDue /\ PendingIsTold
  BY DEF Init, SaidOrDue, PendingIsTold
<1>2. IInv /\ CallsReady /\ PendingIsTold /\ SaidOrDue /\ [Next]_vars => SaidOrDue'
  BY SaidStep
<1>3. IInv /\ CallsReady /\ PendingIsTold /\ [Next]_vars => PendingIsTold'
  BY PendingStep
<1>4. SaidOrDue => BroadcastAgrees
  BY DEF SaidOrDue, BroadcastAgrees
<1> QED
  BY <1>1, <1>2, <1>3, <1>4, AlwaysReady, RegistryInvariant, PTL DEF Spec
=============================================================================
