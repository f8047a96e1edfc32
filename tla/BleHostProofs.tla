---------------------------- MODULE BleHostProofs ----------------------------
(***************************************************************************)
(* Theorems about BleHost, for any number of records, gamepads and         *)
(* connection handles, 0 among them or not.  What concerns the scan flags  *)
(* and the addresses of the records is inductive by itself (IInv); what    *)
(* concerns links and handles needs to say what still holds once handle 0  *)
(* has been mixed up (Base) and what holds until then (Clean).             *)
(***************************************************************************)
EXTENDS BleHost, WellFoundedInduction, TLAPS

(* A gamepad that is being connected has its timer running. *)
Waiting == \A s \in Slot :
    InUse(s) /\ g_devices[s].state = "discovered" => g_devices[s].timer

IInv == TypeOK /\ ScanStaysOff /\ Waiting /\ OneRecordEach

-----------------------------------------------------------------------------
(* uni_hid_device_get_instance_for_address() finds nothing only when there *)
(* is nothing (uni_hid_device.c:132-140).                                  *)
LEMMA NotFound ==
    ASSUME NEW a, ForAddress(a) = {}
    PROVE  \A s \in Slot : g_devices[s].addr # a
BY DEF ForAddress, First

(* The controller's scan, left or resumed, is on only if the flag says so  *)
(* (uni_bt_le.c:96-102).                                                   *)
LEMMA ResumedStaysOff ==
    ASSUME TypeOK, ScanStaysOff
    PROVE  /\ Resumed \in BOOLEAN
           /\ Resumed => is_scanning
BY DEF TypeOK, ScanStaysOff, Resumed

(* A step of the scan flags that keeps what was asked for.                 *)
ScanKept == /\ gapScan' \in {gapScan, FALSE, Resumed}
            /\ UNCHANGED scan

(* A step of the records: each stays as it is but for its handle and its   *)
(* HIDS client, is freed, or goes on with or without its timer.            *)
Goes(r, q) == \/ /\ q.addr = r.addr /\ q.state = r.state /\ q.timer = r.timer
              \/ q.addr = NoAddr
              \/ q.addr = r.addr /\ (q.timer \/ q.state # "discovered")
RecordsGo == \A s \in Slot : Goes(g_devices[s], g_devices[s]')

(* The new states of a record that an event of its link leads to.          *)
LEMMA RecordUpdates ==
    ASSUME NEW r \in Record
    PROVE  /\ LET q == [r EXCEPT !.hids_cid = Invalid]
              IN  q \in Record /\ Goes(r, q)
           /\ Ready(r) \in Record /\ Goes(r, Ready(r))
           /\ Pending(r) \in Record /\ Goes(r, Pending(r))
           /\ Free \in Record /\ Goes(r, Free)
           /\ Goes(r, r)
BY DEF Record, Goes, Free, Ready, Pending

(* Steps of that kind keep the three properties.                           *)
LEMMA KeptByGoing ==
    ASSUME IInv, ScanKept, RecordsGo
    PROVE  ScanStaysOff' /\ Waiting' /\ OneRecordEach'
<1>1. ScanStaysOff'
  <2>1. UNCHANGED <<bt_scanning_enabled, is_scanning, obeyed>>
    BY DEF ScanKept, scan
  <2>2. gapScan' => is_scanning
    <3>1. (gapScan => is_scanning) /\ (Resumed => is_scanning)
      BY ResumedStaysOff DEF IInv, ScanStaysOff
    <3>2. gapScan' = gapScan \/ gapScan' = FALSE \/ gapScan' = Resumed
      BY DEF ScanKept
    <3> QED
      BY <3>1, <3>2, Zenon
  <2> QED
    BY <2>1, <2>2, Zenon DEF IInv, ScanStaysOff
<1>2. Waiting'
  BY DEF IInv, RecordsGo, Goes, Waiting, InUse, Slot
<1>3. OneRecordEach'
  BY DEF IInv, RecordsGo, Goes, OneRecordEach, InUse, Slot
<1> QED
  BY <1>1, <1>2, <1>3

-----------------------------------------------------------------------------
(* What the observation of handle 0 amounts to. *)
LEMMA ObserveIs ==
    ASSUME Observe
    PROVE  /\ mixed' \in BOOLEAN
           /\ ~mixed' => ~Mixed' /\ (~mixed \/ \A s \in Slot : ~InUse(s)')
BY Zenon DEF Observe

LEMMA InitIInv == Init => IInv
<1> SUFFICES ASSUME Init PROVE IInv
  OBVIOUS
<1>1. Free \in Record
  BY DEF Free, Record
<1>2. TypeOK
  BY <1>1 DEF Init, TypeOK
<1>3. \A s \in Slot : g_devices[s] = Free
  BY DEF Init
<1> QED
  BY <1>2, <1>3 DEF Init, IInv, ScanStaysOff, Waiting, OneRecordEach, InUse, Free

(* hog_disconnect() touches only the link's phase and the scan.            *)
LEMMA DisconnectKeeps ==
    ASSUME IInv, NEW h, hog_disconnect(h)
    PROVE  /\ phase' \in [Handles -> {"none", "pairing", "info", "hids"}]
           /\ gapScan' \in BOOLEAN
           /\ gapScan' \in {gapScan, FALSE, Resumed}
BY ResumedStaysOff DEF IInv, TypeOK, hog_disconnect, Closing

(* An advertisement: the address is new, and its record starts its timer.  *)
LEMMA AdvertisingKeeps ==
    ASSUME IInv, NEW a \in Addr, AdvertisingReport(a)
    PROVE  IInv'
<1>1. PICK s \in ForAddress(NoAddr) :
        g_devices' = [g_devices EXCEPT ![s] = Created(a)]
  BY DEF AdvertisingReport
<1>2. TypeOK'
  BY <1>1, ObserveIs
  DEF IInv, TypeOK, AdvertisingReport, hog_connect, Created, scan, Record, Handle0
<1>3. ScanStaysOff'
  BY DEF IInv, ScanStaysOff, AdvertisingReport, hog_connect, scan
<1>4. \A t \in Slot : /\ t = s => /\ g_devices'[t].addr = a
                                  /\ g_devices'[t].timer
                      /\ t # s => g_devices'[t] = g_devices[t]
  BY <1>1 DEF IInv, TypeOK, Created
<1>5. \A t \in Slot : g_devices[t].addr # a
  BY NotFound DEF AdvertisingReport
<1>6. Waiting'
  BY <1>4 DEF IInv, Waiting, InUse, Slot
<1>7. OneRecordEach'
  BY <1>4, <1>5 DEF IInv, OneRecordEach, InUse, Slot
<1> QED
  BY <1>2, <1>3, <1>6, <1>7 DEF IInv

(* Forgetting a record frees it (uni_hid_device.c:442-507).                *)
LEMMA ForgetKeeps ==
    ASSUME IInv, NEW s \in Slot, Forget(s)
    PROVE  IInv'
<1>1. /\ phase' \in [Handles -> {"none", "pairing", "info", "hids"}]
      /\ gapScan' \in BOOLEAN
      /\ gapScan' \in {gapScan, FALSE, Resumed}
  BY DisconnectKeeps DEF Forget, IInv, TypeOK
<1>2. TypeOK'
  BY <1>1, ObserveIs DEF IInv, TypeOK, Forget, scan, Free, Record
<1>3. ScanKept
  BY <1>1 DEF Forget, ScanKept
<1>4. RecordsGo
  BY DEF IInv, TypeOK, Forget, RecordsGo, Goes, Free
<1> QED
  BY <1>2, <1>3, <1>4, KeptByGoing DEF IInv

LEMMA NextIInv == IInv /\ [Next]_vars => IInv'
<1> SUFFICES ASSUME IInv, [Next]_vars PROVE IInv'
  OBVIOUS
<1> USE DEF IInv
<1>1. ASSUME NEW b \in BOOLEAN, StartScanning(b) \/ SetEnabled(b) PROVE IInv'
  <2>1. /\ bt_scanning_enabled' \in BOOLEAN /\ ble_enabled' \in BOOLEAN
        /\ is_scanning' \in BOOLEAN /\ gapScan' \in BOOLEAN /\ obeyed' \in BOOLEAN
        /\ UNCHANGED <<connecting, link, phase, g_devices, mixed>>
    BY <1>1 DEF TypeOK, StartScanning, SetEnabled, controller, records
  <2>2. ScanStaysOff'
    BY <1>1 DEF TypeOK, StartScanning, SetEnabled, ScanStaysOff
  <2> QED
    BY <2>1, <2>2 DEF TypeOK, Waiting, OneRecordEach, InUse
<1>2. ASSUME NEW a \in Addr, AdvertisingReport(a) PROVE IInv'
  BY <1>2, AdvertisingKeeps
<1>3. ASSUME NEW h \in Handles, ConnectionComplete(h) PROVE IInv'
  <2>1. TypeOK'
    BY <1>3, ObserveIs DEF TypeOK, ConnectionComplete, scan, Record, Handle0
  <2>2. ScanKept /\ RecordsGo
    BY <1>3 DEF TypeOK, ConnectionComplete, ScanKept, RecordsGo, Goes, Record
  <2> QED
    BY <2>1, <2>2, KeptByGoing
<1>4. ASSUME NEW h \in Handles, \/ Paired(h) \/ PairingFails(h) \/ EncryptionFails(h)
                                \/ InfoFails(h) \/ HidFails(h)
      PROVE  IInv'
  <2>1. /\ phase' \in [Handles -> {"none", "pairing", "info", "hids"}]
        /\ gapScan' \in BOOLEAN
        /\ gapScan' \in {gapScan, FALSE, Resumed}
        /\ UNCHANGED <<connecting, link, g_devices, mixed>>
        /\ UNCHANGED scan
    BY <1>4, DisconnectKeeps
    DEF TypeOK, Paired, PairingFails, EncryptionFails, InfoFails, HidFails, records
  <2>2. TypeOK'
    BY <2>1 DEF TypeOK, scan
  <2>3. ScanKept /\ RecordsGo
    BY <2>1 DEF ScanKept, RecordsGo, Goes
  <2> QED
    BY <2>2, <2>3, KeptByGoing
<1>5. ASSUME NEW h \in Handles, InfoDone(h) PROVE IInv'
  <2>1. TypeOK'
    BY <1>5, ObserveIs DEF TypeOK, InfoDone, scan, Record, Handle0
  <2>2. ScanKept /\ RecordsGo
    BY <1>5 DEF TypeOK, InfoDone, ScanKept, RecordsGo, Goes, Record
  <2> QED
    BY <2>1, <2>2, KeptByGoing
<1>6. ASSUME NEW h \in Handles, HidConnected(h) PROVE IInv'
  <2>1. \A s \in Slot : g_devices'[s] \in {g_devices[s], Pending(g_devices[s]),
                                          Ready(g_devices[s]), Free}
    BY <1>6 DEF TypeOK, HidConnected, SetReady, records
  <2>2. /\ gapScan' \in BOOLEAN
        /\ ScanKept
    BY <1>6, ResumedStaysOff DEF TypeOK, HidConnected, ScanKept
  <2>3. \A s \in Slot : g_devices'[s] \in Record /\ Goes(g_devices[s], g_devices'[s])
    <3> SUFFICES ASSUME NEW s \in Slot
                 PROVE  g_devices'[s] \in Record /\ Goes(g_devices[s], g_devices'[s])
      OBVIOUS
    <3>1. g_devices[s] \in Record
      BY DEF TypeOK
    <3> QED
      BY <2>1, <3>1, RecordUpdates, Zenon
  <2>4. TypeOK'
    <3>1. g_devices' = [s \in Slot |-> g_devices'[s]]
      BY <1>6 DEF HidConnected, TypeOK, records
    <3>2. g_devices' \in [Slot -> Record]
      BY <2>3, <3>1, Zenon
    <3>3. /\ UNCHANGED <<connecting, link>> /\ UNCHANGED scan
          /\ mixed' \in BOOLEAN
      BY <1>6, ObserveIs DEF HidConnected, records, TypeOK
    <3>4. phase' \in [Handles -> {"none", "pairing", "info", "hids"}]
      BY <1>6 DEF HidConnected, TypeOK, Closing
    <3> QED
      BY <2>2, <3>2, <3>3, <3>4 DEF TypeOK, scan
  <2>5. RecordsGo
    BY <2>3 DEF RecordsGo
  <2> QED
    BY <2>2, <2>4, <2>5, KeptByGoing
<1>7. ASSUME NEW h \in Handles, DisconnectionComplete(h) PROVE IInv'
  <2>1. /\ gapScan' \in BOOLEAN
        /\ ScanKept
    BY <1>7, ResumedStaysOff DEF TypeOK, DisconnectionComplete, ScanKept
  <2>2. \A s \in Slot : \/ g_devices'[s] = Free
                        \/ g_devices'[s] = [g_devices[s] EXCEPT !.hids_cid = Invalid]
                        \/ g_devices'[s] = g_devices[s]
    BY <1>7 DEF DisconnectionComplete
  <2>3. \A s \in Slot : g_devices'[s] \in Record /\ Goes(g_devices[s], g_devices'[s])
    <3> SUFFICES ASSUME NEW s \in Slot
                 PROVE  g_devices'[s] \in Record /\ Goes(g_devices[s], g_devices'[s])
      OBVIOUS
    <3>1. g_devices[s] \in Record
      BY DEF TypeOK
    <3> QED
      BY <2>2, <3>1, RecordUpdates, Zenon
  <2>4. TypeOK'
    <3>1. g_devices' = [s \in Slot |-> g_devices'[s]]
      BY <1>7 DEF DisconnectionComplete
    <3>2. g_devices' \in [Slot -> Record]
      BY <2>3, <3>1, Zenon
    <3>3. /\ link' = [link EXCEPT ![h] = NoAddr] /\ phase' = [phase EXCEPT ![h] = "none"]
          /\ UNCHANGED connecting /\ UNCHANGED scan /\ mixed' \in BOOLEAN
      BY <1>7, ObserveIs DEF DisconnectionComplete
    <3> QED
      BY <2>1, <3>2, <3>3 DEF TypeOK, scan
  <2>5. RecordsGo
    BY <2>3 DEF RecordsGo
  <2> QED
    BY <2>1, <2>4, <2>5, KeptByGoing
<1>8. ASSUME NEW s \in Slot, SetReadyComplete(s) PROVE IInv'
  <2>1. CASE Forget(s)
    BY <2>1, ForgetKeeps
  <2>2. CASE /\ g_devices' = [g_devices EXCEPT ![s] = Ready(g_devices[s])]
             /\ UNCHANGED <<gapScan, mixed>> /\ UNCHANGED controller /\ UNCHANGED scan
    <3>1. Ready(g_devices[s]) \in Record /\ Goes(g_devices[s], Ready(g_devices[s]))
      BY RecordUpdates DEF TypeOK
    <3>2. TypeOK'
      BY <2>2, <3>1 DEF TypeOK, scan, controller
    <3>3. ScanKept /\ RecordsGo
      BY <2>2, <3>1 DEF TypeOK, ScanKept, RecordsGo, Goes
    <3> QED
      BY <3>2, <3>3, KeptByGoing
  <2> QED
    BY <1>8, <2>1, <2>2 DEF SetReadyComplete
<1>9. ASSUME NEW s \in Slot, ConnectionTimeout(s) \/ DisconnectDevice(s) PROVE IInv'
  BY <1>9, ForgetKeeps DEF ConnectionTimeout, DisconnectDevice
<1>10. CASE UNCHANGED vars
  BY <1>10 DEF vars, TypeOK, ScanStaysOff, Waiting, OneRecordEach, InUse
<1> QED
  BY <1>1, <1>2, <1>3, <1>4, <1>5, <1>6, <1>7, <1>8, <1>9, <1>10 DEF Next

-----------------------------------------------------------------------------
(* The host's state keeps its type, for every number of records, gamepads  *)
(* and handles (uni_bt_le.c, uni_hid_device.c).                            *)
THEOREM TypeCorrect == Spec => []TypeOK
<1>1. IInv => TypeOK
  BY DEF IInv
<1> QED
  BY <1>1, InitIInv, NextIInv, PTL DEF Spec

(* No handler turns the scan back on once it has been disabled             *)
(* (uni_bt_le.c:96-102).                                                   *)
THEOREM ScanStaysOffAlways == Spec => []ScanStaysOff
<1>1. IInv => ScanStaysOff
  BY DEF IInv
<1> QED
  BY <1>1, InitIInv, NextIInv, PTL DEF Spec

(* No gamepad has two records (uni_bt_le.c:752-824).                       *)
THEOREM OneRecordEachAlways == Spec => []OneRecordEach
<1>1. IInv => OneRecordEach
  BY DEF IInv
<1> QED
  BY <1>1, InitIInv, NextIInv, PTL DEF Spec

-----------------------------------------------------------------------------
(***************************************************************************)
(* Links and records.  A zeroed record holds handle 0, which may be that   *)
(* of another gamepad's link.  Base is what survives that: handles other   *)
(* than 0 and the clients of their links are never mistaken.  Clean is     *)
(* what holds as long as handle 0 has not been mixed up either.            *)
(***************************************************************************)
RecBase(r, lk) ==
    /\ r.handle # Invalid <=> r.addr # NoAddr
    /\ r.state = "none" <=> r.addr = NoAddr
    /\ r.handle # Invalid /\ r.handle # 0 => r.handle \in Handles /\ lk[r.handle] = r.addr
    /\ r.hids_cid # Invalid => r.addr # NoAddr /\ (r.hids_cid = r.handle \/ r.hids_cid = 0)

RecClean(r, lk, ph) ==
    /\ r.handle = 0 /\ 0 \in Handles => lk[0] \in {NoAddr, r.addr}
    /\ r.hids_cid # Invalid => r.handle = r.hids_cid /\ lk[r.hids_cid] = r.addr
    /\ r.state \in {"pending", "ready"} => r.hids_cid # Invalid
    /\ r.handle \in Handles => ph[r.handle] = "none" \/ r.state = "discovered"
    /\ r.state = "pending" => r.timer

(* A gamepad that is being connected has no link yet; a handle that        *)
(* something is awaited on has one.                                        *)
NotYetLinked == connecting # NoAddr => \A h \in Handles : link[h] # connecting
PhaseLinked == \A h \in Handles : phase[h] # "none" => link[h] # NoAddr

BaseRecords == \A s \in Slot : RecBase(g_devices[s], link)
Base == BaseRecords /\ NotYetLinked /\ PhaseLinked
Clean == \A s \in Slot : RecClean(g_devices[s], link, phase)

LInv == IInv /\ Base /\ (mixed \/ Clean)

-----------------------------------------------------------------------------
(* A free record has nothing that could be mistaken. *)
LEMMA FreeIs ==
    ASSUME NEW lk, NEW ph
    PROVE  RecBase(Free, lk) /\ RecClean(Free, lk, ph)
BY BleAssumption DEF Free, RecBase, RecClean

LEMMA UnusedIs ==
    ASSUME NEW r \in Record, NEW lk, NEW ph, RecBase(r, lk), r.addr = NoAddr
    PROVE  RecClean(r, lk, ph)
BY BleAssumption DEF RecBase, RecClean, Record

(* A step either finds handle 0 mixed up, or leaves no record in use, or   *)
(* started and ended with handle 0 being clear.                            *)
LEMMA CleanBy ==
    ASSUME IInv', Base', mixed \/ Clean, Observe, Clean /\ ~Mixed' => Clean'
    PROVE  mixed' \/ Clean'
<1> SUFFICES ASSUME ~mixed' PROVE Clean'
  OBVIOUS
<1>1. CASE ~mixed
  <2>1. ~Mixed'
    BY ObserveIs
  <2> QED
    BY <1>1, <2>1
<1>2. CASE mixed
  <2>1. \A s \in Slot : ~InUse(s)'
    BY <1>2, ObserveIs, Zenon
  <2>2. ASSUME NEW s \in Slot PROVE RecClean(g_devices[s], link, phase)'
    BY <2>1, UnusedIs DEF IInv, TypeOK, Base, BaseRecords, InUse
  <2> QED
    BY <2>2 DEF Clean
<1> QED
  BY <1>1, <1>2

(* An update of a record that leaves its handle and its address: what must *)
(* hold of the rest.                                                       *)
LEMMA QuietKeeps ==
    ASSUME LInv, IInv', UNCHANGED <<connecting, link>>, mixed' = mixed \/ Observe,
           \A h \in Handles : phase'[h] # "none" => phase[h] # "none",
           \A s \in Slot : g_devices'[s] \in {g_devices[s], Free}
    PROVE  Base' /\ (mixed' \/ Clean')
<1>1. Base'
  <2>1. BaseRecords'
    <3>1. ASSUME NEW s \in Slot PROVE RecBase(g_devices'[s], link')
      <4>1. RecBase(g_devices[s], link) /\ RecBase(Free, link)
        BY FreeIs DEF LInv, Base, BaseRecords
      <4>2. g_devices'[s] = g_devices[s] \/ g_devices'[s] = Free
        OBVIOUS
      <4> QED
        BY <4>1, <4>2
    <3> QED
      BY <3>1 DEF BaseRecords
  <2>2. NotYetLinked' /\ PhaseLinked'
    BY DEF LInv, Base, NotYetLinked, PhaseLinked
  <2> QED
    BY <2>1, <2>2 DEF Base
<1>2. ASSUME Clean PROVE Clean'
  <2>1. ASSUME NEW s \in Slot PROVE RecClean(g_devices'[s], link', phase')
    <3>1. CASE g_devices'[s] = Free
      BY <3>1, FreeIs
    <3>2. CASE g_devices'[s] = g_devices[s]
      BY <1>2, <3>2 DEF Clean, RecClean
    <3> QED
      BY <3>1, <3>2
  <2> QED
    BY <2>1 DEF Clean
<1>3. CASE mixed' = mixed
  BY <1>1, <1>2, <1>3 DEF LInv
<1>4. CASE Observe
  BY <1>1, <1>2, <1>4, CleanBy DEF LInv
<1> QED
  BY <1>3, <1>4

(* A lookup finds a record that matches. *)
LEMMA FoundIs ==
    ASSUME NEW S \in SUBSET Slot, NEW s \in First(S)
    PROVE  s \in S
<1> DEFINE R == OpToRel(<, Nat)
<1>1. S # {} /\ s = Min(S) /\ S \subseteq Nat
  BY BleAssumption DEF First, Slot
<1>2. IsWellFoundedOn(R, Nat)
  BY NatLessThanWellFounded
<1>3. \A x, y \in Nat : x < y => <<x, y>> \in R
  BY DEF OpToRel
<1> HIDE DEF R
<1>4. PICK x \in S : \A y \in S : <<y, x>> \notin R
  BY <1>1, <1>2, WFMin, Zenon
<1>5. \A y \in S : ~(y < x)
  BY <1>1, <1>3, <1>4, Zenon
<1>6. \A y \in S : x <= y
  BY <1>1, <1>5
<1> QED
  BY <1>1, <1>6 DEF Min

(* A lookup of which there is at most one finds it, or nothing.            *)
LEMMA FirstOfOne ==
    ASSUME NEW S \in SUBSET Slot, \A t, u \in S : t = u
    PROVE  First(S) = S
<1>1. CASE S = {}
  BY <1>1 DEF First
<1>2. CASE S # {}
  <2>1. PICK s \in S : S = {s}
    BY <1>2
  <2>2. s \in Nat
    BY BleAssumption DEF Slot
  <2>3. Min(S) = s
    BY <2>1, <2>2 DEF Min
  <2> QED
    BY <2>1, <2>3 DEF First
<1> QED
  BY <1>1, <1>2

(* What a record of a gamepad with no link can be, and one with a handle.  *)
LEMMA ForAddressIs == \A a : \A s \in ForAddress(a) : s \in Slot /\ g_devices[s].addr = a
BY FoundIs DEF ForAddress
LEMMA ForHandleIs == \A h : \A s \in ForHandle(h) : s \in Slot /\ g_devices[s].handle = h
BY FoundIs DEF ForHandle
LEMMA ForCidIs == \A c : \A s \in ForCid(c) : s \in Slot /\ g_devices[s].hids_cid = c
BY FoundIs DEF ForCid

(* The record of a handle is the only one with it: of any handle but 0,    *)
(* and of handle 0 as long as it has not been mixed up.                    *)
LEMMA OneOfHandle ==
    ASSUME LInv, NEW h \in Handles, link[h] # NoAddr, h # 0 \/ Clean
    PROVE  ForHandle(h) = {s \in Slot : g_devices[s].handle = h}
<1>1. ASSUME NEW s \in Slot, g_devices[s].handle = h
      PROVE  g_devices[s].addr = link[h] /\ InUse(s)
  <2>1. RecBase(g_devices[s], link) /\ (Clean => RecClean(g_devices[s], link, phase))
    BY DEF LInv, Base, BaseRecords, Clean
  <2> QED
    BY <1>1, <2>1, BleAssumption DEF RecBase, RecClean, InUse
<1>2. \A t, u \in {s \in Slot : g_devices[s].handle = h} : t = u
  BY <1>1 DEF LInv, IInv, OneRecordEach
<1> QED
  BY <1>2, FirstOfOne DEF ForHandle

(* An advertisement: a zeroed record for a gamepad without a link.         *)
LEMMA AdvertisingLinks ==
    ASSUME LInv, IInv', NEW a \in Addr, AdvertisingReport(a)
    PROVE  Base' /\ (mixed' \/ Clean')
<1> USE DEF LInv, IInv, TypeOK
<1>1. PICK s \in ForAddress(NoAddr) :
        g_devices' = [g_devices EXCEPT ![s] = Created(a)]
  BY DEF AdvertisingReport
<1>2. s \in Slot
  BY ForAddressIs
<1>3. /\ UNCHANGED <<link, phase>> /\ Observe
      /\ connecting' \in {connecting, a} /\ \A h \in Handles : link[h] # a
  BY DEF AdvertisingReport, hog_connect
<1>4. \A t \in Slot : g_devices'[t] = IF t = s THEN Created(a) ELSE g_devices[t]
  BY <1>1
<1>5. RecBase(Created(a), link)
  BY BleAssumption DEF RecBase, Created
<1>6. BaseRecords'
  <2>1. ASSUME NEW t \in Slot PROVE RecBase(g_devices'[t], link')
    BY <1>3, <1>4, <1>5, Zenon DEF Base, BaseRecords
  <2> QED
    BY <2>1 DEF BaseRecords
<1>7. NotYetLinked' /\ PhaseLinked'
  BY <1>3 DEF Base, NotYetLinked, PhaseLinked
<1>8. Base'
  BY <1>6, <1>7 DEF Base
<1>9. ASSUME Clean, ~Mixed' PROVE Clean'
  <2>1. ASSUME NEW t \in Slot, t # s PROVE RecClean(g_devices'[t], link', phase')
    BY <1>3, <1>4, <1>9, <2>1, Zenon DEF Clean
  <2>2. g_devices'[s] = Created(a) /\ g_devices'[s].handle = 0 /\ g_devices'[s].addr = a
    BY <1>2, <1>4 DEF Created
  <2>3. 0 \in Handles => link'[0] \in {NoAddr, a}
    BY <1>2, <1>9, <2>2, BleAssumption DEF Mixed, IsLink, InUse
  <2>4. RecClean(g_devices'[s], link', phase')
    BY <1>3, <2>2, <2>3 DEF Created, RecClean
  <2> QED
    BY <2>1, <2>4 DEF Clean
<1> QED
  BY <1>3, <1>8, <1>9, CleanBy

(* A connection: its gamepad had no link, so its record had neither a      *)
(* handle other than 0 nor a client that it could lose.                    *)
LEMMA ConnectionLinks ==
    ASSUME LInv, IInv', NEW h \in Handles, ConnectionComplete(h)
    PROVE  Base' /\ (mixed' \/ Clean')
<1> USE DEF LInv, IInv, TypeOK
<1>1. /\ connecting \in Addr /\ connecting # NoAddr /\ link[h] = NoAddr
      /\ link' = [link EXCEPT ![h] = connecting] /\ connecting' = NoAddr
      /\ phase' \in [Handles -> {"none", "pairing", "info", "hids"}]
      /\ \A k \in Handles : phase'[k] # "none" => k = h \/ phase[k] # "none"
      /\ Observe
  BY DEF ConnectionComplete
<1>2. \A k \in Handles : link[k] # connecting
  BY <1>1 DEF Base, NotYetLinked
<1>3. \A s \in Slot :
        /\ g_devices'[s].addr = g_devices[s].addr
        /\ g_devices'[s].hids_cid = g_devices[s].hids_cid
        /\ g_devices'[s].state = g_devices[s].state
        /\ g_devices'[s].timer = g_devices[s].timer
        /\ \/ g_devices'[s].handle = g_devices[s].handle
           \/ g_devices'[s].handle = h /\ g_devices[s].addr = connecting
  BY ForAddressIs DEF ConnectionComplete, Record
<1>4. ASSUME NEW s \in Slot
      PROVE  /\ RecBase(g_devices[s], link)
             /\ g_devices[s] \in Record
             /\ g_devices[s].handle # 0 => g_devices[s].handle # h
  <2>1. RecBase(g_devices[s], link)
    BY DEF Base, BaseRecords
  <2> QED
    BY <1>1, <2>1, BleAssumption DEF RecBase
<1>5. ASSUME NEW s \in Slot, g_devices[s].addr = connecting
      PROVE  g_devices[s].handle = 0 /\ g_devices[s].hids_cid \in {0, Invalid}
  <2>1. g_devices[s].handle = 0
    BY <1>1, <1>2, <1>4, <1>5, BleAssumption DEF RecBase
  <2> QED
    BY <1>4, <2>1 DEF RecBase
<1>6. Base'
  <2>1. ASSUME NEW s \in Slot PROVE RecBase(g_devices'[s], link')
    <3>1. CASE g_devices'[s].handle = h /\ g_devices[s].addr = connecting
      BY <1>1, <1>3, <1>4, <1>5, <3>1, BleAssumption DEF RecBase
    <3>2. CASE g_devices'[s].handle = g_devices[s].handle
      <4>1. g_devices[s].handle \in Handles /\ g_devices[s].handle # 0
              => link'[g_devices[s].handle] = link[g_devices[s].handle]
        BY <1>1, <1>4
      <4> QED
        BY <1>3, <1>4, <3>2, <4>1 DEF RecBase
    <3> QED
      BY <1>3, <3>1, <3>2
  <2>2. NotYetLinked' /\ PhaseLinked'
    BY <1>1 DEF Base, NotYetLinked, PhaseLinked
  <2> QED
    BY <2>1, <2>2 DEF Base, BaseRecords
<1>7. ASSUME Clean, ~Mixed' PROVE Clean'
  <2>1. ASSUME NEW s \in Slot PROVE RecClean(g_devices'[s], link', phase')
    <3> DEFINE r == g_devices[s]
               q == g_devices'[s]
    <3>1. RecClean(r, link, phase) /\ r \in Record /\ q \in Record
      BY <1>4, <1>7 DEF Clean
    <3>2. q.handle = 0 /\ 0 \in Handles => link'[0] \in {NoAddr, q.addr}
      <4>1. q.handle = 0 => q.addr # NoAddr
        BY <1>6, BleAssumption DEF Base, BaseRecords, RecBase
      <4> QED
        BY <1>7, <4>1 DEF Mixed, IsLink, InUse
    <3>3. r.addr = connecting => r.hids_cid = Invalid
      BY <1>1, <1>2, <1>5, <3>1 DEF RecClean, Record
    <3>4. q.hids_cid # Invalid => q.handle = q.hids_cid /\ link'[q.hids_cid] = q.addr
      <4>1. r.hids_cid # Invalid => /\ r.handle = r.hids_cid /\ link[r.hids_cid] = r.addr
                                    /\ r.hids_cid \in Handles /\ r.addr # NoAddr
        BY <1>4, <3>1 DEF RecClean, RecBase, Record
      <4>2. r.hids_cid # Invalid => r.hids_cid # h
        BY <1>1, <4>1
      <4>3. q.hids_cid = r.hids_cid /\ q.addr = r.addr
        BY <1>3
      <4>4. q.hids_cid # Invalid => q.handle = r.handle
        BY <1>3, <3>3, <4>3
      <4> QED
        BY <1>1, <4>1, <4>2, <4>3, <4>4
    <3>5. q.state \in {"pending", "ready"} => q.hids_cid # Invalid
      BY <1>3, <3>1 DEF RecClean
    <3>6. q.handle \in Handles => phase'[q.handle] = "none" \/ q.state = "discovered"
      <4>1. CASE r.addr = connecting
        BY <1>1, <1>3, <1>4, <3>1, <3>3, <4>1 DEF RecClean, RecBase, Record
      <4>2. CASE r.addr # connecting
        <5>1. q.handle = r.handle /\ q.state = r.state /\ q.addr = r.addr
          BY <1>3, <4>2
        <5>2. q.handle # h
          <6>1. CASE q.handle = 0
            BY <1>1, <1>4, <3>2, <4>2, <5>1, <6>1, BleAssumption DEF RecBase
          <6>2. CASE q.handle # 0
            BY <1>4, <5>1, <6>2
          <6> QED
            BY <6>1, <6>2
        <5> QED
          BY <1>1, <3>1, <5>1, <5>2 DEF RecClean
      <4> QED
        BY <4>1, <4>2
    <3>7. q.state = "pending" => q.timer
      BY <1>3, <3>1 DEF RecClean
    <3> QED
      BY <3>2, <3>4, <3>5, <3>6, <3>7 DEF RecClean
  <2> QED
    BY <2>1 DEF Clean
<1> QED
  BY <1>1, <1>6, <1>7, CleanBy

(* The client of a link goes to a record that has its handle.              *)
LEMMA InfoDoneLinks ==
    ASSUME LInv, IInv', NEW h \in Handles, InfoDone(h)
    PROVE  Base' /\ (mixed' \/ Clean')
<1> USE DEF LInv, IInv, TypeOK
<1>1. /\ UNCHANGED <<link, connecting>> /\ Observe /\ link[h] # NoAddr
      /\ phase' \in [Handles -> {"none", "pairing", "info", "hids"}]
      /\ \A k \in Handles : phase'[k] # "none" => phase[k] # "none"
  BY DEF InfoDone, Base, PhaseLinked
<1>2. \A s \in Slot :
        /\ g_devices'[s].addr = g_devices[s].addr
        /\ g_devices'[s].handle = g_devices[s].handle
        /\ g_devices'[s].state = g_devices[s].state
        /\ g_devices'[s].timer = g_devices[s].timer
        /\ \/ g_devices'[s].hids_cid = g_devices[s].hids_cid
           \/ g_devices'[s].hids_cid = h /\ g_devices[s].handle = h
  BY ForHandleIs DEF InfoDone, Record
<1>3. Base'
  <2>1. ASSUME NEW s \in Slot PROVE RecBase(g_devices'[s], link')
    <3>1. RecBase(g_devices[s], link)
      BY DEF Base, BaseRecords
    <3> QED
      BY <1>1, <1>2, <3>1, BleAssumption DEF RecBase
  <2>2. NotYetLinked' /\ PhaseLinked'
    BY <1>1 DEF Base, NotYetLinked, PhaseLinked
  <2> QED
    BY <2>1, <2>2 DEF Base, BaseRecords
<1>4. ASSUME Clean PROVE Clean'
  <2>1. ASSUME NEW s \in Slot PROVE RecClean(g_devices'[s], link', phase')
    <3>1. RecClean(g_devices[s], link, phase) /\ RecBase(g_devices[s], link)
      BY <1>4 DEF Clean, Base, BaseRecords
    <3>2. g_devices[s].handle = h => link[h] = g_devices[s].addr
      BY <1>1, <3>1, BleAssumption DEF RecClean, RecBase
    <3> DEFINE r == g_devices[s]
               q == g_devices'[s]
    <3>3. /\ q.handle = r.handle /\ q.state = r.state /\ q.timer = r.timer /\ q.addr = r.addr
          /\ q.hids_cid = r.hids_cid \/ (q.hids_cid = h /\ r.handle = h)
      BY <1>2
    <3>4. RecClean(r, link, phase) /\ (r.handle = h => link[h] = r.addr)
      BY <3>1, <3>2
    <3>5. h # Invalid /\ link' = link /\ \A k \in Handles : phase[k] = "none" => phase'[k] = "none"
      BY <1>1, BleAssumption
    <3> HIDE DEF r, q
    <3>6. q.hids_cid # Invalid => q.handle = q.hids_cid /\ link[q.hids_cid] = q.addr
      BY <3>3, <3>4, <3>5 DEF RecClean
    <3>7. q.state \in {"pending", "ready"} => q.hids_cid # Invalid
      BY <3>3, <3>4, <3>5 DEF RecClean
    <3>8. RecClean(q, link', phase')
      BY <3>3, <3>4, <3>5, <3>6, <3>7 DEF RecClean
    <3> QED
      BY <3>8 DEF q
  <2> QED
    BY <2>1 DEF Clean
<1> QED
  BY <1>1, <1>3, <1>4, CleanBy

(* The end of a record: its link goes with it, if its handle names one.    *)
LEMMA ForgetLinks ==
    ASSUME LInv, IInv', NEW s \in Slot, Forget(s)
    PROVE  Base' /\ (mixed' \/ Clean')
<1>1. UNCHANGED <<connecting, link>> /\ Observe
  BY DEF Forget
<1>2. \A h \in Handles : phase'[h] # "none" => phase[h] # "none"
  BY DEF LInv, IInv, TypeOK, Forget, hog_disconnect, Closing
<1>3. \A t \in Slot : g_devices'[t] \in {g_devices[t], Free}
  BY DEF LInv, IInv, TypeOK, Forget
<1> QED
  BY <1>1, <1>2, <1>3, QuietKeeps

(* The record that a step of its link's client gets ready had been waiting *)
(* for it, unless handle 0 has been mixed up.                              *)
LEMMA GettingReady ==
    ASSUME NEW r \in Record, NEW q \in {Pending(r), Ready(r)},
           NEW lk, NEW ph, NEW ph2, RecBase(r, lk), r.hids_cid # Invalid
    PROVE  /\ RecBase(q, lk)
           /\ RecClean(r, lk, ph) /\ (r.handle \in Handles => ph2[r.handle] = "none")
                /\ (q = Ready(r) \/ r.timer) => RecClean(q, lk, ph2)
<1>1. /\ q.addr = r.addr /\ q.handle = r.handle /\ q.hids_cid = r.hids_cid
      /\ q.state \in {"pending", "ready"}
      /\ q.state = "pending" => q.timer = r.timer /\ q # Ready(r)
  BY DEF Pending, Ready, Record
<1>2. RecBase(q, lk)
  BY <1>1 DEF RecBase
<1>3. ASSUME RecClean(r, lk, ph), r.handle \in Handles => ph2[r.handle] = "none",
             q = Ready(r) \/ r.timer
      PROVE  RecClean(q, lk, ph2)
  BY <1>1, <1>3 DEF RecClean
<1> QED
  BY <1>2, <1>3

LEMMA HidConnectedLinks ==
    ASSUME LInv, IInv', NEW h \in Handles, HidConnected(h)
    PROVE  Base' /\ (mixed' \/ Clean')
<1> USE DEF LInv, IInv, TypeOK
<1>1. UNCHANGED <<connecting, link>> /\ phase[h] = "hids"
  BY DEF HidConnected
<1>2. CASE /\ phase' = [phase EXCEPT ![h] = "none"]
           /\ UNCHANGED <<gapScan, link>> /\ UNCHANGED records
  BY <1>1, <1>2, QuietKeeps DEF records
<1>3. ASSUME NEW s \in ForCid(h), NEW r \in SetReady(g_devices[s]),
             g_devices' = [g_devices EXCEPT ![s] = r],
             phase' = [(IF r = Free THEN Closing(g_devices[s].handle) ELSE phase)
                         EXCEPT ![h] = "none"],
             Observe
      PROVE  Base' /\ (mixed' \/ Clean')
  <2>1. s \in Slot /\ g_devices[s].hids_cid = h /\ h # Invalid
    BY ForCidIs, BleAssumption
  <2>2. /\ \A k \in Handles : phase'[k] # "none" => phase[k] # "none" /\ k # h
        /\ phase' \in [Handles -> {"none", "pairing", "info", "hids"}]
    BY <1>3 DEF Closing
  <2>3. CASE r \in {g_devices[s], Free}
    <3>1. \A t \in Slot : g_devices'[t] \in {g_devices[t], Free}
      BY <1>3, <2>1, <2>3
    <3> QED
      BY <1>1, <1>3, <2>2, <3>1, QuietKeeps
  <2>4. CASE r \in {Pending(g_devices[s]), Ready(g_devices[s])}
    <3> DEFINE d == g_devices[s]
    <3>1. d \in Record /\ RecBase(d, link) /\ g_devices'[s] = r
      BY <1>3, <2>1 DEF Base, BaseRecords
    <3>2. \A t \in Slot : t # s => g_devices'[t] = g_devices[t]
      BY <1>3
    <3>3. RecBase(r, link)
      BY <2>1, <2>4, <3>1, GettingReady
    <3>4. Base'
      <4>1. ASSUME NEW t \in Slot PROVE RecBase(g_devices'[t], link')
        <5>1. CASE t = s
          BY <1>1, <3>1, <3>3, <5>1
        <5>2. CASE t # s
          BY <1>1, <3>2, <5>2 DEF Base, BaseRecords
        <5> QED
          BY <5>1, <5>2
      <4>2. NotYetLinked' /\ PhaseLinked'
        BY <1>1, <2>2 DEF Base, NotYetLinked, PhaseLinked
      <4> QED
        BY <4>1, <4>2 DEF Base, BaseRecords
    <3>5. ASSUME Clean PROVE Clean'
      <4>1. RecClean(d, link, phase)
        BY <2>1, <3>5 DEF Clean
      <4>2. d.handle = h /\ d.state = "discovered" /\ d.addr # NoAddr
        BY <1>1, <2>1, <3>1, <4>1 DEF RecClean, RecBase
      <4>3. d.timer
        BY <2>1, <4>2 DEF Waiting, InUse
      <4>4. phase'[h] = "none"
        BY <2>2
      <4>5. RecClean(r, link, phase')
        BY <2>1, <2>4, <3>1, <4>1, <4>2, <4>3, <4>4, GettingReady
      <4>6. ASSUME NEW t \in Slot PROVE RecClean(g_devices'[t], link', phase')
        <5>1. CASE t = s
          BY <1>1, <3>1, <4>5, <5>1
        <5>2. CASE t # s
          BY <1>1, <2>2, <3>2, <3>5, <5>2 DEF Clean, RecClean
        <5> QED
          BY <5>1, <5>2
      <4> QED
        BY <4>6 DEF Clean
    <3> QED
      BY <1>3, <3>4, <3>5, CleanBy
  <2> QED
    BY <1>3, <2>3, <2>4 DEF SetReady
<1> QED
  BY <1>2, <1>3 DEF HidConnected

(* With a link go its client and the record that has its handle.           *)
LEMMA DisconnectionLinks ==
    ASSUME LInv, IInv', NEW h \in Handles, DisconnectionComplete(h)
    PROVE  Base' /\ (mixed' \/ Clean')
<1> USE DEF LInv, IInv, TypeOK
<1>1. /\ link' = [link EXCEPT ![h] = NoAddr] /\ connecting' = connecting /\ Observe
      /\ phase' = [phase EXCEPT ![h] = "none"] /\ link[h] # NoAddr
  BY DEF DisconnectionComplete, IsLink
<1>2. ASSUME NEW s \in Slot
      PROVE  /\ g_devices[s] \in Record /\ RecBase(g_devices[s], link)
             /\ \/ g_devices'[s] = Free
                \/ /\ s \notin ForHandle(h) /\ g_devices[s].hids_cid = h
                   /\ g_devices'[s] = [g_devices[s] EXCEPT !.hids_cid = Invalid]
                \/ /\ s \notin ForHandle(h) /\ g_devices[s].hids_cid # h
                   /\ g_devices'[s] = g_devices[s]
  BY DEF DisconnectionComplete, Base, BaseRecords
<1>3. ASSUME h # 0 \/ Clean, NEW s \in Slot, g_devices[s].handle = h
      PROVE  s \in ForHandle(h)
  BY <1>1, <1>3, OneOfHandle
<1>4. Base'
  <2>1. ASSUME NEW s \in Slot PROVE RecBase(g_devices'[s], link')
    <3> DEFINE r == g_devices[s]
    <3>1. CASE g_devices'[s] = Free
      BY <3>1, FreeIs
    <3>2. CASE s \notin ForHandle(h) /\ g_devices'[s].handle = r.handle
               /\ g_devices'[s].addr = r.addr /\ g_devices'[s].state = r.state
               /\ g_devices'[s].hids_cid \in {r.hids_cid, Invalid}
      <4>1. r.handle \in Handles /\ r.handle # 0 => link'[r.handle] = link[r.handle]
        BY <1>1, <1>3, <3>2
      <4> QED
        BY <1>2, <3>2, <4>1 DEF RecBase
    <3> QED
      BY <1>2, <3>1, <3>2 DEF Record
  <2>2. NotYetLinked' /\ PhaseLinked'
    BY <1>1 DEF Base, NotYetLinked, PhaseLinked
  <2> QED
    BY <2>1, <2>2 DEF Base, BaseRecords
<1>5. ASSUME Clean PROVE Clean'
  <2>1. ASSUME NEW s \in Slot PROVE RecClean(g_devices'[s], link', phase')
    <3> DEFINE r == g_devices[s]
    <3>1. CASE g_devices'[s] = Free
      BY <3>1, FreeIs
    <3>2. CASE g_devices'[s] # Free
      <4>1. RecClean(r, link, phase) /\ r \in Record /\ r.handle # h
        BY <1>2, <1>3, <1>5, <3>2, ForHandleIs DEF Clean
      <4>2. g_devices'[s] = r
        BY <1>2, <3>2, <4>1, BleAssumption DEF RecClean
      <4>3. \A k \in Handles : k # h => link'[k] = link[k] /\ phase'[k] = phase[k]
        BY <1>1
      <4>4. r.handle \in Handles
              => link'[r.handle] = link[r.handle] /\ phase'[r.handle] = phase[r.handle]
        BY <4>1, <4>3
      <4>5. r.hids_cid # Invalid => r.hids_cid \in Handles /\ r.hids_cid = r.handle
        BY <4>1 DEF RecClean, Record
      <4> QED
        BY <4>1, <4>2, <4>4, <4>5 DEF RecClean
    <3> QED
      BY <3>1, <3>2
  <2> QED
    BY <2>1 DEF Clean
<1> QED
  BY <1>1, <1>4, <1>5, CleanBy

(* A parser that completes its setup leaves its record's link alone.       *)
LEMMA SetReadyLinks ==
    ASSUME LInv, IInv', NEW s \in Slot, SetReadyComplete(s)
    PROVE  Base' /\ (mixed' \/ Clean')
<1> USE DEF LInv, IInv, TypeOK
<1> DEFINE r == g_devices[s]
<1>1. CASE Forget(s)
  BY <1>1, ForgetLinks
<1>2. CASE /\ g_devices' = [g_devices EXCEPT ![s] = Ready(g_devices[s])]
           /\ UNCHANGED <<gapScan, mixed>> /\ UNCHANGED controller /\ UNCHANGED scan
  <2>1. UNCHANGED <<connecting, link, phase, mixed>> /\ g_devices'[s] = Ready(r)
    BY <1>2 DEF controller
  <2>2. /\ Ready(r).addr = r.addr /\ Ready(r).handle = r.handle
        /\ Ready(r).hids_cid = r.hids_cid /\ Ready(r).state = "ready"
        /\ r.state = "pending" /\ RecBase(r, link)
    BY DEF Ready, Record, SetReadyComplete, Base, BaseRecords
  <2>3. Base'
    <3>1. ASSUME NEW t \in Slot PROVE RecBase(g_devices'[t], link')
      <4>1. CASE t = s
        BY <2>1, <2>2, <4>1 DEF RecBase
      <4>2. CASE t # s
        BY <1>2, <2>1, <4>2 DEF Base, BaseRecords
      <4> QED
        BY <4>1, <4>2
    <3>2. NotYetLinked' /\ PhaseLinked'
      BY <2>1 DEF Base, NotYetLinked, PhaseLinked
    <3> QED
      BY <3>1, <3>2 DEF Base, BaseRecords
  <2>4. ASSUME Clean PROVE Clean'
    <3>1. ASSUME NEW t \in Slot PROVE RecClean(g_devices'[t], link', phase')
      <4>1. CASE t = s
        <5>1. RecClean(r, link, phase)
          BY <2>4 DEF Clean
        <5> QED
          BY <2>1, <2>2, <4>1, <5>1 DEF RecClean
      <4>2. CASE t # s
        BY <1>2, <2>1, <2>4, <4>2 DEF Clean
      <4> QED
        BY <4>1, <4>2
    <3> QED
      BY <3>1 DEF Clean
  <2> QED
    BY <2>1, <2>3, <2>4
<1> QED
  BY <1>1, <1>2 DEF SetReadyComplete

LEMMA InitLInv == Init => LInv
<1> SUFFICES ASSUME Init PROVE LInv
  OBVIOUS
<1>1. \A s \in Slot : g_devices[s] = Free
  BY DEF Init
<1>2. Clean /\ BaseRecords
  BY <1>1, FreeIs DEF Clean, BaseRecords
<1>3. NotYetLinked /\ PhaseLinked
  BY DEF Init, NotYetLinked, PhaseLinked
<1> QED
  BY <1>2, <1>3, InitIInv DEF LInv, Base

LEMMA NextLInv == LInv /\ [Next]_vars => LInv'
<1> SUFFICES ASSUME LInv, [Next]_vars, IInv' PROVE Base' /\ (mixed' \/ Clean')
  BY NextIInv DEF LInv
<1>1. ASSUME UNCHANGED <<connecting, link, phase, g_devices, mixed>>
      PROVE  Base' /\ (mixed' \/ Clean')
  BY <1>1, QuietKeeps
<1>2. ASSUME NEW b \in BOOLEAN, StartScanning(b) \/ SetEnabled(b)
      PROVE  Base' /\ (mixed' \/ Clean')
  BY <1>1, <1>2 DEF StartScanning, SetEnabled, controller, records
<1>3. ASSUME NEW a \in Addr, AdvertisingReport(a) PROVE Base' /\ (mixed' \/ Clean')
  BY <1>3, AdvertisingLinks
<1>4. ASSUME NEW h \in Handles, ConnectionComplete(h) PROVE Base' /\ (mixed' \/ Clean')
  BY <1>4, ConnectionLinks
<1>5. ASSUME NEW h \in Handles, \/ Paired(h) \/ PairingFails(h) \/ EncryptionFails(h)
                                \/ InfoFails(h) \/ HidFails(h)
      PROVE  Base' /\ (mixed' \/ Clean')
  <2>1. UNCHANGED <<connecting, link, g_devices, mixed>>
    BY <1>5 DEF Paired, PairingFails, EncryptionFails, InfoFails, HidFails, records
  <2>2. \A k \in Handles : phase'[k] # "none" => phase[k] # "none"
    BY <1>5 DEF Paired, PairingFails, EncryptionFails, InfoFails, HidFails, hog_disconnect,
                Closing, LInv, IInv, TypeOK
  <2> QED
    BY <2>1, <2>2, QuietKeeps
<1>6. ASSUME NEW h \in Handles, InfoDone(h) PROVE Base' /\ (mixed' \/ Clean')
  BY <1>6, InfoDoneLinks
<1>7. ASSUME NEW h \in Handles, HidConnected(h) PROVE Base' /\ (mixed' \/ Clean')
  BY <1>7, HidConnectedLinks
<1>8. ASSUME NEW h \in Handles, DisconnectionComplete(h) PROVE Base' /\ (mixed' \/ Clean')
  BY <1>8, DisconnectionLinks
<1>9. ASSUME NEW s \in Slot, SetReadyComplete(s) PROVE Base' /\ (mixed' \/ Clean')
  BY <1>9, SetReadyLinks
<1>10. ASSUME NEW s \in Slot, ConnectionTimeout(s) \/ DisconnectDevice(s)
       PROVE  Base' /\ (mixed' \/ Clean')
  BY <1>10, ForgetLinks DEF ConnectionTimeout, DisconnectDevice
<1>11. CASE UNCHANGED vars
  BY <1>1, <1>11 DEF vars
<1> QED
  BY <1>2, <1>3, <1>4, <1>5, <1>6, <1>7, <1>8, <1>9, <1>10, <1>11 DEF Next

(* A record that is not ready has its connection timeout running, at least *)
(* until handle 0 has been mixed up (uni_hid_device.c:77-78, 244-245).     *)
THEOREM NoOrphanRecordAlways == Spec => []NoOrphanRecord
<1>1. LInv => NoOrphanRecord
  <2> SUFFICES ASSUME LInv, NEW s \in Slot, InUse(s), g_devices[s].state # "ready",
                      g_devices[s].state = "discovered" \/ ~mixed
               PROVE  g_devices[s].timer
    BY DEF NoOrphanRecord
  <2>1. CASE g_devices[s].state = "discovered"
    BY <2>1 DEF LInv, IInv, Waiting
  <2>2. CASE g_devices[s].state # "discovered"
    <3>1. g_devices[s] \in Record /\ RecBase(g_devices[s], link)
      BY DEF LInv, IInv, TypeOK, Base, BaseRecords
    <3>2. g_devices[s].state = "pending"
      BY <2>2, <3>1 DEF RecBase, Record, InUse
    <3> QED
      BY <2>2, <3>2 DEF LInv, Clean, RecClean
  <2> QED
    BY <2>1, <2>2
<1> QED
  BY <1>1, InitLInv, NextLInv, PTL DEF Spec

(* A gamepad that is ready has its link, whatever the handles: one whose   *)
(* handle is not 0 always, one with handle 0 until it has been mixed up    *)
(* (uni_bt_le.c:281-300, uni_bt.c:160-173).                                *)
THEOREM ReadyHasLinkAlways == Spec => []ReadyHasLink
<1>1. LInv => ReadyHasLink
  <2> SUFFICES ASSUME LInv, NEW s \in Slot, g_devices[s].state \in {"pending", "ready"},
                      g_devices[s].handle # 0 \/ ~mixed
               PROVE  /\ g_devices[s].handle \in Handles
                      /\ link[g_devices[s].handle] = g_devices[s].addr
    BY DEF ReadyHasLink
  <2>1. g_devices[s] \in Record /\ RecBase(g_devices[s], link)
    BY DEF LInv, IInv, TypeOK, Base, BaseRecords
  <2>2. CASE g_devices[s].handle # 0
    BY <2>1, <2>2 DEF RecBase
  <2>3. CASE ~mixed
    <3>1. RecClean(g_devices[s], link, phase)
      BY <2>3 DEF LInv, Clean
    <3> QED
      BY <2>1, <3>1 DEF RecClean, Record
  <2> QED
    BY <2>2, <2>3
<1> QED
  BY <1>1, InitLInv, NextLInv, PTL DEF Spec

(* The host gives up no link, and takes reports of no client, of another   *)
(* gamepad through a handle other than 0, nor through handle 0 until it    *)
(* has been mixed up (uni_bt_le.c:104-122, uni_hid_device.c:442-487).      *)
THEOREM OwnLinkOnlyAlways == Spec => []OwnLinkOnly
<1>1. LInv => OwnLinkOnly
  <2> SUFFICES ASSUME LInv, NEW s \in Slot, InUse(s)
               PROVE  LET h == g_devices[s].handle
                          c == g_devices[s].hids_cid
                      IN  /\ h # 0 => h \in Handles /\ link[h] = g_devices[s].addr
                          /\ c # Invalid /\ (c # 0 \/ ~mixed)
                                => c = h /\ link[c] = g_devices[s].addr
    BY DEF OwnLinkOnly
  <2>1. g_devices[s] \in Record /\ RecBase(g_devices[s], link)
    BY DEF LInv, IInv, TypeOK, Base, BaseRecords
  <2>2. ~mixed => RecClean(g_devices[s], link, phase)
    BY DEF LInv, Clean
  <2> QED
    BY <2>1, <2>2 DEF RecBase, RecClean, InUse
<1> QED
  BY <1>1, InitLInv, NextLInv, PTL DEF Spec
=============================================================================
