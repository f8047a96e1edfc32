------------------------------- MODULE BleHost -------------------------------
(***************************************************************************)
(* How the BTstack task finds, connects and forgets BLE gamepads           *)
(* (components/bluepad32/bt/uni_bt_le.c, uni_hid_device.c, uni_bt.c).      *)
(* One action per event handler, all of them on the BTstack task: a        *)
(* handler runs to its end before the next event is delivered.             *)
(*                                                                         *)
(* The state below the host (the controller's scan, its one outgoing       *)
(* connection and its links) is external; it is modelled from the gap_*    *)
(* calls of the code and the events the code handles.                      *)
(***************************************************************************)
EXTENDS Naturals, FiniteSets, FiniteSetsExt

CONSTANTS Addr,         \* BLE gamepads in range, now or later
          NoAddr,       \* the zero address of a free record
          MAX_DEVICES,  \* CONFIG_BLUEPAD32_MAX_DEVICES
          Handles,      \* connection handles the controller hands out, 0 or not
          Invalid       \* UNI_BT_CONN_HANDLE_INVALID; as a HIDS client, none (the
                        \* ids 0 and 0xffff, which no client has)

ASSUME BleAssumption == /\ MAX_DEVICES \in Nat \ {0}
                        /\ Handles \subseteq Nat
                        /\ NoAddr \notin Addr
                        /\ Invalid \notin Nat

VARIABLES bt_scanning_enabled, \* uni_bt.c: what was last asked for
          ble_enabled,         \* uni_bt_le.c: the console's switch
          is_scanning,         \* uni_bt_le.c: the BLE share of it
          gapScan,             \* the controller is scanning
          connecting,          \* target of the controller's outgoing connection
          link,                \* peer at the other end of each open handle
          phase,               \* what the host waits for on each handle
          g_devices,           \* the device records
          (* observed *)
          obeyed,              \* the last change of bt_scanning_enabled reached BLE
          mixed                \* handle 0 has meant two gamepads at once since
                               \* the records were last all free

vars == <<bt_scanning_enabled, ble_enabled, is_scanning, gapScan, connecting, link, phase,
          g_devices, obeyed, mixed>>
controller == <<connecting, link, phase>>
scan == <<bt_scanning_enabled, ble_enabled, is_scanning, obeyed>>
records == <<g_devices, mixed>>

Slot == 1 .. MAX_DEVICES
Handle0 == Handles \cup {0}

Record == [addr : Addr \cup {NoAddr}, handle : Handle0 \cup {Invalid},
           hids_cid : Handles \cup {Invalid}, state : {"none", "discovered", "pending", "ready"},
           timer : BOOLEAN]

(* uni_hid_device_init() *)
Free == [addr |-> NoAddr, handle |-> Invalid, hids_cid |-> Invalid, state |-> "none",
         timer |-> FALSE]

TypeOK == /\ bt_scanning_enabled \in BOOLEAN
          /\ ble_enabled \in BOOLEAN
          /\ is_scanning \in BOOLEAN
          /\ gapScan \in BOOLEAN
          /\ connecting \in Addr \cup {NoAddr}
          /\ link \in [Handles -> Addr \cup {NoAddr}]
          /\ phase \in [Handles -> {"none", "pairing", "info", "hids"}]
          /\ g_devices \in [Slot -> Record]
          /\ obeyed \in BOOLEAN
          /\ mixed \in BOOLEAN

(* BLE is set up at boot if the property says so; here it does. *)
Init == /\ bt_scanning_enabled = FALSE
        /\ ble_enabled = TRUE
        /\ is_scanning = FALSE
        /\ gapScan = FALSE
        /\ connecting = NoAddr
        /\ link = [h \in Handles |-> NoAddr]
        /\ phase = [h \in Handles |-> "none"]
        /\ g_devices = [s \in Slot |-> Free]
        /\ obeyed = TRUE
        /\ mixed = FALSE

-----------------------------------------------------------------------------
(* uni_hid_device_get_instance_for_*(): the lowest record that matches, as a set *)
First(S) == IF S = {} THEN {} ELSE {Min(S)}
ForAddress(a) == First({s \in Slot : g_devices[s].addr = a})
ForHandle(h)  == First({s \in Slot : g_devices[s].handle = h})
ForCid(c)     == First({s \in Slot : g_devices[s].hids_cid = c})

(* gap_get_connection_type(handle) = GAP_CONNECTION_LE *)
IsLink(h) == h \in Handles /\ link[h] # NoAddr

(* Handle 0 is that of a link and the zero left in another gamepad's record. *)
InUse(s) == g_devices[s].addr # NoAddr
Mixed == IsLink(0) /\ \E s \in Slot : /\ InUse(s) /\ g_devices[s].handle = 0
                                       /\ g_devices[s].addr # link[0]
Observe == mixed' = (Mixed' \/ (mixed /\ \E s \in Slot : InUse(s)'))

(* Mutant: the scan is resumed even if it has been disabled. *)
Mutant_Resumed == TRUE

(* resume_scanning_hint(): the value the controller's scan is left at *)
Resumed == IF is_scanning THEN TRUE ELSE gapScan

(* gap_disconnect(h): from here on only its disconnection is awaited. *)
Closing(h) == IF IsLink(h) THEN [phase EXCEPT ![h] = "none"] ELSE phase

(* hog_disconnect() *)
hog_disconnect(h) == /\ phase' = Closing(h)
                     /\ gapScan' = Resumed

-----------------------------------------------------------------------------
(* The console's ble_enable command, on a task of its own: a plain store. *)
SetEnabled(enabled) ==
    /\ ble_enabled # enabled
    /\ ble_enabled' = enabled
    /\ UNCHANGED <<bt_scanning_enabled, is_scanning, gapScan, obeyed>>
    /\ UNCHANGED controller /\ UNCHANGED records

(* start_scanning() with uni_bt_le_scan_start() and uni_bt_le_scan_stop(), *)
(* which do nothing while the switch is off.                               *)
StartScanning(enabled) ==
    /\ bt_scanning_enabled # enabled
    /\ bt_scanning_enabled' = enabled
    /\ is_scanning' = IF ble_enabled THEN enabled ELSE is_scanning
    /\ gapScan' = IF ble_enabled THEN enabled ELSE gapScan
    /\ obeyed' = ble_enabled
    /\ UNCHANGED ble_enabled /\ UNCHANGED controller /\ UNCHANGED records

(* uni_hid_device_create() starts the connection timeout, and zeroes the   *)
(* record, so that its handle is 0 and not the invalid one.                *)
Created(a) == [addr |-> a, handle |-> 0, hids_cid |-> Invalid, state |-> "discovered",
               timer |-> TRUE]

(* hog_connect() stops the scan; gap_connect() is refused while another    *)
(* connection is pending, and nobody looks at what it returns.             *)
hog_connect(a) == /\ gapScan' = FALSE
                  /\ connecting' = IF connecting = NoAddr THEN a ELSE connecting

(* Mutant: no connection timeout is started. *)
Mutant_AdvertisingReport_NoTimer(a) ==
    /\ gapScan
    /\ \A h \in Handles : link[h] # a
    /\ ForAddress(a) = {}
    /\ \E s \in ForAddress(NoAddr) :
         g_devices' = [g_devices EXCEPT ![s] = [Created(a) EXCEPT !.timer = FALSE]]
    /\ hog_connect(a)
    /\ UNCHANGED <<link, phase>> /\ UNCHANGED scan /\ Observe

(* Mutant: the gamepad may already have a record. *)
Mutant_AdvertisingReport_Again(a) ==
    /\ gapScan
    /\ \A h \in Handles : link[h] # a
    /\ \E s \in ForAddress(NoAddr) :
         g_devices' = [g_devices EXCEPT ![s] = Created(a)]
    /\ hog_connect(a)
    /\ UNCHANGED <<link, phase>> /\ UNCHANGED scan /\ Observe

(* uni_bt_le_on_gap_event_advertising_report(): an unknown gamepad gets a  *)
(* record, if there is one left, and is connected.                         *)
AdvertisingReport(a) ==
    /\ gapScan
    /\ \A h \in Handles : link[h] # a
    /\ ForAddress(a) = {}
    /\ \E s \in ForAddress(NoAddr) :
         g_devices' = [g_devices EXCEPT ![s] = Created(a)]
    /\ hog_connect(a)
    /\ UNCHANGED <<link, phase>> /\ UNCHANGED scan /\ Observe

(* HCI_SUBEVENT_LE_CONNECTION_COMPLETE *)
ConnectionComplete(h) ==
    /\ connecting # NoAddr
    /\ link[h] = NoAddr
    /\ link' = [link EXCEPT ![h] = connecting]
    /\ connecting' = NoAddr
    /\ LET d == ForAddress(connecting)
       IN  /\ phase' = [phase EXCEPT ![h] = IF d = {} THEN "none" ELSE "pairing"]
           /\ g_devices' = [s \in Slot |->
                IF s \in d THEN [g_devices[s] EXCEPT !.handle = h] ELSE g_devices[s]]
    /\ UNCHANGED gapScan /\ UNCHANGED scan /\ Observe

(* SM_EVENT_PAIRING_COMPLETE or SM_EVENT_REENCRYPTION_COMPLETE, success *)
Paired(h) == /\ phase[h] = "pairing"
             /\ IF ForAddress(link[h]) # {}
                THEN phase' = [phase EXCEPT ![h] = "info"] /\ UNCHANGED gapScan
                ELSE hog_disconnect(h)
             /\ UNCHANGED <<connecting, link>> /\ UNCHANGED records /\ UNCHANGED scan

(* Pairing failed: nothing is done, the connection timeout has to clean up. *)
PairingFails(h) == /\ phase[h] = "pairing"
                   /\ phase' = [phase EXCEPT ![h] = "none"]
                   /\ UNCHANGED <<gapScan, connecting, link>> /\ UNCHANGED records /\ UNCHANGED scan

(* A failed re-encryption, and an encryption change to "off". *)
EncryptionFails(h) == /\ phase[h] \in {"pairing", "info", "hids"}
                      /\ hog_disconnect(h)
                      /\ UNCHANGED <<connecting, link>> /\ UNCHANGED records /\ UNCHANGED scan

(* GATTSERVICE_SUBEVENT_DEVICE_INFORMATION_DONE: the record is looked up   *)
(* by handle and given the new HIDS client.                                *)
InfoDone(h) ==
    /\ phase[h] = "info"
    /\ LET d == ForHandle(h)
       IN  /\ phase' = [phase EXCEPT ![h] = IF d = {} THEN "none" ELSE "hids"]
           /\ g_devices' = [s \in Slot |->
                IF s \in d THEN [g_devices[s] EXCEPT !.hids_cid = h] ELSE g_devices[s]]
    /\ UNCHANGED <<gapScan, connecting, link>> /\ UNCHANGED scan /\ Observe

(* No device information, or no HIDS client to be had. *)
InfoFails(h) == /\ phase[h] = "info"
                /\ hog_disconnect(h)
                /\ UNCHANGED <<connecting, link>> /\ UNCHANGED records /\ UNCHANGED scan

(* uni_hid_device_set_ready(): unless one is pending already, the parser's *)
(* setup goes on or is over; in that case the platform takes the gamepad   *)
(* or declines it.  Nothing starts the timer again.                        *)
Pending(r) == [r EXCEPT !.state = "pending"]
Ready(r) == [r EXCEPT !.state = "ready", !.timer = FALSE]
SetReady(r) == IF r.state = "pending" THEN {r} ELSE {Pending(r), Ready(r), Free}

(* GATTSERVICE_SUBEVENT_HID_SERVICE_CONNECTED, for the record that holds   *)
(* the client; a declined one loses the link that its handle names.        *)
HidConnected(h) ==
    /\ phase[h] = "hids"
    /\ \/ /\ ForCid(h) = {}
          /\ phase' = [phase EXCEPT ![h] = "none"]
          /\ UNCHANGED <<gapScan, link>> /\ UNCHANGED records
       \/ \E s \in ForCid(h) : \E r \in SetReady(g_devices[s]) :
            /\ g_devices' = [g_devices EXCEPT ![s] = r]
            /\ phase' = [(IF r = Free THEN Closing(g_devices[s].handle) ELSE phase)
                           EXCEPT ![h] = "none"]
            /\ gapScan' = Resumed /\ UNCHANGED link /\ Observe
    /\ UNCHANGED connecting /\ UNCHANGED scan

HidFails(h) == /\ phase[h] = "hids"
               /\ phase' = [phase EXCEPT ![h] = "none"]
               /\ UNCHANGED <<gapScan, connecting, link>> /\ UNCHANGED records /\ UNCHANGED scan

(* Mutant: the record is kept. *)
Mutant_DisconnectionComplete(h) ==
    /\ IsLink(h)
    /\ link' = [link EXCEPT ![h] = NoAddr]
    /\ phase' = [phase EXCEPT ![h] = "none"]
    /\ gapScan' = IF ForHandle(h) = {} THEN gapScan ELSE Resumed
    /\ UNCHANGED <<connecting, g_devices>> /\ UNCHANGED scan /\ Observe

(* HCI_EVENT_DISCONNECTION_COMPLETE: the record found by handle is deleted *)
(* and the scan resumed; with no such record nothing happens.  The HIDS    *)
(* client is gone, its id is not used again.                               *)
DisconnectionComplete(h) ==
    /\ IsLink(h)
    /\ link' = [link EXCEPT ![h] = NoAddr]
    /\ phase' = [phase EXCEPT ![h] = "none"]
    /\ LET d == ForHandle(h)
       IN  /\ g_devices' = [s \in Slot |->
                CASE s \in d -> Free
                  [] s \notin d /\ g_devices[s].hids_cid = h
                     -> [g_devices[s] EXCEPT !.hids_cid = Invalid]
                  [] OTHER -> g_devices[s]]
           /\ gapScan' = IF d = {} THEN gapScan ELSE Resumed
    /\ UNCHANGED connecting /\ UNCHANGED scan /\ Observe

(* uni_hid_device_disconnect() and uni_hid_device_delete(): the link named *)
(* by the record's handle is closed, if there is one.                      *)
Forget(s) == LET h == g_devices[s].handle
             IN  /\ IF IsLink(h) THEN hog_disconnect(h) ELSE UNCHANGED <<phase, gapScan>>
                 /\ g_devices' = [g_devices EXCEPT ![s] = Free]
                 /\ UNCHANGED <<connecting, link>> /\ UNCHANGED scan /\ Observe

(* uni_hid_device_set_ready_complete() called by a parser: the timer goes, *)
(* and the platform takes the gamepad or declines it.                      *)
SetReadyComplete(s) ==
    /\ g_devices[s].state = "pending"
    /\ \/ /\ g_devices' = [g_devices EXCEPT ![s] = Ready(g_devices[s])]
          /\ UNCHANGED <<gapScan, mixed>> /\ UNCHANGED controller /\ UNCHANGED scan
       \/ Forget(s)

(* Mutant: the timeout only closes the link. *)
Mutant_ConnectionTimeout(s) ==
    /\ g_devices[s].timer
    /\ g_devices[s].state # "ready"
    /\ g_devices' = [g_devices EXCEPT ![s].timer = FALSE]
    /\ IF IsLink(g_devices[s].handle)
       THEN hog_disconnect(g_devices[s].handle) ELSE UNCHANGED <<phase, gapScan>>
    /\ UNCHANGED <<connecting, link>> /\ UNCHANGED scan /\ Observe

(* device_connection_timeout() after HID_DEVICE_CONNECTION_TIMEOUT_MS *)
ConnectionTimeout(s) == /\ g_devices[s].timer
                        /\ g_devices[s].state # "ready"
                        /\ Forget(s)

(* CMD_DISCONNECT_DEVICE, for a record in use; and the loss of a BR/EDR    *)
(* link with handle 0, for one that still holds that handle                *)
DisconnectDevice(s) == InUse(s) /\ Forget(s)

Next == \/ \E b \in BOOLEAN : StartScanning(b) \/ SetEnabled(b)
        \/ \E a \in Addr : AdvertisingReport(a)
        \/ \E h \in Handles : \/ ConnectionComplete(h) \/ Paired(h) \/ PairingFails(h)
                              \/ EncryptionFails(h) \/ InfoDone(h) \/ InfoFails(h)
                              \/ HidConnected(h) \/ HidFails(h) \/ DisconnectionComplete(h)
        \/ \E s \in Slot : \/ SetReadyComplete(s) \/ ConnectionTimeout(s)
                           \/ DisconnectDevice(s)

(* Timers expire; a gamepad is under no obligation to do anything. *)
Spec == Init /\ [][Next]_vars /\ \A s \in Slot : WF_vars(ConnectionTimeout(s))

-----------------------------------------------------------------------------
(* No handler turns the controller's scan on by itself, after a connection *)
(* attempt or a disconnection; and once a stop has got through to BLE,     *)
(* BLE does not scan (uni_bt_le.c:96-102, 929-945).                        *)
ScanStaysOff == /\ gapScan => is_scanning
                /\ ~bt_scanning_enabled /\ obeyed => ~is_scanning

(* A record that is not ready still has its timeout running, so no failure *)
(* on the way can leave it behind for good.  (Once handle 0 has been mixed *)
(* up a ready one may be asked to get ready again, without a timer.)       *)
(* (uni_hid_device.c:77-78, 207-226, 244-245.)                             *)
NoOrphanRecord == \A s \in Slot :
    InUse(s) /\ g_devices[s].state # "ready" /\ (g_devices[s].state = "discovered" \/ ~mixed)
        => g_devices[s].timer

(* A ready gamepad is one whose link is up.  Handle 0, which create leaves *)
(* in a record before there is a link, can only spoil this for records     *)
(* that still hold it, and not before it has meant two gamepads at once    *)
(* (uni_bt_le.c:281-300, uni_bt.c:160-173, uni_hid_device.c:74).           *)
ReadyHasLink == \A s \in Slot :
    g_devices[s].state \in {"pending", "ready"} /\ (g_devices[s].handle # 0 \/ ~mixed)
        => /\ g_devices[s].handle \in Handles
           /\ link[g_devices[s].handle] = g_devices[s].addr

(* What a record names is its own gamepad's: the host gives up no link of  *)
(* another one for it, and takes in no reports of another one, whatever    *)
(* has become of handle 0 (uni_bt_le.c:104-122, 184-216,                   *)
(* uni_hid_device.c:442-487).                                              *)
OwnLinkOnly == \A s \in Slot : InUse(s) =>
    LET h == g_devices[s].handle
        c == g_devices[s].hids_cid
    IN  /\ h # 0 => h \in Handles /\ link[h] = g_devices[s].addr
        /\ c # Invalid /\ (c # 0 \/ ~mixed) => c = h /\ link[c] = g_devices[s].addr

(* One gamepad, one record. *)
OneRecordEach == \A s, t \in Slot :
    s # t /\ InUse(s) => g_devices[s].addr # g_devices[t].addr

(* Every connection attempt comes to an end (uni_hid_device.c:968-981).    *)
AttemptEnds == \A s \in Slot :
    (g_devices[s].state = "discovered") ~> (g_devices[s].state # "discovered")

(* gamepad_input.h:57 "With no controller paired, Bluepad32 scans          *)
(* continuously": with no record in use, and the request to scan obeyed,   *)
(* the BLE scan is on.                                                     *)
ScansWhenAlone ==
    (bt_scanning_enabled /\ obeyed /\ \A s \in Slot : ~InUse(s)) => gapScan

(* A stop reaches BLE.  Not so while the console has BLE switched off.     *)
StopObeyed == ~bt_scanning_enabled => ~is_scanning

(* The handle of a record never leads to another gamepad.  Not so for the  *)
(* 0 that create() leaves in it.                                           *)
NeverMixed == ~mixed
=============================================================================
