------------------------------ MODULE BrEdrHost ------------------------------
(***************************************************************************)
(* How the BTstack task connects and forgets Bluetooth Classic gamepads    *)
(* (components/bluepad32/bt/uni_bt_bredr.c, uni_bt_sdp.c and               *)
(* uni_hid_device.c).  One action per event handler; a handler runs to its *)
(* end before the next event is delivered, and ends in the state machine   *)
(* uni_bt_bredr_process_fsm() of the record concerned.                     *)
(*                                                                         *)
(* A handler is a function of the host's state, a record called w here,    *)
(* so that the functions it calls compose: Fsm(w, s) is the state that     *)
(* uni_bt_bredr_process_fsm(&g_devices[s]) leaves behind when called in w. *)
(* The controller, L2CAP and the SDP client are external.                  *)
(***************************************************************************)
EXTENDS Naturals, FiniteSets, FiniteSetsExt

CONSTANTS Addr,         \* gamepads in range, now or later
          Found,        \* those that answer an inquiry
          Callers,      \* those that connect by themselves
          NoAddr,       \* the zero address of a free record; as a handle, none
          Zero,         \* the handle 0
          MAX_DEVICES,  \* CONFIG_BLUEPAD32_MAX_DEVICES
          MaxChannels,  \* L2CAP channels the memory has room for
          Names         \* names gamepads have, see NameKinds

NameKinds == {"other", "known", "Wireless Controller"}

ASSUME BrEdrAssumption == /\ MAX_DEVICES \in Nat \ {0}
                          /\ MaxChannels \in Nat \ {0}
                          /\ NoAddr \notin Addr
                          /\ Zero \notin Addr \cup {NoAddr}
                          /\ Found \subseteq Addr
                          /\ Callers \subseteq Addr
                          /\ Names \subseteq NameKinds

Slot == 1 .. MAX_DEVICES
Cid  == 1 .. MaxChannels
None == 0               \* no record, no channel
Psm  == {"control", "interrupt"}

VARIABLES host,         \* the state of the host: see Host
          link,         \* peers with an ACL link
          zero,         \* the peer whose link the controller has given handle 0, if any
          requested,    \* peers whose connection request is being accepted
          lost,         \* the peer whose loss is being reported
          dying         \* what has not been told of it: channels, None for SDP

vars == <<host, link, zero, requested, lost, dying>>
radio == <<link, zero, requested, lost, dying>>

BeforeReady == {"none", "discovered", "name_inquired", "name_fetched", "vendor_requested",
                "vendor_fetched", "hid_requested", "hid_fetched", "control_requested",
                "control_connected", "interrupt_requested", "interrupt_connected"}

(* The handle of a peer's link: one of its own, named by the peer, or 0.   *)
HandleOf(a) == IF a = zero THEN Zero ELSE a

(* uni_hid_device_t.  seat is the controller_idx of the platform's part of *)
(* the record, which is 0 in a zeroed record, although nothing has been    *)
(* assigned.                                                               *)
Record == [addr : Addr \cup {NoAddr}, handle : Addr \cup {NoAddr, Zero},
           state : BeforeReady \cup {"pending_ready", "ready"},
           incoming : BOOLEAN, name : NameKinds \cup {"none"},
           sdp_query_type : {"after", "before", "not_needed"}, connected : BOOLEAN,
           timer : BOOLEAN, name_timer : BOOLEAN,
           control : Cid \cup {None}, interrupt : Cid \cup {None},
           seat : {"zero", "none", "held"}]

Channel == [addr : Addr \cup {NoAddr}, psm : Psm, st : {"free", "wait", "asked", "open"}]

Host == [dev : [Slot -> Record], chan : [Cid -> Channel],
         sdp : Slot \cup {None}, sdp_timer : BOOLEAN,
         client : [query : {"idle", "pid", "hid"}, addr : Addr \cup {NoAddr}],
         asking : Addr \cup {NoAddr}, used : 0 .. MAX_DEVICES]

TypeOK == /\ host \in Host
          /\ link \subseteq Addr
          /\ zero \in Addr \cup {NoAddr}
          /\ requested \subseteq Addr
          /\ lost \in Addr \cup {NoAddr}
          /\ dying \subseteq Cid \cup {None}

(* uni_hid_device_init() *)
Free == [addr |-> NoAddr, handle |-> NoAddr, state |-> "none", incoming |-> FALSE,
         name |-> "none", sdp_query_type |-> "after", connected |-> FALSE, timer |-> FALSE,
         name_timer |-> FALSE, control |-> None, interrupt |-> None, seat |-> "zero"]

NoChannel == [addr |-> NoAddr, psm |-> "control", st |-> "free"]

Idle == [query |-> "idle", addr |-> NoAddr]

Init == /\ host = [dev |-> [s \in Slot |-> Free], chan |-> [c \in Cid |-> NoChannel],
                   sdp |-> None, sdp_timer |-> FALSE, client |-> Idle,
                   asking |-> NoAddr, used |-> 0]
        /\ link = {}
        /\ zero = NoAddr
        /\ requested = {}
        /\ lost = NoAddr
        /\ dying = {}

-----------------------------------------------------------------------------
(* uni_hid_device_get_instance_for_*(): the lowest record that matches, as a set *)
First(S) == IF S = {} THEN {} ELSE {Min(S)}
ForAddress(w, a) == First({s \in Slot : w.dev[s].addr = a})
ForCid(w, c)     == First({s \in Slot : c \in {w.dev[s].interrupt, w.dev[s].control}})
ForHandle(w, h)  == First({s \in Slot : w.dev[s].handle = h})

(* Mutant: the connection timeout is not started. *)
Mutant_Created(a) == [Free EXCEPT !.addr = a, !.handle = Zero]

(* uni_hid_device_create(): zeroes the record, so that its handle is 0 and *)
(* not the invalid one, and starts its timeout.                            *)
Created(a) == [Free EXCEPT !.addr = a, !.handle = Zero, !.timer = TRUE]

(* uni_hid_device_disconnect() and uni_hid_device_delete(): the link that  *)
(* the handle names, which for a handle of 0 may be another gamepad's, is  *)
(* asked to close: any link may do so at any time here.  The platform is   *)
(* told if it knew of the gamepad.  Nothing else that names the record is  *)
(* told: a channel being opened, the SDP query.                            *)
Forget(w, s) ==
    [w EXCEPT !.dev[s] = Free,
              !.used = IF w.dev[s].connected /\ w.dev[s].seat = "held" THEN @ - 1 ELSE @]

(* uni_hid_device_connect() with arduino_on_device_connected() *)
Connect(w, s) == [w EXCEPT !.dev[s].connected = TRUE, !.dev[s].seat = "none"]

(* Mutant: the platform does not look whether it was told of the gamepad. *)
Mutant_set_ready_complete(w, s) ==
    CASE w.dev[s].state = "ready" -> w
      [] w.dev[s].state # "ready" /\ w.used = MAX_DEVICES -> Forget(w, s)
      [] OTHER -> [w EXCEPT !.dev[s].timer = FALSE, !.dev[s].seat = "held",
                            !.dev[s].state = "ready", !.used = @ + 1]

(* uni_hid_device_set_ready_complete() with arduino_on_device_ready(),     *)
(* which declines a gamepad it has no seat for or was not told of.         *)
set_ready_complete(w, s) ==
    CASE w.dev[s].state = "ready" -> w
      [] w.dev[s].state # "ready" /\ (w.used = MAX_DEVICES \/ w.dev[s].seat # "none")
         -> Forget(w, s)
      [] OTHER -> [w EXCEPT !.dev[s].timer = FALSE, !.dev[s].seat = "held",
                            !.dev[s].state = "ready", !.used = @ + 1]

(* uni_hid_device_set_ready(): a parser without a setup function is done   *)
(* at once, another one calls set_ready_complete later.                    *)
set_ready(w, s, now) ==
    LET v == [w EXCEPT !.dev[s].state = "pending_ready"]
    IN  IF w.dev[s].state # "pending_ready" /\ now THEN set_ready_complete(v, s) ELSE v

(* l2cap_create_control_connection(), l2cap_create_interrupt_connection(): *)
(* on an error the record is left as it is.                                *)
CreateChannel(w, s, psm) ==
    LET room == {c \in Cid : w.chan[c].st = "free"}
        a == w.dev[s].addr
        c == Min(room)
    IN  IF room = {} THEN w
        ELSE [w EXCEPT !.chan[c] = [addr |-> a, psm |-> psm,
                                    st |-> IF a \in link THEN "asked" ELSE "wait"],
                       !.dev[s] = IF psm = "control"
                                  THEN [@ EXCEPT !.control = c, !.state = "control_requested"]
                                  ELSE [@ EXCEPT !.interrupt = c, !.state = "interrupt_requested"]]

-----------------------------------------------------------------------------

(* uni_bt_sdp_query_start(): one query at a time.  When the client is still *)
(* busy with a query that was given up the record goes, and sdp_device      *)
(* names it until the timer expires.                                        *)
sdp_query_start(w, s) ==
    LET v == [w EXCEPT !.sdp = s, !.sdp_timer = TRUE, !.dev[s].state = "vendor_requested"]
    IN  CASE w.sdp # None -> Forget(w, s)
          [] w.sdp = None /\ w.client # Idle -> Forget(v, s)
          [] OTHER -> [v EXCEPT !.client = [query |-> "pid", addr |-> w.dev[s].addr]]

(* process_fsm in UNI_BT_CONN_STATE_SDP_HID_DESCRIPTOR_FETCHED *)
HidFetched(w, s, now) ==
    IF w.dev[s].incoming \/ w.dev[s].sdp_query_type # "before"
    THEN set_ready(w, s, now) ELSE CreateChannel(w, s, "control")

sdp_query_end(w, s, now) ==
    HidFetched([w EXCEPT !.dev[s].state = "hid_fetched", !.sdp = None, !.sdp_timer = FALSE],
               s, now)

(* process_fsm in UNI_BT_CONN_STATE_SDP_VENDOR_FETCHED, that is, in the    *)
(* answer to the first query: the client is idle and sdp_device is set.    *)
sdp_query_start_hid_descriptor(w, s, needed, now) ==
    IF ~needed THEN sdp_query_end(w, s, now)
    ELSE [w EXCEPT !.dev[s].state = "hid_requested",
                   !.client = [query |-> "hid", addr |-> w.dev[s].addr]]

(* process_fsm, name request: gap_remote_name_request() is refused while   *)
(* another name is being asked for, and nobody looks at what it returns.   *)
RequestName(w, s) ==
    [w EXCEPT !.asking = IF @ = NoAddr THEN w.dev[s].addr ELSE @,
              !.dev[s].state = "name_inquired", !.dev[s].name_timer = TRUE]

(* process_fsm in UNI_BT_CONN_STATE_REMOTE_NAME_FETCHED *)
NameFetched(w, s, now) ==
    LET before == [w EXCEPT !.dev[s].sdp_query_type = "before"]
        guessed == [w EXCEPT !.dev[s].sdp_query_type = "not_needed",
                             !.dev[s].state = "hid_fetched"]
        v == IF w.dev[s].name = "known" THEN guessed ELSE w
    IN  CASE w.dev[s].name = "Wireless Controller" -> sdp_query_start(before, s)
          [] w.dev[s].name # "Wireless Controller" /\ ~v.dev[s].incoming
             -> CreateChannel(v, s, "control")
          [] OTHER -> IF v.dev[s].sdp_query_type = "not_needed"
                      THEN set_ready(v, s, now) ELSE sdp_query_start(v, s)

(* uni_bt_bredr_process_fsm() *)
Fsm(w, s, now) ==
    LET d == w.dev[s]
    IN  CASE d.name = "none" /\ d.state \in {"discovered", "interrupt_connected"}
             -> RequestName(w, s)
          [] d.state = "name_fetched" -> NameFetched(w, s, now)
          [] d.state = "hid_fetched" -> HidFetched(w, s, now)
          [] d.state = "control_connected" /\ ~d.incoming -> CreateChannel(w, s, "interrupt")
          [] d.state = "interrupt_connected" /\ d.name # "none" /\ ~d.incoming
             -> IF d.sdp_query_type = "after" THEN sdp_query_start(w, s)
                ELSE set_ready(w, s, now)
          [] OTHER -> w

-----------------------------------------------------------------------------
Event == lost = NoAddr   \* no loss is being reported: the next event may come

(* uni_bt_bredr_on_gap_inquiry_result(), of a device that is supported and *)
(* may or may not say its name                                             *)
InquiryResult(a) == \E n \in Names \cup {"none"}, now \in BOOLEAN :
    LET new == [Created(a) EXCEPT !.name = n,
                  !.state = IF n = "none" THEN "discovered" ELSE "name_fetched"]
    IN  /\ Event
        /\ \/ \E s \in ForAddress(host, a) : /\ host.dev[s].state # "ready"
                                             /\ host' = Fsm(host, s, now)
           \/ /\ ForAddress(host, a) = {}
              /\ \E s \in ForAddress(host, NoAddr) :
                   host' = Fsm([host EXCEPT !.dev[s] = new], s, now)
        /\ UNCHANGED radio

(* uni_bt_bredr_on_hci_connection_request(); BTstack accepts it in any case. *)
ConnectionRequest(a) ==
    /\ Event /\ a \notin link \cup requested
    /\ requested' = requested \cup {a}
    /\ LET known == ForAddress(host, a)
           s == IF known # {} THEN known ELSE ForAddress(host, NoAddr)
       IN  host' = [host EXCEPT !.dev = [t \in Slot |->
                IF t \notin s THEN @[t]
                ELSE [(IF known = {} THEN Created(a) ELSE @[t]) EXCEPT !.incoming = TRUE]]]
    /\ UNCHANGED <<link, zero, lost, dying>>

(* A link to this peer is on its way, for somebody. *)
Paging(a) == \/ a \in requested
             \/ a = host.client.addr
             \/ \E c \in Cid : host.chan[c].st = "wait" /\ host.chan[c].addr = a

(* uni_bt_bredr_on_hci_connection_complete(), success; the controller may  *)
(* hand out handle 0 if no link has it.                                    *)
ConnectionComplete(a) ==
    /\ Event /\ a \notin link /\ Paging(a)
    /\ link' = link \cup {a}
    /\ zero' \in {zero, IF zero = NoAddr THEN a ELSE zero}
    /\ requested' = requested \ {a}
    /\ host' = [host EXCEPT
         !.dev = [s \in Slot |->
            IF s \in ForAddress(host, a) THEN [@[s] EXCEPT !.handle = HandleOf(a)'] ELSE @[s]],
         !.chan = [c \in Cid |->
            IF @[c].addr = a /\ @[c].st = "wait" THEN [@[c] EXCEPT !.st = "asked"] ELSE @[c]]]
    /\ UNCHANGED <<lost, dying>>

(* A HID device opens its control channel first. *)
HasControl(a) == \E c \in Cid : host.chan[c] = [addr |-> a, psm |-> "control", st |-> "open"]

(* uni_bt_bredr_on_l2cap_incoming_connection(), of a peer that is allowed. *)
(* A ready record is stale: it goes first.                                 *)
IncomingConnection(a, psm) ==
    LET old == ForAddress(host, a)
        stale == \E s \in old : host.dev[s].state = "ready"
        w == IF stale THEN Forget(host, Min(old)) ELSE host
        known == ForAddress(w, a)
        s == IF known = {} THEN ForAddress(w, NoAddr) ELSE known
        room == {c \in Cid : w.chan[c].st = "free"}
        c == Min(room)
        d == IF known = {} THEN Created(a) ELSE w.dev[Min(s)]
    IN  /\ Event /\ a \in link /\ room # {}
        /\ psm = "interrupt" => HasControl(a)
        /\ host' =
             CASE s = {} \/ (psm = "interrupt" /\ known = {}) -> w
               [] s # {} /\ psm = "control" ->
                  [w EXCEPT !.dev[Min(s)] = [d EXCEPT !.handle = HandleOf(a), !.control = c,
                                                      !.incoming = TRUE],
                            !.chan[c] = [addr |-> a, psm |-> psm, st |-> "asked"]]
               [] OTHER ->
                  [w EXCEPT !.dev[Min(s)].interrupt = c,
                            !.chan[c] = [addr |-> a, psm |-> psm, st |-> "asked"]]
        /\ UNCHANGED radio

(* uni_bt_bredr_on_l2cap_channel_opened(), success *)
ChannelOpened(c) == \E now \in BOOLEAN :
    LET a == host.chan[c].addr
        w == [host EXCEPT !.chan[c].st = "open"]
        Opened(s) == IF host.chan[c].psm = "control"
                     THEN [w EXCEPT !.dev[s].control = c, !.dev[s].state = "control_connected"]
                     ELSE Connect([w EXCEPT !.dev[s].interrupt = c,
                                            !.dev[s].state = "interrupt_connected"], s)
    IN  /\ Event /\ host.chan[c].st = "asked"
        /\ \/ ForAddress(host, a) = {} /\ host' = w
           \/ \E s \in ForAddress(host, a) : host' = Fsm(Opened(s), s, now)
        /\ UNCHANGED radio

(* Mutant: a closed channel leaves its record alone. *)
Mutant_Gone(c) ==
    LET d == IF host.chan[c].st = "open" THEN {}
             ELSE ForAddress(host, host.chan[c].addr)
        w == [host EXCEPT !.chan[c] = NoChannel]
    IN  IF d = {} THEN w ELSE Forget(w, Min(d))

(* uni_bt_bredr_on_l2cap_channel_opened() with an error finds the record   *)
(* by address, uni_bt_bredr_on_l2cap_channel_closed() by channel.          *)
Gone(c) ==
    LET d == IF host.chan[c].st = "open" THEN ForCid(host, c)
             ELSE ForAddress(host, host.chan[c].addr)
        w == [host EXCEPT !.chan[c] = NoChannel]
    IN  IF d = {} THEN w ELSE Forget(w, Min(d))

(* The peer refuses or closes a channel. *)
ChannelGone(c) == /\ Event /\ host.chan[c].st \in {"asked", "open"}
                  /\ host' = Gone(c)
                  /\ UNCHANGED radio

(* SDP_EVENT_QUERY_COMPLETE, whatever its status: uni_handle_sdp_pid_query_result() *)
(* and uni_handle_sdp_hid_query_result()                                            *)
QueryComplete(needed, now) ==
    LET w == [host EXCEPT !.client = Idle]
        s == host.sdp
        fetched == [w EXCEPT !.dev[s].state = "vendor_fetched"]
    IN  CASE s = None -> w
          [] s # None /\ host.client.query = "pid"
             -> sdp_query_start_hid_descriptor(fetched, s, needed, now)
          [] OTHER -> sdp_query_end(w, s, now)

(* The answer of the peer; a query to the zero address just fails. *)
SdpComplete == \E needed, now \in BOOLEAN :
    /\ Event /\ host.client # Idle /\ host.client.addr \in link \cup {NoAddr}
    /\ host' = QueryComplete(needed, now)
    /\ UNCHANGED radio

(* The link to a peer is lost, or cannot be set up: everything on it is    *)
(* reported first, in some order, then the disconnection.                  *)
LinkLost(a) == /\ Event /\ (a \in link \/ Paging(a))
               /\ lost' = a
               /\ link' = link \ {a}
               /\ requested' = requested \ {a}
               /\ dying' = {c \in Cid : host.chan[c].addr = a}
                             \cup (IF host.client.addr = a THEN {None} ELSE {})
               /\ UNCHANGED <<host, zero>>

ReportChannel(c) == /\ c \in dying
                    /\ host' = Gone(c)
                    /\ dying' = dying \ {c}
                    /\ UNCHANGED <<link, zero, requested, lost>>

ReportSdp == \E needed, now \in BOOLEAN :
    /\ None \in dying
    /\ host' = QueryComplete(needed, now)
    /\ dying' = dying \ {None}
    /\ UNCHANGED <<link, zero, requested, lost>>

(* Mutant: only the channels of a link remove a record. *)
Mutant_DisconnectionComplete ==
    /\ lost # NoAddr /\ dying = {}
    /\ lost' = NoAddr
    /\ zero' = IF zero = lost THEN NoAddr ELSE zero
    /\ UNCHANGED <<host, link, requested, dying>>

(* on_hci_disconnection_complete(): deletes the first record with the      *)
(* link's handle; if that is 0, it may be the fresh record of another.     *)
DisconnectionComplete ==
    /\ lost # NoAddr /\ dying = {}
    /\ lost' = NoAddr
    /\ zero' = IF zero = lost THEN NoAddr ELSE zero
    /\ LET d == ForHandle(host, HandleOf(lost))
       IN  host' = IF d = {} THEN host ELSE Forget(host, Min(d))
    /\ UNCHANGED <<link, requested, dying>>

(* uni_bt_bredr_on_hci_remote_name_request_complete(), a failure included, *)
(* for which a name is made up                                             *)
NameComplete == \E n \in Names \cup {"other"}, now \in BOOLEAN :
    LET d == ForAddress(host, host.asking)
        s == Min(d)
        w == [host EXCEPT !.asking = NoAddr]
        v == [w EXCEPT !.dev[s].name = n]
        u == IF v.dev[s].state \notin BeforeReady THEN v
             ELSE Fsm([v EXCEPT !.dev[s].state = "name_fetched"], s, now)
    IN  /\ Event /\ host.asking # NoAddr
        /\ host' = IF d = {} THEN w ELSE [u EXCEPT !.dev[s].name_timer = FALSE]
        /\ UNCHANGED radio

(* inquiry_remote_name_timeout_callback() *)
NameTimeout(s) == \E now \in BOOLEAN :
    /\ Event /\ host.dev[s].name_timer
    /\ host' = Fsm([host EXCEPT !.dev[s].name = "other", !.dev[s].state = "name_fetched",
                                !.dev[s].name_timer = FALSE], s, now)
    /\ UNCHANGED radio

(* sdp_query_timeout(): the client goes on with its query. *)
SdpTimeout == /\ Event /\ host.sdp_timer
              /\ host' = [host EXCEPT !.sdp = None, !.sdp_timer = FALSE]
              /\ UNCHANGED radio

(* Mutant: only an attempt that has got a link is given up. *)
Mutant_ConnectionTimeout(s) ==
    /\ Event /\ host.dev[s].timer /\ host.dev[s].state # "ready"
    /\ host.dev[s].handle # Zero
    /\ host' = Forget(host, s)
    /\ UNCHANGED radio

(* device_connection_timeout() *)
ConnectionTimeout(s) == /\ Event /\ host.dev[s].timer /\ host.dev[s].state # "ready"
                        /\ host' = Forget(host, s)
                        /\ UNCHANGED radio

(* uni_hid_device_set_ready_complete() called by a parser *)
SetReadyComplete(s) == /\ Event /\ host.dev[s].state = "pending_ready"
                       /\ host' = set_ready_complete(host, s)
                       /\ UNCHANGED radio

(* CMD_DISCONNECT_DEVICE, for a record in use; and the loss of a BLE link  *)
(* with handle 0, for one that still holds that handle                     *)
DisconnectDevice(s) == /\ Event /\ host.dev[s].addr # NoAddr
                       /\ host' = Forget(host, s)
                       /\ UNCHANGED radio

Dispatch == (\E c \in Cid : ReportChannel(c)) \/ ReportSdp \/ DisconnectionComplete

Next == \/ \E a \in Found : InquiryResult(a)
        \/ \E a \in Callers : \/ ConnectionRequest(a)
                              \/ \E psm \in Psm : IncomingConnection(a, psm)
        \/ \E a \in Addr : ConnectionComplete(a) \/ LinkLost(a)
        \/ \E c \in Cid : ChannelOpened(c) \/ ChannelGone(c)
        \/ \E s \in Slot : \/ NameTimeout(s) \/ ConnectionTimeout(s) \/ SetReadyComplete(s)
                           \/ DisconnectDevice(s)
        \/ SdpComplete \/ NameComplete \/ SdpTimeout \/ Dispatch

(* Timers expire, although their handlers wait for the dispatch of an      *)
(* event, which comes to its end; a gamepad need not do anything.          *)
Fairness == /\ \A s \in Slot : SF_vars(ConnectionTimeout(s))
            /\ SF_vars(SdpTimeout)
            /\ WF_vars(Dispatch)

Spec == Init /\ [][Next]_vars /\ Fairness

-----------------------------------------------------------------------------
(* A handle that a record has been given leads to the gamepad the record   *)
(* is for, by the link that is up now or is being reported lost: giving up *)
(* such a record closes no link of another gamepad, and no such record     *)
(* outlives its link, although a loss may be taken for that of a record    *)
(* which still holds the zero of create() (uni_bt_bredr.c:85-88, 622-643,  *)
(* uni_bt.c:157-173, uni_hid_device.c:74).                                 *)
OwnLink == \A s \in Slot : LET d == host.dev[s] IN
    d.handle \notin {NoAddr, Zero} => /\ d.handle = d.addr
                                      /\ d.handle \in link \/ d.handle = lost
                                      /\ d.handle # zero

(* The channels a record holds exist and belong to its gamepad, whatever   *)
(* channels of earlier attempts are still being opened or closed: a report *)
(* or a closed channel reaches the record of the gamepad it came from      *)
(* (uni_bt_bredr.c:472-489, uni_hid_device.c:142-150).                     *)
OwnChannels == \A s \in Slot : LET d == host.dev[s] IN
    /\ d.control # None => host.chan[d.control] \in [addr : {d.addr}, psm : {"control"},
                                                     st : {"wait", "asked", "open"}]
    /\ d.interrupt # None => host.chan[d.interrupt] \in [addr : {d.addr}, psm : {"interrupt"},
                                                         st : {"wait", "asked", "open"}]

(* Whatever order names, SDP answers and channels arrive in, a gamepad     *)
(* that is ready is one the platform was told of before and has given a    *)
(* seat (uni_hid_device.c:230-260, arduino_platform.c:192-203).            *)
ReadyIsSeated == \A s \in Slot :
    host.dev[s].state = "ready" => host.dev[s].connected /\ host.dev[s].seat = "held"

(* A record whose gamepad has not opened its interrupt channel. *)
Attempt(s) == host.dev[s].addr # NoAddr /\ ~host.dev[s].connected

(* No answer, early, late or repeated, stops the timeout of an attempt     *)
(* before the gamepad is connected (uni_hid_device.c:77-78, 244-245).      *)
ConnectingHasTimer == \A s \in Slot : Attempt(s) => host.dev[s].timer

(* Every attempt comes to an end: the gamepad connects or its record is    *)
(* free again (uni_hid_device.c:968-981).                                  *)
AttemptEnds == \A s \in Slot : []<>~Attempt(s)


(* uni_hid_device.c:93 says of a free record "it is already "clean"": it   *)
(* is as uni_hid_device_init() leaves it.  Not so: the answer to an SDP    *)
(* query reaches the record after it was deleted.                          *)
NoPhantom == \A s \in Slot : host.dev[s].addr = NoAddr => host.dev[s] = Free

(* The platform's count of seats is the number of records that hold one.   *)
(* Not so when a gamepad and the host open an interrupt channel each.      *)
SeatsReturned == host.used = Cardinality({s \in Slot : host.dev[s].seat = "held"})

(* The handle of a record never leads to another gamepad.  Not so for the  *)
(* 0 that create() leaves in it.                                           *)
ZeroIsOwn == \A s \in Slot : host.dev[s].handle = Zero => zero \in {NoAddr, host.dev[s].addr}
=============================================================================
