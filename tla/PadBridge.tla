------------------------------ MODULE PadBridge ------------------------------
(***************************************************************************)
(* How a gamepad's reports travel from the BTstack task on CPU0 to the     *)
(* Arduino loop on CPU1 (components/bluepad32_arduino/arduino_platform.c,  *)
(* ArduinoBluepad32.cpp, ArduinoController.cpp, main/gamepad_input.cpp).   *)
(*                                                                         *)
(* Both sides share controllers_[].  Only the copying of a report is done  *)
(* under controller_mutex_: taking a seat, leaving it and testing for it   *)
(* are not, so they are split where the other core can see the difference. *)
(***************************************************************************)
EXTENDS Naturals, FiniteSets, FiniteSetsExt

CONSTANTS Pad,          \* controllers of any class, by address
          Gamepad,      \* those of class gamepad
          NoPad,        \* the zeroed address and class
          Tag,          \* tells the reports of one pad apart
          MAX_DEVICES,  \* CONFIG_BLUEPAD32_MAX_DEVICES = BP32_MAX_GAMEPADS
          MaxArrivals,  \* bounds the calls of on_device_connected()
          None          \* UNI_ARDUINO_GAMEPAD_INVALID, nullptr

ASSUME BridgeAssumption == /\ Gamepad \subseteq Pad
                           /\ NoPad \notin Pad
                           /\ 0 \in Tag
                           /\ MAX_DEVICES \in Nat \ {0}
                           /\ MaxArrivals \in Nat
                           /\ None \notin Nat

Seat == 0 .. MAX_DEVICES - 1

(* A report is told apart by its sender and a tag;  it is copied in two   *)
(* halves, the class in the first one.  Of sState only the sender is kept. *)
Report == Pad \X Tag
Zero   == <<NoPad, 0>>
Half   == Report \cup {Zero}
Blank  == <<Zero, Zero>>

VARIABLES
  controllers_,             \* the shared seats
  used_controllers_,        \* CPU0's count of the taken ones
  controller_mutex_,        \* who holds it
  up,                       \* pads with a device record
  arrivals,                 \* how often it has been told so far
  connected,                \* those the platform has been told of
  controller_idx,           \* CPU0: the seat of each pad, in its record
  lost,                     \* observed: taken seats that no record names
  task0,                    \* CPU0: the handler it is in the middle of
  pc, i,                    \* CPU1: where Bluepad32::update() is, and its loop index
  connectedControllers, _prevConnectedControllers,
  _controllers,             \* CPU1: the Controller objects
  sController, sState       \* CPU1: GamepadInput

books == <<used_controllers_, up, arrivals, connected, controller_idx, lost>>
cpu0 == <<books, task0>>
cpu1 == <<pc, i, connectedControllers, _prevConnectedControllers, _controllers,
          sController, sState>>
vars == <<controllers_, controller_mutex_, cpu0, cpu1>>

Empty == [idx |-> FALSE, data |-> Blank, data_updated |-> FALSE]
NoState == [connected |-> FALSE, sender |-> NoPad]
Idle  == [op |-> "idle", pad |-> NoPad, seat |-> None]

TypeOK ==
  /\ controllers_ \in [Seat -> [idx : BOOLEAN, data : Half \X Half,
                                data_updated : BOOLEAN]]
  /\ used_controllers_ \in 0 .. MAX_DEVICES
  /\ controller_mutex_ \in {"free", "cpu0", "cpu1"}
  /\ up \subseteq Pad /\ connected \subseteq up
  /\ arrivals \in 0 .. MaxArrivals
  /\ lost \subseteq Seat
  /\ controller_idx \in [Pad -> Seat \cup {None}]
  /\ task0 \in [op : {"idle", "data", "wipe", "leave"},
                pad : Pad \cup {NoPad}, seat : Seat \cup {None}]
  /\ pc \in {"check", "read", "copy", "compare", "sample"}
  /\ i \in Seat
  /\ connectedControllers \subseteq Seat
  /\ _prevConnectedControllers \subseteq Seat
  /\ _controllers \in [Seat -> [connected : BOOLEAN, hasData : BOOLEAN,
                                data : Half \X Half]]
  /\ sController \in Seat \cup {None}
  /\ sState \in [connected : BOOLEAN, sender : Pad \cup {NoPad}]

Init ==
  /\ controllers_ = [s \in Seat |-> Empty]
  /\ used_controllers_ = 0
  /\ controller_mutex_ = "free"
  /\ up = {} /\ arrivals = 0 /\ connected = {} /\ lost = {}
  /\ controller_idx = [p \in Pad |-> 0]
  /\ task0 = Idle
  /\ pc = "check" /\ i = 0
  /\ connectedControllers = {} /\ _prevConnectedControllers = {}
  /\ _controllers = [s \in Seat |-> [connected |-> FALSE, hasData |-> FALSE,
                                     data |-> Blank]]
  /\ sController = None
  /\ sState = NoState

-----------------------------------------------------------------------------
(* CPU0: one handler at a time *)

Doing(op, p, s) == [op |-> op, pad |-> p, seat |-> s]

(* A seat is a pad's own from on_device_ready() on.  A new record is zeroed *)
(* and so holds seat 0, which is not its own, until on_device_connected(). *)
Seated(p) == p \in connected /\ controller_idx[p] # None

(* uni_hid_device_create(): there are MAX_DEVICES records.                 *)
Create(p) == /\ task0 = Idle
             /\ p \notin up
             /\ Cardinality(up) < MAX_DEVICES
             /\ up' = up \cup {p}
             /\ controller_idx' = [controller_idx EXCEPT ![p] = 0]
             /\ UNCHANGED <<controllers_, used_controllers_, controller_mutex_, arrivals,
                            connected, lost, task0>>
             /\ UNCHANGED cpu1

(* arduino_on_device_connected(), which the host may repeat for a pad that *)
(* is connected: the seat it has is then forgotten, but not given back.    *)
Connected(p) == /\ task0 = Idle
                /\ p \in up
                /\ arrivals < MaxArrivals
                /\ arrivals' = arrivals + 1
                /\ connected' = connected \cup {p}
                /\ controller_idx' = [controller_idx EXCEPT ![p] = None]
                /\ lost' = IF Seated(p) THEN lost \cup {controller_idx[p]} ELSE lost
                /\ UNCHANGED <<controllers_, used_controllers_, controller_mutex_, up, task0>>
                /\ UNCHANGED cpu1

(* Mutant: used_controllers_ is not counted down. *)
Mutant_Wipe_NoCount(p) ==
  /\ controllers_' = [controllers_ EXCEPT ![controller_idx[p]].data = Blank]
  /\ task0' = Doing("wipe", p, controller_idx[p])
  /\ UNCHANGED <<controller_mutex_, books>>

(* Mutant: the seat is freed without being zeroed. *)
Mutant_Wipe_NoWipe(p) ==
  /\ used_controllers_' = used_controllers_ - 1
  /\ task0' = Doing("leave", p, controller_idx[p])
  /\ UNCHANGED <<controllers_, controller_mutex_, up, arrivals, connected, controller_idx,
                 lost>>

(* arduino_on_device_disconnected(): memset() zeroes the seat, without the *)
(* mutex and with idx left valid (0), in the order of its fields ...       *)
Wipe(p) ==
  /\ used_controllers_' = used_controllers_ - 1
  /\ controllers_' = [controllers_ EXCEPT ![controller_idx[p]].data = Blank]
  /\ task0' = Doing("wipe", p, controller_idx[p])
  /\ UNCHANGED <<controller_mutex_, up, arrivals, connected, controller_idx, lost>>

WipeRest == /\ task0.op = "wipe"
            /\ controllers_' = [controllers_ EXCEPT ![task0.seat].data_updated = FALSE]
            /\ task0' = [task0 EXCEPT !.op = "leave"]
            /\ UNCHANGED <<controller_mutex_, books>> /\ UNCHANGED cpu1

(* uni_hid_device_delete(): the record is zeroed. *)
Delete(p) == /\ up' = up \ {p}
             /\ connected' = connected \ {p}
             /\ controller_idx' = [controller_idx EXCEPT ![p] = 0]
             /\ UNCHANGED arrivals

(* ... and only then is the seat marked as free and the record deleted.    *)
Leave == /\ task0.op = "leave"
         /\ controllers_' = [controllers_ EXCEPT ![task0.seat].idx = FALSE]
         /\ Delete(task0.pad)
         /\ task0' = Idle
         /\ UNCHANGED <<controller_mutex_, used_controllers_, lost>> /\ UNCHANGED cpu1

(* The host disconnects a pad and deletes its record; the platform is told *)
(* of it when it knows the pad, and acts when it gave it a seat.           *)
Drop(p) == \/ Seated(p) /\ Wipe(p)
           \/ /\ ~Seated(p)
              /\ Delete(p)
              /\ UNCHANGED <<controllers_, controller_mutex_, used_controllers_, lost, task0>>

Disconnected(p) == task0 = Idle /\ p \in up /\ Drop(p) /\ UNCHANGED cpu1

(* Mutant: the first seat is taken whether it is free or not. *)
Mutant_FreeSeats == Seat

(* arduino_on_device_ready(): the first free seat is taken. Of its writes  *)
(* CPU1 can see the first, idx, and the properties, which are left out.    *)
FreeSeats == {s \in Seat : ~controllers_[s].idx}
TakeSeat(p) ==
  LET s == Min(FreeSeats)
  IN  /\ controllers_' = [controllers_ EXCEPT ![s].idx = TRUE]
      /\ controller_idx' = [controller_idx EXCEPT ![p] = s]
      /\ used_controllers_' = used_controllers_ + 1
      /\ UNCHANGED <<controller_mutex_, up, arrivals, connected, lost, task0>>

(* UNI_ERROR_NO_SLOTS or UNI_ERROR_INVALID_CONTROLLER, for a pad that has  *)
(* a seat or that the platform has not been told of: the host drops it.    *)
Declined(p) == used_controllers_ = MAX_DEVICES \/ controller_idx[p] # None

ReadySeat(p) == /\ task0 = Idle
                /\ p \in up
                /\ IF Declined(p) THEN Drop(p)
                   ELSE IF FreeSeats = {} THEN UNCHANGED <<controllers_, controller_mutex_, cpu0>>
                   ELSE TakeSeat(p)
                /\ UNCHANGED cpu1

(* Mutant: the report is written without the mutex. *)
Mutant_MayWrite == TRUE

(* xSemaphoreTake(controller_mutex_, portMAX_DELAY) returns. *)
MayWrite == controller_mutex_ = "free"

(* arduino_on_controller_data(), which the host calls for a pad that the   *)
(* platform has accepted: the report is copied under the mutex.            *)
DataBegin(p, tag) ==
  /\ task0 = Idle
  /\ Seated(p)
  /\ MayWrite
  /\ controller_mutex_' = "cpu0"
  /\ controllers_' = [controllers_ EXCEPT ![controller_idx[p]].data[1] = <<p, tag>>]
  /\ task0' = Doing("data", p, controller_idx[p])
  /\ UNCHANGED books /\ UNCHANGED cpu1

DataEnd ==
  /\ task0.op = "data"
  /\ controller_mutex_' = "free"
  /\ controllers_' = [controllers_ EXCEPT
                        ![task0.seat].data[2] = controllers_[task0.seat].data[1],
                        ![task0.seat].data_updated = TRUE]
  /\ task0' = Idle
  /\ UNCHANGED books /\ UNCHANGED cpu1

-----------------------------------------------------------------------------
(* CPU1: Bluepad32::update(), first loop *)

Invalid(s) == ~controllers_[s].idx

(* Where the first loop goes after seat i. *)
NextSeat == IF i + 1 = MAX_DEVICES THEN pc' = "compare" /\ i' = 0
                                   ELSE pc' = "check" /\ i' = i + 1

(* Mutant: a seat that is not taken counts as one without news. *)
Mutant_Check == /\ pc = "check"
                /\ pc' = "read" /\ i' = i
                /\ UNCHANGED <<controllers_, controller_mutex_>> /\ UNCHANGED cpu0
                /\ UNCHANGED <<connectedControllers, _prevConnectedControllers,
                               _controllers, sController, sState>>

(* arduino_get_controller_data(): the seat is tested without the mutex.    *)
Check == /\ pc = "check"
         /\ IF Invalid(i) THEN NextSeat ELSE pc' = "read" /\ i' = i
         /\ UNCHANGED <<controllers_, controller_mutex_>> /\ UNCHANGED cpu0
         /\ UNCHANGED <<connectedControllers, _prevConnectedControllers, _controllers,
                        sController, sState>>

(* Then, under the mutex, a new report is copied if there is one.          *)
Read ==
  /\ pc = "read"
  /\ controller_mutex_ = "free"
  /\ connectedControllers' = connectedControllers \cup {i}
  /\ IF controllers_[i].data_updated
     THEN /\ controller_mutex_' = "cpu1"
          /\ _controllers' = [_controllers EXCEPT ![i].data[1] = controllers_[i].data[1]]
          /\ pc' = "copy" /\ i' = i
     ELSE /\ _controllers' = [_controllers EXCEPT ![i].hasData = FALSE]
          /\ NextSeat
          /\ UNCHANGED controller_mutex_
  /\ UNCHANGED controllers_ /\ UNCHANGED cpu0
  /\ UNCHANGED <<_prevConnectedControllers, sController, sState>>

(* Mutant: data_updated is not reset. *)
Mutant_Copy == /\ pc = "copy"
               /\ _controllers' = [_controllers EXCEPT ![i].data[2] = controllers_[i].data[2],
                                                       ![i].hasData = TRUE]
               /\ controller_mutex_' = "free"
               /\ NextSeat
               /\ UNCHANGED controllers_ /\ UNCHANGED cpu0
               /\ UNCHANGED <<connectedControllers, _prevConnectedControllers, sController,
                              sState>>

Copy == /\ pc = "copy"
        /\ _controllers' = [_controllers EXCEPT ![i].data[2] = controllers_[i].data[2],
                                                ![i].hasData = TRUE]
        /\ controllers_' = [controllers_ EXCEPT ![i].data_updated = FALSE]
        /\ controller_mutex_' = "free"
        /\ NextSeat
        /\ UNCHANGED cpu0
        /\ UNCHANGED <<connectedControllers, _prevConnectedControllers, sController, sState>>

(* Second loop: Controller::onConnected(), which copies the properties     *)
(* (left out) under the mutex, then GamepadInput's onConnected().          *)
OnConnect(s) ==
  /\ Invalid(s) \/ controller_mutex_ = "free"
  /\ _controllers' = [_controllers EXCEPT ![s].connected = TRUE]
  /\ sController' = IF sController = None THEN s ELSE sController
  /\ UNCHANGED sState

(* Mutant: the controller in use is kept. *)
Mutant_OnDisconnect(s) ==
  /\ _controllers' = [_controllers EXCEPT ![s].connected = FALSE]
  /\ UNCHANGED <<sController, sState>>

(* GamepadInput's onDisconnected(), then Controller::onDisconnected().     *)
OnDisconnect(s) ==
  /\ _controllers' = [_controllers EXCEPT ![s].connected = FALSE]
  /\ IF sController = s
     THEN sController' = None /\ sState' = NoState
     ELSE UNCHANGED <<sController, sState>>

Compare ==
  /\ pc = "compare"
  /\ IF i \in connectedControllers
     THEN IF i \in _prevConnectedControllers
          THEN UNCHANGED <<_controllers, sController, sState>>
          ELSE OnConnect(i)
     ELSE IF i \in _prevConnectedControllers
          THEN OnDisconnect(i)
          ELSE UNCHANGED <<_controllers, sController, sState>>
  /\ IF i + 1 = MAX_DEVICES
     THEN pc' = "sample" /\ i' = 0 /\ _prevConnectedControllers' = connectedControllers
     ELSE UNCHANGED <<pc, _prevConnectedControllers>> /\ i' = i + 1
  /\ UNCHANGED <<controllers_, controller_mutex_, connectedControllers>>
  /\ UNCHANGED cpu0

(* The rest of GamepadInput::update(); loop() then uses sState, and calls  *)
(* update() again.                                                         *)
IsGamepad(s) == _controllers[s].data[1][1] \in Gamepad

Sample ==
  /\ pc = "sample"
  /\ IF sController = None
     THEN sState' = [sState EXCEPT !.connected = FALSE]
     ELSE IF ~_controllers[sController].connected \/ ~IsGamepad(sController)
     THEN sState' = [sState EXCEPT !.connected = FALSE]
     ELSE IF _controllers[sController].hasData
     THEN sState' = [connected |-> TRUE, sender |-> _controllers[sController].data[1][1]]
     ELSE UNCHANGED sState
  /\ pc' = "check" /\ i' = 0
  /\ connectedControllers' = {}
  /\ UNCHANGED <<controllers_, controller_mutex_, _prevConnectedControllers,
                 _controllers, sController>>
  /\ UNCHANGED cpu0

Task0 == DataEnd \/ WipeRest \/ Leave
Update == Check \/ Read \/ Copy \/ Compare \/ Sample

Next == \/ \E p \in Pad : \/ Create(p) \/ Connected(p) \/ ReadySeat(p) \/ Disconnected(p)
                          \/ \E tag \in Tag : DataBegin(p, tag)
        \/ Task0
        \/ Update

(* Handlers that have begun run to their end, and the loop runs for ever;  *)
(* a task waiting for the mutex gets it, for CPU0 gives it back after      *)
(* every report (strong fairness). Pads do what they like.                 *)
Spec == Init /\ [][Next]_vars /\ WF_vars(Task0) /\ SF_vars(Update)

-----------------------------------------------------------------------------
(* The count is that of the taken seats; a taken seat is one pad's and no  *)
(* other's, or was forgotten by a repeated on_device_connected(), whatever *)
(* the order of arrivals, refusals and departures                          *)
(* (arduino_platform.c:51, 168-189, 192-224).                              *)
SeatsMatch == task0 = Idle =>
  LET seated == {p \in Pad : Seated(p)}
      held   == {controller_idx[p] : p \in seated}
      taken  == Seat \ FreeSeats
  IN  /\ used_controllers_ = Cardinality(taken)
      /\ \A p, q \in seated : p # q => controller_idx[p] # controller_idx[q]
      /\ taken = held \cup lost
      /\ held \cap lost = {}

(* The count and the search for a free seat agree, so that no pad is       *)
(* accepted without getting one, and a pad is declined for want of a seat  *)
(* only where seats have been forgotten: there are as many as records      *)
(* (arduino_platform.c:193-197, 206-224, uni_hid_device.c:69-83).          *)
AlwaysASeat == task0 = Idle =>
  /\ used_controllers_ = MAX_DEVICES <=> FreeSeats = {}
  /\ \A p \in up : ~Seated(p) => FreeSeats # {} \/ lost # {}

(* The Arduino side never puts together two different reports: half of one *)
(* may at worst be joined with the zeroes of a seat being wiped            *)
(* (arduino_platform.c:244-248, 312-318).                                  *)
WholeReports == \A s \in Seat : ~(pc = "copy" /\ i = s) =>
  LET d == _controllers[s].data IN d[1] = d[2] \/ Zero \in {d[1], d[2]}

(* A new pad does not inherit an unread report of the seat's last one      *)
(* (arduino_platform.c:185, 293-296).                                      *)
FreshSeat == \A p \in Pad : Seated(p) /\ controllers_[controller_idx[p]].data_updated
  => controllers_[controller_idx[p]].data[1][1] \in {p, NoPad}

(* After an update the callbacks have been paired: the controller in use   *)
(* is one that has been reported connected and not disconnected since      *)
(* (ArduinoBluepad32.cpp:48-66, gamepad_input.cpp:10-23).                  *)
AdoptedConnected == pc = "sample" /\ sController # None =>
  _controllers[sController].connected /\ sController \in connectedControllers

(* A gamepad that leaves is noticed: its state does not outlive it, unless *)
(* its seat is taken again first (ArduinoBluepad32.cpp:26-27, 61-63).      *)
DepartureSeen == \A s \in Seat :
  (sState.connected /\ sController = s /\ Invalid(s))
     ~> (~sState.connected \/ ~Invalid(s))

(* Every report is picked up by the loop or wiped with its seat            *)
(* (arduino_platform.c:246-247, 313-316).                                  *)
ReportTaken == \A s \in Seat : []<>~controllers_[s].data_updated

(* gamepad_input.h:52 "Latest known state of the first connected gamepad": *)
(* while some controller is connected, one is in use.                      *)
FirstConnected == pc = "sample" /\ (\E s \in Seat : _controllers[s].connected)
                    => sController # None

(* A seat that was given is given back.  Not so when the host repeats      *)
(* on_device_connected().                                                  *)
NoSeatLost == lost = {}
=============================================================================
