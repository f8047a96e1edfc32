-------------------------------- MODULE Radio --------------------------------
(***************************************************************************)
(* Who owns the 2.4 GHz radio.  The Arduino loop (CPU1) toggles the WiFi   *)
(* access point, the web UI and the OTA listener when the admin button has *)
(* been held, and asks the BTstack task (CPU0) to pause or resume its scan *)
(* for controllers.  The request is only posted: CPU0 executes it later.   *)
(*                                                                         *)
(* pc is the position of the Arduino task in setup() and in the admin      *)
(* branch of loop(); "loop" stands for the rest of loop(), which does not  *)
(* touch the radio except through OtaService::handle().                    *)
(***************************************************************************)
EXTENDS Naturals, Sequences

CONSTANTS MaxLag   \* bound: commands CPU0 may still owe when a hold completes

ASSUME MaxLagAssumption == MaxLag \in Nat

(* The commands this firmware posts (enum in uni_bt.c:91-100). *)
Command == {"START_SCANNING", "STOP_SCANNING", "DEL_KEYS"}
ScanCmd == {"START_SCANNING", "STOP_SCANNING"}

VARIABLES pc,
          pending,             \* commands posted to the BTstack task, oldest first
          bt_scanning_enabled, \* CPU0: uni_bt.c
          wifi,                \* mode of the WiFi radio: "off" or "ap"
          softap,              \* the access point is up
          webRunning,          \* WebUI's sRunning
          otaRunning,          \* OtaService's sRunning
          sAdminHoldFired      \* latched from the toggle until the release

vars == <<pc, pending, bt_scanning_enabled, wifi, softap, webRunning, otaRunning,
          sAdminHoldFired>>

radio == <<wifi, softap, webRunning, otaRunning>>

PC == {"setup_scan", "setup_keys", "setup_wifi", "loop",
       "stop_ota", "stop_ap", "stop_wifi", "stop_scan",
       "start_scan", "start_wifi", "start_ap", "start_check", "start_ota", "give_back",
       "ack"}

TypeOK == /\ pc \in PC
          /\ pending \in Seq(Command)
          /\ bt_scanning_enabled \in BOOLEAN
          /\ wifi \in {"off", "ap"}
          /\ softap \in BOOLEAN
          /\ webRunning \in BOOLEAN
          /\ otaRunning \in BOOLEAN
          /\ sAdminHoldFired \in BOOLEAN

(* Power-on: the statics are zero and the Arduino task enters setup(). *)
Init == /\ pc = "setup_scan"
        /\ pending = <<>>
        /\ bt_scanning_enabled = FALSE
        /\ wifi = "off"
        /\ softap = FALSE
        /\ webRunning = FALSE
        /\ otaRunning = FALSE
        /\ sAdminHoldFired = FALSE

-----------------------------------------------------------------------------
(* Steps of the Arduino task *)

Goto(from, to) == pc = from /\ pc' = to

(* uni_bt_*_safe(): the command joins the BTstack task's list (see CmdRing). *)
Post(c) == /\ pending' = Append(pending, c)
           /\ UNCHANGED <<bt_scanning_enabled, sAdminHoldFired>>

(* BP32.enableNewBluetoothConnections() *)
setDiscoverable(enabled) == Post(IF enabled THEN "START_SCANNING" ELSE "STOP_SCANNING")

Local == UNCHANGED <<pending, bt_scanning_enabled, sAdminHoldFired>>

(* setup(): BP32.setup() starts scanning, then the stored keys are forgotten. *)
SetupScan == Goto("setup_scan", "setup_keys") /\ setDiscoverable(TRUE) /\ UNCHANGED radio
SetupKeys == Goto("setup_keys", "setup_wifi") /\ Post("DEL_KEYS") /\ UNCHANGED radio

(* WebUI::begin() forces the WiFi radio off. *)
SetupWifi == /\ Goto("setup_wifi", "loop")
             /\ wifi' = "off"
             /\ Local /\ UNCHANGED <<softap, webRunning, otaRunning>>

(* Mutant: OTA is not stopped first. *)
Mutant_HoldFires == /\ pc = "loop"
                    /\ ~sAdminHoldFired
                    /\ Len(pending) <= MaxLag
                    /\ pc' = IF webRunning THEN "stop_ap" ELSE "start_scan"
                    /\ Local /\ UNCHANGED radio

(* The admin button has been down for kAdminHoldMs: one branch per state. *)
HoldFires == /\ pc = "loop"
             /\ ~sAdminHoldFired
             /\ Len(pending) <= MaxLag
             /\ pc' = IF webRunning THEN "stop_ota" ELSE "start_scan"
             /\ Local /\ UNCHANGED radio

(* The button is up: the next hold may toggle again. *)
Release == /\ pc = "loop"
           /\ sAdminHoldFired
           /\ sAdminHoldFired' = FALSE
           /\ UNCHANGED <<pc, pending, bt_scanning_enabled>> /\ UNCHANGED radio

(* OtaService::stop() *)
OtaStop == /\ Goto("stop_ota", "stop_ap")
           /\ otaRunning' = FALSE
           /\ Local /\ UNCHANGED <<wifi, softap, webRunning>>

(* WebUI::stop(): softAPdisconnect(true), then WIFI_OFF and sRunning. *)
ApStop == /\ Goto("stop_ap", "stop_wifi")
          /\ softap' = FALSE
          /\ Local /\ UNCHANGED <<wifi, webRunning, otaRunning>>

WifiStop == /\ Goto("stop_wifi", "stop_scan")
            /\ wifi' = "off"
            /\ webRunning' = FALSE
            /\ Local /\ UNCHANGED <<softap, otaRunning>>

ScanResume == Goto("stop_scan", "ack") /\ setDiscoverable(TRUE) /\ UNCHANGED radio

(* Mutant: the scan is left running. *)
Mutant_ScanPause == Goto("start_scan", "start_wifi") /\ Local /\ UNCHANGED radio

ScanPause == Goto("start_scan", "start_wifi") /\ setDiscoverable(FALSE) /\ UNCHANGED radio

(* WebUI::start(): WIFI_AP, then softAP(), which may fail. *)
WifiStart == /\ Goto("start_wifi", "start_ap")
             /\ wifi' = "ap"
             /\ Local /\ UNCHANGED <<softap, webRunning, otaRunning>>

ApUp == /\ Goto("start_ap", "start_check")
        /\ softap' = TRUE
        /\ webRunning' = TRUE
        /\ Local /\ UNCHANGED <<wifi, otaRunning>>

ApFails == /\ Goto("start_ap", "start_check")
           /\ wifi' = "off"
           /\ Local /\ UNCHANGED <<softap, webRunning, otaRunning>>

(* if (WebUI::isRunning()) *)
CheckRunning == /\ Goto("start_check", IF webRunning THEN "start_ota" ELSE "give_back")
                /\ Local /\ UNCHANGED radio

(* OtaService::begin() *)
OtaBegin == /\ Goto("start_ota", "ack")
            /\ otaRunning' = TRUE
            /\ Local /\ UNCHANGED <<wifi, softap, webRunning>>

(* Mutant: the scan is not resumed when the access point has failed. *)
Mutant_GiveBack == Goto("give_back", "ack") /\ Local /\ UNCHANGED radio

GiveBack == Goto("give_back", "ack") /\ setDiscoverable(TRUE) /\ UNCHANGED radio

(* sAdminHoldFired = true and the blocking flashAdminAck(). *)
Ack == /\ Goto("ack", "loop")
       /\ sAdminHoldFired' = TRUE
       /\ UNCHANGED <<pending, bt_scanning_enabled>> /\ UNCHANGED radio

(* OtaService::handle() serves an upload to its end: the board reboots. *)
Reboot == /\ pc = "loop"
          /\ otaRunning
          /\ pc' = "setup_scan"
          /\ pending' = <<>>
          /\ bt_scanning_enabled' = FALSE
          /\ wifi' = "off"
          /\ softap' = FALSE
          /\ webRunning' = FALSE
          /\ otaRunning' = FALSE
          /\ sAdminHoldFired' = FALSE

(* What the Arduino task does by itself; holding, releasing and uploading  *)
(* are the users' choice.                                                  *)
LoopStep == \/ SetupScan \/ SetupKeys \/ SetupWifi
            \/ OtaStop \/ ApStop \/ WifiStop \/ ScanResume
            \/ ScanPause \/ WifiStart \/ ApUp \/ ApFails \/ CheckRunning
            \/ OtaBegin \/ GiveBack \/ Ack

-----------------------------------------------------------------------------
(* Mutants: a stop, a start is ignored. *)
Mutant_start_scanning_NoStop(c) == c = "START_SCANNING" \/ bt_scanning_enabled
Mutant_start_scanning_NoStart(c) == c # "STOP_SCANNING" /\ bt_scanning_enabled

(* The BTstack task: cmd_callback() and start_scanning(). *)
start_scanning(c) == CASE c = "START_SCANNING" -> TRUE
                       [] c = "STOP_SCANNING"  -> FALSE
                       [] OTHER                -> bt_scanning_enabled

Execute == /\ pending # <<>>
           /\ pending' = Tail(pending)
           /\ bt_scanning_enabled' = start_scanning(Head(pending))
           /\ UNCHANGED <<pc, sAdminHoldFired>> /\ UNCHANGED radio

Next == LoopStep \/ HoldFires \/ Release \/ Reboot \/ Execute

(* Both tasks run for ever: FreeRTOS schedules each on its own core. *)
Spec == Init /\ [][Next]_vars /\ WF_vars(LoopStep) /\ WF_vars(Execute)

-----------------------------------------------------------------------------
(* What scanning will be once CPU0 has executed everything posted: decided *)
(* by the last scan command under way, or else by the current state.       *)
LastScanCmd(i) == /\ i \in 1 .. Len(pending)
                  /\ pending[i] \in ScanCmd
                  /\ \A j \in i+1 .. Len(pending) : pending[j] \notin ScanCmd

ScanWillBe(b) ==
    \/ \E i \in 1 .. Len(pending) :
         LastScanCmd(i) /\ pending[i] = IF b THEN "START_SCANNING" ELSE "STOP_SCANNING"
    \/ /\ \A i \in 1 .. Len(pending) : pending[i] \notin ScanCmd
       /\ bt_scanning_enabled = b

(* While the WiFi radio is on, the last thing asked of Bluetooth is to     *)
(* stop scanning (sketch.cpp:345-349, gamepad_input.h:64).                 *)
WifiPausesScan == wifi = "ap" => ScanWillBe(FALSE)

(* Between two toggles exactly one of the access point and the scan is on  *)
(* or about to be: no path, the failed start included, leaves the head     *)
(* with neither or with both (sketch.cpp:355-361).                         *)
RadioOwned == pc \in {"loop", "ack"} => /\ ScanWillBe(~webRunning)
                                        /\ wifi = IF webRunning THEN "ap" ELSE "off"
                                        /\ softap = webRunning
                                        /\ otaRunning = webRunning

(* OTA never holds a socket on an interface that is gone                   *)
(* (sketch.cpp:339-340 and 351-353).                                       *)
OtaOnInterface == otaRunning => softap /\ wifi = "ap"

(* The scan does stop while an access point stays up.                      *)
ScanStops == (wifi = "ap") ~> (wifi = "off" \/ ~bt_scanning_enabled)

(* With the access point down, the head becomes discoverable again, or the *)
(* user toggles once more (sketch.cpp:356-359).                            *)
ScanReturns == (pc = "loop" /\ ~webRunning) ~> (bt_scanning_enabled \/ pc # "loop")

(* README.md and sketch.cpp:345-349: scanning is paused before WiFi is up. *)
PausedBeforeWifi == wifi = "ap" => ~bt_scanning_enabled
=============================================================================
