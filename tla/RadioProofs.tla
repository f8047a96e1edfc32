---------------------------- MODULE RadioProofs ----------------------------
(***************************************************************************)
(* The commands of the Arduino task and how they reach the BTstack task.   *)
(*                                                                         *)
(* Radio, for every lag of the BTstack task: the proof follows what each   *)
(* position of the Arduino task leaves of the radio (Where) and the one    *)
(* fact about the queue that matters: what scanning will be once           *)
(* everything posted has been executed (ScanWillBe).                       *)
(*                                                                         *)
(* CmdRing, for every number of callers, every size of the ring and every  *)
(* set of commands: however calls overlap and however many are             *)
(* outstanding, the list of callbacks stays sound (Sound); while calls     *)
(* come in turn (InTurnInv) the ring implements that queue.                *)
(***************************************************************************)
EXTENDS Radio, CmdRing, Integers, FiniteSetTheorems, TLAPS

IsRadio(w, s, web, ota) == /\ wifi = w
                           /\ softap = s
                           /\ webRunning = web
                           /\ otaRunning = ota

RadioOff == IsRadio("off", FALSE, FALSE, FALSE)

(* The radio at each position of the Arduino task. *)
Where ==
    /\ pc = "setup_scan"                    => RadioOff
    /\ pc \in {"setup_keys", "setup_wifi"}  => RadioOff /\ ScanWillBe(TRUE)
    /\ pc \in {"loop", "ack"}               => \/ RadioOff /\ ScanWillBe(TRUE)
                                               \/ /\ IsRadio("ap", TRUE, TRUE, TRUE)
                                                  /\ ScanWillBe(FALSE)
    /\ pc = "stop_ota"    => IsRadio("ap", TRUE, TRUE, TRUE) /\ ScanWillBe(FALSE)
    /\ pc = "stop_ap"     => IsRadio("ap", TRUE, TRUE, FALSE) /\ ScanWillBe(FALSE)
    /\ pc = "stop_wifi"   => IsRadio("ap", FALSE, TRUE, FALSE) /\ ScanWillBe(FALSE)
    /\ pc = "stop_scan"   => RadioOff /\ ScanWillBe(FALSE)
    /\ pc = "start_scan"  => RadioOff /\ ScanWillBe(TRUE)
    /\ pc = "start_wifi"  => RadioOff /\ ScanWillBe(FALSE)
    /\ pc = "start_ap"    => IsRadio("ap", FALSE, FALSE, FALSE) /\ ScanWillBe(FALSE)
    /\ pc = "start_check" => /\ RadioOff \/ IsRadio("ap", TRUE, TRUE, FALSE)
                             /\ ScanWillBe(FALSE)
    /\ pc = "start_ota"   => IsRadio("ap", TRUE, TRUE, FALSE) /\ ScanWillBe(FALSE)
    /\ pc = "give_back"   => RadioOff /\ ScanWillBe(FALSE)

IInv == TypeOK /\ Where

-----------------------------------------------------------------------------
(* Posting a scan command decides what scanning will be. *)
LEMMA PostDecides ==
    ASSUME NEW b \in BOOLEAN, pending \in Seq(Command), setDiscoverable(b)
    PROVE  ScanWillBe(b)'
<1> DEFINE c == IF b THEN "START_SCANNING" ELSE "STOP_SCANNING"
<1>1. pending' = Append(pending, c) /\ c \in ScanCmd
  BY DEF setDiscoverable, Post, ScanCmd
<1>2. PICK n \in Nat : n = Len(pending) + 1
  OBVIOUS
<1>3. Len(pending') = n /\ n \in 1 .. Len(pending') /\ pending'[n] = c
  BY <1>1, <1>2
<1>4. LastScanCmd(n)'
  BY <1>1, <1>3 DEF LastScanCmd
<1> QED
  BY <1>3, <1>4 DEF ScanWillBe

(* Posting anything else changes nothing about it. *)
LEMMA PostKeeps ==
    ASSUME NEW b \in BOOLEAN, pending \in Seq(Command), Post("DEL_KEYS"), ScanWillBe(b)
    PROVE  ScanWillBe(b)'
<1>1. /\ pending' = Append(pending, "DEL_KEYS")
      /\ bt_scanning_enabled' = bt_scanning_enabled
  BY DEF Post
<1>2. /\ Len(pending') = Len(pending) + 1
      /\ pending'[Len(pending) + 1] = "DEL_KEYS"
      /\ \A i \in 1 .. Len(pending) : pending'[i] = pending[i]
  BY <1>1
<1>3. CASE \A i \in 1 .. Len(pending) : pending[i] \notin ScanCmd
  BY <1>1, <1>2, <1>3 DEF ScanWillBe, LastScanCmd, ScanCmd
<1>4. ASSUME NEW i \in 1 .. Len(pending), LastScanCmd(i),
             pending[i] = IF b THEN "START_SCANNING" ELSE "STOP_SCANNING"
      PROVE  ScanWillBe(b)'
  <2>1. LastScanCmd(i)'
    BY <1>2, <1>4 DEF LastScanCmd, ScanCmd
  <2> QED
    BY <1>2, <1>4, <2>1 DEF ScanWillBe
<1> QED
  BY <1>3, <1>4 DEF ScanWillBe

(* Neither does the BTstack task when it executes the oldest command. *)
LEMMA ExecuteKeeps ==
    ASSUME NEW b \in BOOLEAN, pending \in Seq(Command), Execute, ScanWillBe(b)
    PROVE  ScanWillBe(b)'
<1>1. /\ pending # <<>>
      /\ pending' = Tail(pending)
      /\ bt_scanning_enabled' = start_scanning(Head(pending))
  BY DEF Execute
<1>2. /\ Len(pending') = Len(pending) - 1
      /\ \A i \in 1 .. Len(pending') : pending'[i] = pending[i + 1]
      /\ Head(pending) = pending[1]
      /\ Len(pending) \in Nat \ {0}
  BY <1>1
<1>3. CASE \A i \in 1 .. Len(pending) : pending[i] \notin ScanCmd
  <2>0. Head(pending) # "START_SCANNING" /\ Head(pending) # "STOP_SCANNING"
    BY <1>2, <1>3 DEF ScanCmd
  <2>1. bt_scanning_enabled' = bt_scanning_enabled
    BY <1>1, <2>0, Zenon DEF start_scanning
  <2>2. bt_scanning_enabled = b
    BY <1>3 DEF ScanWillBe, LastScanCmd
  <2> QED
    BY <1>2, <1>3, <2>1, <2>2 DEF ScanWillBe
<1>4. ASSUME NEW i \in 1 .. Len(pending), LastScanCmd(i),
             pending[i] = IF b THEN "START_SCANNING" ELSE "STOP_SCANNING"
      PROVE  ScanWillBe(b)'
  <2>1. CASE i = 1
    <3>1. bt_scanning_enabled' = b
      BY <1>1, <1>2, <1>4, <2>1 DEF start_scanning
    <3>2. \A j \in 1 .. Len(pending') : pending'[j] \notin ScanCmd
      BY <1>2, <1>4, <2>1 DEF LastScanCmd
    <3> QED
      BY <3>1, <3>2 DEF ScanWillBe
  <2>2. CASE i > 1
    <3>1. i - 1 \in 1 .. Len(pending') /\ pending'[i - 1] = pending[i]
      BY <1>2, <2>2
    <3>2. LastScanCmd(i - 1)'
      BY <1>2, <1>4, <2>2, <3>1 DEF LastScanCmd
    <3> QED
      BY <1>4, <3>1, <3>2 DEF ScanWillBe
  <2> QED
    BY <2>1, <2>2
<1> QED
  BY <1>3, <1>4 DEF ScanWillBe

(* A step that neither posts nor executes leaves it alone. *)
LEMMA LocalKeeps ==
    ASSUME NEW b \in BOOLEAN, UNCHANGED <<pending, bt_scanning_enabled>>, ScanWillBe(b)
    PROVE  ScanWillBe(b)'
BY DEF ScanWillBe, LastScanCmd
-----------------------------------------------------------------------------
LEMMA TypeInv == Init /\ [][Next]_vars => []TypeOK
<1>0. <<>> \in Seq(Command)
  OBVIOUS
<1>1. Init => TypeOK
  BY <1>0 DEF Init, TypeOK, PC
<1>2. TypeOK /\ [Next]_vars => TypeOK'
  <2> SUFFICES ASSUME TypeOK, [Next]_vars PROVE TypeOK'
    OBVIOUS
  <2> USE DEF TypeOK, PC
  <2>1. ASSUME NEW b \in BOOLEAN, setDiscoverable(b) PROVE pending' \in Seq(Command)
    BY <2>1 DEF setDiscoverable, Post, Command
  <2>2. ASSUME Post("DEL_KEYS") PROVE pending' \in Seq(Command)
    BY <2>2 DEF Post, Command
  <2>3. CASE SetupScan
    BY <2>1, <2>3 DEF SetupScan, Goto, setDiscoverable, Post, radio
  <2>4. CASE SetupKeys
    BY <2>2, <2>4 DEF SetupKeys, Goto, Post, radio
  <2>5. CASE SetupWifi
    BY <2>5 DEF SetupWifi, Goto, Local
  <2>6. CASE OtaStop
    BY <2>6 DEF OtaStop, Goto, Local
  <2>7. CASE ApStop
    BY <2>7 DEF ApStop, Goto, Local
  <2>8. CASE WifiStop
    BY <2>8 DEF WifiStop, Goto, Local
  <2>9. CASE ScanResume
    BY <2>1, <2>9 DEF ScanResume, Goto, setDiscoverable, Post, radio
  <2>10. CASE ScanPause
    BY <2>1, <2>10 DEF ScanPause, Goto, setDiscoverable, Post, radio
  <2>11. CASE WifiStart
    BY <2>11 DEF WifiStart, Goto, Local
  <2>12. CASE ApUp
    BY <2>12 DEF ApUp, Goto, Local
  <2>13. CASE ApFails
    BY <2>13 DEF ApFails, Goto, Local
  <2>14. CASE CheckRunning
    BY <2>14 DEF CheckRunning, Goto, Local, radio
  <2>15. CASE OtaBegin
    BY <2>15 DEF OtaBegin, Goto, Local
  <2>16. CASE GiveBack
    BY <2>1, <2>16 DEF GiveBack, Goto, setDiscoverable, Post, radio
  <2>17. CASE Ack
    BY <2>17 DEF Ack, Goto, radio
  <2>18. CASE HoldFires
    BY <2>18 DEF HoldFires, Local, radio
  <2>19. CASE Release
    BY <2>19 DEF Release, radio
  <2>20. CASE Reboot
    BY <1>0, <2>20 DEF Reboot
  <2>21. CASE Execute
    <3>1. pending' \in Seq(Command)
      BY <2>21 DEF Execute
    <3>2. bt_scanning_enabled' \in BOOLEAN
      BY <2>21, Zenon DEF Execute, start_scanning
    <3> QED
      BY <2>21, <3>1, <3>2 DEF Execute, radio
  <2>22. CASE UNCHANGED vars
    BY <2>22 DEF vars
  <2> QED
    BY <2>3, <2>4, <2>5, <2>6, <2>7, <2>8, <2>9, <2>10, <2>11, <2>12, <2>13, <2>14, <2>15,
       <2>16, <2>17, <2>18, <2>19, <2>20, <2>21, <2>22 DEF Next, LoopStep
<1> QED
  BY <1>1, <1>2, PTL

(* Each step takes the radio from where its position says it is to where   *)
(* the next position says.                                                 *)
LEMMA WhereInv == Init /\ [][Next]_vars => [](TypeOK /\ Where)
<1>1. Init => Where
  BY DEF Init, Where, RadioOff, IsRadio
<1>2. TypeOK /\ Where /\ [Next]_vars => Where'
  <2> SUFFICES ASSUME TypeOK, Where, [Next]_vars PROVE Where'
    OBVIOUS
  <2> DEFINE Quiet == UNCHANGED <<pending, bt_scanning_enabled>>
  <2>0. pending \in Seq(Command) /\ pc \in PC
    BY DEF TypeOK
  <2>1. ASSUME NEW b \in BOOLEAN, ScanWillBe(b), Quiet PROVE ScanWillBe(b)'
    BY <2>1, LocalKeeps
  <2>2. ASSUME NEW b \in BOOLEAN, setDiscoverable(b) PROVE ScanWillBe(b)'
    BY <2>0, <2>2, PostDecides
  <2>3. CASE SetupScan
    BY <2>2, <2>3 DEF SetupScan, Goto, Where, RadioOff, IsRadio, radio
  <2>4. CASE SetupKeys
    <3>1. ScanWillBe(TRUE)'
      BY <2>0, <2>4, PostKeeps DEF SetupKeys, Goto, Where
    <3> QED
      BY <2>4, <3>1 DEF SetupKeys, Goto, Where, RadioOff, IsRadio, radio
  <2>5. CASE SetupWifi
    BY <2>1, <2>5 DEF SetupWifi, Goto, Local, Where, RadioOff, IsRadio
  <2>6. CASE OtaStop
    BY <2>1, <2>6 DEF OtaStop, Goto, Local, Where, IsRadio
  <2>7. CASE ApStop
    BY <2>1, <2>7 DEF ApStop, Goto, Local, Where, IsRadio
  <2>8. CASE WifiStop
    BY <2>1, <2>8 DEF WifiStop, Goto, Local, Where, RadioOff, IsRadio
  <2>9. CASE ScanResume
    BY <2>2, <2>9 DEF ScanResume, Goto, Where, RadioOff, IsRadio, radio
  <2>10. CASE ScanPause
    BY <2>2, <2>10 DEF ScanPause, Goto, Where, RadioOff, IsRadio, radio
  <2>11. CASE WifiStart
    BY <2>1, <2>11 DEF WifiStart, Goto, Local, Where, RadioOff, IsRadio
  <2>12. CASE ApUp
    BY <2>1, <2>12 DEF ApUp, Goto, Local, Where, IsRadio
  <2>13. CASE ApFails
    BY <2>1, <2>13 DEF ApFails, Goto, Local, Where, RadioOff, IsRadio
  <2>14. CASE CheckRunning
    BY <2>1, <2>14 DEF CheckRunning, Goto, Local, Where, RadioOff, IsRadio, radio
  <2>15. CASE OtaBegin
    BY <2>1, <2>15 DEF OtaBegin, Goto, Local, Where, IsRadio
  <2>16. CASE GiveBack
    BY <2>2, <2>16 DEF GiveBack, Goto, Where, RadioOff, IsRadio, radio
  <2>17. CASE Ack
    BY <2>1, <2>17 DEF Ack, Goto, Where, RadioOff, IsRadio, radio
  <2>18. CASE HoldFires
    BY <2>1, <2>18 DEF HoldFires, Local, Where, RadioOff, IsRadio, radio
  <2>19. CASE Release
    BY <2>1, <2>19 DEF Release, Where, RadioOff, IsRadio, radio
  <2>20. CASE Reboot
    BY <2>20 DEF Reboot, Where, RadioOff, IsRadio
  <2>21. CASE Execute
    <3>1. ASSUME NEW b \in BOOLEAN, ScanWillBe(b) PROVE ScanWillBe(b)'
      BY <2>0, <2>21, <3>1, ExecuteKeeps
    <3>2. UNCHANGED <<pc, wifi, softap, webRunning, otaRunning>>
      BY <2>21 DEF Execute, radio
    <3> QED
      BY <3>1, <3>2 DEF Where, RadioOff, IsRadio
  <2>22. CASE UNCHANGED vars
    BY <2>1, <2>22 DEF vars, Where, RadioOff, IsRadio
  <2> QED
    BY <2>3, <2>4, <2>5, <2>6, <2>7, <2>8, <2>9, <2>10, <2>11, <2>12, <2>13, <2>14, <2>15,
       <2>16, <2>17, <2>18, <2>19, <2>20, <2>21, <2>22 DEF Next, LoopStep
<1> QED
  BY <1>1, <1>2, TypeInv, PTL

-----------------------------------------------------------------------------
(* The state of the radio is always well formed (sketch.cpp:143-393).      *)
THEOREM TypeCorrect == Spec => []TypeOK
BY TypeInv, PTL DEF Spec

(* Whenever WiFi is on, the last thing asked of Bluetooth is to stop       *)
(* scanning, however late CPU0 is (sketch.cpp:345-349).                    *)
THEOREM WifiPausesScanAlways == Spec => []WifiPausesScan
<1>1. TypeOK /\ Where => WifiPausesScan
  BY DEF TypeOK, PC, Where, RadioOff, IsRadio, WifiPausesScan
<1> QED
  BY <1>1, WhereInv, PTL DEF Spec

(* Between toggles the access point and the scan are never both on or both *)
(* off for good (sketch.cpp:338-362).                                      *)
THEOREM RadioOwnedAlways == Spec => []RadioOwned
<1>1. TypeOK /\ Where => RadioOwned
  BY DEF Where, RadioOff, IsRadio, RadioOwned
<1> QED
  BY <1>1, WhereInv, PTL DEF Spec

(* OTA listens only while the interface it is bound to is up               *)
(* (sketch.cpp:339-340, 351-353).                                          *)
THEOREM OtaOnInterfaceAlways == Spec => []OtaOnInterface
<1>1. TypeOK /\ Where => OtaOnInterface
  BY DEF TypeOK, PC, Where, RadioOff, IsRadio, OtaOnInterface
<1> QED
  BY <1>1, WhereInv, PTL DEF Spec

-----------------------------------------------------------------------------
(* CmdRing.                                                                *)

(* The registration so many places behind another one in the ring. *)
Behind(idx, back) == IF back <= idx THEN idx - back ELSE idx - back + CMD_CALLBACK_MAX

Picked(p) == post[p].stage \in {"pick", "fill", "link"}

(* The places between the index and the last registration linked. *)
Gap == IF \E p \in Posters : Picked(p) THEN 1 ELSE 0

Busy == IF \E p \in Posters : Posting(p) THEN 1 ELSE 0
Running == IF popped = NoSlot THEN 0 ELSE 1

(* What holds however calls overlap and however many are outstanding: the  *)
(* list links no registration twice, and each is filled in before.         *)
Sound == /\ \A p \in Posters :
              /\ Posting(p) => post[p].cmd \in Cmd
              /\ post[p].stage = "store" \/ Picked(p) => post[p].slot \in Slots
              /\ post[p].stage = "link" => cmd_callback_registration[post[p].slot] # NoCmd
         /\ \A j, k \in 1 .. Len(callbacks) : callbacks[j] = callbacks[k] => j = k
         /\ \A k \in 1 .. Len(callbacks) : cmd_callback_registration[callbacks[k]] # NoCmd
         /\ popped # NoSlot => cmd_callback_registration[popped] # NoCmd

(* What holds while calls come in turn.  The registrations in use are the  *)
(* ones just behind the index, in the order of the calls.                  *)
Chain == /\ \A k \in 1 .. Len(callbacks) :
              callbacks[k] = Behind(cmd_callback_idx, Len(callbacks) - k + Gap)
         /\ popped # NoSlot => popped = Behind(cmd_callback_idx, Len(callbacks) + Gap)

Caller == \A p \in Posters :
            /\ post[p].stage = "store" => post[p].slot = NextSlot(cmd_callback_idx)
            /\ Picked(p) => post[p].slot = cmd_callback_idx
            /\ post[p].stage = "link" => cmd_callback_registration[post[p].slot] = post[p].cmd

Room == Len(callbacks) + Running + Busy <= CMD_CALLBACK_MAX

OneAtATime == \A p, q \in Posters : Posting(p) /\ Posting(q) => p = q

InTurnInv == Chain /\ Caller /\ Room /\ OneAtATime

RingInv == RingTypeOK /\ Sound /\ (orderly => InTurnInv)

-----------------------------------------------------------------------------
LEMMA NextSlotIs ==
    ASSUME NEW s \in Slots
    PROVE  /\ NextSlot(s) = IF s + 1 = CMD_CALLBACK_MAX THEN 0 ELSE s + 1
           /\ NextSlot(s) \in Slots
BY RingAssumption DEF NextSlot, Slots

LEMMA BehindIs ==
    ASSUME NEW idx \in Slots, NEW a \in 0 .. CMD_CALLBACK_MAX - 1
    PROVE  /\ Behind(idx, a) \in Slots
           /\ \A b \in 0 .. CMD_CALLBACK_MAX - 1 : a # b => Behind(idx, a) # Behind(idx, b)
           /\ Behind(idx, 0) = idx
BY RingAssumption DEF Behind, Slots

(* The types the steps of a call need. *)
LEMMA Types ==
    ASSUME RingTypeOK
    PROVE  /\ cmd_callback_idx \in Slots /\ callbacks \in Seq(Slots) /\ Len(callbacks) \in Nat
           /\ popped \in Slots \cup {NoSlot} /\ NoSlot \notin Slots
           /\ Running \in {0, 1} /\ Gap \in {0, 1} /\ Busy \in {0, 1}
           /\ popped = NoSlot <=> Running = 0
BY RingAssumption DEF RingTypeOK, Slots, NoSlot, Running, Gap, Busy

(* Calls begun and not executed yet: none, if nothing goes on ... *)
LEMMA NoneOutstanding ==
    ASSUME RingTypeOK, Outstanding = 0
    PROVE  Len(callbacks) = 0 /\ popped = NoSlot /\ \A p \in Posters : ~Posting(p)
<1> DEFINE S == {p \in Posters : Posting(p)}
<1>1. IsFiniteSet(S) /\ Cardinality(S) \in Nat
  BY RingAssumption, FS_Subset, FS_CardinalityType
<1>2. Outstanding = Len(callbacks) + Running + Cardinality(S)
  BY DEF Outstanding, Running
<1> HIDE DEF S
<1>3. Len(callbacks) = 0 /\ Running = 0 /\ Cardinality(S) = 0
  BY <1>1, <1>2, Types
<1>4. S = {}
  BY <1>1, <1>3, FS_EmptySet
<1> QED
  BY <1>3, <1>4, Types DEF S

(* ... and what the run loop has, if nobody is inside a call. *)
LEMMA OutstandingIs ==
    ASSUME RingTypeOK, \A p \in Posters : ~Posting(p)
    PROVE  Outstanding = Len(callbacks) + Running
<1>1. {p \in Posters : Posting(p)} = {}
  OBVIOUS
<1>2. Cardinality({p \in Posters : Posting(p)}) = 0
  BY <1>1, FS_EmptySet
<1> QED
  BY <1>2, Types DEF Outstanding, Running

-----------------------------------------------------------------------------
LEMMA InitHolds == ASSUME RingInit PROVE RingInv
<1> USE RingAssumption DEF RingInit, NotPosting, Slots, NoSlot
<1>1. RingTypeOK
  BY DEF RingTypeOK
<1>2. Sound
  BY DEF Sound, Posting, Picked
<1>3. Chain /\ Caller /\ OneAtATime
  BY DEF Chain, Caller, Posting, Picked, OneAtATime
<1>4. Room
  BY DEF Room, Running, Busy, Posting
<1> QED
  BY <1>1, <1>2, <1>3, <1>4 DEF RingInv, InTurnInv

CallRecord == [stage : {"none", "load", "store", "pick", "fill", "link"},
               cmd : Cmd \cup {NoCmd}, slot : Slots \cup {NoSlot}]

LEMMA CallWrites ==
    ASSUME NEW r \in CallRecord, NEW x \in Slots
    PROVE  /\ \A st \in {"pick", "link"} :
                LET q == [r EXCEPT !.stage = st]
                IN  q \in CallRecord /\ q.stage = st /\ q.cmd = r.cmd /\ q.slot = r.slot
           /\ \A st \in {"store", "fill"} :
                LET q == [r EXCEPT !.stage = st, !.slot = x]
                IN  q \in CallRecord /\ q.stage = st /\ q.cmd = r.cmd /\ q.slot = x
BY DEF CallRecord

(* A step of the caller p to the record r. *)
Steps(p, r) == /\ r \in CallRecord
               /\ post' = [post EXCEPT ![p] = r]

LEMMA PostIs ==
    ASSUME RingTypeOK, NEW p \in Posters, NEW r, Steps(p, r)
    PROVE  /\ post' \in [Posters -> CallRecord] /\ post'[p] = r
           /\ \A q \in Posters : q # p => post'[q] = post[q]
BY DEF RingTypeOK, CallRecord, Steps

(* Nobody but p is inside a call: what it is doing is all that goes on. *)
OnlyOne(p) == \A q \in Posters : q # p => ~Posting(q)

LEMMA StepsIs ==
    ASSUME RingTypeOK, NEW p \in Posters, OnlyOne(p), NEW r, Steps(p, r)
    PROVE  /\ post'[p] = r /\ OneAtATime'
           /\ \A q \in Posters : q # p => post'[q].stage = "none"
           /\ Gap  = IF Picked(p) THEN 1 ELSE 0
           /\ Busy = IF Posting(p) THEN 1 ELSE 0
           /\ Gap' = IF r.stage \in {"pick", "fill", "link"} THEN 1 ELSE 0
           /\ Busy' = IF r.stage # "none" THEN 1 ELSE 0
<1>1. /\ post'[p] = r
      /\ \A q \in Posters : q # p => post[q].stage = "none" /\ post'[q].stage = "none"
  BY PostIs DEF OnlyOne, Posting
<1>2. Gap = (IF Picked(p) THEN 1 ELSE 0) /\ Busy = (IF Posting(p) THEN 1 ELSE 0)
  BY <1>1 DEF Gap, Busy, Picked, Posting
<1>3. /\ Gap' = IF r.stage \in {"pick", "fill", "link"} THEN 1 ELSE 0
      /\ Busy' = IF r.stage # "none" THEN 1 ELSE 0
  BY <1>1 DEF Gap, Busy, Picked, Posting
<1> QED
  BY <1>1, <1>2, <1>3 DEF OneAtATime, Posting

(* A call that leaves the list and the registrations alone. *)
LEMMA QuietIsSound ==
    ASSUME RingTypeOK, Sound, NEW p \in Posters, NEW r, Steps(p, r),
           cmd_callback_idx' \in Slots, orderly' \in BOOLEAN,
           UNCHANGED <<cmd_callback_registration, callbacks, popped, executed>>,
           r.stage # "none" => r.cmd \in Cmd,
           r.stage \in {"store", "pick", "fill", "link"} => r.slot \in Slots,
           r.stage # "link"
    PROVE  RingTypeOK' /\ Sound'
<1>1. /\ post' \in [Posters -> CallRecord] /\ post'[p] = r
      /\ \A q \in Posters : q # p => post'[q] = post[q]
  BY PostIs
<1>2. RingTypeOK'
  BY <1>1 DEF RingTypeOK, CallRecord
<1>3. Sound'
  BY <1>1 DEF Sound, Posting, Picked
<1> QED
  BY <1>2, <1>3

(* The steps that only a call takes keep the list sound. *)
LEMMA CallIsSound ==
    ASSUME RingTypeOK, Sound, NEW p \in Posters, NEW c \in Cmd, Call(p, c)
    PROVE  RingTypeOK' /\ Sound'
<1> DEFINE r == [stage |-> "load", cmd |-> c, slot |-> NoSlot]
<1>1. Steps(p, r) /\ r.stage = "load" /\ r.cmd = c
  BY DEF Steps, CallRecord, Call
<1> HIDE DEF r
<1>2. orderly' \in BOOLEAN
  BY DEF Call, RingTypeOK
<1> QED
  BY <1>1, <1>2, QuietIsSound, Types DEF Call

LEMMA IndexIsSound ==
    ASSUME RingTypeOK, Sound, NEW p \in Posters, LoadIdx(p) \/ StoreIdx(p) \/ PickSlot(p)
    PROVE  RingTypeOK' /\ Sound'
<1>1. /\ cmd_callback_idx \in Slots /\ NextSlot(cmd_callback_idx) \in Slots
      /\ post[p] \in CallRecord /\ post[p].cmd \in Cmd
      /\ post[p].stage \in {"store", "pick"} => post[p].slot \in Slots
      /\ UNCHANGED <<cmd_callback_registration, callbacks, popped, executed, orderly>>
      /\ orderly' \in BOOLEAN
  BY NextSlotIs, Types
     DEF RingTypeOK, CallRecord, LoadIdx, StoreIdx, PickSlot, Sound, Posting, Picked
<1>2. CASE LoadIdx(p)
  <2> DEFINE r == [post[p] EXCEPT !.stage = "store", !.slot = NextSlot(cmd_callback_idx)]
  <2>1. r \in CallRecord /\ r.stage = "store" /\ r.cmd = post[p].cmd
        /\ r.slot = NextSlot(cmd_callback_idx)
    BY <1>1, CallWrites, Zenon
  <2>2. Steps(p, r) /\ cmd_callback_idx' \in Slots
    BY <1>1, <1>2, <2>1 DEF Steps, LoadIdx
  <2> HIDE DEF r
  <2> QED
    BY <1>1, <2>1, <2>2, QuietIsSound
<1>3. CASE StoreIdx(p)
  <2> DEFINE r == [post[p] EXCEPT !.stage = "pick"]
  <2>1. r \in CallRecord /\ r.stage = "pick" /\ r.cmd = post[p].cmd /\ r.slot = post[p].slot
    BY <1>1, CallWrites
  <2>2. Steps(p, r) /\ cmd_callback_idx' \in Slots /\ r.slot \in Slots
    BY <1>1, <1>3, <2>1 DEF Steps, StoreIdx
  <2> HIDE DEF r
  <2> QED
    BY <1>1, <2>1, <2>2, QuietIsSound
<1>4. CASE PickSlot(p)
  <2>1. PICK s \in {post[p].slot, cmd_callback_idx} :
           post' = [post EXCEPT ![p].stage = "fill", ![p].slot = s]
    BY <1>4 DEF PickSlot
  <2>2. s \in Slots
    BY <1>1, <1>4, <2>1 DEF PickSlot
  <2> DEFINE r == [post[p] EXCEPT !.stage = "fill", !.slot = s]
  <2>3. r \in CallRecord /\ r.stage = "fill" /\ r.cmd = post[p].cmd /\ r.slot = s
    BY <1>1, <2>2, CallWrites, Zenon
  <2>4. Steps(p, r) /\ cmd_callback_idx' \in Slots
    BY <1>1, <1>4, <2>1, <2>3 DEF Steps, PickSlot
  <2> HIDE DEF r
  <2> QED
    BY <1>1, <2>2, <2>3, <2>4, QuietIsSound
<1> QED
  BY <1>2, <1>3, <1>4

LEMMA FillIsSound ==
    ASSUME RingTypeOK, Sound, NEW p \in Posters, Fill(p)
    PROVE  RingTypeOK' /\ Sound'
<1> DEFINE r == [post[p] EXCEPT !.stage = "link"]
<1>1. /\ post[p] \in CallRecord /\ post[p].stage = "fill" /\ post[p].cmd \in Cmd
      /\ post[p].slot \in Slots /\ post[p].cmd # NoCmd
  BY RingAssumption DEF RingTypeOK, CallRecord, Fill, Sound, Posting, Picked
<1>2. r \in CallRecord /\ r.stage = "link" /\ r.cmd = post[p].cmd /\ r.slot = post[p].slot
  BY <1>1, CallWrites
<1>3. Steps(p, r)
  BY <1>2 DEF Steps, Fill
<1> HIDE DEF r
<1>4. /\ post' \in [Posters -> CallRecord] /\ post'[p] = r
      /\ \A q \in Posters : q # p => post'[q] = post[q]
  BY <1>3, PostIs
<1>5. UNCHANGED <<cmd_callback_idx, callbacks, popped, executed, orderly>>
  BY DEF Fill
<1>6. /\ cmd_callback_registration' \in [Slots -> Cmd \cup {NoCmd}]
      /\ cmd_callback_registration'[post[p].slot] # NoCmd
      /\ \A s \in Slots : cmd_callback_registration[s] # NoCmd => cmd_callback_registration'[s] # NoCmd
  BY <1>1 DEF Fill, RingTypeOK
<1>7. RingTypeOK'
  BY <1>4, <1>5, <1>6 DEF RingTypeOK, CallRecord
<1>8. /\ callbacks \in Seq(Slots) /\ \A k \in 1 .. Len(callbacks) : callbacks[k] \in Slots
      /\ popped # NoSlot => popped \in Slots
  BY Types
<1>9. ASSUME NEW q \in Posters
      PROVE  /\ Posting(q)' => post'[q].cmd \in Cmd
             /\ post'[q].stage = "store" \/ Picked(q)' => post'[q].slot \in Slots
             /\ post'[q].stage = "link" => cmd_callback_registration'[post'[q].slot] # NoCmd
  BY <1>1, <1>2, <1>4, <1>6 DEF Sound, Posting, Picked
<1> QED
  BY <1>5, <1>6, <1>7, <1>8, <1>9 DEF Sound

LEMMA LinkIsSound ==
    ASSUME RingTypeOK, Sound, NEW p \in Posters, Link(p)
    PROVE  RingTypeOK' /\ Sound'
<1>1. /\ post[p] \in CallRecord /\ post[p].stage = "link" /\ post[p].slot \in Slots
      /\ cmd_callback_registration[post[p].slot] # NoCmd
      /\ callbacks \in Seq(Slots) /\ Len(callbacks) \in Nat
  BY Types DEF RingTypeOK, CallRecord, Link, Sound, Posting, Picked
<1>2. Steps(p, NotPosting) /\ NotPosting.stage = "none"
  BY DEF Steps, Link, NotPosting, CallRecord
<1>3. /\ post' \in [Posters -> CallRecord] /\ post'[p].stage = "none"
      /\ \A q \in Posters : q # p => post'[q] = post[q]
  BY <1>2, PostIs
<1>4. UNCHANGED <<cmd_callback_idx, cmd_callback_registration, popped, executed, orderly>>
  BY DEF Link
<1>5. \/ callbacks' = callbacks
      \/ /\ post[p].slot \notin ToSet(callbacks)
         /\ callbacks' = Append(callbacks, post[p].slot)
  BY DEF Link, AddTail
<1>6. callbacks' \in Seq(Slots)
  BY <1>1, <1>5
<1>7. RingTypeOK'
  BY <1>3, <1>4, <1>6 DEF RingTypeOK, CallRecord
<1>8. /\ \A j, k \in 1 .. Len(callbacks') : callbacks'[j] = callbacks'[k] => j = k
      /\ \A k \in 1 .. Len(callbacks') : cmd_callback_registration[callbacks'[k]] # NoCmd
  <2>1. CASE callbacks' = callbacks
    BY <2>1 DEF Sound
  <2>2. CASE /\ post[p].slot \notin ToSet(callbacks)
             /\ callbacks' = Append(callbacks, post[p].slot)
    <3>1. /\ Len(callbacks') = Len(callbacks) + 1
          /\ callbacks'[Len(callbacks) + 1] = post[p].slot
          /\ \A k \in 1 .. Len(callbacks) : callbacks'[k] = callbacks[k]
      BY <1>1, <2>2
    <3>2. \A k \in 1 .. Len(callbacks) : callbacks[k] # post[p].slot
      BY <1>1, <2>2 DEF ToSet
    <3>3. \A k \in 1 .. Len(callbacks') : k \in 1 .. Len(callbacks) \/ k = Len(callbacks) + 1
      BY <1>1, <3>1
    <3> QED
      BY <1>1, <3>1, <3>2, <3>3 DEF Sound
  <2> QED
    BY <1>5, <2>1, <2>2
<1>9. ASSUME NEW q \in Posters
      PROVE  /\ Posting(q)' => post'[q].cmd \in Cmd
             /\ post'[q].stage = "store" \/ Picked(q)' => post'[q].slot \in Slots
             /\ post'[q].stage = "link" => cmd_callback_registration'[post'[q].slot] # NoCmd
  BY <1>3, <1>4 DEF Sound, Posting, Picked
<1> QED
  BY <1>4, <1>7, <1>8, <1>9 DEF Sound

LEMMA RunLoopIsSound ==
    ASSUME RingTypeOK, Sound, Pop \/ Run
    PROVE  RingTypeOK' /\ Sound'
<1>1. CASE Pop
  <2>1. /\ callbacks \in Seq(Slots) /\ callbacks # <<>> /\ Len(callbacks) \in Nat
        /\ Len(callbacks) # 0 /\ NoSlot \notin Slots
    BY <1>1, Types DEF Pop
  <2>2. /\ callbacks' \in Seq(Slots) /\ Len(callbacks') = Len(callbacks) - 1
        /\ \A k \in 1 .. Len(callbacks) - 1 : callbacks'[k] = callbacks[k + 1]
        /\ popped' = callbacks[1] /\ popped' \in Slots
    BY <1>1, <2>1 DEF Pop
  <2>3. UNCHANGED <<cmd_callback_idx, cmd_callback_registration, executed, post, orderly>>
    BY <1>1 DEF Pop
  <2>4. RingTypeOK'
    BY <2>2, <2>3 DEF RingTypeOK
  <2>5. ASSUME NEW j \in 1 .. Len(callbacks'), NEW k \in 1 .. Len(callbacks'),
               callbacks'[j] = callbacks'[k]
        PROVE  j = k
    <3>1. /\ j + 1 \in 1 .. Len(callbacks) /\ k + 1 \in 1 .. Len(callbacks)
          /\ callbacks[j + 1] = callbacks[k + 1]
      BY <2>1, <2>2, <2>5
    <3>2. j + 1 = k + 1
      BY <3>1 DEF Sound
    <3> QED
      BY <2>1, <2>2, <3>2
  <2>6. ASSUME NEW k \in 1 .. Len(callbacks')
        PROVE  cmd_callback_registration[callbacks'[k]] # NoCmd
    <3>1. k + 1 \in 1 .. Len(callbacks) /\ callbacks'[k] = callbacks[k + 1]
      BY <2>1, <2>2
    <3> QED
      BY <3>1 DEF Sound
  <2>7. cmd_callback_registration[popped'] # NoCmd
    BY <2>1, <2>2 DEF Sound
  <2> QED
    BY <2>3, <2>4, <2>5, <2>6, <2>7 DEF Sound, Posting, Picked
<1>2. CASE Run
  <2>1. /\ UNCHANGED <<cmd_callback_idx, cmd_callback_registration, callbacks, post, orderly>>
        /\ popped' = NoSlot /\ executed' \in Cmd \cup {NoCmd}
    BY <1>2 DEF Run, RingTypeOK
  <2> QED
    BY <2>1 DEF RingTypeOK, Sound, Posting, Picked
<1> QED
  BY <1>1, <1>2

-----------------------------------------------------------------------------
(* Calls in turn.                                                          *)

LEMMA AloneIs ==
    ASSUME OneAtATime, NEW p \in Posters, Posting(p)
    PROVE  OnlyOne(p)
BY DEF OneAtATime, OnlyOne

(* A task enters a safe call, with nothing outstanding or in its turn. *)
LEMMA CallKeeps ==
    ASSUME RingInv, NEW p \in Posters, NEW c \in Cmd, Call(p, c), orderly'
    PROVE  InTurnInv'
<1> DEFINE r == [stage |-> "load", cmd |-> c, slot |-> NoSlot]
<1> USE DEF RingInv
<1>1. Steps(p, r)
  BY DEF Steps, CallRecord, Call
<1>2. Outstanding = 0 \/ (orderly /\ InTurn)
  BY DEF Call
<1>3. /\ \A q \in Posters : ~Posting(q)
      /\ Chain /\ Len(callbacks) + Running < CMD_CALLBACK_MAX
  <2>1. CASE Outstanding = 0
    BY <2>1, NoneOutstanding, Types, RingAssumption DEF Chain, Running
  <2>2. CASE orderly /\ InTurn
    BY <2>2, OutstandingIs DEF InTurn, InTurnInv
  <2> QED
    BY <1>2, <2>1, <2>2
<1>4. /\ post'[p] = r /\ OneAtATime'
      /\ \A q \in Posters : q # p => post'[q].stage = "none"
      /\ Gap' = 0 /\ Busy' = 1 /\ Gap = 0
  BY <1>1, <1>3, StepsIs DEF OnlyOne, Posting, Picked
<1>5. UNCHANGED <<cmd_callback_idx, cmd_callback_registration, callbacks, popped, executed>>
  BY DEF Call
<1>6. Chain'
  BY <1>3, <1>4, <1>5 DEF Chain, Behind
<1>7. Caller'
  BY <1>4, <1>5 DEF Caller, Picked, Posting
<1>8. Room'
  BY <1>3, <1>4, <1>5, Types, RingAssumption DEF Room, Running
<1> QED
  BY <1>4, <1>6, <1>7, <1>8 DEF InTurnInv

(* It computes the next registration. *)
LEMMA LoadIdxKeeps ==
    ASSUME RingTypeOK, Sound, InTurnInv, NEW p \in Posters, LoadIdx(p)
    PROVE  InTurnInv'
<1> DEFINE x == NextSlot(cmd_callback_idx)
           r == [post[p] EXCEPT !.stage = "store", !.slot = x]
<1>1. x \in Slots /\ post[p] \in CallRecord /\ post[p].stage = "load"
  BY NextSlotIs, RingAssumption DEF InTurnInv, RingTypeOK, CallRecord, Slots, LoadIdx
<1> HIDE DEF x
<1>2. r \in CallRecord /\ r.stage = "store" /\ r.cmd = post[p].cmd /\ r.slot = x
  BY <1>1, CallWrites, Zenon
<1>3. Steps(p, r)
  BY <1>2 DEF Steps, LoadIdx, x
<1> HIDE DEF r
<1>4. /\ post'[p] = r /\ OneAtATime'
      /\ \A q \in Posters : q # p => post'[q].stage = "none"
      /\ Gap' = 0 /\ Busy' = 1 /\ Gap = 0 /\ Busy = 1
  BY <1>1, <1>2, <1>3, StepsIs, AloneIs DEF InTurnInv, Posting, Picked
<1>5. UNCHANGED <<cmd_callback_idx, cmd_callback_registration, callbacks, popped, executed>>
  BY DEF LoadIdx
<1>7. Chain' /\ Room'
  BY <1>4, <1>5 DEF InTurnInv, Chain, Behind, Room, Running
<1>8. Caller'
  BY <1>1, <1>2, <1>4, <1>5 DEF InTurnInv, Caller, Picked, Posting, x, NextSlot
<1> QED
  BY <1>4, <1>7, <1>8 DEF InTurnInv

(* It moves the index on: everything in use is one place further behind. *)
LEMMA StoreIdxKeeps ==
    ASSUME RingTypeOK, Sound, InTurnInv, NEW p \in Posters, StoreIdx(p)
    PROVE  InTurnInv'
<1> DEFINE r == [post[p] EXCEPT !.stage = "pick"]
           len == Len(callbacks)
<1>1. /\ post[p] \in CallRecord /\ post[p].stage = "store"
      /\ cmd_callback_idx \in Slots /\ post[p].slot = NextSlot(cmd_callback_idx)
  BY DEF InTurnInv, RingTypeOK, CallRecord, StoreIdx, Caller
<1>2. /\ cmd_callback_idx' = IF cmd_callback_idx + 1 = CMD_CALLBACK_MAX THEN 0
                             ELSE cmd_callback_idx + 1
      /\ cmd_callback_idx' \in Slots
  BY <1>1, NextSlotIs, RingAssumption DEF StoreIdx, Slots
<1>3. r \in CallRecord /\ r.stage = "pick" /\ r.cmd = post[p].cmd /\ r.slot = post[p].slot
  BY <1>1, CallWrites
<1>4. Steps(p, r)
  BY <1>3 DEF Steps, StoreIdx
<1> HIDE DEF r
<1>5. /\ post'[p] = r /\ OneAtATime'
      /\ \A q \in Posters : q # p => post'[q].stage = "none"
      /\ Gap' = 1 /\ Busy' = 1 /\ Gap = 0 /\ Busy = 1
  BY <1>1, <1>3, <1>4, StepsIs, AloneIs DEF InTurnInv, Posting, Picked
<1>6. UNCHANGED <<cmd_callback_registration, callbacks, popped, executed>>
  BY DEF StoreIdx
<1>8. \A b \in 0 .. CMD_CALLBACK_MAX - 2 :
         Behind(cmd_callback_idx', b + 1) = Behind(cmd_callback_idx, b)
  BY <1>1, <1>2, RingAssumption DEF Behind, Slots
<1>9. len \in Nat /\ Running \in {0, 1} /\ len + Running + 1 <= CMD_CALLBACK_MAX
  BY <1>5, Types DEF InTurnInv, Room
<1>10. Chain'
  <2>1. ASSUME NEW k \in 1 .. len PROVE callbacks[k] = Behind(cmd_callback_idx', len - k + 1)
    <3>1. callbacks[k] = Behind(cmd_callback_idx, len - k) /\ len - k \in 0 .. CMD_CALLBACK_MAX - 2
      BY <1>5, <1>9, RingAssumption DEF InTurnInv, Chain
    <3> QED
      BY <1>8, <3>1
  <2>2. ASSUME popped # NoSlot PROVE popped = Behind(cmd_callback_idx', len + 1)
    <3>1. Running = 1 /\ popped = Behind(cmd_callback_idx, len)
      BY <1>5, <1>9, <2>2 DEF InTurnInv, Chain, Running
    <3> QED
      BY <1>8, <1>9, <3>1, RingAssumption
  <2> QED
    BY <1>5, <1>6, <2>1, <2>2 DEF Chain
<1>11. Caller'
  BY <1>1, <1>3, <1>5, <1>6 DEF InTurnInv, Caller, Picked, Posting, StoreIdx
<1>12. Room'
  BY <1>5, <1>6 DEF InTurnInv, Room, Running
<1> QED
  BY <1>5, <1>10, <1>11, <1>12 DEF InTurnInv

(* Read again or not, the index is the one it has just written. *)
LEMMA PickSlotKeeps ==
    ASSUME RingTypeOK, Sound, InTurnInv, NEW p \in Posters, PickSlot(p)
    PROVE  InTurnInv'
<1> DEFINE r == [post[p] EXCEPT !.stage = "fill", !.slot = cmd_callback_idx]
<1>1. /\ post[p] \in CallRecord /\ post[p].stage = "pick" /\ cmd_callback_idx \in Slots
      /\ post[p].slot = cmd_callback_idx
  BY DEF InTurnInv, RingTypeOK, CallRecord, PickSlot, Caller, Picked
<1>2. r \in CallRecord /\ r.stage = "fill" /\ r.cmd = post[p].cmd /\ r.slot = cmd_callback_idx
  BY <1>1 DEF CallRecord
<1>3. Steps(p, r)
  BY <1>1, <1>2 DEF Steps, PickSlot
<1> HIDE DEF r
<1>4. /\ post'[p] = r /\ OneAtATime'
      /\ \A q \in Posters : q # p => post'[q].stage = "none"
      /\ Gap' = 1 /\ Busy' = 1 /\ Gap = 1 /\ Busy = 1
  BY <1>1, <1>2, <1>3, StepsIs, AloneIs DEF InTurnInv, Posting, Picked
<1>5. UNCHANGED <<cmd_callback_idx, cmd_callback_registration, callbacks, popped, executed>>
  BY DEF PickSlot
<1>7. Chain' /\ Room'
  BY <1>4, <1>5 DEF InTurnInv, Chain, Behind, Room, Running
<1>8. Caller'
  BY <1>1, <1>2, <1>4, <1>5 DEF InTurnInv, Caller, Picked, Posting
<1> QED
  BY <1>4, <1>7, <1>8 DEF InTurnInv

(* The registration at the index is not in use while a call has it. *)
LEMMA IndexIsFree ==
    ASSUME RingTypeOK, Sound, InTurnInv, NEW p \in Posters, Picked(p)
    PROVE  /\ \A k \in 1 .. Len(callbacks) : callbacks[k] # cmd_callback_idx
           /\ popped # cmd_callback_idx
           /\ cmd_callback_idx \notin ToSet(callbacks)
<1> DEFINE len == Len(callbacks)
<1>1. Gap = 1 /\ Busy = 1
  BY AloneIs DEF InTurnInv, Picked, Posting, Gap, Busy
<1>2. /\ len \in Nat /\ Running \in {0, 1} /\ len + Running + 1 <= CMD_CALLBACK_MAX
      /\ cmd_callback_idx \in Slots /\ callbacks \in Seq(Slots) /\ NoSlot \notin Slots
  BY <1>1, Types DEF InTurnInv, Room
<1>3. \A b \in 1 .. CMD_CALLBACK_MAX - 1 : Behind(cmd_callback_idx, b) # cmd_callback_idx
  BY <1>2, RingAssumption DEF Behind, Slots
<1>4. ASSUME NEW k \in 1 .. len PROVE callbacks[k] # cmd_callback_idx
  <2>1. callbacks[k] = Behind(cmd_callback_idx, len - k + 1)
    BY <1>1 DEF InTurnInv, Chain
  <2>2. len - k + 1 \in 1 .. CMD_CALLBACK_MAX - 1
    BY <1>2, RingAssumption
  <2> QED
    BY <1>3, <2>1, <2>2
<1>5. popped # cmd_callback_idx
  <2>1. CASE popped = NoSlot
    BY <1>2, <2>1
  <2>2. CASE popped # NoSlot
    <3>1. popped = Behind(cmd_callback_idx, len + 1) /\ Running = 1
      BY <1>1, <2>2 DEF InTurnInv, Chain, Running
    <3>2. len + 1 \in 1 .. CMD_CALLBACK_MAX - 1
      BY <1>2, <3>1, RingAssumption
    <3> QED
      BY <1>3, <3>1, <3>2
  <2> QED
    BY <2>1, <2>2
<1> QED
  BY <1>2, <1>4, <1>5 DEF ToSet

(* It fills in the registration. *)
LEMMA FillKeeps ==
    ASSUME RingTypeOK, Sound, InTurnInv, NEW p \in Posters, Fill(p)
    PROVE  InTurnInv'
<1> DEFINE r == [post[p] EXCEPT !.stage = "link"]
<1>1. /\ post[p] \in CallRecord /\ post[p].stage = "fill" /\ cmd_callback_idx \in Slots
      /\ post[p].slot = cmd_callback_idx /\ post[p].cmd \in Cmd
  BY DEF InTurnInv, Sound, RingTypeOK, CallRecord, Fill, Caller, Picked, Posting
<1>2. r \in CallRecord /\ r.stage = "link" /\ r.cmd = post[p].cmd /\ r.slot = post[p].slot
  BY <1>1, CallWrites
<1>3. Steps(p, r)
  BY <1>2 DEF Steps, Fill
<1> HIDE DEF r
<1>4. /\ post'[p] = r /\ OneAtATime'
      /\ \A q \in Posters : q # p => post'[q].stage = "none"
      /\ Gap' = 1 /\ Busy' = 1 /\ Gap = 1 /\ Busy = 1
  BY <1>1, <1>2, <1>3, StepsIs, AloneIs DEF InTurnInv, Posting, Picked
<1>5. /\ UNCHANGED <<cmd_callback_idx, callbacks, popped, executed>>
      /\ cmd_callback_registration'
           = [cmd_callback_registration EXCEPT ![post[p].slot] = post[p].cmd]
  BY DEF Fill
<1>6. /\ cmd_callback_registration' \in [Slots -> Cmd \cup {NoCmd}]
      /\ cmd_callback_registration'[post[p].slot] = post[p].cmd
  BY <1>1, <1>5 DEF InTurnInv, RingTypeOK
<1>8. Chain' /\ Room'
  BY <1>4, <1>5 DEF InTurnInv, Chain, Behind, Room, Running
<1>9. Caller'
  BY <1>1, <1>2, <1>4, <1>5, <1>6 DEF Caller, Picked, Posting
<1> QED
  BY <1>4, <1>8, <1>9 DEF InTurnInv

(* It links the registration, which is not linked yet, at the end. *)
LEMMA LinkKeeps ==
    ASSUME RingTypeOK, Sound, InTurnInv, NEW p \in Posters, Link(p)
    PROVE  InTurnInv'
<1> DEFINE len == Len(callbacks)
<1>1. /\ post[p].stage = "link" /\ cmd_callback_idx \in Slots
      /\ post[p].slot = cmd_callback_idx /\ callbacks \in Seq(Slots)
  BY DEF InTurnInv, RingTypeOK, Link, Caller, Picked
<1>2. callbacks' = Append(callbacks, cmd_callback_idx)
  BY <1>1, IndexIsFree DEF Link, AddTail, Picked
<1>3. Steps(p, NotPosting)
  BY DEF Steps, Link, NotPosting, CallRecord
<1>4. /\ OneAtATime' /\ post'[p].stage = "none"
      /\ \A q \in Posters : q # p => post'[q].stage = "none"
      /\ Gap' = 0 /\ Busy' = 0 /\ Gap = 1 /\ Busy = 1
  BY <1>1, <1>3, StepsIs, AloneIs DEF InTurnInv, Posting, Picked, NotPosting
<1>5. UNCHANGED <<cmd_callback_idx, cmd_callback_registration, popped, executed>>
  BY DEF Link
<1>6. /\ callbacks' \in Seq(Slots) /\ len \in Nat /\ Len(callbacks') = len + 1
      /\ callbacks'[len + 1] = cmd_callback_idx
      /\ \A k \in 1 .. len : callbacks'[k] = callbacks[k]
  BY <1>1, <1>2
<1>8. Chain'
  <2>1. ASSUME NEW k \in 1 .. len + 1
        PROVE  callbacks'[k] = Behind(cmd_callback_idx, len + 1 - k)
    <3>1. CASE k = len + 1
      BY <1>1, <1>6, <3>1, BehindIs, RingAssumption
    <3>2. CASE k \in 1 .. len
      <4>1. callbacks[k] = Behind(cmd_callback_idx, len - k + 1)
        BY <1>4, <3>2 DEF InTurnInv, Chain
      <4>2. len - k + 1 = len + 1 - k
        BY <1>6
      <4> QED
        BY <1>6, <3>2, <4>1, <4>2
    <3> QED
      BY <1>6, <3>1, <3>2
  <2>2. popped # NoSlot => popped = Behind(cmd_callback_idx, len + 1)
    BY <1>4 DEF InTurnInv, Chain
  <2> QED
    BY <1>4, <1>5, <1>6, <2>1, <2>2 DEF Chain
<1>9. Caller'
  BY <1>4 DEF Caller, Picked, Posting
<1>10. Room'
  BY <1>4, <1>5, <1>6, Types, RingAssumption DEF InTurnInv, Room, Running
<1> QED
  BY <1>4, <1>8, <1>9, <1>10 DEF InTurnInv

(* The BTstack task takes the oldest registration ... *)
LEMMA PopKeeps ==
    ASSUME RingTypeOK, Sound, InTurnInv, Pop
    PROVE  InTurnInv'
<1> DEFINE len == Len(callbacks)
<1>1. /\ callbacks \in Seq(Slots) /\ callbacks # <<>> /\ len \in Nat /\ len # 0
      /\ Gap \in {0, 1} /\ Busy \in {0, 1} /\ NoSlot \notin Slots
  BY Types DEF InTurnInv, Pop
<1>2. /\ callbacks' \in Seq(Slots) /\ Len(callbacks') = len - 1
      /\ \A k \in 1 .. len - 1 : callbacks'[k] = callbacks[k + 1]
      /\ popped' = callbacks[1] /\ popped' \in Slots
  BY <1>1 DEF Pop
<1>3. /\ UNCHANGED <<cmd_callback_idx, cmd_callback_registration, executed, post>>
      /\ OneAtATime' /\ Gap' = Gap /\ Busy' = Busy /\ Running = 0 /\ Running' = 1
  BY <1>1, <1>2 DEF InTurnInv, OneAtATime, Pop, Gap, Busy, Picked, Posting, Running
<1>5. Chain'
  <2>1. ASSUME NEW k \in 1 .. len - 1
        PROVE  callbacks'[k] = Behind(cmd_callback_idx, len - 1 - k + Gap)
    <3>1. k + 1 \in 1 .. len /\ len - (k + 1) + Gap = len - 1 - k + Gap
      BY <1>1
    <3>2. callbacks[k + 1] = Behind(cmd_callback_idx, len - (k + 1) + Gap)
      BY <3>1 DEF InTurnInv, Chain
    <3> QED
      BY <1>2, <3>1, <3>2
  <2>2. popped' = Behind(cmd_callback_idx, len - 1 + Gap)
    BY <1>1, <1>2 DEF InTurnInv, Chain
  <2> QED
    BY <1>2, <1>3, <2>1, <2>2 DEF Chain
<1>6. Caller'
  BY <1>3 DEF InTurnInv, Caller, Picked, Posting
<1>7. Room'
  BY <1>1, <1>2, <1>3, RingAssumption DEF InTurnInv, Room
<1> QED
  BY <1>3, <1>5, <1>6, <1>7 DEF InTurnInv

(* ... and runs it. *)
LEMMA RunKeeps ==
    ASSUME RingTypeOK, Sound, InTurnInv, Run
    PROVE  InTurnInv'
<1>1. /\ UNCHANGED <<cmd_callback_idx, cmd_callback_registration, callbacks, post>>
      /\ OneAtATime' /\ Gap' = Gap /\ Busy' = Busy
      /\ Running = 1 /\ Running' = 0 /\ popped' = NoSlot
  BY DEF InTurnInv, OneAtATime, Run, Gap, Busy, Picked, Posting, Running
<1>4. Chain' /\ Caller'
  BY <1>1 DEF InTurnInv, Chain, Caller, Picked, Posting
<1>5. Room'
  BY <1>1, Types, RingAssumption DEF InTurnInv, Room
<1> QED
  BY <1>1, <1>4, <1>5 DEF InTurnInv

LEMMA NextKeeps ==
    ASSUME RingInv, [RingNext]_ringVars
    PROVE  RingInv'
<1> USE DEF RingInv
<1>1. CASE UNCHANGED ringVars
  BY <1>1 DEF ringVars, RingTypeOK, Sound, InTurnInv, OneAtATime, Chain, Caller, Room, Gap,
              Busy, Running, Picked, Posting
<1>2. ASSUME NEW p \in Posters, PostStep(p) PROVE RingInv'
  <2>1. orderly' = orderly
    BY <1>2 DEF PostStep, LoadIdx, StoreIdx, PickSlot, Fill, Link
  <2>2. RingTypeOK' /\ Sound'
    BY <1>2, IndexIsSound, FillIsSound, LinkIsSound DEF PostStep
  <2>3. orderly => InTurnInv'
    BY <1>2, LoadIdxKeeps, StoreIdxKeeps, PickSlotKeeps, FillKeeps, LinkKeeps DEF PostStep
  <2> QED
    BY <2>1, <2>2, <2>3
<1>3. ASSUME NEW p \in Posters, NEW c \in Cmd, Call(p, c) PROVE RingInv'
  BY <1>3, CallIsSound, CallKeeps
<1>4. CASE Pop \/ Run
  <2>1. orderly' = orderly
    BY <1>4 DEF Pop, Run
  <2>2. RingTypeOK' /\ Sound'
    BY <1>4, RunLoopIsSound
  <2>3. orderly => InTurnInv'
    BY <1>4, PopKeeps, RunKeeps
  <2> QED
    BY <2>1, <2>2, <2>3
<1> QED
  BY <1>1, <1>2, <1>3, <1>4 DEF RingNext

-----------------------------------------------------------------------------
(* What is in flight is the registration being run and the list behind it. *)
LEMMA InFlightIs ==
    ASSUME RingTypeOK
    PROVE  /\ InFlight \in Seq(Slots)
           /\ popped = NoSlot => InFlight = callbacks
           /\ popped # NoSlot => /\ Len(InFlight) = 1 + Len(callbacks)
                                 /\ InFlight[1] = popped
                                 /\ \A k \in 1 .. Len(callbacks) : InFlight[k + 1] = callbacks[k]
<1>1. callbacks \in Seq(Slots) /\ Len(callbacks) \in Nat /\ popped \in Slots \cup {NoSlot}
  BY Types
<1>2. CASE popped = NoSlot
  BY <1>1, <1>2 DEF InFlight
<1>3. CASE popped # NoSlot
  <2>1. InFlight = <<popped>> \o callbacks /\ popped \in Slots
    BY <1>1, <1>3 DEF InFlight
  <2> QED
    BY <1>1, <1>3, <2>1
<1> QED
  BY <1>2, <1>3

(* The commands are read through registrations that nobody writes. *)
LEMMA FillHidden ==
    ASSUME RingTypeOK, Sound, InTurnInv, NEW p \in Posters, Fill(p)
    PROVE  UNCHANGED <<PendingCmds, executed>>
<1>1. /\ UNCHANGED <<callbacks, popped, executed>> /\ post[p].slot = cmd_callback_idx
      /\ cmd_callback_registration'
           = [cmd_callback_registration EXCEPT ![cmd_callback_idx] = post[p].cmd]
      /\ Picked(p)
  BY DEF InTurnInv, Fill, Caller, Picked
<1>2. InFlight' = InFlight
  BY <1>1 DEF InFlight
<1>3. InFlight \in Seq(Slots) /\ cmd_callback_registration \in [Slots -> Cmd \cup {NoCmd}]
  BY InFlightIs DEF InTurnInv, RingTypeOK
<1>4. \A k \in 1 .. Len(InFlight) : InFlight[k] # cmd_callback_idx
  <2>1. callbacks \in Seq(Slots) /\ Len(callbacks) \in Nat
    BY Types DEF InTurnInv
  <2>2. CASE popped = NoSlot
    BY <1>1, <2>2, IndexIsFree, InFlightIs DEF InTurnInv
  <2>3. CASE popped # NoSlot
    <3>1. ASSUME NEW k \in 1 .. Len(InFlight) PROVE InFlight[k] # cmd_callback_idx
      <4>1. CASE k = 1
        BY <1>1, <2>3, <4>1, IndexIsFree, InFlightIs DEF InTurnInv
      <4>2. CASE k # 1
        <5>1. k - 1 \in 1 .. Len(callbacks) /\ k = (k - 1) + 1
          BY <2>1, <2>3, <4>2, InFlightIs DEF InTurnInv
        <5>2. InFlight[(k - 1) + 1] = callbacks[k - 1]
          BY <2>3, <5>1, InFlightIs DEF InTurnInv
        <5> QED
          BY <1>1, <5>1, <5>2, IndexIsFree
      <4> QED
        BY <4>1, <4>2
    <3> QED
      BY <3>1
  <2> QED
    BY <2>2, <2>3
<1>5. \A k \in 1 .. Len(InFlight) :
        cmd_callback_registration'[InFlight[k]] = cmd_callback_registration[InFlight[k]]
  BY <1>1, <1>3, <1>4
<1> QED
  BY <1>1, <1>2, <1>5 DEF PendingCmds

(* The end of a call is Post of CmdQueue. *)
LEMMA LinkPosts ==
    ASSUME RingTypeOK, Sound, InTurnInv, NEW p \in Posters, Link(p)
    PROVE  Queue!Post(post[p].cmd) /\ post[p].cmd \in Cmd
<1>1. /\ post[p].slot = cmd_callback_idx /\ post[p].cmd \in Cmd /\ Picked(p)
      /\ cmd_callback_registration[cmd_callback_idx] = post[p].cmd
      /\ UNCHANGED <<cmd_callback_registration, popped, executed>>
  BY DEF InTurnInv, Sound, Link, Caller, Picked, Posting
<1>2. callbacks' = Append(callbacks, cmd_callback_idx)
  BY <1>1, IndexIsFree DEF Link, AddTail
<1>3. /\ callbacks \in Seq(Slots) /\ cmd_callback_idx \in Slots
      /\ cmd_callback_registration \in [Slots -> Cmd \cup {NoCmd}]
      /\ InFlight \in Seq(Slots)
  BY InFlightIs DEF InTurnInv, RingTypeOK
<1>4. InFlight' = Append(InFlight, cmd_callback_idx)
  <2> DEFINE h == IF popped = NoSlot THEN <<>> ELSE <<popped>>
  <2>1. h \in Seq(Slots)
    BY DEF InTurnInv, RingTypeOK
  <2>2. InFlight = h \o callbacks /\ InFlight' = h \o Append(callbacks, cmd_callback_idx)
    BY <1>1, <1>2 DEF InFlight
  <2> HIDE DEF h
  <2> QED
    BY <1>3, <2>1, <2>2
<1>5. PendingCmds' = Append(PendingCmds, post[p].cmd)
  <2> DEFINE s == InFlight
             reg == cmd_callback_registration
  <2>1. PendingCmds = [k \in 1 .. Len(s) |-> reg[s[k]]] /\ Len(s) \in Nat
    BY <1>3 DEF PendingCmds
  <2>2. PendingCmds' = [k \in 1 .. Len(s) + 1 |-> reg[Append(s, cmd_callback_idx)[k]]]
    BY <1>1, <1>3, <1>4 DEF PendingCmds
  <2>3. PendingCmds \in Seq(Cmd \cup {NoCmd}) /\ Len(PendingCmds) = Len(s)
    BY <1>3, <2>1
  <2>4. \A k \in 1 .. Len(s) + 1 : Append(s, cmd_callback_idx)[k]
                                  = IF k = Len(s) + 1 THEN cmd_callback_idx ELSE s[k]
    BY <1>3
  <2>5. \A k \in 1 .. Len(s) + 1 : PendingCmds'[k] = IF k = Len(s) + 1 THEN post[p].cmd
                                                    ELSE PendingCmds[k]
    BY <1>1, <2>1, <2>2, <2>4
  <2> HIDE DEF s, reg
  <2> QED
    BY <1>1, <2>1, <2>2, <2>3, <2>5
<1> QED
  BY <1>1, <1>5 DEF Queue!Post

(* The run of a callback is Execute. *)
LEMMA RunExecutes ==
    ASSUME RingTypeOK, Sound, InTurnInv, Run
    PROVE  Queue!Execute
<1>1. /\ popped # NoSlot /\ popped \in Slots /\ popped' = NoSlot
      /\ executed' = cmd_callback_registration[popped]
      /\ UNCHANGED <<cmd_callback_registration, callbacks>>
      /\ callbacks \in Seq(Slots) /\ Len(callbacks) \in Nat
      /\ cmd_callback_registration \in [Slots -> Cmd \cup {NoCmd}]
  BY DEF InTurnInv, RingTypeOK, Run
<1>2. /\ InFlight' = callbacks /\ Len(InFlight) = 1 + Len(callbacks) /\ InFlight[1] = popped
      /\ \A k \in 1 .. Len(callbacks) : InFlight[k + 1] = callbacks[k]
  <2>1. InFlight' = callbacks
    BY <1>1 DEF InFlight
  <2> QED
    BY <1>1, <2>1, InFlightIs DEF InTurnInv
<1>3. /\ PendingCmds = [k \in 1 .. 1 + Len(callbacks) |-> cmd_callback_registration[InFlight[k]]]
      /\ PendingCmds' = [k \in 1 .. Len(callbacks) |-> cmd_callback_registration[callbacks[k]]]
  BY <1>1, <1>2 DEF PendingCmds
<1>4. PendingCmds \in Seq(Cmd \cup {NoCmd}) /\ Len(PendingCmds) = 1 + Len(callbacks)
  <2>1. InFlight \in Seq(Slots)
    BY InFlightIs DEF InTurnInv
  <2> QED
    BY <1>1, <1>2, <1>3, <2>1
<1>5. PendingCmds # <<>> /\ executed' = Head(PendingCmds)
  BY <1>1, <1>2, <1>3, <1>4
<1>6. PendingCmds' = Tail(PendingCmds)
  <2>1. \A k \in 1 .. Len(callbacks) : PendingCmds'[k] = PendingCmds[k + 1]
    BY <1>1, <1>2, <1>3
  <2> QED
    BY <1>1, <1>3, <1>4, <2>1
<1> QED
  BY <1>5, <1>6 DEF Queue!Execute

(* Taking a registration off the list leaves what is in flight. *)
LEMMA PopHidden ==
    ASSUME RingTypeOK, Sound, InTurnInv, Pop
    PROVE  UNCHANGED <<PendingCmds, executed>>
<1>1. /\ popped = NoSlot /\ callbacks \in Seq(Slots) /\ callbacks # <<>>
      /\ popped' = Head(callbacks) /\ callbacks' = Tail(callbacks)
      /\ NoSlot \notin Slots /\ UNCHANGED <<cmd_callback_registration, executed>>
  BY Types DEF InTurnInv, Pop
<1>2. InFlight = callbacks /\ InFlight' = <<Head(callbacks)>> \o Tail(callbacks)
  BY <1>1 DEF InFlight
<1>3. <<Head(callbacks)>> \o Tail(callbacks) = callbacks
  BY <1>1
<1> QED
  BY <1>1, <1>2, <1>3 DEF PendingCmds

(* Every step of the ring is a step of the queue, or none. *)
LEMMA StepMaps ==
    ASSUME RingTypeOK, Sound, InTurnInv, [RingNext]_ringVars
    PROVE  QueueStep
<1> USE DEF QueueStep
<1>1. CASE UNCHANGED <<cmd_callback_registration, callbacks, popped, executed>>
  BY <1>1 DEF PendingCmds, InFlight
<1>2. ASSUME NEW p \in Posters, Fill(p) PROVE UNCHANGED <<PendingCmds, executed>>
  BY <1>2, FillHidden
<1>3. ASSUME NEW p \in Posters, Link(p) PROVE Queue!Next
  BY <1>3, LinkPosts DEF Queue!Next
<1>4. CASE Run
  BY <1>4, RunExecutes DEF Queue!Next
<1>5. CASE Pop
  BY <1>5, PopHidden
<1>6. ASSUME NEW p \in Posters,
             LoadIdx(p) \/ StoreIdx(p) \/ PickSlot(p) \/ \E c \in Cmd : Call(p, c)
      PROVE  UNCHANGED <<cmd_callback_registration, callbacks, popped, executed>>
  BY <1>6 DEF LoadIdx, StoreIdx, PickSlot, Call
<1> QED
  BY <1>1, <1>2, <1>3, <1>4, <1>5, <1>6 DEF RingNext, PostStep, ringVars

(* The types of the ring, whoever calls and however much is outstanding. *)
THEOREM RingTypeCorrect == RingSpec => []RingTypeOK
<1>1. RingInv => RingTypeOK
  BY DEF RingInv
<1> QED
  BY <1>1, InitHolds, NextKeeps, PTL DEF RingSpec

(* The list is sound whoever calls, and a registration is not taken while  *)
(* it is still in use as long as calls come in turn                        *)
(* (get_next_callback_registration(), uni_bt.c:79-80, 184-187).            *)
THEOREM OwnSlotAlways == RingSpec => []OwnSlot
<1>1. RingInv => OwnSlot
  <2> SUFFICES ASSUME RingInv PROVE OwnSlot
    OBVIOUS
  <2> USE DEF RingInv
  <2>1. /\ callbacks \in Seq(Slots) /\ Len(callbacks) \in Nat /\ cmd_callback_idx \in Slots
        /\ NoSlot \notin Slots /\ Gap \in {0, 1} /\ Busy \in {0, 1} /\ Gap <= Busy
    BY Types DEF Gap, Busy, Picked, Posting
  <2>2. IsInjective(callbacks)
    BY <2>1 DEF Sound, IsInjective
  <2>3. ASSUME NEW s \in (ToSet(callbacks) \cup {popped}) \ {NoSlot}
        PROVE  cmd_callback_registration[s] # NoCmd
    BY <2>1, <2>3 DEF Sound, ToSet
  <2>4. ASSUME orderly, NEW p \in Posters, SlotInUse(p)
        PROVE  /\ post[p].slot \notin ToSet(callbacks)
               /\ post[p].slot # popped
               /\ \A q \in Posters \ {p} : SlotInUse(q) => post[q].slot # post[p].slot
    <3>1. Picked(p) /\ post[p].slot = cmd_callback_idx
      BY <2>4 DEF SlotInUse, Picked, InTurnInv, Caller
    <3>2. \A q \in Posters \ {p} : ~SlotInUse(q)
      BY <2>4 DEF InTurnInv, OneAtATime, SlotInUse, Posting
    <3> QED
      BY <2>4, <3>1, <3>2, IndexIsFree
  <2>5. ASSUME orderly PROVE popped \notin ToSet(callbacks)
    <3> DEFINE len == Len(callbacks)
    <3>1. CASE popped = NoSlot
      BY <2>1, <3>1 DEF ToSet
    <3>2. CASE popped # NoSlot
      <4>1. /\ popped = Behind(cmd_callback_idx, len + Gap)
            /\ len + Gap \in 0 .. CMD_CALLBACK_MAX - 1
        BY <2>1, <2>5, <3>2, RingAssumption DEF InTurnInv, Chain, Room, Running
      <4>2. ASSUME NEW k \in 1 .. len PROVE callbacks[k] # popped
        <5>1. /\ callbacks[k] = Behind(cmd_callback_idx, len - k + Gap)
              /\ len - k + Gap \in 0 .. CMD_CALLBACK_MAX - 1 /\ len - k + Gap # len + Gap
          BY <2>1, <2>5, <4>1, RingAssumption DEF InTurnInv, Chain
        <5> QED
          BY <2>1, <4>1, <5>1, BehindIs
      <4> QED
        BY <2>1, <4>2 DEF ToSet
    <3> QED
      BY <3>1, <3>2
  <2> QED
    BY <2>2, <2>3, <2>4, <2>5 DEF OwnSlot
<1> QED
  BY <1>1, InitHolds, NextKeeps, PTL DEF RingSpec

(* While calls come in turn the ring implements the queue: no command      *)
(* handed over with uni_bt_*_safe() is lost, executed twice or out of      *)
(* order, and it does so again once an overflow or a clash of callers has  *)
(* been drained.                                                           *)
THEOREM ImplementsQueue == RingSpec => QueueSafe
<1>1. RingInit => Queue!Init
  BY DEF RingInit, Queue!Init, PendingCmds, InFlight
<1>2. RingInv /\ [RingNext]_ringVars => [orderly => QueueStep]_ringVars
  BY StepMaps DEF RingInv
<1> QED
  BY <1>1, <1>2, InitHolds, NextKeeps, PTL DEF RingSpec, QueueSafe
=============================================================================
