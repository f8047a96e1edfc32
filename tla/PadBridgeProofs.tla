--------------------------- MODULE PadBridgeProofs ---------------------------
(***************************************************************************)
(* Theorems about PadBridge, for any number of seats, pads and reports:    *)
(* the books of CPU0, the copying of a report against a handler that wipes *)
(* it without the mutex, and the pairing of the callbacks on CPU1.         *)
(***************************************************************************)
EXTENDS PadBridge, FiniteSetTheorems, WellFoundedInduction, TLAPS

SharedSeat == [idx : BOOLEAN, data : Half \X Half, data_updated : BOOLEAN]
PolledSeat == [connected : BOOLEAN, hasData : BOOLEAN, data : Half \X Half]

Copied(r, h) == [r EXCEPT !.data[2] = h, !.hasData = TRUE]

(* The seats that count: one that is being wiped no longer does.           *)
Kept == {s \in Seat : /\ controllers_[s].idx
                      /\ ~(task0.op \in {"wipe", "leave"} /\ s = task0.seat)}

(* What CPU0 knows in the middle of a handler (arduino_platform.c).        *)
Handler ==
  /\ task0.op = "idle" => task0 = Idle
  /\ task0.op # "idle" => /\ task0.pad \in Pad /\ Seated(task0.pad)
                          /\ task0.seat \in Seat
                          /\ controller_idx[task0.pad] = task0.seat

(* Who holds the mutex. *)
Mutex == /\ controller_mutex_ = "cpu0" <=> task0.op = "data"
         /\ controller_mutex_ = "cpu1" <=> pc = "copy"

(* Seats, pads and the count between the steps of a handler.               *)
Books ==
  /\ IsFiniteSet(up) /\ Cardinality(up) <= MAX_DEVICES
  /\ used_controllers_ = Cardinality(Kept)
  /\ \A p, q \in Pad : p # q /\ Seated(p) /\ Seated(q)
                       => controller_idx[p] # controller_idx[q]
  /\ \A p \in Pad : Seated(p) => /\ controllers_[controller_idx[p]].idx
                                 /\ controller_idx[p] \notin lost
  /\ \A p \in Pad \ connected : controller_idx[p] # None
  /\ \A s \in lost : controllers_[s].idx
  /\ \A s \in Seat : controllers_[s].idx
        => s \in lost \/ \E p \in Pad : Seated(p) /\ controller_idx[p] = s

(* The halves of a report in its seat, and of the one being copied.        *)
Halves ==
  /\ \A s \in Seat : ~(task0.op = "data" /\ task0.seat = s)
                       => controllers_[s].data[1] = controllers_[s].data[2]
  /\ pc = "copy" => controllers_[i].data[2] \in {_controllers[i].data[1], Zero}

(* A seat that is free or changes hands has no unread report.              *)
NoneUnread ==
  /\ \A s \in Seat : ~controllers_[s].idx => ~controllers_[s].data_updated
  /\ task0.op = "leave" => ~controllers_[task0.seat].data_updated
  /\ task0.op = "data" => controllers_[task0.seat].data[1][1] = task0.pad

(* Where the controller in use stands while the callbacks are being paired *)
Adopted == sController # None =>
  /\ _controllers[sController].connected
  /\ pc \in {"check", "read", "copy"} => sController \in _prevConnectedControllers
  /\ pc = "compare" => IF sController < i THEN sController \in connectedControllers
                                          ELSE sController \in _prevConnectedControllers
  /\ pc = "sample" => /\ sController \in connectedControllers
                      /\ _prevConnectedControllers = connectedControllers

IInv == /\ TypeOK /\ Handler /\ Mutex /\ Books
        /\ Halves /\ WholeReports
        /\ NoneUnread /\ FreshSeat
        /\ Adopted

-----------------------------------------------------------------------------
LEMMA Reports == /\ Zero \in Half /\ Blank \in Half \X Half
                 /\ Blank[1] = Zero /\ Blank[2] = Zero /\ Zero[1] = NoPad
                 /\ \A p \in Pad, t \in Tag : <<p, t>> \in Half
BY DEF Half, Zero, Blank, Report

(* The ways a shared seat is written. *)
LEMMA SharedUpdates ==
    ASSUME NEW r \in SharedSeat, NEW h \in Half
    PROVE  /\ LET q == [r EXCEPT !.idx = TRUE]
              IN  /\ q \in SharedSeat /\ q.idx
                  /\ q.data = r.data /\ q.data_updated = r.data_updated
           /\ LET q == [r EXCEPT !.idx = FALSE]
              IN  /\ q \in SharedSeat /\ ~q.idx
                  /\ q.data = r.data /\ q.data_updated = r.data_updated
           /\ LET q == [r EXCEPT !.data_updated = FALSE]
              IN  /\ q \in SharedSeat /\ ~q.data_updated
                  /\ q.data = r.data /\ q.idx = r.idx
           /\ LET q == [r EXCEPT !.data = Blank]
              IN  /\ q \in SharedSeat /\ q.data = Blank
                  /\ q.idx = r.idx /\ q.data_updated = r.data_updated
           /\ LET q == [r EXCEPT !.data[1] = h]
              IN  /\ q \in SharedSeat /\ q.data[1] = h /\ q.data[2] = r.data[2]
                  /\ q.idx = r.idx /\ q.data_updated = r.data_updated
           /\ LET q == [r EXCEPT !.data[2] = r.data[1], !.data_updated = TRUE]
              IN  /\ q \in SharedSeat /\ q.data[1] = r.data[1] /\ q.data[2] = r.data[1]
                  /\ q.idx = r.idx
<1> USE Reports DEF SharedSeat
<1>1. LET q == [r EXCEPT !.idx = TRUE]
      IN  /\ q \in SharedSeat /\ q.idx
          /\ q.data = r.data /\ q.data_updated = r.data_updated
  OBVIOUS
<1>2. LET q == [r EXCEPT !.idx = FALSE]
      IN  /\ q \in SharedSeat /\ ~q.idx
          /\ q.data = r.data /\ q.data_updated = r.data_updated
  OBVIOUS
<1>3. LET q == [r EXCEPT !.data_updated = FALSE]
      IN  /\ q \in SharedSeat /\ ~q.data_updated
          /\ q.data = r.data /\ q.idx = r.idx
  OBVIOUS
<1>4. LET q == [r EXCEPT !.data = Blank]
      IN  /\ q \in SharedSeat /\ q.data = Blank
          /\ q.idx = r.idx /\ q.data_updated = r.data_updated
  OBVIOUS
<1>5. LET q == [r EXCEPT !.data[1] = h]
      IN  /\ q \in SharedSeat /\ q.data[1] = h /\ q.data[2] = r.data[2]
          /\ q.idx = r.idx /\ q.data_updated = r.data_updated
  OBVIOUS
<1>6. LET q == [r EXCEPT !.data[2] = r.data[1], !.data_updated = TRUE]
      IN  /\ q \in SharedSeat /\ q.data[1] = r.data[1] /\ q.data[2] = r.data[1]
          /\ q.idx = r.idx
  <2> DEFINE d == [r.data EXCEPT ![2] = r.data[1]]
             m == [r EXCEPT !.data = d]
  <2>1. r.data \in Half \X Half
    OBVIOUS
  <2>2. d \in Half \X Half /\ d[1] = r.data[1] /\ d[2] = r.data[1]
    BY <2>1
  <2>3. m \in SharedSeat /\ m.data = d /\ m.idx = r.idx
    <3> HIDE DEF d
    <3> QED BY <2>2
  <2>4. LET q == [m EXCEPT !.data_updated = TRUE]
        IN  q \in SharedSeat /\ q.data = d /\ q.idx = r.idx
    <3> HIDE DEF m
    <3> QED BY <2>3
  <2> QED
    BY <2>2, <2>4, Zenon
<1> QED
  BY <1>1, <1>2, <1>3, <1>4, <1>5, <1>6, Zenon

(* Controller objects take the second half of a report. *)
LEMMA CopiedUpdate ==
    ASSUME NEW r \in PolledSeat, NEW h \in Half
    PROVE  /\ Copied(r, h) \in PolledSeat
           /\ Copied(r, h).data[1] = r.data[1] /\ Copied(r, h).data[2] = h
           /\ Copied(r, h).connected = r.connected
<1> USE DEF PolledSeat
<1> DEFINE d == [r.data EXCEPT ![2] = h]
           m == [r EXCEPT !.data = d]
<1>1. r.data \in Half \X Half
  OBVIOUS
<1>2. d \in Half \X Half /\ d[1] = r.data[1] /\ d[2] = h
  BY <1>1
<1>3. m \in PolledSeat /\ m.data = d /\ m.connected = r.connected
  <2> HIDE DEF d
  <2> QED BY <1>2
<1>4. LET q == [m EXCEPT !.hasData = TRUE]
      IN  q \in PolledSeat /\ q.data = d /\ q.connected = r.connected
  <2> HIDE DEF m
  <2> QED BY <1>3
<1> QED
  BY <1>2, <1>4, Zenon DEF Copied

(* The ways the Controller object of a seat is written. *)
LEMMA PolledUpdates ==
    ASSUME NEW r \in PolledSeat, NEW h \in Half
    PROVE  /\ LET q == [r EXCEPT !.data[1] = h]
              IN  q \in PolledSeat /\ q.data[1] = h /\ q.connected = r.connected
           /\ LET q == [r EXCEPT !.hasData = FALSE]
              IN  q \in PolledSeat /\ q.data = r.data /\ q.connected = r.connected
           /\ \A b \in BOOLEAN : LET q == [r EXCEPT !.connected = b]
                                 IN  q \in PolledSeat /\ q.data = r.data /\ q.connected = b
<1> USE DEF PolledSeat
<1>1. LET q == [r EXCEPT !.data[1] = h]
      IN  q \in PolledSeat /\ q.data[1] = h /\ q.connected = r.connected
  OBVIOUS
<1>2. LET q == [r EXCEPT !.hasData = FALSE]
      IN  q \in PolledSeat /\ q.data = r.data /\ q.connected = r.connected
  OBVIOUS
<1>3. \A b \in BOOLEAN : LET q == [r EXCEPT !.connected = b]
                         IN  q \in PolledSeat /\ q.data = r.data /\ q.connected = b
  OBVIOUS
<1> QED
  BY <1>1, <1>2, <1>3, Zenon

(* The type, seat by seat. *)
LEMMA Types ==
    ASSUME TypeOK
    PROVE  /\ controllers_ \in [Seat -> SharedSeat]
           /\ _controllers \in [Seat -> PolledSeat]
           /\ controller_idx \in [Pad -> Seat \cup {None}]
           /\ None \notin Seat
BY BridgeAssumption DEF TypeOK, SharedSeat, PolledSeat, Seat

LEMMA InitIInv == Init => IInv
<1> SUFFICES ASSUME Init PROVE IInv
  OBVIOUS
<1> USE DEF Init
<1>1. \A s \in Seat : controllers_[s] = Empty
  OBVIOUS
<1>2. \A s \in Seat : _controllers[s].data = Blank /\ ~_controllers[s].connected
  OBVIOUS
<1>3. 0 \in Seat /\ MAX_DEVICES \in Nat /\ 0 \in 0 .. MaxArrivals
  BY BridgeAssumption DEF Seat
<1>4. TypeOK
  <2>1. Empty \in SharedSeat
    BY Reports DEF Empty, SharedSeat
  <2>2. [connected |-> FALSE, hasData |-> FALSE, data |-> Blank] \in PolledSeat
    BY Reports DEF PolledSeat
  <2>3. /\ controllers_ \in [Seat -> SharedSeat]
        /\ _controllers \in [Seat -> PolledSeat]
    BY <2>1, <2>2
  <2> QED
    BY <1>3, <2>3, Reports DEF TypeOK, Idle, NoState, SharedSeat, PolledSeat
<1>5. Handler /\ Mutex /\ Adopted
  BY DEF Handler, Mutex, Adopted, Idle
<1>6. Books
  <2>1. Kept = {} /\ \A p \in Pad : ~Seated(p)
    BY <1>1 DEF Kept, Seated, Empty
  <2>2. \A p \in Pad : controller_idx[p] # None
    BY <1>3, BridgeAssumption
  <2> QED
    BY <1>1, <1>3, <2>1, <2>2, FS_EmptySet DEF Books, Empty
<1>7. Halves /\ WholeReports
  BY <1>1, <1>2, Reports DEF Halves, WholeReports, Empty
<1>8. NoneUnread /\ FreshSeat
  BY <1>1 DEF NoneUnread, FreshSeat, Seated, Empty, Idle
<1> QED
  BY <1>4, <1>5, <1>6, <1>7, <1>8 DEF IInv

-----------------------------------------------------------------------------
(* A step of CPU1 leaves CPU0's books alone and can only mark a report as  *)
(* read (arduino_platform.c:313-316).                                      *)
OnlyRead == /\ UNCHANGED cpu0
            /\ controllers_' \in [Seat -> SharedSeat]
            /\ \A s \in Seat : /\ controllers_'[s].idx = controllers_[s].idx
                               /\ controllers_'[s].data = controllers_[s].data
                               /\ controllers_'[s].data_updated
                                    => controllers_[s].data_updated

(* The books are right after a step that changes neither them nor which    *)
(* seats are taken and kept.                                               *)
LEMMA BooksStay ==
    ASSUME IInv, UNCHANGED books, Kept' = Kept,
           \A s \in Seat : controllers_'[s].idx = controllers_[s].idx
    PROVE  Books'
<1> USE DEF IInv, books
<1>1. \A p \in Pad : (Seated(p)' <=> Seated(p)) /\ (Seated(p) => controller_idx[p] \in Seat)
  BY Types DEF Seated
<1>2. lost \subseteq Seat
  BY DEF TypeOK
<1> QED
  BY <1>1, <1>2 DEF Books

LEMMA ReadingKeeps ==
    ASSUME IInv, OnlyRead
    PROVE  Handler' /\ Books' /\ NoneUnread' /\ FreshSeat'
<1> USE DEF OnlyRead, cpu0, books, IInv
<1>1. Handler'
  BY DEF Handler, Seated
<1>2. Kept' = Kept
  BY DEF Kept
<1>3. \A p \in Pad : Seated(p) => controller_idx[p] \in Seat
  BY Types DEF Seated
<1>4. Books'
  BY <1>2, BooksStay
<1>5. NoneUnread'
  BY DEF NoneUnread, Handler
<1>6. FreshSeat'
  BY <1>3 DEF FreshSeat, Seated
<1> QED
  BY <1>1, <1>4, <1>5, <1>6

LEMMA NextSeatGoes ==
    ASSUME TypeOK, NextSeat
    PROVE  /\ i' \in Seat
           /\ pc' \in {"check", "compare"}
           /\ pc' = "compare" => i' = 0
BY BridgeAssumption DEF TypeOK, NextSeat, Seat

(* Polling a seat: what the other conjuncts need to know of the step.      *)
LEMMA PollKeeps ==
    ASSUME IInv, Check \/ Read \/ Copy
    PROVE  Adopted'
<1> USE DEF IInv
<1>1. UNCHANGED <<_prevConnectedControllers, sController>>
  BY DEF Check, Read, Copy
<1>2. /\ pc \in {"check", "read", "copy"}
      /\ pc' \in {"check", "read", "copy", "compare"}
      /\ pc' = "compare" => i' = 0
  BY NextSeatGoes DEF Check, Read, Copy
<1>3. \A s \in Seat : _controllers'[s].connected = _controllers[s].connected
  <2> SUFFICES ASSUME NEW s \in Seat
               PROVE  _controllers'[s].connected = _controllers[s].connected
    OBVIOUS
  <2>1. _controllers[s] \in PolledSeat /\ _controllers \in [Seat -> PolledSeat]
    BY Types
  <2>2. \/ _controllers' = _controllers
        \/ \E h \in Half : _controllers' = [_controllers EXCEPT ![i].data[1] = h]
        \/ \E h \in Half : _controllers' = [_controllers EXCEPT ![i] = Copied(@, h)]
        \/ _controllers' = [_controllers EXCEPT ![i].hasData = FALSE]
    <3>1. controllers_[i].data[1] \in Half /\ controllers_[i].data[2] \in Half
      BY Types DEF SharedSeat, TypeOK
    <3>2. ASSUME Copy PROVE \E h \in Half : _controllers' = [_controllers EXCEPT
                                                                ![i] = Copied(@, h)]
      <4> DEFINE h == controllers_[i].data[2]
      <4>1. i \in Seat
        BY DEF TypeOK
      <4>2. _controllers' = [_controllers EXCEPT ![i].data[2] = h, ![i].hasData = TRUE]
        BY <3>2 DEF Copy
      <4>3. h \in Half
        BY <3>1
      <4> HIDE DEF h
      <4>4. _controllers' = [_controllers EXCEPT ![i] = Copied(@, h)]
        BY <2>1, <4>1, <4>2 DEF Copied
      <4> QED
        BY <4>3, <4>4
    <3> QED
      BY <3>1, <3>2 DEF Check, Read
  <2>3. \/ _controllers'[s] = _controllers[s]
        \/ \E h \in Half : _controllers'[s] = [_controllers[s] EXCEPT !.data[1] = h]
        \/ \E h \in Half : _controllers'[s] = Copied(_controllers[s], h)
        \/ _controllers'[s] = [_controllers[s] EXCEPT !.hasData = FALSE]
    BY <2>1, <2>2, Zenon
  <2>4. ASSUME NEW h \in Half, _controllers'[s] = [_controllers[s] EXCEPT !.data[1] = h]
        PROVE  _controllers'[s].connected = _controllers[s].connected
    BY <2>1, <2>4 DEF PolledSeat
  <2>5. ASSUME NEW h \in Half, _controllers'[s] = Copied(_controllers[s], h)
        PROVE  _controllers'[s].connected = _controllers[s].connected
    <3>1. Copied(_controllers[s], h).connected = _controllers[s].connected
      BY <2>1, CopiedUpdate, Zenon
    <3> QED
      BY <2>5, <3>1
  <2>6. ASSUME _controllers'[s] = [_controllers[s] EXCEPT !.hasData = FALSE]
        PROVE  _controllers'[s].connected = _controllers[s].connected
    BY <2>1, <2>6 DEF PolledSeat
  <2> QED
    BY <2>3, <2>4, <2>5, <2>6, Zenon
<1>4. sController # None => sController \in Seat /\ 0 <= sController
  BY DEF TypeOK, Seat
<1> QED
  BY <1>1, <1>2, <1>3, <1>4, BridgeAssumption DEF Adopted, Seat

LEMMA CheckKeeps == ASSUME IInv, Check PROVE IInv'
<1> USE DEF IInv
<1>1. /\ i' \in Seat
      /\ pc = "check" /\ pc' \in {"check", "read", "compare"}
  BY NextSeatGoes DEF Check, TypeOK
<1>2. UNCHANGED <<controllers_, controller_mutex_, cpu0, connectedControllers,
                  _prevConnectedControllers, _controllers, sController, sState>>
  BY DEF Check
<1>3. TypeOK'
  BY <1>1, <1>2 DEF TypeOK, cpu0, books
<1>4. OnlyRead
  BY <1>2, Types DEF OnlyRead
<1>5. Mutex' /\ Halves' /\ WholeReports'
  BY <1>1, <1>2 DEF Mutex, Halves, WholeReports, cpu0
<1> QED
  BY <1>3, <1>4, <1>5, ReadingKeeps, PollKeeps

LEMMA ReadKeeps == ASSUME IInv, Read PROVE IInv'
<1> USE DEF IInv
<1> DEFINE news == controllers_[i].data_updated
           h == controllers_[i].data[1]
<1>1. /\ pc = "read" /\ controller_mutex_ = "free" /\ i \in Seat
      /\ UNCHANGED <<controllers_, cpu0, _prevConnectedControllers, sController, sState>>
      /\ connectedControllers' = connectedControllers \cup {i}
  BY DEF Read, TypeOK
<1>2. h \in Half /\ h = controllers_[i].data[2]
  BY <1>1, Types DEF SharedSeat, Halves, Mutex
<1>3. OnlyRead
  BY <1>1, Types DEF OnlyRead
<1>4. ASSUME news PROVE TypeOK' /\ Mutex' /\ Halves' /\ WholeReports'
  <2>1. /\ controller_mutex_' = "cpu1"
        /\ _controllers' = [_controllers EXCEPT ![i].data[1] = h]
        /\ pc' = "copy" /\ i' = i
    BY <1>4 DEF Read
  <2>2. /\ _controllers' \in [Seat -> PolledSeat]
        /\ _controllers'[i].data[1] = h
        /\ \A s \in Seat \ {i} : _controllers'[s] = _controllers[s]
    <3>1. _controllers \in [Seat -> PolledSeat] /\ _controllers[i] \in PolledSeat
      BY <1>1, Types
    <3>2. _controllers' = [_controllers EXCEPT ![i] = [_controllers[i] EXCEPT !.data[1] = h]]
      BY <2>1, Zenon
    <3>3. LET q == [_controllers[i] EXCEPT !.data[1] = h]
          IN  q \in PolledSeat /\ q.data[1] = h
      BY <1>2, <3>1, PolledUpdates, Zenon
    <3> HIDE DEF h
    <3> QED
      BY <1>1, <3>1, <3>2, <3>3, Zenon
  <2>3. TypeOK'
    BY <1>1, <2>1, <2>2 DEF TypeOK, cpu0, books, PolledSeat
  <2>4. Mutex' /\ Halves' /\ WholeReports'
    BY <1>1, <1>2, <2>1, <2>2 DEF Mutex, Halves, WholeReports, cpu0
  <2> QED
    BY <2>3, <2>4
<1>5. ASSUME ~news PROVE TypeOK' /\ Mutex' /\ Halves' /\ WholeReports'
  <2>1. /\ UNCHANGED controller_mutex_
        /\ _controllers' = [_controllers EXCEPT ![i].hasData = FALSE]
        /\ NextSeat
    BY <1>5 DEF Read
  <2>2. /\ _controllers' \in [Seat -> PolledSeat]
        /\ \A s \in Seat : _controllers'[s].data = _controllers[s].data
    <3>1. _controllers \in [Seat -> PolledSeat] /\ _controllers[i] \in PolledSeat
      BY <1>1, Types
    <3>2. LET q == [_controllers[i] EXCEPT !.hasData = FALSE]
          IN  q \in PolledSeat /\ q.data = _controllers[i].data
      BY <1>2, <3>1, PolledUpdates, Zenon
    <3> QED
      BY <1>1, <2>1, <3>1, <3>2, Zenon
  <2>3. i' \in Seat /\ pc' \in {"check", "compare"}
    BY <2>1, NextSeatGoes
  <2>4. TypeOK'
    BY <1>1, <2>1, <2>2, <2>3 DEF TypeOK, cpu0, books, PolledSeat
  <2>5. Mutex' /\ Halves' /\ WholeReports'
    BY <1>1, <2>1, <2>2, <2>3 DEF Mutex, Halves, WholeReports, cpu0
  <2> QED
    BY <2>4, <2>5
<1> QED
  BY <1>3, <1>4, <1>5, ReadingKeeps, PollKeeps

LEMMA CopyKeeps == ASSUME IInv, Copy PROVE IInv'
<1> USE DEF IInv
<1> DEFINE h == controllers_[i].data[2]
<1>1. /\ pc = "copy" /\ controller_mutex_' = "free" /\ i \in Seat
      /\ UNCHANGED <<cpu0, connectedControllers, _prevConnectedControllers, sController, sState>>
      /\ controllers_' = [controllers_ EXCEPT ![i].data_updated = FALSE]
      /\ _controllers' = [_controllers EXCEPT ![i].data[2] = h, ![i].hasData = TRUE]
  BY DEF Copy, TypeOK
<1>2. i' \in Seat /\ pc' \in {"check", "compare"}
  BY NextSeatGoes DEF Copy
<1>3. h \in Half /\ h \in {_controllers[i].data[1], Zero}
  BY <1>1, Types DEF SharedSeat, Halves
<1>4. OnlyRead
  <2>1. controllers_ \in [Seat -> SharedSeat] /\ controllers_[i] \in SharedSeat
    BY <1>1, Types
  <2>2. LET q == [controllers_[i] EXCEPT !.data_updated = FALSE]
        IN  /\ q \in SharedSeat /\ ~q.data_updated
            /\ q.data = controllers_[i].data /\ q.idx = controllers_[i].idx
    BY <1>3, <2>1, SharedUpdates, Zenon
  <2>3. controllers_' \in [Seat -> SharedSeat]
    BY <1>1, <2>1, <2>2, Zenon
  <2>4. \A s \in Seat : /\ controllers_'[s].idx = controllers_[s].idx
                        /\ controllers_'[s].data = controllers_[s].data
                        /\ controllers_'[s].data_updated => controllers_[s].data_updated
    BY <1>1, <2>1, <2>2, Zenon
  <2> QED
    BY <1>1, <2>3, <2>4 DEF OnlyRead
<1>5. /\ _controllers' \in [Seat -> PolledSeat]
      /\ _controllers'[i].data[1] = _controllers[i].data[1]
      /\ _controllers'[i].data[2] = h
      /\ \A s \in Seat \ {i} : _controllers'[s] = _controllers[s]
  <2>1. _controllers \in [Seat -> PolledSeat] /\ _controllers[i] \in PolledSeat
    BY <1>1, Types
  <2>2. _controllers' = [_controllers EXCEPT ![i] = Copied(@, h)]
    <3> HIDE DEF h
    <3> QED BY <1>1, <2>1 DEF Copied
  <2>3. LET q == Copied(_controllers[i], h)
        IN  q \in PolledSeat /\ q.data[1] = _controllers[i].data[1] /\ q.data[2] = h
    <3> HIDE DEF h
    <3> QED BY <1>3, <2>1, CopiedUpdate, Zenon
  <2> HIDE DEF h
  <2> QED
    BY <1>1, <2>1, <2>2, <2>3, Zenon
<1> HIDE DEF h
<1>6. TypeOK'
  <2>1. /\ UNCHANGED cpu0 /\ controller_mutex_' = "free"
        /\ UNCHANGED <<connectedControllers, _prevConnectedControllers, sController, sState>>
    BY <1>1
  <2>2. controllers_' \in [Seat -> SharedSeat]
    BY <1>4 DEF OnlyRead
  <2> QED
    BY <1>2, <1>5, <2>1, <2>2 DEF TypeOK, cpu0, books, PolledSeat, SharedSeat
<1>7. Mutex'
  BY <1>1, <1>2 DEF Mutex, cpu0
<1>8. Halves'
  <2>1. \A s \in Seat : controllers_'[s].data = controllers_[s].data
    BY <1>4 DEF OnlyRead
  <2>2. UNCHANGED task0 /\ pc' # "copy"
    BY <1>1, <1>2 DEF cpu0
  <2> QED
    BY <2>1, <2>2 DEF Halves
<1>9. WholeReports'
  BY <1>1, <1>2, <1>3, <1>5 DEF WholeReports
<1> QED
  BY <1>4, <1>6, <1>7, <1>8, <1>9, ReadingKeeps, PollKeeps

(* Pairing the callbacks of seat i: those before it are done.              *)
LEMMA CompareKeeps == ASSUME IInv, Compare PROVE IInv'
<1> USE DEF IInv
<1>1. /\ pc = "compare" /\ i \in Seat
      /\ UNCHANGED <<controllers_, controller_mutex_, connectedControllers, cpu0>>
      /\ IF i + 1 = MAX_DEVICES
         THEN pc' = "sample" /\ i' = 0 /\ _prevConnectedControllers' = connectedControllers
         ELSE /\ pc' = pc /\ _prevConnectedControllers' = _prevConnectedControllers
              /\ i' = i + 1
  BY DEF Compare, TypeOK
<1>2. i' \in Seat
  BY <1>1, BridgeAssumption DEF Seat
<1>3. \/ /\ UNCHANGED <<_controllers, sController, sState>>
         /\ i \in connectedControllers <=> i \in _prevConnectedControllers
      \/ /\ _controllers' = [_controllers EXCEPT ![i].connected = TRUE]
         /\ sController' = IF sController = None THEN i ELSE sController
         /\ UNCHANGED sState
         /\ i \in connectedControllers /\ i \notin _prevConnectedControllers
      \/ /\ _controllers' = [_controllers EXCEPT ![i].connected = FALSE]
         /\ IF sController = i THEN sController' = None /\ sState' = NoState
                               ELSE sController' = sController /\ sState' = sState
         /\ i \notin connectedControllers
  BY DEF Compare, OnConnect, OnDisconnect
<1>4. /\ _controllers' \in [Seat -> PolledSeat]
      /\ \A s \in Seat : _controllers'[s].data = _controllers[s].data
      /\ \A s \in Seat \ {i} : _controllers'[s] = _controllers[s]
  <2>1. _controllers \in [Seat -> PolledSeat] /\ _controllers[i] \in PolledSeat
    BY <1>1, Types
  <2>2. \A b \in BOOLEAN : LET q == [_controllers[i] EXCEPT !.connected = b]
                           IN  q \in PolledSeat /\ q.data = _controllers[i].data
    BY <2>1, PolledUpdates, Reports, Zenon
  <2>3. CASE _controllers' = _controllers
    BY <2>1, <2>3
  <2>4. ASSUME NEW b \in BOOLEAN, _controllers' = [_controllers EXCEPT ![i].connected = b]
        PROVE  <1>4!1 /\ <1>4!2 /\ <1>4!3
    BY <1>1, <2>1, <2>2, <2>4, Zenon
  <2> QED
    BY <1>3, <2>3, <2>4
<1>5. TypeOK'
  <2>1. sController' \in Seat \cup {None}
    BY <1>1, <1>3 DEF TypeOK
  <2>2. NoState \in [connected : BOOLEAN, sender : Pad \cup {NoPad}]
    BY DEF NoState
  <2>3. sState' \in [connected : BOOLEAN, sender : Pad \cup {NoPad}]
    BY <1>3, <2>2 DEF TypeOK
  <2>4. _prevConnectedControllers' \subseteq Seat /\ pc' \in {"compare", "sample"}
    BY <1>1 DEF TypeOK
  <2> QED
    BY <1>1, <1>2, <1>4, <2>1, <2>3, <2>4 DEF TypeOK, cpu0, books, PolledSeat
<1>6. OnlyRead
  BY <1>1, Types DEF OnlyRead
<1>7. Mutex' /\ Halves' /\ WholeReports'
  BY <1>1, <1>4 DEF Mutex, Halves, WholeReports, cpu0
<1>8. sController' # None => /\ _controllers'[sController'].connected
                             /\ sController' <= i => sController' \in connectedControllers
                             /\ sController' > i => sController' \in _prevConnectedControllers
  <2> SUFFICES ASSUME sController' # None
               PROVE  /\ _controllers'[sController'].connected
                      /\ sController' <= i => sController' \in connectedControllers
                      /\ sController' > i => sController' \in _prevConnectedControllers
    OBVIOUS
  <2>1. sController # None =>
          /\ sController \in Seat
          /\ _controllers[sController].connected
          /\ sController < i => sController \in connectedControllers
          /\ ~(sController < i) => sController \in _prevConnectedControllers
    BY <1>1 DEF Adopted, TypeOK
  <2>2. \A s \in Seat : s <= i <=> s < i \/ s = i
    BY <1>1 DEF Seat
  <2>3. \A s \in Seat : s > i <=> ~(s < i) /\ s # i
    BY <1>1 DEF Seat
  <2>4. CASE sController' = i /\ i \in connectedControllers /\ i \notin _prevConnectedControllers
    <3>1. _controllers' = [_controllers EXCEPT ![i].connected = TRUE]
      BY <1>3, <2>4
    <3>2. _controllers'[i].connected
      <4>1. _controllers \in [Seat -> PolledSeat] /\ _controllers[i] \in PolledSeat
        BY <1>1, Types
      <4> QED
        BY <1>1, <3>1, <4>1 DEF PolledSeat
    <3> QED
      BY <1>1, <2>3, <2>4, <3>2
  <2>5. CASE ~(sController' = i /\ i \in connectedControllers /\ i \notin _prevConnectedControllers)
    <3>1. sController' = sController /\ sController \in Seat
      BY <1>3, <2>1, <2>5
    <3>2. CASE sController = i
      <4>1. i \in connectedControllers /\ i \in _prevConnectedControllers
        BY <1>1, <1>3, <2>1, <2>2, <2>5, <3>1, <3>2, BridgeAssumption DEF Seat
      <4>2. _controllers' = _controllers
        BY <1>3, <4>1
      <4> QED
        BY <2>1, <3>1, <3>2, <4>1, <4>2
    <3>3. CASE sController # i
      BY <1>4, <2>1, <2>2, <2>3, <3>1, <3>3
    <3> QED
      BY <3>2, <3>3
  <2> QED
    BY <2>4, <2>5
<1>9. Adopted'
  <2>1. sController' # None => sController' \in Seat
    BY <1>5 DEF TypeOK
  <2>2. CASE i + 1 = MAX_DEVICES
    <3>1. sController' # None => sController' <= i
      BY <1>1, <2>1, <2>2, BridgeAssumption DEF Seat
    <3> QED
      BY <1>1, <1>8, <2>2, <3>1 DEF Adopted
  <2>3. CASE i + 1 # MAX_DEVICES
    <3>1. sController' # None => /\ sController' < i' => sController' <= i
                                 /\ ~(sController' < i') => sController' > i
      BY <1>1, <2>1, <2>3 DEF Seat
    <3> QED
      BY <1>1, <1>8, <2>3, <3>1 DEF Adopted
  <2> QED
    BY <2>2, <2>3
<1> QED
  BY <1>5, <1>6, <1>7, <1>9, ReadingKeeps

LEMMA SampleKeeps == ASSUME IInv, Sample PROVE IInv'
<1> USE DEF IInv
<1>1. /\ pc = "sample" /\ pc' = "check" /\ i' = 0 /\ 0 \in Seat
      /\ connectedControllers' = {}
      /\ UNCHANGED <<controllers_, controller_mutex_, _prevConnectedControllers,
                     _controllers, sController, cpu0>>
  BY BridgeAssumption DEF Sample, Seat
<1>2. sState' \in [connected : BOOLEAN, sender : Pad \cup {NoPad}]
  <2>1. sState \in [connected : BOOLEAN, sender : Pad \cup {NoPad}]
    BY DEF TypeOK
  <2>2. \/ sState' = sState
        \/ sState' = [sState EXCEPT !.connected = FALSE]
        \/ \E p \in Gamepad : sState' = [connected |-> TRUE, sender |-> p]
    BY DEF Sample, IsGamepad
  <2>3. [sState EXCEPT !.connected = FALSE] \in [connected : BOOLEAN, sender : Pad \cup {NoPad}]
    BY <2>1
  <2>4. \A p \in Gamepad : [connected |-> TRUE, sender |-> p]
                              \in [connected : BOOLEAN, sender : Pad \cup {NoPad}]
    BY BridgeAssumption
  <2> QED
    BY <2>1, <2>2, <2>3, <2>4, Zenon
<1>3. TypeOK'
  BY <1>1, <1>2 DEF TypeOK, cpu0, books
<1>4. OnlyRead
  BY <1>1, Types DEF OnlyRead
<1>5. Mutex' /\ Halves' /\ WholeReports' /\ Adopted'
  BY <1>1 DEF Mutex, Halves, WholeReports, Adopted, cpu0
<1> QED
  BY <1>3, <1>4, <1>5, ReadingKeeps

-----------------------------------------------------------------------------
(* The first free seat is one of the free seats. *)
LEMMA MinIn ==
    ASSUME NEW S \in SUBSET Nat, S # {}
    PROVE  Min(S) \in S
<1> DEFINE R == OpToRel(<, Nat)
<1>1. IsWellFoundedOn(R, Nat)
  BY NatLessThanWellFounded
<1>2. \A x, y \in Nat : x < y => <<x, y>> \in R
  BY DEF OpToRel
<1> HIDE DEF R
<1>3. PICK x \in S : \A y \in S : <<y, x>> \notin R
  BY <1>1, WFMin, Zenon
<1>4. \A y \in S : ~(y < x)
  BY <1>2, <1>3, Zenon
<1>5. \A y \in S : x <= y
  BY <1>4
<1> QED
  BY <1>5 DEF Min

(* A step of CPU0 leaves what CPU1 has copied and paired alone.            *)
LEMMA OtherSide ==
    ASSUME IInv, UNCHANGED cpu1
    PROVE  WholeReports' /\ Adopted'
BY DEF IInv, cpu1, WholeReports, Adopted

(* A pad with a seat has a record, and the seat is no other pad's.         *)
LEMMA SeatedHas ==
    ASSUME IInv, NEW p \in Pad, Seated(p)
    PROVE  /\ p \in up
           /\ controller_idx[p] \in Seat
           /\ \A q \in Pad : q # p /\ Seated(q) => controller_idx[q] # controller_idx[p]
BY Types DEF IInv, Books, TypeOK, Seated

LEMMA SeatsFinite ==
    /\ IsFiniteSet(Seat) /\ Cardinality(Seat) = MAX_DEVICES
    /\ \A T \in SUBSET Seat : IsFiniteSet(T) /\ Cardinality(T) \in 0 .. MAX_DEVICES
<1>1. IsFiniteSet(Seat) /\ Cardinality(Seat) = MAX_DEVICES
  BY FS_Interval, BridgeAssumption DEF Seat
<1>2. ASSUME NEW T \in SUBSET Seat
      PROVE  IsFiniteSet(T) /\ Cardinality(T) \in 0 .. MAX_DEVICES
  BY <1>1, FS_Subset, FS_CardinalityType, BridgeAssumption
<1> QED
  BY <1>1, <1>2

LEMMA CreateKeeps == ASSUME IInv, NEW p \in Pad, Create(p) PROVE IInv'
<1> USE DEF IInv
<1>1. /\ task0 = Idle /\ p \notin up /\ Cardinality(up) < MAX_DEVICES
      /\ up' = up \cup {p}
      /\ controller_idx' = [controller_idx EXCEPT ![p] = 0]
      /\ UNCHANGED <<controllers_, used_controllers_, controller_mutex_, arrivals,
                     connected, lost, task0, cpu1>>
  BY DEF Create
<1>2. 0 \in Seat
  BY BridgeAssumption DEF Seat
<1>3. TypeOK'
  BY <1>1, <1>2 DEF TypeOK, cpu1
<1>4. IsFiniteSet(up') /\ Cardinality(up') <= MAX_DEVICES
  <2>1. Cardinality(up) \in Nat /\ Cardinality(up') = Cardinality(up) + 1 /\ IsFiniteSet(up')
    BY <1>1, FS_AddElement, FS_CardinalityType DEF Books
  <2> QED
    BY <1>1, <2>1, BridgeAssumption
<1>5. \A q \in Pad : /\ Seated(q)' <=> Seated(q)
                     /\ Seated(q) => controller_idx'[q] = controller_idx[q]
  BY <1>1, Types DEF Seated, TypeOK
<1>6. Books'
  <2>1. Kept' = Kept
    BY <1>1 DEF Kept
  <2>2. \A q \in Pad \ connected' : controller_idx'[q] # None
    BY <1>1, <1>2, Types DEF Books
  <2> QED
    BY <1>1, <1>4, <1>5, <2>1, <2>2 DEF Books
<1>7. Handler' /\ Mutex' /\ Halves' /\ NoneUnread'
  BY <1>1 DEF Handler, Mutex, Halves, NoneUnread, Idle, cpu1
<1>8. FreshSeat'
  BY <1>1, <1>5 DEF FreshSeat
<1> QED
  BY <1>1, <1>3, <1>6, <1>7, <1>8, OtherSide

LEMMA ConnectedKeeps == ASSUME IInv, NEW p \in Pad, Connected(p) PROVE IInv'
<1> USE DEF IInv
<1>1. /\ task0 = Idle /\ p \in up
      /\ arrivals < MaxArrivals /\ arrivals' = arrivals + 1
      /\ connected' = connected \cup {p}
      /\ controller_idx' = [controller_idx EXCEPT ![p] = None]
      /\ lost' = IF Seated(p) THEN lost \cup {controller_idx[p]} ELSE lost
      /\ UNCHANGED <<controllers_, used_controllers_, controller_mutex_, up, task0, cpu1>>
  BY DEF Connected
<1>2. TypeOK'
  <2>1. arrivals' \in 0 .. MaxArrivals
    BY <1>1, BridgeAssumption DEF TypeOK
  <2>2. lost' \subseteq Seat
    BY <1>1, SeatedHas DEF TypeOK
  <2>3. controller_idx' \in [Pad -> Seat \cup {None}] /\ connected' \subseteq up'
    BY <1>1, Types DEF TypeOK
  <2> QED
    BY <1>1, <2>1, <2>2, <2>3 DEF TypeOK, cpu1
<1>3. \A q \in Pad : /\ Seated(q)' <=> q # p /\ Seated(q)
                     /\ q # p => controller_idx'[q] = controller_idx[q]
  BY <1>1, Types DEF Seated
<1>4. Books'
  <2>1. Kept' = Kept
    BY <1>1 DEF Kept
  <2>2. \A s \in lost' : s \in lost \/ (Seated(p) /\ s = controller_idx[p])
    BY <1>1
  <2>3. \A q \in Pad : Seated(q)' => /\ controllers_[controller_idx'[q]].idx
                                     /\ controller_idx'[q] \notin lost'
    BY <1>3, <2>2 DEF Books
  <2>4. \A s \in lost' : controllers_[s].idx
    BY <2>2 DEF Books
  <2>5. \A s \in Seat : controllers_[s].idx
          => s \in lost' \/ \E q \in Pad : Seated(q)' /\ controller_idx'[q] = s
    <3> SUFFICES ASSUME NEW s \in Seat, controllers_[s].idx, s \notin lost'
                 PROVE  \E q \in Pad : Seated(q)' /\ controller_idx'[q] = s
      OBVIOUS
    <3>1. PICK q \in Pad : Seated(q) /\ controller_idx[q] = s
      BY <1>1 DEF Books
    <3>2. q # p
      BY <1>1, <3>1
    <3> QED
      BY <1>3, <3>1, <3>2
  <2> QED
    BY <1>1, <1>3, <2>1, <2>3, <2>4, <2>5 DEF Books
<1>5. Handler' /\ Mutex' /\ Halves' /\ NoneUnread'
  BY <1>1 DEF Handler, Mutex, Halves, NoneUnread, Idle, cpu1
<1>6. FreshSeat'
  BY <1>1, <1>3 DEF FreshSeat
<1> QED
  BY <1>1, <1>2, <1>4, <1>5, <1>6, OtherSide

LEMMA TakeSeatKeeps ==
    ASSUME IInv, NEW p \in Pad, task0 = Idle, p \in up, UNCHANGED cpu1,
           ~Declined(p), FreeSeats # {}, TakeSeat(p), p \in connected
    PROVE  IInv'
<1> USE DEF IInv
<1> DEFINE s == Min(FreeSeats)
<1>1. /\ task0.op = "idle" /\ used_controllers_ # MAX_DEVICES /\ ~Seated(p)
      /\ controllers_' = [controllers_ EXCEPT ![s].idx = TRUE]
      /\ controller_idx' = [controller_idx EXCEPT ![p] = s]
      /\ used_controllers_' = used_controllers_ + 1
      /\ UNCHANGED <<controller_mutex_, up, arrivals, connected, lost, task0>>
  BY DEF TakeSeat, Declined, Seated, Idle
<1>2. s \in Seat /\ ~controllers_[s].idx
  BY MinIn, BridgeAssumption DEF FreeSeats, Seat
<1> HIDE DEF s
<1>3. /\ controllers_' \in [Seat -> SharedSeat]
      /\ controllers_'[s].idx
      /\ \A t \in Seat : /\ controllers_'[t].data = controllers_[t].data
                         /\ controllers_'[t].data_updated = controllers_[t].data_updated
      /\ \A t \in Seat \ {s} : controllers_'[t] = controllers_[t]
  BY <1>1, <1>2, Types DEF SharedSeat
<1>4. /\ controller_idx' \in [Pad -> Seat \cup {None}]
      /\ controller_idx'[p] = s /\ Seated(p)'
      /\ \A q \in Pad \ {p} : /\ controller_idx'[q] = controller_idx[q]
                              /\ Seated(q)' <=> Seated(q)
  BY <1>1, <1>2, Types DEF Seated
<1>5. TypeOK'
  <2>1. used_controllers_' \in 0 .. MAX_DEVICES
    <3>1. used_controllers_ \in 0 .. MAX_DEVICES
      BY DEF TypeOK
    <3> QED
      BY <1>1, <3>1, BridgeAssumption
  <2> QED
    BY <1>1, <1>3, <1>4, <2>1 DEF TypeOK, cpu1, SharedSeat
<1>6. \A q \in Pad : Seated(q) => controller_idx[q] \in Seat \ {s}
  BY <1>2, SeatedHas DEF Books
<1>7. Books'
  <2>1. Kept' = Kept \cup {s} /\ s \notin Kept
    BY <1>1, <1>2, <1>3 DEF Kept
  <2>2. used_controllers_' = Cardinality(Kept')
    <3>1. IsFiniteSet(Kept)
      BY SeatsFinite DEF Kept
    <3> QED
      BY <1>1, <2>1, <3>1, FS_AddElement DEF Books
  <2>3. \A q, t \in Pad : q # t /\ Seated(q)' /\ Seated(t)'
                          => controller_idx'[q] # controller_idx'[t]
    <3>1. \A q \in Pad \ {p} : Seated(q)' => controller_idx'[q] \in Seat \ {s}
      BY <1>4, <1>6
    <3> QED
      BY <1>4, <3>1 DEF Books
  <2>4. s \notin lost
    BY <1>2 DEF Books
  <2>5. \A q \in Pad : Seated(q)' => /\ controllers_'[controller_idx'[q]].idx
                                     /\ controller_idx'[q] \notin lost'
    BY <1>1, <1>3, <1>4, <1>6, <2>4 DEF Books
  <2>6. \A t \in lost' : controllers_'[t].idx
    BY <1>1, <1>3, <2>4 DEF Books, TypeOK
  <2>7. \A t \in Seat : controllers_'[t].idx
          => t \in lost' \/ \E q \in Pad : Seated(q)' /\ controller_idx'[q] = t
    <3> SUFFICES ASSUME NEW t \in Seat, controllers_'[t].idx, t \notin lost'
                 PROVE  \E q \in Pad : Seated(q)' /\ controller_idx'[q] = t
      OBVIOUS
    <3>1. CASE t = s
      BY <1>4, <3>1
    <3>2. CASE t # s
      <4>1. PICK q \in Pad : Seated(q) /\ controller_idx[q] = t
        BY <1>1, <1>3, <3>2 DEF Books
      <4> QED
        BY <1>1, <1>4, <4>1
    <3> QED
      BY <3>1, <3>2
  <2> QED
    BY <1>1, <2>2, <2>3, <2>5, <2>6, <2>7 DEF Books
<1>8. Handler' /\ Mutex'
  BY <1>1 DEF Handler, Mutex, cpu1
<1>9. Halves' /\ NoneUnread'
  BY <1>1, <1>2, <1>3 DEF Halves, NoneUnread, cpu1, TypeOK
<1>10. FreshSeat'
  <2> SUFFICES ASSUME NEW q \in Pad, Seated(q)', controllers_'[controller_idx'[q]].data_updated
               PROVE  controllers_'[controller_idx'[q]].data[1][1] \in {q, NoPad}
    BY DEF FreshSeat
  <2>1. CASE q = p
    <3>1. ~controllers_'[s].data_updated
      BY <1>2, <1>3 DEF NoneUnread
    <3> QED
      BY <1>4, <2>1, <3>1
  <2>2. CASE q # p
    <3>1. Seated(q) /\ controller_idx'[q] = controller_idx[q] /\ controller_idx[q] \in Seat
      <4>1. q \in Pad \ {p}
        BY <2>2
      <4> QED
        BY <1>4, <1>6, <4>1, Zenon
    <3> QED
      BY <1>3, <3>1 DEF FreshSeat
  <2> QED
    BY <2>1, <2>2
<1> QED
  BY <1>5, <1>7, <1>8, <1>9, <1>10, OtherSide

LEMMA DataBeginKeeps ==
    ASSUME IInv, NEW p \in Pad, NEW tag \in Tag, DataBegin(p, tag)
    PROVE  IInv'
<1> USE DEF IInv
<1> DEFINE s == controller_idx[p]
           h == <<p, tag>>
<1>1. /\ task0 = Idle /\ Seated(p) /\ controller_mutex_ = "free"
      /\ controller_mutex_' = "cpu0"
      /\ controllers_' = [controllers_ EXCEPT ![s].data[1] = h]
      /\ task0' = Doing("data", p, s)
      /\ UNCHANGED <<books, cpu1>>
  BY DEF DataBegin, MayWrite
<1>2. s \in Seat /\ h \in Half /\ h[1] = p
  BY <1>1, SeatedHas, Reports
<1>3. task0'.op = "data" /\ task0'.pad = p /\ task0'.seat = s /\ task0.op = "idle"
  BY <1>1 DEF Doing, Idle
<1>4. \A q \in Pad : q # p /\ Seated(q) => controller_idx[q] \in Seat \ {s}
  BY <1>1, SeatedHas
<1>5. /\ controllers_' \in [Seat -> SharedSeat]
      /\ controllers_'[s].data[1] = h
      /\ \A t \in Seat : /\ controllers_'[t].idx = controllers_[t].idx
                         /\ controllers_'[t].data_updated = controllers_[t].data_updated
      /\ \A t \in Seat \ {s} : controllers_'[t] = controllers_[t]
  <2>1. controllers_ \in [Seat -> SharedSeat] /\ controllers_[s] \in SharedSeat
    BY <1>2, Types
  <2> HIDE DEF s, h
  <2>2. LET q == [controllers_[s] EXCEPT !.data[1] = h]
        IN  /\ q \in SharedSeat /\ q.data[1] = h
            /\ q.idx = controllers_[s].idx
            /\ q.data_updated = controllers_[s].data_updated
    BY <1>2, <2>1 DEF SharedSeat
  <2>3. controllers_' = [controllers_ EXCEPT ![s] = [controllers_[s] EXCEPT !.data[1] = h]]
    BY <1>1, Zenon
  <2> QED
    BY <1>2, <2>1, <2>2, <2>3, Zenon
<1> HIDE DEF s, h
<1>6. TypeOK'
  BY <1>1, <1>2, <1>5 DEF TypeOK, cpu1, books, Doing, SharedSeat
<1>7. Handler'
  BY <1>1, <1>2, <1>3 DEF Handler, s, books, Seated
<1>8. pc # "copy" /\ pc' # "copy"
  BY <1>1 DEF Mutex, cpu1
<1>9. Mutex'
  BY <1>1, <1>3, <1>8 DEF Mutex
<1>10. Books'
  <2>1. Kept' = Kept
    BY <1>3, <1>5 DEF Kept
  <2> QED
    BY <1>1, <1>5, <2>1, BooksStay
<1>11. Halves'
  BY <1>3, <1>5, <1>8 DEF Halves
<1>12. NoneUnread'
  BY <1>2, <1>3, <1>5 DEF NoneUnread
<1>13. FreshSeat'
  <2> SUFFICES ASSUME NEW q \in Pad, Seated(q), controllers_'[controller_idx[q]].data_updated
               PROVE  controllers_'[controller_idx[q]].data[1][1] \in {q, NoPad}
    BY <1>1 DEF FreshSeat, Seated, books
  <2>1. CASE q = p
    BY <1>2, <1>5, <2>1 DEF s
  <2>2. CASE q # p
    BY <1>4, <1>5, <2>2 DEF FreshSeat
  <2> QED
    BY <2>1, <2>2
<1> QED
  BY <1>1, <1>6, <1>7, <1>9, <1>10, <1>11, <1>12, <1>13, OtherSide

LEMMA DataEndKeeps == ASSUME IInv, DataEnd PROVE IInv'
<1> USE DEF IInv
<1> DEFINE p == task0.pad
           s == task0.seat
           new == [controllers_[s] EXCEPT !.data[2] = controllers_[s].data[1],
                                          !.data_updated = TRUE]
<1>1. /\ task0.op = "data" /\ controller_mutex_' = "free" /\ task0' = Idle
      /\ controllers_' = [controllers_ EXCEPT ![s].data[2] = controllers_[s].data[1],
                                              ![s].data_updated = TRUE]
      /\ UNCHANGED <<books, cpu1>>
  BY DEF DataEnd
<1>2. /\ p \in Pad /\ Seated(p) /\ s \in Seat /\ controller_idx[p] = s
      /\ controllers_[s].data[1][1] = p
  BY <1>1 DEF Handler, TypeOK, NoneUnread
<1>3. task0'.op = "idle"
  BY <1>1 DEF Idle
<1>4. \A q \in Pad : q # p /\ Seated(q) => controller_idx[q] \in Seat \ {s}
  BY <1>2, SeatedHas
<1>5. /\ controllers_' \in [Seat -> SharedSeat]
      /\ controllers_'[s].data[1] = controllers_[s].data[1]
      /\ controllers_'[s].data[2] = controllers_[s].data[1]
      /\ controllers_'[s].idx = controllers_[s].idx
      /\ \A t \in Seat \ {s} : controllers_'[t] = controllers_[t]
  <2>1. controllers_ \in [Seat -> SharedSeat] /\ controllers_[s] \in SharedSeat
    BY <1>2, Types
  <2> HIDE DEF s
  <2>2. /\ new \in SharedSeat /\ new.data[1] = controllers_[s].data[1]
        /\ new.data[2] = controllers_[s].data[1]
        /\ new.idx = controllers_[s].idx
    BY <2>1, SharedUpdates, Reports, Zenon
  <2>3. controllers_' = [controllers_ EXCEPT ![s] = new]
    BY <1>1, <1>2, <2>1
  <2> HIDE DEF new
  <2> QED
    BY <1>2, <2>1, <2>2, <2>3, Zenon
<1> HIDE DEF s, new, p
<1>6. TypeOK'
  BY <1>1, <1>5 DEF TypeOK, cpu1, books, Idle, SharedSeat
<1>7. Handler'
  BY <1>1, <1>3 DEF Handler
<1>8. pc # "copy" /\ pc' # "copy"
  BY <1>1 DEF Mutex, cpu1
<1>9. Mutex'
  BY <1>1, <1>3, <1>8 DEF Mutex
<1>10. Books'
  <2>1. Kept' = Kept /\ \A t \in Seat : controllers_'[t].idx = controllers_[t].idx
    BY <1>1, <1>3, <1>5 DEF Kept
  <2> QED
    BY <1>1, <2>1, BooksStay
<1>11. Halves'
  BY <1>3, <1>5, <1>8 DEF Halves, s
<1>12. NoneUnread'
  <2>1. controllers_'[s].idx
    BY <1>2, <1>5 DEF Books
  <2> QED
    BY <1>3, <1>5, <2>1 DEF NoneUnread
<1>13. FreshSeat'
  <2> SUFFICES ASSUME NEW q \in Pad, Seated(q), controllers_'[controller_idx[q]].data_updated
               PROVE  controllers_'[controller_idx[q]].data[1][1] \in {q, NoPad}
    BY <1>1 DEF FreshSeat, Seated, books
  <2>1. CASE q = p
    BY <1>2, <1>5, <2>1
  <2>2. CASE q # p
    BY <1>4, <1>5, <2>2 DEF FreshSeat
  <2> QED
    BY <2>1, <2>2
<1> QED
  BY <1>1, <1>6, <1>7, <1>9, <1>10, <1>11, <1>12, <1>13, OtherSide

LEMMA WipeKeeps ==
    ASSUME IInv, NEW p \in Pad, task0 = Idle, Seated(p), Wipe(p), UNCHANGED cpu1
    PROVE  IInv'
<1> USE DEF IInv
<1> DEFINE s == controller_idx[p]
<1>1. /\ task0.op = "idle" /\ pc' = pc
      /\ used_controllers_' = used_controllers_ - 1
      /\ controllers_' = [controllers_ EXCEPT ![s].data = Blank]
      /\ task0' = Doing("wipe", p, s)
      /\ UNCHANGED <<controller_mutex_, up, arrivals, connected, controller_idx, lost>>
  BY DEF Wipe, Idle, cpu1
<1>2. s \in Seat /\ controllers_[s].idx
  BY SeatedHas DEF Books
<1>3. task0'.op = "wipe" /\ task0'.pad = p /\ task0'.seat = s
  BY <1>1 DEF Doing
<1>4. \A q \in Pad : (Seated(q)' <=> Seated(q)) /\ (Seated(q) => controller_idx[q] \in Seat)
  BY <1>1, SeatedHas DEF Seated
<1>5. Handler'
  BY <1>1, <1>2, <1>3, <1>4 DEF Handler
<1> HIDE DEF s
<1>6. /\ controllers_' \in [Seat -> SharedSeat]
      /\ controllers_'[s].data = Blank
      /\ \A t \in Seat : /\ controllers_'[t].idx = controllers_[t].idx
                         /\ controllers_'[t].data_updated = controllers_[t].data_updated
      /\ \A t \in Seat \ {s} : controllers_'[t] = controllers_[t]
  BY <1>1, <1>2, Types, Reports DEF SharedSeat
<1>7. /\ used_controllers_' = Cardinality(Kept')
      /\ used_controllers_' \in 0 .. MAX_DEVICES
  <2>1. Kept' = Kept \ {s} /\ s \in Kept
    BY <1>1, <1>2, <1>3, <1>6 DEF Kept
  <2>2. /\ IsFiniteSet(Kept) /\ Cardinality(Kept) \in 0 .. MAX_DEVICES
        /\ Kept' \subseteq Seat
    BY SeatsFinite, <2>1 DEF Kept
  <2>3. Cardinality(Kept') = Cardinality(Kept) - 1 /\ Cardinality(Kept') \in 0 .. MAX_DEVICES
    BY <2>1, <2>2, FS_RemoveElement, SeatsFinite
  <2> QED
    BY <1>1, <2>3 DEF Books
<1>8. TypeOK'
  BY <1>1, <1>2, <1>6, <1>7 DEF TypeOK, cpu1, Doing, SharedSeat
<1>9. Mutex'
  BY <1>1, <1>3 DEF Mutex
<1>10. Books'
  BY <1>1, <1>4, <1>6, <1>7 DEF Books, TypeOK
<1>11. Halves'
  <2>1. \A t \in Seat : controllers_'[t].data[1] = controllers_'[t].data[2]
    BY <1>1, <1>6, Reports DEF Halves
  <2>2. ASSUME pc' = "copy"
        PROVE  controllers_'[i'].data[2] \in {_controllers'[i'].data[1], Zero}
    <3>1. i' = i /\ i \in Seat /\ _controllers' = _controllers
      BY DEF cpu1, TypeOK
    <3>2. controllers_[i].data[2] \in {_controllers[i].data[1], Zero}
      BY <1>1, <2>2 DEF Halves
    <3>3. controllers_'[i].data[2] \in {controllers_[i].data[2], Zero}
      BY <1>6, <3>1, Reports
    <3> QED
      BY <3>1, <3>2, <3>3
  <2> QED
    BY <2>1, <2>2 DEF Halves
<1>12. NoneUnread'
  BY <1>1, <1>3, <1>6 DEF NoneUnread
<1>13. FreshSeat'
  BY <1>1, <1>4, <1>6, Reports DEF FreshSeat
<1> QED
  BY <1>5, <1>8, <1>9, <1>10, <1>11, <1>12, <1>13, OtherSide

(* A record that has no seat is deleted at once. *)
LEMMA DropKeeps ==
    ASSUME IInv, NEW p \in Pad, task0 = Idle, p \in up, Drop(p), UNCHANGED cpu1
    PROVE  IInv'
<1> USE DEF IInv
<1>1. CASE Seated(p)
  BY <1>1, WipeKeeps DEF Drop
<1>2. CASE ~Seated(p)
  <2>1. /\ up' = up \ {p} /\ connected' = connected \ {p}
        /\ controller_idx' = [controller_idx EXCEPT ![p] = 0]
        /\ UNCHANGED <<controllers_, controller_mutex_, used_controllers_, arrivals, lost,
                       task0>>
    BY <1>2 DEF Drop, Delete
  <2>2. 0 \in Seat
    BY BridgeAssumption DEF Seat
  <2>3. TypeOK'
    BY <2>1, <2>2 DEF TypeOK, cpu1
  <2>4. IsFiniteSet(up') /\ Cardinality(up') <= MAX_DEVICES
    <3>1. /\ Cardinality(up) \in Nat /\ Cardinality(up') = Cardinality(up) - 1
          /\ IsFiniteSet(up')
      BY <2>1, FS_RemoveElement, FS_CardinalityType DEF Books
    <3> QED
      BY <3>1, BridgeAssumption DEF Books
  <2>5. \A q \in Pad : /\ Seated(q)' <=> Seated(q)
                       /\ Seated(q) => controller_idx'[q] = controller_idx[q]
    BY <1>2, <2>1, Types DEF Seated
  <2>6. Books'
    <3>1. Kept' = Kept
      BY <2>1 DEF Kept
    <3>2. \A q \in Pad \ connected' : controller_idx'[q] # None
      BY <2>1, <2>2, Types DEF Books
    <3> QED
      BY <2>1, <2>4, <2>5, <3>1, <3>2 DEF Books
  <2>7. Handler' /\ Mutex' /\ Halves' /\ NoneUnread'
    BY <2>1 DEF Handler, Mutex, Halves, NoneUnread, Idle, cpu1
  <2>8. FreshSeat'
    BY <2>1, <2>5 DEF FreshSeat
  <2> QED
    BY <2>3, <2>6, <2>7, <2>8, OtherSide
<1> QED
  BY <1>1, <1>2

LEMMA WipeRestKeeps == ASSUME IInv, WipeRest PROVE IInv'
<1> USE DEF IInv
<1> DEFINE s == task0.seat
<1>1. /\ task0.op = "wipe"
      /\ controllers_' = [controllers_ EXCEPT ![s].data_updated = FALSE]
      /\ task0' = [task0 EXCEPT !.op = "leave"]
      /\ UNCHANGED <<controller_mutex_, books, cpu1>>
  BY DEF WipeRest
<1>2. /\ task0.pad \in Pad /\ Seated(task0.pad) /\ s \in Seat /\ controller_idx[task0.pad] = s
  BY <1>1 DEF Handler
<1>3. task0'.op = "leave" /\ task0'.pad = task0.pad /\ task0'.seat = s
  BY <1>1 DEF TypeOK
<1> HIDE DEF s
<1>4. /\ controllers_' \in [Seat -> SharedSeat]
      /\ ~controllers_'[s].data_updated
      /\ \A t \in Seat : /\ controllers_'[t].idx = controllers_[t].idx
                         /\ controllers_'[t].data = controllers_[t].data
      /\ \A t \in Seat \ {s} : controllers_'[t] = controllers_[t]
  <2>1. controllers_ \in [Seat -> SharedSeat] /\ controllers_[s] \in SharedSeat
    BY <1>2, Types
  <2>2. LET q == [controllers_[s] EXCEPT !.data_updated = FALSE]
        IN  /\ q \in SharedSeat /\ ~q.data_updated
            /\ q.data = controllers_[s].data /\ q.idx = controllers_[s].idx
    BY <2>1, Reports, SharedUpdates, Zenon
  <2> QED
    BY <1>1, <1>2, <2>1, <2>2, Zenon
<1>5. TypeOK'
  BY <1>1, <1>4 DEF TypeOK, cpu1, books, SharedSeat
<1>6. Handler' /\ Mutex'
  BY <1>1, <1>2, <1>3 DEF Handler, Mutex, cpu1, books, Seated
<1>7. Books'
  <2>1. Kept' = Kept
    BY <1>1, <1>3, <1>4 DEF Kept, s
  <2> QED
    BY <1>1, <1>4, <2>1, BooksStay
<1>8. Halves'
  BY <1>1, <1>3, <1>4 DEF Halves, cpu1, TypeOK
<1>9. NoneUnread'
  BY <1>3, <1>4 DEF NoneUnread
<1>10. FreshSeat'
  BY <1>1, <1>4, Types DEF FreshSeat, Seated, books
<1> QED
  BY <1>1, <1>5, <1>6, <1>7, <1>8, <1>9, <1>10, OtherSide

LEMMA LeaveKeeps == ASSUME IInv, Leave PROVE IInv'
<1> USE DEF IInv
<1> DEFINE p == task0.pad
           s == task0.seat
<1>1. /\ task0.op = "leave" /\ task0' = Idle
      /\ controllers_' = [controllers_ EXCEPT ![s].idx = FALSE]
      /\ up' = up \ {p} /\ connected' = connected \ {p}
      /\ controller_idx' = [controller_idx EXCEPT ![p] = 0]
      /\ UNCHANGED <<controller_mutex_, used_controllers_, arrivals, lost, cpu1>>
  BY DEF Leave, Delete
<1>2. /\ p \in Pad /\ Seated(p) /\ p \in up /\ s \in Seat /\ controller_idx[p] = s
      /\ ~controllers_[s].data_updated
  BY <1>1, SeatedHas DEF Handler, NoneUnread
<1>3. task0'.op = "idle"
  BY <1>1 DEF Idle
<1>4. \A q \in Pad : q # p /\ Seated(q) => controller_idx[q] \in Seat \ {s}
  BY <1>2, SeatedHas
<1> HIDE DEF s, p
<1>5. /\ controllers_' \in [Seat -> SharedSeat]
      /\ ~controllers_'[s].idx
      /\ \A t \in Seat : /\ controllers_'[t].data_updated = controllers_[t].data_updated
                         /\ controllers_'[t].data = controllers_[t].data
      /\ \A t \in Seat \ {s} : controllers_'[t] = controllers_[t]
  <2>1. controllers_ \in [Seat -> SharedSeat] /\ controllers_[s] \in SharedSeat
    BY <1>2, Types
  <2>2. LET q == [controllers_[s] EXCEPT !.idx = FALSE]
        IN  /\ q \in SharedSeat /\ ~q.idx
            /\ q.data = controllers_[s].data /\ q.data_updated = controllers_[s].data_updated
    BY <2>1, Reports, SharedUpdates, Zenon
  <2> QED
    BY <1>1, <1>2, <2>1, <2>2, Zenon
<1>6. \A q \in Pad : Seated(q)' <=> q # p /\ Seated(q)
  BY <1>1, <1>2, Types DEF Seated
<1>7. TypeOK'
  <2>1. 0 \in Seat
    BY BridgeAssumption DEF Seat
  <2> QED
    BY <1>1, <1>5, <2>1 DEF TypeOK, cpu1, SharedSeat, Idle
<1>8. Handler' /\ Mutex'
  BY <1>1, <1>3 DEF Handler, Mutex, cpu1
<1>9. \A q \in Pad : Seated(q)' => /\ q # p /\ Seated(q) /\ controller_idx[q] \in Seat \ {s}
                                   /\ controller_idx'[q] = controller_idx[q]
  BY <1>1, <1>4, <1>6, Types
<1>10. Books'
  <2>1. Kept' = Kept
    BY <1>1, <1>3, <1>5 DEF Kept, s
  <2>2. IsFiniteSet(up') /\ Cardinality(up') <= MAX_DEVICES
    <3>1. /\ Cardinality(up) \in Nat /\ Cardinality(up') = Cardinality(up) - 1
          /\ IsFiniteSet(up')
      BY <1>1, <1>2, FS_RemoveElement, FS_CardinalityType DEF Books
    <3> QED
      BY <3>1, BridgeAssumption DEF Books
  <2>3. \A q, t \in Pad : q # t /\ Seated(q)' /\ Seated(t)'
                          => controller_idx'[q] # controller_idx'[t]
    BY <1>9 DEF Books
  <2>4. \A q \in Pad : Seated(q)' => /\ controllers_'[controller_idx'[q]].idx
                                     /\ controller_idx'[q] \notin lost'
    BY <1>1, <1>5, <1>9 DEF Books
  <2>5. s \notin lost
    BY <1>2 DEF Books
  <2>6. \A t \in lost' : controllers_'[t].idx
    BY <1>1, <1>5, <2>5 DEF Books, TypeOK
  <2>7. \A t \in Seat : controllers_'[t].idx
          => t \in lost' \/ \E q \in Pad : Seated(q)' /\ controller_idx'[q] = t
    <3> SUFFICES ASSUME NEW t \in Seat, controllers_'[t].idx, t \notin lost'
                 PROVE  \E q \in Pad : Seated(q)' /\ controller_idx'[q] = t
      OBVIOUS
    <3>1. t # s /\ controllers_[t].idx
      BY <1>5
    <3>2. PICK q \in Pad : Seated(q) /\ controller_idx[q] = t
      BY <1>1, <3>1 DEF Books
    <3>3. q # p
      BY <1>2, <3>1, <3>2
    <3> QED
      BY <1>6, <1>9, <3>2, <3>3
  <2>8. \A q \in Pad \ connected' : controller_idx'[q] # None
    <3>1. 0 \in Seat
      BY BridgeAssumption DEF Seat
    <3> QED
      BY <1>1, <3>1, Types DEF Books
  <2> QED
    BY <1>1, <2>1, <2>2, <2>3, <2>4, <2>6, <2>7, <2>8 DEF Books
<1>11. Halves'
  BY <1>1, <1>3, <1>5 DEF Halves, cpu1, TypeOK
<1>12. NoneUnread'
  BY <1>2, <1>3, <1>5 DEF NoneUnread
<1>13. FreshSeat'
  BY <1>5, <1>9 DEF FreshSeat
<1> QED
  BY <1>1, <1>7, <1>8, <1>10, <1>11, <1>12, <1>13, OtherSide

LEMMA StandStill ==
    ASSUME IInv, UNCHANGED <<controllers_, controller_mutex_, cpu0, cpu1>>
    PROVE  IInv'
<1>1. TypeOK' /\ Mutex' /\ Halves'
  BY DEF IInv, TypeOK, Mutex, Halves, cpu0, cpu1, books
<1>2. OnlyRead
  BY Types DEF OnlyRead, IInv
<1> QED
  BY <1>1, <1>2, ReadingKeeps, OtherSide DEF IInv

LEMMA DisconnectedKeeps == ASSUME IInv, NEW p \in Pad, Disconnected(p) PROVE IInv'
BY DropKeeps DEF Disconnected

(* A pad is accepted only when the platform has been told of it: until     *)
(* then its record names seat 0.                                           *)
LEMMA ReadySeatKeeps == ASSUME IInv, NEW p \in Pad, ReadySeat(p) PROVE IInv'
<1>1. task0 = Idle /\ p \in up /\ UNCHANGED cpu1
  BY DEF ReadySeat
<1>2. CASE Declined(p)
  BY <1>1, <1>2, DropKeeps DEF ReadySeat
<1>3. CASE ~Declined(p) /\ FreeSeats = {}
  BY <1>1, <1>3, StandStill DEF ReadySeat
<1>4. CASE ~Declined(p) /\ FreeSeats # {}
  <2>1. p \in connected
    BY <1>1, <1>4 DEF IInv, Books, TypeOK, Declined
  <2> QED
    BY <1>1, <1>4, <2>1, TakeSeatKeeps DEF ReadySeat
<1> QED
  BY <1>2, <1>3, <1>4

LEMMA NextIInv == IInv /\ [Next]_vars => IInv'
<1> SUFFICES ASSUME IInv, [Next]_vars PROVE IInv'
  OBVIOUS
<1>1. CASE UNCHANGED vars
  BY <1>1, StandStill DEF vars
<1>2. CASE Next
  BY <1>2, CreateKeeps, ConnectedKeeps, ReadySeatKeeps, DisconnectedKeeps, DataBeginKeeps,
     DataEndKeeps, WipeRestKeeps, LeaveKeeps, CheckKeeps, ReadKeeps, CopyKeeps, CompareKeeps,
     SampleKeeps
  DEF Next, Task0, Update
<1> QED
  BY <1>1, <1>2

-----------------------------------------------------------------------------
(* All the state of the bridge keeps its type, for any number of seats,    *)
(* pads and reports.                                                       *)
THEOREM TypeCorrect == Spec => []TypeOK
<1>1. IInv => TypeOK
  BY DEF IInv
<1> QED
  BY <1>1, InitIInv, NextIInv, PTL DEF Spec

(* The count is that of the taken seats, and a taken seat is one pad's and *)
(* no other's, or was forgotten by a repeated on_device_connected()        *)
(* (arduino_platform.c:51, 168-189, 192-224).                              *)
THEOREM SeatsMatchAlways == Spec => []SeatsMatch
<1>1. IInv => SeatsMatch
  <2> SUFFICES ASSUME IInv, task0 = Idle PROVE SeatsMatch
    BY DEF SeatsMatch
  <2> DEFINE seated == {q \in Pad : Seated(q)}
             held == {controller_idx[p] : p \in seated}
             taken == Seat \ FreeSeats
  <2>1. task0.op = "idle"
    BY DEF Idle
  <2>2. Kept = taken
    BY <2>1 DEF Kept, FreeSeats
  <2>3. taken = held \cup lost
    <3>1. \A s \in taken : s \in held \cup lost
      BY DEF IInv, Books, FreeSeats
    <3>2. \A p \in seated : controller_idx[p] \in taken
      BY SeatedHas DEF IInv, Books, FreeSeats
    <3>3. \A s \in lost : s \in taken
      BY DEF IInv, Books, FreeSeats, TypeOK
    <3> QED
      BY <3>1, <3>2, <3>3
  <2>4. held \cap lost = {}
    BY DEF IInv, Books
  <2>5. \A p, q \in seated : p # q => controller_idx[p] # controller_idx[q]
    BY DEF IInv, Books
  <2>6. used_controllers_ = Cardinality(taken)
    BY <2>2 DEF IInv, Books
  <2> QED
    BY <2>3, <2>4, <2>5, <2>6 DEF SeatsMatch
<1> QED
  BY <1>1, InitIInv, NextIInv, PTL DEF Spec

(* Whether a seat is free can be told from the count, and a pad that has a *)
(* record finds one free unless some were forgotten: there are as many     *)
(* seats as records (arduino_platform.c:193-197, uni_hid_device.c:69-83).  *)
THEOREM AlwaysASeatAlways == Spec => []AlwaysASeat
<1>1. IInv => AlwaysASeat
  <2> SUFFICES ASSUME IInv, task0 = Idle PROVE AlwaysASeat
    BY DEF AlwaysASeat
  <2>1. Kept = Seat \ FreeSeats /\ FreeSeats \subseteq Seat
    BY DEF Kept, FreeSeats, Idle
  <2>2. used_controllers_ = MAX_DEVICES <=> FreeSeats = {}
    <3>1. IsFiniteSet(Kept) /\ Kept \subseteq Seat /\ used_controllers_ = Cardinality(Kept)
      BY <2>1, SeatsFinite DEF IInv, Books
    <3>2. CASE FreeSeats = {}
      BY <2>1, <3>1, <3>2, SeatsFinite
    <3>3. CASE FreeSeats # {}
      <4>1. Kept # Seat
        BY <2>1, <3>3
      <4>2. Cardinality(Kept) # MAX_DEVICES
        BY <3>1, <4>1, SeatsFinite, FS_Subset
      <4> QED
        BY <3>1, <3>3, <4>2
    <3> QED
      BY <3>2, <3>3
  <2>3. ASSUME NEW p \in up, ~Seated(p), FreeSeats = {}, lost = {} PROVE FALSE
    <3> DEFINE others == up \ {p}
               f == [s \in Seat |-> CHOOSE q \in Pad : Seated(q) /\ controller_idx[q] = s]
    <3>1. /\ IsFiniteSet(others) /\ Cardinality(others) < MAX_DEVICES
          /\ Cardinality(others) \in Nat
      <4>1. /\ Cardinality(up) \in Nat /\ Cardinality(others) = Cardinality(up) - 1
            /\ IsFiniteSet(others)
        BY <2>3, FS_RemoveElement, FS_CardinalityType DEF IInv, Books
      <4> QED
        BY <4>1, FS_CardinalityType, BridgeAssumption DEF IInv, Books
    <3>2. \A s \in Seat : \E q \in Pad : Seated(q) /\ controller_idx[q] = s
      BY <2>3 DEF FreeSeats, IInv, Books
    <3>3. \A s \in Seat : f[s] \in Pad /\ Seated(f[s]) /\ controller_idx[f[s]] = s
      BY <3>2
    <3>4. f \in [Seat -> others]
      BY <2>3, <3>3, SeatedHas
    <3> HIDE DEF f, others
    <3>5. PICK s, t \in Seat : s # t /\ f[s] = f[t]
      BY <3>1, <3>4, SeatsFinite, FS_PigeonHole
    <3> QED
      BY <3>3, <3>5
  <2> QED
    BY <2>2, <2>3 DEF AlwaysASeat
<1> QED
  BY <1>1, InitIInv, NextIInv, PTL DEF Spec

(* The loop never puts together two different reports, although a seat is  *)
(* wiped without the mutex (arduino_platform.c:185, 244-248, 312-318).     *)
THEOREM WholeReportsAlways == Spec => []WholeReports
<1>1. IInv => WholeReports
  BY DEF IInv
<1> QED
  BY <1>1, InitIInv, NextIInv, PTL DEF Spec

(* A new pad never inherits an unread report of the seat's last one        *)
(* (arduino_platform.c:185, 293-296).                                      *)
THEOREM FreshSeatAlways == Spec => []FreshSeat
<1>1. IInv => FreshSeat
  BY DEF IInv
<1> QED
  BY <1>1, InitIInv, NextIInv, PTL DEF Spec

(* The controller in use has been reported connected and not disconnected  *)
(* since (ArduinoBluepad32.cpp:48-66, gamepad_input.cpp:10-23).            *)
THEOREM AdoptedConnectedAlways == Spec => []AdoptedConnected
<1>1. IInv => AdoptedConnected
  BY DEF IInv, Adopted, AdoptedConnected
<1> QED
  BY <1>1, InitIInv, NextIInv, PTL DEF Spec
=============================================================================
