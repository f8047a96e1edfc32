--------------------------- MODULE BrEdrHostProofs ---------------------------
(***************************************************************************)
(* Theorems about BrEdrHost, for any number of records, channels and       *)
(* gamepads.  The handlers are functions of the host's state, so there is  *)
(* one lemma per function: it keeps the invariant Inv of the state it is   *)
(* given, whatever else goes on.                                           *)
(***************************************************************************)
EXTENDS BrEdrHost, FiniteSetTheorems, WellFoundedInduction, TLAPS

(* A record by itself; L are the peers its handle may lead to.  A free     *)
(* record is clean but for its state, which a late SDP answer may change.  *)
Clean(d) == /\ d.handle = NoAddr /\ d.control = None /\ d.interrupt = None
            /\ d.name = "none" /\ d.sdp_query_type = "after" /\ d.seat = "zero"
            /\ ~d.incoming /\ ~d.connected /\ ~d.name_timer
Good(d, L) ==
    /\ d.addr = NoAddr => Clean(d)
    /\ d.state = "ready" => d.seat = "held"
    /\ d.seat # "zero" => d.connected
    /\ d.addr # NoAddr /\ ~d.connected => d.timer
    /\ d.handle \notin {NoAddr, Zero} => d.handle = d.addr /\ d.handle \in L

Live(ch, a, psm) == ch \in [addr : {a}, psm : {psm}, st : {"wait", "asked", "open"}]

(* The channels of a record. *)
Owns(d, chan) == /\ d.control # None => Live(chan[d.control], d.addr, "control")
                 /\ d.interrupt # None => Live(chan[d.interrupt], d.addr, "interrupt")

Held(dev) == {s \in Slot : dev[s].seat = "held"}

(* The records together: one for each gamepad, and as many seats taken as  *)
(* records hold, if not more.                                              *)
Records(dev, chan, used, L) ==
    /\ dev \in [Slot -> Record]
    /\ chan \in [Cid -> Channel]
    /\ used \in 0 .. MAX_DEVICES
    /\ \A s \in Slot : Good(dev[s], L) /\ Owns(dev[s], chan)
    /\ \A s, t \in Slot : s # t /\ dev[s].addr # NoAddr => dev[s].addr # dev[t].addr
    /\ \A c \in Cid : chan[c].st # "free" => chan[c].addr \in Addr
    /\ Cardinality(Held(dev)) <= used

Inv(w, L) == w \in Host /\ Records(w.dev, w.chan, w.used, L)

(* The peers a handle other than 0 may lead to. *)
Named == (link \cup {lost}) \ {zero}

IInv == /\ Inv(host, Named)
        /\ link \subseteq Addr
        /\ zero \in Addr \cup {NoAddr}
        /\ requested \subseteq Addr
        /\ lost \in Addr \cup {NoAddr}
        /\ dying \subseteq Cid \cup {None}

-----------------------------------------------------------------------------
(* The lowest number of a set is in it. *)
LEMMA MinIn ==
    ASSUME NEW S \in SUBSET Nat, S # {}
    PROVE  Min(S) \in S
<1> DEFINE R == OpToRel(<, Nat)
<1>1. IsWellFoundedOn(R, Nat)
  BY NatLessThanWellFounded
<1>2. \A x, y \in Nat : x < y => <<x, y>> \in R
  BY DEF OpToRel
<1> HIDE DEF R
<1>3. PICK x \in S : \A y \in S : <<y, x>> \notin R
  BY <1>1, WFMin, Zenon
<1>4. \A y \in S : ~(y < x)
  BY <1>2, <1>3, Zenon
<1>5. \A y \in S : x <= y
  BY <1>4
<1> QED
  BY <1>5 DEF Min

LEMMA Consts == /\ None \notin Cid /\ None \notin Slot
                /\ Slot \subseteq Nat /\ Cid \subseteq Nat
                /\ IsFiniteSet(Slot)
BY BrEdrAssumption, FS_Interval DEF None, Cid, Slot

LEMMA FirstIs ==
    ASSUME NEW S \in SUBSET Slot
    PROVE  /\ First(S) \subseteq S
           /\ First(S) = {} => S = {}
           /\ First(S) # {} => Min(First(S)) \in First(S) /\ First(S) = {Min(First(S))}
<1>1. S \in SUBSET Nat
  BY Consts
<1>2. First(S) \subseteq S /\ (First(S) = {} => S = {})
  BY <1>1, MinIn DEF First
<1>3. First(S) \in SUBSET Nat
  BY <1>1, <1>2
<1>4. First(S) # {} => Min(First(S)) \in First(S)
  BY <1>3, MinIn
<1>5. First(S) # {} => \E x : First(S) = {x}
  BY DEF First
<1> QED
  BY <1>2, <1>4, <1>5

(* What the lookups return (uni_hid_device.c:132-171). *)
LEMMA Lookup ==
    ASSUME NEW w, NEW a
    PROVE  /\ \A s \in ForAddress(w, a) : s \in Slot /\ w.dev[s].addr = a
           /\ ForAddress(w, a) = {} => \A s \in Slot : w.dev[s].addr # a
           /\ ForAddress(w, a) # {} => /\ Min(ForAddress(w, a)) \in ForAddress(w, a)
                                       /\ ForAddress(w, a) = {Min(ForAddress(w, a))}
<1> DEFINE S == {s \in Slot : w.dev[s].addr = a}
<1>1. S \in SUBSET Slot /\ ForAddress(w, a) = First(S)
  BY DEF ForAddress
<1> QED
  BY <1>1, FirstIs

LEMMA LookupCid ==
    ASSUME NEW w, NEW c
    PROVE  /\ \A s \in ForCid(w, c) : s \in Slot /\ c \in {w.dev[s].interrupt, w.dev[s].control}
           /\ ForCid(w, c) = {} => \A s \in Slot : c \notin {w.dev[s].interrupt, w.dev[s].control}
           /\ ForCid(w, c) # {} => Min(ForCid(w, c)) \in ForCid(w, c)
<1> DEFINE S == {s \in Slot : c \in {w.dev[s].interrupt, w.dev[s].control}}
<1>1. S \in SUBSET Slot /\ ForCid(w, c) = First(S)
  BY DEF ForCid
<1> QED
  BY <1>1, FirstIs

LEMMA LookupHandle ==
    ASSUME NEW w, NEW a
    PROVE  /\ \A s \in ForHandle(w, a) : s \in Slot /\ w.dev[s].handle = a
           /\ ForHandle(w, a) = {} => \A s \in Slot : w.dev[s].handle # a
           /\ ForHandle(w, a) # {} => Min(ForHandle(w, a)) \in ForHandle(w, a)
<1> DEFINE S == {s \in Slot : w.dev[s].handle = a}
<1>1. S \in SUBSET Slot /\ ForHandle(w, a) = First(S)
  BY DEF ForHandle
<1> QED
  BY <1>1, FirstIs

-----------------------------------------------------------------------------
(* Putting a record in place of another. *)
LEMMA PutRecords ==
    ASSUME NEW dev, NEW chan, NEW used, NEW L, Records(dev, chan, used, L),
           NEW s \in Slot, NEW r \in Record, Good(r, L), Owns(r, chan),
           r.addr = NoAddr \/ \A t \in Slot \ {s} : dev[t].addr # r.addr,
           r.seat = "held" => dev[s].seat = "held"
    PROVE  Records([dev EXCEPT ![s] = r], chan, used, L)
<1> DEFINE new == [dev EXCEPT ![s] = r]
<1>1. dev \in [Slot -> Record]
  BY DEF Records
<1>2. /\ new \in [Slot -> Record] /\ new[s] = r
      /\ \A t \in Slot : t # s => new[t] = dev[t]
  BY <1>1
<1> HIDE DEF new
<1>3. Held(new) \subseteq Held(dev)
  BY <1>2 DEF Held
<1>4. IsFiniteSet(Held(dev))
  BY Consts, FS_Subset DEF Held
<1>5. Cardinality(Held(new)) <= used
  <2>1. /\ IsFiniteSet(Held(new)) /\ Cardinality(Held(new)) <= Cardinality(Held(dev))
        /\ Cardinality(Held(new)) \in Nat /\ Cardinality(Held(dev)) \in Nat
    BY <1>3, <1>4, FS_Subset, FS_CardinalityType
  <2>2. used \in Nat /\ Cardinality(Held(dev)) <= used
    BY BrEdrAssumption DEF Records
  <2> QED
    BY <2>1, <2>2
<1>6. \A t \in Slot : Good(new[t], L) /\ Owns(new[t], chan)
  BY <1>2 DEF Records
<1>7. \A t, u \in Slot : t # u /\ new[t].addr # NoAddr => new[t].addr # new[u].addr
  BY <1>2 DEF Records
<1>8. /\ chan \in [Cid -> Channel]
      /\ used \in 0 .. MAX_DEVICES
      /\ \A c \in Cid : chan[c].st # "free" => chan[c].addr \in Addr
  BY DEF Records
<1>9. Records(new, chan, used, L)
  BY <1>2, <1>5, <1>6, <1>7, <1>8 DEF Records
<1> QED
  BY <1>9 DEF new

(* A record that may replace d. *)
Replaces(r, d, chan, L) == /\ r \in Record /\ Good(r, L) /\ Owns(r, chan)
                           /\ r.addr = d.addr
                           /\ r.seat = "held" => d.seat = "held"

LEMMA Fields ==
    ASSUME NEW w \in Host
    PROVE  /\ \A x \in [Slot -> Record] :
                LET v == [w EXCEPT !.dev = x]
                IN  /\ v \in Host /\ v.dev = x
                    /\ v.chan = w.chan /\ v.used = w.used /\ v.sdp = w.sdp
                    /\ v.client = w.client /\ v.asking = w.asking
           /\ \A x \in [Cid -> Channel] :
                LET v == [w EXCEPT !.chan = x]
                IN  /\ v \in Host /\ v.chan = x
                    /\ v.dev = w.dev /\ v.used = w.used /\ v.sdp = w.sdp
                    /\ v.client = w.client /\ v.asking = w.asking
           /\ \A x \in 0 .. MAX_DEVICES :
                LET v == [w EXCEPT !.used = x]
                IN  v \in Host /\ v.used = x /\ v.dev = w.dev /\ v.chan = w.chan
<1>1. ASSUME NEW x \in [Slot -> Record]
      PROVE  LET v == [w EXCEPT !.dev = x]
             IN  /\ v \in Host /\ v.dev = x
                 /\ v.chan = w.chan /\ v.used = w.used /\ v.sdp = w.sdp
                 /\ v.client = w.client /\ v.asking = w.asking
  BY DEF Host
<1>2. ASSUME NEW x \in [Cid -> Channel]
      PROVE  LET v == [w EXCEPT !.chan = x]
             IN  /\ v \in Host /\ v.chan = x
                 /\ v.dev = w.dev /\ v.used = w.used /\ v.sdp = w.sdp
                 /\ v.client = w.client /\ v.asking = w.asking
  BY DEF Host
<1>3. ASSUME NEW x \in 0 .. MAX_DEVICES
      PROVE  LET v == [w EXCEPT !.used = x]
             IN  v \in Host /\ v.used = x /\ v.dev = w.dev /\ v.chan = w.chan
  BY DEF Host
<1> QED
  BY <1>1, <1>2, <1>3, Zenon

(* A handler changes one record of the host. *)
LEMMA Put ==
    ASSUME NEW w, NEW L, Inv(w, L), NEW s \in Slot,
           NEW r, Replaces(r, w.dev[s], w.chan, L)
    PROVE  LET v == [w EXCEPT !.dev[s] = r]
           IN  /\ Inv(v, L)
               /\ v.dev[s] = r /\ v.chan = w.chan /\ v.used = w.used /\ v.sdp = w.sdp
               /\ v.client = w.client
<1> DEFINE new == [w.dev EXCEPT ![s] = r]
           v == [w EXCEPT !.dev[s] = r]
<1>1. w \in Host /\ Records(w.dev, w.chan, w.used, L)
  BY DEF Inv
<1>2. r \in Record /\ w.dev \in [Slot -> Record]
  BY <1>1 DEF Replaces, Records
<1>3. new \in [Slot -> Record] /\ new[s] = r
  BY <1>2
<1>4. v = [w EXCEPT !.dev = new]
  OBVIOUS
<1>5. r.addr = NoAddr \/ \A t \in Slot \ {s} : w.dev[t].addr # r.addr
  BY <1>1 DEF Replaces, Records
<1>6. Records(new, w.chan, w.used, L)
  BY <1>1, <1>5, PutRecords DEF Replaces
<1> HIDE DEF new
<1>7. LET u == [w EXCEPT !.dev = new]
      IN  /\ u \in Host /\ u.dev = new
          /\ u.chan = w.chan /\ u.used = w.used /\ u.sdp = w.sdp
          /\ u.client = w.client /\ u.asking = w.asking
  BY <1>1, <1>3, Fields, Zenon
<1> HIDE DEF v
<1>8. /\ v \in Host /\ v.dev = new
      /\ v.chan = w.chan /\ v.used = w.used /\ v.sdp = w.sdp
      /\ v.client = w.client
  BY <1>4, <1>7, Zenon
<1>9. Inv(v, L) /\ v.dev[s] = r
  BY <1>3, <1>6, <1>8 DEF Inv
<1> QED
  BY <1>8, <1>9 DEF v

(* Fields that Inv does not speak of beyond their types. *)
LEMMA Aside ==
    ASSUME NEW w, NEW L, Inv(w, L),
           NEW v \in Host, v.dev = w.dev, v.chan = w.chan, v.used = w.used
    PROVE  Inv(v, L)
BY DEF Inv

LEMMA FreeIs == /\ Free \in Record /\ Free.addr = NoAddr /\ Clean(Free) /\ Free.state = "none"
                /\ Free.handle = NoAddr /\ ~Free.timer
                /\ \A L : Good(Free, L)
                /\ \A chan : Owns(Free, chan)
<1>1. /\ Free \in Record /\ Free.addr = NoAddr /\ Clean(Free) /\ Free.state = "none"
      /\ Free.handle = NoAddr /\ ~Free.timer
  BY DEF Free, Record, Clean, None, BeforeReady
<1> QED
  BY <1>1 DEF Good, Owns, Clean

(* uni_hid_device_disconnect() and uni_hid_device_delete() keep the books. *)
LEMMA ForgetKeeps ==
    ASSUME NEW w, NEW L, Inv(w, L), NEW s \in Slot
    PROVE  /\ Inv(Forget(w, s), L)
           /\ Forget(w, s).dev = [w.dev EXCEPT ![s] = Free]
           /\ Forget(w, s).chan = w.chan
<1> DEFINE new == [w.dev EXCEPT ![s] = Free]
           fewer == IF w.dev[s].connected /\ w.dev[s].seat = "held" THEN w.used - 1 ELSE w.used
           v == [w EXCEPT !.dev = new]
<1>1. w \in Host /\ Records(w.dev, w.chan, w.used, L)
  BY DEF Inv
<1>2. Free \in Record /\ w.dev \in [Slot -> Record] /\ w.dev[s] \in Record
  BY <1>1, FreeIs DEF Records
<1>3. new \in [Slot -> Record] /\ new[s] = Free
  BY <1>2
<1>4. Records(new, w.chan, w.used, L)
  BY <1>1, FreeIs, PutRecords DEF Clean
<1>5. fewer \in 0 .. MAX_DEVICES /\ Cardinality(Held(new)) <= fewer
  <2>1. Held(new) = Held(w.dev) \ {s}
    BY <1>2, <1>3, FreeIs DEF Held, Clean
  <2>2. IsFiniteSet(Held(w.dev))
    BY Consts, FS_Subset DEF Held
  <2>3. /\ Cardinality(Held(w.dev)) \in Nat
        /\ Cardinality(Held(new)) = IF s \in Held(w.dev) THEN Cardinality(Held(w.dev)) - 1
                                                        ELSE Cardinality(Held(w.dev))
        /\ Cardinality(Held(new)) \in Nat
    BY <2>1, <2>2, FS_RemoveElement, FS_CardinalityType
  <2>4. s \in Held(w.dev) <=> w.dev[s].connected /\ w.dev[s].seat = "held"
    BY <1>1 DEF Held, Records, Good
  <2>5. w.used \in 0 .. MAX_DEVICES /\ Cardinality(Held(w.dev)) <= w.used
    BY <1>1 DEF Records
  <2> HIDE DEF new
  <2>6. CASE s \in Held(w.dev)
    <3>1. fewer = w.used - 1
      BY <2>4, <2>6
    <3> QED
      BY <2>3, <2>5, <2>6, <3>1, BrEdrAssumption
  <2>7. CASE s \notin Held(w.dev)
    <3>1. fewer = w.used
      BY <2>4, <2>7
    <3> QED
      BY <2>3, <2>5, <2>7, <3>1
  <2> QED
    BY <2>6, <2>7
<1>6. Forget(w, s) = [v EXCEPT !.used = fewer]
  BY <1>1 DEF Forget, Host
<1> HIDE DEF new, fewer
<1>7. v \in Host /\ v.dev = new /\ v.chan = w.chan
  BY <1>1, <1>3, Fields, Zenon
<1> HIDE DEF v
<1>8. LET u == [v EXCEPT !.used = fewer]
      IN  u \in Host /\ u.used = fewer /\ u.dev = v.dev /\ u.chan = v.chan
  BY <1>5, <1>7, Fields, Zenon
<1>9. /\ Forget(w, s) \in Host /\ Forget(w, s).used = fewer
      /\ Forget(w, s).dev = new /\ Forget(w, s).chan = w.chan
  BY <1>6, <1>7, <1>8
<1>10. Records(new, w.chan, fewer, L)
  BY <1>4, <1>5 DEF Records
<1> QED
  BY <1>9, <1>10 DEF Inv, new

LEMMA ForgetInv ==
    ASSUME NEW w, NEW L, Inv(w, L), NEW s \in Slot
    PROVE  Inv(Forget(w, s), L)
BY ForgetKeeps

(* What a write must leave alone for the record to stay good. *)
Keeps(r, d) == /\ r.addr = d.addr /\ r.handle = d.handle
               /\ r.control = d.control /\ r.interrupt = d.interrupt
               /\ r.seat = d.seat /\ r.connected = d.connected /\ r.timer = d.timer

LEMMA KeepsReplaces ==
    ASSUME NEW L, NEW chan, NEW d, NEW r \in Record, Good(d, L), Owns(d, chan), Keeps(r, d),
           r.state = "ready" => d.state = "ready",
           d.addr = NoAddr => Clean(r)
    PROVE  Replaces(r, d, chan, L)
<1>1. Good(r, L)
  BY DEF Good, Keeps
<1>2. Owns(r, chan)
  BY DEF Owns, Keeps
<1> QED
  BY <1>1, <1>2 DEF Replaces, Keeps

(* The ways a handler writes a record. *)
LEMMA Writes ==
    ASSUME NEW L, NEW chan, NEW d \in Record, Good(d, L), Owns(d, chan)
    PROVE  /\ \A x \in BeforeReady \cup {"pending_ready"} :
                Replaces([d EXCEPT !.state = x], d, chan, L)
           /\ Replaces([d EXCEPT !.name_timer = FALSE], d, chan, L)
<1>1. ASSUME NEW x \in BeforeReady \cup {"pending_ready"}
      PROVE  Replaces([d EXCEPT !.state = x], d, chan, L)
  <2> DEFINE r == [d EXCEPT !.state = x]
  <2>1. r \in Record /\ Keeps(r, d) /\ r.state = x
    BY DEF Record, Keeps
  <2>2. /\ r.name = d.name /\ r.sdp_query_type = d.sdp_query_type
        /\ r.incoming = d.incoming /\ r.name_timer = d.name_timer
    BY DEF Record
  <2> HIDE DEF r
  <2>3. x # "ready"
    BY DEF BeforeReady
  <2>4. Clean(d) => Clean(r)
    BY <2>1, <2>2 DEF Keeps, Clean
  <2>5. Replaces(r, d, chan, L)
    BY <2>1, <2>3, <2>4, KeepsReplaces DEF Good
  <2> QED
    BY <2>5 DEF r
<1>2. Replaces([d EXCEPT !.name_timer = FALSE], d, chan, L)
  <2> DEFINE r == [d EXCEPT !.name_timer = FALSE]
  <2>1. r \in Record /\ Keeps(r, d) /\ r.state = d.state
    BY DEF Record, Keeps
  <2>2. /\ r.name = d.name /\ r.sdp_query_type = d.sdp_query_type
        /\ r.incoming = d.incoming /\ ~r.name_timer
    BY DEF Record
  <2> HIDE DEF r
  <2>3. Clean(d) => Clean(r)
    BY <2>1, <2>2 DEF Keeps, Clean
  <2>4. Replaces(r, d, chan, L)
    BY <2>1, <2>3, KeepsReplaces DEF Good
  <2> QED
    BY <2>4 DEF r
<1> QED
  BY <1>1, <1>2, Zenon

(* More ways, for a record in use. *)
LEMMA WritesInUse ==
    ASSUME NEW L, NEW chan, NEW d \in Record, Good(d, L), Owns(d, chan), d.addr # NoAddr
    PROVE  /\ Replaces([d EXCEPT !.name_timer = TRUE], d, chan, L)
           /\ \A n \in NameKinds \cup {"none"} : Replaces([d EXCEPT !.name = n], d, chan, L)
           /\ \A q \in {"before", "not_needed"} :
                Replaces([d EXCEPT !.sdp_query_type = q], d, chan, L)
           /\ Replaces([d EXCEPT !.incoming = TRUE], d, chan, L)
<1>1. ASSUME NEW r \in Record, Keeps(r, d), r.state = d.state
      PROVE  Replaces(r, d, chan, L)
  BY <1>1, KeepsReplaces
<1>2. LET r == [d EXCEPT !.name_timer = TRUE] IN r \in Record /\ Keeps(r, d) /\ r.state = d.state
  BY DEF Record, Keeps
<1>3. ASSUME NEW n \in NameKinds \cup {"none"}
      PROVE  LET r == [d EXCEPT !.name = n] IN r \in Record /\ Keeps(r, d) /\ r.state = d.state
  BY DEF Record, Keeps
<1>4. ASSUME NEW q \in {"before", "not_needed"}
      PROVE  LET r == [d EXCEPT !.sdp_query_type = q]
             IN  r \in Record /\ Keeps(r, d) /\ r.state = d.state
  BY DEF Record, Keeps
<1>5. LET r == [d EXCEPT !.incoming = TRUE] IN r \in Record /\ Keeps(r, d) /\ r.state = d.state
  BY DEF Record, Keeps
<1> QED
  BY <1>1, <1>2, <1>3, <1>4, <1>5, Zenon

(* One write after another. *)
LEMMA Then ==
    ASSUME NEW L, NEW chan, NEW d, NEW e, NEW f,
           Replaces(e, d, chan, L), Replaces(f, e, chan, L)
    PROVE  Replaces(f, d, chan, L)
BY DEF Replaces

LEMMA WritesTwo ==
    ASSUME NEW L, NEW chan, NEW d \in Record, Good(d, L), Owns(d, chan), d.addr # NoAddr
    PROVE  /\ Replaces([d EXCEPT !.state = "name_inquired", !.name_timer = TRUE], d, chan, L)
           /\ Replaces([d EXCEPT !.sdp_query_type = "not_needed", !.state = "hid_fetched"],
                       d, chan, L)
<1> DEFINE e == [d EXCEPT !.state = "name_inquired"]
           f == [d EXCEPT !.sdp_query_type = "not_needed"]
<1>1. Replaces(e, d, chan, L)
  BY Writes DEF BeforeReady
<1>2. Replaces(f, d, chan, L)
  BY WritesInUse
<1>3. /\ e \in Record /\ Good(e, L) /\ Owns(e, chan) /\ e.addr # NoAddr
      /\ f \in Record /\ Good(f, L) /\ Owns(f, chan)
  BY <1>1, <1>2, Zenon DEF Replaces
<1> HIDE DEF e, f
<1>4. Replaces([e EXCEPT !.name_timer = TRUE], e, chan, L)
  BY <1>3, WritesInUse
<1>5. Replaces([f EXCEPT !.state = "hid_fetched"], f, chan, L)
  BY <1>3, Writes DEF BeforeReady
<1>6. /\ Replaces([e EXCEPT !.name_timer = TRUE], d, chan, L)
      /\ Replaces([f EXCEPT !.state = "hid_fetched"], d, chan, L)
  BY <1>1, <1>2, <1>4, <1>5, Then
<1> QED
  BY <1>6 DEF e, f

LEMMA Parts ==
    ASSUME NEW u \in Host, NEW dev, NEW chan, NEW used, NEW L,
           u.dev = dev, u.chan = chan, u.used = used, Records(dev, chan, used, L)
    PROVE  Inv(u, L)
BY DEF Inv

LEMMA AtSlot ==
    ASSUME NEW w, NEW L, Inv(w, L), NEW s \in Slot
    PROVE  /\ w \in Host /\ w.dev \in [Slot -> Record] /\ w.dev[s] \in Record
           /\ Good(w.dev[s], L) /\ Owns(w.dev[s], w.chan)
BY DEF Inv, Records

-----------------------------------------------------------------------------
(* A gamepad takes its seat. *)
LEMMA SeatRecords ==
    ASSUME NEW dev, NEW chan, NEW used, NEW L, Records(dev, chan, used, L),
           NEW s \in Slot, NEW r \in Record, Good(r, L), Owns(r, chan),
           r.addr = dev[s].addr, used # MAX_DEVICES
    PROVE  Records([dev EXCEPT ![s] = r], chan, used + 1, L)
<1> DEFINE new == [dev EXCEPT ![s] = r]
<1>1. dev \in [Slot -> Record]
  BY DEF Records
<1>2. /\ new \in [Slot -> Record] /\ new[s] = r
      /\ \A t \in Slot : t # s => new[t] = dev[t]
  BY <1>1
<1> HIDE DEF new
<1>3. Held(new) \subseteq Held(dev) \cup {s}
  BY <1>2 DEF Held
<1>4. IsFiniteSet(Held(dev))
  BY Consts, FS_Subset DEF Held
<1>5. Cardinality(Held(new)) <= used + 1
  <2>1. /\ IsFiniteSet(Held(dev) \cup {s})
        /\ Cardinality(Held(dev) \cup {s}) <= Cardinality(Held(dev)) + 1
        /\ Cardinality(Held(dev) \cup {s}) \in Nat /\ Cardinality(Held(dev)) \in Nat
    <3>1. /\ IsFiniteSet(Held(dev) \cup {s})
          /\ Cardinality(Held(dev) \cup {s}) =
               IF s \in Held(dev) THEN Cardinality(Held(dev)) ELSE Cardinality(Held(dev)) + 1
      BY <1>4, FS_AddElement, Zenon
    <3>2. Cardinality(Held(dev)) \in Nat
      BY <1>4, FS_CardinalityType
    <3> QED
      BY <3>1, <3>2
  <2>2. /\ Cardinality(Held(new)) <= Cardinality(Held(dev) \cup {s})
        /\ Cardinality(Held(new)) \in Nat
    BY <1>3, <2>1, FS_Subset, FS_CardinalityType
  <2>3. used \in Nat /\ Cardinality(Held(dev)) <= used
    BY BrEdrAssumption DEF Records
  <2> QED
    BY <2>1, <2>2, <2>3
<1>6. \A t \in Slot : Good(new[t], L) /\ Owns(new[t], chan)
  BY <1>2 DEF Records
<1>7. \A t, u \in Slot : t # u /\ new[t].addr # NoAddr => new[t].addr # new[u].addr
  BY <1>2 DEF Records
<1>8. /\ chan \in [Cid -> Channel]
      /\ used + 1 \in 0 .. MAX_DEVICES
      /\ \A c \in Cid : chan[c].st # "free" => chan[c].addr \in Addr
  BY BrEdrAssumption DEF Records
<1>9. Records(new, chan, used + 1, L)
  BY <1>2, <1>5, <1>6, <1>7, <1>8 DEF Records
<1> QED
  BY <1>9 DEF new

(* The record of a gamepad that is ready. *)
Ready(d) == [d EXCEPT !.timer = FALSE, !.seat = "held", !.state = "ready"]

LEMMA ReadyIs ==
    ASSUME NEW L, NEW chan, NEW d \in Record, Good(d, L), Owns(d, chan), d.seat = "none"
    PROVE  /\ Ready(d) \in Record /\ Good(Ready(d), L) /\ Owns(Ready(d), chan)
           /\ Ready(d).addr = d.addr
<1> DEFINE a == [d EXCEPT !.timer = FALSE]
           b == [a EXCEPT !.seat = "held"]
           c == [b EXCEPT !.state = "ready"]
           Core(r) == /\ r \in Record /\ r.addr = d.addr /\ r.handle = d.handle
                      /\ r.control = d.control /\ r.interrupt = d.interrupt
                      /\ r.connected
<1>1. d.connected /\ d.addr # NoAddr
  BY DEF Good, Clean
<1>2. Core(a)
  BY <1>1 DEF Record
<1>3. Core(b) /\ b.seat = "held"
  <2> HIDE DEF a
  <2> QED BY <1>2 DEF Record
<1>4. Core(c) /\ c.seat = "held"
  <2> HIDE DEF b
  <2> QED BY <1>3 DEF Record
<1>5. Ready(d) = c
  BY DEF Ready
<1> HIDE DEF c
<1>6. Good(c, L)
  BY <1>1, <1>4 DEF Good
<1>7. Owns(c, chan)
  BY <1>4 DEF Owns
<1> QED
  BY <1>4, <1>5, <1>6, <1>7

(* Two writes to one record are one. *)
LEMMA Again ==
    ASSUME NEW w \in Host, NEW f, NEW g
    PROVE  /\ [w EXCEPT !.dev = f].dev = f /\ [w EXCEPT !.dev = f].used = w.used
           /\ [[w EXCEPT !.dev = f] EXCEPT !.dev = g] = [w EXCEPT !.dev = g]
BY DEF Host

LEMMA AgainAt ==
    ASSUME NEW dev \in [Slot -> Record], NEW s \in Slot, NEW x, NEW y
    PROVE  /\ [dev EXCEPT ![s] = x][s] = x
           /\ [[dev EXCEPT ![s] = x] EXCEPT ![s] = y] = [dev EXCEPT ![s] = y]
OBVIOUS

(* uni_hid_device_set_ready_complete() *)
LEMMA SetReadyCompleteKeeps ==
    ASSUME NEW w, NEW L, Inv(w, L), NEW s \in Slot
    PROVE  Inv(set_ready_complete(w, s), L)
<1>1. CASE w.dev[s].state = "ready"
  BY <1>1 DEF set_ready_complete
<1>2. CASE w.dev[s].state # "ready" /\ (w.used = MAX_DEVICES \/ w.dev[s].seat # "none")
  <2>1. set_ready_complete(w, s) = Forget(w, s)
    BY <1>2 DEF set_ready_complete
  <2> QED
    BY <2>1, ForgetInv
<1>3. CASE w.dev[s].state # "ready" /\ w.used # MAX_DEVICES /\ w.dev[s].seat = "none"
  <2> DEFINE d == w.dev[s]
             new == [w.dev EXCEPT ![s] = Ready(d)]
             v == [w EXCEPT !.dev = new]
  <2>1. /\ w \in Host /\ w.dev \in [Slot -> Record] /\ d \in Record
        /\ Good(d, L) /\ Owns(d, w.chan)
    BY AtSlot
  <2>2. /\ Ready(d) \in Record /\ Good(Ready(d), L) /\ Owns(Ready(d), w.chan)
        /\ Ready(d).addr = d.addr
    BY <1>3, <2>1, ReadyIs
  <2>3. Records(new, w.chan, w.used + 1, L)
    BY <1>3, <2>2, SeatRecords DEF Inv
  <2>4. set_ready_complete(w, s) = [v EXCEPT !.used = w.used + 1]
    <3>1. set_ready_complete(w, s)
          = [w EXCEPT !.dev[s].timer = FALSE, !.dev[s].seat = "held",
                      !.dev[s].state = "ready", !.used = @ + 1]
      BY <1>3, Zenon DEF set_ready_complete
    <3> DEFINE t == [d EXCEPT !.timer = FALSE]
               h == [t EXCEPT !.seat = "held"]
               f == [w.dev EXCEPT ![s] = t]
               g == [w.dev EXCEPT ![s] = h]
               a == [w EXCEPT !.dev = f]
               b == [w EXCEPT !.dev = g]
    <3>2. set_ready_complete(w, s)
          = [[[a EXCEPT !.dev[s].seat = "held"] EXCEPT !.dev[s].state = "ready"]
                EXCEPT !.used = @ + 1]
      BY <3>1, Zenon
    <3>3. [a EXCEPT !.dev[s].seat = "held"] = b
      <4>1. f[s] = t /\ [f EXCEPT ![s] = h] = g
        BY <2>1, AgainAt
      <4>2. a.dev = f /\ [a EXCEPT !.dev = g] = b
        <5> HIDE DEF f, g
        <5> QED BY <2>1, Again
      <4> HIDE DEF a, b, f, g, t
      <4>3. [a EXCEPT !.dev[s].seat = "held"]
            = [a EXCEPT !.dev = [a.dev EXCEPT ![s] = [a.dev[s] EXCEPT !.seat = "held"]]]
        BY Zenon
      <4> QED
        BY <4>1, <4>2, <4>3, Zenon DEF h
    <3>4. [b EXCEPT !.dev[s].state = "ready"] = v
      <4>1. g[s] = h /\ [g EXCEPT ![s] = Ready(d)] = new
        BY <2>1, AgainAt
      <4>2. b.dev = g /\ [b EXCEPT !.dev = new] = v
        <5> HIDE DEF g, new
        <5> QED BY <2>1, Again
      <4>3. [h EXCEPT !.state = "ready"] = Ready(d)
        BY DEF Ready
      <4> HIDE DEF b, g, h, v, new
      <4>4. [b EXCEPT !.dev[s].state = "ready"]
            = [b EXCEPT !.dev = [b.dev EXCEPT ![s] = [b.dev[s] EXCEPT !.state = "ready"]]]
        BY Zenon
      <4> QED
        BY <4>1, <4>2, <4>3, <4>4, Zenon
    <3>5. v.used = w.used
      <4> HIDE DEF new
      <4> QED BY <2>1, Again
    <3> HIDE DEF v, a, b
    <3> QED
      BY <3>2, <3>3, <3>4, <3>5, Zenon
  <2>5. new \in [Slot -> Record] /\ w.used + 1 \in 0 .. MAX_DEVICES
    BY <2>3 DEF Records
  <2> HIDE DEF new
  <2>6. v \in Host /\ v.dev = new /\ v.chan = w.chan
    BY <2>1, <2>5, Fields, Zenon
  <2> HIDE DEF v
  <2>7. LET u == [v EXCEPT !.used = w.used + 1]
        IN  u \in Host /\ u.used = w.used + 1 /\ u.dev = v.dev /\ u.chan = v.chan
    BY <2>5, <2>6, Fields, Zenon
  <2>8. LET u == set_ready_complete(w, s)
        IN  u \in Host /\ u.used = w.used + 1 /\ u.dev = new /\ u.chan = w.chan
    BY <2>4, <2>6, <2>7, Zenon
  <2> QED
    BY <2>3, <2>8, Parts
<1> QED
  BY <1>1, <1>2, <1>3

(* uni_hid_device_set_ready() *)
LEMMA SetReadyKeeps ==
    ASSUME NEW w, NEW L, Inv(w, L), NEW s \in Slot, NEW now
    PROVE  Inv(set_ready(w, s, now), L)
<1> DEFINE v == [w EXCEPT !.dev[s].state = "pending_ready"]
<1>1. Replaces([w.dev[s] EXCEPT !.state = "pending_ready"], w.dev[s], w.chan, L)
  BY AtSlot, Writes
<1>2. Inv(v, L)
  BY <1>1, Put
<1>3. Inv(set_ready_complete(v, s), L)
  BY <1>2, SetReadyCompleteKeeps
<1> QED
  BY <1>2, <1>3 DEF set_ready

-----------------------------------------------------------------------------
(* A channel is taken, opened or freed: if a record holds it, it stays the *)
(* same channel.                                                           *)
Becomes(ch, c, dev, chan) ==
    /\ ch \in Channel /\ (ch.st # "free" => ch.addr \in Addr)
    /\ \A s \in Slot : c \in {dev[s].control, dev[s].interrupt}
         => ch.st # "free" /\ ch.addr = chan[c].addr /\ ch.psm = chan[c].psm

LEMMA ChannelRecords ==
    ASSUME NEW dev, NEW chan, NEW used, NEW L, Records(dev, chan, used, L),
           NEW c \in Cid, NEW ch, Becomes(ch, c, dev, chan)
    PROVE  Records(dev, [chan EXCEPT ![c] = ch], used, L)
<1> USE DEF Becomes
<1> DEFINE new == [chan EXCEPT ![c] = ch]
<1>1. chan \in [Cid -> Channel] /\ dev \in [Slot -> Record]
  BY DEF Records
<1>2. /\ new \in [Cid -> Channel] /\ new[c] = ch
      /\ \A x \in Cid : x # c => new[x] = chan[x]
  BY <1>1
<1> HIDE DEF new
<1>3. ASSUME NEW s \in Slot PROVE Owns(dev[s], new)
  <2> DEFINE d == dev[s]
  <2>1. Owns(d, chan) /\ d \in Record
    BY <1>1 DEF Records
  <2>2. d.control \in Cid \cup {None} /\ d.interrupt \in Cid \cup {None}
    BY <2>1 DEF Record
  <2>3. ASSUME NEW a, NEW psm, Live(chan[c], a, psm), ch.st # "free",
               ch.addr = chan[c].addr, ch.psm = chan[c].psm
        PROVE  Live(ch, a, psm)
    BY <2>3 DEF Live, Channel
  <2>4. ASSUME d.control # None PROVE Live(new[d.control], d.addr, "control")
    <3>1. Live(chan[d.control], d.addr, "control")
      BY <2>1, <2>4 DEF Owns
    <3>2. CASE d.control = c
      BY <1>2, <2>3, <3>1, <3>2
    <3>3. CASE d.control # c
      BY <1>2, <2>2, <2>4, <3>1, <3>3
    <3> QED
      BY <3>2, <3>3
  <2>5. ASSUME d.interrupt # None PROVE Live(new[d.interrupt], d.addr, "interrupt")
    <3>1. Live(chan[d.interrupt], d.addr, "interrupt")
      BY <2>1, <2>5 DEF Owns
    <3>2. CASE d.interrupt = c
      BY <1>2, <2>3, <3>1, <3>2
    <3>3. CASE d.interrupt # c
      BY <1>2, <2>2, <2>5, <3>1, <3>3
    <3> QED
      BY <3>2, <3>3
  <2> QED
    BY <2>4, <2>5 DEF Owns
<1>4. Records(dev, new, used, L)
  BY <1>2, <1>3 DEF Records
<1> QED
  BY <1>4 DEF new

LEMMA ChannelKeeps ==
    ASSUME NEW w, NEW L, Inv(w, L),
           NEW c \in Cid, NEW ch, Becomes(ch, c, w.dev, w.chan)
    PROVE  LET v == [w EXCEPT !.chan[c] = ch]
           IN  /\ Inv(v, L)
               /\ v.dev = w.dev /\ v.chan = [w.chan EXCEPT ![c] = ch]
               /\ v.used = w.used /\ v.sdp = w.sdp /\ v.client = w.client
<1> DEFINE new == [w.chan EXCEPT ![c] = ch]
           v == [w EXCEPT !.chan[c] = ch]
<1>1. w \in Host /\ Records(w.dev, w.chan, w.used, L)
  BY DEF Inv
<1>2. Records(w.dev, new, w.used, L)
  BY <1>1, ChannelRecords
<1>3. new \in [Cid -> Channel]
  BY <1>2 DEF Records
<1>4. v = [w EXCEPT !.chan = new]
  OBVIOUS
<1> HIDE DEF new
<1>5. LET u == [w EXCEPT !.chan = new]
      IN  /\ u \in Host /\ u.chan = new
          /\ u.dev = w.dev /\ u.used = w.used /\ u.sdp = w.sdp
          /\ u.client = w.client /\ u.asking = w.asking
  BY <1>1, <1>3, Fields, Zenon
<1> HIDE DEF v
<1>6. /\ v \in Host /\ v.chan = new
      /\ v.dev = w.dev /\ v.used = w.used /\ v.sdp = w.sdp /\ v.client = w.client
  BY <1>4, <1>5, Zenon
<1>7. Inv(v, L)
  BY <1>2, <1>6, Parts
<1> QED
  BY <1>6, <1>7 DEF new, v

LEMMA ChannelInv ==
    ASSUME NEW w, NEW L, Inv(w, L),
           NEW c \in Cid, NEW ch, Becomes(ch, c, w.dev, w.chan)
    PROVE  Inv([w EXCEPT !.chan[c] = ch], L)
BY ChannelKeeps

LEMMA ChannelIs ==
    ASSUME NEW w \in Host, NEW c, NEW ch
    PROVE  /\ [w EXCEPT !.chan[c] = ch].dev = w.dev
           /\ [w EXCEPT !.chan[c] = ch].chan = [w.chan EXCEPT ![c] = ch]
BY DEF Host

(* A record takes note of a channel of its own. *)
LEMMA WritesChannel ==
    ASSUME NEW L, NEW chan, NEW d \in Record, Good(d, L), Owns(d, chan), d.addr # NoAddr,
           NEW c \in Cid, NEW x \in BeforeReady
    PROVE  /\ Live(chan[c], d.addr, "control") =>
                Replaces([d EXCEPT !.control = c, !.state = x], d, chan, L)
           /\ Live(chan[c], d.addr, "interrupt") =>
                Replaces([d EXCEPT !.interrupt = c, !.state = x], d, chan, L)
           /\ Live(chan[c], d.addr, "interrupt") =>
                Replaces([d EXCEPT !.interrupt = c], d, chan, L)
<1> DEFINE e == [d EXCEPT !.control = c]
           f == [d EXCEPT !.interrupt = c]
<1>1. ASSUME Live(chan[c], d.addr, "control") PROVE Replaces(e, d, chan, L)
  <2>1. /\ e \in Record /\ Good(e, L) /\ e.addr = d.addr /\ e.seat = d.seat
        /\ e.control = c /\ e.interrupt = d.interrupt
    BY DEF Record, Good, Clean
  <2> QED
    BY <1>1, <2>1 DEF Replaces, Owns
<1>2. ASSUME Live(chan[c], d.addr, "interrupt") PROVE Replaces(f, d, chan, L)
  <2>1. /\ f \in Record /\ Good(f, L) /\ f.addr = d.addr /\ f.seat = d.seat
        /\ f.interrupt = c /\ f.control = d.control
    BY DEF Record, Good, Clean
  <2> QED
    BY <1>2, <2>1 DEF Replaces, Owns
<1> HIDE DEF e, f
<1>3. ASSUME NEW r, Replaces(r, d, chan, L)
      PROVE  Replaces([r EXCEPT !.state = x], d, chan, L)
  <2>1. r \in Record /\ Good(r, L) /\ Owns(r, chan)
    BY <1>3 DEF Replaces
  <2>2. Replaces([r EXCEPT !.state = x], r, chan, L)
    BY <2>1, Writes
  <2> QED
    BY <1>3, <2>2, Then
<1>4. /\ Live(chan[c], d.addr, "control") => Replaces([e EXCEPT !.state = x], d, chan, L)
      /\ Live(chan[c], d.addr, "interrupt") => Replaces([f EXCEPT !.state = x], d, chan, L)
  BY <1>1, <1>2, <1>3
<1> QED
  BY <1>2, <1>4 DEF e, f

(* l2cap_create_control_connection(), l2cap_create_interrupt_connection() *)
LEMMA CreateChannelKeeps ==
    ASSUME NEW w, NEW L, Inv(w, L), NEW s \in Slot, w.dev[s].addr # NoAddr,
           NEW psm \in Psm
    PROVE  Inv(CreateChannel(w, s, psm), L)
<1> DEFINE room == {c \in Cid : w.chan[c].st = "free"}
           d == w.dev[s]
           c == Min(room)
           ch == [addr |-> d.addr, psm |-> psm, st |-> IF d.addr \in link THEN "asked" ELSE "wait"]
           v == [w EXCEPT !.chan[c] = ch]
           r == IF psm = "control"
                THEN [d EXCEPT !.control = c, !.state = "control_requested"]
                ELSE [d EXCEPT !.interrupt = c, !.state = "interrupt_requested"]
<1>1. CASE room = {}
  BY <1>1 DEF CreateChannel
<1>2. CASE room # {}
  <2>1. /\ w \in Host /\ w.dev \in [Slot -> Record] /\ d \in Record
        /\ Good(d, L) /\ Owns(d, w.chan)
    BY AtSlot
  <2>2. c \in Cid /\ w.chan[c].st = "free"
    BY <1>2, MinIn, Consts
  <2>3. d.addr \in Addr
    BY <2>1 DEF Record
  <2>4. /\ ch \in Channel /\ ch.st # "free" /\ ch.addr = d.addr
        /\ Live(ch, d.addr, psm)
    BY <2>3 DEF Channel, Psm, Live
  <2> HIDE DEF c, ch
  <2>5. \A t \in Slot : c \notin {w.dev[t].control, w.dev[t].interrupt}
    <3> SUFFICES ASSUME NEW t \in Slot, c \in {w.dev[t].control, w.dev[t].interrupt}
                 PROVE  FALSE
      OBVIOUS
    <3>1. Owns(w.dev[t], w.chan) /\ c # None
      BY <2>2, AtSlot, Consts
    <3>2. \E a, q : Live(w.chan[c], a, q)
      BY <3>1 DEF Owns
    <3> QED
      BY <2>2, <3>2 DEF Live
  <2>6. /\ Inv(v, L)
        /\ v.dev = w.dev /\ v.chan = [w.chan EXCEPT ![c] = ch]
    <3>1. Becomes(ch, c, w.dev, w.chan)
      BY <2>3, <2>4, <2>5 DEF Becomes
    <3>2. Inv(v, L)
      BY <2>2, <3>1, ChannelInv
    <3>3. v.dev = w.dev /\ v.chan = [w.chan EXCEPT ![c] = ch]
      BY <2>1, ChannelIs
    <3> QED
      BY <3>2, <3>3
  <2>7. Live(v.chan[c], d.addr, psm)
    BY <2>2, <2>4, <2>6 DEF Inv, Host, Records
  <2>8. CreateChannel(w, s, psm) = [v EXCEPT !.dev[s] = r]
    <3>1. w.dev[s] = v.dev[s]
      BY <2>6
    <3> QED
      BY <1>2, <2>1 DEF CreateChannel, Host, c, ch
  <2> HIDE DEF v
  <2>9. Replaces(r, d, v.chan, L)
    <3>1. Good(v.dev[s], L) /\ Owns(v.dev[s], v.chan)
      BY <2>6, AtSlot
    <3>2. Owns(d, v.chan)
      BY <2>6, <3>1
    <3>3. {"control_requested", "interrupt_requested"} \subseteq BeforeReady
      BY DEF BeforeReady
    <3>4. CASE psm = "control"
      BY <2>1, <2>2, <2>7, <3>2, <3>3, <3>4, WritesChannel
    <3>5. CASE psm = "interrupt"
      BY <2>1, <2>2, <2>7, <3>2, <3>3, <3>5, WritesChannel
    <3> QED
      BY <3>4, <3>5 DEF Psm
  <2> HIDE DEF r
  <2>10. Replaces(r, v.dev[s], v.chan, L)
    BY <2>6, <2>9
  <2>11. Inv([v EXCEPT !.dev[s] = r], L)
    BY <2>6, <2>10, Put
  <2> QED
    BY <2>8, <2>11
<1> QED
  BY <1>1, <1>2

-----------------------------------------------------------------------------
(* Fields of the host that Inv does not speak of. *)
Same(v, w) == v.dev = w.dev /\ v.chan = w.chan /\ v.used = w.used

LEMMA Asides ==
    ASSUME NEW w \in Host
    PROVE  /\ \A x \in Slot \cup {None} :
                [w EXCEPT !.sdp = x] \in Host /\ Same([w EXCEPT !.sdp = x], w)
           /\ \A x \in BOOLEAN :
                [w EXCEPT !.sdp_timer = x] \in Host /\ Same([w EXCEPT !.sdp_timer = x], w)
           /\ \A x \in [query : {"idle", "pid", "hid"}, addr : Addr \cup {NoAddr}] :
                [w EXCEPT !.client = x] \in Host /\ Same([w EXCEPT !.client = x], w)
           /\ \A x \in Addr \cup {NoAddr} :
                [w EXCEPT !.asking = x] \in Host /\ Same([w EXCEPT !.asking = x], w)
<1>1. ASSUME NEW x \in Slot \cup {None}
      PROVE  [w EXCEPT !.sdp = x] \in Host /\ Same([w EXCEPT !.sdp = x], w)
  BY DEF Host, Same
<1>2. ASSUME NEW x \in BOOLEAN
      PROVE  [w EXCEPT !.sdp_timer = x] \in Host /\ Same([w EXCEPT !.sdp_timer = x], w)
  BY DEF Host, Same
<1>3. ASSUME NEW x \in [query : {"idle", "pid", "hid"}, addr : Addr \cup {NoAddr}]
      PROVE  [w EXCEPT !.client = x] \in Host /\ Same([w EXCEPT !.client = x], w)
  BY DEF Host, Same
<1>4. ASSUME NEW x \in Addr \cup {NoAddr}
      PROVE  [w EXCEPT !.asking = x] \in Host /\ Same([w EXCEPT !.asking = x], w)
  BY DEF Host, Same
<1> QED
  BY <1>1, <1>2, <1>3, <1>4, Zenon

LEMMA AsideInv ==
    ASSUME NEW w, NEW L, Inv(w, L), NEW v \in Host, Same(v, w)
    PROVE  Inv(v, L)
BY DEF Inv, Same

(* The same, one field at a time. *)
LEMMA Beside ==
    ASSUME NEW w, NEW L, Inv(w, L)
    PROVE  /\ \A x \in Slot \cup {None} :
                Inv([w EXCEPT !.sdp = x], L) /\ Same([w EXCEPT !.sdp = x], w)
           /\ \A x \in BOOLEAN :
                Inv([w EXCEPT !.sdp_timer = x], L) /\ Same([w EXCEPT !.sdp_timer = x], w)
           /\ \A x \in [query : {"idle", "pid", "hid"}, addr : Addr \cup {NoAddr}] :
                Inv([w EXCEPT !.client = x], L) /\ Same([w EXCEPT !.client = x], w)
           /\ \A x \in Addr \cup {NoAddr} :
                Inv([w EXCEPT !.asking = x], L) /\ Same([w EXCEPT !.asking = x], w)
<1>1. w \in Host
  BY DEF Inv
<1>2. \A v \in Host : Same(v, w) => Inv(v, L)
  BY AsideInv
<1> QED
  BY <1>1, <1>2, Asides, Zenon

(* A record changes state. *)
LEMMA StateInv ==
    ASSUME NEW w, NEW L, Inv(w, L), NEW s \in Slot, NEW x \in BeforeReady
    PROVE  Inv([w EXCEPT !.dev[s].state = x], L)
<1>1. Replaces([w.dev[s] EXCEPT !.state = x], w.dev[s], w.chan, L)
  BY AtSlot, Writes
<1> QED
  BY <1>1, Put

LEMMA StateIs ==
    ASSUME NEW w, NEW L, Inv(w, L), NEW s \in Slot, NEW x \in BeforeReady
    PROVE  /\ [w EXCEPT !.dev[s].state = x].dev[s].addr = w.dev[s].addr
           /\ [w EXCEPT !.dev[s].state = x].dev[s].state = x
BY AtSlot DEF Host, Record

(* uni_bt_sdp_query_start() *)
LEMMA SdpQueryStartKeeps ==
    ASSUME NEW w, NEW L, Inv(w, L), NEW s \in Slot
    PROVE  Inv(sdp_query_start(w, s), L)
<1> DEFINE a == [w EXCEPT !.sdp = s]
           b == [a EXCEPT !.sdp_timer = TRUE]
           v == [b EXCEPT !.dev[s].state = "vendor_requested"]
           q == [query |-> "pid", addr |-> w.dev[s].addr]
<1>1. Inv(a, L)
  BY Beside
<1>2. Inv(b, L)
  <2> HIDE DEF a
  <2> QED BY <1>1, Beside
<1>3. Inv(v, L)
  <2> HIDE DEF b
  <2> QED BY <1>2, StateInv DEF BeforeReady
<1>4. q \in [query : {"idle", "pid", "hid"}, addr : Addr \cup {NoAddr}]
  BY AtSlot DEF Record
<1>5. w \in Host
  BY AtSlot
<1>6. [w EXCEPT !.sdp = s, !.sdp_timer = TRUE, !.dev[s].state = "vendor_requested"] = v
  BY <1>5 DEF Host
<1> HIDE DEF v, q
<1>7. Inv([v EXCEPT !.client = q], L)
  BY <1>3, <1>4, Beside
<1>8. Inv(Forget(w, s), L) /\ Inv(Forget(v, s), L)
  BY <1>3, ForgetInv
<1>9. CASE w.sdp # None
  BY <1>8, <1>9 DEF sdp_query_start
<1>10. CASE w.sdp = None /\ w.client # Idle
  BY <1>6, <1>8, <1>10 DEF sdp_query_start
<1>11. CASE w.sdp = None /\ w.client = Idle
  BY <1>6, <1>7, <1>11 DEF sdp_query_start, q
<1> QED
  BY <1>9, <1>10, <1>11

(* process_fsm in UNI_BT_CONN_STATE_SDP_HID_DESCRIPTOR_FETCHED.  The record *)
(* may have been deleted meanwhile: then the platform declines it.          *)
LEMMA HidFetchedKeeps ==
    ASSUME NEW w, NEW L, Inv(w, L), NEW s \in Slot, NEW now
    PROVE  Inv(HidFetched(w, s, now), L)
<1>1. CASE w.dev[s].incoming \/ w.dev[s].sdp_query_type # "before"
  BY <1>1, SetReadyKeeps DEF HidFetched
<1>2. CASE ~(w.dev[s].incoming \/ w.dev[s].sdp_query_type # "before")
  <2>1. w.dev[s].addr # NoAddr
    BY <1>2, AtSlot DEF Good, Clean
  <2>2. Inv(CreateChannel(w, s, "control"), L)
    BY <2>1, CreateChannelKeeps DEF Psm
  <2> QED
    BY <1>2, <2>2 DEF HidFetched
<1> QED
  BY <1>1, <1>2

LEMMA SdpQueryEndKeeps ==
    ASSUME NEW w, NEW L, Inv(w, L), NEW s \in Slot, NEW now
    PROVE  Inv(sdp_query_end(w, s, now), L)
<1> DEFINE a == [w EXCEPT !.dev[s].state = "hid_fetched"]
           b == [a EXCEPT !.sdp = None]
           v == [b EXCEPT !.sdp_timer = FALSE]
<1>1. Inv(a, L)
  BY StateInv DEF BeforeReady
<1>2. Inv(b, L)
  <2> HIDE DEF a
  <2> QED BY <1>1, Beside
<1>3. Inv(v, L)
  <2> HIDE DEF b
  <2> QED BY <1>2, Beside
<1>4. [w EXCEPT !.dev[s].state = "hid_fetched", !.sdp = None, !.sdp_timer = FALSE] = v
  BY AtSlot DEF Host
<1> HIDE DEF v
<1>5. Inv(HidFetched(v, s, now), L)
  BY <1>3, HidFetchedKeeps
<1> QED
  BY <1>4, <1>5 DEF sdp_query_end

LEMMA SdpHidKeeps ==
    ASSUME NEW w, NEW L, Inv(w, L), NEW s \in Slot, NEW needed, NEW now
    PROVE  Inv(sdp_query_start_hid_descriptor(w, s, needed, now), L)
<1> DEFINE q == [query |-> "hid", addr |-> w.dev[s].addr]
           v == [w EXCEPT !.dev[s].state = "hid_requested"]
<1>1. Inv(v, L)
  BY StateInv DEF BeforeReady
<1>2. q \in [query : {"idle", "pid", "hid"}, addr : Addr \cup {NoAddr}]
  BY AtSlot DEF Record
<1>3. [w EXCEPT !.dev[s].state = "hid_requested", !.client = q] = [v EXCEPT !.client = q]
  BY AtSlot DEF Host
<1> HIDE DEF v, q
<1>4. Inv([v EXCEPT !.client = q], L)
  BY <1>1, <1>2, Beside
<1>5. CASE ~needed
  BY <1>5, SdpQueryEndKeeps DEF sdp_query_start_hid_descriptor
<1>6. CASE needed
  BY <1>3, <1>4, <1>6 DEF sdp_query_start_hid_descriptor, q
<1> QED
  BY <1>5, <1>6

(* process_fsm, name request *)
LEMMA RequestNameKeeps ==
    ASSUME NEW w, NEW L, Inv(w, L), NEW s \in Slot, w.dev[s].addr # NoAddr
    PROVE  Inv(RequestName(w, s), L)
<1> DEFINE r == [w.dev[s] EXCEPT !.state = "name_inquired", !.name_timer = TRUE]
           x == IF w.asking = NoAddr THEN w.dev[s].addr ELSE w.asking
           v == [w EXCEPT !.dev[s] = r]
<1>1. Replaces(r, w.dev[s], w.chan, L)
  BY AtSlot, WritesTwo
<1>2. x \in Addr \cup {NoAddr}
  BY AtSlot DEF Host, Record
<1>3. RequestName(w, s) = [v EXCEPT !.asking = x]
  BY AtSlot DEF RequestName, Host
<1> HIDE DEF r
<1>4. Inv(v, L)
  BY <1>1, Put
<1> HIDE DEF v, x
<1>5. Inv([v EXCEPT !.asking = x], L)
  BY <1>2, <1>4, Beside
<1> QED
  BY <1>3, <1>5

LEMMA PutAddr ==
    ASSUME NEW w, NEW L, Inv(w, L), NEW s \in Slot,
           NEW r, Replaces(r, w.dev[s], w.chan, L)
    PROVE  [w EXCEPT !.dev[s] = r].dev[s].addr = w.dev[s].addr
<1>1. [w EXCEPT !.dev[s] = r].dev[s] = r
  BY AtSlot DEF Host
<1> QED
  BY <1>1 DEF Replaces

(* process_fsm in UNI_BT_CONN_STATE_REMOTE_NAME_FETCHED *)
LEMMA NameFetchedKeeps ==
    ASSUME NEW w, NEW L, Inv(w, L), NEW s \in Slot, w.dev[s].addr # NoAddr, NEW now
    PROVE  Inv(NameFetched(w, s, now), L)
<1> DEFINE p == [w.dev[s] EXCEPT !.sdp_query_type = "before"]
           g == [w.dev[s] EXCEPT !.sdp_query_type = "not_needed", !.state = "hid_fetched"]
           before == [w EXCEPT !.dev[s].sdp_query_type = "before"]
           guessed == [w EXCEPT !.dev[s].sdp_query_type = "not_needed",
                                !.dev[s].state = "hid_fetched"]
           v == IF w.dev[s].name = "known" THEN guessed ELSE w
<1>1. Replaces(p, w.dev[s], w.chan, L) /\ Replaces(g, w.dev[s], w.chan, L)
  BY AtSlot, WritesInUse, WritesTwo
<1>2. guessed = [w EXCEPT !.dev[s] = g]
  BY AtSlot DEF Host
<1>3. before = [w EXCEPT !.dev[s] = p]
  OBVIOUS
<1> HIDE DEF p, g
<1>4. Inv([w EXCEPT !.dev[s] = p], L)
  BY <1>1, Put
<1>5. Inv([w EXCEPT !.dev[s] = g], L)
  BY <1>1, Put
<1>6. [w EXCEPT !.dev[s] = g].dev[s].addr = w.dev[s].addr
  BY <1>1, PutAddr
<1>7. Inv(v, L) /\ v.dev[s].addr # NoAddr
  BY <1>2, <1>5, <1>6
<1> HIDE DEF v
<1>8. Inv(sdp_query_start(before, s), L) /\ Inv(sdp_query_start(v, s), L)
  BY <1>3, <1>4, <1>7, SdpQueryStartKeeps
<1>9. Inv(CreateChannel(v, s, "control"), L)
  BY <1>7, CreateChannelKeeps DEF Psm
<1>10. Inv(set_ready(v, s, now), L)
  BY <1>7, SetReadyKeeps
<1> QED
  BY <1>8, <1>9, <1>10, Zenon DEF NameFetched, v

(* uni_bt_bredr_process_fsm() *)
LEMMA FsmKeeps ==
    ASSUME NEW w, NEW L, Inv(w, L), NEW s \in Slot, w.dev[s].addr # NoAddr, NEW now
    PROVE  Inv(Fsm(w, s, now), L)
<1>1. Inv(RequestName(w, s), L)
  BY RequestNameKeeps
<1>2. Inv(NameFetched(w, s, now), L)
  BY NameFetchedKeeps
<1>3. Inv(HidFetched(w, s, now), L)
  BY HidFetchedKeeps
<1>4. Inv(CreateChannel(w, s, "interrupt"), L)
  BY CreateChannelKeeps DEF Psm
<1>5. Inv(sdp_query_start(w, s), L)
  BY SdpQueryStartKeeps
<1>6. Inv(set_ready(w, s, now), L)
  BY SetReadyKeeps
<1> QED
  BY <1>1, <1>2, <1>3, <1>4, <1>5, <1>6, Zenon DEF Fsm

(* The answer to an SDP query *)
LEMMA QueryCompleteKeeps ==
    ASSUME NEW L, Inv(host, L), NEW needed, NEW now
    PROVE  Inv(QueryComplete(needed, now), L)
<1> DEFINE w == [host EXCEPT !.client = Idle]
           s == host.sdp
           fetched == [w EXCEPT !.dev[s].state = "vendor_fetched"]
<1>1. Idle \in [query : {"idle", "pid", "hid"}, addr : Addr \cup {NoAddr}]
  BY DEF Idle
<1>2. Inv(w, L)
  BY <1>1, Beside
<1>3. s \in Slot \cup {None}
  BY DEF Inv, Host
<1>4. QueryComplete(needed, now) =
        CASE s = None -> w
          [] s # None /\ host.client.query = "pid"
             -> sdp_query_start_hid_descriptor(fetched, s, needed, now)
          [] OTHER -> sdp_query_end(w, s, now)
  BY DEF QueryComplete
<1> HIDE DEF w, s
<1>5. ASSUME s # None PROVE Inv(sdp_query_end(w, s, now), L)
  BY <1>2, <1>3, <1>5, SdpQueryEndKeeps
<1>6. ASSUME s # None PROVE Inv(fetched, L)
  BY <1>2, <1>3, <1>6, StateInv DEF BeforeReady
<1> HIDE DEF fetched
<1>7. ASSUME s # None PROVE Inv(sdp_query_start_hid_descriptor(fetched, s, needed, now), L)
  BY <1>3, <1>6, <1>7, SdpHidKeeps
<1> QED
  BY <1>2, <1>4, <1>5, <1>7, Zenon

-----------------------------------------------------------------------------
(* A record is taken into use. *)
Fresh(r, a) == /\ r \in Record /\ r.addr = a /\ r.handle = Zero /\ r.timer
               /\ r.control = None /\ r.interrupt = None
               /\ r.seat = "zero" /\ r.state \in BeforeReady

LEMMA CreatedIs ==
    ASSUME NEW a \in Addr
    PROVE  Fresh(Created(a), a)
<1> DEFINE f == [Free EXCEPT !.addr = a, !.handle = Zero]
<1>1. Created(a) = [f EXCEPT !.timer = TRUE]
  BY DEF Created
<1>2. /\ f \in Record /\ f.addr = a /\ f.handle = Zero
      /\ f.control = None /\ f.interrupt = None
      /\ f.seat = "zero" /\ f.state \in BeforeReady
  BY FreeIs DEF Record, Clean, BeforeReady
<1> HIDE DEF f
<1> QED
  BY <1>1, <1>2 DEF Fresh, Record

LEMMA FreshIs ==
    ASSUME NEW a \in Addr, NEW r, Fresh(r, a), NEW L, NEW chan
    PROVE  r \in Record /\ Good(r, L) /\ Owns(r, chan) /\ r.addr = a /\ r.seat # "held"
<1>1. r.state # "ready" /\ a # NoAddr
  BY BrEdrAssumption DEF Fresh, BeforeReady
<1> QED
  BY <1>1 DEF Fresh, Good, Owns

LEMMA NewInv ==
    ASSUME NEW w, NEW L, Inv(w, L), NEW s \in Slot, NEW r \in Record,
           Good(r, L), Owns(r, w.chan), r.seat # "held",
           \A t \in Slot : w.dev[t].addr # r.addr
    PROVE  Inv([w EXCEPT !.dev[s] = r], L)
<1> DEFINE new == [w.dev EXCEPT ![s] = r]
           v == [w EXCEPT !.dev = new]
<1>1. w \in Host /\ Records(w.dev, w.chan, w.used, L)
  BY DEF Inv
<1>2. Records(new, w.chan, w.used, L)
  BY <1>1, PutRecords
<1>3. new \in [Slot -> Record]
  BY <1>2 DEF Records
<1>4. [w EXCEPT !.dev[s] = r] = v
  OBVIOUS
<1> HIDE DEF new
<1>5. v \in Host /\ v.dev = new /\ v.chan = w.chan /\ v.used = w.used
  BY <1>1, <1>3, Fields, Zenon
<1> HIDE DEF v
<1>6. Inv(v, L)
  BY <1>2, <1>5, Parts
<1> QED
  BY <1>4, <1>6

LEMMA PutIs ==
    ASSUME NEW w, NEW L, Inv(w, L), NEW s \in Slot, NEW r
    PROVE  [w EXCEPT !.dev[s] = r].dev[s] = r /\ [w EXCEPT !.dev[s] = r].chan = w.chan
BY AtSlot DEF Host

LEMMA PutInv ==
    ASSUME NEW w, NEW L, Inv(w, L), NEW s \in Slot,
           NEW r, Replaces(r, w.dev[s], w.chan, L)
    PROVE  Inv([w EXCEPT !.dev[s] = r], L)
BY Put

(* The radio is left alone. *)
LEMMA Stay ==
    ASSUME IInv, UNCHANGED radio, Inv(host', Named)
    PROVE  IInv'
BY DEF IInv, radio, Named

LEMMA ToInv ==
    ASSUME IInv
    PROVE  Inv(host, Named)
BY DEF IInv

LEMMA InquiryResultKeeps ==
    ASSUME IInv, NEW a \in Addr, InquiryResult(a)
    PROVE  IInv'
<1> DEFINE L == Named
<1>1. PICK n \in Names \cup {"none"}, now \in BOOLEAN :
        LET new == [Created(a) EXCEPT !.name = n,
                      !.state = IF n = "none" THEN "discovered" ELSE "name_fetched"]
        IN  /\ Event
            /\ \/ \E s \in ForAddress(host, a) : /\ host.dev[s].state # "ready"
                                                 /\ host' = Fsm(host, s, now)
               \/ /\ ForAddress(host, a) = {}
                  /\ \E s \in ForAddress(host, NoAddr) :
                       host' = Fsm([host EXCEPT !.dev[s] = new], s, now)
            /\ UNCHANGED radio
  BY DEF InquiryResult
<1> DEFINE x == IF n = "none" THEN "discovered" ELSE "name_fetched"
           new == [Created(a) EXCEPT !.name = n, !.state = x]
           e == [Created(a) EXCEPT !.name = n]
<1>2. Inv(host, L)
  BY ToInv
<1>3. a # NoAddr
  BY BrEdrAssumption
<1>4. CASE \E s \in ForAddress(host, a) : host' = Fsm(host, s, now)
  <2>1. PICK s \in ForAddress(host, a) : host' = Fsm(host, s, now)
    BY <1>4
  <2>2. s \in Slot /\ host.dev[s].addr # NoAddr
    BY <1>3, Lookup
  <2>3. Inv(host', L)
    BY <1>2, <2>1, <2>2, FsmKeeps
  <2> QED
    BY <1>1, <2>3, Stay
<1>5. CASE /\ ForAddress(host, a) = {}
           /\ \E s \in ForAddress(host, NoAddr) :
                host' = Fsm([host EXCEPT !.dev[s] = new], s, now)
  <2>1. PICK s \in ForAddress(host, NoAddr) : host' = Fsm([host EXCEPT !.dev[s] = new], s, now)
    BY <1>5
  <2>2. s \in Slot /\ \A t \in Slot : host.dev[t].addr # a
    BY <1>5, Lookup
  <2>3. Fresh(new, a)
    <3>1. Fresh(Created(a), a)
      BY CreatedIs
    <3>2. n \in NameKinds \cup {"none"} /\ x \in BeforeReady
      BY BrEdrAssumption DEF BeforeReady
    <3>3. new = [e EXCEPT !.state = x]
      OBVIOUS
    <3> HIDE DEF x, new
    <3>4. Fresh(e, a)
      BY <3>1, <3>2 DEF Fresh, Record
    <3> HIDE DEF e
    <3>5. Fresh([e EXCEPT !.state = x], a)
      BY <3>2, <3>4 DEF Fresh, Record
    <3> QED
      BY <3>3, <3>5
  <2> HIDE DEF new
  <2> DEFINE v == [host EXCEPT !.dev[s] = new]
  <2>4. new \in Record /\ Good(new, L) /\ Owns(new, host.chan) /\ new.addr = a /\ new.seat # "held"
    BY <2>3, FreshIs
  <2>5. Inv(v, L)
    BY <1>2, <2>2, <2>4, NewInv
  <2>6. v.dev[s] = new
    BY <1>2, <2>2, PutIs
  <2> HIDE DEF v
  <2>7. Inv(Fsm(v, s, now), L)
    BY <1>3, <2>2, <2>4, <2>5, <2>6, FsmKeeps
  <2>8. Inv(host', L)
    BY <2>1, <2>7 DEF v
  <2> QED
    BY <1>1, <2>8, Stay
<1> QED
  BY <1>1, <1>4, <1>5

LEMMA FreshIncoming ==
    ASSUME NEW a, NEW r, Fresh(r, a)
    PROVE  Fresh([r EXCEPT !.incoming = TRUE], a)
BY DEF Fresh, Record

LEMMA ConnectionRequestKeeps ==
    ASSUME IInv, NEW a \in Addr, ConnectionRequest(a)
    PROVE  IInv'
<1> DEFINE L == Named
           known == ForAddress(host, a)
           s == IF known # {} THEN known ELSE ForAddress(host, NoAddr)
           m == Min(s)
           r == [(IF known = {} THEN Created(a) ELSE host.dev[m]) EXCEPT !.incoming = TRUE]
           new == [t \in Slot |->
                    IF t \notin s THEN host.dev[t]
                    ELSE [(IF known = {} THEN Created(a) ELSE host.dev[t])
                            EXCEPT !.incoming = TRUE]]
<1>1. Inv(host, L) /\ host \in Host /\ host.dev \in [Slot -> Record]
  BY ToInv DEF Inv, Records
<1>2. host' = [host EXCEPT !.dev = new]
  BY DEF ConnectionRequest
<1>3. a # NoAddr
  BY BrEdrAssumption
<1>4. Inv([host EXCEPT !.dev = new], L)
  <2>1. CASE s = {}
    <3>1. new = host.dev
      BY <1>1, <2>1
    <3>2. [host EXCEPT !.dev = host.dev] = host
      BY <1>1 DEF Host
    <3> QED
      BY <1>1, <3>1, <3>2
  <2>2. CASE s # {}
    <3>1. m \in s /\ s = {m} /\ m \in Slot
      BY <2>2, Lookup
    <3>2. new = [host.dev EXCEPT ![m] = r]
      <4>1. new[m] = r
        BY <3>1
      <4>2. \A t \in Slot : t # m => new[t] = host.dev[t]
        BY <3>1
      <4> HIDE DEF r, m
      <4>3. new = [t \in Slot |-> new[t]]
        OBVIOUS
      <4> HIDE DEF new
      <4> QED
        BY <1>1, <3>1, <4>1, <4>2, <4>3
    <3>3. [host EXCEPT !.dev = new] = [host EXCEPT !.dev[m] = r]
      BY <3>2
    <3>4. CASE known = {}
      <4>1. Fresh(r, a)
        BY <3>4, CreatedIs, FreshIncoming
      <4>2. \A t \in Slot : host.dev[t].addr # a
        BY <3>4, Lookup
      <4> HIDE DEF r, m
      <4>3. /\ r \in Record /\ Good(r, L) /\ Owns(r, host.chan) /\ r.addr = a
            /\ r.seat # "held"
        BY <4>1, FreshIs
      <4>4. Inv([host EXCEPT !.dev[m] = r], L)
        BY <1>1, <3>1, <4>2, <4>3, NewInv
      <4> QED
        BY <3>3, <4>4
    <3>5. CASE known # {}
      <4>1. host.dev[m].addr = a
        BY <3>1, <3>5, Lookup
      <4>2. r = [host.dev[m] EXCEPT !.incoming = TRUE]
        BY <3>5
      <4> HIDE DEF r, m
      <4>3. Replaces([host.dev[m] EXCEPT !.incoming = TRUE], host.dev[m], host.chan, L)
        BY <1>1, <1>3, <3>1, <4>1, AtSlot, WritesInUse
      <4>4. Replaces(r, host.dev[m], host.chan, L)
        BY <4>2, <4>3
      <4>5. Inv([host EXCEPT !.dev[m] = r], L)
        BY <1>1, <3>1, <4>4, PutInv
      <4> QED
        BY <3>3, <4>5
    <3> QED
      BY <3>4, <3>5
  <2> QED
    BY <2>1, <2>2
<1>5. Inv(host', L)
  BY <1>2, <1>4
<1> HIDE DEF new
<1> QED
  BY <1>5 DEF IInv, ConnectionRequest, Named

(* The peers a handle may lead to change. *)
LEMMA Weaken ==
    ASSUME NEW w, NEW L, NEW M, Inv(w, L),
           \A s \in Slot : w.dev[s].handle \notin {NoAddr, Zero} => w.dev[s].handle \in M
    PROVE  Inv(w, M)
<1>1. \A s \in Slot : Good(w.dev[s], M)
  BY DEF Inv, Records, Good
<1> QED
  BY <1>1 DEF Inv, Records

LEMMA WritesHandle ==
    ASSUME NEW L, NEW chan, NEW d \in Record, Good(d, L), Owns(d, chan),
           d.addr \in Addr, NEW h, h = Zero \/ (h = d.addr /\ h \in L)
    PROVE  Replaces([d EXCEPT !.handle = h], d, chan, L)
<1> DEFINE e == [d EXCEPT !.handle = h]
<1>1. /\ e \in Record /\ e.addr = d.addr /\ e.handle = h
      /\ e.state = d.state /\ e.seat = d.seat
      /\ e.connected = d.connected /\ e.timer = d.timer
      /\ e.control = d.control /\ e.interrupt = d.interrupt
  BY DEF Record
<1>2. d.addr # NoAddr
  BY BrEdrAssumption
<1> HIDE DEF e
<1>3. Good(e, L)
  BY <1>1, <1>2 DEF Good
<1>4. Replaces(e, d, chan, L)
  BY <1>1, <1>3 DEF Replaces, Owns
<1> QED
  BY <1>4 DEF e

(* Channels that wait for a link get it. *)
Linked(chan, a) == [c \in Cid |-> IF chan[c].addr = a /\ chan[c].st = "wait"
                                  THEN [chan[c] EXCEPT !.st = "asked"] ELSE chan[c]]

LEMMA LinkedRecords ==
    ASSUME NEW dev, NEW chan, NEW used, NEW L, Records(dev, chan, used, L), NEW a
    PROVE  Records(dev, Linked(chan, a), used, L)
<1> DEFINE new == Linked(chan, a)
<1>1. chan \in [Cid -> Channel] /\ dev \in [Slot -> Record]
  BY DEF Records
<1>2. ASSUME NEW c \in Cid
      PROVE  /\ new[c] \in Channel /\ new[c].addr = chan[c].addr
             /\ new[c].st = "free" <=> chan[c].st = "free"
             /\ \A b, psm : Live(chan[c], b, psm) => Live(new[c], b, psm)
  BY <1>1 DEF Channel, Live, Linked
<1>3. new \in [Cid -> Channel]
  BY <1>2 DEF Linked
<1> HIDE DEF new
<1>4. ASSUME NEW s \in Slot PROVE Owns(dev[s], new)
  <2>1. Owns(dev[s], chan) /\ dev[s] \in Record
    BY <1>1 DEF Records
  <2>2. dev[s].control \in Cid \cup {None} /\ dev[s].interrupt \in Cid \cup {None}
    BY <2>1 DEF Record
  <2> QED
    BY <1>2, <2>1, <2>2 DEF Owns
<1>5. Records(dev, new, used, L)
  BY <1>2, <1>3, <1>4 DEF Records
<1> QED
  BY <1>5 DEF new

LEMMA ConnectionCompleteKeeps ==
    ASSUME IInv, NEW a \in Addr, ConnectionComplete(a)
    PROVE  IInv'
<1> DEFINE L == Named
           M == ((link \cup {a}) \cup {lost}) \ {zero'}
           h == HandleOf(a)'
           chan == Linked(host.chan, a)
           dev == [s \in Slot |-> IF s \in ForAddress(host, a)
                                  THEN [host.dev[s] EXCEPT !.handle = h] ELSE host.dev[s]]
           u == [host EXCEPT !.chan = chan]
           m == Min(ForAddress(host, a))
           r == [host.dev[m] EXCEPT !.handle = h]
<1>1. /\ Inv(host, L) /\ host \in Host
      /\ host.dev \in [Slot -> Record] /\ host.chan \in [Cid -> Channel]
  BY ToInv DEF Inv, Records
<1>2. Inv(host, M)
  <2>1. \A s \in Slot : host.dev[s].handle \notin {NoAddr, Zero} => host.dev[s].handle \in Named
    BY <1>1 DEF Inv, Records, Good
  <2>2. a \notin link /\ lost = NoAddr /\ zero' \in {zero, a}
    BY DEF ConnectionComplete, Event
  <2>3. \A s \in Slot : host.dev[s].handle \notin {NoAddr, Zero} => host.dev[s].handle \in M
    BY <2>1, <2>2 DEF Named
  <2> HIDE DEF M
  <2> QED
    BY <1>1, <2>3, Weaken
<1> HIDE DEF h
<1>3. host' = [u EXCEPT !.dev = dev]
  <2>1. host' = [host EXCEPT !.dev = dev, !.chan = chan]
    BY DEF ConnectionComplete, Linked, h
  <2> HIDE DEF dev, chan
  <2> QED
    BY <1>1, <2>1 DEF Host
<1>4. Records(host.dev, chan, host.used, M)
  BY <1>2, LinkedRecords DEF Inv
<1>5. chan \in [Cid -> Channel]
  BY <1>4 DEF Records
<1> HIDE DEF chan
<1>6. u \in Host /\ u.dev = host.dev /\ u.chan = chan /\ u.used = host.used
  BY <1>1, <1>5, Fields, Zenon
<1> HIDE DEF u, M
<1>7. Inv(u, M)
  BY <1>4, <1>6, Parts
<1>8. Inv([u EXCEPT !.dev = dev], M)
  <2>1. CASE ForAddress(host, a) = {}
    <3>1. dev = u.dev
      BY <1>1, <1>6, <2>1
    <3>2. [u EXCEPT !.dev = u.dev] = u
      BY <1>6 DEF Host
    <3> QED
      BY <1>7, <3>1, <3>2
  <2>2. CASE ForAddress(host, a) # {}
    <3>1. ForAddress(host, a) = {m} /\ m \in Slot /\ host.dev[m].addr = a
      BY <2>2, Lookup
    <3>2. dev = [host.dev EXCEPT ![m] = r]
      <4>1. dev[m] = r
        BY <3>1
      <4>2. \A t \in Slot : t # m => dev[t] = host.dev[t]
        BY <3>1
      <4> HIDE DEF r, m
      <4>3. dev = [t \in Slot |-> dev[t]]
        OBVIOUS
      <4> HIDE DEF dev
      <4> QED
        BY <1>1, <3>1, <4>1, <4>2, <4>3
    <3>3. [u EXCEPT !.dev = dev] = [u EXCEPT !.dev[m] = r]
      BY <1>6, <3>2
    <3>4. Replaces(r, u.dev[m], u.chan, M)
      <4>1. Good(u.dev[m], M) /\ Owns(u.dev[m], u.chan) /\ u.dev[m] \in Record
        BY <1>7, <3>1, AtSlot
      <4>2. h = Zero \/ (h = a /\ h \in M)
        BY DEF M, h, HandleOf
      <4>3. Replaces([u.dev[m] EXCEPT !.handle = h], u.dev[m], u.chan, M)
        BY <1>6, <3>1, <4>1, <4>2, WritesHandle
      <4>4. r = [u.dev[m] EXCEPT !.handle = h]
        BY <1>6, <3>1
      <4> QED
        BY <4>3, <4>4
    <3> HIDE DEF r, m
    <3>5. Inv([u EXCEPT !.dev[m] = r], M)
      BY <1>7, <3>1, <3>4, PutInv
    <3> QED
      BY <3>3, <3>5
  <2> QED
    BY <2>1, <2>2
<1>9. Inv(host', Named')
  <2>1. Named' = M
    BY DEF ConnectionComplete, Named, M
  <2> QED
    BY <1>3, <1>8, <2>1
<1>10. zero' \in Addr \cup {NoAddr}
  BY DEF IInv, ConnectionComplete
<1> QED
  BY <1>9, <1>10 DEF IInv, ConnectionComplete

(* A new channel: nobody holds it. *)
LEMMA NewChannel ==
    ASSUME NEW w, NEW L, Inv(w, L), NEW c \in Cid, w.chan[c].st = "free",
           NEW a \in Addr, NEW psm \in Psm, NEW st \in {"wait", "asked"}
    PROVE  /\ Becomes([addr |-> a, psm |-> psm, st |-> st], c, w.dev, w.chan)
           /\ Live([addr |-> a, psm |-> psm, st |-> st], a, psm)
<1> DEFINE ch == [addr |-> a, psm |-> psm, st |-> st]
<1>1. ch \in Channel /\ ch.st # "free" /\ ch.addr \in Addr /\ Live(ch, a, psm)
  BY DEF Channel, Psm, Live
<1> HIDE DEF ch
<1>2. \A t \in Slot : c \notin {w.dev[t].control, w.dev[t].interrupt}
  <2> SUFFICES ASSUME NEW t \in Slot, c \in {w.dev[t].control, w.dev[t].interrupt}
               PROVE  FALSE
    OBVIOUS
  <2>1. Owns(w.dev[t], w.chan) /\ c # None
    BY AtSlot, Consts
  <2>2. \E b, q : Live(w.chan[c], b, q)
    BY <2>1 DEF Owns
  <2> QED
    BY <2>2 DEF Live
<1>3. Becomes(ch, c, w.dev, w.chan)
  BY <1>1, <1>2 DEF Becomes
<1> QED
  BY <1>1, <1>3 DEF ch

(* The record of a gamepad that opens its control channel. *)
LEMMA WritesIncoming ==
    ASSUME NEW L, NEW chan, NEW d \in Record, Good(d, L), Owns(d, chan),
           d.addr \in Addr, NEW h, h = Zero \/ (h = d.addr /\ h \in L),
           NEW c \in Cid, Live(chan[c], d.addr, "control")
    PROVE  Replaces([d EXCEPT !.handle = h, !.control = c, !.incoming = TRUE], d, chan, L)
<1> DEFINE e == [d EXCEPT !.handle = h]
           f == [e EXCEPT !.control = c]
<1>1. Replaces(e, d, chan, L)
  BY WritesHandle
<1>2. e \in Record /\ Good(e, L) /\ Owns(e, chan) /\ e.addr = d.addr /\ d.addr # NoAddr
  BY <1>1, BrEdrAssumption, Zenon DEF Replaces
<1>3. e.addr # NoAddr /\ Live(chan[c], e.addr, "control")
  BY <1>2
<1>4. [d EXCEPT !.handle = h, !.control = c, !.incoming = TRUE] = [f EXCEPT !.incoming = TRUE]
  BY DEF Record
<1> HIDE DEF e
<1>5. Replaces(f, e, chan, L)
  <2>1. /\ f \in Record /\ Good(f, L) /\ f.addr = e.addr /\ f.seat = e.seat
        /\ f.control = c /\ f.interrupt = e.interrupt
    BY <1>2, <1>3 DEF Record, Good, Clean
  <2> QED
    BY <1>2, <1>3, <2>1 DEF Replaces, Owns
<1>6. f \in Record /\ Good(f, L) /\ Owns(f, chan) /\ f.addr # NoAddr
  BY <1>3, <1>5, Zenon DEF Replaces
<1> HIDE DEF f
<1>7. Replaces([f EXCEPT !.incoming = TRUE], f, chan, L)
  BY <1>6, WritesInUse
<1>8. Replaces(f, d, chan, L)
  BY <1>1, <1>5, Then
<1>9. Replaces([f EXCEPT !.incoming = TRUE], d, chan, L)
  BY <1>7, <1>8, Then
<1> QED
  BY <1>4, <1>9

LEMMA IncomingConnectionKeeps ==
    ASSUME IInv, NEW a \in Addr, NEW psm \in Psm, IncomingConnection(a, psm)
    PROVE  IInv'
<1> DEFINE L == Named
           old == ForAddress(host, a)
           stale == \E s \in old : host.dev[s].state = "ready"
           w == IF stale THEN Forget(host, Min(old)) ELSE host
           known == ForAddress(w, a)
           s == IF known = {} THEN ForAddress(w, NoAddr) ELSE known
           room == {c \in Cid : w.chan[c].st = "free"}
           c == Min(room)
           d == IF known = {} THEN Created(a) ELSE w.dev[Min(s)]
           m == Min(s)
           ch == [addr |-> a, psm |-> psm, st |-> "asked"]
           h == HandleOf(a)
           r == [d EXCEPT !.handle = h, !.control = c, !.incoming = TRUE]
           v == [w EXCEPT !.chan[c] = ch]
<1>1. /\ a \in link /\ room # {} /\ UNCHANGED radio
      /\ host' = CASE s = {} \/ (psm = "interrupt" /\ known = {}) -> w
                   [] s # {} /\ psm = "control" ->
                      [w EXCEPT !.dev[m] = r, !.chan[c] = ch]
                   [] OTHER -> [w EXCEPT !.dev[m].interrupt = c, !.chan[c] = ch]
  BY DEF IncomingConnection
<1>2. Inv(w, L)
  <2>1. stale => Min(old) \in Slot
    BY Lookup
  <2>2. Inv(host, L)
    BY ToInv
  <2>3. stale => Inv(Forget(host, Min(old)), L)
    BY <2>1, <2>2, ForgetInv
  <2> QED
    BY <2>2, <2>3
<1>3. c \in Cid /\ w.chan[c].st = "free"
  BY <1>1, MinIn, Consts
<1>4. a # NoAddr /\ (h = Zero \/ (h = a /\ h \in L))
  BY <1>1, BrEdrAssumption DEF HandleOf, Named
<1> HIDE DEF w, c, h
<1>5. Becomes(ch, c, w.dev, w.chan) /\ Live(ch, a, psm)
  BY <1>2, <1>3, NewChannel
<1> HIDE DEF ch
<1>6. Inv(v, L)
  BY <1>2, <1>3, <1>5, ChannelInv
<1>7. v.dev = w.dev /\ Live(v.chan[c], a, psm)
  <2>1. w \in Host /\ w.chan \in [Cid -> Channel]
    BY <1>2 DEF Inv, Records
  <2>2. v.dev = w.dev /\ v.chan = [w.chan EXCEPT ![c] = ch]
    BY <2>1, ChannelIs
  <2>3. v.chan[c] = ch
    BY <1>3, <2>1, <2>2
  <2> QED
    BY <1>5, <2>2, <2>3
<1>8. CASE s = {} \/ (psm = "interrupt" /\ known = {})
  BY <1>1, <1>2, <1>8, Stay
<1>9. CASE s # {} /\ psm = "control"
  <2>1. host' = [w EXCEPT !.dev[m] = r, !.chan[c] = ch]
    BY <1>1, <1>9
  <2>2. m \in Slot
    BY <1>9, Lookup
  <2>3. host' = [v EXCEPT !.dev[m] = r]
    <3> HIDE DEF r, m
    <3> QED BY <1>2, <2>1 DEF Inv, Host
  <2>4. Inv([v EXCEPT !.dev[m] = r], L)
    <3>1. ASSUME d \in Record, Good(d, L), Owns(d, v.chan), d.addr = a
          PROVE  Replaces(r, d, v.chan, L)
      <4>1. r = [d EXCEPT !.handle = h, !.control = c, !.incoming = TRUE]
        OBVIOUS
      <4> HIDE DEF r, d, v
      <4>2. Live(v.chan[c], d.addr, "control")
        BY <1>7, <1>9, <3>1
      <4>3. Replaces([d EXCEPT !.handle = h, !.control = c, !.incoming = TRUE], d, v.chan, L)
        BY <1>3, <1>4, <3>1, <4>2, WritesIncoming
      <4> QED
        BY <4>1, <4>3
    <3>2. CASE known = {}
      <4>1. d = Created(a) /\ \A t \in Slot : v.dev[t].addr # a
        BY <1>7, <3>2, Lookup
      <4>2. Fresh(d, a)
        BY <4>1, CreatedIs
      <4> HIDE DEF d, v
      <4>3. d \in Record /\ Good(d, L) /\ Owns(d, v.chan) /\ d.addr = a /\ d.seat # "held"
        BY <4>2, FreshIs
      <4>4. Replaces(r, d, v.chan, L)
        BY <3>1, <4>3
      <4> HIDE DEF r, m
      <4>5. r \in Record /\ Good(r, L) /\ Owns(r, v.chan) /\ r.seat # "held" /\ r.addr = a
        BY <4>3, <4>4 DEF Replaces
      <4> QED
        BY <1>6, <2>2, <4>1, <4>5, NewInv
    <3>3. CASE known # {}
      <4>1. d = v.dev[m] /\ d.addr = a
        BY <1>7, <1>9, <3>3, Lookup
      <4> HIDE DEF d, v, m
      <4>2. d \in Record /\ Good(d, L) /\ Owns(d, v.chan)
        BY <1>6, <2>2, <4>1, AtSlot
      <4>3. Replaces(r, v.dev[m], v.chan, L)
        BY <3>1, <4>1, <4>2
      <4> HIDE DEF r
      <4> QED
        BY <1>6, <2>2, <4>3, PutInv
    <3> QED
      BY <3>2, <3>3
  <2>5. Inv(host', L)
    BY <2>3, <2>4
  <2> QED
    BY <1>1, <2>5, Stay
<1>10. CASE known # {} /\ psm = "interrupt"
  <2> DEFINE q == [v.dev[m] EXCEPT !.interrupt = c]
  <2>1. m \in Slot /\ w.dev[m].addr = a
    BY <1>10, Lookup
  <2>2. host' = [v EXCEPT !.dev[m] = q]
    <3>1. host' = [w EXCEPT !.dev[m].interrupt = c, !.chan[c] = ch]
      BY <1>1, <1>10
    <3> HIDE DEF m
    <3>2. [w EXCEPT !.dev[m].interrupt = c, !.chan[c] = ch] = [v EXCEPT !.dev[m] = q]
      BY <1>2 DEF Inv, Host
    <3> QED
      BY <3>1, <3>2
  <2> HIDE DEF v, m
  <2>3. v.dev[m] \in Record /\ Good(v.dev[m], L) /\ Owns(v.dev[m], v.chan)
    BY <1>6, <2>1, AtSlot
  <2>4. Live(v.chan[c], v.dev[m].addr, "interrupt") /\ v.dev[m].addr # NoAddr
    BY <1>4, <1>7, <1>10, <2>1
  <2>5. Replaces(q, v.dev[m], v.chan, L)
    BY <1>3, <2>3, <2>4, WritesChannel DEF BeforeReady
  <2> HIDE DEF q
  <2>6. Inv([v EXCEPT !.dev[m] = q], L)
    BY <1>6, <2>1, <2>5, PutInv
  <2>7. Inv(host', L)
    BY <2>2, <2>6
  <2> QED
    BY <1>1, <2>7, Stay
<1> QED
  BY <1>8, <1>9, <1>10 DEF Psm

(* The record of a gamepad whose interrupt channel is open: the platform is *)
(* told of it.                                                              *)
LEMMA WritesConnected ==
    ASSUME NEW L, NEW chan, NEW d \in Record, Good(d, L), Owns(d, chan), d.addr # NoAddr,
           d.state # "ready"
    PROVE  Replaces([d EXCEPT !.connected = TRUE, !.seat = "none"], d, chan, L)
<1> DEFINE e == [d EXCEPT !.connected = TRUE]
           f == [e EXCEPT !.seat = "none"]
<1>1. /\ e \in Record /\ e.addr = d.addr /\ e.handle = d.handle /\ e.connected
      /\ e.state = d.state /\ e.control = d.control /\ e.interrupt = d.interrupt
  BY DEF Record
<1>2. [d EXCEPT !.connected = TRUE, !.seat = "none"] = f
  BY DEF Record
<1> HIDE DEF e
<1>3. /\ f \in Record /\ f.addr = e.addr /\ f.handle = e.handle /\ f.connected
      /\ f.state = e.state /\ f.control = e.control /\ f.interrupt = e.interrupt
      /\ f.seat = "none"
  BY <1>1 DEF Record
<1> HIDE DEF f
<1>4. Good(f, L)
  BY <1>1, <1>3 DEF Good
<1>5. Replaces(f, d, chan, L)
  BY <1>1, <1>3, <1>4 DEF Replaces, Owns
<1> QED
  BY <1>2, <1>5

LEMMA ChannelOpenedKeeps ==
    ASSUME IInv, NEW c \in Cid, ChannelOpened(c)
    PROVE  IInv'
<1> DEFINE L == Named
           a == host.chan[c].addr
           w == [host EXCEPT !.chan[c].st = "open"]
           ch == [host.chan[c] EXCEPT !.st = "open"]
           Ctl(s) == [w EXCEPT !.dev[s].control = c, !.dev[s].state = "control_connected"]
           Itr(s) == [w EXCEPT !.dev[s].interrupt = c, !.dev[s].state = "interrupt_connected"]
           Opened(s) == IF host.chan[c].psm = "control" THEN Ctl(s) ELSE Connect(Itr(s), s)
<1>1. PICK now \in BOOLEAN :
        /\ host.chan[c].st = "asked"
        /\ \/ ForAddress(host, a) = {} /\ host' = w
           \/ \E s \in ForAddress(host, a) : host' = Fsm(Opened(s), s, now)
        /\ UNCHANGED radio
  BY DEF ChannelOpened
<1>2. /\ Inv(host, L) /\ host \in Host /\ host.chan \in [Cid -> Channel]
      /\ host.chan[c] \in Channel /\ a \in Addr
  BY <1>1, ToInv DEF Inv, Records
<1>3. a # NoAddr
  BY <1>2, BrEdrAssumption
<1>4. /\ ch \in Channel /\ ch.addr = a /\ ch.psm = host.chan[c].psm /\ ch.st = "open"
      /\ Live(ch, a, host.chan[c].psm)
  BY <1>2 DEF Channel, Live
<1>5. w = [host EXCEPT !.chan[c] = ch]
  OBVIOUS
<1> HIDE DEF ch
<1>6. Becomes(ch, c, host.dev, host.chan)
  BY <1>2, <1>4 DEF Becomes
<1>7. Inv([host EXCEPT !.chan[c] = ch], L)
  BY <1>2, <1>6, ChannelInv
<1>8. /\ [host EXCEPT !.chan[c] = ch].dev = host.dev
      /\ [host EXCEPT !.chan[c] = ch].chan = [host.chan EXCEPT ![c] = ch]
  BY <1>2, ChannelIs
<1>9. Inv(w, L) /\ w.dev = host.dev /\ Live(w.chan[c], a, host.chan[c].psm)
  BY <1>2, <1>4, <1>5, <1>7, <1>8
<1> HIDE DEF w
<1>10. CASE host' = w
  BY <1>1, <1>9, <1>10, Stay
<1>11. CASE \E s \in ForAddress(host, a) : host' = Fsm(Opened(s), s, now)
  <2>1. PICK s \in ForAddress(host, a) : host' = Fsm(Opened(s), s, now)
    BY <1>11
  <2> DEFINE d == w.dev[s]
             rc == [d EXCEPT !.control = c, !.state = "control_connected"]
             ri == [d EXCEPT !.interrupt = c, !.state = "interrupt_connected"]
  <2>2. s \in Slot /\ d.addr = a
    BY <1>9, Lookup
  <2>3. d \in Record /\ Good(d, L) /\ Owns(d, w.chan) /\ d.addr # NoAddr
    BY <1>3, <1>9, <2>2, AtSlot
  <2>4. {"control_connected", "interrupt_connected"} \subseteq BeforeReady
    BY DEF BeforeReady
  <2>5. CASE host.chan[c].psm = "control"
    <3>1. Live(w.chan[c], d.addr, "control")
      BY <1>9, <2>2, <2>5
    <3>2. Ctl(s) = [w EXCEPT !.dev[s] = rc]
      BY <1>9, <2>2 DEF Inv, Host
    <3> HIDE DEF d
    <3>3. Replaces(rc, d, w.chan, L)
      BY <2>3, <2>4, <3>1, WritesChannel
    <3> HIDE DEF rc
    <3>4. Replaces(rc, w.dev[s], w.chan, L)
      BY <3>3 DEF d
    <3>5. Inv([w EXCEPT !.dev[s] = rc], L)
      BY <1>9, <2>2, <3>4, PutInv
    <3>6. [w EXCEPT !.dev[s] = rc].dev[s].addr = w.dev[s].addr
      BY <1>9, <2>2, <3>4, PutAddr
    <3>7. Inv(Opened(s), L) /\ Opened(s).dev[s].addr # NoAddr
      BY <2>3, <2>5, <3>2, <3>5, <3>6 DEF d
    <3> HIDE DEF Opened
    <3>8. Inv(host', L)
      BY <2>1, <2>2, <3>7, FsmKeeps
    <3> QED
      BY <1>1, <3>8, Stay
  <2>6. CASE host.chan[c].psm = "interrupt"
    <3>1. Live(w.chan[c], d.addr, "interrupt")
      BY <1>9, <2>2, <2>6
    <3>2. Itr(s) = [w EXCEPT !.dev[s] = ri]
      BY <1>9, <2>2 DEF Inv, Host
    <3>3. ri.state = "interrupt_connected"
      BY <2>3 DEF Record
    <3> HIDE DEF d
    <3>4. Replaces(ri, d, w.chan, L)
      BY <2>3, <2>4, <3>1, WritesChannel
    <3> HIDE DEF ri
    <3>5. Replaces(ri, w.dev[s], w.chan, L)
      BY <3>4 DEF d
    <3>6. Inv([w EXCEPT !.dev[s] = ri], L)
      BY <1>9, <2>2, <3>5, PutInv
    <3>7. [w EXCEPT !.dev[s] = ri].dev[s] = ri
      BY <1>9, <2>2, PutIs
    <3>8. Inv(Itr(s), L) /\ Itr(s).dev[s] = ri /\ ri.addr # NoAddr
      BY <2>3, <3>2, <3>4, <3>6, <3>7 DEF Replaces
    <3> HIDE DEF Itr
    <3> DEFINE i == Itr(s)
               rr == [i.dev[s] EXCEPT !.connected = TRUE, !.seat = "none"]
    <3>9. Inv(i, L) /\ i.dev[s].addr # NoAddr /\ i.dev[s].state # "ready"
      BY <3>3, <3>8
    <3>10. Connect(i, s) = [i EXCEPT !.dev[s] = rr]
      BY <2>2, <3>9 DEF Connect, Inv, Host
    <3> HIDE DEF i
    <3>11. Replaces(rr, i.dev[s], i.chan, L)
      BY <2>2, <3>9, AtSlot, WritesConnected
    <3> HIDE DEF rr
    <3>12. Inv([i EXCEPT !.dev[s] = rr], L)
      BY <2>2, <3>9, <3>11, PutInv
    <3>13. [i EXCEPT !.dev[s] = rr].dev[s].addr = i.dev[s].addr
      BY <2>2, <3>9, <3>11, PutAddr
    <3>14. Opened(s) = Connect(i, s)
      BY <2>6 DEF i
    <3>15. Inv(Opened(s), L) /\ Opened(s).dev[s].addr # NoAddr
      BY <3>9, <3>10, <3>12, <3>13, <3>14
    <3> HIDE DEF Opened
    <3>16. Inv(host', L)
      BY <2>1, <2>2, <3>15, FsmKeeps
    <3> QED
      BY <1>1, <3>16, Stay
  <2> QED
    BY <1>2, <2>5, <2>6 DEF Channel, Psm
<1> QED
  BY <1>1, <1>10, <1>11

-----------------------------------------------------------------------------
(* Who holds a channel is in use, and nobody else holds it. *)
LEMMA Holder ==
    ASSUME NEW w, NEW L, Inv(w, L), NEW c \in Cid, NEW s \in Slot,
           c \in {w.dev[s].interrupt, w.dev[s].control}
    PROVE  /\ w.chan[c].st # "free"
           /\ w.dev[s].addr = w.chan[c].addr
           /\ \A t \in Slot : w.dev[t].addr = w.chan[c].addr => t = s
<1>1. Good(w.dev[s], L) /\ Owns(w.dev[s], w.chan)
  BY AtSlot
<1>2. c # None
  BY Consts
<1>3. w.dev[s].addr # NoAddr
  BY <1>1, <1>2 DEF Good, Clean
<1>4. \E psm : Live(w.chan[c], w.dev[s].addr, psm)
  BY <1>1, <1>2 DEF Owns
<1>5. w.chan[c].st # "free" /\ w.dev[s].addr = w.chan[c].addr
  BY <1>4 DEF Live
<1> QED
  BY <1>3, <1>5 DEF Inv, Records

(* A channel nobody holds is freed. *)
LEMMA FreedInv ==
    ASSUME NEW w, NEW L, Inv(w, L), NEW c \in Cid,
           \A s \in Slot : c \notin {w.dev[s].interrupt, w.dev[s].control}
    PROVE  Inv([w EXCEPT !.chan[c] = NoChannel], L)
<1>1. Becomes(NoChannel, c, w.dev, w.chan)
  BY DEF Becomes, NoChannel, Channel, Psm
<1> QED
  BY <1>1, ChannelInv

(* The handlers of a channel that could not be opened or is closed: the     *)
(* record that holds it goes, found by address or by channel.               *)
LEMMA GoneKeeps ==
    ASSUME NEW L, Inv(host, L), NEW c \in Cid
    PROVE  Inv(Gone(c), L)
<1> DEFINE d == IF host.chan[c].st = "open" THEN ForCid(host, c)
                ELSE ForAddress(host, host.chan[c].addr)
           w == [host EXCEPT !.chan[c] = NoChannel]
           m == Min(d)
           u == Forget(host, m)
           Holds(x, s) == c \in {x.dev[s].interrupt, x.dev[s].control}
<1>1. Gone(c) = IF d = {} THEN w ELSE Forget(w, m)
  BY DEF Gone
<1>2. \A s \in Slot : Holds(host, s) =>
         /\ host.chan[c].st # "free"
         /\ host.dev[s].addr = host.chan[c].addr
         /\ \A t \in Slot : host.dev[t].addr = host.chan[c].addr => t = s
  BY Holder
<1>3. CASE d = {}
  <2>1. \A s \in Slot : ~Holds(host, s)
    <3>1. CASE host.chan[c].st = "open"
      BY <1>3, <3>1, LookupCid
    <3>2. CASE host.chan[c].st # "open"
      BY <1>2, <1>3, <3>2, Lookup
    <3> QED
      BY <3>1, <3>2
  <2>2. Inv(w, L)
    BY <2>1, FreedInv
  <2> QED
    BY <1>1, <1>3, <2>2
<1>4. CASE d # {}
  <2>1. /\ m \in Slot
        /\ \A s \in Slot : Holds(host, s) => s = m
    <3>1. CASE host.chan[c].st = "open"
      <4>1. m \in Slot /\ Holds(host, m)
        BY <1>4, <3>1, LookupCid
      <4> HIDE DEF m, d, Holds
      <4> QED
        BY <1>2, <4>1
    <3>2. CASE host.chan[c].st # "open"
      <4>1. m \in Slot /\ host.dev[m].addr = host.chan[c].addr
        BY <1>4, <3>2, Lookup
      <4> HIDE DEF m, d, Holds
      <4> QED
        BY <1>2, <4>1
    <3> QED
      BY <3>1, <3>2
  <2> HIDE DEF d, m
  <2>2. Inv(u, L) /\ u.dev = [host.dev EXCEPT ![m] = Free]
    BY <2>1, ForgetKeeps
  <2>3. \A s \in Slot : ~Holds(u, s)
    <3>1. host.dev \in [Slot -> Record] /\ c # None
      BY Consts DEF Inv, Records
    <3>2. u.dev[m] = Free /\ \A s \in Slot : s # m => u.dev[s] = host.dev[s]
      BY <2>1, <2>2, <3>1
    <3>3. Free.control = None /\ Free.interrupt = None
      BY FreeIs DEF Clean
    <3> HIDE DEF u
    <3> QED
      BY <2>1, <3>1, <3>2, <3>3
  <2>4. Forget(w, m) = [u EXCEPT !.chan[c] = NoChannel]
    BY DEF Forget, Inv, Host
  <2> HIDE DEF u
  <2>5. Inv([u EXCEPT !.chan[c] = NoChannel], L)
    BY <2>2, <2>3, FreedInv
  <2> QED
    BY <1>1, <1>4, <2>4, <2>5
<1> QED
  BY <1>3, <1>4

LEMMA ChannelGoneKeeps ==
    ASSUME IInv, NEW c \in Cid, ChannelGone(c)
    PROVE  IInv'
BY ToInv, GoneKeeps, Stay DEF ChannelGone

LEMMA ReportChannelKeeps ==
    ASSUME IInv, NEW c \in Cid, ReportChannel(c)
    PROVE  IInv'
<1>1. Inv(host', Named)
  BY ToInv, GoneKeeps DEF ReportChannel
<1> QED
  BY <1>1 DEF IInv, ReportChannel, Named

LEMMA SdpCompleteKeeps ==
    ASSUME IInv, SdpComplete
    PROVE  IInv'
BY ToInv, QueryCompleteKeeps, Stay DEF SdpComplete

LEMMA ReportSdpKeeps ==
    ASSUME IInv, ReportSdp
    PROVE  IInv'
<1>1. Inv(host', Named)
  BY ToInv, QueryCompleteKeeps DEF ReportSdp
<1> QED
  BY <1>1 DEF IInv, ReportSdp, Named

LEMMA LinkLostKeeps ==
    ASSUME IInv, NEW a \in Addr, LinkLost(a)
    PROVE  IInv'
<1> DEFINE M == ((link \ {a}) \cup {a}) \ {zero}
<1>1. Inv(host, Named) /\ lost = NoAddr
  BY ToInv DEF LinkLost, Event
<1>2. \A s \in Slot : host.dev[s].handle \notin {NoAddr, Zero} => host.dev[s].handle \in M
  BY <1>1 DEF Inv, Records, Good, Named
<1> HIDE DEF M
<1>3. Inv(host, M)
  BY <1>1, <1>2, Weaken
<1>4. Inv(host', Named')
  BY <1>3 DEF LinkLost, Named, M
<1> QED
  BY <1>4 DEF IInv, LinkLost

(* No handle outlives its link: at most one record leads to the peer that  *)
(* is lost, and none if its handle was 0.                                  *)
LEMMA DisconnectionCompleteKeeps ==
    ASSUME IInv, DisconnectionComplete
    PROVE  IInv'
<1> DEFINE L == Named
           M == (link \cup {NoAddr}) \ {zero'}
           h == HandleOf(lost)
           d == ForHandle(host, h)
           m == Min(d)
<1>1. /\ Inv(host, L) /\ lost # NoAddr /\ lost \in Addr
      /\ zero' = IF zero = lost THEN NoAddr ELSE zero
      /\ host' = IF d = {} THEN host ELSE Forget(host, m)
  BY ToInv DEF DisconnectionComplete, IInv
<1>2. \A s \in Slot : host.dev[s].handle \notin {NoAddr, Zero} =>
        host.dev[s].handle = host.dev[s].addr /\ host.dev[s].handle \in L
  BY <1>1 DEF Inv, Records, Good
<1>3. h = lost \/ lost \notin L
  BY DEF HandleOf, Named
<1>4. \A x \in L : x # NoAddr /\ x # lost => x \in M
  BY <1>1 DEF Named
<1>5. lost \notin {NoAddr, Zero}
  BY <1>1, BrEdrAssumption
<1> HIDE DEF L, M, h
<1>6. Inv(host', M)
  <2>1. CASE d = {}
    <3>1. \A s \in Slot : host.dev[s].handle # h
      BY <2>1, LookupHandle
    <3>2. \A s \in Slot : host.dev[s].handle \notin {NoAddr, Zero} => host.dev[s].handle \in M
      BY <1>2, <1>3, <1>4, <3>1
    <3>3. Inv(host, M)
      BY <1>1, <3>2, Weaken
    <3> QED
      BY <1>1, <2>1, <3>3
  <2>2. CASE d # {}
    <3> DEFINE u == Forget(host, m)
    <3>1. m \in Slot /\ host.dev[m].handle = h
      BY <2>2, LookupHandle
    <3>2. \A s \in Slot : s # m => host.dev[s].handle # lost
      BY <1>1, <1>2, <1>3, <1>5, <3>1 DEF Inv, Records
    <3> HIDE DEF d, m
    <3>3. Inv(u, L) /\ u.dev = [host.dev EXCEPT ![m] = Free]
      BY <1>1, <3>1, ForgetKeeps
    <3>4. u.dev[m] = Free /\ \A s \in Slot : s # m => u.dev[s] = host.dev[s]
      BY <1>1, <3>1, <3>3 DEF Inv, Records
    <3> HIDE DEF u
    <3>5. \A s \in Slot : u.dev[s].handle \notin {NoAddr, Zero} => u.dev[s].handle \in M
      BY <1>2, <1>4, <3>2, <3>4, FreeIs
    <3>6. Inv(u, M)
      BY <3>3, <3>5, Weaken
    <3> QED
      BY <1>1, <2>2, <3>6 DEF u
  <2> QED
    BY <2>1, <2>2
<1>7. Named' = M
  BY DEF DisconnectionComplete, Named, M
<1>8. zero' \in Addr \cup {NoAddr}
  BY <1>1 DEF IInv
<1> QED
  BY <1>6, <1>7, <1>8 DEF IInv, DisconnectionComplete

-----------------------------------------------------------------------------
(* uni_bt_bredr_on_hci_remote_name_request_complete() *)
LEMMA NameCompleteKeeps ==
    ASSUME IInv, NameComplete
    PROVE  IInv'
<1> DEFINE L == Named
           d == ForAddress(host, host.asking)
           s == Min(d)
           w == [host EXCEPT !.asking = NoAddr]
<1>1. PICK n \in Names \cup {"other"}, now \in BOOLEAN :
        LET v == [w EXCEPT !.dev[s].name = n]
            u == IF v.dev[s].state \notin BeforeReady THEN v
                 ELSE Fsm([v EXCEPT !.dev[s].state = "name_fetched"], s, now)
        IN  /\ host.asking # NoAddr
            /\ host' = IF d = {} THEN w ELSE [u EXCEPT !.dev[s].name_timer = FALSE]
            /\ UNCHANGED radio
  BY DEF NameComplete
<1> DEFINE v == [w EXCEPT !.dev[s].name = n]
           x == [v EXCEPT !.dev[s].state = "name_fetched"]
           u == IF v.dev[s].state \notin BeforeReady THEN v ELSE Fsm(x, s, now)
<1>2. Inv(host, L) /\ host \in Host
  BY ToInv DEF Inv
<1>3. Inv(w, L)
  BY <1>2, Beside
<1>4. w.dev = host.dev
  BY <1>2, Asides DEF Same
<1>5. CASE d = {}
  BY <1>1, <1>3, <1>5, Stay
<1>6. CASE d # {}
  <2>1. s \in Slot /\ w.dev[s].addr # NoAddr
    <3>1. s \in d
      BY <1>6, Lookup, Zenon
    <3>2. s \in Slot /\ host.dev[s].addr = host.asking
      BY <3>1, Lookup, Zenon
    <3>3. host.asking # NoAddr
      BY <1>1, Zenon
    <3> HIDE DEF s, w
    <3> QED
      BY <1>4, <3>2, <3>3
  <2>2. host' = [u EXCEPT !.dev[s].name_timer = FALSE]
    BY <1>1, <1>6
  <2> HIDE DEF w, s
  <2> DEFINE r == [w.dev[s] EXCEPT !.name = n]
  <2>3. n \in NameKinds \cup {"none"}
    BY BrEdrAssumption DEF NameKinds
  <2>4. Replaces(r, w.dev[s], w.chan, L)
    BY <1>3, <2>1, <2>3, AtSlot, WritesInUse
  <2>5. v = [w EXCEPT !.dev[s] = r]
    OBVIOUS
  <2> HIDE DEF r
  <2>6. Inv([w EXCEPT !.dev[s] = r], L)
    BY <1>3, <2>1, <2>4, PutInv
  <2>7. [w EXCEPT !.dev[s] = r].dev[s].addr = w.dev[s].addr
    BY <1>3, <2>1, <2>4, PutAddr
  <2>8. Inv(v, L) /\ v.dev[s].addr # NoAddr
    BY <2>1, <2>5, <2>6, <2>7
  <2> HIDE DEF v
  <2>9. Inv(x, L) /\ x.dev[s].addr # NoAddr
    <3>1. "name_fetched" \in BeforeReady
      BY DEF BeforeReady
    <3>2. Inv(x, L)
      BY <2>1, <2>8, <3>1, StateInv
    <3>3. x.dev[s].addr = v.dev[s].addr
      BY <2>1, <2>8, <3>1, StateIs
    <3> QED
      BY <2>8, <3>2, <3>3
  <2> HIDE DEF x
  <2>10. Inv(Fsm(x, s, now), L)
    BY <2>1, <2>9, FsmKeeps
  <2>11. Inv(u, L)
    BY <2>8, <2>10
  <2> HIDE DEF u
  <2>12. Replaces([u.dev[s] EXCEPT !.name_timer = FALSE], u.dev[s], u.chan, L)
    BY <2>1, <2>11, AtSlot, Writes
  <2>13. Inv([u EXCEPT !.dev[s].name_timer = FALSE], L)
    BY <2>1, <2>11, <2>12, PutInv
  <2>14. Inv(host', L)
    BY <2>2, <2>13
  <2> QED
    BY <1>1, <2>14, Stay
<1> QED
  BY <1>5, <1>6

(* inquiry_remote_name_timeout_callback() *)
LEMMA NameTimeoutKeeps ==
    ASSUME IInv, NEW s \in Slot, NameTimeout(s)
    PROVE  IInv'
<1> DEFINE L == Named
           v == [host EXCEPT !.dev[s].name = "other", !.dev[s].state = "name_fetched",
                             !.dev[s].name_timer = FALSE]
           d == host.dev[s]
           e == [d EXCEPT !.name = "other"]
           f == [e EXCEPT !.state = "name_fetched"]
           g == [f EXCEPT !.name_timer = FALSE]
<1>1. PICK now \in BOOLEAN : host.dev[s].name_timer /\ host' = Fsm(v, s, now) /\ UNCHANGED radio
  BY DEF NameTimeout
<1>2. Inv(host, L) /\ d \in Record /\ Good(d, L) /\ Owns(d, host.chan) /\ host \in Host
  BY ToInv, AtSlot DEF Inv
<1>3. d.addr # NoAddr
  BY <1>1, <1>2 DEF Good, Clean
<1>4. v = [host EXCEPT !.dev[s] = g]
  BY <1>2 DEF Host
<1> HIDE DEF v, d
<1>5. Replaces(e, d, host.chan, L)
  BY <1>2, <1>3, WritesInUse DEF NameKinds
<1>6. e \in Record /\ Good(e, L) /\ Owns(e, host.chan)
  BY <1>5, Zenon DEF Replaces
<1> HIDE DEF e
<1>7. Replaces(f, e, host.chan, L)
  BY <1>6, Writes DEF BeforeReady
<1>8. f \in Record /\ Good(f, L) /\ Owns(f, host.chan)
  BY <1>7, Zenon DEF Replaces
<1> HIDE DEF f
<1>9. Replaces(g, f, host.chan, L)
  BY <1>8, Writes
<1> HIDE DEF g
<1>10. Replaces(f, d, host.chan, L)
  BY <1>5, <1>7, Then
<1>11. Replaces(g, host.dev[s], host.chan, L)
  BY <1>9, <1>10, Then DEF d
<1>12. Inv([host EXCEPT !.dev[s] = g], L)
  BY <1>2, <1>11, PutInv
<1>13. [host EXCEPT !.dev[s] = g].dev[s].addr = host.dev[s].addr
  BY <1>2, <1>11, PutAddr
<1>14. Inv(v, L) /\ v.dev[s].addr # NoAddr
  BY <1>3, <1>4, <1>12, <1>13 DEF d
<1>15. Inv(host', L)
  BY <1>1, <1>14, FsmKeeps
<1> QED
  BY <1>1, <1>15, Stay

(* sdp_query_timeout() *)
LEMMA SdpTimeoutKeeps ==
    ASSUME IInv, SdpTimeout
    PROVE  IInv'
<1> DEFINE L == Named
           a == [host EXCEPT !.sdp = None]
<1>1. Inv(host, L) /\ host \in Host
  BY ToInv DEF Inv
<1>2. Inv(a, L)
  BY <1>1, Beside
<1>3. host' = [a EXCEPT !.sdp_timer = FALSE]
  BY <1>1 DEF SdpTimeout, Host
<1> HIDE DEF a
<1>4. Inv([a EXCEPT !.sdp_timer = FALSE], L)
  BY <1>2, Beside
<1>5. Inv(host', L)
  BY <1>3, <1>4
<1> QED
  BY <1>5, Stay DEF SdpTimeout

LEMMA SlotActionsKeep ==
    ASSUME IInv, NEW s \in Slot,
           ConnectionTimeout(s) \/ SetReadyComplete(s) \/ DisconnectDevice(s)
    PROVE  IInv'
<1> DEFINE L == Named
<1>1. Inv(host, L)
  BY ToInv
<1>2. Inv(Forget(host, s), L) /\ Inv(set_ready_complete(host, s), L)
  BY <1>1, ForgetInv, SetReadyCompleteKeeps
<1>3. UNCHANGED radio /\ Inv(host', L)
  BY <1>2 DEF ConnectionTimeout, SetReadyComplete, DisconnectDevice
<1> QED
  BY <1>3, Stay

-----------------------------------------------------------------------------
LEMMA InitIInv == Init => IInv
<1> SUFFICES ASSUME Init PROVE IInv
  OBVIOUS
<1> DEFINE dev == [s \in Slot |-> Free]
           chan == [c \in Cid |-> NoChannel]
<1>1. /\ host.dev = dev /\ host.chan = chan /\ host.used = 0
      /\ link = {} /\ zero = NoAddr /\ requested = {} /\ lost = NoAddr /\ dying = {}
  BY DEF Init
<1>2. dev \in [Slot -> Record] /\ chan \in [Cid -> Channel]
  BY FreeIs DEF NoChannel, Channel, Psm
<1>3. 0 \in 0 .. MAX_DEVICES
  BY BrEdrAssumption
<1>4. host \in Host
  <2>1. Idle \in [query : {"idle", "pid", "hid"}, addr : Addr \cup {NoAddr}]
    BY DEF Idle
  <2> HIDE DEF dev, chan
  <2>2. host = [dev |-> dev, chan |-> chan, sdp |-> None, sdp_timer |-> FALSE,
                client |-> Idle, asking |-> NoAddr, used |-> 0]
    BY DEF Init, dev, chan
  <2> QED
    BY <1>2, <1>3, <2>1, <2>2 DEF Host
<1>5. Records(dev, chan, 0, Named)
  <2>1. \A s \in Slot : dev[s] = Free
    OBVIOUS
  <2>2. \A c \in Cid : chan[c].st = "free"
    BY DEF NoChannel
  <2>3. Held(dev) = {}
    BY <2>1, FreeIs DEF Held, Clean
  <2>4. Cardinality(Held(dev)) <= 0
    BY <2>3, FS_EmptySet
  <2> HIDE DEF dev, chan
  <2> QED
    BY <1>2, <1>3, <2>1, <2>2, <2>4, FreeIs DEF Records
<1>6. Inv(host, Named)
  BY <1>1, <1>4, <1>5, Parts
<1> QED
  BY <1>1, <1>6 DEF IInv

LEMMA NextIInv == IInv /\ [Next]_vars => IInv'
<1> SUFFICES ASSUME IInv, [Next]_vars PROVE IInv'
  OBVIOUS
<1>1. CASE UNCHANGED vars
  BY <1>1 DEF vars, IInv, Inv, Records, Named
<1>2. ASSUME NEW a \in Found, InquiryResult(a) PROVE IInv'
  BY <1>2, InquiryResultKeeps, BrEdrAssumption
<1>3. ASSUME NEW a \in Callers,
             ConnectionRequest(a) \/ \E psm \in Psm : IncomingConnection(a, psm)
      PROVE  IInv'
  BY <1>3, ConnectionRequestKeeps, IncomingConnectionKeeps, BrEdrAssumption
<1>4. ASSUME NEW a \in Addr, ConnectionComplete(a) \/ LinkLost(a) PROVE IInv'
  BY <1>4, ConnectionCompleteKeeps, LinkLostKeeps
<1>5. ASSUME NEW c \in Cid, ChannelOpened(c) \/ ChannelGone(c) PROVE IInv'
  BY <1>5, ChannelOpenedKeeps, ChannelGoneKeeps
<1>6. ASSUME NEW s \in Slot, \/ NameTimeout(s) \/ ConnectionTimeout(s) \/ SetReadyComplete(s)
                             \/ DisconnectDevice(s)
      PROVE  IInv'
  BY <1>6, NameTimeoutKeeps, SlotActionsKeep
<1>7. ASSUME SdpComplete \/ NameComplete \/ SdpTimeout PROVE IInv'
  BY <1>7, SdpCompleteKeeps, NameCompleteKeeps, SdpTimeoutKeeps
<1>8. ASSUME Dispatch PROVE IInv'
  BY <1>8, ReportChannelKeeps, ReportSdpKeeps, DisconnectionCompleteKeeps DEF Dispatch
<1> QED
  BY <1>1, <1>2, <1>3, <1>4, <1>5, <1>6, <1>7, <1>8 DEF Next

LEMMA InvariantHolds == Spec => []IInv
BY InitIInv, NextIInv, PTL DEF Spec

(* The host's records, channels and counters keep their types: the count   *)
(* of seats never passes the number of records and never wraps below zero, *)
(* whatever the gamepads do (uni_hid_device.c:230-260).                    *)
THEOREM TypeCorrect == Spec => []TypeOK
<1>1. IInv => TypeOK
  BY DEF IInv, Inv, TypeOK
<1> QED
  BY <1>1, InvariantHolds, PTL

(* No handle a record was given outlives its link or is that of another    *)
(* gamepad, whoever has handle 0.                                          *)
THEOREM OwnLinkAlways == Spec => []OwnLink
<1>1. IInv => OwnLink
  BY DEF IInv, Inv, Records, Good, OwnLink, Named
<1> QED
  BY <1>1, InvariantHolds, PTL

(* The channels a record holds are its gamepad's: what arrives on one      *)
(* reaches the record of the gamepad it came from.                         *)
THEOREM OwnChannelsAlways == Spec => []OwnChannels
<1>1. IInv => OwnChannels
  BY DEF IInv, Inv, Records, Owns, Live, OwnChannels
<1> QED
  BY <1>1, InvariantHolds, PTL

(* A gamepad that is ready is one the platform was told of and has given a *)
(* seat.                                                                   *)
THEOREM ReadyIsSeatedAlways == Spec => []ReadyIsSeated
<1>1. IInv => ReadyIsSeated
  BY DEF IInv, Inv, Records, Good, ReadyIsSeated
<1> QED
  BY <1>1, InvariantHolds, PTL

(* An attempt to connect has its timeout running. *)
THEOREM ConnectingHasTimerAlways == Spec => []ConnectingHasTimer
<1>1. IInv => ConnectingHasTimer
  BY DEF IInv, Inv, Records, Good, ConnectingHasTimer, Attempt
<1> QED
  BY <1>1, InvariantHolds, PTL
=============================================================================
