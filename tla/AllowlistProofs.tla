--------------------------- MODULE AllowlistProofs ---------------------------
(***************************************************************************)
(* The allowlist survives every reboot, proved for any number of addresses *)
(* and of entries.  What the loop that writes the text leaves is shown by  *)
(* induction on the entries it has seen.                                   *)
(***************************************************************************)
EXTENDS Allowlist, Integers, WellFoundedInduction, TLAPS

(* A set of numbers has a least one. *)
LEMMA LeastOf ==
    ASSUME NEW S \in SUBSET Nat, S # {}
    PROVE  \E x \in S : \A y \in S : x <= y
<1> DEFINE R == OpToRel(<, Nat)
<1>1. IsWellFoundedOn(R, Nat)
  BY NatLessThanWellFounded
<1>2. \A x, y \in Nat : x < y => <<x, y>> \in R
  BY DEF OpToRel
<1> HIDE DEF R
<1>3. PICK x \in S : \A y \in S : <<y, x>> \notin R
  BY <1>1, WFMin, Zenon
<1>4. \A y \in S : ~(y < x)
  BY <1>2, <1>3, Zenon
<1> QED
  BY <1>4

(* Induction up to a bound, for a set of numbers. *)
LEMMA UpTo ==
    ASSUME NEW m \in Nat, NEW T, 0 \in T, \A i \in 0 .. m - 1 : i \in T => i + 1 \in T
    PROVE  \A i \in 0 .. m : i \in T
<1> DEFINE S == {i \in 0 .. m : i \notin T}
<1> SUFFICES ASSUME S # {} PROVE FALSE
  OBVIOUS
<1>1. PICK x \in S : \A y \in S : x <= y
  <2>1. S \in SUBSET Nat
    OBVIOUS
  <2> HIDE DEF S
  <2> QED
    BY <2>1, LeastOf
<1>2. x # 0 /\ x - 1 \in 0 .. m - 1 /\ x - 1 \notin S
  BY <1>1
<1> QED
  BY <1>1, <1>2

-----------------------------------------------------------------------------
(* The loop of update_allowlist_to_property() as a recursive function. *)
Line(list, g, i) == IF i = 0 THEN <<>>
                    ELSE IF list[i] = None THEN g[i - 1]
                    ELSE Append(g[i - 1], list[i])
Lines(list) == CHOOSE g : g = [i \in 0 .. Size |-> Line(list, g, i)]

Entries == [Slot -> Addr \cup {None}]
Elems(s) == {s[k] : k \in 1 .. Len(s)}
Apart(s) == \A k, l \in 1 .. Len(s) : k # l => s[k] # s[l]

(* No address has two entries. *)
Once(list) == \A i, j \in Slot : i # j /\ list[i] # None => list[i] # list[j]

LEMMA WrittenIsLines ==
    ASSUME NEW list
    PROVE  Written(list) = Lines(list)[Size]
BY DEF Written, Lines, Line

LEMMA LinesExist ==
    ASSUME NEW list
    PROVE  \A i \in 0 .. Size : Lines(list)[i] = Line(list, Lines(list), i)
<1> DEFINE T == {m \in 0 .. Size : \E g : g = [i \in 0 .. m |-> Line(list, g, i)]}
<1>1. 0 \in T
  <2> DEFINE g == [i \in 0 .. 0 |-> <<>>]
  <2>1. g = [i \in 0 .. 0 |-> Line(list, g, i)]
    BY DEF Line
  <2> HIDE DEF g
  <2> QED
    BY <2>1, AllowlistAssumption
<1>2. ASSUME NEW m \in 0 .. Size - 1, m \in T PROVE m + 1 \in T
  <2>1. PICK g : g = [i \in 0 .. m |-> Line(list, g, i)]
    BY <1>2
  <2> DEFINE h == [i \in 0 .. m + 1 |-> IF i = m + 1 THEN Line(list, g, m + 1) ELSE g[i]]
  <2>2. \A i \in 0 .. m + 1 : h[i] = Line(list, h, i)
    <3> SUFFICES ASSUME NEW i \in 0 .. m + 1 PROVE h[i] = Line(list, h, i)
      OBVIOUS
    <3>1. i # 0 => h[i - 1] = g[i - 1]
      BY AllowlistAssumption
    <3>2. Line(list, h, i) = Line(list, g, i)
      BY <3>1 DEF Line
    <3>3. i \in 0 .. m => h[i] = g[i] /\ g[i] = Line(list, g, i)
      BY <2>1
    <3> QED
      BY <3>2, <3>3
  <2>3. h = [i \in 0 .. m + 1 |-> Line(list, h, i)]
    BY <2>2
  <2> HIDE DEF h
  <2> QED
    BY <2>3, AllowlistAssumption
<1>3. Size \in T
  <2> HIDE DEF T
  <2> QED
    BY <1>1, <1>2, UpTo, AllowlistAssumption
<1>4. Lines(list) = [i \in 0 .. Size |-> Line(list, Lines(list), i)]
  BY <1>3 DEF Lines
<1> QED
  BY <1>4

(* What a sequence is after an element is added. *)
LEMMA Appended ==
    ASSUME NEW s \in Seq(Addr), NEW a \in Addr
    PROVE  LET t == Append(s, a)
           IN  /\ t \in Seq(Addr) /\ Len(t) = Len(s) + 1
               /\ Elems(t) = Elems(s) \cup {a}
               /\ Apart(s) /\ a \notin Elems(s) => Apart(t)
<1> DEFINE t == Append(s, a)
<1>1. /\ t \in Seq(Addr) /\ Len(t) = Len(s) + 1 /\ Len(s) \in Nat /\ t[Len(s) + 1] = a
      /\ \A k \in 1 .. Len(s) : t[k] = s[k]
  OBVIOUS
<1> HIDE DEF t
<1>2. Elems(t) = Elems(s) \cup {a}
  <2>1. \A k \in 1 .. Len(t) : k = Len(s) + 1 \/ k \in 1 .. Len(s)
    BY <1>1
  <2>2. Elems(t) \subseteq Elems(s) \cup {a}
    BY <1>1, <2>1 DEF Elems
  <2>3. Elems(s) \cup {a} \subseteq Elems(t)
    <3>1. \A k \in 1 .. Len(s) : k \in 1 .. Len(t)
      BY <1>1
    <3>2. Len(s) + 1 \in 1 .. Len(t)
      BY <1>1
    <3> QED
      BY <1>1, <3>1, <3>2 DEF Elems
  <2> QED
    BY <2>2, <2>3
<1>3. ASSUME Apart(s), a \notin Elems(s) PROVE Apart(t)
  BY <1>1, <1>3 DEF Apart, Elems
<1>4. /\ t \in Seq(Addr) /\ Len(t) = Len(s) + 1 /\ Elems(t) = Elems(s) \cup {a}
      /\ Apart(s) /\ a \notin Elems(s) => Apart(t)
  BY <1>1, <1>2, <1>3
<1> QED
  BY <1>4 DEF t

(* The text has the addresses of the table, each once. *)
LEMMA WrittenIs ==
    ASSUME NEW list \in Entries
    PROVE  /\ Written(list) \in Seq(Addr) /\ Len(Written(list)) <= Size
           /\ Elems(Written(list)) = Listed(list)
           /\ Once(list) => Apart(Written(list))
<1> DEFINE g == Lines(list)
           Some(i) == {list[j] : j \in 1 .. i} \ {None}
           Good(i) == /\ g[i] \in Seq(Addr) /\ Len(g[i]) <= i
                      /\ Elems(g[i]) = Some(i)
                      /\ Once(list) => Apart(g[i])
           T == {i \in 0 .. Size : Good(i)}
<1>1. \A i \in 0 .. Size : g[i] = Line(list, g, i)
  BY LinesExist
<1> HIDE DEF g
<1>2. 0 \in T
  <2>1. g[0] = <<>>
    BY <1>1, AllowlistAssumption DEF Line
  <2>2. g[0] \in Seq(Addr) /\ Len(g[0]) = 0
    BY <2>1
  <2>3. Elems(g[0]) = {} /\ Apart(g[0])
    BY <2>2 DEF Elems, Apart
  <2>4. Some(0) = {}
    OBVIOUS
  <2> HIDE DEF Some
  <2>5. Elems(g[0]) = Some(0)
    BY <2>3, <2>4
  <2>6. Good(0)
    BY <2>2, <2>3, <2>5
  <2>7. 0 \in 0 .. Size
    BY AllowlistAssumption
  <2> HIDE DEF Good
  <2> QED
    BY <2>6, <2>7
<1>3. ASSUME NEW i \in 0 .. Size - 1, i \in T PROVE i + 1 \in T
  <2>1. /\ i + 1 \in Slot /\ i + 1 \in 0 .. Size /\ i \in Nat /\ (i + 1) - 1 = i /\ i + 1 # 0
        /\ g[i] \in Seq(Addr) /\ Len(g[i]) \in Nat /\ Len(g[i]) <= i
        /\ Elems(g[i]) = Some(i)
        /\ Once(list) => Apart(g[i])
        /\ list[i + 1] \in Addr \cup {None}
    BY <1>3, AllowlistAssumption DEF Slot, Entries
  <2>2. g[i + 1] = IF list[i + 1] = None THEN g[i] ELSE Append(g[i], list[i + 1])
    BY <1>1, <2>1 DEF Line
  <2>3. Some(i + 1) = (Some(i) \cup {list[i + 1]}) \ {None}
    <3>1. 1 .. i + 1 = (1 .. i) \cup {i + 1}
      BY <2>1
    <3> QED
      BY <3>1
  <2>4. CASE list[i + 1] = None
    <3>1. g[i + 1] = g[i] /\ Some(i + 1) = Some(i)
      BY <2>2, <2>3, <2>4
    <3> HIDE DEF Some
    <3> QED
      BY <2>1, <3>1
  <2>5. CASE list[i + 1] # None
    <3> DEFINE a == list[i + 1]
    <3>1. a \in Addr /\ g[i + 1] = Append(g[i], a) /\ Some(i + 1) = Some(i) \cup {a}
      BY <2>1, <2>2, <2>3, <2>5
    <3>2. Once(list) => a \notin Some(i)
      <4> SUFFICES ASSUME Once(list), NEW j \in 1 .. i PROVE a # list[j]
        OBVIOUS
      <4>1. j \in Slot /\ j # i + 1
        BY <2>1, AllowlistAssumption DEF Slot
      <4> QED
        BY <2>1, <2>5, <4>1 DEF Once
    <3> HIDE DEF Some, a
    <3>3. /\ g[i + 1] \in Seq(Addr) /\ Len(g[i + 1]) = Len(g[i]) + 1
          /\ Elems(g[i + 1]) = Elems(g[i]) \cup {a}
          /\ Apart(g[i]) /\ a \notin Elems(g[i]) => Apart(g[i + 1])
      BY <2>1, <3>1, Appended
    <3>4. Len(g[i + 1]) <= i + 1
      BY <2>1, <3>3
    <3>5. Elems(g[i + 1]) = Some(i + 1) /\ (Once(list) => Apart(g[i + 1]))
      BY <2>1, <3>1, <3>2, <3>3
    <3> QED
      BY <2>1, <3>3, <3>4, <3>5
  <2> QED
    BY <2>4, <2>5
<1>4. Size \in T
  <2> HIDE DEF T
  <2> QED
    BY <1>2, <1>3, UpTo, AllowlistAssumption
<1>5. Written(list) = g[Size]
  BY WrittenIsLines DEF g
<1>6. Some(Size) = Listed(list)
  BY DEF Listed, Slot
<1> QED
  BY <1>4, <1>5, <1>6

-----------------------------------------------------------------------------
(* While the text is loaded, the table fills from its first entry on, with *)
(* addresses that are not to come again, and there is room for the rest.   *)
Filling(k) == /\ \A i \in Slot : i <= k <=> addr_allow_list[i] # None
              /\ k + Len(text) <= Size
Loading == /\ \E k \in 0 .. Size : Filling(k)
           /\ Apart(text) /\ Elems(text) \cap Listed(addr_allow_list) = {}
           /\ \/ text = storedList /\ Listed(addr_allow_list) = {}
              \/ Elems(storedList) = Listed(addr_allow_list)
           /\ calm => Elems(text) \cup Listed(addr_allow_list) = wanted

Running == /\ Elems(storedList) = Listed(addr_allow_list)
           /\ calm => Listed(addr_allow_list) = wanted

IInv == /\ TypeOK
        /\ Once(addr_allow_list)
        /\ Apart(storedList) /\ Len(storedList) <= Size
        /\ pc = "boot" => Loading
        /\ pc = "up" => Running

LEMMA FirstSlotIs ==
    ASSUME NEW a, Found(a)
    PROVE  /\ FirstSlot(a) \in Slot /\ addr_allow_list[FirstSlot(a)] = a
           /\ \A j \in 1 .. FirstSlot(a) - 1 : addr_allow_list[j] # a
<1> DEFINE S == {i \in Slot : addr_allow_list[i] = a}
<1>1. S \in SUBSET Nat /\ S # {}
  BY AllowlistAssumption DEF Slot, Found
<1>2. PICK x \in S : \A y \in S : x <= y
  <2> HIDE DEF S
  <2> QED BY <1>1, LeastOf
<1>3. \A j \in 1 .. x - 1 : addr_allow_list[j] # a
  BY <1>2, AllowlistAssumption DEF Slot
<1> QED
  BY <1>2, <1>3 DEF FirstSlot

(* A free entry takes an address that has none. *)
LEMMA TakeEntry ==
    ASSUME TypeOK, Once(addr_allow_list), NEW a \in Addr, ~Found(a), NEW s \in Slot,
           addr_allow_list[s] = None
    PROVE  LET new == [addr_allow_list EXCEPT ![s] = a]
           IN  /\ new \in Entries /\ Once(new)
               /\ Listed(new) = Listed(addr_allow_list) \cup {a}
<1> DEFINE new == [addr_allow_list EXCEPT ![s] = a]
<1>1. /\ new \in Entries /\ new[s] = a
      /\ \A i \in Slot : i # s => new[i] = addr_allow_list[i]
  BY DEF TypeOK, Entries
<1> HIDE DEF new
<1>2. Once(new)
  BY <1>1 DEF Once, Found
<1>3. Listed(new) = Listed(addr_allow_list) \cup {a}
  BY <1>1, AllowlistAssumption DEF Listed
<1>4. /\ new \in Entries /\ Once(new)
      /\ Listed(new) = Listed(addr_allow_list) \cup {a}
  BY <1>1, <1>2, <1>3
<1> QED
  BY <1>4 DEF new

(* The first entry with an address is the only one. *)
LEMMA ClearEntry ==
    ASSUME TypeOK, Once(addr_allow_list), NEW s \in Slot
    PROVE  LET new == [addr_allow_list EXCEPT ![s] = None]
           IN  /\ new \in Entries /\ Once(new)
               /\ Listed(new) = Listed(addr_allow_list) \ {addr_allow_list[s]}
<1> DEFINE new == [addr_allow_list EXCEPT ![s] = None]
<1>1. /\ new \in Entries /\ new[s] = None
      /\ \A i \in Slot : i # s => new[i] = addr_allow_list[i]
  BY DEF TypeOK, Entries
<1> HIDE DEF new
<1>2. Once(new)
  BY <1>1 DEF Once
<1>3. Listed(new) = Listed(addr_allow_list) \ {addr_allow_list[s]}
  BY <1>1 DEF Once, Listed
<1>4. /\ new \in Entries /\ Once(new)
      /\ Listed(new) = Listed(addr_allow_list) \ {addr_allow_list[s]}
  BY <1>1, <1>2, <1>3
<1> QED
  BY <1>4 DEF new

(* What the text is after a change of the table. *)
LEMMA StoreIs ==
    ASSUME addr_allow_list' \in Entries, Once(addr_allow_list'), Store
    PROVE  /\ storedList' \in Seq(Addr) /\ Len(storedList') <= Size /\ Apart(storedList')
           /\ Elems(storedList') = Listed(addr_allow_list')
BY WrittenIs DEF Store

-----------------------------------------------------------------------------
LEMMA InitHolds == ASSUME Init PROVE IInv
<1>1. TypeOK
  <2>1. enforced \in BOOLEAN /\ storedEnabled \in BOOLEAN /\ calm \in BOOLEAN
    BY Zenon DEF Init
  <2> QED
    BY <2>1 DEF Init, TypeOK
<1>2. /\ Elems(text) = {} /\ Elems(storedList) = {} /\ Apart(text) /\ Apart(storedList)
      /\ Len(text) = 0 /\ Len(storedList) = 0 /\ text = storedList
  BY DEF Init, Elems, Apart
<1>3. Listed(addr_allow_list) = {} /\ Once(addr_allow_list)
  BY DEF Init, Listed, Once
<1>4. Filling(0) /\ 0 \in 0 .. Size
  BY <1>2, AllowlistAssumption DEF Init, Filling, Slot
<1>5. Loading
  BY <1>2, <1>3, <1>4 DEF Init, Loading
<1> QED
  BY <1>1, <1>2, <1>3, <1>5, AllowlistAssumption DEF IInv, Init

(* The first address of the text and the rest of it. *)
LEMMA HeadTailIs ==
    ASSUME NEW s \in Seq(Addr), s # <<>>, Apart(s)
    PROVE  /\ Head(s) \in Addr /\ Tail(s) \in Seq(Addr) /\ Len(Tail(s)) = Len(s) - 1
           /\ Elems(s) = {Head(s)} \cup Elems(Tail(s)) /\ Head(s) \notin Elems(Tail(s))
           /\ Apart(Tail(s))
<1> DEFINE t == Tail(s)
<1>1. /\ Len(s) \in Nat /\ Len(s) # 0 /\ t \in Seq(Addr) /\ Len(t) = Len(s) - 1
      /\ Head(s) = s[1] /\ Head(s) \in Addr
      /\ \A k \in 1 .. Len(t) : t[k] = s[k + 1]
  OBVIOUS
<1> HIDE DEF t
<1>2. \A k \in 1 .. Len(t) : k + 1 \in 1 .. Len(s) /\ k + 1 # 1
  BY <1>1
<1>3. \A k \in 1 .. Len(s) : k # 1 => k - 1 \in 1 .. Len(t) /\ (k - 1) + 1 = k
  BY <1>1
<1>4. Elems(s) \subseteq {Head(s)} \cup Elems(t)
  <2> SUFFICES ASSUME NEW k \in 1 .. Len(s), k # 1 PROVE s[k] \in Elems(t)
    BY <1>1 DEF Elems
  <2>1. k - 1 \in 1 .. Len(t) /\ t[k - 1] = s[k]
    BY <1>1, <1>3
  <2> QED
    BY <2>1 DEF Elems
<1>5. {Head(s)} \cup Elems(t) \subseteq Elems(s)
  <2>1. 1 \in 1 .. Len(s)
    BY <1>1
  <2> QED
    BY <1>1, <1>2, <2>1 DEF Elems
<1>6. Head(s) \notin Elems(t)
  <2> SUFFICES ASSUME NEW k \in 1 .. Len(t) PROVE t[k] # s[1]
    BY <1>1 DEF Elems
  <2>1. 1 \in 1 .. Len(s)
    BY <1>1
  <2> QED
    BY <1>1, <1>2, <2>1 DEF Apart
<1>7. Apart(t)
  <2> SUFFICES ASSUME NEW k \in 1 .. Len(t), NEW l \in 1 .. Len(t), k # l PROVE t[k] # t[l]
    BY DEF Apart
  <2>1. k + 1 # l + 1
    OBVIOUS
  <2> QED
    BY <1>1, <1>2, <2>1 DEF Apart
<1>8. Elems(s) = {Head(s)} \cup Elems(t)
  BY <1>4, <1>5
<1> QED
  BY <1>1, <1>6, <1>7, <1>8 DEF t

(* An address of the text goes into the first entry that is free. *)
LEMMA LoadKeeps == ASSUME IInv, Load PROVE IInv'
<1> DEFINE a == Head(text)
           s == FirstSlot(None)
<1>1. /\ TypeOK /\ Once(addr_allow_list) /\ Loading /\ pc = "boot"
      /\ text \in Seq(Addr) /\ text # <<>> /\ text' = Tail(text)
      /\ UNCHANGED <<pc, enforced, storedEnabled, wanted, calm>> /\ AddAddr(a)
  BY DEF IInv, TypeOK, Load
<1>2. /\ a \in Addr /\ text' \in Seq(Addr) /\ Len(text') = Len(text) - 1
      /\ Elems(text) = {a} \cup Elems(text') /\ a \notin Elems(text') /\ Apart(text')
  BY <1>1, HeadTailIs DEF Loading
<1>3. a \notin Listed(addr_allow_list) /\ ~Found(a)
  <2>1. a \notin Listed(addr_allow_list)
    BY <1>1, <1>2 DEF Loading
  <2> QED
    BY <1>2, <2>1, AllowlistAssumption DEF Listed, Found
<1>4. PICK k \in 0 .. Size : Filling(k)
  BY <1>1 DEF Loading
<1>5. k + 1 \in Slot /\ addr_allow_list[k + 1] = None
  <2>1. Len(text) \in Nat /\ Len(text) # 0
    BY <1>1
  <2>2. k + 1 \in Slot
    BY <1>4, <2>1, AllowlistAssumption DEF Filling, Slot
  <2> QED
    BY <1>4, <2>2 DEF Filling
<1>6. Found(None) /\ s = k + 1
  <2>1. Found(None)
    BY <1>5 DEF Found
  <2>2. s \in Slot /\ addr_allow_list[s] = None /\ \A j \in 1 .. s - 1 : addr_allow_list[j] # None
    BY <2>1, FirstSlotIs
  <2>3. ~(s <= k)
    BY <1>4, <2>2 DEF Filling
  <2>4. ~(k + 1 <= s - 1)
    BY <1>4, <1>5, <2>2, AllowlistAssumption DEF Slot
  <2> QED
    BY <1>4, <2>1, <2>2, <2>3, <2>4, AllowlistAssumption DEF Slot
<1>7. addr_allow_list' = [addr_allow_list EXCEPT ![s] = a] /\ Store
  BY <1>1, <1>3, <1>6 DEF AddAddr
<1> HIDE DEF a, s
<1>8. /\ addr_allow_list' \in Entries /\ Once(addr_allow_list')
      /\ Listed(addr_allow_list') = Listed(addr_allow_list) \cup {a}
      /\ addr_allow_list'[k + 1] = a
      /\ \A i \in Slot : i # k + 1 => addr_allow_list'[i] = addr_allow_list[i]
  <2>1. s \in Slot /\ addr_allow_list[s] = None
    BY <1>5, <1>6
  <2>2. /\ addr_allow_list' \in Entries /\ Once(addr_allow_list')
        /\ Listed(addr_allow_list') = Listed(addr_allow_list) \cup {a}
    BY <1>1, <1>2, <1>3, <1>7, <2>1, TakeEntry
  <2>3. /\ addr_allow_list'[s] = a
        /\ \A i \in Slot : i # s => addr_allow_list'[i] = addr_allow_list[i]
    BY <1>1, <1>7, <2>1 DEF TypeOK
  <2> QED
    BY <1>6, <2>2, <2>3
<1>9. /\ storedList' \in Seq(Addr) /\ Len(storedList') <= Size /\ Apart(storedList')
      /\ Elems(storedList') = Listed(addr_allow_list')
  BY <1>7, <1>8, StoreIs
<1>10. TypeOK'
  BY <1>1, <1>2, <1>8, <1>9 DEF TypeOK, Entries
<1>11. Filling(k + 1)' /\ k + 1 \in 0 .. Size
  <2>1. ASSUME NEW i \in Slot PROVE i <= k + 1 <=> addr_allow_list'[i] # None
    <3>1. CASE i = k + 1
      BY <1>2, <1>4, <1>8, <3>1, AllowlistAssumption
    <3>2. CASE i # k + 1
      <4>1. i <= k + 1 <=> i <= k
        BY <1>4, <3>2, AllowlistAssumption DEF Slot
      <4> QED
        BY <1>4, <1>8, <3>2, <4>1 DEF Filling
    <3> QED
      BY <3>1, <3>2
  <2>2. k + 1 + Len(text') <= Size /\ k + 1 \in 0 .. Size
    BY <1>1, <1>2, <1>4, <1>5, AllowlistAssumption DEF Filling, Slot
  <2> QED
    BY <2>1, <2>2 DEF Filling
<1>12. Loading'
  <2>1. Elems(text') \cap Listed(addr_allow_list') = {}
    BY <1>1, <1>2, <1>8 DEF Loading
  <2>2. calm' => Elems(text') \cup Listed(addr_allow_list') = wanted'
    BY <1>1, <1>2, <1>8 DEF Loading
  <2>3. (\E l \in 0 .. Size : Filling(l))'
    BY <1>11
  <2> QED
    BY <1>2, <1>9, <2>1, <2>2, <2>3 DEF Loading
<1> QED
  BY <1>1, <1>8, <1>9, <1>10, <1>12 DEF IInv

(* Once the text is used up, the table has what it had. *)
LEMMA BootedKeeps == ASSUME IInv, Booted PROVE IInv'
<1>1. /\ TypeOK /\ Loading /\ text = <<>> /\ pc' = "up"
      /\ UNCHANGED <<addr_allow_list, enforced, text, storedList, storedEnabled, wanted, calm>>
  BY DEF IInv, Booted
<1>2. Elems(text) = {}
  BY <1>1 DEF Elems
<1>3. Elems(storedList) = Listed(addr_allow_list)
  BY <1>1, <1>2 DEF Loading
<1>4. Running'
  BY <1>1, <1>2, <1>3 DEF Running, Loading
<1>5. TypeOK'
  BY <1>1 DEF TypeOK
<1> QED
  BY <1>1, <1>4, <1>5 DEF IInv

(* The power goes: what was stored is what there is to load. *)
LEMMA PowerCutKeeps == ASSUME IInv, PowerCut PROVE IInv'
<1>1. /\ TypeOK /\ pc' = "boot" /\ addr_allow_list' = [i \in Slot |-> None]
      /\ enforced' = storedEnabled /\ text' = storedList
      /\ calm' = (calm /\ (pc = "up" \/ text = storedList))
      /\ UNCHANGED <<storedList, storedEnabled, wanted>>
      /\ storedList \in Seq(Addr) /\ Len(storedList) <= Size /\ Apart(storedList)
  BY DEF IInv, TypeOK, PowerCut, PowerOn
<1>2. Listed(addr_allow_list') = {} /\ Once(addr_allow_list') /\ addr_allow_list' \in Entries
  BY <1>1 DEF Listed, Once, Entries
<1>3. TypeOK'
  <2>1. calm' \in BOOLEAN
    BY <1>1, Zenon
  <2> QED
    BY <1>1, <1>2, <2>1 DEF TypeOK, Entries
<1>4. Filling(0)' /\ 0 \in 0 .. Size
  BY <1>1, AllowlistAssumption DEF Filling, Slot
<1>5. ASSUME calm' PROVE Elems(storedList) = wanted
  <2>1. calm /\ (pc = "up" \/ text = storedList)
    BY <1>1, <1>5
  <2>2. CASE pc = "up"
    BY <2>1, <2>2 DEF IInv, Running
  <2>3. CASE pc = "boot"
    BY <2>1, <2>3 DEF IInv, Loading
  <2> QED
    BY <1>1, <2>2, <2>3 DEF TypeOK
<1>6. Loading'
  <2>1. (\E l \in 0 .. Size : Filling(l))'
    BY <1>4
  <2> QED
    BY <1>1, <1>2, <1>5, <2>1 DEF Loading
<1> QED
  BY <1>1, <1>2, <1>3, <1>6 DEF IInv

(* The console adds an address. *)
LEMMA AddKeeps ==
    ASSUME IInv, NEW a \in Addr \cup {None}, allowlist_add_addr(a)
    PROVE  IInv'
<1>1. /\ TypeOK /\ Once(addr_allow_list) /\ Running /\ pc = "up" /\ AddAddr(a)
      /\ wanted' = wanted \cup ({a} \cap Listed(addr_allow_list'))
      /\ UNCHANGED <<pc, enforced, text, storedEnabled, calm>>
      /\ Apart(storedList) /\ Len(storedList) <= Size
  BY DEF IInv, allowlist_add_addr
<1>2. CASE ~Found(a) /\ Found(None)
  <2>1. a \in Addr
    BY <1>2
  <2>2. FirstSlot(None) \in Slot /\ addr_allow_list[FirstSlot(None)] = None
    BY <1>2, FirstSlotIs
  <2>3. addr_allow_list' = [addr_allow_list EXCEPT ![FirstSlot(None)] = a] /\ Store
    BY <1>1, <1>2 DEF AddAddr
  <2>4. /\ addr_allow_list' \in Entries /\ Once(addr_allow_list')
        /\ Listed(addr_allow_list') = Listed(addr_allow_list) \cup {a}
    BY <1>1, <1>2, <2>1, <2>2, <2>3, TakeEntry
  <2>5. /\ storedList' \in Seq(Addr) /\ Len(storedList') <= Size /\ Apart(storedList')
        /\ Elems(storedList') = Listed(addr_allow_list')
    BY <2>3, <2>4, StoreIs
  <2>6. wanted' = wanted \cup {a}
    BY <1>1, <2>4
  <2>7. TypeOK'
    BY <1>1, <2>1, <2>4, <2>5, <2>6 DEF TypeOK, Entries
  <2> QED
    BY <1>1, <2>4, <2>5, <2>6, <2>7 DEF IInv, Running
<1>3. CASE ~(~Found(a) /\ Found(None))
  <2>1. UNCHANGED <<addr_allow_list, storedList>>
    BY <1>1, <1>3 DEF AddAddr
  <2>2. {a} \cap Listed(addr_allow_list) \subseteq Listed(addr_allow_list)
    OBVIOUS
  <2>3. wanted' \subseteq Addr
    BY <1>1, <2>1 DEF TypeOK, Listed
  <2>4. TypeOK'
    BY <1>1, <2>1, <2>3 DEF TypeOK
  <2>5. Running'
    BY <1>1, <2>1 DEF Running
  <2> QED
    BY <1>1, <2>1, <2>4, <2>5 DEF IInv
<1> QED
  BY <1>2, <1>3

(* The console removes one: the first entry that has it, and there is no   *)
(* other.                                                                  *)
LEMMA RemoveIs ==
    ASSUME IInv, NEW a \in Addr \cup {None}, allowlist_remove_addr(a)
    PROVE  /\ IInv'
           /\ a \in Addr => Listed(addr_allow_list') = Listed(addr_allow_list) \ {a}
<1>1. /\ TypeOK /\ Once(addr_allow_list) /\ Running /\ pc = "up" /\ RemoveAddr(a)
      /\ wanted' = wanted \ {a} /\ wanted \subseteq Addr
      /\ UNCHANGED <<pc, enforced, text, storedEnabled, calm>>
      /\ Apart(storedList) /\ Len(storedList) <= Size
  BY DEF IInv, TypeOK, allowlist_remove_addr
<1>2. CASE Found(a)
  <2>1. FirstSlot(a) \in Slot /\ addr_allow_list[FirstSlot(a)] = a
    BY <1>2, FirstSlotIs
  <2>2. addr_allow_list' = [addr_allow_list EXCEPT ![FirstSlot(a)] = None] /\ Store
    BY <1>1, <1>2 DEF RemoveAddr
  <2>3. /\ addr_allow_list' \in Entries /\ Once(addr_allow_list')
        /\ Listed(addr_allow_list') = Listed(addr_allow_list) \ {a}
    BY <1>1, <2>1, <2>2, ClearEntry
  <2>4. /\ storedList' \in Seq(Addr) /\ Len(storedList') <= Size /\ Apart(storedList')
        /\ Elems(storedList') = Listed(addr_allow_list')
    BY <2>2, <2>3, StoreIs
  <2>5. TypeOK'
    BY <1>1, <2>3, <2>4 DEF TypeOK, Entries
  <2> QED
    BY <1>1, <2>3, <2>4, <2>5 DEF IInv, Running
<1>3. CASE ~Found(a)
  <2>1. UNCHANGED <<addr_allow_list, storedList>>
    BY <1>1, <1>3 DEF RemoveAddr
  <2>2. a \notin Listed(addr_allow_list)
    BY <1>3 DEF Listed, Found
  <2>3. TypeOK'
    BY <1>1, <2>1 DEF TypeOK
  <2>4. Running'
    BY <1>1, <2>1, <2>2 DEF Running
  <2> QED
    BY <1>1, <2>1, <2>2, <2>3, <2>4 DEF IInv
<1> QED
  BY <1>2, <1>3

LEMMA EnableKeeps == ASSUME IInv, NEW on \in BOOLEAN, allowlist_enable(on) PROVE IInv'
<1>1. TypeOK'
  BY DEF IInv, TypeOK, allowlist_enable
<1>2. (pc = "boot" => Loading)' /\ (pc = "up" => Running)'
  BY DEF IInv, allowlist_enable, Running
<1> QED
  BY <1>1, <1>2 DEF IInv, allowlist_enable

LEMMA NextKeeps == ASSUME IInv, [Next]_vars PROVE IInv'
<1>1. CASE UNCHANGED vars
  <2>1. TypeOK'
    BY <1>1 DEF IInv, TypeOK, vars
  <2>2. Loading' = Loading /\ Running' = Running
    BY <1>1 DEF vars, Loading, Filling, Running
  <2> QED
    BY <1>1, <2>1, <2>2 DEF IInv, vars
<1> QED
  BY <1>1, LoadKeeps, BootedKeeps, PowerCutKeeps, AddKeeps, RemoveIs, EnableKeeps DEF Next

-----------------------------------------------------------------------------
(* The table, its text and the flags keep their types.                     *)
THEOREM TypeCorrect == Spec => []TypeOK
<1>1. IInv => TypeOK
  BY DEF IInv
<1> QED
  BY <1>1, InitHolds, NextKeeps, PTL DEF Spec

(* An address added is there after every reboot and one removed is not, as *)
(* long as the power does not go during a load                             *)
(* (update_allowlist_to_property(), update_allowlist_from_property()).     *)
THEOREM KeptAlways == Spec => []Kept
<1>1. IInv => Kept
  BY DEF IInv, Kept, Running
<1> QED
  BY <1>1, InitHolds, NextKeeps, PTL DEF Spec

(* Clearing the first entry that matches takes the address off the list    *)
(* (uni_bt_allowlist_remove_addr()).                                       *)
THEOREM RemovedIsGoneAlways == Spec => RemovedIsGone
<1>1. IInv /\ [Next]_vars
      => [\A a \in Addr : allowlist_remove_addr(a) => a \notin Listed(addr_allow_list')]_vars
  BY RemoveIs
<1> QED
  BY <1>1, InitHolds, NextKeeps, PTL DEF Spec, RemovedIsGone
=============================================================================
