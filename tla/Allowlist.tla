------------------------------ MODULE Allowlist ------------------------------
(***************************************************************************)
(* The list of addresses that may connect (bt/uni_bt_allowlist.c): a table *)
(* in RAM and, written after every change, its text in the flash (NVS).    *)
(* At boot the text is read into a buffer and its addresses are added one  *)
(* by one, each addition writing the table back.                           *)
(*                                                                         *)
(* The console is the only caller once the system is up, and the power may *)
(* go at any time.  RAM goes with it, so the change of the table and the   *)
(* write that follows it are one step: a cut between them leaves what a    *)
(* cut before them leaves.  An NVS write is all or nothing.                *)
(***************************************************************************)
EXTENDS Naturals, Sequences

CONSTANTS Addr,   \* bd_addr_t
          None,   \* zero_addr, a free entry
          Size    \* CONFIG_BLUEPAD32_MAX_ALLOWLIST

ASSUME AllowlistAssumption == None \notin Addr /\ Size \in Nat \ {0}

VARIABLES pc,               \* "boot": uni_bt_allowlist_init() under way; "up"
          addr_allow_list, enforced,
          text,             \* val.str: what is still to be added at boot
          storedList, storedEnabled,   \* the properties in NVS
          (* observed *)
          wanted,           \* addresses added and not removed since
          calm              \* the power has never gone while a list was loaded

vars == <<pc, addr_allow_list, enforced, text, storedList, storedEnabled, wanted, calm>>

Slot == 1 .. Size

TypeOK == /\ pc \in {"boot", "up"}
          /\ addr_allow_list \in [Slot -> Addr \cup {None}]
          /\ enforced \in BOOLEAN /\ storedEnabled \in BOOLEAN
          /\ text \in Seq(Addr) /\ storedList \in Seq(Addr)
          /\ wanted \subseteq Addr
          /\ calm \in BOOLEAN

(* is_address_in_allowlist() of a device *)
Listed(list) == {list[i] : i \in Slot} \ {None}

PowerOn == /\ pc' = "boot"
           /\ addr_allow_list' = [i \in Slot |-> None]
           /\ enforced' = storedEnabled
           /\ text' = storedList

Init == /\ pc = "boot"
        /\ addr_allow_list = [i \in Slot |-> None]
        /\ enforced = FALSE /\ storedEnabled = FALSE
        /\ text = <<>> /\ storedList = <<>>
        /\ wanted = {} /\ calm = TRUE

-----------------------------------------------------------------------------
(* update_allowlist_to_property(): the entries in use, one after the other *)
Written(list) ==
  LET upTo[i \in 0 .. Size] == IF i = 0 THEN <<>>
                               ELSE IF list[i] = None THEN upTo[i - 1]
                               ELSE Append(upTo[i - 1], list[i])
  IN  upTo[Size]

Store == storedList' = Written(addr_allow_list')

Found(a) == \E i \in Slot : addr_allow_list[i] = a

FirstSlot(a) == CHOOSE i \in Slot :
                  addr_allow_list[i] = a /\ \A j \in 1 .. i - 1 : addr_allow_list[j] # a

(* Mutant: a slot is taken without looking for the address first. *)
Mutant_AddAddr(a) == IF Found(None)
                     THEN addr_allow_list' = [addr_allow_list EXCEPT ![FirstSlot(None)] = a] /\ Store
                     ELSE UNCHANGED <<addr_allow_list, storedList>>

(* uni_bt_allowlist_add_addr(): not twice, and only while there is room. *)
AddAddr(a) == IF ~Found(a) /\ Found(None)
              THEN addr_allow_list' = [addr_allow_list EXCEPT ![FirstSlot(None)] = a] /\ Store
              ELSE UNCHANGED <<addr_allow_list, storedList>>

(* Mutant: the removal is not stored. *)
Mutant_RemoveAddr(a) == /\ addr_allow_list' = IF Found(a)
                             THEN [addr_allow_list EXCEPT ![FirstSlot(a)] = None]
                             ELSE addr_allow_list
                        /\ UNCHANGED storedList

(* uni_bt_allowlist_remove_addr(): the first entry that matches. *)
RemoveAddr(a) == IF Found(a)
                 THEN addr_allow_list' = [addr_allow_list EXCEPT ![FirstSlot(a)] = None] /\ Store
                 ELSE UNCHANGED <<addr_allow_list, storedList>>

-----------------------------------------------------------------------------
(* update_allowlist_from_property(): one address *)
Load == /\ pc = "boot" /\ text # <<>>
        /\ AddAddr(Head(text))
        /\ text' = Tail(text)
        /\ UNCHANGED <<pc, enforced, storedEnabled, wanted, calm>>

Booted == /\ pc = "boot" /\ text = <<>>
          /\ pc' = "up"
          /\ UNCHANGED <<addr_allow_list, enforced, text, storedList, storedEnabled, wanted, calm>>

(* The console: what is typed may also be the zero address. *)
allowlist_add_addr(a) ==
  /\ pc = "up"
  /\ AddAddr(a)
  /\ wanted' = wanted \cup ({a} \cap Listed(addr_allow_list'))
  /\ UNCHANGED <<pc, enforced, text, storedEnabled, calm>>

allowlist_remove_addr(a) ==
  /\ pc = "up"
  /\ RemoveAddr(a)
  /\ wanted' = wanted \ {a}
  /\ UNCHANGED <<pc, enforced, text, storedEnabled, calm>>

(* uni_bt_allowlist_set_enabled() *)
allowlist_enable(on) ==
  /\ pc = "up" /\ on # enforced
  /\ enforced' = on
  /\ storedEnabled' = on
  /\ UNCHANGED <<pc, addr_allow_list, text, storedList, wanted, calm>>

PowerCut == /\ PowerOn
            /\ calm' = (calm /\ (pc = "up" \/ text = storedList))
            /\ UNCHANGED <<storedList, storedEnabled, wanted>>

Next == \/ Load \/ Booted \/ PowerCut
        \/ \E a \in Addr \cup {None} : allowlist_add_addr(a) \/ allowlist_remove_addr(a)
        \/ \E on \in BOOLEAN : allowlist_enable(on)

Spec == Init /\ [][Next]_vars

-----------------------------------------------------------------------------
(* Removing an address takes it off the list, although only the first      *)
(* entry that matches is cleared (uni_bt_allowlist.c:110-119).             *)
RemovedIsGone == [][\A a \in Addr : allowlist_remove_addr(a) => a \notin Listed(addr_allow_list')]_vars

(* When no cut falls into a load, every address added is there after every *)
(* reboot, and no address that was removed (uni_bt_allowlist.h:24-27).     *)
Kept == pc = "up" /\ calm => Listed(addr_allow_list) = wanted

(* uni_bt_allowlist.h:26 "If you add an address to the allow list, it will *)
(* persist reboots."                                                       *)
Persists == pc = "up" => wanted \subseteq Listed(addr_allow_list)
=============================================================================
