------------------------------- MODULE CmdRing -------------------------------
(***************************************************************************)
(* The hand-over of commands from other tasks to the BTstack task          *)
(* (components/bluepad32/bt/uni_bt.c, the uni_bt_*_safe() functions, and   *)
(* the run loop of components/btstack that executes them).                 *)
(*                                                                         *)
(* A caller takes the next registration of a ring of CMD_CALLBACK_MAX,     *)
(* fills it in and links it to the run loop's callback list.  Only the     *)
(* list is protected by a mutex: the ring index is a plain static int, so  *)
(* its read and its write are separate steps here, and the second read of  *)
(* the index in "return &cmd_callback_registration[cmd_callback_idx]" may  *)
(* or may not be merged with the first by the compiler.                    *)
(*                                                                         *)
(* Two tasks make these calls, the Arduino loop and the USB console, and   *)
(* nothing keeps them apart or counts what is outstanding.  The model lets *)
(* both happen; the variable orderly observes whether they have.           *)
(***************************************************************************)
EXTENDS Naturals, Sequences, FiniteSets, SequencesExt

CONSTANTS Posters,          \* tasks calling uni_bt_*_safe()
          Cmd,              \* the CMD_* values they post
          NoCmd,            \* context of a registration never filled in
          CMD_CALLBACK_MAX, \* size of the ring (8 in the source)
          MaxOutstanding    \* bound: safe calls begun and not executed yet

ASSUME RingAssumption == /\ IsFiniteSet(Posters)
                         /\ CMD_CALLBACK_MAX \in Nat \ {0}
                         /\ MaxOutstanding \in Nat
                         /\ NoCmd \notin Cmd

Slots  == 0 .. CMD_CALLBACK_MAX - 1
NoSlot == CMD_CALLBACK_MAX

VARIABLES cmd_callback_idx,          \* unsynchronised ring index
          cmd_callback_registration, \* context held by each registration
          callbacks,                 \* btstack_run_loop_base_callbacks: linked slots
          popped,                    \* slot taken off the list, callback not run yet
          executed,                  \* command executed last
          post,                      \* progress of each caller's safe call
          (* observed *)
          orderly                    \* since nothing was outstanding, each call began
                                     \* when no other one was under way and there was
                                     \* a registration left

ringVars == <<cmd_callback_idx, cmd_callback_registration, callbacks, popped,
              executed, post, orderly>>

NotPosting == [stage |-> "none", cmd |-> NoCmd, slot |-> NoSlot]

Posting(p) == post[p].stage # "none"

(* Safe calls that have begun and whose command has not been executed. *)
Outstanding == Len(callbacks) + (IF popped = NoSlot THEN 0 ELSE 1)
                 + Cardinality({p \in Posters : Posting(p)})

RingTypeOK == /\ cmd_callback_idx \in Slots
              /\ cmd_callback_registration \in [Slots -> Cmd \cup {NoCmd}]
              /\ callbacks \in Seq(Slots)
              /\ popped \in Slots \cup {NoSlot}
              /\ executed \in Cmd \cup {NoCmd}
              /\ post \in [Posters -> [stage : {"none", "load", "store", "pick", "fill", "link"},
                                       cmd : Cmd \cup {NoCmd},
                                       slot : Slots \cup {NoSlot}]]
              /\ orderly \in BOOLEAN

RingInit == /\ cmd_callback_idx = 0
            /\ cmd_callback_registration = [s \in Slots |-> NoCmd]
            /\ callbacks = <<>>
            /\ popped = NoSlot
            /\ executed = NoCmd
            /\ post = [p \in Posters |-> NotPosting]
            /\ orderly = TRUE

(* A call that disturbs no other: nobody else is inside one, and fewer are *)
(* outstanding than the ring has registrations.                            *)
InTurn == (\A p \in Posters : ~Posting(p)) /\ Outstanding < CMD_CALLBACK_MAX

(* A task enters one of the uni_bt_*_safe() functions. *)
Call(p, c) == /\ ~Posting(p)
              /\ Outstanding < MaxOutstanding
              /\ post' = [post EXCEPT ![p] = [stage |-> "load", cmd |-> c, slot |-> NoSlot]]
              /\ orderly' = (Outstanding = 0 \/ (orderly /\ InTurn))
              /\ UNCHANGED <<cmd_callback_idx, cmd_callback_registration, callbacks,
                             popped, executed>>

(* Mutant: the index is never advanced. *)
Mutant_NextSlot(s) == s

NextSlot(s) == (s + 1) % CMD_CALLBACK_MAX

(* get_next_callback_registration(): read the index ... *)
LoadIdx(p) == /\ post[p].stage = "load"
              /\ post' = [post EXCEPT ![p].stage = "store",
                                      ![p].slot = NextSlot(cmd_callback_idx)]
              /\ UNCHANGED <<cmd_callback_idx, cmd_callback_registration, callbacks,
                             popped, executed, orderly>>

(* ... write the successor back ... *)
StoreIdx(p) == /\ post[p].stage = "store"
               /\ cmd_callback_idx' = post[p].slot
               /\ post' = [post EXCEPT ![p].stage = "pick"]
               /\ UNCHANGED <<cmd_callback_registration, callbacks, popped, executed, orderly>>

(* ... and index the ring with the value just computed or with a fresh read. *)
PickSlot(p) == /\ post[p].stage = "pick"
               /\ \E s \in {post[p].slot, cmd_callback_idx} :
                    post' = [post EXCEPT ![p].stage = "fill", ![p].slot = s]
               /\ UNCHANGED <<cmd_callback_idx, cmd_callback_registration, callbacks,
                              popped, executed, orderly>>

(* cmd->callback = &cmd_callback; cmd->context = ... *)
Fill(p) == /\ post[p].stage = "fill"
           /\ cmd_callback_registration' =
                [cmd_callback_registration EXCEPT ![post[p].slot] = post[p].cmd]
           /\ post' = [post EXCEPT ![p].stage = "link"]
           /\ UNCHANGED <<cmd_callback_idx, callbacks, popped, executed, orderly>>

(* btstack_linked_list_add_tail() leaves the list alone when the item is on it. *)
AddTail(list, s) == IF s \in ToSet(list) THEN list ELSE Append(list, s)

(* btstack_run_loop_execute_on_main_thread(): link under the mutex, wake the task. *)
Link(p) == /\ post[p].stage = "link"
           /\ callbacks' = AddTail(callbacks, post[p].slot)
           /\ post' = [post EXCEPT ![p] = NotPosting]
           /\ UNCHANGED <<cmd_callback_idx, cmd_callback_registration, popped, executed, orderly>>

(* Mutant: the newest callback is taken. *)
Mutant_Pop == /\ popped = NoSlot
              /\ callbacks # <<>>
              /\ popped' = callbacks[Len(callbacks)]
              /\ callbacks' = SubSeq(callbacks, 1, Len(callbacks) - 1)
              /\ UNCHANGED <<cmd_callback_idx, cmd_callback_registration, executed, post, orderly>>

(* The BTstack task takes the oldest callback off the list, under the mutex. *)
Pop == /\ popped = NoSlot
       /\ callbacks # <<>>
       /\ popped' = Head(callbacks)
       /\ callbacks' = Tail(callbacks)
       /\ UNCHANGED <<cmd_callback_idx, cmd_callback_registration, executed, post, orderly>>

(* It reads the registration and runs cmd_callback(), the mutex released. *)
Run == /\ popped # NoSlot
       /\ executed' = cmd_callback_registration[popped]
       /\ popped' = NoSlot
       /\ UNCHANGED <<cmd_callback_idx, cmd_callback_registration, callbacks, post, orderly>>

PostStep(p) == LoadIdx(p) \/ StoreIdx(p) \/ PickSlot(p) \/ Fill(p) \/ Link(p)

RingNext == \/ \E p \in Posters : PostStep(p) \/ \E c \in Cmd : Call(p, c)
            \/ Pop
            \/ Run

(* A task inside a safe call finishes it, and the BTstack task never stops *)
(* draining its list; nobody has to make another call.                     *)
RingSpec == /\ RingInit /\ [][RingNext]_ringVars
            /\ WF_ringVars(Pop \/ Run)
            /\ \A p \in Posters : WF_ringVars(PostStep(p))

-----------------------------------------------------------------------------
(* The list handed to the run loop is sound whoever calls and however     *)
(* often: no registration is linked twice (a second link of an item would  *)
(* close the list into a cycle) and none is executed that was never filled *)
(* in.  As long as calls come in turn a registration in use is also used   *)
(* once: the slot a caller has picked is neither linked, nor being         *)
(* executed, nor picked by another caller; and whatever went wrong before, *)
(* it is so again once the list has been drained.                          *)
(* (uni_bt.c:79-80 "User can schedule up to "MAX" safe calls per loop".)   *)
SlotInUse(p) == post[p].stage \in {"fill", "link"}
OwnSlot ==
    /\ IsInjective(callbacks)
    /\ \A s \in (ToSet(callbacks) \cup {popped}) \ {NoSlot} : cmd_callback_registration[s] # NoCmd
    /\ orderly =>
         /\ \A p \in Posters : SlotInUse(p) =>
              /\ post[p].slot \notin ToSet(callbacks)
              /\ post[p].slot # popped
              /\ \A q \in Posters \ {p} : SlotInUse(q) => post[q].slot # post[p].slot
         /\ popped \notin ToSet(callbacks)

(* What the BTstack task still has to execute, read through the ring. *)
InFlight == (IF popped = NoSlot THEN <<>> ELSE <<popped>>) \o callbacks
PendingCmds == [k \in 1 .. Len(InFlight) |-> cmd_callback_registration[InFlight[k]]]

(* While calls come in turn the ring implements the queue of commands:     *)
(* nothing is lost, executed twice or reordered; and in turn or not, the   *)
(* BTstack task gets on with what is in flight                             *)
(* (uni_bt.c:184-329, btstack_run_loop_freertos.c:165).                    *)
Queue == INSTANCE CmdQueue WITH pending <- PendingCmds
QueueStep == Queue!Next \/ (PendingCmds' = PendingCmds /\ executed' = executed)
QueueSafe == Queue!Init /\ [][orderly => QueueStep]_ringVars
QueueSpec == QueueSafe /\ Queue!Progress

(* uni_bt.c:79-80 "User can schedule up to "MAX" safe calls per loop", by  *)
(* whatever tasks: every command reaches the BTstack task.  Not so when    *)
(* the loop and the console pick a registration at the same time.          *)
EveryCommand == [][QueueStep]_ringVars
=============================================================================
