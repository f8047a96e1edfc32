------------------------------ MODULE CmdQueue ------------------------------
(***************************************************************************)
(* What the uni_bt_*_safe() calls promise to a task that is not the        *)
(* BTstack task: every command handed over is executed on the BTstack      *)
(* task exactly once, in the order in which the calls completed.           *)
(* CmdRing models how the code does it and is checked against this.        *)
(***************************************************************************)
EXTENDS Sequences

CONSTANTS Cmd,     \* the CMD_* values a caller can post
          NoCmd    \* nothing executed yet

VARIABLES pending,    \* commands accepted and not executed yet, oldest first
          executed    \* the command executed last

vars == <<pending, executed>>

Init == pending = <<>> /\ executed = NoCmd

Post(c) == /\ pending' = Append(pending, c)
           /\ UNCHANGED executed

Execute == /\ pending # <<>>
           /\ executed' = Head(pending)
           /\ pending' = Tail(pending)

Next == Execute \/ \E c \in Cmd : Post(c)

Progress == WF_vars(Execute)

Spec == Init /\ [][Next]_vars /\ Progress
=============================================================================
