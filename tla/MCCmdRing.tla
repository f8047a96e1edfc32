----------------------------- MODULE MCCmdRing -----------------------------
(* CmdRing for TLC: two callers, the Arduino loop and the USB console task *)
(* (arch/uni_console_esp32.c:91-260).                                      *)
EXTENDS CmdRing

CONSTANTS loop, console, START, STOP

TwoTasks == {loop, console}
ScanCmds == {START, STOP}
=============================================================================
