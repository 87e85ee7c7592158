----------------------------- MODULE MCSession -----------------------------
(***************************************************************************)
(* Session for TLC: one other tool, and a host that enters HelloWorld in   *)
(* the syscalls that wait for a user or for other modules, and while it    *)
(* takes the setting's tokens.                                             *)
(***************************************************************************)
EXTENDS Session

Interruptible == {"cfgreg.bool", "evt.emit", "ui.choice"}
=============================================================================
