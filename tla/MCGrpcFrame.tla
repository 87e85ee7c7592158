----------------------------- MODULE MCGrpcFrame -----------------------------
(***************************************************************************)
(* grpc_unframe for TLC on every string of up to MaxLen bytes, with a      *)
(* length field of four digits to the base Base.                           *)
(***************************************************************************)
EXTENDS GrpcFrame

CONSTANT MaxLen

VARIABLES raw, out, pc
vars == <<raw, out, pc>>

Init ==
  /\ raw \in UNION {[1..k -> 0..(Base - 1)] : k \in 0..MaxLen}
  /\ out = <<>>
  /\ pc = "start"

Reject ==
  /\ pc = "start" /\ Rejected(raw)
  /\ pc' = "abort"
  /\ UNCHANGED <<raw, out>>

Accept ==
  /\ pc = "start" /\ ~Rejected(raw)
  /\ pc' = "done"
  /\ out' = grpc_unframe(raw)
  /\ UNCHANGED raw

Next == Reject \/ Accept

Spec == Init /\ [][Next]_vars

\* codec.hpp names the second failure "truncated body": what is accepted is as
\* long as its header announces.
WholeBody == pc = "done" => Len(out) = Announced(raw)
=============================================================================
