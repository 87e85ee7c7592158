--------------------------- MODULE CallbackService --------------------------
(***************************************************************************)
(* What the callback half of the SDK promises (the Dispatch table and the  *)
(* packed-return paragraph of docs/en.md, "the runtime invokes the right   *)
(* closure"): a pair (kind, token), once given to the host, is bound to    *)
(* one closure for good; a call of it activates that closure; calls nest;  *)
(* and the host receives from a call the answer of that very activation.   *)
(*                                                                         *)
(* No tables, no buffer, no syscall frames: ModRuntime implements it.      *)
(***************************************************************************)
EXTENDS Naturals

CONSTANTS Kind,        \* the kinds of callbacks
          Answering,   \* those that answer
          Export,      \* the exported functions that are no callbacks
          Callback, Answer, NoValue, NoCallback,
          Depth        \* the possible depths of nesting

VARIABLES bound,  \* what the host may call: records [kind, token, cb]
          calls,  \* the activations: records [depth, kind, cb, ans]
          got     \* the answer the host received last

avars == <<bound, calls, got>>

\* No call is deeper than c.
Deepest(c) == \A d \in calls : d.depth <= c.depth

Activate(k, c, a) ==
  \E n \in Depth :
    /\ \A d \in calls : d.depth < n
    /\ calls' = calls \cup {[depth |-> n, kind |-> k, cb |-> c, ans |-> a]}
    /\ UNCHANGED <<bound, got>>

\* The host takes tokens it did not hold: each means one closure, and the
\* two tokens of a config entry come together.
Bind(E) ==
  /\ \A e \in E : \A b \in bound : ~(e.kind = b.kind /\ e.token = b.token)
  /\ \A e, f \in E : e.kind = f.kind => e = f
  /\ bound' = bound \cup E
  /\ UNCHANGED <<calls, got>>

Invoke == \E e \in bound : Activate(e.kind, e.cb, NoValue)

\* A hook, or the description of the module: not a call of a token.
InvokeExport ==
  \E k \in Export, a \in Answer \cup {NoValue} : Activate(k, NoCallback, a)

Finish ==
  \E c \in calls, a \in Answer :
    /\ Deepest(c) /\ c.ans = NoValue /\ c.kind \in Answering
    /\ calls' = (calls \ {c}) \cup {[c EXCEPT !.ans = a]}
    /\ UNCHANGED <<bound, got>>

FinishSilently ==
  \E c \in calls :
    /\ Deepest(c) /\ c.ans = NoValue /\ c.kind \notin Answering
    /\ calls' = calls \ {c}
    /\ UNCHANGED <<bound, got>>

Deliver ==
  \E c \in calls :
    /\ Deepest(c) /\ c.ans # NoValue
    /\ calls' = calls \ {c}
    /\ got' = c.ans
    /\ UNCHANGED bound

\* A trap: the calls from some depth on never answer.
Abort ==
  \E n \in Depth :
    /\ calls' = {c \in calls : c.depth < n}
    /\ UNCHANGED <<bound, got>>

AInit ==
  /\ bound = {}
  /\ calls = {}
  /\ got = NoValue

ANext ==
  \/ Bind(bound' \ bound)
  \/ Invoke
  \/ InvokeExport
  \/ Finish
  \/ FinishSilently
  \/ Deliver
  \/ Abort

ASpec == AInit /\ [][ANext]_avars
=============================================================================
