---------------------------- MODULE RetainedWrites ----------------------------
(***************************************************************************)
(* What the delivery of a device's writes promises, without outbox,        *)
(* connections or cache: the host executes each write once, in the order   *)
(* the writes were made, and the device learns that it did.                *)
(*                                                                         *)
(* A write the device gave up on no longer holds later ones back, and the  *)
(* host may still execute it if it had been sent before.                   *)
(***************************************************************************)
EXTENDS Naturals, Sequences

CONSTANT MaxWrites   \* writes are 1..MaxWrites, in the order they are made

VARIABLES
  issued,    \* the writes made so far are 1..issued
  executed,  \* the writes the host has executed, in order
  acked,     \* the writes whose Ack the device has taken
  failed     \* the writes the device gave up on

vars == <<issued, executed, acked, failed>>

Init == issued = 0 /\ executed = <<>> /\ acked = {} /\ failed = {}

Issue ==
  /\ issued < MaxWrites
  /\ issued' = issued + 1
  /\ UNCHANGED <<executed, acked>>
  \* Making a write may cost the oldest one or the new one its place.
  /\ \/ UNCHANGED failed
     \/ \E w \in 1..issued' : failed' = failed \union {w}

Ran(w) == \E i \in DOMAIN executed : executed[i] = w

Execute(w) ==
  /\ w <= issued /\ ~Ran(w)
  /\ \A earlier \in 1..(w - 1) : Ran(earlier) \/ earlier \in failed
  /\ executed' = Append(executed, w)
  /\ UNCHANGED <<issued, acked, failed>>

Acknowledge(w) ==
  /\ Ran(w) /\ w \notin acked
  /\ acked' = acked \union {w}
  /\ UNCHANGED <<issued, executed, failed>>

Next == Issue \/ \E w \in 1..MaxWrites : Execute(w) \/ Acknowledge(w)

Spec == Init /\ [][Next]_vars

===============================================================================
