---------------------------- MODULE DeliveryClaims ----------------------------
(***************************************************************************)
(* What the documentation of delivery says and a run of Delivery           *)
(* contradicts.  Each property is checked in a run of its own, which TLC   *)
(* ends with a counterexample.                                             *)
(***************************************************************************)
EXTENDS Delivery

\* "Every unacknowledged write is sent in queue order" and "the stream and the host
\* preserve that order" (remote.md): no write is executed before an older one that
\* was not given up.  A write made after the transport dropped what it held and
\* before the link heard of it follows writes the link takes for sent, goes out
\* alone, and is first on the new connection.
ExecutedInOrder ==
  \A i \in DOMAIN executed : \A earlier \in 1..(executed[i] - 1) :
    earlier \in failed \/ \E j \in 1..i : executed[j] = earlier

===============================================================================
