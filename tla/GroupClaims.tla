----------------------------- MODULE GroupClaims -----------------------------
(***************************************************************************)
(* What the documentation of machine groups says and a run of MachineGroup *)
(* contradicts.  Each property is checked in a run of its own, which TLC   *)
(* ends with a counterexample.                                             *)
(***************************************************************************)
EXTENDS MCMachineGroup

\* "Inside a group there is one way in: a member's one-time invitation" (group.rs)
\* and a removed machine "leaves ... the next time it hears of it" (remote.md):
\* as long as nobody minted an invitation, a machine the group removed stays
\* removed.  Shared::refresh_this_machine raises the removed machine's own entry
\* without knowing of the removal; after two refreshes it outranks it.
RemovalNeedsInvitation ==
  [][(\A m \in Machines : minted[m] = 0) =>
       \A m, n \in Machines :
         Removed(group[m].machines[n]) /\ group'[m].id = group[m].id
           => ~group'[m].machines[n].member]_vars

===============================================================================
