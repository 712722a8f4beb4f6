-------------------------- MODULE SubscriptionsClaims --------------------------
(***************************************************************************)
(* What the repository says of reconnects, and the code does not do.       *)
(***************************************************************************)
EXTENDS Subscriptions

\* "A reconnect replays from that cursor exactly" (docs/remote.md).  A store that is
\* a reconnect behind moves the cursor by a live event of the old connection after
\* the new one has asked, and so retires the request whose answer it waits for.
ReconnectReplays == EveryoneCatchesUp
===============================================================================
