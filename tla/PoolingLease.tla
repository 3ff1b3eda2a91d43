---------------------------- MODULE PoolingLease ----------------------------
(***************************************************************************)
(* Pooling implements Lease.  A session exists for a client while its      *)
(* connection is open and has not been given up: from OpenOne until the    *)
(* peer goes away, pgfox closes the socket, or Release (or Return into a   *)
(* full Queue) puts the backend on CloseCh.                                *)
(***************************************************************************)
EXTENDS Pooling

InUse(b) == conn[b] = "open" /\ b \notin Range(closeCh)

Holders(b) == {c \in Clients : b \in Owned(c)}

statusBar == [b \in Backends |-> IF InUse(b) THEN tx[b] ELSE "none"]
leaseBar  == [b \in Backends |-> IF InUse(b) /\ Holders(b) # {}
                                 THEN CHOOSE c \in Holders(b) : TRUE
                                 ELSE None]
leftBar   == [b \in Backends |-> IF InUse(b) THEN named[b] ELSE 0]
repliesBar == [b \in Backends |-> IF InUse(b)
                                  THEN [i \in DOMAIN wire[b] |-> wire[b][i].to]
                                  ELSE <<>>]

Lease == INSTANCE Lease WITH
            Sessions <- Backends,
            status <- statusBar, lease <- leaseBar,
            left <- leftBar, replies <- repliesBar

\* The pooler implements the lease: whatever the path of a request and whoever
\* interferes, each of its steps lends a clean session, runs a request of the
\* holder, lets the holder read its own reply, gives back a session in which
\* nothing of the holder is left, begins or ends a session, or changes none of that.
ImplementsLease == Lease!Spec
=============================================================================
