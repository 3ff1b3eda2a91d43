-------------------------------- MODULE Lease --------------------------------
(***************************************************************************)
(* What transaction pooling promises, without pools, channels, handlers or *)
(* the target goroutine.  A server session is leased to at most one client *)
(* at a time.  Only its holder runs requests on it and reads the replies,  *)
(* a transaction stays with its holder to its end, and a session is handed *)
(* on only when nothing of its last holder is left in it.  A session may   *)
(* end at any time, with its lease.                                        *)
(***************************************************************************)
EXTENDS Naturals, Sequences

CONSTANTS Clients, Sessions, None

VARIABLES
    status,   \* transaction status of a session: "none" when there is no session
    lease,    \* the client a session is leased to
    left,     \* named statements that live in a session
    replies   \* the clients whose replies have not been read, in order

leaseVars == <<status, lease, left, replies>>

Init ==
    /\ status = [s \in Sessions |-> "none"]
    /\ lease = [s \in Sessions |-> None]
    /\ left = [s \in Sessions |-> 0]
    /\ replies = [s \in Sessions |-> <<>>]

\* Nothing of a client is left in a session.
Clean(s) == status[s] = "I" /\ left[s] = 0 /\ replies[s] = <<>>

Open(s) ==
    /\ status[s] = "none"
    /\ status' = [status EXCEPT ![s] = "I"]
    /\ UNCHANGED <<lease, left, replies>>

Lend(s, c) ==
    /\ lease[s] = None
    /\ Clean(s)
    /\ lease' = [lease EXCEPT ![s] = c]
    /\ UNCHANGED <<status, left, replies>>

\* A request of the holder.  A client in a transaction sends nothing elsewhere.
Run(s, c) ==
    /\ lease[s] = c
    /\ status[s] # "none"
    /\ \A r \in Sessions \ {s} : lease[r] = c => status[r] \notin {"T", "E"}
    /\ status' \in [Sessions -> {"none", "I", "T", "E"}]
    /\ status'[s] # "none"
    /\ \A r \in Sessions \ {s} : status'[r] = status[r]
    /\ \E n \in {0, left[s], left[s] + 1, left[s] - 1} : left' = [left EXCEPT ![s] = n]
    /\ replies' = [replies EXCEPT ![s] = Append(@, c)]
    /\ UNCHANGED lease

\* The holder reads a reply, its own, and keeps the session or, when it leaves
\* nothing behind, gives it back.
Answer(s, c) ==
    /\ lease[s] = c
    /\ replies[s] # <<>>
    /\ Head(replies[s]) = c
    /\ replies' = [replies EXCEPT ![s] = Tail(@)]
    /\ UNCHANGED <<status, left>>
    /\ \/ UNCHANGED lease
       \/ /\ status[s] = "I" /\ left[s] = 0 /\ Tail(replies[s]) = <<>>
          /\ lease' = [lease EXCEPT ![s] = None]

End(s) ==
    /\ status' = [status EXCEPT ![s] = "none"]
    /\ lease' = [lease EXCEPT ![s] = None]
    /\ left' = [left EXCEPT ![s] = 0]
    /\ replies' = [replies EXCEPT ![s] = <<>>]

Next ==
    \E s \in Sessions :
        \/ Open(s) \/ End(s)
        \/ \E c \in Clients : Lend(s, c) \/ Run(s, c) \/ Answer(s, c)

Spec == Init /\ [][Next]_leaseVars
=============================================================================
