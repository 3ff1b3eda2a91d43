---------------------------- MODULE ListenProofs ----------------------------
(***************************************************************************)
(* Proofs that the monitor found in Server.Listeners always works and that *)
(* ListenOpen never falls behind the open listen connections, for any      *)
(* number of clients, monitors and connections and under every fault.      *)
(***************************************************************************)
EXTENDS ListenNotify, FiniteSetTheorems, TLAPS

\* A client that is about to register a monitor has opened its connection: the
\* monitor does not start without one.
OpenedFirst == \A c \in Clients : pc[c] = "register" => hand[c] # None

\* The inductive invariant.
ListenInv == TypeOK /\ OpenedFirst /\ RegisteredRuns

LEMMA ListenInit == Init => ListenInv
  BY ListenAssumption DEF Init, ListenInv, TypeOK, OpenedFirst, RegisteredRuns

\* UNLISTEN and disconnect: the monitor that is torn down is no longer the
\* registered one, and the one that stays registered keeps a subscriber.
LEMMA LeaveKeeps ==
  ASSUME ListenInv, NEW c \in Clients, NEW next \in {"idle", "gone"}, Leave(c, next),
         UNCHANGED <<hand, clientUp, backend, conn, listenOpen, monitorVars>>
  PROVE  ListenInv'
  <1> USE ListenAssumption DEF ListenInv
  <1>1. CASE Emptied(c)
    <2>1. /\ registered # None /\ registered' = None
          /\ subs' = [subs EXCEPT ![registered] = @ \ {c}]
      BY <1>1 DEF Leave, RemoveClientFromListen, Emptied, TypeOK
    <2>2. /\ target' = [target EXCEPT ![c] = registered]
          /\ after' = [after EXCEPT ![c] = next]
          /\ pc' = [pc EXCEPT ![c] = "teardown"]
          /\ UNCHANGED subscribed
      BY <1>1 DEF Leave
    <2>3. TypeOK'
      BY <2>1, <2>2 DEF TypeOK, monitorVars
    <2> QED
      BY <2>1, <2>2, <2>3 DEF OpenedFirst, RegisteredRuns, TypeOK
  <1>2. CASE ~Emptied(c)
    <2>1. /\ registered' = registered
          /\ subs' = IF registered = None THEN subs
                     ELSE [subs EXCEPT ![registered] = @ \ {c}]
          /\ registered # None => subs'[registered] # {}
      BY <1>2 DEF Leave, RemoveClientFromListen, Emptied, TypeOK
    <2>2. /\ pc' = [pc EXCEPT ![c] = next]
          /\ subscribed' = [subscribed EXCEPT ![c] = FALSE]
          /\ UNCHANGED <<target, after>>
      BY <1>2 DEF Leave
    <2>3. TypeOK'
      BY <2>1, <2>2 DEF TypeOK, monitorVars
    <2>4. OpenedFirst'
      BY <2>2 DEF OpenedFirst, TypeOK
    <2>5. RegisteredRuns'
      BY <2>1, <2>2 DEF RegisteredRuns, TypeOK, monitorVars
    <2> QED
      BY <2>3, <2>4, <2>5
  <1> QED
    BY <1>1, <1>2

\* The steps of a client goroutine keep the invariant.
LEMMA ClientKeeps ==
  ASSUME ListenInv, NEW c \in Clients,
         \/ Accept(c) \/ Listen(c) \/ Unlisten(c) \/ Disconnect(c)
         \/ HandlerStep(c) \/ ClientLost(c)
  PROVE  ListenInv'
  <1> USE ListenAssumption DEF ListenInv
  <1>1. CASE Accept(c)
    BY <1>1 DEF Accept, TypeOK, OpenedFirst, RegisteredRuns, sharedVars, monitorVars
  <1>2. CASE Listen(c)
    BY <1>2 DEF Listen, TypeOK, OpenedFirst, RegisteredRuns, sharedVars, monitorVars
  <1>3. CASE Unlisten(c)
    BY <1>3, LeaveKeeps DEF Unlisten
  <1>4. CASE Disconnect(c)
    BY <1>4 DEF Disconnect, TypeOK, OpenedFirst, RegisteredRuns, sharedVars, monitorVars
  <1>5. CASE Join(c)
    BY <1>5 DEF Join, Reply, TypeOK, OpenedFirst, RegisteredRuns, monitorVars
  <1>6. CASE Dial(c)
    BY <1>6 DEF Dial, OpenListening, TypeOK, OpenedFirst, RegisteredRuns, sharedVars,
                monitorVars
  <1>7. CASE DialFails(c)
    BY <1>7 DEF DialFails, Reply, TypeOK, OpenedFirst, RegisteredRuns, sharedVars,
                monitorVars
  <1>8. CASE RegisterLate(c)
    BY <1>8 DEF RegisterLate, TypeOK, OpenedFirst, RegisteredRuns, sharedVars, monitorVars
  <1>9. CASE Register(c)
    BY <1>9 DEF Register, Reply, FreeMonitor, Finished, TypeOK, OpenedFirst, RegisteredRuns
  <1>10. CASE Cleanup(c)
    <2>1. CASE subscribed[c]
      BY <1>10, <2>1, LeaveKeeps DEF Cleanup
    <2>2. CASE ~subscribed[c]
      BY <1>10, <2>2 DEF Cleanup, TypeOK, OpenedFirst, RegisteredRuns, monitorVars
    <2> QED
      BY <2>1, <2>2
  <1>11. CASE TearDown(c)
    BY <1>11 DEF TearDown, TakeBackend, TypeOK, OpenedFirst, RegisteredRuns, monitorVars
  <1>12. CASE TornDown(c)
    BY <1>12 DEF TornDown, TypeOK, OpenedFirst, RegisteredRuns, sharedVars, monitorVars
  <1>13. CASE ClientLost(c)
    BY <1>13 DEF ClientLost, TypeOK, OpenedFirst, RegisteredRuns, sharedVars, monitorVars
  <1> QED
    BY <1>1, <1>2, <1>3, <1>4, <1>5, <1>6, <1>7, <1>8, <1>9, <1>10, <1>11, <1>12, <1>13
       DEF HandlerStep

\* The steps of a monitor goroutine keep the invariant.
LEMMA MonitorKeeps ==
  ASSUME ListenInv, NEW m \in Monitors, MonitorStep(m) \/ ReadNotification(m)
  PROVE  ListenInv'
  <1> USE ListenAssumption DEF ListenInv
  <1>1. CASE Loop(m)
    BY <1>1 DEF Loop, Finished, TypeOK, OpenedFirst, RegisteredRuns, clientVars, sharedVars
  <1>2. CASE ReadNotification(m)
    BY <1>2 DEF ReadNotification, Finished, TypeOK, OpenedFirst, RegisteredRuns, clientVars, sharedVars
  <1>3. ASSUME NEW c \in Clients, Deliver(m, c) PROVE ListenInv'
    BY <1>3 DEF Deliver, Finished, TypeOK, OpenedFirst, RegisteredRuns, clientVars, sharedVars
  <1>4. ASSUME NEW c \in Clients, DeliverFails(m, c) PROVE ListenInv'
    BY <1>4 DEF DeliverFails, RemoveClientFromListen, Emptied, Finished, TypeOK,
                OpenedFirst, RegisteredRuns, clientVars
  <1>5. CASE MonitorTearsDown(m)
    BY <1>5 DEF MonitorTearsDown, TakeBackend, Finished, TypeOK, OpenedFirst,
                RegisteredRuns, clientVars
  <1>6. CASE MonitorTornDown(m)
    BY <1>6 DEF MonitorTornDown, Finished, TypeOK, OpenedFirst, RegisteredRuns,
                clientVars, sharedVars
  <1>7. CASE FanOutEnd(m)
    BY <1>7 DEF FanOutEnd, Finished, TypeOK, OpenedFirst, RegisteredRuns, clientVars, sharedVars
  <1>8. CASE ReadError(m)
    BY <1>8 DEF ReadError, Finished, TypeOK, OpenedFirst, RegisteredRuns, clientVars, sharedVars
  <1>9. CASE Reconnect(m)
    BY <1>9 DEF Reconnect, OpenListening, Finished, TypeOK, OpenedFirst, RegisteredRuns,
                clientVars, sharedVars
  <1>10. CASE StoreBackend(m)
    BY <1>10 DEF StoreBackend, Finished, TypeOK, OpenedFirst, RegisteredRuns, clientVars
  <1>11. CASE FailListen(m)
    BY <1>11 DEF FailListen, TypeOK, OpenedFirst, RegisteredRuns, clientVars
  <1>12. CASE FailClients(m)
    BY <1>12 DEF FailClients, Finished, TypeOK, OpenedFirst, RegisteredRuns, sharedVars
  <1> QED
    BY <1>1, <1>2, <1>3, <1>4, <1>5, <1>6, <1>7, <1>8, <1>9, <1>10, <1>11, <1>12
       DEF MonitorStep

LEMMA ListenStep == ListenInv /\ [Next]_vars => ListenInv'
  <1> SUFFICES ASSUME ListenInv, [Next]_vars PROVE ListenInv'
    OBVIOUS
  <1>1. ASSUME NEW k \in Conns, ConnectionLost(k) PROVE ListenInv'
    BY <1>1 DEF ConnectionLost, ListenInv, TypeOK, OpenedFirst, RegisteredRuns,
                clientVars, sharedVars, monitorVars
  <1>2. CASE UNCHANGED vars
    BY <1>2 DEF vars, ListenInv, TypeOK, OpenedFirst, RegisteredRuns, Finished,
                clientVars, sharedVars, monitorVars
  <1> QED
    BY <1>1, <1>2, ClientKeeps, MonitorKeeps DEF Next

\* Whatever clients, monitors, connections and faults do: the monitor that a
\* client finds registered has subscribers, a backend and a goroutine that has
\* not stopped, and nobody is tearing it down (RemoveClientFromListen deletes
\* the map entry before tearDownListen begins, and failListen before it closes).
THEOREM RegisteredMonitorRuns == Spec => []RegisteredRuns
  <1>1. ListenInv => RegisteredRuns
    BY DEF ListenInv
  <1> QED
    BY <1>1, ListenInit, ListenStep, PTL DEF Spec
-----------------------------------------------------------------------------
(* ListenOpen. *)

\* The clients between newConn and the registration, and the monitors whose
\* goroutine has not ended: each of them was counted once.
Registering == {c \in Clients : pc[c] = "register"}
Running == {m \in Monitors : mpc[m] \notin Finished}

\* The connection a monitor answers for: the new one until it is stored.
Own(m) == IF mpc[m] = "store" THEN cur[m] ELSE backend[m]

\* An open listen connection is the one a client has just dialled or the one a
\* running monitor answers for.
OpenOwned ==
    \A k \in Conns : conn[k] = "open" =>
        \/ \E c \in Registering : hand[c] = k
        \/ \E m \in Running : Own(m) = k

\* run reads from the monitor's backend unless tearDownListen has taken it, and
\* reconnects or gives up only after that backend was lost.
LostBefore ==
    \A m \in Monitors :
        /\ mpc[m] = "read" => backend[m] \in {cur[m], None}
        /\ mpc[m] \in {"reconnect", "fail"} /\ backend[m] # None => conn[backend[m]] # "open"

\* Each of them is in ListenOpen; a monitor that ends stays in it.
OwedCounted ==
    /\ IsFiniteSet(Registering) /\ IsFiniteSet(Running)
    /\ Cardinality(Registering) + Cardinality(Running) <= listenOpen

\* The inductive invariant.
CountInv == OpenOwned /\ LostBefore /\ OwedCounted

LEMMA CountInit == Init => CountInv
  <1> SUFFICES ASSUME Init PROVE CountInv
    OBVIOUS
  <1>1. Registering = {} /\ Running = {}
    BY DEF Init, Registering, Running, Finished
  <1>2. OpenOwned /\ LostBefore
    BY DEF Init, OpenOwned, LostBefore
  <1>3. OwedCounted
    BY <1>1, FS_EmptySet DEF OwedCounted, Init
  <1> QED
    BY <1>2, <1>3 DEF CountInv

\* Whoever leaves the count does not lower ListenOpen, except in RegisterLate.
LEMMA FewerOwed ==
  ASSUME OwedCounted, TypeOK, listenOpen' = listenOpen,
         Registering' \subseteq Registering, Running' \subseteq Running
  PROVE  OwedCounted'
  <1>1. /\ IsFiniteSet(Registering') /\ IsFiniteSet(Running')
        /\ Cardinality(Registering') <= Cardinality(Registering)
        /\ Cardinality(Running') <= Cardinality(Running)
    BY FS_Subset DEF OwedCounted
  <1>2. /\ Cardinality(Registering) \in Nat /\ Cardinality(Running) \in Nat
        /\ Cardinality(Registering') \in Nat /\ Cardinality(Running') \in Nat
    BY <1>1, FS_CardinalityType DEF OwedCounted
  <1> QED
    BY <1>1, <1>2 DEF OwedCounted, TypeOK

\* A client dials: it and its connection are counted.
LEMMA DialCount ==
  ASSUME TypeOK, CountInv, NEW c \in Clients, Dial(c)
  PROVE  CountInv'
  <1> USE ListenAssumption DEF CountInv
  <1>1. PICK k \in Conns : OpenListening(k) /\ hand' = [hand EXCEPT ![c] = k]
    BY DEF Dial
  <1>2. Registering' = Registering \cup {c} /\ c \notin Registering /\ Running' = Running
    BY DEF Dial, Registering, Running, Finished, monitorVars, TypeOK
  <1>3. OpenOwned'
    <2> SUFFICES ASSUME NEW j \in Conns, conn'[j] = "open"
                 PROVE  \/ \E d \in Registering' : hand'[d] = j
                        \/ \E m \in Running' : Own(m)' = j
      BY DEF OpenOwned
    <2>1. CASE j = k
      BY <1>1, <1>2, <2>1 DEF TypeOK
    <2>2. CASE j # k
      <3>1. conn[j] = "open"
        BY <1>1, <2>2 DEF OpenListening, TypeOK
      <3>2. /\ \A d \in Registering : hand'[d] = hand[d]
            /\ \A m \in Monitors : Own(m)' = Own(m)
        BY <1>1, <1>2 DEF Dial, Registering, Own, sharedVars, monitorVars, TypeOK
      <3> QED
        BY <1>2, <3>1, <3>2 DEF OpenOwned, Running
    <2> QED
      BY <2>1, <2>2
  <1>4. LostBefore'
    BY <1>1 DEF Dial, OpenListening, FreeConn, Finished, LostBefore, sharedVars,
                monitorVars, TypeOK
  <1>5. OwedCounted'
    <2>1. /\ IsFiniteSet(Registering')
          /\ Cardinality(Registering') = Cardinality(Registering) + 1
      BY <1>2, FS_AddElement DEF OwedCounted
    <2>2. Cardinality(Registering) \in Nat /\ Cardinality(Running) \in Nat
      BY FS_CardinalityType DEF OwedCounted
    <2> QED
      BY <1>2, <2>1, <2>2 DEF OwedCounted, Dial, TypeOK
  <1> QED
    BY <1>3, <1>4, <1>5

\* The slower of two clients closes its connection and uncounts it.
LEMMA RegisterLateCount ==
  ASSUME TypeOK, CountInv, NEW c \in Clients, RegisterLate(c)
  PROVE  CountInv'
  <1> USE ListenAssumption DEF CountInv
  <1>1. Registering' = Registering \ {c} /\ c \in Registering /\ Running' = Running
    BY DEF RegisterLate, Registering, Running, Finished, monitorVars, TypeOK
  <1>2. \A m \in Monitors : Own(m)' = Own(m)
    BY DEF RegisterLate, Own, sharedVars, monitorVars
  <1>3. \A j \in Conns : conn'[j] = "open" => conn[j] = "open" /\ j # hand[c]
    BY DEF RegisterLate, TypeOK
  <1>4. OpenOwned'
    <2> SUFFICES ASSUME NEW j \in Conns, conn'[j] = "open"
                 PROVE  \/ \E d \in Registering' : hand'[d] = j
                        \/ \E m \in Running' : Own(m)' = j
      BY DEF OpenOwned
    <2>1. \A d \in Registering : hand[d] = j => d # c /\ hand'[d] = j
      BY <1>3 DEF RegisterLate, Registering, TypeOK
    <2> QED
      BY <1>1, <1>2, <1>3, <2>1 DEF OpenOwned, Running
  <1>5. LostBefore'
    BY <1>3 DEF RegisterLate, LostBefore, sharedVars, monitorVars, TypeOK
  <1>6. OwedCounted'
    <2>1. /\ IsFiniteSet(Registering')
          /\ Cardinality(Registering') = Cardinality(Registering) - 1
      BY <1>1, FS_RemoveElement DEF OwedCounted
    <2>2. Cardinality(Registering) \in Nat /\ Cardinality(Running) \in Nat
      BY FS_CardinalityType DEF OwedCounted
    <2> QED
      BY <1>1, <2>1, <2>2 DEF OwedCounted, RegisterLate, TypeOK
  <1> QED
    BY <1>4, <1>5, <1>6

\* The client's share of ListenOpen becomes that of the new monitor.
LEMMA RegisterCount ==
  ASSUME TypeOK, CountInv, NEW c \in Clients, Register(c)
  PROVE  CountInv'
  <1> USE ListenAssumption DEF CountInv
  <1>1. PICK m \in Monitors :
          /\ FreeMonitor(m)
          /\ backend' = [backend EXCEPT ![m] = hand[c]]
          /\ mpc' = [mpc EXCEPT ![m] = "loop"]
    BY DEF Register
  <1>2. Registering' = Registering \ {c} /\ c \in Registering
    BY DEF Register, Reply, Registering, TypeOK
  <1>3. Running' = Running \cup {m} /\ m \notin Running
    BY <1>1 DEF Running, FreeMonitor, Finished, TypeOK
  <1>4. /\ Own(m)' = hand[c]
        /\ \A n \in Running : Own(n)' = Own(n)
    BY <1>1, <1>3 DEF Own, Register, Running, TypeOK
  <1>5. OpenOwned'
    <2> SUFFICES ASSUME NEW j \in Conns, conn'[j] = "open"
                 PROVE  \/ \E d \in Registering' : hand'[d] = j
                        \/ \E n \in Running' : Own(n)' = j
      BY DEF OpenOwned
    <2>1. \A d \in Registering : d # c => hand'[d] = hand[d]
      BY DEF Register, Registering, TypeOK
    <2>2. conn[j] = "open"
      BY DEF Register
    <2> QED
      BY <1>2, <1>3, <1>4, <2>1, <2>2 DEF OpenOwned
  <1>6. LostBefore'
    BY <1>1 DEF Register, LostBefore, TypeOK
  <1>7. OwedCounted'
    <2>1. /\ IsFiniteSet(Registering')
          /\ Cardinality(Registering') = Cardinality(Registering) - 1
      BY <1>2, FS_RemoveElement DEF OwedCounted
    <2>2. IsFiniteSet(Running') /\ Cardinality(Running') = Cardinality(Running) + 1
      BY <1>3, FS_AddElement DEF OwedCounted
    <2>3. Cardinality(Registering) \in Nat /\ Cardinality(Running) \in Nat
      BY FS_CardinalityType DEF OwedCounted
    <2> QED
      BY <2>1, <2>2, <2>3 DEF OwedCounted, Register, TypeOK
  <1> QED
    BY <1>5, <1>6, <1>7

\* A step that touches no connection and no backend, and registers nothing.
LEMMA QuietCount ==
  ASSUME TypeOK, CountInv, Registering' = Registering,
         UNCHANGED <<hand, backend, conn, listenOpen, mpc, cur>>
  PROVE  CountInv'
  <1>1. Running' = Running
    BY DEF Running
  <1>2. OpenOwned'
    BY <1>1 DEF CountInv, OpenOwned, Own
  <1>3. LostBefore'
    BY DEF CountInv, LostBefore
  <1>4. OwedCounted'
    BY <1>1, FewerOwed DEF CountInv
  <1> QED
    BY <1>2, <1>3, <1>4 DEF CountInv

\* tearDownListen closes the backend it takes; ListenOpen stays.
LEMMA TakeBackendCount ==
  ASSUME TypeOK, CountInv, NEW t, TakeBackend(t), Registering' = Registering,
         Running' = Running, UNCHANGED <<hand, listenOpen, cur>>,
         \A m \in Monitors : mpc'[m] = mpc[m] \/ (mpc[m] = "teardown" /\ mpc'[m] = "wait")
  PROVE  CountInv'
  <1> USE ListenAssumption DEF CountInv
  <1>1. \A j \in Conns : conn'[j] = "open" => conn[j] = "open" /\ j # backend[t]
    BY DEF TakeBackend, TypeOK
  <1>2. \A m \in Monitors : backend'[m] \in {backend[m], None} /\ (m # t => backend'[m] = backend[m])
    BY DEF TakeBackend, TypeOK
  <1>3. OpenOwned'
    <2> SUFFICES ASSUME NEW j \in Conns, conn'[j] = "open"
                 PROVE  \/ \E d \in Registering' : hand'[d] = j
                        \/ \E m \in Running' : Own(m)' = j
      BY DEF OpenOwned
    <2>1. \A m \in Running : Own(m) = j => Own(m)' = j
      BY <1>1, <1>2 DEF Own, Running
    <2> QED
      BY <1>1, <2>1 DEF OpenOwned
  <1>4. LostBefore'
    BY <1>1, <1>2 DEF LostBefore, TypeOK
  <1>5. OwedCounted'
    BY FewerOwed
  <1> QED
    BY <1>3, <1>4, <1>5

LEMMA ClientCount ==
  ASSUME TypeOK, CountInv, NEW c \in Clients,
         \/ Accept(c) \/ Listen(c) \/ Unlisten(c) \/ Disconnect(c)
         \/ HandlerStep(c) \/ ClientLost(c)
  PROVE  CountInv'
  <1>1. CASE Accept(c) \/ Listen(c) \/ Disconnect(c) \/ Join(c) \/ DialFails(c)
    BY <1>1, QuietCount DEF Accept, Listen, Disconnect, Join, DialFails, Reply,
       Registering, TypeOK, sharedVars, monitorVars
  <1>2. CASE Unlisten(c) \/ Cleanup(c)
    BY <1>2, QuietCount DEF Unlisten, Cleanup, Leave, Registering, TypeOK, monitorVars
  <1>3. CASE TearDown(c)
    <2>1. Registering' = Registering /\ Running' = Running /\ mpc' = mpc
      BY <1>3 DEF TearDown, Registering, Running, TypeOK, monitorVars
    <2> QED
      BY <1>3, <2>1, TakeBackendCount DEF TearDown, monitorVars
  <1>4. CASE TornDown(c) \/ ClientLost(c)
    BY <1>4, QuietCount DEF TornDown, ClientLost, Registering, TypeOK, sharedVars,
       monitorVars
  <1> QED
    BY <1>1, <1>2, <1>3, <1>4, DialCount, RegisterLateCount, RegisterCount
       DEF HandlerStep

\* run moves on: it answers for the connection it answered for, or it has lost
\* that connection and ends.
LEMMA RunMoves ==
  ASSUME TypeOK, CountInv, NEW m \in Monitors, NEW place, NEW k,
         mpc' = [mpc EXCEPT ![m] = place], cur' = [cur EXCEPT ![m] = k],
         mpc[m] \notin Finished, place \notin {"read", "store", "reconnect", "fail"},
         place \notin Finished => mpc[m] # "store",
         place \in Finished => Own(m) = None \/ conn[Own(m)] # "open",
         UNCHANGED <<pc, hand, backend, conn, listenOpen>>
  PROVE  CountInv'
  <1> USE ListenAssumption DEF CountInv
  <1>1. Registering' = Registering
    BY DEF Registering
  <1>2. Running' \subseteq Running /\ \A n \in Running : n # m => n \in Running'
    BY DEF Running, TypeOK
  <1>3. \A n \in Running : n # m => Own(n)' = Own(n)
    BY DEF Own, Running, TypeOK
  <1>4. place \notin Finished => m \in Running' /\ Own(m)' = Own(m)
    BY DEF Own, Running, TypeOK
  <1>5. OpenOwned'
    BY <1>1, <1>2, <1>3, <1>4 DEF OpenOwned, Running
  <1>6. LostBefore'
    BY DEF LostBefore, TypeOK
  <1>7. OwedCounted'
    BY <1>1, <1>2, FewerOwed
  <1> QED
    BY <1>5, <1>6, <1>7

\* The head of the loop reads from the backend, or ends without one.
LEMMA LoopCount ==
  ASSUME TypeOK, CountInv, NEW m \in Monitors, Loop(m)
  PROVE  CountInv'
  <1> USE ListenAssumption DEF CountInv
  <1>1. Registering' = Registering
    BY DEF Loop, Registering, clientVars
  <1>2. /\ Running' \subseteq Running
        /\ \A n \in Running : n \in Running' \/ Own(n) = None
        /\ \A n \in Running : Own(n)' = Own(n)
    BY DEF Loop, Running, Own, Finished, TypeOK, sharedVars
  <1>3. OpenOwned'
    BY <1>1, <1>2 DEF OpenOwned, Loop, clientVars
  <1>4. LostBefore'
    BY DEF LostBefore, Loop, TypeOK, sharedVars
  <1>5. OwedCounted'
    BY <1>1, <1>2, FewerOwed DEF Loop
  <1> QED
    BY <1>3, <1>4, <1>5

\* A failed read: the connection is not open any more.
LEMMA ReadErrorCount ==
  ASSUME TypeOK, CountInv, NEW m \in Monitors, ReadError(m)
  PROVE  CountInv'
  <1> USE ListenAssumption DEF CountInv
  <1>1. Registering' = Registering
    BY DEF ReadError, Registering, clientVars
  <1>2. backend[m] = None \/ conn[backend[m]] # "open"
    BY DEF ReadError, LostBefore
  <1>3. /\ Running' \subseteq Running
        /\ \A n \in Running : n \in Running' \/ n = m
        /\ \A n \in Running : Own(n)' = Own(n)
        /\ Own(m) = backend[m]
    BY DEF ReadError, Running, Own, Finished, TypeOK, sharedVars
  <1>4. OpenOwned'
    BY <1>1, <1>2, <1>3 DEF OpenOwned, ReadError, clientVars
  <1>5. LostBefore'
    BY <1>2 DEF LostBefore, ReadError, TypeOK, sharedVars
  <1>6. OwedCounted'
    BY <1>1, <1>3, FewerOwed DEF ReadError
  <1> QED
    BY <1>4, <1>5, <1>6

\* The new connection takes the place of the lost one, uncounted as the code
\* has it; the lost one is still in ListenOpen.
LEMMA ReconnectCount ==
  ASSUME TypeOK, CountInv, NEW m \in Monitors, Reconnect(m)
  PROVE  CountInv'
  <1> USE ListenAssumption DEF CountInv
  <1>1. PICK k \in Conns : OpenListening(k) /\ cur' = [cur EXCEPT ![m] = k]
    BY DEF Reconnect
  <1>2. Registering' = Registering /\ Running' = Running /\ m \in Running
    BY DEF Reconnect, Registering, Running, Finished, clientVars, TypeOK
  <1>3. /\ Own(m)' = k /\ Own(m) = backend[m]
        /\ \A n \in Running : n # m => Own(n)' = Own(n)
    BY <1>1 DEF Reconnect, Own, Running, sharedVars, TypeOK
  <1>4. backend[m] = None \/ conn[backend[m]] # "open"
    BY DEF Reconnect, LostBefore
  <1>5. OpenOwned'
    <2> SUFFICES ASSUME NEW j \in Conns, conn'[j] = "open"
                 PROVE  \/ \E d \in Registering' : hand'[d] = j
                        \/ \E n \in Running' : Own(n)' = j
      BY DEF OpenOwned
    <2>1. CASE j = k
      BY <1>2, <1>3, <2>1
    <2>2. CASE j # k
      <3>1. conn[j] = "open"
        BY <1>1, <2>2 DEF OpenListening, TypeOK
      <3>2. hand' = hand
        BY DEF Reconnect, clientVars
      <3> QED
        BY <1>2, <1>3, <1>4, <3>1, <3>2 DEF OpenOwned
    <2> QED
      BY <2>1, <2>2
  <1>6. LostBefore'
    BY <1>1 DEF Reconnect, OpenListening, FreeConn, Finished, LostBefore, sharedVars, TypeOK
  <1>7. OwedCounted'
    BY <1>2, FewerOwed DEF Reconnect
  <1> QED
    BY <1>5, <1>6, <1>7

LEMMA MonitorCount ==
  ASSUME TypeOK, CountInv, NEW m \in Monitors, MonitorStep(m) \/ ReadNotification(m)
  PROVE  CountInv'
  <1> USE ListenAssumption
  <1>1. CASE ReadNotification(m) \/ FanOutEnd(m) \/ MonitorTornDown(m)
    BY <1>1, RunMoves DEF ReadNotification, FanOutEnd, MonitorTornDown, Finished,
       TypeOK, clientVars, sharedVars
  <1>2. ASSUME NEW c \in Clients, Deliver(m, c) \/ DeliverFails(m, c) PROVE CountInv'
    <2>1. CASE mpc' = mpc
      BY <1>2, <2>1, QuietCount DEF Deliver, DeliverFails, Registering, clientVars, sharedVars
    <2>2. CASE mpc' # mpc
      <3>1. mpc' = [mpc EXCEPT ![m] = "teardown"] /\ mpc[m] = "fanout" /\ cur' = cur
        BY <1>2, <2>2 DEF Deliver, DeliverFails
      <3>2. cur' = [cur EXCEPT ![m] = cur[m]]
        BY <3>1 DEF TypeOK
      <3> QED
        BY <1>2, <3>1, <3>2, RunMoves DEF Deliver, DeliverFails, Finished, clientVars, sharedVars
    <2> QED
      BY <2>1, <2>2
  <1>3. CASE MonitorTearsDown(m)
    <2>1. Registering' = Registering /\ Running' = Running
      BY <1>3 DEF MonitorTearsDown, Registering, Running, Finished, TypeOK, clientVars
    <2>2. \A n \in Monitors : mpc'[n] = mpc[n] \/ (mpc[n] = "teardown" /\ mpc'[n] = "wait")
      BY <1>3 DEF MonitorTearsDown, TypeOK
    <2> QED
      BY <1>3, <2>1, <2>2, TakeBackendCount DEF MonitorTearsDown, clientVars
  <1>4. CASE StoreBackend(m)
    <2>1. Registering' = Registering /\ Running' = Running
      BY <1>4 DEF StoreBackend, Registering, Running, Finished, TypeOK, clientVars
    <2>2. \A n \in Running : Own(n)' = Own(n)
      BY <1>4 DEF StoreBackend, Own, Running, TypeOK
    <2>3. OpenOwned'
      BY <1>4, <2>1, <2>2 DEF CountInv, OpenOwned, StoreBackend, clientVars
    <2>4. LostBefore'
      BY <1>4 DEF CountInv, LostBefore, StoreBackend, TypeOK
    <2> QED
      BY <1>4, <2>1, <2>3, <2>4, FewerOwed DEF CountInv, StoreBackend
  <1>5. CASE FailListen(m)
    <2>1. Registering' = Registering /\ Running' = Running
      BY <1>5 DEF FailListen, Registering, Running, Finished, TypeOK, clientVars
    <2>2. \A n \in Running : Own(n)' = Own(n)
      BY <1>5 DEF FailListen, Own, Running, TypeOK
    <2>3. OpenOwned'
      BY <1>5, <2>1, <2>2 DEF CountInv, OpenOwned, FailListen, clientVars
    <2>4. LostBefore'
      BY <1>5 DEF CountInv, LostBefore, FailListen, TypeOK
    <2> QED
      BY <1>5, <2>1, <2>3, <2>4, FewerOwed DEF CountInv, FailListen
  <1>6. CASE FailClients(m)
    <2>1. mpc[m] = "fail" /\ Own(m) = backend[m] /\ (backend[m] = None \/ conn[backend[m]] # "open")
      BY <1>6 DEF FailClients, Own, CountInv, LostBefore
    <2>2. cur' = [cur EXCEPT ![m] = cur[m]]
      BY <1>6 DEF FailClients, TypeOK
    <2> QED
      BY <1>6, <2>1, <2>2, RunMoves DEF FailClients, Finished, sharedVars
  <1> QED
    BY <1>1, <1>2, <1>3, <1>4, <1>5, <1>6, LoopCount, ReadErrorCount, ReconnectCount
       DEF MonitorStep

LEMMA CountStep == TypeOK /\ CountInv /\ [Next]_vars => CountInv'
  <1> SUFFICES ASSUME TypeOK, CountInv, [Next]_vars PROVE CountInv'
    OBVIOUS
  <1>1. ASSUME NEW k \in Conns, ConnectionLost(k) PROVE CountInv'
    <2>1. UNCHANGED <<clientVars, sharedVars, listenOpen, monitorVars>>
      BY <1>1 DEF ConnectionLost
    <2>2. Registering' = Registering /\ Running' = Running
      BY <2>1 DEF Registering, Running, clientVars, monitorVars
    <2>3. \A j \in Conns : conn'[j] = "open" => conn[j] = "open"
      BY <1>1 DEF ConnectionLost, TypeOK
    <2>4. OpenOwned' /\ LostBefore'
      BY <2>1, <2>2, <2>3 DEF CountInv, OpenOwned, LostBefore, Own, TypeOK, clientVars,
         sharedVars, monitorVars
    <2> QED
      BY <2>1, <2>2, <2>4, FewerOwed DEF CountInv
  <1>2. CASE UNCHANGED vars
    <2>1. Registering' = Registering
      BY <1>2 DEF vars, clientVars, Registering
    <2> QED
      BY <1>2, <2>1, QuietCount DEF vars, clientVars, sharedVars, monitorVars
  <1> QED
    BY <1>1, <1>2, ClientCount, MonitorCount DEF Next

\* There are no more open connections than counted owners of one.
LEMMA OwnersSuffice == TypeOK /\ CountInv => Counted
  <1> SUFFICES ASSUME TypeOK, CountInv PROVE Counted
    OBVIOUS
  <1> USE DEF CountInv
  <1> DEFINE open  == {k \in Conns : conn[k] = "open"}
             hands == {hand[c] : c \in Registering}
             owns  == {Own(m) : m \in Running}
             handOf == [c \in Registering |-> hand[c]]
             ownOf  == [m \in Running |-> Own(m)]
  <1>1. handOf \in Surjection(Registering, hands) /\ ownOf \in Surjection(Running, owns)
    BY DEF Surjection
  <1>2. /\ IsFiniteSet(hands) /\ Cardinality(hands) <= Cardinality(Registering)
        /\ IsFiniteSet(owns) /\ Cardinality(owns) <= Cardinality(Running)
    <2> HIDE DEF handOf, ownOf, hands, owns
    <2> QED
      BY <1>1, FS_Surjection DEF OwedCounted
  <1>3. open \subseteq hands \cup owns
    BY DEF OpenOwned
  <1> HIDE DEF open, hands, owns
  <1>4. /\ IsFiniteSet(hands \cup owns)
        /\ Cardinality(hands \cup owns) =
              Cardinality(hands) + Cardinality(owns) - Cardinality(hands \cap owns)
    BY <1>2, FS_Union
  <1>5. IsFiniteSet(hands \cap owns)
    BY <1>2, FS_Subset
  <1>6. IsFiniteSet(open) /\ Cardinality(open) <= Cardinality(hands \cup owns)
    BY <1>3, <1>4, FS_Subset
  <1>7. /\ Cardinality(open) \in Nat
        /\ Cardinality(hands) \in Nat /\ Cardinality(owns) \in Nat
        /\ Cardinality(hands \cup owns) \in Nat /\ Cardinality(hands \cap owns) \in Nat
        /\ Cardinality(Registering) \in Nat /\ Cardinality(Running) \in Nat
    BY <1>2, <1>4, <1>5, <1>6, FS_CardinalityType DEF OwedCounted
  <1>8. Cardinality(open) <= listenOpen
    BY <1>2, <1>4, <1>6, <1>7 DEF OwedCounted, TypeOK
  <1> QED
    BY <1>8 DEF Counted, open

\* However joins, registrations, reconnects and teardowns interleave, and
\* whatever breaks: ListenOpen is at least the number of open listen
\* connections, although getOrCreateListen uncounts the connection of the
\* slower client and reconnectListen opens one without counting it.
THEOREM ListenOpenSuffices == Spec => []Counted
  <1>1. ListenInv => TypeOK
    BY DEF ListenInv
  <1> QED
    BY <1>1, ListenInit, ListenStep, CountInit, CountStep, OwnersSuffice, PTL DEF Spec

\* Every variable of the monitors and their clients keeps its type, and run
\* never reads from a nil backend.
THEOREM ListenTypeCorrect == Spec => []TypeOK
  <1>1. ListenInv => TypeOK
    BY DEF ListenInv
  <1> QED
    BY <1>1, ListenInit, ListenStep, PTL DEF Spec
=============================================================================
