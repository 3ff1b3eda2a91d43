-------------------------- MODULE LifecycleProofs ---------------------------
(***************************************************************************)
(* Proofs that drain never closes a connection in use, that TotalOpen is   *)
(* exact up to the moment the target stops, and that a session finds room  *)
(* in CloseCh unless max_connections was raised, for any number of clients *)
(* and connections, whenever the signal, the reload and the sessions'      *)
(* steps come.                                                             *)
(***************************************************************************)
EXTENDS Lifecycle, FiniteSetTheorems, TLAPS

\* What a client has: the connection it works on, the one it is pinned to.
Uses(c) == {held[c], pin[c]} \ {None}

\* A handler that waits for a reply, or is about to release, has a connection;
\* only an unpinned client borrows, and unpinning comes before the release.
HeldWhileBusy ==
    \A c \in Clients :
        /\ phase[c] \in {"busy", "release"} => held[c] # None
        /\ phase[c] \in {"borrow", "release"} => pin[c] = None

\* No connection has two users, none is both idle and about to be closed, and
\* what is idle or about to be closed is open.
Apart ==
    /\ \A c, d \in Clients : c # d => Uses(c) \cap Uses(d) = {}
    /\ \A c \in Clients : held[c] # None => pin[c] \in {None, held[c]}
    /\ queue \cap closeCh = {}
    /\ queue \cup closeCh \subseteq open

\* The inductive invariant.
LifecycleInv ==
    /\ TypeOK
    /\ HeldWhileBusy
    /\ Apart
    /\ InUseSpared
    /\ IsFiniteSet(open) /\ RemainingOpen

LEMMA LifecycleInit == Init => LifecycleInv
  <1> SUFFICES ASSUME Init PROVE LifecycleInv
    OBVIOUS
  <1>1. TypeOK /\ HeldWhileBusy
    <2>1. ctxDone \in BOOLEAN /\ draining \in BOOLEAN /\ cancelled \in BOOLEAN
      BY Zenon DEF Init
    <2>2. HeldWhileBusy
      BY DEF Init, HeldWhileBusy
    <2> QED
      BY <2>1, <2>2, LifecycleAssumption DEF Init, TypeOK
  <1>3. Apart /\ InUseSpared
    <2>1. \A c \in Clients : held[c] = None /\ Uses(c) = {}
      BY DEF Init, Uses
    <2> QED
      BY <2>1 DEF Init, Apart, InUseSpared, Uses
  <1>2. IsFiniteSet(open) /\ RemainingOpen
    BY FS_EmptySet DEF Init, RemainingOpen
  <1> QED
    BY <1>1, <1>2, <1>3 DEF LifecycleInv

-----------------------------------------------------------------------------
(* Types. *)

LEMMA SessionType ==
  ASSUME TypeOK, HeldWhileBusy, NEW c \in Clients,
         \/ Accept(c) \/ Startup(c) \/ ScramServed(c) \/ ScramExchange(c)
         \/ HandleClientMessage(c) \/ Disconnect(c) \/ Session(c)
  PROVE  TypeOK'
  <1> USE LifecycleAssumption
  <1> USE DEF TypeOK, Goto, serverVars, targetVars, backendVars
  <1>1. CASE Accept(c) \/ Register(c) \/ Startup(c)
    BY <1>1 DEF Accept, Register, Startup
  <1>2. CASE ScramServed(c) \/ ScramGivesUp(c) \/ ScramExchange(c) \/ Loop(c) \/ BorrowFails(c)
    BY <1>2 DEF ScramServed, ScramGivesUp, ScramExchange, Loop, BorrowFails
  <1>3. CASE HandleClientMessage(c)
    BY <1>3 DEF HandleClientMessage
  <1>4. ASSUME NEW b \in Backends, BorrowConn(c, b) PROVE TypeOK'
    BY <1>4 DEF BorrowConn
  <1>5. CASE ReplyPins(c) \/ ReplyFails(c) \/ ReadFails(c) \/ Disconnect(c)
    BY <1>5 DEF ReplyPins, ReplyFails, ReadFails, Disconnect
  <1>6. CASE Cleanup(c)
    BY <1>6 DEF Cleanup
  <1>7. CASE ReplyReturns(c) \/ Release(c)
    BY <1>7 DEF ReplyReturns, Release, HeldWhileBusy
  <1> QED
    BY <1>1, <1>2, <1>3, <1>4, <1>5, <1>6, <1>7 DEF Session

LEMMA TargetType ==
  ASSUME TypeOK,
         \/ \E b \in Backends : HandleClose(b) \/ OpenOne(b) \/ CloseOneIdle(b)
         \/ OpenPrivilegedConn \/ OpenPrivilegedFails \/ Drain
  PROVE  TypeOK'
  <1> USE LifecycleAssumption
  <1> USE DEF TypeOK, serverVars, clientVars, targetVars, backendVars
  <1>1. ASSUME NEW b \in Backends, HandleClose(b) \/ OpenOne(b) \/ CloseOneIdle(b)
        PROVE  TypeOK'
    BY <1>1 DEF HandleClose, OpenOne, CloseOneIdle
  <1>2. CASE OpenPrivilegedConn \/ OpenPrivilegedFails
    BY <1>2 DEF OpenPrivilegedConn, OpenPrivilegedFails
  <1>3. CASE DrainStart \/ DrainPools \/ DrainEnd
    BY <1>3 DEF DrainStart, DrainPools, DrainEnd
  <1>4. ASSUME NEW b \in Backends, DrainClose(b) \/ DrainPool(b) PROVE TypeOK'
    BY <1>4 DEF DrainClose, DrainPool
  <1> QED
    BY <1>1, <1>2, <1>3, <1>4 DEF Drain

LEMMA ServerType ==
  ASSUME TypeOK,
         \/ StartReady \/ StartFails \/ Signal \/ AcceptLoop
         \/ ReloadRemove \/ ReloadDrained \/ ReloadTimesOut \/ ReloadRaise
  PROVE  TypeOK'
  <1> USE LifecycleAssumption
  <1> USE DEF TypeOK, serverVars, clientVars, targetVars, backendVars
  <1>1. CASE StartReady \/ StartFails \/ Signal
    BY <1>1 DEF StartReady, StartFails, Signal
  <1>2. CASE AcceptLoop
    BY <1>2 DEF AcceptLoop, AcceptNext, AcceptTimesOut, Shutdown, ShutdownEnd
  <1>3. CASE ReloadRemove \/ ReloadDrained \/ ReloadTimesOut \/ ReloadRaise
    BY <1>3 DEF ReloadRemove, ReloadDrained, ReloadTimesOut, ReloadRaise
  <1> QED
    BY <1>1, <1>2, <1>3

-----------------------------------------------------------------------------
(* The invariant. *)

\* The privileged connection is counted in these places of Target.run.
Privileged == tpc \notin {"opening", "failed", "stopped"}

\* A step that moves no connection.
LEMMA SameUse ==
  ASSUME LifecycleInv, TypeOK', UNCHANGED <<held, pin, queue, closeCh, open, totalOpen>>,
         Privileged' = Privileged,
         \A c \in Clients : phase'[c] \in {"borrow", "busy", "release"} => phase'[c] = phase[c]
  PROVE  LifecycleInv'
  <1>1. HeldWhileBusy'
    BY DEF LifecycleInv, HeldWhileBusy
  <1>2. Apart' /\ InUseSpared'
    BY DEF LifecycleInv, Apart, Uses, InUseSpared
  <1>3. IsFiniteSet(open)' /\ RemainingOpen'
    BY DEF LifecycleInv, RemainingOpen, Privileged
  <1> QED
    BY <1>1, <1>2, <1>3 DEF LifecycleInv

\* A connection leaves CloseCh or the Queue and is closed: nobody uses it.
LEMMA ClosedUnused ==
  ASSUME LifecycleInv, TypeOK', NEW b \in Backends, b \in queue \cup closeCh,
         queue' = queue \ {b}, closeCh' = closeCh \ {b}, open' = open \ {b},
         totalOpen' = totalOpen - 1, UNCHANGED <<held, pin, phase, tpc>>
  PROVE  LifecycleInv'
  <1>1. HeldWhileBusy'
    BY DEF LifecycleInv, HeldWhileBusy
  <1>2. Apart'
    BY DEF LifecycleInv, Apart, Uses
  <1>3. InUseSpared'
    BY DEF LifecycleInv, InUseSpared
  <1>4. b \in open /\ open \subseteq Backends
    BY DEF LifecycleInv, Apart, TypeOK
  <1>5. IsFiniteSet(open') /\ Cardinality(open') = Cardinality(open) - 1
    BY <1>4, FS_RemoveElement DEF LifecycleInv
  <1>6. Cardinality(open) \in Nat
    BY FS_CardinalityType DEF LifecycleInv
  <1>7. RemainingOpen'
    BY <1>5, <1>6 DEF LifecycleInv, RemainingOpen, TypeOK
  <1> QED
    BY <1>1, <1>2, <1>3, <1>5, <1>7 DEF LifecycleInv

\* A new connection, which nobody has yet.
LEMMA OpenedUnused ==
  ASSUME LifecycleInv, TypeOK', NEW b \in Backends, OpenOne(b)
  PROVE  LifecycleInv'
  <1> USE DEF OpenOne, clientVars, targetVars
  <1>1. HeldWhileBusy'
    BY DEF LifecycleInv, HeldWhileBusy
  <1>2. b \notin open /\ \A c \in Clients : b \notin Uses(c)
    BY DEF LifecycleInv, InUseSpared, Uses
  <1>3. Apart'
    BY <1>2 DEF LifecycleInv, Apart, Uses
  <1>4. InUseSpared'
    BY <1>2 DEF LifecycleInv, InUseSpared, Uses
  <1>5. IsFiniteSet(open') /\ Cardinality(open') = Cardinality(open) + 1
    BY <1>2, FS_AddElement DEF LifecycleInv
  <1>6. Cardinality(open) \in Nat
    BY FS_CardinalityType DEF LifecycleInv
  <1>7. RemainingOpen'
    BY <1>5, <1>6 DEF LifecycleInv, RemainingOpen, TypeOK
  <1> QED
    BY <1>1, <1>3, <1>4, <1>5, <1>7 DEF LifecycleInv

LEMMA TargetInv ==
  ASSUME LifecycleInv,
         \/ \E b \in Backends : HandleClose(b) \/ OpenOne(b) \/ CloseOneIdle(b)
         \/ OpenPrivilegedConn \/ OpenPrivilegedFails \/ Drain
  PROVE  LifecycleInv'
  <1>0. TypeOK'
    BY TargetType DEF LifecycleInv
  <1>00. queue \cap closeCh = {}
    BY DEF LifecycleInv, Apart
  <1>1. ASSUME NEW b \in Backends, HandleClose(b) \/ DrainClose(b) PROVE LifecycleInv'
    BY <1>0, <1>00, <1>1, ClosedUnused DEF HandleClose, DrainClose, clientVars, targetVars
  <1>2. ASSUME NEW b \in Backends, CloseOneIdle(b) \/ DrainPool(b) PROVE LifecycleInv'
    BY <1>0, <1>00, <1>2, ClosedUnused DEF CloseOneIdle, DrainPool, clientVars, targetVars
  <1>3. CASE OpenPrivilegedFails \/ DrainStart \/ DrainPools
    BY <1>0, <1>3, SameUse DEF OpenPrivilegedFails, DrainStart, DrainPools, Privileged,
       clientVars, backendVars
  <1>4. CASE OpenPrivilegedConn \/ DrainEnd
    <2>1. UNCHANGED <<held, pin, phase, queue, closeCh, open>>
      BY <1>4 DEF OpenPrivilegedConn, DrainEnd, clientVars
    <2>2. HeldWhileBusy' /\ Apart' /\ InUseSpared'
      BY <2>1 DEF LifecycleInv, HeldWhileBusy, Apart, Uses, InUseSpared
    <2>3. Cardinality(open) \in Nat
      BY FS_CardinalityType DEF LifecycleInv
    <2>4. RemainingOpen'
      BY <1>4, <2>1, <2>3 DEF LifecycleInv, RemainingOpen, TypeOK, OpenPrivilegedConn, DrainEnd
    <2> QED
      BY <1>0, <2>1, <2>2, <2>4 DEF LifecycleInv
  <1> QED
    BY <1>0, <1>1, <1>2, <1>3, <1>4, OpenedUnused DEF Drain

LEMMA ServerInv ==
  ASSUME LifecycleInv,
         \/ StartReady \/ StartFails \/ Signal \/ AcceptLoop
         \/ ReloadRemove \/ ReloadDrained \/ ReloadTimesOut \/ ReloadRaise
  PROVE  LifecycleInv'
  <1>0. TypeOK'
    BY ServerType DEF LifecycleInv
  <1> USE DEF Privileged, serverVars, clientVars, targetVars, backendVars
  <1>1. CASE StartReady \/ StartFails \/ Signal
    BY <1>0, <1>1, SameUse DEF StartReady, StartFails, Signal
  <1>2. CASE AcceptLoop
    BY <1>0, <1>2, SameUse DEF AcceptLoop, AcceptNext, AcceptTimesOut, Shutdown, ShutdownEnd
  <1>3. CASE ReloadRemove \/ ReloadDrained \/ ReloadTimesOut \/ ReloadRaise
    BY <1>0, <1>3, SameUse DEF ReloadRemove, ReloadDrained, ReloadTimesOut, ReloadRaise
  <1> QED
    BY <1>1, <1>2, <1>3

\* A client that gets no new connection, while none moves.
LEMMA FewerUses ==
  ASSUME LifecycleInv, TypeOK', HeldWhileBusy',
         UNCHANGED <<queue, closeCh, open, totalOpen, tpc>>,
         \A c \in Clients : Uses(c)' \subseteq Uses(c),
         \A c \in Clients : held'[c] # None => pin'[c] \in {None, held'[c]}
  PROVE  LifecycleInv'
  <1>1. Apart'
    BY DEF LifecycleInv, Apart
  <1>2. InUseSpared'
    BY DEF LifecycleInv, InUseSpared, Uses
  <1>3. IsFiniteSet(open)' /\ RemainingOpen'
    BY DEF LifecycleInv, RemainingOpen
  <1> QED
    BY <1>1, <1>2, <1>3 DEF LifecycleInv

\* An idle connection gets its only user.
LEMMA BorrowInv ==
  ASSUME LifecycleInv, TypeOK', NEW c \in Clients, NEW b \in Backends, BorrowConn(c, b)
  PROVE  LifecycleInv'
  <1> USE LifecycleAssumption DEF BorrowConn, Goto, targetVars
  <1>1. HeldWhileBusy'
    BY DEF LifecycleInv, HeldWhileBusy, TypeOK
  <1>2. b \in open /\ b \notin closeCh /\ \A d \in Clients : b \notin Uses(d)
    BY DEF LifecycleInv, InUseSpared, Apart, Uses
  <1>3. Uses(c)' = {b} /\ \A d \in Clients : d # c => Uses(d)' = Uses(d)
    BY DEF LifecycleInv, HeldWhileBusy, TypeOK, Uses
  <1>4. Apart'
    BY <1>2, <1>3 DEF LifecycleInv, HeldWhileBusy, Apart, TypeOK
  <1>5. InUseSpared'
    BY <1>2, <1>3 DEF LifecycleInv, InUseSpared, Uses
  <1>6. IsFiniteSet(open)' /\ RemainingOpen'
    BY DEF LifecycleInv, RemainingOpen
  <1> QED
    BY <1>1, <1>4, <1>5, <1>6 DEF LifecycleInv

\* The only user gives its connection to the Queue or to CloseCh.
LEMMA GivenBack ==
  ASSUME LifecycleInv, TypeOK', HeldWhileBusy', NEW c \in Clients, held[c] # None,
         held' = [held EXCEPT ![c] = None],
         pin' = [pin EXCEPT ![c] = None],
         \/ queue' = queue \cup {held[c]} /\ UNCHANGED closeCh
         \/ closeCh' = closeCh \cup {held[c]} /\ UNCHANGED queue,
         UNCHANGED <<open, totalOpen, tpc>>
  PROVE  LifecycleInv'
  <1>1. /\ held[c] \in open /\ held[c] \notin queue \cup closeCh /\ held[c] \in Uses(c)
    BY DEF LifecycleInv, InUseSpared, Uses
  <1>2. Uses(c)' = {} /\ \A d \in Clients : d # c => Uses(d)' = Uses(d)
    BY DEF LifecycleInv, TypeOK, Uses
  <1>3. \A d \in Clients : d # c => held[c] \notin Uses(d)
    BY <1>1 DEF LifecycleInv, Apart
  <1>4. Apart'
    BY <1>1, <1>2, <1>3 DEF LifecycleInv, Apart, TypeOK
  <1>5. InUseSpared'
    BY <1>1, <1>2, <1>3 DEF LifecycleInv, InUseSpared, Uses
  <1>6. IsFiniteSet(open)' /\ RemainingOpen'
    BY DEF LifecycleInv, RemainingOpen
  <1> QED
    BY <1>4, <1>5, <1>6 DEF LifecycleInv

LEMMA SessionInv ==
  ASSUME LifecycleInv, NEW c \in Clients,
         \/ Accept(c) \/ Startup(c) \/ ScramServed(c) \/ ScramExchange(c)
         \/ HandleClientMessage(c) \/ Disconnect(c) \/ Session(c)
  PROVE  LifecycleInv'
  <1>0. TypeOK'
    BY SessionType DEF LifecycleInv
  <1> USE LifecycleAssumption
  <1> USE DEF Goto, serverVars, targetVars, backendVars
  <1>1. CASE Accept(c) \/ Register(c) \/ Startup(c)
    BY <1>0, <1>1, SameUse DEF Accept, Register, Startup, Privileged, LifecycleInv, TypeOK
  <1>2. CASE ScramServed(c) \/ ScramGivesUp(c) \/ ScramExchange(c) \/ Loop(c) \/ BorrowFails(c)
    BY <1>0, <1>2, SameUse DEF ScramServed, ScramGivesUp, ScramExchange, Loop, BorrowFails,
       Privileged, LifecycleInv, TypeOK
  <1>3. CASE ReadFails(c) \/ Disconnect(c)
    BY <1>0, <1>3, SameUse DEF ReadFails, Disconnect, Privileged, LifecycleInv, TypeOK
  <1>4. CASE HandleClientMessage(c) \/ ReplyPins(c) \/ ReplyFails(c) \/ Cleanup(c)
    <2>1. HeldWhileBusy'
      BY <1>4 DEF HandleClientMessage, ReplyPins, ReplyFails, Cleanup, LifecycleInv,
                  HeldWhileBusy, TypeOK
    <2>2. \A d \in Clients : Uses(d)' \subseteq Uses(d)
      BY <1>4 DEF HandleClientMessage, ReplyPins, ReplyFails, Cleanup, LifecycleInv,
                  Uses, TypeOK
    <2>3. \A d \in Clients : held'[d] # None => pin'[d] \in {None, held'[d]}
      BY <1>4 DEF HandleClientMessage, ReplyPins, ReplyFails, Cleanup, LifecycleInv,
                  Apart, TypeOK
    <2> QED
      BY <1>0, <1>4, <2>1, <2>2, <2>3, FewerUses
         DEF HandleClientMessage, ReplyPins, ReplyFails, Cleanup
  <1>5. CASE ReplyReturns(c)
    <2>1. held[c] # None
      BY <1>5 DEF ReplyReturns, LifecycleInv, HeldWhileBusy
    <2>2. HeldWhileBusy'
      BY <1>5 DEF ReplyReturns, LifecycleInv, HeldWhileBusy, TypeOK
    <2>3. CASE Cardinality(queue) < MaxConnections
      BY <1>0, <1>5, <2>1, <2>2, <2>3, GivenBack DEF ReplyReturns
    <2>4. CASE ~(Cardinality(queue) < MaxConnections)
      <3>1. /\ \A d \in Clients : Uses(d)' \subseteq Uses(d)
            /\ \A d \in Clients : held'[d] # None => pin'[d] \in {None, held'[d]}
        BY <1>5, <2>4 DEF ReplyReturns, LifecycleInv, Uses, Apart, TypeOK
      <3> QED
        BY <1>0, <1>5, <2>2, <2>4, <3>1, FewerUses DEF ReplyReturns
    <2> QED
      BY <2>3, <2>4
  <1>6. CASE Release(c)
    <2>1. held[c] # None /\ pin[c] = None
      BY <1>6 DEF Release, LifecycleInv, HeldWhileBusy
    <2>2. HeldWhileBusy'
      BY <1>6 DEF Release, LifecycleInv, HeldWhileBusy, TypeOK
    <2>3. pin' = [pin EXCEPT ![c] = None]
      BY <1>6, <2>1 DEF Release, LifecycleInv, TypeOK
    <2> QED
      BY <1>0, <1>6, <2>1, <2>2, <2>3, GivenBack DEF Release
  <1> QED
    BY <1>0, <1>1, <1>2, <1>3, <1>4, <1>5, <1>6, BorrowInv DEF Session

LEMMA LifecycleStep == LifecycleInv /\ [Next]_vars => LifecycleInv'
  <1> SUFFICES ASSUME LifecycleInv, [Next]_vars PROVE LifecycleInv'
    OBVIOUS
  <1>1. CASE UNCHANGED vars
    <2>1. TypeOK'
      BY <1>1 DEF vars, serverVars, clientVars, targetVars, backendVars, LifecycleInv, TypeOK
    <2> QED
      BY <1>1, <2>1, SameUse DEF vars, clientVars, targetVars, backendVars, Privileged
  <1> QED
    BY <1>1, SessionInv, TargetInv, ServerInv DEF Next

\* Every variable of the server's life cycle keeps its type.
THEOREM LifecycleTypeCorrect == Spec => []TypeOK
  <1>1. LifecycleInv => TypeOK
    BY DEF LifecycleInv
  <1> QED
    BY <1>1, LifecycleInit, LifecycleStep, PTL DEF Spec

\* Whenever the context ends or Reload removes the target, and however the
\* sessions' steps interleave with drain: a connection a client works on or is
\* pinned to is open and is not among those drain, handleClose or closeOneIdle
\* close, nor among those another client can borrow.
THEOREM DrainSparesInUse == Spec => []InUseSpared
  <1>1. LifecycleInv => InUseSpared
    BY DEF LifecycleInv
  <1> QED
    BY <1>1, LifecycleInit, LifecycleStep, PTL DEF Spec

\* TotalOpen is the number of open sockets in every state of the target, so the
\* remaining_open that drain logs at its end is what it leaves behind.
THEOREM RemainingOpenExact == Spec => []RemainingOpen
  <1>1. LifecycleInv => RemainingOpen
    BY DEF LifecycleInv
  <1> QED
    BY <1>1, LifecycleInit, LifecycleStep, PTL DEF Spec

-----------------------------------------------------------------------------
(* Room in CloseCh. *)

\* Unless max_connections was raised, a session that releases a connection finds
\* room in CloseCh, be the target there to empty it or not (Backend.Release).
RoomToRelease ==
    limit <= MaxConnections =>
        \A c \in Clients : phase[c] = "release" => Cardinality(closeCh) < MaxConnections

\* Under the first limit fewer connections are open than CloseCh has places, for the
\* privileged one counts too.
Budget ==
    /\ limit \in {MaxConnections, RaisedMax}
    /\ limit <= MaxConnections /\ open # {} => Cardinality(open) < MaxConnections

LEMMA BudgetInit == Init => Budget
  BY DEF Init, Budget

LEMMA BudgetStep ==
  ASSUME LifecycleInv, Budget, [Next]_vars
  PROVE  Budget'
  <1> USE DEF LifecycleInv
  <1>0. limit \in Nat /\ Cardinality(open) \in Nat /\ totalOpen \in Int
    BY FS_CardinalityType DEF TypeOK
  <1>1. CASE UNCHANGED <<limit, open>>
    BY <1>1 DEF Budget
  <1>2. CASE ReloadRaise
    BY <1>2, LifecycleAssumption DEF ReloadRaise, Budget, backendVars
  <1>3. ASSUME NEW b \in Backends, OpenOne(b) PROVE Budget'
    <2>1. /\ limit' = limit /\ open' = open \cup {b} /\ b \notin open
          /\ totalOpen < limit /\ totalOpen = Cardinality(open) + 1
      BY <1>3 DEF OpenOne, targetVars, RemainingOpen
    <2>2. Cardinality(open') = Cardinality(open) + 1
      BY <2>1, FS_AddElement
    <2> QED
      BY <1>0, <2>1, <2>2, LifecycleAssumption DEF Budget
  <1>4. ASSUME NEW b \in open, open' = open \ {b}, limit' = limit PROVE Budget'
    <2>1. Cardinality(open') = Cardinality(open) - 1
      BY <1>4, FS_RemoveElement
    <2> QED
      BY <1>0, <1>4, <2>1, LifecycleAssumption DEF Budget
  <1>5. ASSUME NEW b \in Backends,
               HandleClose(b) \/ CloseOneIdle(b) \/ DrainClose(b) \/ DrainPool(b)
        PROVE  Budget'
    <2>1. b \in open /\ open' = open \ {b} /\ limit' = limit
      BY <1>5 DEF HandleClose, CloseOneIdle, DrainClose, DrainPool, targetVars, Apart
    <2> QED
      BY <1>4, <2>1
  <1> USE DEF targetVars, backendVars
  <1>6. ASSUME NEW c \in Clients,
               \/ Accept(c) \/ Startup(c) \/ ScramServed(c) \/ ScramExchange(c)
               \/ HandleClientMessage(c) \/ Disconnect(c) \/ Session(c)
        PROVE  UNCHANGED <<limit, open>>
    BY <1>6 DEF Accept, Startup, ScramServed, ScramExchange, HandleClientMessage, Disconnect,
       Session, Register, ScramGivesUp, Loop, BorrowFails, BorrowConn, ReplyPins,
       ReplyReturns, ReplyFails, Release, ReadFails, Cleanup
  <1>7. CASE \/ StartReady \/ StartFails \/ Signal \/ AcceptLoop
             \/ ReloadRemove \/ ReloadDrained \/ ReloadTimesOut
    <2>1. UNCHANGED <<limit, open>>
      BY <1>7 DEF StartReady, StartFails, Signal, AcceptLoop, AcceptNext, AcceptTimesOut,
         Shutdown, ShutdownEnd, ReloadRemove, ReloadDrained, ReloadTimesOut
    <2> QED
      BY <1>1, <2>1
  <1>8. CASE OpenPrivilegedConn \/ OpenPrivilegedFails \/ DrainStart \/ DrainPools \/ DrainEnd
    <2>1. UNCHANGED <<limit, open>>
      BY <1>8 DEF OpenPrivilegedConn, OpenPrivilegedFails, DrainStart, DrainPools, DrainEnd
    <2> QED
      BY <1>1, <2>1
  <1>9. CASE UNCHANGED vars
    BY <1>1, <1>9 DEF vars
  <1> QED
    BY <1>1, <1>2, <1>3, <1>5, <1>6, <1>7, <1>8, <1>9 DEF Next, Drain

\* However many sessions release at once and whether or not the target still runs: as
\* long as max_connections has not been raised none of them waits for room in CloseCh.
\* A raise, which leaves CloseCh at its first size, is what ShutdownEnds excepts.
THEOREM ReleaseFindsRoom == Spec => []RoomToRelease
  <1>1. LifecycleInv /\ Budget => RoomToRelease
    <2> SUFFICES ASSUME LifecycleInv, Budget, limit <= MaxConnections,
                        NEW c \in Clients, phase[c] = "release"
                 PROVE  Cardinality(closeCh) < MaxConnections
      BY DEF RoomToRelease
    <2>1. held[c] \in open /\ closeCh \subseteq open \ {held[c]} /\ IsFiniteSet(open)
      BY DEF LifecycleInv, HeldWhileBusy, InUseSpared, Apart
    <2>2. /\ IsFiniteSet(open \ {held[c]})
          /\ Cardinality(open \ {held[c]}) = Cardinality(open) - 1
      BY <2>1, FS_RemoveElement
    <2>3. /\ Cardinality(closeCh) \in Nat /\ Cardinality(open) \in Nat
          /\ Cardinality(closeCh) <= Cardinality(open \ {held[c]})
      BY <2>1, <2>2, FS_Subset, FS_CardinalityType
    <2>4. Cardinality(open) < MaxConnections
      BY <2>1 DEF Budget
    <2> QED
      BY <2>2, <2>3, <2>4, LifecycleAssumption
  <1>2. Init => LifecycleInv /\ Budget
    BY LifecycleInit, BudgetInit
  <1>3. LifecycleInv /\ Budget /\ [Next]_vars => (LifecycleInv /\ Budget)'
    BY LifecycleStep, BudgetStep
  <1> QED
    BY <1>1, <1>2, <1>3, PTL DEF Spec
=============================================================================
