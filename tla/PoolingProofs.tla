---------------------------- MODULE PoolingProofs ----------------------------
(***************************************************************************)
(* Proofs about Pooling, for every number of clients, backends and pools:  *)
(* types; that every backend has one owner (Exclusive); that the books of  *)
(* the target goroutine (All, TotalOpen) agree with where the connections  *)
(* are, so that the channels never fill up under a client and no           *)
(* connection is lost; that connections change hands clean; and that       *)
(* Pooling implements Lease.  But for the types, all of it is provided     *)
(* that the clients parse no passthrough named statements, or that no      *)
(* connection breaks, no query_timeout expires and no reply exceeds        *)
(* max_message_size.  Without that proviso it is false: see the run        *)
(* two_owners.                                                             *)
(***************************************************************************)
EXTENDS Pooling, PoolingLease, SequenceTheorems, FiniteSetTheorems, TLAPS

\* What receiving from a channel leaves in it.
LEMMA RangeTail ==
    ASSUME NEW S, NEW s \in Seq(S), s # <<>>
    PROVE  /\ Head(s) \in S
           /\ Tail(s) \in Seq(S)
           /\ Head(s) \in Range(s)
           /\ Range(Tail(s)) \subseteq Range(s)
           /\ IsInjective(s) => /\ IsInjective(Tail(s))
                                /\ Head(s) \notin Range(Tail(s))
<1>1. /\ Head(s) \in S /\ Tail(s) \in Seq(S)
      /\ DOMAIN s = 1..Len(s) /\ Len(s) \in Nat \ {0}
      /\ DOMAIN Tail(s) = 1..(Len(s) - 1)
      /\ \A i \in 1..(Len(s) - 1) : Tail(s)[i] = s[i + 1]
      /\ Head(s) = s[1]
  OBVIOUS
<1>2. Head(s) \in Range(s) /\ Range(Tail(s)) \subseteq Range(s)
  BY <1>1 DEF Range
<1>3. ASSUME IsInjective(s)
      PROVE  IsInjective(Tail(s)) /\ Head(s) \notin Range(Tail(s))
  <2>1. IsInjective(Tail(s))
    BY <1>1, <1>3 DEF IsInjective
  <2>2. \A i \in 1..(Len(s) - 1) : s[i + 1] # s[1]
    BY <1>1, <1>3 DEF IsInjective
  <2> QED BY <1>1, <2>1, <2>2 DEF Range
<1> QED BY <1>1, <1>2, <1>3

\* What sending to a channel adds to it.
LEMMA RangeAppend ==
    ASSUME NEW S, NEW s \in Seq(S), NEW e \in S
    PROVE  /\ Append(s, e) \in Seq(S)
           /\ Range(Append(s, e)) = Range(s) \cup {e}
           /\ IsInjective(s) /\ e \notin Range(s) => IsInjective(Append(s, e))
<1>1. /\ Append(s, e) \in Seq(S)
      /\ DOMAIN s = 1..Len(s) /\ Len(s) \in Nat
      /\ DOMAIN Append(s, e) = 1..(Len(s) + 1)
      /\ \A i \in 1..Len(s) : Append(s, e)[i] = s[i]
      /\ Append(s, e)[Len(s) + 1] = e
  OBVIOUS
<1>2. Range(Append(s, e)) = Range(s) \cup {e}
  <2>1. Range(Append(s, e)) \subseteq Range(s) \cup {e}
    BY <1>1 DEF Range
  <2>2. Range(s) \subseteq Range(Append(s, e))
    BY <1>1 DEF Range
  <2>3. e \in Range(Append(s, e))
    BY <1>1 DEF Range
  <2> QED BY <2>1, <2>2, <2>3
<1>3. ASSUME IsInjective(s), e \notin Range(s)
      PROVE  IsInjective(Append(s, e))
  BY <1>1, <1>3 DEF IsInjective, Range
<1> QED BY <1>1, <1>2, <1>3

\* The empty channel.
LEMMA RangeEmpty == Range(<<>>) = {} /\ IsInjective(<<>>)
BY DEF Range, IsInjective

-----------------------------------------------------------------------------
(* Type correctness. *)

\* The handler's local variable is set exactly while a request is on a backend.
HeldWhileServing ==
    \A c \in Clients : held[c] # None <=> pc[c] \in {"send", "read"}

TypeInv == TypeOK /\ HeldWhileServing

LEMMA TypeInit == Init => TypeInv
<1> SUFFICES ASSUME Init PROVE TypeInv
  OBVIOUS
<1> USE PoolingAssumption DEF Init
<1>1. NoJob \in Jobs
  BY DEF NoJob, Jobs, RequestKinds, Paths
<1>2. SessionTypes /\ PinTypes
  BY <1>1 DEF SessionTypes, PinTypes
<1>3. ServerTypes /\ ChannelTypes
  BY DEF ServerTypes, ChannelTypes, Statuses
<1>4. BookTypes
  BY DEF BookTypes
<1>6. TargetTypes
  BY DEF TargetTypes
<1>5. HeldWhileServing
  BY DEF HeldWhileServing
<1> QED BY <1>2, <1>3, <1>4, <1>5, <1>6 DEF TypeInv, TypeOK

\* The operators that several actions share.
LEMMA SetSessionType ==
    ASSUME ServerTypes, NEW b, NEW state \in {"open", "dead", "closed"},
           SetSession(b, state)
    PROVE  ServerTypes'
<1>1. conn' \in [Backends -> {"open", "dead", "closed"}] /\ tx' \in [Backends -> Statuses]
  BY DEF ServerTypes, SetSession, Statuses
<1>2. named' \in [Backends -> Nat] /\ wire' \in [Backends -> Seq(Replies)]
  <2>1. <<>> \in Seq(Replies)
    BY EmptySeq
  <2> QED BY <2>1 DEF ServerTypes, SetSession
<1> QED BY <1>1, <1>2 DEF ServerTypes

LEMMA DoneType ==
    ASSUME SessionTypes, HeldWhileServing, NEW c \in Clients,
           NEW next \in {"idle", "cleanup"}, Done(c, next),
           UNCHANGED <<namedStmts, clientUp>>
    PROVE  SessionTypes' /\ HeldWhileServing'
<1>1. NoJob \in Jobs
  BY DEF NoJob, Jobs, RequestKinds, Paths
<1>2. SessionTypes'
  BY <1>1 DEF SessionTypes, Done
<1>3. HeldWhileServing'
  BY PoolingAssumption DEF SessionTypes, HeldWhileServing, Done
<1> QED BY <1>2, <1>3

LEMMA ReturnType ==
    ASSUME PinTypes, ChannelTypes, NEW b \in Backends, Return(b)
    PROVE  ChannelTypes' /\ bclient' \in [Backends -> Clients \cup {None}]
<1>1. bclient' \in [Backends -> Clients \cup {None}]
  BY DEF PinTypes, Return
<1>2. CASE queue' = [queue EXCEPT ![bpool[b]] = Append(@, b)] /\ UNCHANGED closeCh
  BY <1>1, <1>2, RangeAppend DEF ChannelTypes
<1>3. CASE closeCh' = Append(closeCh, b) /\ UNCHANGED queue
  BY <1>1, <1>3, RangeAppend DEF ChannelTypes
<1> QED BY <1>1, <1>2, <1>3 DEF Return

LEMMA ReleaseType ==
    ASSUME PinTypes, ChannelTypes, NEW b \in Backends, Release(b)
    PROVE  PinTypes' /\ ChannelTypes'
<1>1. PinTypes'
  BY DEF PinTypes, Release
<1>2. ChannelTypes'
  BY DEF ChannelTypes, Release
<1> QED BY <1>1, <1>2

LEMMA PinType ==
    ASSUME PinTypes, ChannelTypes, NEW c \in Clients, NEW b \in Backends, Pin(c, b),
           inTx' \in [Clients -> BOOLEAN]
    PROVE  PinTypes' /\ ChannelTypes'
BY DEF PinTypes, ChannelTypes, channelVars, Pin

LEMMA UnpinType ==
    ASSUME PinTypes, ChannelTypes, NEW c \in Clients, NEW b \in Backends,
           NEW clear, Unpin(c, b, clear), inTx' \in [Clients -> BOOLEAN]
    PROVE  PinTypes' /\ ChannelTypes'
<1>1. pin' \in [Clients -> Backends \cup {None}]
  BY DEF PinTypes, Unpin
<1> QED BY <1>1, ReturnType DEF PinTypes, Unpin

LEMMA ReconcileType ==
    ASSUME PinTypes, ChannelTypes, NEW c \in Clients, NEW b \in Backends,
           NEW status, Reconcile(c, b, status)
    PROVE  PinTypes' /\ ChannelTypes'
<1>1. inTx' \in [Clients -> BOOLEAN]
  BY DEF PinTypes, Reconcile
<1> QED BY <1>1, PinType, UnpinType DEF Reconcile

\* Every step of a client goroutine, and a listen monitor's interference.
LEMMA TypeClient ==
    ASSUME TypeInv, NEW c \in Clients, ClientStep(c) \/ FailListen(c)
    PROVE  TypeInv'
<1> USE PoolingAssumption DEF TypeInv, TypeOK, clientVars, serverVars, backendVars, countVars, channelVars, targetVars
<1>0. pc[c] \in {"send", "read"} => held[c] \in Backends
  BY DEF HeldWhileServing, SessionTypes
<1>a. NoJob \in Jobs
  BY DEF NoJob, Jobs, RequestKinds, Paths
<1>1. CASE Accept(c)
  BY <1>1 DEF Accept, SessionTypes, PinTypes, ServerTypes, ChannelTypes, BookTypes, TargetTypes, HeldWhileServing
<1>2. CASE HandleClientMessage(c)
  <2>1. job' \in [Clients -> Jobs] /\ namedStmts' \in [Clients -> Nat]
    <3>1. CASE ExecuteQuery(c)
      <4>1. PICK req \in Requests, path \in Paths, usePin \in BOOLEAN : Start(c, req, path, usePin)
        BY <3>1, Zenon DEF ExecuteQuery, Paths
      <4>2. [req |-> req, path |-> path, pinned |-> usePin \/ RequiresPin(req)] \in Jobs
        BY <4>1 DEF Jobs, RequiresPin
      <4> QED BY <3>1, <4>1, <4>2 DEF ExecuteQuery, Start, SessionTypes
    <3>2. CASE ExecuteExtendedPipeline(c)
      BY <3>2 DEF ExecuteExtendedPipeline, Start, SessionTypes, Jobs, RequestKinds, Paths, RequiresPin
    <3> QED BY <1>2, <3>1, <3>2 DEF HandleClientMessage
  <2>2. /\ held' \in [Clients -> Backends \cup {None}]
        /\ pc' \in [Clients -> {"gone", "idle", "borrow", "wait", "send", "read", "cleanup"}]
        /\ HeldWhileServing'
    BY <1>2 DEF HandleClientMessage, ExecuteQuery, ExecuteExtendedPipeline, Start,
                SessionTypes, PinTypes, HeldWhileServing
  <2> QED BY <1>2, <2>1, <2>2 DEF HandleClientMessage, SessionTypes, PinTypes,
             ServerTypes, ChannelTypes, BookTypes, TargetTypes
<1>3. CASE Disconnect(c)
  BY <1>3, DoneType DEF Disconnect, PinTypes, ServerTypes, ChannelTypes, BookTypes, TargetTypes
<1>4. CASE ClientDrops(c)
  BY <1>4 DEF ClientDrops, HeldWhileServing, SessionTypes, PinTypes, ServerTypes, ChannelTypes, BookTypes, TargetTypes
<1>5. CASE BorrowConn(c)
  <2>1. Head(queue[PoolOf[c]]) \in Backends /\ Tail(queue[PoolOf[c]]) \in Seq(Backends)
    BY <1>5, RangeTail DEF BorrowConn, TakeFromQueue, ChannelTypes
  <2> QED BY <1>5, <2>1 DEF BorrowConn, TakeFromQueue, SessionTypes, PinTypes,
             ServerTypes, ChannelTypes, BookTypes, TargetTypes, HeldWhileServing
<1>6. CASE BorrowWait(c)
  BY <1>6 DEF BorrowWait, HeldWhileServing, SessionTypes, PinTypes, ServerTypes, ChannelTypes, BookTypes, TargetTypes
<1>7. CASE BorrowTimeout(c)
  BY <1>7, DoneType DEF BorrowTimeout, PinTypes, ServerTypes, ChannelTypes, BookTypes, TargetTypes
<1>8. CASE SendRequest(c)
  <2>1. ServerTypes'
    <3>1. \A st \in Outcomes(job[c].path, tx[held[c]]) : st \in Statuses
      BY <1>8, <1>0 DEF SendRequest, ServerTypes, Outcomes, Statuses
    <3>2. tx' \in [Backends -> Statuses] /\ wire' \in [Backends -> Seq(Replies)]
      <4>1. PICK st \in Outcomes(job[c].path, tx[held[c]]) :
              /\ tx' = [tx EXCEPT ![held[c]] = st]
              /\ wire' = [wire EXCEPT ![held[c]] = Append(@, [to |-> c, tx |-> st])]
        BY <1>8 DEF SendRequest, Serve
      <4>2. [to |-> c, tx |-> st] \in Replies
        BY <3>1 DEF Replies
      <4>3. Append(wire[held[c]], [to |-> c, tx |-> st]) \in Seq(Replies)
        BY <1>0, <1>8, <4>2, RangeAppend DEF SendRequest, ServerTypes
      <4> QED BY <3>1, <4>1, <4>3 DEF ServerTypes
    <3>3. named' \in [Backends -> Nat]
      BY <1>8 DEF SendRequest, Serve, ServerTypes, Max2
    <3> QED BY <1>8, <3>2, <3>3 DEF SendRequest, Serve, ServerTypes
  <2> QED BY <1>8, <2>1 DEF SendRequest, SessionTypes, PinTypes, ChannelTypes,
             BookTypes, TargetTypes, HeldWhileServing
<1>9. CASE SendUnnoticed(c)
  BY <1>9 DEF SendUnnoticed, HeldWhileServing, SessionTypes, PinTypes, ServerTypes, ChannelTypes, BookTypes, TargetTypes
<1>10. CASE SendFails(c)
  BY <1>10, <1>0, DoneType, ReleaseType DEF SendFails, ServerTypes, BookTypes, TargetTypes
<1>11. CASE DeployFails(c)
  BY <1>11, <1>0, DoneType, ReleaseType DEF DeployFails, ServerTypes, BookTypes, TargetTypes
<1>12. CASE ReadReply(c)
  <2>1. ServerTypes'
    BY <1>12, <1>0 DEF ReadReply, ServerTypes
  <2>2. PinTypes' /\ ChannelTypes'
    <3>1. CASE job[c].path = "notify"
      BY <1>12, <1>0, <3>1, ReturnType DEF ReadReply, PinTypes
    <3>2. CASE job[c].path = "flush" /\ job[c].pinned
      BY <1>12, <3>2 DEF ReadReply, AfterFlush, PinTypes, ChannelTypes
    <3>3. CASE job[c].path = "flush" /\ ~job[c].pinned
      BY <1>12, <1>0, <3>3, PinType DEF ReadReply, AfterFlush, PinTypes
    <3>4. CASE job[c].path \notin {"notify", "flush"}
      BY <1>12, <1>0, <3>4, ReconcileType DEF ReadReply
    <3> QED BY <3>1, <3>2, <3>3, <3>4
  <2> QED BY <1>12, <2>1, <2>2, DoneType DEF ReadReply, BookTypes, TargetTypes
<1>13. CASE ForwardFails(c)
  BY <1>13, <1>0, DoneType, ReleaseType DEF ForwardFails, ServerTypes, BookTypes, TargetTypes
<1>14. CASE ReadErrorSimple(c)
  BY <1>14, <1>0, DoneType, ReleaseType DEF ReadErrorSimple, ReadFails, ServerTypes, BookTypes, TargetTypes
<1>15. CASE ReadErrorExtended(c)
  <2>1. PinTypes' /\ ChannelTypes'
    <3>1. CASE ~clientUp[c]
      BY <1>15, <1>0, <3>1, ReleaseType DEF ReadErrorExtended, ReadFails
    <3>2. CASE clientUp[c] /\ job[c].path = "flush" /\ job[c].pinned
      BY <1>15, <3>2 DEF ReadErrorExtended, AfterFlush, PinTypes, ChannelTypes
    <3>3. CASE clientUp[c] /\ job[c].path = "flush" /\ ~job[c].pinned
      BY <1>15, <1>0, <3>3, PinType DEF ReadErrorExtended, AfterFlush, ReadFails, PinTypes
    <3>4. CASE clientUp[c] /\ job[c].path # "flush"
      BY <1>15, <1>0, <3>4, ReconcileType DEF ReadErrorExtended, ReadFails
    <3> QED BY <3>1, <3>2, <3>3, <3>4
  <2>2. SessionTypes' /\ HeldWhileServing'
    BY <1>15, DoneType DEF ReadErrorExtended
  <2> QED BY <1>15, <2>1, <2>2 DEF ReadErrorExtended, ServerTypes, BookTypes, TargetTypes
<1>16. CASE Cleanup(c)
  <2>1. PinTypes' /\ ChannelTypes' /\ ServerTypes'
    <3>1. CASE pin[c] # None
      BY <1>16, <3>1, ReleaseType, SetSessionType DEF Cleanup, PinTypes
    <3>2. CASE pin[c] = None
      BY <1>16, <3>2 DEF Cleanup, PinTypes, ChannelTypes, ServerTypes
    <3> QED BY <3>1, <3>2
  <2> QED BY <1>16, <2>1 DEF Cleanup, SessionTypes, BookTypes, TargetTypes,
             HeldWhileServing
<1>17. CASE FailListen(c)
  <2>1. ServerTypes'
    BY <1>17, SetSessionType DEF FailListen, ServerTypes
  <2> QED BY <1>17, <2>1 DEF FailListen, SessionTypes, PinTypes, ChannelTypes,
             BookTypes, TargetTypes, HeldWhileServing
<1> QED BY <1>1, <1>2, <1>3, <1>4, <1>5, <1>6, <1>7, <1>8, <1>9, <1>10, <1>11, <1>12, <1>13, <1>14, <1>15, <1>16, <1>17 DEF ClientStep, ServeStep

LEMMA CloseType ==
    ASSUME ServerTypes, BookTypes, NEW p, NEW b, CloseAndForget(p, b),
           UNCHANGED <<bpool, privOpen, room>>
    PROVE  ServerTypes' /\ BookTypes'
<1>1. ServerTypes'
  BY SetSessionType DEF CloseAndForget
<1>2. BookTypes'
  <2>1. all' \in [Pools -> SUBSET Backends]
    BY DEF BookTypes, CloseAndForget
  <2>2. totalOpen' \in Int
    BY DEF BookTypes, CloseAndForget
  <2> QED BY <2>1, <2>2 DEF BookTypes
<1> QED BY <1>1, <1>2

LEMMA QueueTailType ==
    ASSUME ChannelTypes, NEW p \in Pools, queue[p] # <<>>,
           queue' = [queue EXCEPT ![p] = Tail(@)], UNCHANGED closeCh
    PROVE  ChannelTypes' /\ Head(queue[p]) \in Backends
<1>1. Head(queue[p]) \in Backends /\ Tail(queue[p]) \in Seq(Backends)
  BY RangeTail DEF ChannelTypes
<1> QED BY <1>1 DEF ChannelTypes

\* Every step of the target goroutine, and a connection that breaks.
LEMMA TypeTarget ==
    ASSUME TypeInv, TargetStep \/ \E b \in Backends : ConnectionDies(b)
    PROVE  TypeInv'
<1> USE PoolingAssumption DEF TypeInv, TypeOK, clientVars, serverVars, backendVars,
        countVars, channelVars, targetVars
<1>1. CASE HandleClose
  <2>1. closeCh' \in Seq(Backends)
    BY <1>1, RangeTail DEF HandleClose, ChannelTypes
  <2> QED BY <1>1, <2>1, CloseType DEF HandleClose, SessionTypes, PinTypes,
             ChannelTypes, TargetTypes, HeldWhileServing
<1>2. CASE GrowthScan
  <2>1. excess' \in [Pools -> Nat]
    <3>1. PICK hwm \in [Pools -> 1..MaxConnections] :
            excess' = [p \in Pools |-> Max2(0, Len(queue[p]) - (hwm[p] + 1))]
      BY <1>2 DEF GrowthScan
    <3>2. ASSUME NEW p \in Pools
          PROVE  Max2(0, Len(queue[p]) - (hwm[p] + 1)) \in Nat
      <4>1. Len(queue[p]) \in Nat /\ hwm[p] \in Nat
        BY DEF ChannelTypes
      <4> QED BY <4>1 DEF Max2
    <3> QED BY <3>1, <3>2
  <2>2. todo' \in SUBSET Pools /\ tpc' \in {"grow", "shrink"}
    BY <1>2 DEF GrowthScan
  <2>3. serverAvailable' \in BOOLEAN
    BY <1>2 DEF GrowthScan, ServerHasRoom
  <2>4. TargetTypes'
    BY <1>2, <2>1, <2>2, <2>3 DEF GrowthScan, TargetTypes
  <2> QED BY <1>2, <2>4 DEF GrowthScan, SessionTypes, PinTypes, ServerTypes,
             ChannelTypes, BookTypes, HeldWhileServing
<1>3. ASSUME NEW p \in Pools, NEW q \in Pools, GrowRecycle(p, q)
      PROVE  TypeInv'
  <2>1. ChannelTypes'
    BY <1>3, QueueTailType DEF GrowRecycle
  <2>2. ServerTypes' /\ BookTypes'
    BY <1>3, CloseType DEF GrowRecycle
  <2>3. TargetTypes'
    BY <1>3 DEF GrowRecycle, TargetTypes
  <2> QED BY <1>3, <2>1, <2>2, <2>3 DEF GrowRecycle, SessionTypes, PinTypes,
             HeldWhileServing
<1>4. ASSUME NEW p \in Pools, GrowFresh(p)
      PROVE  TypeInv'
  BY <1>4 DEF GrowFresh, HeldWhileServing, SessionTypes, PinTypes, ServerTypes,
     ChannelTypes, BookTypes, TargetTypes
<1>5. CASE GrowEnd
  BY <1>5 DEF GrowEnd, HeldWhileServing, SessionTypes, PinTypes, ServerTypes,
     ChannelTypes, BookTypes, TargetTypes
<1>6. CASE OpenOne
  <2>1. CASE Len(queue[curPool]) < MaxConnections
    <3>1. PICK b \in Backends :
            /\ SetSession(b, "open")
            /\ bpool' = [bpool EXCEPT ![b] = curPool]
            /\ bclient' = [bclient EXCEPT ![b] = None]
            /\ all' = [all EXCEPT ![curPool] = @ \cup {b}]
            /\ totalOpen' = totalOpen + 1
            /\ queue' = [queue EXCEPT ![curPool] = Append(@, b)]
      BY <1>6, <2>1 DEF OpenOne
    <3>2. ServerTypes'
      BY <3>1, SetSessionType
    <3>3. ChannelTypes'
      BY <1>6, <3>1, RangeAppend DEF OpenOne, ChannelTypes
    <3>4. BookTypes' /\ PinTypes' /\ TargetTypes'
      <4>0. totalOpen' \in Int
        BY <3>1 DEF BookTypes
      <4>1. all' \in [Pools -> SUBSET Backends]
        <5>1. \A p \in Pools : all[p] \cup {b} \in SUBSET Backends
          BY DEF BookTypes
        <5> QED BY <3>1, <5>1 DEF BookTypes
      <4>2. bpool' \in [Backends -> Pools \cup {None}]
        BY <3>1 DEF BookTypes, TargetTypes
      <4>3. BookTypes'
        BY <1>6, <4>0, <4>1, <4>2 DEF OpenOne, BookTypes
      <4>4. PinTypes'
        BY <1>6, <3>1 DEF OpenOne, PinTypes
      <4>5. TargetTypes'
        BY <1>6 DEF OpenOne, TargetTypes
      <4> QED BY <4>3, <4>4, <4>5
    <3> QED BY <1>6, <3>2, <3>3, <3>4 DEF OpenOne, SessionTypes, HeldWhileServing
  <2>2. CASE ~(Len(queue[curPool]) < MaxConnections)
    BY <1>6, <2>2 DEF OpenOne, HeldWhileServing, SessionTypes, PinTypes, ServerTypes,
       ChannelTypes, BookTypes, TargetTypes
  <2> QED BY <2>1, <2>2
<1>7. CASE OpenFails
  BY <1>7 DEF OpenFails, HeldWhileServing, SessionTypes, PinTypes, ServerTypes,
     ChannelTypes, BookTypes, TargetTypes
<1>8. ASSUME NEW p \in Pools, Shrink(p)
      PROVE  TypeInv'
  <2>1. CASE queue[p] # <<>>
    BY <1>8, <2>1, QueueTailType, CloseType DEF Shrink, HeldWhileServing, SessionTypes,
       PinTypes, TargetTypes
  <2>2. CASE queue[p] = <<>>
    BY <1>8, <2>2 DEF Shrink, HeldWhileServing, SessionTypes, PinTypes, ServerTypes,
       ChannelTypes, BookTypes, TargetTypes
  <2> QED BY <2>1, <2>2
<1>9. CASE ShrinkEnd
  BY <1>9 DEF ShrinkEnd, HeldWhileServing, SessionTypes, PinTypes, ServerTypes,
     ChannelTypes, BookTypes, TargetTypes
<1>10. CASE HealthStart
  <2>1. BookTypes'
    <3>1. totalOpen' \in Int
      BY <1>10 DEF HealthStart, BookTypes
    <3>2. privOpen' \in BOOLEAN
      BY <1>10 DEF HealthStart, BookTypes
    <3> QED BY <1>10, <3>1, <3>2 DEF HealthStart, BookTypes
  <2> QED BY <1>10, <2>1 DEF HealthStart, HeldWhileServing, SessionTypes, PinTypes,
             ServerTypes, ChannelTypes, TargetTypes
<1>11. ASSUME NEW p \in Pools, HealthTake(p)
       PROVE  TypeInv'
  BY <1>11, QueueTailType DEF HealthTake, HeldWhileServing, SessionTypes, PinTypes,
     ServerTypes, BookTypes, TargetTypes
<1>12. CASE HealthKeep
  <2>1. ChannelTypes'
    BY <1>12, RangeAppend DEF HealthKeep, ChannelTypes, TargetTypes
  <2> QED BY <1>12, <2>1 DEF HealthKeep, HeldWhileServing, SessionTypes, PinTypes,
             ServerTypes, BookTypes, TargetTypes
<1>13. CASE HealthReap
  BY <1>13, CloseType DEF HealthReap, HeldWhileServing, SessionTypes, PinTypes,
     ChannelTypes, TargetTypes
<1>14. CASE HealthEnd
  BY <1>14 DEF HealthEnd, HeldWhileServing, SessionTypes, PinTypes, ServerTypes,
     ChannelTypes, BookTypes, TargetTypes
<1>15. CASE UpdateServerStats
  BY <1>15 DEF UpdateServerStats, HeldWhileServing, SessionTypes, PinTypes, ServerTypes,
     ChannelTypes, BookTypes, TargetTypes
<1>16. ASSUME NEW b \in Backends, ConnectionDies(b)
       PROVE  TypeInv'
  BY <1>16, SetSessionType DEF ConnectionDies, HeldWhileServing, SessionTypes, PinTypes,
     ChannelTypes, BookTypes, TargetTypes
<1> QED BY <1>1, <1>2, <1>3, <1>4, <1>5, <1>6, <1>7, <1>8, <1>9, <1>10, <1>11, <1>12,
           <1>13, <1>14, <1>15, <1>16 DEF TargetStep, CycleStep

LEMMA TypeStep == TypeInv /\ [Next]_vars => TypeInv'
<1> SUFFICES ASSUME TypeInv, [Next]_vars PROVE TypeInv'
  OBVIOUS
<1>1. CASE Next
  BY <1>1, TypeClient, TypeTarget DEF Next, EnvironmentStep
<1>2. CASE UNCHANGED vars
  BY <1>2 DEF vars, clientVars, serverVars, backendVars, countVars, channelVars,
     targetVars, TypeInv, TypeOK, HeldWhileServing, SessionTypes, PinTypes, ServerTypes,
     ChannelTypes, BookTypes, TargetTypes
<1> QED BY <1>1, <1>2

\* Every variable keeps its type, whatever the clients, the target goroutine and
\* the environment do: in particular only a request that is being served holds a
\* backend, so the handlers never use a nil one.
THEOREM TypeCorrect == Spec => []TypeOK
<1>1. TypeInv => TypeOK
  BY DEF TypeInv
<1> QED BY TypeInit, TypeStep, <1>1, PTL DEF Spec

----------------------------------------------------------------------------
(* One owner. *)

\* A pinned backend knows its client.
PinsKnown == \A c \in Clients : pin[c] # None => bclient[pin[c]] = c

\* A handler that neither found nor set a pin works on a backend its client is
\* not pinned to; a session that ended has no pin.
BorrowedApart ==
    \A c \in Clients :
        /\ held[c] # None /\ ~job[c].pinned => pin[c] # held[c]
        /\ RequiresPin(job[c].req) => job[c].pinned
        /\ job[c].path = "notify" => ~job[c].pinned
        /\ pc[c] = "gone" => pin[c] = None

\* Sessions that ended have sent no replies; without faults a
\* connection in use or idle is open unless its client was cut off.
Silent == \A b \in Backends : conn[b] # "open" => wire[b] = <<>>

Unbroken ==
    /\ \A c \in Clients : \A b \in Owned(c) : clientUp[c] => conn[b] = "open"
    /\ \A p \in Pools : \A b \in Range(queue[p]) : conn[b] = "open"
    /\ inHand # None => conn[inHand] = "open"

NoFaults == Faults \cap {"die", "timeout", "oversize"} = {}
NoNamed == \A c \in Clients : namedStmts[c] = 0

OwnInv == Exclusive /\ PinsKnown /\ BorrowedApart

ExclusiveInv ==
    /\ TypeInv /\ OwnInv /\ Silent
    /\ NoFaults => Unbroken
    /\ "named" \notin Requests => NoNamed

-----------------------------------------------------------------------------
(* The parts that are inductive by themselves. *)

LEMMA SetSessionSilent ==
    ASSUME ServerTypes, Silent, NEW b, NEW state, SetSession(b, state)
    PROVE  Silent'
BY DEF ServerTypes, Silent, SetSession

LEMMA SilentStep ==
    ASSUME TypeInv, Silent, Next
    PROVE  Silent'
<1> USE DEF TypeInv, TypeOK, serverVars
<1>0. UNCHANGED <<conn, wire>> => Silent'
  BY DEF Silent
<1>1. ASSUME NEW c \in Clients, ClientStep(c) \/ FailListen(c)
      PROVE  Silent'
  <2>1. CASE SendRequest(c)
    BY <2>1 DEF SendRequest, Serve, Silent, ServerTypes
  <2>2. CASE ReadReply(c)
    BY <2>2 DEF ReadReply, Silent, ServerTypes
  <2>3. CASE Cleanup(c)
    BY <1>0, <2>3, SetSessionSilent DEF Cleanup
  <2>4. CASE FailListen(c)
    BY <1>0, <2>4, SetSessionSilent DEF FailListen
  <2>5. CASE Accept(c) \/ HandleClientMessage(c) \/ Disconnect(c) \/ ClientDrops(c)
    BY <1>0, <2>5 DEF Accept, HandleClientMessage, Disconnect, ClientDrops
  <2>6. CASE BorrowConn(c) \/ BorrowWait(c) \/ BorrowTimeout(c) \/ SendUnnoticed(c)
             \/ SendFails(c) \/ DeployFails(c) \/ ForwardFails(c)
             \/ ReadErrorSimple(c) \/ ReadErrorExtended(c)
    BY <1>0, <2>6 DEF BorrowConn, BorrowWait, BorrowTimeout, SendUnnoticed, SendFails,
       DeployFails, ForwardFails, ReadErrorSimple, ReadErrorExtended
  <2> QED BY <1>1, <2>1, <2>2, <2>3, <2>4, <2>5, <2>6 DEF ClientStep, ServeStep
<1>2. CASE TargetStep
  <2>1. CASE HandleClose
    BY <2>1, SetSessionSilent DEF HandleClose, CloseAndForget
  <2>2. ASSUME NEW p \in Pools, NEW q \in Pools, GrowRecycle(p, q)
        PROVE  Silent'
    BY <2>2, SetSessionSilent DEF GrowRecycle, CloseAndForget
  <2>3. CASE OpenOne
    BY <1>0, <2>3, SetSessionSilent DEF OpenOne
  <2>4. ASSUME NEW p \in Pools, Shrink(p)
        PROVE  Silent'
    BY <1>0, <2>4, SetSessionSilent DEF Shrink, CloseAndForget
  <2>5. CASE HealthReap
    BY <2>5, SetSessionSilent DEF HealthReap, CloseAndForget
  <2>6. ASSUME NEW p \in Pools, GrowFresh(p) \/ HealthTake(p)
        PROVE  Silent'
    BY <1>0, <2>6 DEF GrowFresh, HealthTake
  <2>7. CASE GrowthScan \/ HealthStart \/ UpdateServerStats \/ GrowEnd \/ OpenFails
             \/ ShrinkEnd \/ HealthKeep \/ HealthEnd
    BY <1>0, <2>7 DEF GrowthScan, HealthStart, UpdateServerStats, GrowEnd, OpenFails,
       ShrinkEnd, HealthKeep, HealthEnd
  <2> QED BY <1>2, <2>1, <2>2, <2>3, <2>4, <2>5, <2>6, <2>7 DEF TargetStep, CycleStep
<1>3. ASSUME NEW b \in Backends, ConnectionDies(b)
      PROVE  Silent'
  BY <1>3, SetSessionSilent DEF ConnectionDies
<1> QED BY <1>1, <1>2, <1>3 DEF Next, EnvironmentStep

LEMMA NoNamedStep ==
    ASSUME TypeInv, NoNamed, "named" \notin Requests, Next
    PROVE  NoNamed'
<1> USE DEF TypeInv, TypeOK, clientVars
<1>0. UNCHANGED namedStmts => NoNamed'
  BY DEF NoNamed
<1>1. ASSUME NEW c \in Clients, ClientStep(c) \/ FailListen(c)
      PROVE  NoNamed'
  <2>1. CASE Accept(c)
    BY <2>1 DEF Accept, NoNamed, SessionTypes
  <2>2. CASE HandleClientMessage(c)
    <3>1. CASE ExecuteQuery(c)
      BY <1>0, <3>1 DEF ExecuteQuery
    <3>2. CASE ExecuteExtendedPipeline(c)
      <4>1. PICK req \in Requests \ {"query", "dml", "notify"} :
              /\ req = "close" => namedStmts[c] > 0
              /\ namedStmts' = [namedStmts EXCEPT ![c] =
                                  CASE req = "named" -> @ + 1
                                    [] req = "close" -> @ - 1
                                    [] OTHER -> @]
        BY <3>2 DEF ExecuteExtendedPipeline
      <4>2. req # "named" /\ req # "close"
        BY <4>1 DEF NoNamed
      <4>3. namedStmts' = [namedStmts EXCEPT ![c] = namedStmts[c]]
        BY <4>1, <4>2
      <4> QED BY <4>3 DEF NoNamed, SessionTypes
    <3> QED BY <2>2, <3>1, <3>2 DEF HandleClientMessage
  <2>3. CASE Disconnect(c) \/ ClientDrops(c) \/ Cleanup(c) \/ FailListen(c)
    BY <1>0, <2>3 DEF Disconnect, ClientDrops, Cleanup, FailListen
  <2>4. CASE BorrowConn(c) \/ BorrowWait(c) \/ BorrowTimeout(c) \/ SendUnnoticed(c)
             \/ SendFails(c) \/ DeployFails(c) \/ ForwardFails(c) \/ SendRequest(c)
             \/ ReadReply(c) \/ ReadErrorSimple(c) \/ ReadErrorExtended(c)
    BY <1>0, <2>4 DEF BorrowConn, BorrowWait, BorrowTimeout, SendUnnoticed, SendFails,
       DeployFails, ForwardFails, SendRequest, ReadReply, ReadErrorSimple,
       ReadErrorExtended
  <2> QED BY <1>1, <2>1, <2>2, <2>3, <2>4 DEF ClientStep, ServeStep
<1>2. CASE TargetStep
  BY <1>0, <1>2 DEF TargetStep, CycleStep, HandleClose, GrowthScan, HealthStart,
     UpdateServerStats, GrowRecycle, GrowFresh, Shrink, HealthTake, GrowEnd, OpenOne,
     OpenFails, ShrinkEnd, HealthKeep, HealthReap, HealthEnd
<1>3. ASSUME NEW b \in Backends, ConnectionDies(b)
      PROVE  NoNamed'
  BY <1>0, <1>3 DEF ConnectionDies
<1> QED BY <1>1, <1>2, <1>3 DEF Next, EnvironmentStep

-----------------------------------------------------------------------------
(* Moving a backend from one owner to the next. *)

\* Sending b to a Queue, or taking the head out of one.
LEMMA QueueAppend ==
    ASSUME ChannelTypes, NEW p \in Pools \cup {None}, NEW b \in Backends,
           NEW q \in Pools,
           queue'[q] = IF q = p THEN Append(queue[q], b) ELSE queue[q]
    PROVE  /\ Range(queue'[q]) \subseteq Range(queue[q]) \cup {b}
           /\ q # p => queue'[q] = queue[q]
           /\ IsInjective(queue[q]) /\ b \notin Range(queue[q]) => IsInjective(queue'[q])
<1>1. queue[q] \in Seq(Backends)
  BY DEF ChannelTypes
<1>2. CASE q = p
  BY <1>1, <1>2, RangeAppend
<1>3. CASE q # p
  BY <1>3
<1> QED BY <1>2, <1>3

LEMMA QueueTake ==
    ASSUME ChannelTypes, NEW p \in Pools, queue[p] # <<>>,
           queue' = [queue EXCEPT ![p] = Tail(@)], NEW q \in Pools
    PROVE  /\ Range(queue'[q]) \subseteq Range(queue[q])
           /\ IsInjective(queue[q]) => IsInjective(queue'[q])
           /\ Head(queue[p]) \in Range(queue[p]) \cap Backends
           /\ IsInjective(queue[p]) => Head(queue[p]) \notin Range(queue'[p])
<1>1. queue[q] \in Seq(Backends) /\ queue[p] \in Seq(Backends)
  BY DEF ChannelTypes
<1>2. queue'[p] = Tail(queue[p])
  BY DEF ChannelTypes
<1>3. q # p => queue'[q] = queue[q]
  BY DEF ChannelTypes
<1> QED BY <1>1, <1>2, <1>3, RangeTail

Deposited(p, b) ==
    \A q \in Pools : queue'[q] = IF q = p THEN Append(queue[q], b) ELSE queue[q]

LEMMA OwnersShrink ==
    ASSUME Exclusive, UNCHANGED <<queue, closeCh, inHand>>,
           \A c \in Clients : Owned(c)' \subseteq Owned(c)
    PROVE  Exclusive'
<1>1. ChannelsApart'
  BY DEF Exclusive, ChannelsApart
<1>2. OwnersApart'
  <2> SUFFICES ASSUME NEW c \in Clients, NEW b \in Owned(c)'
               PROVE  /\ b # inHand'
                      /\ b \notin Range(closeCh')
                      /\ \A p \in Pools : b \notin Range(queue'[p])
                      /\ \A d \in Clients \ {c} : b \notin Owned(d)'
    BY DEF OwnersApart
  <2>1. b \in Owned(c)
    OBVIOUS
  <2> QED BY <2>1 DEF Exclusive, OwnersApart
<1> QED BY <1>1, <1>2 DEF Exclusive

\* A client gives its backend away: to a Queue, or to CloseCh.
LEMMA ReturnExclusive ==
    ASSUME ChannelTypes, Exclusive, NEW c \in Clients, NEW b \in Backends, b \in Owned(c),
           UNCHANGED inHand,
           \/ \E p \in Pools \cup {None} : Deposited(p, b) /\ UNCHANGED closeCh
           \/ closeCh' = Append(closeCh, b) /\ UNCHANGED queue,
           \A d \in Clients : Owned(d)' \subseteq Owned(d),
           b \notin Owned(c)'
    PROVE  Exclusive'
<1>1. /\ b # inHand /\ b \notin Range(closeCh)
      /\ \A p \in Pools : b \notin Range(queue[p])
      /\ \A d \in Clients : b \notin Owned(d)'
  BY DEF Exclusive, OwnersApart
<1>2. ChannelsApart /\ OwnersApart
  BY DEF Exclusive
<1>3. ASSUME NEW p \in Pools \cup {None}, Deposited(p, b), UNCHANGED closeCh
      PROVE  Exclusive'
  <2>1. \A q \in Pools : /\ Range(queue'[q]) \subseteq Range(queue[q]) \cup {b}
                         /\ q # p => queue'[q] = queue[q]
                         /\ IsInjective(queue'[q])
    <3> TAKE q \in Pools
    <3>1. IsInjective(queue[q]) /\ b \notin Range(queue[q])
      BY <1>1, <1>2 DEF ChannelsApart
    <3>2. queue'[q] = IF q = p THEN Append(queue[q], b) ELSE queue[q]
      BY <1>3 DEF Deposited
    <3> QED BY <3>1, <3>2, QueueAppend
  <2>2. ChannelsApart'
    <3>1. \A q \in Pools : /\ inHand \notin Range(queue'[q])
                           /\ Range(queue'[q]) \cap Range(closeCh) = {}
      BY <1>1, <1>2, <2>1 DEF ChannelsApart
    <3>2. ASSUME NEW q \in Pools, NEW o \in Pools \ {q}
          PROVE  Range(queue'[q]) \cap Range(queue'[o]) = {}
      <4>1. Range(queue[q]) \cap Range(queue[o]) = {}
        BY <1>2 DEF ChannelsApart
      <4>2. b \notin Range(queue[q]) /\ b \notin Range(queue[o])
        BY <1>1
      <4>3. q # p \/ o # p
        OBVIOUS
      <4> QED BY <2>1, <4>1, <4>2, <4>3
    <3> QED BY <1>2, <1>3, <2>1, <3>1, <3>2 DEF ChannelsApart
  <2>3. OwnersApart'
    BY <1>1, <1>2, <1>3, <2>1 DEF OwnersApart
  <2> QED BY <2>2, <2>3 DEF Exclusive
<1>4. ASSUME closeCh' = Append(closeCh, b), UNCHANGED queue
      PROVE  Exclusive'
  <2>1. Range(closeCh') = Range(closeCh) \cup {b} /\ IsInjective(closeCh')
    BY <1>1, <1>2, <1>4, RangeAppend DEF ChannelTypes, ChannelsApart
  <2>2. ChannelsApart'
    BY <1>1, <1>2, <1>4, <2>1 DEF ChannelsApart
  <2>3. OwnersApart'
    BY <1>1, <1>2, <1>4, <2>1 DEF OwnersApart
  <2> QED BY <2>2, <2>3 DEF Exclusive
<1> QED BY <1>3, <1>4

\* A client receives from a Queue.
LEMMA BorrowExclusive ==
    ASSUME TypeInv, Exclusive, NEW c \in Clients, NEW p \in Pools, queue[p] # <<>>,
           queue' = [queue EXCEPT ![p] = Tail(@)], UNCHANGED <<closeCh, inHand>>,
           Owned(c)' \subseteq Owned(c) \cup {Head(queue[p])},
           \A d \in Clients \ {c} : Owned(d)' = Owned(d)
    PROVE  Exclusive'
<1> DEFINE b == Head(queue[p])
<1>0. ChannelTypes /\ ChannelsApart /\ OwnersApart
  BY DEF TypeInv, TypeOK, Exclusive
<1>1. \A q \in Pools : /\ Range(queue'[q]) \subseteq Range(queue[q])
                       /\ IsInjective(queue'[q])
                       /\ b \notin Range(queue'[q])
  <2> TAKE q \in Pools
  <2>1. /\ Range(queue'[q]) \subseteq Range(queue[q]) /\ IsInjective(queue'[q])
        /\ b \in Range(queue[p]) /\ b \notin Range(queue'[p])
    BY <1>0, QueueTake DEF ChannelsApart
  <2>2. q # p => b \notin Range(queue[q])
    BY <1>0, <2>1 DEF ChannelsApart
  <2> QED BY <2>1, <2>2
<1>2. b \in Range(queue[p])
  BY <1>0, QueueTake
<1>3. ChannelsApart'
  <2>1. \A q \in Pools : /\ inHand \notin Range(queue'[q])
                         /\ Range(queue'[q]) \cap Range(closeCh) = {}
    BY <1>0, <1>1 DEF ChannelsApart
  <2>2. ASSUME NEW q \in Pools, NEW o \in Pools \ {q}
        PROVE  Range(queue'[q]) \cap Range(queue'[o]) = {}
    BY <1>0, <1>1 DEF ChannelsApart
  <2> QED BY <1>0, <1>1, <2>1, <2>2 DEF ChannelsApart
<1>4. /\ b # inHand /\ b \notin Range(closeCh)
      /\ \A d \in Clients : b \notin Owned(d)
  BY <1>0, <1>2 DEF ChannelsApart, OwnersApart
<1>5. OwnersApart'
  <2> SUFFICES ASSUME NEW d \in Clients, NEW x \in Owned(d)'
               PROVE  /\ x # inHand'
                      /\ x \notin Range(closeCh')
                      /\ \A q \in Pools : x \notin Range(queue'[q])
                      /\ \A e \in Clients \ {d} : x \notin Owned(e)'
    BY DEF OwnersApart
  <2>1. CASE x = b
    <3>1. d = c
      BY <1>4, <2>1
    <3> QED BY <1>1, <1>4, <2>1, <3>1
  <2>2. CASE x # b
    <3>1. x \in Owned(d)
      BY <2>2
    <3>2. \A e \in Clients \ {d} : x \notin Owned(e)'
      BY <1>0, <2>2, <3>1 DEF OwnersApart
    <3> QED BY <1>0, <1>1, <3>1, <3>2 DEF OwnersApart
  <2> QED BY <2>1, <2>2
<1> QED BY <1>3, <1>5 DEF Exclusive

\* The target goroutine takes a connection out of a Queue; it closes it or keeps
\* it in its hand.
LEMMA TakeExclusive ==
    ASSUME TypeInv, Exclusive, NEW p \in Pools, queue[p] # <<>>,
           queue' = [queue EXCEPT ![p] = Tail(@)], UNCHANGED <<closeCh, held, pin>>,
           inHand' \in {inHand, Head(queue[p])}
    PROVE  Exclusive'
<1> DEFINE b == Head(queue[p])
<1>0. ChannelTypes /\ ChannelsApart /\ OwnersApart
  BY DEF TypeInv, TypeOK, Exclusive
<1>1. \A q \in Pools : /\ Range(queue'[q]) \subseteq Range(queue[q])
                       /\ IsInjective(queue'[q])
                       /\ b \notin Range(queue'[q])
  <2> TAKE q \in Pools
  <2>1. /\ Range(queue'[q]) \subseteq Range(queue[q]) /\ IsInjective(queue'[q])
        /\ b \in Range(queue[p]) /\ b \notin Range(queue'[p])
    BY <1>0, QueueTake DEF ChannelsApart
  <2>2. q # p => b \notin Range(queue[q])
    BY <1>0, <2>1 DEF ChannelsApart
  <2> QED BY <2>1, <2>2
<1>2. b \in Range(queue[p])
  BY <1>0, QueueTake
<1>3. /\ b \notin Range(closeCh)
      /\ \A d \in Clients : b \notin Owned(d)
  BY <1>0, <1>2 DEF ChannelsApart, OwnersApart
<1>4. ChannelsApart'
  <2>1. \A q \in Pools : /\ inHand \notin Range(queue'[q])
                         /\ Range(queue'[q]) \cap Range(closeCh) = {}
    BY <1>0, <1>1 DEF ChannelsApart
  <2>2. \A q \in Pools : inHand' \notin Range(queue'[q])
    BY <1>1, <2>1
  <2>3. ASSUME NEW q \in Pools, NEW o \in Pools \ {q}
        PROVE  Range(queue'[q]) \cap Range(queue'[o]) = {}
    BY <1>0, <1>1 DEF ChannelsApart
  <2> QED BY <1>0, <1>1, <1>3, <2>1, <2>2, <2>3 DEF ChannelsApart
<1>5. OwnersApart'
  BY <1>0, <1>1, <1>3 DEF OwnersApart, Owned
<1> QED BY <1>4, <1>5 DEF Exclusive

\* The target goroutine puts a connection into a Queue that no one else has.
LEMMA PutExclusive ==
    ASSUME TypeInv, Exclusive, NEW p \in Pools \cup {None}, NEW b \in Backends,
           Deposited(p, b), UNCHANGED <<closeCh, held, pin>>,
           b \notin Range(closeCh), \A q \in Pools : b \notin Range(queue[q]),
           \A c \in Clients : b \notin Owned(c),
           inHand' \in {inHand, None}, inHand' # b
    PROVE  Exclusive'
<1>0. /\ ChannelTypes /\ ChannelsApart /\ OwnersApart
      /\ None \notin Backends
  BY PoolingAssumption DEF TypeInv, TypeOK, Exclusive
<1>1. \A q \in Pools : /\ Range(queue'[q]) \subseteq Range(queue[q]) \cup {b}
                       /\ q # p => queue'[q] = queue[q]
                       /\ IsInjective(queue'[q])
  <2> TAKE q \in Pools
  <2>1. IsInjective(queue[q]) /\ b \notin Range(queue[q])
    BY <1>0 DEF ChannelsApart
  <2>2. queue'[q] = IF q = p THEN Append(queue[q], b) ELSE queue[q]
    BY DEF Deposited
  <2> QED BY <1>0, <2>1, <2>2, QueueAppend
<1>2. /\ None \notin Range(closeCh)
      /\ \A q \in Pools : None \notin Range(queue[q])
  BY <1>0, RangeOfSeq DEF ChannelTypes
<1>3. ChannelsApart'
  <2>0. inHand' \notin Range(closeCh) /\ \A q \in Pools : inHand' \notin Range(queue[q])
    BY <1>0, <1>2 DEF ChannelsApart
  <2>1. \A q \in Pools : /\ inHand' \notin Range(queue'[q])
                         /\ Range(queue'[q]) \cap Range(closeCh) = {}
    BY <1>0, <1>1, <2>0 DEF ChannelsApart
  <2>2. ASSUME NEW q \in Pools, NEW o \in Pools \ {q}
        PROVE  Range(queue'[q]) \cap Range(queue'[o]) = {}
    <3>1. Range(queue[q]) \cap Range(queue[o]) = {}
      BY <1>0 DEF ChannelsApart
    <3>2. q # p \/ o # p
      OBVIOUS
    <3> QED BY <1>1, <3>1, <3>2
  <2> QED BY <1>0, <1>1, <2>0, <2>1, <2>2 DEF ChannelsApart
<1>4. OwnersApart'
  <2>1. \A c \in Clients : Owned(c)' = Owned(c) /\ None \notin Owned(c)
    BY DEF Owned
  <2> QED BY <1>0, <1>1, <2>1 DEF OwnersApart
<1> QED BY <1>3, <1>4 DEF Exclusive

-----------------------------------------------------------------------------
(* Return, Release, Pin and reconcileConn, at the end of a request. *)

\* The part of BorrowedApart that concerns the other clients, and the client
\* whose request ended.
LEMMA DoneBorrowed ==
    ASSUME TypeInv, BorrowedApart, NEW c \in Clients, NEW next \in {"idle", "cleanup"},
           Done(c, next), \A d \in Clients \ {c} : pin'[d] \in {pin[d], None}
    PROVE  BorrowedApart'
<1> SUFFICES ASSUME NEW d \in Clients
             PROVE  /\ held'[d] # None /\ ~job'[d].pinned => pin'[d] # held'[d]
                    /\ RequiresPin(job'[d].req) => job'[d].pinned
                    /\ job'[d].path = "notify" => ~job'[d].pinned
                    /\ pc'[d] = "gone" => pin'[d] = None
  BY DEF BorrowedApart
<1>1. CASE d = c
  <2>1. held'[d] = None /\ job'[d] = NoJob /\ pc'[d] # "gone"
    BY <1>1 DEF Done, TypeInv, TypeOK, SessionTypes
  <2> QED BY <2>1 DEF NoJob, RequiresPin
<1>2. CASE d # c
  <2>1. held'[d] = held[d] /\ job'[d] = job[d] /\ pc'[d] = pc[d]
    BY <1>2 DEF Done, TypeInv, TypeOK, SessionTypes
  <2>2. pin'[d] \in {pin[d], None}
    BY <1>2
  <2> QED BY <2>1, <2>2 DEF BorrowedApart
<1> QED BY <1>1, <1>2

LEMMA ReleaseOwn ==
    ASSUME TypeInv, OwnInv, NEW c \in Clients, held[c] # None, Release(held[c]),
           NEW next \in {"idle", "cleanup"}, Done(c, next), UNCHANGED inHand
    PROVE  OwnInv'
<1> DEFINE b == held[c]
<1>0. /\ b \in Backends /\ b \in Owned(c) /\ ChannelTypes
      /\ Exclusive /\ PinsKnown /\ BorrowedApart
  BY DEF TypeInv, TypeOK, SessionTypes, OwnInv, Owned
<1>1. \A d \in Clients : /\ pin'[d] \in {pin[d], None}
                         /\ held'[d] = IF d = c THEN None ELSE held[d]
                         /\ Owned(d)' \subseteq Owned(d)
  BY DEF Release, Done, TypeInv, TypeOK, SessionTypes, Owned
<1>2. pin'[c] # b
  BY <1>0, PoolingAssumption DEF Release, PinsKnown
<1>3. Exclusive'
  <2>1. b \notin Owned(c)'
    BY <1>0, <1>1, <1>2 DEF Owned
  <2>2. closeCh' = Append(closeCh, b) /\ UNCHANGED queue
    BY DEF Release
  <2> QED BY <1>0, <1>1, <2>1, <2>2, ReturnExclusive
<1>4. PinsKnown'
  <2> SUFFICES ASSUME NEW d \in Clients, pin'[d] # None
               PROVE  bclient'[pin'[d]] = d
    BY DEF PinsKnown
  <2>1. pin'[d] = pin[d] /\ bclient[pin[d]] = d
    BY <1>0, <1>1 DEF PinsKnown
  <2>2. pin[d] # b
    BY <1>0, <1>2, <2>1 DEF Exclusive, OwnersApart, Owned
  <2> QED BY <2>1, <2>2 DEF Release, TypeInv, TypeOK, PinTypes
<1>5. BorrowedApart'
  BY <1>0, <1>1, DoneBorrowed
<1> QED BY <1>3, <1>4, <1>5 DEF OwnInv

\* The backend becomes the pinned one, or the client already has another.
LEMMA PinOwn ==
    ASSUME TypeInv, OwnInv, NEW c \in Clients, held[c] # None, Pin(c, held[c]),
           NEW next \in {"idle", "cleanup"}, Done(c, next), UNCHANGED inHand
    PROVE  OwnInv'
<1> DEFINE b == held[c]
<1>0. /\ b \in Backends /\ b \in Owned(c) /\ Exclusive /\ PinsKnown /\ BorrowedApart
  BY DEF TypeInv, TypeOK, SessionTypes, OwnInv, Owned
<1>1. \A d \in Clients : /\ held'[d] = IF d = c THEN None ELSE held[d]
                         /\ pin'[d] = IF d = c /\ pin[c] = None THEN b ELSE pin[d]
  BY DEF Pin, Done, TypeInv, TypeOK, SessionTypes, PinTypes
<1>2. \A d \in Clients : Owned(d)' \subseteq Owned(d)
  BY <1>1 DEF Owned
<1>3. Exclusive'
  BY <1>0, <1>2, OwnersShrink DEF Pin, channelVars
<1>4. PinsKnown'
  <2> SUFFICES ASSUME NEW d \in Clients, pin'[d] # None
               PROVE  bclient'[pin'[d]] = d
    BY DEF PinsKnown
  <2>1. CASE pin[c] = None /\ d = c
    BY <1>0, <1>1, <2>1 DEF Pin, TypeInv, TypeOK, PinTypes
  <2>2. CASE pin[c] = None /\ d # c
    <3>1. pin[d] # b
      BY <1>0, <1>1, <2>2 DEF Exclusive, OwnersApart, Owned
    <3> QED BY <1>0, <1>1, <2>2, <3>1 DEF Pin, PinsKnown, TypeInv, TypeOK, PinTypes
  <2>3. CASE pin[c] # None
    BY <1>0, <1>1, <2>3 DEF Pin, PinsKnown
  <2> QED BY <2>1, <2>2, <2>3
<1>5. BorrowedApart'
  BY <1>0, <1>1, DoneBorrowed
<1> QED BY <1>3, <1>4, <1>5 DEF OwnInv

\* The backend goes back to its pool and is not the pinned one any more.
LEMMA ReturnOwn ==
    ASSUME TypeInv, OwnInv, NEW c \in Clients, held[c] # None, Return(held[c]),
           NEW next \in {"idle", "cleanup"}, Done(c, next), UNCHANGED inHand,
           pin' = [pin EXCEPT ![c] = None] \/ (pin' = pin /\ pin[c] # held[c])
    PROVE  OwnInv'
<1> DEFINE b == held[c]
<1>0. /\ b \in Backends /\ b \in Owned(c) /\ ChannelTypes
      /\ Exclusive /\ PinsKnown /\ BorrowedApart
  BY DEF TypeInv, TypeOK, SessionTypes, OwnInv, Owned
<1>1. \A d \in Clients : /\ pin'[d] \in {pin[d], None}
                         /\ held'[d] = IF d = c THEN None ELSE held[d]
                         /\ Owned(d)' \subseteq Owned(d)
  BY DEF Done, TypeInv, TypeOK, SessionTypes, PinTypes, Owned
<1>2. pin'[c] # b
  BY <1>0, PoolingAssumption DEF TypeInv, TypeOK, PinTypes
<1>3. Exclusive'
  <2>1. b \notin Owned(c)'
    BY <1>0, <1>1, <1>2 DEF Owned
  <2>2. \/ Deposited(bpool[b], b) /\ UNCHANGED closeCh
        \/ closeCh' = Append(closeCh, b) /\ UNCHANGED queue
    BY <1>0 DEF Return, Deposited, ChannelTypes
  <2>3. bpool[b] \in Pools \cup {None}
    BY <1>0 DEF TypeInv, TypeOK, BookTypes
  <2> QED BY <1>0, <1>1, <2>1, <2>2, <2>3, ReturnExclusive
<1>4. PinsKnown'
  <2> SUFFICES ASSUME NEW d \in Clients, pin'[d] # None
               PROVE  bclient'[pin'[d]] = d
    BY DEF PinsKnown
  <2>1. pin'[d] = pin[d] /\ bclient[pin[d]] = d
    BY <1>0, <1>1 DEF PinsKnown
  <2>2. pin[d] # b
    BY <1>0, <1>2, <2>1 DEF Exclusive, OwnersApart, Owned
  <2> QED BY <2>1, <2>2 DEF Return, TypeInv, TypeOK, PinTypes
<1>5. BorrowedApart'
  BY <1>0, <1>1, DoneBorrowed
<1> QED BY <1>3, <1>4, <1>5 DEF OwnInv

LEMMA ReconcileOwn ==
    ASSUME TypeInv, OwnInv, NEW c \in Clients, held[c] # None, NEW status,
           Reconcile(c, held[c], status), Done(c, "idle"), UNCHANGED inHand,
           status = "?" /\ job[c].pinned => namedStmts[c] = 0
    PROVE  OwnInv'
<1>1. CASE Pin(c, held[c])
  BY <1>1, PinOwn
<1>2. ASSUME NEW clear, Unpin(c, held[c], clear), ~clear => pin[c] # held[c]
      PROVE  OwnInv'
  BY <1>2, ReturnOwn DEF Unpin
<1>3. ~job[c].pinned => pin[c] # held[c]
  BY DEF OwnInv, BorrowedApart
<1> QED BY <1>1, <1>2, <1>3 DEF Reconcile

-----------------------------------------------------------------------------
(* Every step keeps OwnInv. *)

\* Nothing about ownership changes, or the handler only drops its variable.
LEMMA SameOwn ==
    ASSUME TypeInv, OwnInv, UNCHANGED <<pin, held, bclient, job, queue, closeCh, inHand>>,
           \A c \in Clients : pc'[c] = "gone" => pc[c] = "gone"
    PROVE  OwnInv'
<1>1. Exclusive'
  BY OwnersShrink DEF OwnInv, Owned
<1>2. PinsKnown'
  BY DEF OwnInv, PinsKnown
<1>3. BorrowedApart'
  BY DEF OwnInv, BorrowedApart
<1> QED BY <1>1, <1>2, <1>3 DEF OwnInv

LEMMA DropOwn ==
    ASSUME TypeInv, OwnInv, UNCHANGED <<pin, bclient, queue, closeCh, inHand>>,
           NEW c \in Clients, NEW next \in {"idle", "cleanup"}, Done(c, next)
    PROVE  OwnInv'
<1>1. \A d \in Clients : Owned(d)' \subseteq Owned(d)
  BY DEF Done, TypeInv, TypeOK, SessionTypes, Owned
<1>2. Exclusive'
  BY <1>1, OwnersShrink DEF OwnInv
<1>3. PinsKnown'
  BY DEF OwnInv, PinsKnown
<1>4. BorrowedApart'
  BY DoneBorrowed DEF OwnInv
<1> QED BY <1>2, <1>3, <1>4 DEF OwnInv

LEMMA AcceptOwn ==
    ASSUME TypeInv, OwnInv, NEW c \in Clients, Accept(c)
    PROVE  OwnInv'
<1> USE DEF Accept, channelVars, targetVars, OwnInv
<1>1. Exclusive'
  BY OwnersShrink DEF Owned
<1>2. PinsKnown'
  <2> SUFFICES ASSUME NEW d \in Clients, pin[d] # None
               PROVE  bclient'[pin[d]] = d
    BY DEF PinsKnown
  <2>1. bclient[pin[d]] = d /\ d # c /\ pin[d] \in Backends
    BY DEF PinsKnown, BorrowedApart, TypeInv, TypeOK, PinTypes
  <2> QED BY <2>1
<1>3. BorrowedApart'
  BY DEF BorrowedApart, TypeInv, TypeOK, SessionTypes
<1> QED BY <1>1, <1>2, <1>3

\* A handler starts on the pinned backend, or with none.
LEMMA StartOwn ==
    ASSUME TypeInv, OwnInv, NEW c \in Clients, HandleClientMessage(c)
    PROVE  OwnInv'
<1> USE DEF OwnInv, channelVars, targetVars, backendVars
<1>1. PICK req \in RequestKinds, path \in Paths, usePin \in BOOLEAN :
        /\ Start(c, req, path, usePin)
        /\ path = "notify" => ~usePin /\ ~RequiresPin(req)
  <2>1. CASE ExecuteQuery(c)
    <3>1. PICK req \in Requests \cap {"query", "dml", "notify"} :
            \/ req = "notify" /\ ~inTx[c] /\ Start(c, req, "notify", FALSE)
            \/ req = "dml" /\ ~(pin[c] # None) /\ Start(c, req, "prepared", FALSE)
            \/ Start(c, req, "simple", pin[c] # None)
      BY <2>1, Zenon DEF ExecuteQuery
    <3>2. req \in RequestKinds /\ {"notify", "prepared", "simple"} \subseteq Paths
      BY <3>1, PoolingAssumption DEF RequestKinds, Paths
    <3>3. ~RequiresPin(req)
      BY <3>1 DEF RequiresPin
    <3>4. CASE Start(c, req, "notify", FALSE)
      BY <3>2, <3>3, <3>4
    <3>5. CASE Start(c, req, "prepared", FALSE)
      BY <3>2, <3>5
    <3>6. CASE Start(c, req, "simple", pin[c] # None)
      BY <3>2, <3>6
    <3> QED BY <3>1, <3>4, <3>5, <3>6
  <2>2. CASE ExecuteExtendedPipeline(c)
    <3>1. PICK req \in Requests \ {"query", "dml", "notify"} :
            Start(c, req, IF req \in {"flush", "flushUnnamed"} THEN "flush" ELSE "sync",
                  pin[c] # None)
      BY <2>2 DEF ExecuteExtendedPipeline
    <3>2. req \in RequestKinds /\ {"flush", "sync"} \subseteq Paths
      BY <3>1, PoolingAssumption DEF RequestKinds, Paths
    <3> QED BY <3>1, <3>2
  <2> QED BY <2>1, <2>2 DEF HandleClientMessage
<1>2. \A d \in Clients :
        /\ held'[d] = IF d = c THEN (IF usePin THEN pin[c] ELSE None) ELSE held[d]
        /\ job'[d] = IF d = c THEN [req |-> req, path |-> path,
                                    pinned |-> usePin \/ RequiresPin(req)]
                              ELSE job[d]
        /\ pin'[d] = pin[d]
        /\ d # c => pc'[d] = pc[d]
  BY <1>1 DEF HandleClientMessage, Start, TypeInv, TypeOK, SessionTypes
<1>3. Exclusive'
  <2>1. \A d \in Clients : Owned(d)' \subseteq Owned(d)
    BY <1>2 DEF Owned
  <2> QED BY <2>1, OwnersShrink DEF HandleClientMessage
<1>4. PinsKnown'
  BY DEF PinsKnown, HandleClientMessage
<1>5. BorrowedApart'
  <2> SUFFICES ASSUME NEW d \in Clients
               PROVE  /\ held'[d] # None /\ ~job'[d].pinned => pin'[d] # held'[d]
                      /\ RequiresPin(job'[d].req) => job'[d].pinned
                      /\ job'[d].path = "notify" => ~job'[d].pinned
                      /\ pc'[d] = "gone" => pin'[d] = None
    BY DEF BorrowedApart
  <2>1. CASE d # c
    BY <1>2, <2>1 DEF BorrowedApart
  <2>2. CASE d = c
    <3>1. pc'[d] \in {"send", "borrow"}
      BY <1>1, <2>2 DEF Start, TypeInv, TypeOK, SessionTypes
    <3>2. /\ job'[d].req = req /\ job'[d].path = path
          /\ job'[d].pinned <=> (usePin \/ RequiresPin(req))
      <4>1. job'[d] = [req |-> req, path |-> path,
                       pinned |-> usePin \/ RequiresPin(req)]
        BY <1>2, <2>2
      <4>2. job'[d].req = req /\ job'[d].path = path
        BY <4>1
      <4>3. CASE usePin \/ RequiresPin(req)
        <5>1. (usePin \/ RequiresPin(req)) = TRUE
          BY <4>3
        <5>2. job'[d] = [req |-> req, path |-> path, pinned |-> TRUE]
          BY <4>1, <5>1, Zenon
        <5>3. job'[d].pinned = TRUE
          BY <5>2
        <5> QED BY <4>2, <4>3, <5>3
      <4>4. CASE ~(usePin \/ RequiresPin(req))
        <5>1. (usePin \/ RequiresPin(req)) = FALSE
          BY <4>4
        <5>2. job'[d] = [req |-> req, path |-> path, pinned |-> FALSE]
          BY <4>1, <5>1, Zenon
        <5>3. job'[d].pinned = FALSE
          BY <5>2
        <5> QED BY <4>2, <4>4, <5>3
      <4> QED BY <4>3, <4>4
    <3> QED BY <1>1, <1>2, <2>2, <3>1, <3>2
  <2> QED BY <2>1, <2>2
<1> QED BY <1>3, <1>4, <1>5

LEMMA BorrowOwn ==
    ASSUME TypeInv, OwnInv, NEW c \in Clients, BorrowConn(c)
    PROVE  OwnInv'
<1> DEFINE p == PoolOf[c]
<1> DEFINE b == Head(queue[p])
<1> USE DEF OwnInv
<1>0. /\ p \in Pools /\ queue[p] # <<>> /\ queue' = [queue EXCEPT ![p] = Tail(@)]
      /\ UNCHANGED <<closeCh, inHand, job>> /\ held[c] = None
  BY PoolingAssumption DEF BorrowConn, TakeFromQueue, targetVars, TypeInv, HeldWhileServing
<1>1. b \in Backends /\ \A d \in Clients : b \notin Owned(d)
  <2>1. b \in Range(queue[p]) /\ b \in Backends
    BY <1>0, RangeTail DEF TypeInv, TypeOK, ChannelTypes
  <2> QED BY <1>0, <2>1 DEF Exclusive, OwnersApart
<1>2. \A d \in Clients :
        /\ held'[d] = IF d = c THEN b ELSE held[d]
        /\ pin'[d] = IF d = c /\ RequiresPin(job[c].req) THEN b ELSE pin[d]
        /\ pc'[d] = IF d = c THEN "send" ELSE pc[d]
  BY DEF BorrowConn, TakeFromQueue, TypeInv, TypeOK, SessionTypes, PinTypes
<1>3. Exclusive'
  <2>1. Owned(c)' \subseteq Owned(c) \cup {b}
    BY <1>2 DEF Owned
  <2>2. \A d \in Clients \ {c} : Owned(d)' = Owned(d)
    BY <1>2 DEF Owned
  <2> QED BY <1>0, <2>1, <2>2, BorrowExclusive
<1>4. PinsKnown'
  <2> SUFFICES ASSUME NEW d \in Clients, pin'[d] # None
               PROVE  bclient'[pin'[d]] = d
    BY DEF PinsKnown
  <2>1. CASE RequiresPin(job[c].req) /\ d = c
    BY <1>1, <1>2, <2>1 DEF BorrowConn, TakeFromQueue, TypeInv, TypeOK, PinTypes
  <2>2. CASE RequiresPin(job[c].req) /\ d # c
    <3>1. pin'[d] = pin[d] /\ pin[d] # b /\ bclient[pin[d]] = d
      BY <1>1, <1>2, <2>2 DEF Owned, PinsKnown
    <3> QED BY <2>2, <3>1 DEF BorrowConn, TakeFromQueue, TypeInv, TypeOK, PinTypes
  <2>3. CASE ~RequiresPin(job[c].req)
    BY <1>2, <2>3 DEF BorrowConn, TakeFromQueue, PinsKnown
  <2> QED BY <2>1, <2>2, <2>3
<1>5. BorrowedApart'
  <2>1. pin[c] # b
    BY <1>1, PoolingAssumption DEF Owned
  <2> QED BY <1>0, <1>2, <2>1 DEF BorrowedApart
<1> QED BY <1>3, <1>4, <1>5

LEMMA CleanupOwn ==
    ASSUME TypeInv, OwnInv, NEW c \in Clients, Cleanup(c)
    PROVE  OwnInv'
<1> USE DEF OwnInv
<1>0. /\ UNCHANGED <<inHand, held, job>> /\ held[c] = None
      /\ \A d \in Clients : d # c => pc'[d] = pc[d]
  BY DEF Cleanup, targetVars, TypeInv, TypeOK, SessionTypes, HeldWhileServing
<1>1. CASE pin[c] # None
  <2> DEFINE b == pin[c]
  <2>0. b \in Backends /\ b \in Owned(c) /\ bclient[b] = c /\ ChannelTypes /\ Release(b)
    BY <1>1 DEF Cleanup, TypeInv, TypeOK, PinTypes, Owned, PinsKnown
  <2>1. \A d \in Clients : /\ pin'[d] = IF d = c THEN None ELSE pin[d]
                           /\ Owned(d)' \subseteq Owned(d)
    BY <1>0, <2>0 DEF Release, Owned
  <2>2. Exclusive'
    <3>1. b \notin Owned(c)'
      BY <1>0, <2>0, <2>1 DEF Owned
    <3>2. closeCh' = Append(closeCh, b) /\ UNCHANGED queue
      BY <2>0 DEF Release
    <3> QED BY <1>0, <2>0, <2>1, <3>1, <3>2, ReturnExclusive
  <2>3. PinsKnown'
    <3> SUFFICES ASSUME NEW d \in Clients, pin'[d] # None
                 PROVE  bclient'[pin'[d]] = d
      BY DEF PinsKnown
    <3>1. pin'[d] = pin[d] /\ pin[d] # b /\ bclient[pin[d]] = d
      BY <2>0, <2>1 DEF PinsKnown
    <3> QED BY <2>0, <3>1 DEF Release, TypeInv, TypeOK, PinTypes
  <2>4. BorrowedApart'
    BY <1>0, <2>1 DEF BorrowedApart
  <2> QED BY <2>2, <2>3, <2>4
<1>2. CASE pin[c] = None
  <2>1. UNCHANGED <<pin, bclient, queue, closeCh>>
    BY <1>2 DEF Cleanup, channelVars
  <2>2. Exclusive'
    BY <1>0, <2>1, OwnersShrink DEF Owned
  <2>3. PinsKnown'
    BY <2>1 DEF PinsKnown
  <2>4. BorrowedApart'
    BY <1>0, <1>2, <2>1 DEF BorrowedApart
  <2> QED BY <2>2, <2>3, <2>4
<1> QED BY <1>1, <1>2

LEMMA FailListenOwn ==
    ASSUME TypeInv, OwnInv, NEW c \in Clients, FailListen(c)
    PROVE  OwnInv'
<1> USE DEF OwnInv
<1>0. /\ UNCHANGED <<inHand, held, job, pc, bclient, queue, closeCh>>
      /\ \A d \in Clients : pin'[d] = IF d = c THEN None ELSE pin[d]
  BY DEF FailListen, targetVars, channelVars, backendVars, TypeInv, TypeOK, PinTypes
<1>1. Exclusive'
  <2>1. \A d \in Clients : Owned(d)' \subseteq Owned(d)
    BY <1>0 DEF Owned
  <2> QED BY <1>0, <2>1, OwnersShrink
<1>2. PinsKnown'
  BY <1>0 DEF PinsKnown
<1>3. BorrowedApart'
  BY <1>0 DEF BorrowedApart
<1> QED BY <1>1, <1>2, <1>3

\* The clients' steps.  The proviso is about the read errors that the extended
\* and prepared paths report as status "?".
LEMMA OwnClient ==
    ASSUME TypeInv, OwnInv, NEW c \in Clients, ClientStep(c) \/ FailListen(c),
           ReadFails(c) /\ clientUp[c] /\ job[c].pinned => namedStmts[c] = 0
    PROVE  OwnInv'
<1> USE DEF channelVars, targetVars, backendVars
<1>0. pc[c] \in {"send", "read"} => held[c] # None
  BY DEF TypeInv, HeldWhileServing
<1>1. CASE Accept(c)
  BY <1>1, AcceptOwn
<1>2. CASE HandleClientMessage(c)
  BY <1>2, StartOwn
<1>3. CASE Disconnect(c) \/ BorrowTimeout(c)
  BY <1>3, DropOwn DEF Disconnect, BorrowTimeout
<1>4. CASE ClientDrops(c)
  BY <1>4, SameOwn DEF ClientDrops
<1>5. CASE BorrowConn(c)
  BY <1>5, BorrowOwn
<1>6. CASE BorrowWait(c) \/ SendRequest(c) \/ SendUnnoticed(c)
  <2>1. \A d \in Clients : pc'[d] = "gone" => pc[d] = "gone"
    BY <1>6 DEF BorrowWait, SendRequest, SendUnnoticed, TypeInv, TypeOK, SessionTypes
  <2> QED BY <1>6, <2>1, SameOwn DEF BorrowWait, SendRequest, SendUnnoticed
<1>7. CASE SendFails(c) \/ DeployFails(c) \/ ForwardFails(c) \/ ReadErrorSimple(c)
  BY <1>0, <1>7, ReleaseOwn DEF SendFails, DeployFails, ForwardFails, ReadErrorSimple,
     ReadFails
<1>8. CASE ReadReply(c)
  <2>1. held[c] # None /\ Done(c, "idle") /\ UNCHANGED inHand
    BY <1>0, <1>8 DEF ReadReply
  <2>2. CASE job[c].path = "notify"
    <3>1. pin[c] # held[c]
      BY <2>1, <2>2 DEF OwnInv, BorrowedApart
    <3> QED BY <1>8, <2>1, <2>2, <3>1, ReturnOwn DEF ReadReply
  <2>3. CASE job[c].path = "flush" /\ job[c].pinned
    BY <1>8, <2>1, <2>3, DropOwn DEF ReadReply, AfterFlush
  <2>4. CASE job[c].path = "flush" /\ ~job[c].pinned
    BY <1>8, <2>1, <2>4, PinOwn DEF ReadReply, AfterFlush
  <2>5. CASE job[c].path \notin {"notify", "flush"}
    <3>1. Reconcile(c, held[c], Head(wire[held[c]]).tx)
      BY <1>8, <2>5 DEF ReadReply
    <3>2. Head(wire[held[c]]).tx # "?"
      <4>1. wire[held[c]] \in Seq(Replies) /\ wire[held[c]] # <<>>
        BY <1>8, <2>1 DEF ReadReply, TypeInv, TypeOK, ServerTypes, SessionTypes
      <4>2. Head(wire[held[c]]) \in Replies
        BY <4>1, RangeTail
      <4> QED BY <4>2 DEF Replies, Statuses
    <3> QED BY <2>1, <3>1, <3>2, ReconcileOwn
  <2> QED BY <2>2, <2>3, <2>4, <2>5
<1>9. CASE ReadErrorExtended(c)
  <2>1. held[c] # None /\ UNCHANGED inHand
    BY <1>0, <1>9 DEF ReadErrorExtended, ReadFails
  <2>2. CASE ~clientUp[c]
    BY <1>9, <2>1, <2>2, ReleaseOwn DEF ReadErrorExtended
  <2>3. CASE clientUp[c] /\ job[c].path = "flush" /\ job[c].pinned
    BY <1>9, <2>1, <2>3, DropOwn DEF ReadErrorExtended, AfterFlush
  <2>4. CASE clientUp[c] /\ job[c].path = "flush" /\ ~job[c].pinned
    BY <1>9, <2>1, <2>4, PinOwn DEF ReadErrorExtended, AfterFlush
  <2>5. CASE clientUp[c] /\ job[c].path # "flush"
    <3>1. Reconcile(c, held[c], "?") /\ Done(c, "idle") /\ ReadFails(c)
      BY <1>9, <2>5 DEF ReadErrorExtended
    <3> QED BY <2>1, <2>5, <3>1, ReconcileOwn
  <2> QED BY <2>2, <2>3, <2>4, <2>5
<1>10. CASE Cleanup(c)
  BY <1>10, CleanupOwn
<1>11. CASE FailListen(c)
  BY <1>11, FailListenOwn
<1> QED BY <1>1, <1>2, <1>3, <1>4, <1>5, <1>6, <1>7, <1>8, <1>9, <1>10, <1>11
        DEF ClientStep, ServeStep

\* The target goroutine's steps never touch what the clients know; they move
\* connections between the channels, its hand and nowhere.
LEMMA ChannelOwn ==
    ASSUME OwnInv, Exclusive', UNCHANGED <<pc, job, held, pin>>,
           \A c \in Clients : pin[c] # None => bclient'[pin[c]] = bclient[pin[c]]
    PROVE  OwnInv'
<1>1. PinsKnown'
  BY DEF OwnInv, PinsKnown
<1>2. BorrowedApart'
  BY DEF OwnInv, BorrowedApart
<1> QED BY <1>1, <1>2 DEF OwnInv

LEMMA OwnTarget ==
    ASSUME TypeInv, OwnInv, TargetStep \/ \E b \in Backends : ConnectionDies(b)
    PROVE  OwnInv'
<1> USE DEF clientVars, channelVars, targetVars, backendVars
<1>0. Exclusive /\ ChannelsApart /\ OwnersApart /\ ChannelTypes
  BY DEF OwnInv, Exclusive, TypeInv, TypeOK
<1>a. None \notin Range(closeCh) /\ \A p \in Pools : None \notin Range(queue[p])
  BY <1>0, PoolingAssumption, RangeOfSeq DEF ChannelTypes
<1>1. CASE HandleClose
  <2>1. Range(closeCh') \subseteq Range(closeCh) /\ IsInjective(closeCh')
    BY <1>0, <1>1, RangeTail DEF HandleClose, ChannelTypes, ChannelsApart
  <2>2. UNCHANGED <<queue, inHand, held, pin, pc, job, bclient>>
    BY <1>1 DEF HandleClose
  <2>3. ChannelsApart'
    BY <1>0, <2>1, <2>2 DEF ChannelsApart
  <2>4. OwnersApart'
    BY <1>0, <2>1, <2>2 DEF OwnersApart, Owned
  <2> QED BY <2>2, <2>3, <2>4, ChannelOwn DEF Exclusive
<1>2. ASSUME NEW p \in Pools, NEW q \in Pools, GrowRecycle(p, q)
      PROVE  OwnInv'
  <2>1. Exclusive'
    BY <1>0, <1>2, TakeExclusive DEF GrowRecycle
  <2> QED BY <1>2, <2>1, ChannelOwn DEF GrowRecycle
<1>3. ASSUME NEW p \in Pools, Shrink(p)
      PROVE  OwnInv'
  <2>1. CASE queue[p] # <<>>
    <3>1. Exclusive'
      BY <1>0, <1>3, <2>1, TakeExclusive DEF Shrink
    <3> QED BY <1>3, <3>1, ChannelOwn DEF Shrink
  <2>2. CASE queue[p] = <<>>
    BY <1>3, <2>2, SameOwn DEF Shrink
  <2> QED BY <2>1, <2>2
<1>4. ASSUME NEW p \in Pools, HealthTake(p)
      PROVE  OwnInv'
  <2>1. Exclusive'
    BY <1>0, <1>4, TakeExclusive DEF HealthTake
  <2> QED BY <1>4, <2>1, ChannelOwn DEF HealthTake
<1>5. CASE HealthKeep
  <2>1. /\ inHand \in Backends /\ inHand \notin Range(closeCh)
        /\ \A q \in Pools : inHand \notin Range(queue[q])
        /\ \A c \in Clients : inHand \notin Owned(c)
        /\ curPool \in Pools \cup {None}
    BY <1>0, <1>5 DEF HealthKeep, ChannelsApart, OwnersApart, TypeInv, TypeOK, TargetTypes
  <2>2. Deposited(curPool, inHand)
    BY <1>0, <1>5 DEF HealthKeep, Deposited, ChannelTypes
  <2>3. Exclusive'
    BY <1>0, <1>5, <2>1, <2>2, PutExclusive DEF HealthKeep
  <2> QED BY <1>5, <2>3, ChannelOwn DEF HealthKeep
<1>6. CASE HealthReap
  <2>1. inHand' = None /\ UNCHANGED <<queue, closeCh, held, pin, pc, job, bclient>>
    BY <1>6 DEF HealthReap
  <2>2. ChannelsApart'
    BY <1>0, <1>a, <2>1 DEF ChannelsApart
  <2>3. OwnersApart'
    BY <1>0, <2>1 DEF OwnersApart, Owned
  <2> QED BY <2>1, <2>2, <2>3, ChannelOwn DEF Exclusive
<1>7. CASE OpenOne
  <2>1. CASE Len(queue[curPool]) < MaxConnections
    <3>1. PICK b \in Backends :
            /\ Unreferenced(b)
            /\ bclient' = [bclient EXCEPT ![b] = None]
            /\ queue' = [queue EXCEPT ![curPool] = Append(@, b)]
      BY <1>7, <2>1 DEF OpenOne
    <3>2. /\ b \notin Range(closeCh) /\ inHand # b
          /\ \A q \in Pools : b \notin Range(queue[q])
          /\ \A c \in Clients : b \notin Owned(c) /\ pin[c] # b
      BY <3>1 DEF Unreferenced, Owned
    <3>3. Deposited(curPool, b) /\ curPool \in Pools \cup {None}
      BY <1>0, <3>1 DEF Deposited, ChannelTypes, TypeInv, TypeOK, TargetTypes
    <3>4. Exclusive'
      BY <1>0, <1>7, <3>2, <3>3, PutExclusive DEF OpenOne
    <3>5. \A c \in Clients : pin[c] # None => bclient'[pin[c]] = bclient[pin[c]]
      BY <3>1, <3>2 DEF TypeInv, TypeOK, PinTypes
    <3> QED BY <1>7, <3>4, <3>5, ChannelOwn DEF OpenOne
  <2>2. CASE ~(Len(queue[curPool]) < MaxConnections)
    BY <1>7, <2>2, SameOwn DEF OpenOne
  <2> QED BY <2>1, <2>2
<1>8. ASSUME NEW p \in Pools, GrowFresh(p)
      PROVE  OwnInv'
  BY <1>8, SameOwn DEF GrowFresh
<1>9. CASE GrowthScan \/ HealthStart \/ UpdateServerStats \/ GrowEnd \/ OpenFails
           \/ ShrinkEnd \/ HealthEnd
  BY <1>9, SameOwn DEF GrowthScan, HealthStart, UpdateServerStats, GrowEnd, OpenFails,
     ShrinkEnd, HealthEnd
<1>10. ASSUME NEW b \in Backends, ConnectionDies(b)
       PROVE  OwnInv'
  BY <1>10, SameOwn DEF ConnectionDies
<1> QED BY <1>1, <1>2, <1>3, <1>4, <1>5, <1>6, <1>7, <1>8, <1>9, <1>10
        DEF TargetStep, CycleStep

-----------------------------------------------------------------------------
(* Without these faults the connections in use or idle stay open. *)

\* What the end of a request may change: the client keeps at most what it had,
\* and at most its backend is deposited.
LEMMA EndMoves ==
    ASSUME TypeInv, NEW c \in Clients, held[c] # None, NEW next, Done(c, next),
           \/ Release(held[c])
           \/ Return(held[c]) /\ UNCHANGED pin
           \/ Pin(c, held[c])
           \/ UNCHANGED <<pin, queue>>
           \/ \E status : Reconcile(c, held[c], status)
    PROVE  /\ \A d \in Clients : Owned(d)' \subseteq Owned(d)
           /\ \A p \in Pools : \A b \in Range(queue'[p]) : b \in Range(queue[p]) \cup {held[c]}
<1> USE DEF TypeInv, TypeOK, SessionTypes, PinTypes, ChannelTypes
<1>0. \A d \in Clients : held'[d] \in {held[d], None}
  BY DEF Done
<1>1. ASSUME \A d \in Clients : pin'[d] \in {pin[d], None} \cup (IF d = c THEN {held[c]} ELSE {})
      PROVE  \A d \in Clients : Owned(d)' \subseteq Owned(d)
  BY <1>0, <1>1 DEF Owned
<1>2. ASSUME Return(held[c])
      PROVE  \A p \in Pools : \A b \in Range(queue'[p]) : b \in Range(queue[p]) \cup {held[c]}
  <2>1. CASE UNCHANGED queue
    BY <2>1
  <2>2. CASE queue' = [queue EXCEPT ![bpool[held[c]]] = Append(@, held[c])]
    <3>1. held[c] \in Backends
      OBVIOUS
    <3>2. bpool[held[c]] \in Pools \cup {None}
      BY <3>1 DEF BookTypes
    <3> SUFFICES ASSUME NEW p \in Pools
                 PROVE  Range(queue'[p]) \subseteq Range(queue[p]) \cup {held[c]}
      OBVIOUS
    <3>3. queue'[p] = IF p = bpool[held[c]] THEN Append(queue[p], held[c]) ELSE queue[p]
      BY <2>2
    <3> QED BY <3>1, <3>2, <3>3, QueueAppend
  <2> QED BY <1>2, <2>1, <2>2 DEF Return
<1>3. CASE Release(held[c])
  BY <1>1, <1>3 DEF Release
<1>4. CASE Return(held[c]) /\ UNCHANGED pin
  BY <1>1, <1>2, <1>4
<1>5. CASE Pin(c, held[c])
  BY <1>1, <1>5 DEF Pin, channelVars
<1>6. CASE UNCHANGED <<pin, queue>>
  BY <1>1, <1>6
<1>7. ASSUME NEW clear, Unpin(c, held[c], clear)
      PROVE  /\ \A d \in Clients : Owned(d)' \subseteq Owned(d)
             /\ \A p \in Pools : \A b \in Range(queue'[p]) :
                    b \in Range(queue[p]) \cup {held[c]}
  BY <1>1, <1>2, <1>7 DEF Unpin
<1> QED BY <1>3, <1>4, <1>5, <1>6, <1>7 DEF Reconcile

LEMMA UnbrokenKept ==
    ASSUME Unbroken, UNCHANGED <<conn, inHand>>,
           \A c \in Clients : Owned(c)' \subseteq Owned(c),
           \A c \in Clients : clientUp'[c] => clientUp[c] \/ Owned(c) = {},
           \A p \in Pools : \A b \in Range(queue'[p]) : b \in Range(queue[p]) \/ conn[b] = "open"
    PROVE  Unbroken'
<1>1. \A c \in Clients : \A b \in Owned(c)' : clientUp'[c] => conn[b] = "open"
  BY DEF Unbroken
<1>2. \A p \in Pools : \A b \in Range(queue'[p]) : conn[b] = "open"
  BY DEF Unbroken
<1> QED BY <1>1, <1>2 DEF Unbroken

LEMMA UnbrokenClient ==
    ASSUME TypeInv, OwnInv, Silent, Unbroken, NoFaults, NEW c \in Clients,
           ClientStep(c) \/ FailListen(c)
    PROVE  Unbroken'
<1> USE DEF serverVars, channelVars, targetVars, backendVars
<1>0. pc[c] \in {"send", "read"} <=> held[c] # None
  BY DEF TypeInv, HeldWhileServing
<1>1. CASE Accept(c)
  <2>1. Owned(c) = {}
    BY <1>0, <1>1 DEF Accept, Owned, OwnInv, BorrowedApart
  <2>2. /\ UNCHANGED <<conn, inHand, queue, held, pin>>
        /\ \A d \in Clients : clientUp'[d] => clientUp[d] \/ d = c
    BY <1>1 DEF Accept, TypeInv, TypeOK, SessionTypes
  <2> QED BY <2>1, <2>2, UnbrokenKept DEF Owned
<1>2. CASE HandleClientMessage(c)
  <2>1. \A d \in Clients : Owned(d)' \subseteq Owned(d)
    BY <1>2 DEF HandleClientMessage, ExecuteQuery, ExecuteExtendedPipeline, Start, Owned,
       TypeInv, TypeOK, SessionTypes
  <2> QED BY <1>2, <2>1, UnbrokenKept DEF HandleClientMessage
<1>3. CASE Disconnect(c) \/ BorrowTimeout(c)
  <2>1. \A d \in Clients : Owned(d)' \subseteq Owned(d)
    BY <1>3 DEF Disconnect, BorrowTimeout, Done, Owned, TypeInv, TypeOK, SessionTypes
  <2> QED BY <1>3, <2>1, UnbrokenKept DEF Disconnect, BorrowTimeout
<1>4. CASE ClientDrops(c)
  <2>1. \A d \in Clients : clientUp'[d] => clientUp[d]
    BY <1>4 DEF ClientDrops, TypeInv, TypeOK, SessionTypes
  <2> QED BY <1>4, <2>1, UnbrokenKept DEF ClientDrops, Owned
<1>5. CASE BorrowWait(c) \/ SendRequest(c) \/ SendUnnoticed(c)
  BY <1>5, UnbrokenKept DEF BorrowWait, SendRequest, Serve, SendUnnoticed, Owned
<1>6. CASE BorrowConn(c)
  <2> DEFINE p == PoolOf[c]
  <2> DEFINE x == Head(queue[p])
  <2>0. /\ p \in Pools /\ queue[p] # <<>> /\ queue' = [queue EXCEPT ![p] = Tail(@)]
        /\ UNCHANGED <<conn, inHand, clientUp>> /\ ChannelTypes
    BY <1>6, PoolingAssumption DEF BorrowConn, TakeFromQueue, TypeInv, TypeOK
  <2>1. x \in Range(queue[p])
    BY <2>0, RangeTail DEF ChannelTypes
  <2>2. conn[x] = "open"
    BY <2>0, <2>1 DEF Unbroken
  <2>3. \A d \in Clients : Owned(d)' \subseteq Owned(d) \cup {x}
    BY <1>6 DEF BorrowConn, TakeFromQueue, Owned, TypeInv, TypeOK, SessionTypes, PinTypes
  <2>4. \A q \in Pools : Range(queue'[q]) \subseteq Range(queue[q])
    BY <2>0, QueueTake
  <2>5. \A d \in Clients : \A b \in Owned(d)' : clientUp'[d] => conn'[b] = "open"
    BY <2>0, <2>2, <2>3 DEF Unbroken
  <2> QED BY <2>0, <2>4, <2>5 DEF Unbroken
<1>7. CASE SendFails(c) \/ DeployFails(c) \/ ForwardFails(c) \/ ReadErrorSimple(c)
  <2>1. /\ held[c] # None /\ Release(held[c]) /\ \E next : Done(c, next)
        /\ UNCHANGED <<conn, inHand, clientUp>>
    BY <1>0, <1>7 DEF SendFails, DeployFails, ForwardFails, ReadErrorSimple, ReadFails
  <2>2. \A d \in Clients : Owned(d)' \subseteq Owned(d)
    BY <2>1, EndMoves
  <2> QED BY <2>1, <2>2, UnbrokenKept DEF Release
<1>8. CASE ReadReply(c)
  <2>1. /\ held[c] # None /\ Done(c, "idle") /\ UNCHANGED <<conn, inHand, clientUp>>
        /\ wire[held[c]] # <<>>
    BY <1>0, <1>8 DEF ReadReply
  <2>2. conn[held[c]] = "open"
    BY <2>1 DEF Silent, TypeInv, TypeOK, SessionTypes
  <2>3. \/ Return(held[c]) /\ UNCHANGED pin
        \/ Pin(c, held[c])
        \/ UNCHANGED <<pin, queue>>
        \/ \E status : Reconcile(c, held[c], status)
    BY <1>8 DEF ReadReply, AfterFlush, channelVars
  <2>4. /\ \A d \in Clients : Owned(d)' \subseteq Owned(d)
        /\ \A p \in Pools : \A b \in Range(queue'[p]) : b \in Range(queue[p]) \cup {held[c]}
    BY <2>1, <2>3, EndMoves
  <2> QED BY <2>1, <2>2, <2>4, UnbrokenKept
<1>9. CASE ReadErrorExtended(c)
  <2>1. /\ held[c] # None /\ UNCHANGED <<conn, inHand, clientUp>> /\ conn[held[c]] # "open"
    BY <1>0, <1>9 DEF ReadErrorExtended, ReadFails, NoFaults
  <2>2. ~clientUp[c]
    BY <2>1 DEF Unbroken, Owned
  <2>3. Release(held[c]) /\ Done(c, "cleanup")
    BY <1>9, <2>2 DEF ReadErrorExtended
  <2>4. \A d \in Clients : Owned(d)' \subseteq Owned(d)
    BY <2>1, <2>3, EndMoves
  <2> QED BY <2>1, <2>3, <2>4, UnbrokenKept DEF Release
<1>10. CASE Cleanup(c) \/ FailListen(c)
  <2>0. /\ UNCHANGED <<queue, inHand, held>>
        /\ \A d \in Clients : clientUp'[d] => clientUp[d] /\ d # c
        /\ \A d \in Clients : Owned(d)' \subseteq Owned(d)
    BY <1>10 DEF Cleanup, FailListen, Release, Owned, TypeInv, TypeOK, SessionTypes, PinTypes
  <2>1. CASE pin[c] = None
    BY <1>10, <2>0, <2>1, UnbrokenKept DEF Cleanup, FailListen
  <2>2. CASE pin[c] # None
    <3>1. \A b \in Backends : b # pin[c] => conn'[b] = conn[b]
      BY <1>10, <2>2 DEF Cleanup, FailListen, SetSession, TypeInv, TypeOK, ServerTypes
    <3>2. /\ pin[c] # inHand
          /\ \A p \in Pools : pin[c] \notin Range(queue[p])
          /\ \A d \in Clients \ {c} : pin[c] \notin Owned(d)
      BY <2>2 DEF OwnInv, Exclusive, OwnersApart, Owned
    <3>3. \A d \in Clients : \A b \in Owned(d)' : clientUp'[d] => conn'[b] = "open"
      BY <2>0, <3>1, <3>2 DEF Unbroken, Owned, TypeInv, TypeOK, SessionTypes, PinTypes
    <3>4. \A p \in Pools : \A b \in Range(queue[p]) : b \in Backends
      BY RangeOfSeq DEF TypeInv, TypeOK, ChannelTypes
    <3>5. \A p \in Pools : \A b \in Range(queue[p]) : conn'[b] = "open"
      BY <3>1, <3>2, <3>4 DEF Unbroken
    <3>6. inHand # None => conn'[inHand] = "open"
      BY <3>1, <3>2 DEF Unbroken, TypeInv, TypeOK, TargetTypes
    <3> QED BY <2>0, <3>3, <3>5, <3>6 DEF Unbroken
  <2> QED BY <2>1, <2>2
<1> QED BY <1>1, <1>2, <1>3, <1>4, <1>5, <1>6, <1>7, <1>8, <1>9, <1>10
        DEF ClientStep, ServeStep

\* The target goroutine closes, or opens, a connection that nobody else has.
LEMMA UnbrokenOther ==
    ASSUME TypeInv, Unbroken, NEW x, \A b \in Backends \ {x} : conn'[b] = conn[b],
           UNCHANGED <<held, pin, clientUp>>,
           \A c \in Clients : x \notin Owned(c),
           \A q \in Pools : Range(queue'[q]) \subseteq Range(queue[q]) \cup {x},
           \A q \in Pools : x \in Range(queue'[q]) => conn'[x] = "open",
           inHand' \in {inHand, None}, inHand' # x
    PROVE  Unbroken'
<1>1. \A q \in Pools : Range(queue[q]) \subseteq Backends
  BY RangeOfSeq DEF TypeInv, TypeOK, ChannelTypes
<1>2. \A c \in Clients : Owned(c)' = Owned(c) /\ Owned(c) \subseteq Backends
  BY DEF Owned, TypeInv, TypeOK, SessionTypes, PinTypes
<1>3. \A c \in Clients : \A b \in Owned(c)' : clientUp'[c] => conn'[b] = "open"
  BY <1>2 DEF Unbroken
<1>4. \A p \in Pools : \A b \in Range(queue'[p]) : conn'[b] = "open"
  BY <1>1 DEF Unbroken
<1>5. inHand' # None => conn'[inHand'] = "open"
  BY DEF Unbroken, TypeInv, TypeOK, TargetTypes
<1> QED BY <1>3, <1>4, <1>5 DEF Unbroken

LEMMA UnbrokenTarget ==
    ASSUME TypeInv, OwnInv, Unbroken, NoFaults,
           TargetStep \/ \E b \in Backends : ConnectionDies(b)
    PROVE  Unbroken'
<1> USE DEF clientVars, serverVars, channelVars, targetVars, backendVars
<1>0. Exclusive /\ ChannelsApart /\ OwnersApart /\ ChannelTypes
  BY DEF OwnInv, Exclusive, TypeInv, TypeOK
<1>a. ASSUME NEW x, NEW p, CloseAndForget(p, x)
      PROVE  \A b \in Backends \ {x} : conn'[b] = conn[b]
  BY <1>a DEF CloseAndForget, SetSession, TypeInv, TypeOK, ServerTypes
<1>b. ASSUME NEW p \in Pools, queue[p] # <<>>, queue' = [queue EXCEPT ![p] = Tail(@)]
      PROVE  /\ \A c \in Clients : Head(queue[p]) \notin Owned(c)
             /\ Head(queue[p]) # inHand
             /\ \A q \in Pools : Range(queue'[q]) \subseteq Range(queue[q])
             /\ \A q \in Pools : Head(queue[p]) \notin Range(queue'[q])
  <2>1. Head(queue[p]) \in Range(queue[p])
    BY <1>0, <1>b, QueueTake
  <2>2. \A q \in Pools : Range(queue'[q]) \subseteq Range(queue[q])
    BY <1>0, <1>b, QueueTake
  <2>3. Head(queue[p]) \notin Range(queue'[p])
    BY <1>0, <1>b, QueueTake DEF ChannelsApart
  <2>4. \A q \in Pools \ {p} : Head(queue[p]) \notin Range(queue[q])
    BY <1>0, <2>1 DEF ChannelsApart
  <2>5. Head(queue[p]) # inHand /\ \A c \in Clients : Head(queue[p]) \notin Owned(c)
    BY <1>0, <2>1 DEF ChannelsApart, OwnersApart
  <2> QED BY <2>2, <2>3, <2>4, <2>5
<1>1. CASE HandleClose
  <2> DEFINE x == Head(closeCh)
  <2>1. x \in Range(closeCh)
    BY <1>0, <1>1, RangeTail DEF HandleClose, ChannelTypes
  <2>2. /\ \A c \in Clients : x \notin Owned(c)
        /\ \A q \in Pools : x \notin Range(queue[q])
        /\ x # inHand
    BY <1>0, <2>1 DEF ChannelsApart, OwnersApart
  <2>3. \A b \in Backends \ {x} : conn'[b] = conn[b]
    BY <1>1, <1>a DEF HandleClose
  <2>4. UNCHANGED <<held, pin, clientUp, queue, inHand>>
    BY <1>1 DEF HandleClose
  <2> QED BY <2>2, <2>3, <2>4, UnbrokenOther
<1>2. ASSUME NEW p \in Pools, NEW q \in Pools, GrowRecycle(p, q)
      PROVE  Unbroken'
  BY <1>2, <1>a, <1>b, UnbrokenOther DEF GrowRecycle
<1>3. ASSUME NEW p \in Pools, Shrink(p)
      PROVE  Unbroken'
  <2>1. CASE queue[p] # <<>>
    BY <1>3, <1>a, <1>b, <2>1, UnbrokenOther DEF Shrink
  <2>2. CASE queue[p] = <<>>
    BY <1>3, <2>2, UnbrokenKept DEF Shrink, Owned
  <2> QED BY <2>1, <2>2
<1>4. ASSUME NEW p \in Pools, HealthTake(p)
      PROVE  Unbroken'
  <2>1. /\ UNCHANGED <<conn, held, pin, clientUp>> /\ inHand' = Head(queue[p])
        /\ queue[p] # <<>> /\ queue' = [queue EXCEPT ![p] = Tail(@)]
    BY <1>4 DEF HealthTake
  <2>2. conn[Head(queue[p])] = "open"
    <3>1. Head(queue[p]) \in Range(queue[p])
      BY <1>0, <2>1, QueueTake
    <3> QED BY <3>1 DEF Unbroken
  <2>3. \A q \in Pools : Range(queue'[q]) \subseteq Range(queue[q])
    BY <1>b, <2>1
  <2>4. \A c \in Clients : \A b \in Owned(c)' : clientUp'[c] => conn'[b] = "open"
    BY <2>1 DEF Unbroken, Owned
  <2>5. \A q \in Pools : \A b \in Range(queue'[q]) : conn'[b] = "open"
    BY <2>1, <2>3 DEF Unbroken
  <2> QED BY <2>1, <2>2, <2>4, <2>5 DEF Unbroken
<1>5. CASE HealthKeep
  <2>1. /\ inHand \in Backends /\ curPool \in Pools \cup {None} /\ conn[inHand] = "open"
        /\ inHand' = None /\ UNCHANGED <<conn, held, pin, clientUp>>
    BY <1>5 DEF HealthKeep, Unbroken, TypeInv, TypeOK, TargetTypes
  <2>2. \A q \in Pools : Range(queue'[q]) \subseteq Range(queue[q]) \cup {inHand}
    <3> TAKE q \in Pools
    <3>1. queue'[q] = IF q = curPool THEN Append(queue[q], inHand) ELSE queue[q]
      BY <1>0, <1>5 DEF HealthKeep, ChannelTypes
    <3> QED BY <1>0, <2>1, <3>1, QueueAppend
  <2>3. \A c \in Clients : inHand \notin Owned(c)
    BY <1>0 DEF OwnersApart
  <2>4. inHand' # inHand
    BY <2>1, PoolingAssumption
  <2> QED BY <2>1, <2>2, <2>3, <2>4, UnbrokenOther
<1>6. CASE HealthReap
  <2>1. /\ inHand # None /\ inHand' = None /\ UNCHANGED <<queue, held, pin, clientUp>>
        /\ \A b \in Backends \ {inHand} : conn'[b] = conn[b]
    BY <1>6, <1>a DEF HealthReap
  <2>2. /\ \A c \in Clients : inHand \notin Owned(c)
        /\ \A q \in Pools : inHand \notin Range(queue[q])
    BY <1>0 DEF ChannelsApart, OwnersApart
  <2> QED BY <2>1, <2>2, UnbrokenOther
<1>7. CASE OpenOne
  <2>1. CASE Len(queue[curPool]) < MaxConnections
    <3>1. PICK x \in Backends :
            /\ Unreferenced(x)
            /\ SetSession(x, "open")
            /\ queue' = [queue EXCEPT ![curPool] = Append(@, x)]
      BY <1>7, <2>1 DEF OpenOne
    <3>2. /\ conn'[x] = "open" /\ \A b \in Backends \ {x} : conn'[b] = conn[b]
          /\ x # inHand /\ \A c \in Clients : x \notin Owned(c)
          /\ UNCHANGED <<held, pin, clientUp, inHand>>
      BY <1>7, <3>1 DEF OpenOne, SetSession, Unreferenced, Owned, TypeInv, TypeOK,
         ServerTypes
    <3>3. \A q \in Pools : Range(queue'[q]) \subseteq Range(queue[q]) \cup {x}
      <4> TAKE q \in Pools
      <4>1. queue'[q] = IF q = curPool THEN Append(queue[q], x) ELSE queue[q]
        BY <1>0, <3>1 DEF ChannelTypes
      <4>2. curPool \in Pools \cup {None}
        BY DEF TypeInv, TypeOK, TargetTypes
      <4> QED BY <1>0, <4>1, <4>2, QueueAppend
    <3> QED BY <3>2, <3>3, UnbrokenOther
  <2>2. CASE ~(Len(queue[curPool]) < MaxConnections)
    BY <1>7, <2>2, UnbrokenKept DEF OpenOne, Owned
  <2> QED BY <2>1, <2>2
<1>8. ASSUME NEW p \in Pools, GrowFresh(p)
      PROVE  Unbroken'
  BY <1>8, UnbrokenKept DEF GrowFresh, Owned
<1>9. CASE GrowthScan \/ HealthStart \/ UpdateServerStats \/ GrowEnd \/ OpenFails
           \/ ShrinkEnd \/ HealthEnd
  BY <1>9, UnbrokenKept DEF GrowthScan, HealthStart, UpdateServerStats, GrowEnd,
     OpenFails, ShrinkEnd, HealthEnd, Owned
<1>10. \A b \in Backends : ~ConnectionDies(b)
  BY DEF NoFaults, ConnectionDies
<1> QED BY <1>1, <1>2, <1>3, <1>4, <1>5, <1>6, <1>7, <1>8, <1>9, <1>10
        DEF TargetStep, CycleStep

-----------------------------------------------------------------------------

LEMMA ExclusiveInit == Init => ExclusiveInv
<1> SUFFICES ASSUME Init PROVE ExclusiveInv
  OBVIOUS
<1>1. TypeInv
  BY TypeInit
<1>2. Exclusive
  BY RangeEmpty DEF Init, Exclusive, ChannelsApart, OwnersApart, Owned
<1>3. PinsKnown /\ BorrowedApart /\ NoNamed /\ Silent
  BY DEF Init, PinsKnown, BorrowedApart, NoNamed, Silent, NoJob, RequiresPin
<1>4. Unbroken
  BY RangeEmpty DEF Init, Unbroken, Owned
<1> QED BY <1>1, <1>2, <1>3, <1>4 DEF ExclusiveInv, OwnInv

LEMMA ExclusiveStep ==
    ASSUME "named" \notin Requests \/ NoFaults, ExclusiveInv, [Next]_vars
    PROVE  ExclusiveInv'
<1> USE DEF ExclusiveInv
<1>1. CASE Next
  <2>1. TypeInv'
    BY <1>1, TypeStep
  <2>2. Silent'
    BY <1>1, SilentStep
  <2>3. "named" \notin Requests => NoNamed'
    BY <1>1, NoNamedStep
  <2>4. ASSUME NEW c \in Clients, ReadFails(c), clientUp[c], job[c].pinned
        PROVE  namedStmts[c] = 0
    <3>1. CASE "named" \notin Requests
      BY <3>1 DEF NoNamed
    <3>2. CASE NoFaults
      <4>1. held[c] # None /\ conn[held[c]] # "open"
        BY <2>4, <3>2 DEF ReadFails, NoFaults, TypeInv, HeldWhileServing
      <4> QED BY <2>4, <3>2, <4>1 DEF Unbroken, Owned
    <3> QED BY <3>1, <3>2
  <2>5. OwnInv'
    BY <1>1, <2>4, OwnClient, OwnTarget DEF Next, EnvironmentStep
  <2>6. NoFaults => Unbroken'
    BY <1>1, UnbrokenClient, UnbrokenTarget DEF Next, EnvironmentStep
  <2> QED BY <2>1, <2>2, <2>3, <2>5, <2>6
<1>2. CASE UNCHANGED vars
  <2> USE <1>2 DEF vars, clientVars, serverVars, backendVars, countVars, channelVars,
        targetVars
  <2>1. TypeInv'
    BY TypeStep
  <2>2. OwnInv'
    BY SameOwn
  <2>3. Silent' /\ (NoNamed => NoNamed')
    BY DEF Silent, NoNamed
  <2>4. Unbroken => Unbroken'
    BY UnbrokenKept DEF Owned
  <2> QED BY <2>1, <2>2, <2>3, <2>4
<1> QED BY <1>1, <1>2

\* A server connection is never in the hands of two clients, of a client and a
\* channel, or twice in the channels, if the clients parse no passthrough named
\* statements, or if no connection breaks, no query_timeout expires and no reply
\* exceeds max_message_size.
THEOREM ExclusiveOwnership ==
    ASSUME "named" \notin Requests \/ Faults \cap {"die", "timeout", "oversize"} = {}
    PROVE  Spec => []Exclusive
<1>1. "named" \notin Requests \/ NoFaults
  BY DEF NoFaults
<1>2. ExclusiveInv /\ [Next]_vars => ExclusiveInv'
  BY <1>1, ExclusiveStep
<1>3. ExclusiveInv => Exclusive
  BY DEF ExclusiveInv, OwnInv
<1> QED BY ExclusiveInit, <1>2, <1>3, PTL DEF Spec

-----------------------------------------------------------------------------
(* The books. *)

\* A connection is in the All of the Pool it was opened for, and of no other.
Homes == \A p \in Pools : \A b \in all[p] : bpool[b] = p

Registered(b) == bpool[b] \in Pools /\ b \in all[bpool[b]]

\* Whatever is in a channel, with the target goroutine or with a client is in
\* the All of its Pool: nothing is closed behind the back of its owner.
Placed ==
    /\ \A p \in Pools : Range(queue[p]) \subseteq all[p]
    /\ \A b \in Range(closeCh) : Registered(b)
    /\ \A c \in Clients : \A b \in Owned(c) : Registered(b)
    /\ inHand # None => tpc = "health" /\ curPool \in Pools /\ inHand \in all[curPool]

\* Between the decision to open a connection and openOne there is budget.
Budget ==
    /\ Accounting
    /\ tpc = "open" => totalOpen < MaxConnections /\ curPool \in Pools

BookInv == Homes /\ Placed /\ Budget

-----------------------------------------------------------------------------
(* The clients' steps move connections between owners and leave the books. *)

\* The handler's connection goes back, or to CloseCh, or stays.
Passed(b) ==
    /\ \A q \in Pools : \A x \in Range(queue'[q]) :
          x \in Range(queue[q]) \/ (x = b /\ bpool[b] = q)
    /\ Range(closeCh') \subseteq Range(closeCh) \cup {b}

LEMMA ReturnPassed ==
    ASSUME TypeInv, NEW b \in Backends, Return(b)
    PROVE  Passed(b)
<1>0. ChannelTypes /\ bpool[b] \in Pools \cup {None}
  BY DEF TypeInv, TypeOK, BookTypes
<1>1. CASE queue' = [queue EXCEPT ![bpool[b]] = Append(@, b)] /\ UNCHANGED closeCh
  <2> SUFFICES ASSUME NEW q \in Pools, NEW x \in Range(queue'[q])
               PROVE  x \in Range(queue[q]) \/ (x = b /\ bpool[b] = q)
    BY <1>1 DEF Passed
  <2>1. queue'[q] = IF q = bpool[b] THEN Append(queue[q], b) ELSE queue[q]
    BY <1>0, <1>1 DEF ChannelTypes
  <2> QED BY <1>0, <2>1, QueueAppend
<1>2. CASE closeCh' = Append(closeCh, b) /\ UNCHANGED queue
  <2>1. Range(closeCh') = Range(closeCh) \cup {b}
    BY <1>0, <1>2, RangeAppend DEF ChannelTypes
  <2> QED BY <1>2, <2>1 DEF Passed
<1> QED BY <1>1, <1>2 DEF Return

LEMMA ReleasePassed ==
    ASSUME TypeInv, NEW b \in Backends, Release(b)
    PROVE  Passed(b)
<1>1. Range(closeCh') = Range(closeCh) \cup {b}
  BY RangeAppend DEF Release, TypeInv, TypeOK, ChannelTypes
<1> QED BY <1>1 DEF Passed, Release

\* How a request ends, whatever its path.
EndsRequest(c) ==
    /\ held[c] # None
    /\ \E next \in {"idle", "cleanup"} : Done(c, next)
    /\ \/ Release(held[c])
       \/ job[c].path = "notify" /\ Return(held[c]) /\ UNCHANGED pin
       \/ job[c].path # "notify" /\ ~job[c].pinned /\ Pin(c, held[c])
       \/ /\ job[c].path # "notify" /\ job[c].pinned
          /\ UNCHANGED <<pin, queue, closeCh, bclient>>
       \/ job[c].path # "notify" /\ \E status : Reconcile(c, held[c], status)

LEMMA EndingSteps ==
    ASSUME TypeInv, NEW c \in Clients,
           \/ SendFails(c) \/ DeployFails(c) \/ ForwardFails(c) \/ ReadErrorSimple(c)
           \/ ReadReply(c) \/ ReadErrorExtended(c)
    PROVE  EndsRequest(c)
<1>0. pc[c] \in {"send", "read"} <=> held[c] # None
  BY DEF TypeInv, HeldWhileServing
<1>1. CASE SendFails(c) \/ DeployFails(c) \/ ForwardFails(c) \/ ReadErrorSimple(c)
  BY <1>0, <1>1 DEF SendFails, DeployFails, ForwardFails, ReadErrorSimple, ReadFails,
     EndsRequest
<1>2. CASE ReadReply(c)
  BY <1>0, <1>2 DEF ReadReply, AfterFlush, channelVars, EndsRequest
<1>3. CASE ReadErrorExtended(c)
  BY <1>0, <1>3 DEF ReadErrorExtended, ReadFails, AfterFlush, channelVars, EndsRequest
<1> QED BY <1>1, <1>2, <1>3

LEMMA EndPassed ==
    ASSUME TypeInv, NEW c \in Clients, EndsRequest(c)
    PROVE  /\ Passed(held[c]) /\ held[c] \in Owned(c)
           /\ \A d \in Clients : Owned(d)' \subseteq Owned(d)
<1>0. held[c] \in Backends /\ held[c] \in Owned(c)
  BY DEF EndsRequest, TypeInv, TypeOK, SessionTypes, Owned
<1>1. \A d \in Clients : Owned(d)' \subseteq Owned(d)
  BY EndMoves DEF EndsRequest
<1>2. ASSUME UNCHANGED <<queue, closeCh>>
      PROVE  Passed(held[c])
  BY <1>2 DEF Passed
<1>3. Release(held[c]) => Passed(held[c])
  BY <1>0, ReleasePassed
<1>4. Return(held[c]) => Passed(held[c])
  BY <1>0, ReturnPassed
<1>5. (\E status : Reconcile(c, held[c], status)) => Passed(held[c])
  BY <1>2, <1>4 DEF Reconcile, Pin, Unpin, channelVars
<1> QED BY <1>0, <1>1, <1>2, <1>3, <1>4, <1>5 DEF EndsRequest, Pin, channelVars

\* What any step of a client does to the places.
LEMMA ClientPlaces ==
    ASSUME TypeInv, NEW c \in Clients, ClientStep(c) \/ FailListen(c)
    PROVE  /\ UNCHANGED <<all, bpool, totalOpen, privOpen, tpc, curPool, inHand>>
           /\ \A d \in Clients : \A b \in Owned(d)' :
                 b \in Owned(d) \/ b \in Range(queue[PoolOf[c]])
           /\ \A q \in Pools : \A b \in Range(queue'[q]) :
                 b \in Range(queue[q]) \/ (b \in Owned(c) /\ bpool[b] = q)
           /\ Range(closeCh') \subseteq Range(closeCh) \cup Owned(c)
<1> USE DEF channelVars, targetVars, backendVars, countVars
<1>1. CASE Accept(c) \/ ClientDrops(c) \/ BorrowWait(c) \/ SendRequest(c) \/ SendUnnoticed(c)
  BY <1>1 DEF Accept, ClientDrops, BorrowWait, SendRequest, SendUnnoticed, Owned
<1>2. CASE HandleClientMessage(c) \/ Disconnect(c) \/ BorrowTimeout(c) \/ FailListen(c)
  <2>1. /\ UNCHANGED <<all, bpool, totalOpen, privOpen, tpc, curPool, inHand, queue, closeCh>>
        /\ \A d \in Clients : /\ held'[d] \in {held[d], pin[d], None}
                              /\ pin'[d] \in {pin[d], None}
    BY <1>2 DEF HandleClientMessage, ExecuteQuery, ExecuteExtendedPipeline, Start,
       Disconnect, BorrowTimeout, Done, FailListen, TypeInv, TypeOK, SessionTypes, PinTypes
  <2> QED BY <2>1 DEF Owned
<1>3. CASE BorrowConn(c)
  <2> DEFINE p == PoolOf[c]
  <2>0. /\ p \in Pools /\ queue[p] # <<>> /\ queue' = [queue EXCEPT ![p] = Tail(@)]
        /\ UNCHANGED <<all, bpool, totalOpen, privOpen, tpc, curPool, inHand, closeCh>>
        /\ ChannelTypes
    BY <1>3, PoolingAssumption DEF BorrowConn, TakeFromQueue, TypeInv, TypeOK
  <2>1. Head(queue[p]) \in Range(queue[p])
    BY <2>0, RangeTail DEF ChannelTypes
  <2>2. \A d \in Clients : Owned(d)' \subseteq Owned(d) \cup {Head(queue[p])}
    BY <1>3 DEF BorrowConn, TakeFromQueue, Owned, TypeInv, TypeOK, SessionTypes, PinTypes
  <2>3. \A q \in Pools : Range(queue'[q]) \subseteq Range(queue[q])
    BY <2>0, QueueTake
  <2> QED BY <2>0, <2>1, <2>2, <2>3
<1>4. CASE \/ SendFails(c) \/ DeployFails(c) \/ ForwardFails(c) \/ ReadErrorSimple(c)
           \/ ReadReply(c) \/ ReadErrorExtended(c)
  <2>1. UNCHANGED <<all, bpool, totalOpen, privOpen, tpc, curPool, inHand>>
    BY <1>4 DEF SendFails, DeployFails, ForwardFails, ReadErrorSimple, ReadReply,
       ReadErrorExtended
  <2>2. /\ Passed(held[c]) /\ held[c] \in Owned(c)
        /\ \A d \in Clients : Owned(d)' \subseteq Owned(d)
    BY <1>4, EndingSteps, EndPassed
  <2> QED BY <2>1, <2>2 DEF Passed
<1>5. CASE Cleanup(c)
  <2>1. UNCHANGED <<all, bpool, totalOpen, privOpen, tpc, curPool, inHand, held>>
    BY <1>5 DEF Cleanup
  <2>2. CASE pin[c] # None
    <3>1. Release(pin[c]) /\ pin[c] \in Backends /\ pin[c] \in Owned(c)
      BY <1>5, <2>2 DEF Cleanup, TypeInv, TypeOK, PinTypes, Owned
    <3>2. \A d \in Clients : Owned(d)' \subseteq Owned(d)
      BY <2>1, <3>1 DEF Release, Owned
    <3> QED BY <2>1, <3>1, <3>2, ReleasePassed DEF Passed
  <2>3. CASE pin[c] = None
    BY <1>5, <2>1, <2>3 DEF Cleanup, Owned
  <2> QED BY <2>2, <2>3
<1> QED BY <1>1, <1>2, <1>3, <1>4, <1>5 DEF ClientStep, ServeStep

LEMMA BookClient ==
    ASSUME TypeInv, BookInv, NEW c \in Clients, ClientStep(c) \/ FailListen(c)
    PROVE  BookInv'
<1> USE DEF BookInv
<1>0. /\ UNCHANGED <<all, bpool, totalOpen, privOpen, tpc, curPool, inHand>>
      /\ \A d \in Clients : \A b \in Owned(d)' :
            b \in Owned(d) \/ b \in Range(queue[PoolOf[c]])
      /\ \A q \in Pools : \A b \in Range(queue'[q]) :
            b \in Range(queue[q]) \/ (b \in Owned(c) /\ bpool[b] = q)
      /\ Range(closeCh') \subseteq Range(closeCh) \cup Owned(c)
      /\ PoolOf[c] \in Pools
  BY ClientPlaces, PoolingAssumption
<1>1. Homes' /\ Budget'
  BY <1>0 DEF Homes, Budget, Accounting, Pooled
<1>2. Placed'
  BY <1>0 DEF Placed, Homes, Registered
<1> QED BY <1>1, <1>2

-----------------------------------------------------------------------------
(* The target goroutine's steps keep the books. *)

\* The connection that is closed was counted once and is counted no more.
LEMMA CloseCounted ==
    ASSUME TypeInv, Homes, Accounting, NEW p \in Pools, NEW b \in all[p],
           CloseAndForget(p, b), UNCHANGED <<privOpen, bpool>>
    PROVE  Homes' /\ Accounting' /\ totalOpen' < totalOpen
<1>0. all \in [Pools -> SUBSET Backends] /\ totalOpen \in Int /\ b \in Backends
      /\ all' = [all EXCEPT ![p] = @ \ {b}] /\ totalOpen' = totalOpen - 1
  BY DEF TypeInv, TypeOK, BookTypes, CloseAndForget
<1>1. Homes'
  BY <1>0 DEF Homes
<1>2. Pooled' = Pooled \ {b} /\ b \in Pooled
  BY <1>0 DEF Pooled, Homes
<1>3. IsFiniteSet(Pooled)
  BY <1>0, PoolingAssumption, FS_Subset DEF Pooled
<1>4. Cardinality(Pooled') = Cardinality(Pooled) - 1 /\ Cardinality(Pooled) \in Nat
  BY <1>2, <1>3, FS_RemoveElement, FS_CardinalityType
<1> QED BY <1>0, <1>1, <1>4, PoolingAssumption DEF Accounting

LEMMA OpenCounted ==
    ASSUME TypeInv, Homes, Accounting, totalOpen < MaxConnections,
           NEW p \in Pools, NEW b \in Backends, \A q \in Pools : b \notin all[q],
           bpool' = [bpool EXCEPT ![b] = p],
           all' = [all EXCEPT ![p] = @ \cup {b}],
           totalOpen' = totalOpen + 1, UNCHANGED privOpen
    PROVE  Homes' /\ Accounting'
<1>0. all \in [Pools -> SUBSET Backends] /\ totalOpen \in Int
      /\ bpool \in [Backends -> Pools \cup {None}]
  BY DEF TypeInv, TypeOK, BookTypes
<1>1. Homes'
  BY <1>0 DEF Homes
<1>2. Pooled' = Pooled \cup {b} /\ b \notin Pooled
  BY <1>0 DEF Pooled
<1>3. IsFiniteSet(Pooled)
  BY <1>0, PoolingAssumption, FS_Subset DEF Pooled
<1>4. Cardinality(Pooled') = Cardinality(Pooled) + 1 /\ Cardinality(Pooled) \in Nat
  BY <1>2, <1>3, FS_AddElement, FS_CardinalityType
<1> QED BY <1>0, <1>1, <1>4, PoolingAssumption DEF Accounting

\* Nothing else refers to the connection that is closed.
LEMMA ClosePlaced ==
    ASSUME TypeInv, Placed, NEW p \in Pools, NEW b \in all[p], CloseAndForget(p, b),
           UNCHANGED <<held, pin, bpool>>,
           \A q \in Pools : Range(queue'[q]) \subseteq Range(queue[q]),
           \A q \in Pools : b \notin Range(queue'[q]),
           Range(closeCh') \subseteq Range(closeCh), b \notin Range(closeCh'),
           \A c \in Clients : b \notin Owned(c),
           inHand' # None =>
              inHand' = inHand /\ tpc' = tpc /\ curPool' = curPool /\ inHand # b
    PROVE  Placed'
<1>0. \A q \in Pools : all[q] \ {b} \subseteq all'[q]
  BY DEF CloseAndForget, TypeInv, TypeOK, BookTypes
<1>1. \A x : Registered(x) /\ x # b => Registered(x)'
  BY <1>0 DEF Registered
<1>2. \A q \in Pools : Range(queue'[q]) \subseteq all'[q]
  BY <1>0 DEF Placed
<1>3. \A x \in Range(closeCh') : Registered(x)'
  BY <1>1 DEF Placed
<1>4. \A c \in Clients : \A x \in Owned(c)' : Registered(x)'
  BY <1>1 DEF Placed, Owned
<1>5. inHand' # None => tpc' = "health" /\ curPool' \in Pools /\ inHand' \in all'[curPool']
  BY <1>0 DEF Placed
<1> QED BY <1>2, <1>3, <1>4, <1>5 DEF Placed

LEMMA BookKept ==
    ASSUME BookInv, UNCHANGED <<all, bpool, totalOpen, privOpen, held, pin, queue, closeCh,
                                inHand>>,
           inHand # None => UNCHANGED <<tpc, curPool>>,
           tpc' = "open" => totalOpen < MaxConnections /\ curPool' \in Pools
    PROVE  BookInv'
<1>1. Homes' /\ Budget'
  BY DEF BookInv, Homes, Budget, Accounting, Pooled
<1>2. Placed'
  BY DEF BookInv, Placed, Registered, Owned
<1> QED BY <1>1, <1>2 DEF BookInv

\* The head of a Queue belongs to nobody else.
LEMMA HeadAlone ==
    ASSUME TypeInv, Exclusive, NEW p \in Pools, queue[p] # <<>>,
           queue' = [queue EXCEPT ![p] = Tail(@)]
    PROVE  /\ Head(queue[p]) \in Range(queue[p])
           /\ \A c \in Clients : Head(queue[p]) \notin Owned(c)
           /\ Head(queue[p]) # inHand
           /\ Head(queue[p]) \notin Range(closeCh)
           /\ \A q \in Pools : Range(queue'[q]) \subseteq Range(queue[q])
           /\ \A q \in Pools : Head(queue[p]) \notin Range(queue'[q])
<1>0. ChannelTypes /\ ChannelsApart /\ OwnersApart
  BY DEF TypeInv, TypeOK, Exclusive
<1>1. /\ Head(queue[p]) \in Range(queue[p])
      /\ \A q \in Pools : Range(queue'[q]) \subseteq Range(queue[q])
      /\ Head(queue[p]) \notin Range(queue'[p])
  BY <1>0, QueueTake DEF ChannelsApart
<1>2. \A q \in Pools \ {p} : Head(queue[p]) \notin Range(queue[q])
  BY <1>0, <1>1 DEF ChannelsApart
<1>3. /\ Head(queue[p]) # inHand /\ Head(queue[p]) \notin Range(closeCh)
      /\ \A c \in Clients : Head(queue[p]) \notin Owned(c)
  BY <1>0, <1>1 DEF ChannelsApart, OwnersApart
<1> QED BY <1>1, <1>2, <1>3

LEMMA BookTarget ==
    ASSUME TypeInv, Exclusive, BookInv, TargetStep \/ \E b \in Backends : ConnectionDies(b)
    PROVE  BookInv'
<1> USE DEF clientVars, channelVars, targetVars, backendVars, countVars
<1>0. Homes /\ Placed /\ Budget /\ Accounting /\ ChannelTypes /\ ChannelsApart /\ OwnersApart
  BY DEF BookInv, Budget, Exclusive, TypeInv, TypeOK
<1>1. CASE HandleClose
  <2> DEFINE x == Head(closeCh)
  <2>1. /\ x \in Range(closeCh) /\ x \notin Range(closeCh')
        /\ Range(closeCh') \subseteq Range(closeCh)
    BY <1>0, <1>1, RangeTail DEF HandleClose, ChannelTypes, ChannelsApart
  <2>2. /\ \A c \in Clients : x \notin Owned(c)
        /\ \A q \in Pools : x \notin Range(queue[q])
        /\ x # inHand
    BY <1>0, <2>1 DEF ChannelsApart, OwnersApart
  <2>3. bpool[x] \in Pools /\ x \in all[bpool[x]] /\ CloseAndForget(bpool[x], x)
    BY <1>0, <1>1, <2>1 DEF Placed, Registered, HandleClose
  <2>4. UNCHANGED <<held, pin, bpool, privOpen, queue, tpc, curPool, inHand>>
    BY <1>1 DEF HandleClose
  <2>5. Homes' /\ Accounting' /\ totalOpen' < totalOpen
    BY <1>0, <2>3, <2>4, CloseCounted
  <2>6. Placed'
    BY <1>0, <2>1, <2>2, <2>3, <2>4, ClosePlaced
  <2>7. tpc' # "open"
    BY <1>1 DEF HandleClose
  <2> QED BY <2>5, <2>6, <2>7 DEF BookInv, Budget
<1>2. ASSUME NEW p \in Pools, queue[p] # <<>>, queue' = [queue EXCEPT ![p] = Tail(@)],
             CloseAndForget(p, Head(queue[p])),
             UNCHANGED <<held, pin, bpool, privOpen, closeCh, inHand>>,
             tpc = "health" => UNCHANGED <<tpc, curPool>>,
             tpc' = "open" => curPool' \in Pools /\ totalOpen < MaxConnections
      PROVE  BookInv'
  <2> DEFINE x == Head(queue[p])
  <2>1. /\ x \in Range(queue[p]) /\ x # inHand /\ x \notin Range(closeCh)
        /\ \A c \in Clients : x \notin Owned(c)
        /\ \A q \in Pools : Range(queue'[q]) \subseteq Range(queue[q])
        /\ \A q \in Pools : x \notin Range(queue'[q])
    BY <1>2, HeadAlone
  <2>2. x \in all[p]
    BY <1>0, <2>1 DEF Placed
  <2>3. Homes' /\ Accounting' /\ totalOpen' < totalOpen
    BY <1>0, <1>2, <2>2, CloseCounted
  <2>4. inHand' # None => inHand' = inHand /\ tpc' = tpc /\ curPool' = curPool /\ inHand # x
    BY <1>0, <1>2, <2>1 DEF Placed
  <2>5. Placed'
    BY <1>0, <1>2, <2>1, <2>2, <2>4, ClosePlaced
  <2>6. tpc' = "open" => totalOpen' < MaxConnections
    BY <1>2, <2>3, PoolingAssumption DEF CloseAndForget, TypeInv, TypeOK, BookTypes
  <2> QED BY <1>2, <2>3, <2>5, <2>6 DEF BookInv, Budget
<1>3. ASSUME NEW p \in Pools, NEW q \in Pools, GrowRecycle(p, q)
      PROVE  BookInv'
  BY <1>2, <1>3 DEF GrowRecycle, HasBudget
<1>4. ASSUME NEW p \in Pools, Shrink(p)
      PROVE  BookInv'
  <2>1. CASE queue[p] # <<>>
    BY <1>2, <1>4, <2>1 DEF Shrink
  <2>2. CASE queue[p] = <<>>
    BY <1>4, <2>2, BookKept DEF Shrink
  <2> QED BY <2>1, <2>2
<1>5. ASSUME NEW p \in Pools, HealthTake(p)
      PROVE  BookInv'
  <2>1. /\ UNCHANGED <<all, bpool, totalOpen, privOpen, held, pin, closeCh, tpc>>
        /\ inHand' = Head(queue[p]) /\ curPool' = p /\ tpc = "health"
        /\ queue[p] # <<>> /\ queue' = [queue EXCEPT ![p] = Tail(@)]
    BY <1>5 DEF HealthTake
  <2>2. /\ Head(queue[p]) \in Range(queue[p])
        /\ \A q \in Pools : Range(queue'[q]) \subseteq Range(queue[q])
    BY <2>1, HeadAlone
  <2>3. Placed'
    BY <1>0, <2>1, <2>2 DEF Placed, Registered, Owned
  <2>4. Homes' /\ Budget'
    BY <1>0, <2>1 DEF Homes, Budget, Accounting, Pooled
  <2> QED BY <2>3, <2>4 DEF BookInv
<1>6. CASE HealthKeep
  <2>1. /\ UNCHANGED <<all, bpool, totalOpen, privOpen, held, pin, closeCh, tpc>>
        /\ inHand \in Backends /\ inHand' = None /\ tpc = "health"
        /\ curPool \in Pools /\ inHand \in all[curPool]
        /\ queue' = [queue EXCEPT ![curPool] = Append(@, inHand)]
    BY <1>0, <1>6 DEF HealthKeep, Placed, TypeInv, TypeOK, TargetTypes
  <2>2. \A q \in Pools : Range(queue'[q]) \subseteq all[q]
    <3> TAKE q \in Pools
    <3>1. queue'[q] = IF q = curPool THEN Append(queue[q], inHand) ELSE queue[q]
      BY <1>0, <2>1 DEF ChannelTypes
    <3>2. /\ Range(queue'[q]) \subseteq Range(queue[q]) \cup {inHand}
          /\ q # curPool => queue'[q] = queue[q]
      BY <1>0, <2>1, <3>1, QueueAppend
    <3> QED BY <1>0, <2>1, <3>2 DEF Placed
  <2>3. Placed'
    BY <1>0, <2>1, <2>2 DEF Placed, Registered, Owned
  <2>4. Homes' /\ Budget'
    BY <1>0, <2>1 DEF Homes, Budget, Accounting, Pooled
  <2> QED BY <2>3, <2>4 DEF BookInv
<1>7. CASE HealthReap
  <2>1. /\ UNCHANGED <<bpool, privOpen, held, pin, queue, closeCh, tpc>>
        /\ inHand # None /\ inHand' = None /\ tpc = "health"
        /\ curPool \in Pools /\ inHand \in all[curPool]
        /\ CloseAndForget(curPool, inHand)
    BY <1>0, <1>7 DEF HealthReap, Placed
  <2>2. /\ \A c \in Clients : inHand \notin Owned(c)
        /\ \A q \in Pools : inHand \notin Range(queue[q])
        /\ inHand \notin Range(closeCh)
    BY <1>0 DEF ChannelsApart, OwnersApart
  <2>3. Homes' /\ Accounting'
    BY <1>0, <2>1, CloseCounted
  <2>4. Placed'
    BY <1>0, <2>1, <2>2, ClosePlaced
  <2> QED BY <2>1, <2>3, <2>4 DEF BookInv, Budget
<1>8. CASE OpenOne
  <2>1. CASE Len(queue[curPool]) < MaxConnections
    <3>1. PICK b \in Backends :
            /\ Unreferenced(b)
            /\ bpool' = [bpool EXCEPT ![b] = curPool]
            /\ all' = [all EXCEPT ![curPool] = @ \cup {b}]
            /\ totalOpen' = totalOpen + 1
            /\ queue' = [queue EXCEPT ![curPool] = Append(@, b)]
      BY <1>8, <2>1 DEF OpenOne
    <3>2. /\ curPool \in Pools /\ totalOpen < MaxConnections /\ inHand = None
          /\ UNCHANGED <<privOpen, held, pin, closeCh, inHand>> /\ tpc' = "grow"
      BY <1>0, <1>8 DEF OpenOne, Budget, Placed
    <3>3. Homes' /\ Accounting'
      BY <1>0, <3>1, <3>2, OpenCounted DEF Unreferenced
    <3>4. \A q \in Pools : all[q] \subseteq all'[q] /\ (q = curPool => b \in all'[q])
      BY <3>1 DEF TypeInv, TypeOK, BookTypes
    <3>5. \A q \in Pools : Range(queue'[q]) \subseteq all'[q]
      <4> TAKE q \in Pools
      <4>1. queue'[q] = IF q = curPool THEN Append(queue[q], b) ELSE queue[q]
        BY <1>0, <3>1 DEF ChannelTypes
      <4>2. /\ Range(queue'[q]) \subseteq Range(queue[q]) \cup {b}
            /\ q # curPool => queue'[q] = queue[q]
        BY <1>0, <3>2, <4>1, QueueAppend
      <4> QED BY <1>0, <3>4, <4>2 DEF Placed
    <3>6. \A x \in Backends \ {b} : Registered(x) => Registered(x)'
      BY <3>1, <3>4 DEF Registered, TypeInv, TypeOK, BookTypes
    <3>7. /\ Range(closeCh) \subseteq Backends \ {b}
          /\ \A c \in Clients : Owned(c) \subseteq Backends \ {b}
      BY <1>0, <3>1, RangeOfSeq DEF Unreferenced, ChannelTypes, Owned, TypeInv, TypeOK,
         SessionTypes, PinTypes
    <3>8. Placed'
      <4>1. \A x \in Range(closeCh') : Registered(x)'
        BY <1>0, <3>2, <3>6, <3>7 DEF Placed
      <4>2. \A c \in Clients : \A x \in Owned(c)' : Registered(x)'
        BY <1>0, <3>2, <3>6, <3>7 DEF Placed, Owned
      <4> QED BY <3>2, <3>5, <4>1, <4>2 DEF Placed
    <3> QED BY <3>2, <3>3, <3>8 DEF BookInv, Budget
  <2>2. CASE ~(Len(queue[curPool]) < MaxConnections)
    <3>1. inHand = None
      BY <1>0, <1>8 DEF OpenOne, Placed
    <3> QED BY <1>8, <2>2, <3>1, BookKept DEF OpenOne
  <2> QED BY <2>1, <2>2
<1>9. ASSUME NEW p \in Pools, GrowFresh(p)
      PROVE  BookInv'
  <2>1. inHand = None
    BY <1>0, <1>9 DEF GrowFresh, Placed
  <2> QED BY <1>9, <2>1, BookKept DEF GrowFresh, HasBudget
<1>10. CASE GrowthScan \/ UpdateServerStats \/ GrowEnd \/ OpenFails \/ ShrinkEnd \/ HealthEnd
  <2>1. tpc # "health" => inHand = None
    BY <1>0 DEF Placed
  <2>2. tpc' # "open" \/ UNCHANGED <<tpc, curPool>>
    BY <1>10 DEF GrowthScan, UpdateServerStats, GrowEnd, OpenFails, ShrinkEnd, HealthEnd
  <2>3. tpc' = "open" => totalOpen < MaxConnections /\ curPool' \in Pools
    BY <1>0, <2>2 DEF Budget
  <2>4. inHand # None => UNCHANGED <<tpc, curPool>>
    BY <1>10, <2>1 DEF GrowthScan, UpdateServerStats, GrowEnd, OpenFails, ShrinkEnd, HealthEnd
  <2> QED BY <1>10, <2>3, <2>4, BookKept DEF GrowthScan, UpdateServerStats, GrowEnd,
          OpenFails, ShrinkEnd, HealthEnd
<1>11. CASE HealthStart
  <2>1. /\ UNCHANGED <<all, bpool, held, pin, queue, closeCh, inHand, curPool>>
        /\ tpc = "select" /\ tpc' = "health" /\ inHand = None
    BY <1>0, <1>11 DEF HealthStart, Placed
  <2>2. Placed' /\ Homes'
    BY <1>0, <2>1 DEF Placed, Registered, Owned, Homes
  <2>3. Accounting'
    <3>1. UNCHANGED Pooled
      BY <2>1 DEF Pooled
    <3>2. \/ UNCHANGED <<totalOpen, privOpen>>
          \/ privOpen /\ totalOpen' = totalOpen - 1 /\ privOpen' = FALSE
      BY <1>11 DEF HealthStart
    <3>3. Cardinality(Pooled) \in Nat /\ totalOpen \in Int
      <4>1. Pooled \subseteq Backends
        BY DEF Pooled, TypeInv, TypeOK, BookTypes
      <4> QED BY <4>1, PoolingAssumption, FS_Subset, FS_CardinalityType
              DEF TypeInv, TypeOK, BookTypes
    <3> QED BY <1>0, <3>1, <3>2, <3>3, PoolingAssumption DEF Accounting
  <2> QED BY <2>1, <2>2, <2>3 DEF BookInv, Budget
<1>12. ASSUME NEW b \in Backends, ConnectionDies(b)
       PROVE  BookInv'
  BY <1>0, <1>12, BookKept DEF ConnectionDies, Budget
<1> QED BY <1>1, <1>3, <1>4, <1>5, <1>6, <1>7, <1>8, <1>9, <1>10, <1>11, <1>12
        DEF TargetStep, CycleStep

-----------------------------------------------------------------------------
(* What the books tell about the channels. *)

LEMMA BookInit == Init => BookInv
<1> SUFFICES ASSUME Init PROVE BookInv
  OBVIOUS
<1>1. Homes /\ Placed
  BY RangeEmpty DEF Init, Homes, Placed, Owned
<1>2. Pooled = {}
  BY DEF Init, Pooled
<1>3. Budget
  BY <1>2, FS_EmptySet, PoolingAssumption DEF Init, Budget, Accounting
<1> QED BY <1>1, <1>3 DEF BookInv

LEMMA BookStep ==
    ASSUME ExclusiveInv, BookInv, [Next]_vars
    PROVE  BookInv'
<1>0. TypeInv /\ Exclusive
  BY DEF ExclusiveInv, OwnInv
<1>1. CASE Next
  BY <1>0, <1>1, BookClient, BookTarget DEF Next, EnvironmentStep
<1>2. CASE UNCHANGED vars
  BY <1>2, BookKept DEF BookInv, Budget, vars, clientVars, backendVars, countVars, channelVars, targetVars
<1> QED BY <1>1, <1>2

\* A channel that holds no connection twice is no longer than there are
\* connections it can hold.
LEMMA ChannelLength ==
    ASSUME NEW S, IsFiniteSet(S), NEW B, NEW s \in Seq(B), IsInjective(s), Range(s) \subseteq S
    PROVE  Len(s) <= Cardinality(S) /\ Len(s) \in Nat
<1>1. s \in [1..Len(s) -> S] /\ Len(s) \in Nat
  <2>1. s \in [1..Len(s) -> B] /\ Len(s) \in Nat
    OBVIOUS
  <2>2. \A i \in 1..Len(s) : s[i] \in S
    BY <2>1 DEF Range
  <2> QED BY <2>1, <2>2
<1>2. s \in Injection(1..Len(s), S)
  BY <1>1 DEF Injection
<1>3. Cardinality(1..Len(s)) <= Cardinality(S)
  BY <1>2, FS_Injection
<1>4. Cardinality(1..Len(s)) = Len(s)
  <2>1. \A n \in Nat : Cardinality(1..n) = IF 1 > n THEN 0 ELSE n - 1 + 1
    BY FS_Interval
  <2> QED BY <1>1, <2>1
<1> QED BY <1>1, <1>3, <1>4

LEMMA NeverBlockedByBooks ==
    ASSUME TypeInv, Exclusive, BookInv
    PROVE  NeverBlocked
<1> SUFFICES ASSUME NEW c \in Clients, NEW b \in Owned(c)
             PROVE  Len(closeCh) < MaxConnections /\ Len(queue[bpool[b]]) < MaxConnections
  BY DEF NeverBlocked
<1>0. /\ ChannelTypes /\ all \in [Pools -> SUBSET Backends] /\ totalOpen \in Int
      /\ Placed /\ Accounting /\ ChannelsApart /\ OwnersApart
  BY DEF TypeInv, TypeOK, BookTypes, BookInv, Budget, Exclusive
<1>1. bpool[b] \in Pools /\ b \in all[bpool[b]] /\ b \in Pooled
  BY <1>0 DEF Placed, Registered, Pooled
<1>2. IsFiniteSet(Pooled)
  BY <1>0, PoolingAssumption, FS_Subset DEF Pooled
<1>3. /\ IsFiniteSet(Pooled \ {b}) /\ Cardinality(Pooled) \in Nat
      /\ Cardinality(Pooled \ {b}) = Cardinality(Pooled) - 1
  BY <1>1, <1>2, FS_RemoveElement, FS_CardinalityType
<1>4. Cardinality(Pooled) <= MaxConnections
  BY <1>0, <1>3, PoolingAssumption DEF Accounting
<1>5. Range(closeCh) \subseteq Pooled \ {b}
  BY <1>0 DEF Placed, Registered, Pooled, OwnersApart
<1>6. Range(queue[bpool[b]]) \subseteq Pooled \ {b}
  BY <1>0, <1>1 DEF Placed, Pooled, OwnersApart
<1>7. Len(closeCh) <= Cardinality(Pooled) - 1 /\ Len(closeCh) \in Nat
  BY <1>0, <1>3, <1>5, ChannelLength DEF ChannelTypes, ChannelsApart
<1>8. Len(queue[bpool[b]]) <= Cardinality(Pooled) - 1 /\ Len(queue[bpool[b]]) \in Nat
  BY <1>0, <1>1, <1>3, <1>6, ChannelLength DEF ChannelTypes, ChannelsApart
<1> QED BY <1>3, <1>4, <1>7, <1>8, PoolingAssumption

\* TotalOpen counts the connections in the Alls and the privileged one, and never
\* exceeds MaxConnections, whatever growthCycle, healthCheck, handleClose and the
\* clients' Return and Release do to each other.
THEOREM BooksBalance ==
    ASSUME "named" \notin Requests \/ Faults \cap {"die", "timeout", "oversize"} = {}
    PROVE  Spec => []Accounting
<1>1. "named" \notin Requests \/ NoFaults
  BY DEF NoFaults
<1>2. ExclusiveInv /\ BookInv /\ [Next]_vars => ExclusiveInv' /\ BookInv'
  BY <1>1, ExclusiveStep, BookStep
<1>3. BookInv => Accounting
  BY DEF BookInv, Budget
<1> QED BY ExclusiveInit, BookInit, <1>2, <1>3, PTL DEF Spec

\* Return and Release never wait: a client that has a connection finds room in
\* CloseCh and in the Queue it would return it to, since both hold as many as
\* MaxConnections and its own connection is one of those that TotalOpen counts.
THEOREM SendsNeverWait ==
    ASSUME "named" \notin Requests \/ Faults \cap {"die", "timeout", "oversize"} = {}
    PROVE  Spec => []NeverBlocked
<1>1. "named" \notin Requests \/ NoFaults
  BY DEF NoFaults
<1>2. ExclusiveInv /\ BookInv /\ [Next]_vars => ExclusiveInv' /\ BookInv'
  BY <1>1, ExclusiveStep, BookStep
<1>3. ExclusiveInv /\ BookInv => NeverBlocked
  BY NeverBlockedByBooks DEF ExclusiveInv, OwnInv
<1> QED BY ExclusiveInit, BookInit, <1>2, <1>3, PTL DEF Spec

-----------------------------------------------------------------------------
(* No connection is lost, unless a listen monitor closes its clients. *)

\* Backend.client and Client.backend agree.
Knows == \A b \in Backends : bclient[b] # None => pin[bclient[b]] = b

\* A handler works on the pinned backend of its client, or the client has none;
\* only handleNotify borrows a second one.
PinServes ==
    \A c \in Clients : job[c].path # "notify" =>
        /\ pc[c] \in {"borrow", "wait"} =>
              pin[c] = None /\ (job[c].pinned <=> RequiresPin(job[c].req))
        /\ held[c] # None => pin[c] = IF job[c].pinned THEN held[c] ELSE None

\* Somebody can still use the connection or close it.
Somewhere(b) ==
    \/ \E p \in Pools : b \in Range(queue[p])
    \/ b \in Range(closeCh)
    \/ inHand = b
    \/ \E c \in Clients : b \in Owned(c)

PinInv == Knows /\ PinServes

LEMMA TailKeeps ==
    ASSUME NEW S, NEW s \in Seq(S), s # <<>>
    PROVE  Range(s) \subseteq Range(Tail(s)) \cup {Head(s)}
<1>1. /\ DOMAIN s = 1..Len(s) /\ Len(s) \in Nat \ {0} /\ Head(s) = s[1]
      /\ DOMAIN Tail(s) = 1..(Len(s) - 1)
      /\ \A i \in 1..(Len(s) - 1) : Tail(s)[i] = s[i + 1]
  OBVIOUS
<1>2. ASSUME NEW i \in 1..Len(s), i # 1
      PROVE  s[i] \in Range(Tail(s))
  <2>1. (i - 1) \in DOMAIN Tail(s) /\ Tail(s)[i - 1] = s[i]
    BY <1>1, <1>2
  <2> QED BY <2>1 DEF Range
<1> QED BY <1>1, <1>2 DEF Range

\* Sending b to a channel leaves the others where they are.
LEMMA ReturnKeeps ==
    ASSUME TypeInv, NEW b \in Backends, bpool[b] \in Pools, Return(b) \/ Release(b)
    PROVE  /\ \A p \in Pools : Range(queue[p]) \subseteq Range(queue'[p])
           /\ Range(closeCh) \subseteq Range(closeCh')
           /\ b \in Range(closeCh') \/ \E p \in Pools : b \in Range(queue'[p])
<1>0. ChannelTypes
  BY DEF TypeInv, TypeOK
<1>1. CASE queue' = [queue EXCEPT ![bpool[b]] = Append(@, b)] /\ UNCHANGED closeCh
  <2>1. Range(queue'[bpool[b]]) = Range(queue[bpool[b]]) \cup {b}
    BY <1>0, <1>1, RangeAppend DEF ChannelTypes
  <2>2. \A p \in Pools : p # bpool[b] => queue'[p] = queue[p]
    BY <1>0, <1>1 DEF ChannelTypes
  <2> QED BY <1>1, <2>1, <2>2
<1>2. CASE closeCh' = Append(closeCh, b) /\ UNCHANGED queue
  <2>1. Range(closeCh') = Range(closeCh) \cup {b}
    BY <1>0, <1>2, RangeAppend DEF ChannelTypes
  <2> QED BY <1>2, <2>1
<1> QED BY <1>1, <1>2 DEF Return, Release

\* A request ends and its connection is somewhere.
LEMMA EndKeeps ==
    ASSUME TypeInv, OwnInv, PinInv, NEW c \in Clients, EndsRequest(c),
           bpool[held[c]] \in Pools, UNCHANGED inHand
    PROVE  PinInv' /\ \A b : Somewhere(b) => Somewhere(b)'
<1> PICK b : b = held[c]
  OBVIOUS
<1>0. /\ b \in Backends /\ b \in Owned(c) /\ b # None
      /\ \A d \in Clients \ {c} : b \notin Owned(d) /\ pin[d] # b
      /\ \A d \in Clients : /\ held'[d] = IF d = c THEN None ELSE held[d]
                            /\ d # c => job'[d] = job[d] /\ pc'[d] = pc[d]
      /\ held'[c] = None /\ pc'[c] \in {"idle", "cleanup"}
      /\ pin \in [Clients -> Backends \cup {None}] /\ None \notin Backends
      /\ bclient \in [Backends -> Clients \cup {None}] /\ None \notin Clients
      /\ Knows /\ PinServes
  <2>1. b \in Backends /\ b \in Owned(c) /\ b # None
    BY DEF EndsRequest, TypeInv, TypeOK, SessionTypes, Owned
  <2>2. \A d \in Clients \ {c} : b \notin Owned(d) /\ pin[d] # b
    BY <2>1 DEF OwnInv, Exclusive, OwnersApart, Owned
  <2>3. /\ \A d \in Clients : /\ held'[d] = IF d = c THEN None ELSE held[d]
                              /\ d # c => job'[d] = job[d] /\ pc'[d] = pc[d]
        /\ held'[c] = None /\ pc'[c] \in {"idle", "cleanup"}
    BY DEF EndsRequest, Done, TypeInv, TypeOK, SessionTypes
  <2> QED BY <2>1, <2>2, <2>3, PoolingAssumption DEF TypeInv, TypeOK, PinTypes, PinInv
<1>a. job[c].path # "notify" => pin[c] \in {None, b}
  BY <1>0 DEF PinServes
<1>b. ASSUME \A d \in Clients \ {c} : pin'[d] = pin[d]
      PROVE  PinServes'
  BY <1>0, <1>b DEF PinServes
<1>c. ASSUME \A p \in Pools : Range(queue[p]) \subseteq Range(queue'[p]),
             Range(closeCh) \subseteq Range(closeCh'),
             \A d \in Clients \ {c} : pin'[d] = pin[d],
             pin[c] \in {None, b, pin'[c]},
             \/ b \in Range(closeCh') \/ \E p \in Pools : b \in Range(queue'[p])
             \/ pin'[c] = b
      PROVE  \A x : Somewhere(x) => Somewhere(x)'
  <2> SUFFICES ASSUME NEW x, Somewhere(x) PROVE Somewhere(x)'
    OBVIOUS
  <2>0. Somewhere(b)'
    BY <1>0, <1>c DEF Somewhere, Owned
  <2>1. CASE \E d \in Clients : x \in Owned(d)
    <3>1. PICK d \in Clients : x \in Owned(d)
      BY <2>1
    <3>2. x = b \/ x \in Owned(d)'
      BY <1>0, <1>c, <3>1 DEF Owned
    <3> QED BY <2>0, <3>2 DEF Somewhere
  <2>2. CASE ~ \E d \in Clients : x \in Owned(d)
    BY <1>c, <2>2 DEF Somewhere
  <2> QED BY <2>1, <2>2
<1>1. CASE Release(b)
  <2>1. \A d \in Clients : pin'[d] = IF pin[d] = b THEN None ELSE pin[d]
    BY <1>0, <1>1 DEF Release, Knows, OwnInv, PinsKnown
  <2>2. Knows'
    BY <1>0, <1>1, <2>1 DEF Release, Knows
  <2>3. \A d \in Clients \ {c} : pin'[d] = pin[d]
    BY <1>0, <2>1
  <2>4. pin[c] \in {None, b, pin'[c]}
    BY <2>1
  <2> QED BY <1>0, <1>1, <1>b, <1>c, <2>2, <2>3, <2>4, ReturnKeeps DEF PinInv
<1>2. ASSUME Return(b), pin' = [pin EXCEPT ![c] = None] \/ pin' = pin,
             job[c].path = "notify" => pin' = pin
      PROVE  PinInv' /\ \A x : Somewhere(x) => Somewhere(x)'
  <2>1. \A d \in Clients \ {c} : pin'[d] = pin[d]
    BY <1>0, <1>2
  <2>2. pin[c] \in {None, b, pin'[c]}
    BY <1>2, <1>a
  <2>3. Knows'
    BY <1>0, <1>2, <1>a DEF Return, Knows
  <2> QED BY <1>0, <1>2, <1>b, <1>c, <2>1, <2>2, <2>3, ReturnKeeps DEF PinInv
<1>3. ASSUME Pin(c, b), job[c].path # "notify"
      PROVE  PinInv' /\ \A x : Somewhere(x) => Somewhere(x)'
  <2>1. pin'[c] = b /\ \A d \in Clients \ {c} : pin'[d] = pin[d]
    BY <1>0, <1>3, <1>a DEF Pin
  <2>2. Knows'
    BY <1>0, <1>3, <1>a, <2>1 DEF Pin, Knows
  <2> QED BY <1>0, <1>3, <1>a, <1>b, <1>c, <2>1, <2>2 DEF PinInv, Pin, channelVars
<1>4. ASSUME job[c].pinned, job[c].path # "notify", UNCHANGED <<pin, queue, closeCh, bclient>>
      PROVE  PinInv' /\ \A x : Somewhere(x) => Somewhere(x)'
  <2>1. pin[c] = b
    BY <1>0, <1>4 DEF PinServes
  <2>2. Knows'
    BY <1>0, <1>4 DEF Knows
  <2> QED BY <1>0, <1>4, <1>b, <1>c, <2>1, <2>2 DEF PinInv
<1> QED BY <1>1, <1>2, <1>3, <1>4 DEF EndsRequest, Reconcile, Unpin

\* A handler starts: nothing moves, and what it is to work on is settled.
LEMMA StartKeeps ==
    ASSUME TypeInv, OwnInv, PinInv, NEW c \in Clients, HandleClientMessage(c)
    PROVE  PinInv' /\ \A b : Somewhere(b) => Somewhere(b)'
<1> USE DEF channelVars, targetVars, backendVars
<1>1. PICK req \in RequestKinds, path \in Paths, usePin \in BOOLEAN :
        /\ Start(c, req, path, usePin)
        /\ path # "notify" => usePin = (pin[c] # None)
  <2>1. CASE ExecuteQuery(c)
    <3>1. PICK req \in Requests \cap {"query", "dml", "notify"} :
            \/ req = "notify" /\ ~inTx[c] /\ Start(c, req, "notify", FALSE)
            \/ req = "dml" /\ ~(pin[c] # None) /\ Start(c, req, "prepared", FALSE)
            \/ Start(c, req, "simple", pin[c] # None)
      BY <2>1, Zenon DEF ExecuteQuery
    <3>2. req \in RequestKinds /\ {"notify", "prepared", "simple"} \subseteq Paths
      BY <3>1, PoolingAssumption DEF RequestKinds, Paths
    <3>4. CASE Start(c, req, "notify", FALSE)
      BY <3>2, <3>4
    <3>5. CASE pin[c] = None /\ Start(c, req, "prepared", FALSE)
      BY <3>2, <3>5
    <3>6. CASE Start(c, req, "simple", pin[c] # None)
      BY <3>2, <3>6
    <3> QED BY <3>1, <3>4, <3>5, <3>6
  <2>2. CASE ExecuteExtendedPipeline(c)
    <3>1. PICK req \in Requests \ {"query", "dml", "notify"} :
            Start(c, req, IF req \in {"flush", "flushUnnamed"} THEN "flush" ELSE "sync",
                  pin[c] # None)
      BY <2>2 DEF ExecuteExtendedPipeline
    <3>2. req \in RequestKinds /\ {"flush", "sync"} \subseteq Paths
      BY <3>1, PoolingAssumption DEF RequestKinds, Paths
    <3> QED BY <3>1, <3>2
  <2> QED BY <2>1, <2>2 DEF HandleClientMessage
<1>2. /\ held[c] = None
      /\ UNCHANGED <<pin, bclient, queue, closeCh, inHand>>
      /\ \A d \in Clients \ {c} : held'[d] = held[d] /\ job'[d] = job[d] /\ pc'[d] = pc[d]
      /\ held'[c] = IF usePin THEN pin[c] ELSE None
      /\ pc'[c] = IF usePin THEN "send" ELSE "borrow"
      /\ job'[c] = [req |-> req, path |-> path, pinned |-> usePin \/ RequiresPin(req)]
  BY <1>1 DEF HandleClientMessage, Start, TypeInv, TypeOK, SessionTypes, HeldWhileServing
<1>3. job'[c].path = path /\ job'[c].req = req
  BY <1>2
<1>4. job'[c].pinned <=> usePin \/ RequiresPin(req)
  <2>1. job'[c].pinned = (usePin \/ RequiresPin(req))
    BY <1>2
  <2> QED BY <2>1
<1>5. PinServes'
  <2> SUFFICES ASSUME NEW d \in Clients, job'[d].path # "notify"
               PROVE  /\ pc'[d] \in {"borrow", "wait"} =>
                            pin'[d] = None /\ (job'[d].pinned <=> RequiresPin(job'[d].req))
                      /\ held'[d] # None => pin'[d] = IF job'[d].pinned THEN held'[d] ELSE None
    BY DEF PinServes
  <2>1. CASE d = c
    <3>1. CASE usePin
      BY <1>1, <1>2, <1>3, <1>4, <2>1, <3>1
    <3>2. CASE ~usePin
      BY <1>1, <1>2, <1>3, <1>4, <2>1, <3>2
    <3> QED BY <3>1, <3>2
  <2>2. CASE d # c
    BY <1>2, <2>2 DEF PinInv, PinServes
  <2> QED BY <2>1, <2>2
<1>6. Knows'
  BY <1>2 DEF PinInv, Knows
<1>7. \A d \in Clients : Owned(d) \subseteq Owned(d)'
  BY <1>2 DEF Owned
<1> QED BY <1>2, <1>5, <1>6, <1>7 DEF PinInv, Somewhere

LEMMA BorrowKeeps ==
    ASSUME TypeInv, OwnInv, PinInv, NEW c \in Clients, BorrowConn(c)
    PROVE  PinInv' /\ \A b : Somewhere(b) => Somewhere(b)'
<1> DEFINE p == PoolOf[c]
<1> DEFINE x == Head(queue[p])
<1>0. /\ p \in Pools /\ queue[p] # <<>> /\ queue' = [queue EXCEPT ![p] = Tail(@)]
      /\ UNCHANGED <<closeCh, inHand, job>> /\ held[c] = None /\ pc[c] \in {"borrow", "wait"}
      /\ ChannelTypes /\ PinTypes /\ Knows /\ PinServes
  BY PoolingAssumption DEF BorrowConn, TakeFromQueue, targetVars, TypeInv, TypeOK,
     HeldWhileServing, PinInv
<1>1. x \in Backends
  BY <1>0, RangeTail DEF ChannelTypes
<1>2. \A d \in Clients :
        /\ held'[d] = IF d = c THEN x ELSE held[d]
        /\ pin'[d] = IF d = c /\ RequiresPin(job[c].req) THEN x ELSE pin[d]
        /\ pc'[d] = IF d = c THEN "send" ELSE pc[d]
  BY DEF BorrowConn, TakeFromQueue, TypeInv, TypeOK, SessionTypes, PinTypes
<1>3. RequiresPin(job[c].req) => job[c].pinned /\ job[c].path # "notify" /\ pin[c] = None
  BY <1>0 DEF OwnInv, BorrowedApart, PinServes
<1>4. Knows'
  <2>1. CASE RequiresPin(job[c].req)
    <3>1. bclient' = [bclient EXCEPT ![x] = c]
      BY <2>1 DEF BorrowConn, TakeFromQueue
    <3> QED BY <1>0, <1>1, <1>2, <1>3, <2>1, <3>1, PoolingAssumption DEF Knows, PinTypes
  <2>2. CASE ~RequiresPin(job[c].req)
    BY <1>0, <1>2, <2>2 DEF BorrowConn, TakeFromQueue, Knows, PinTypes
  <2> QED BY <2>1, <2>2
<1>5. PinServes'
  BY <1>0, <1>2, <1>3 DEF PinServes
<1>6. \A d \in Clients : Owned(d) \subseteq Owned(d)'
  BY <1>0, <1>2, <1>3 DEF Owned
<1>7. x \in Owned(c)'
  BY <1>1, <1>2, PoolingAssumption DEF Owned
<1>8. \A q \in Pools : Range(queue[q]) \subseteq Range(queue'[q]) \cup {x}
  BY <1>0, TailKeeps DEF ChannelTypes
<1> QED BY <1>0, <1>4, <1>5, <1>6, <1>7, <1>8 DEF PinInv, Somewhere

LEMMA CleanupKeeps ==
    ASSUME TypeInv, OwnInv, PinInv, Placed, NEW c \in Clients, Cleanup(c)
    PROVE  PinInv' /\ \A b : Somewhere(b) => Somewhere(b)'
<1>0. /\ UNCHANGED <<inHand, held, job>> /\ held[c] = None /\ Knows /\ PinServes
      /\ \A d \in Clients : pc'[d] = IF d = c THEN "gone" ELSE pc[d]
  BY DEF Cleanup, targetVars, TypeInv, TypeOK, SessionTypes, HeldWhileServing, PinInv
<1>1. CASE pin[c] # None
  <2> DEFINE b == pin[c]
  <2>1. /\ b \in Backends /\ b \in Owned(c) /\ bclient[b] = c /\ Release(b)
    BY <1>1 DEF Cleanup, TypeInv, TypeOK, PinTypes, Owned, OwnInv, PinsKnown
  <2>2. \A d \in Clients : pin'[d] = IF d = c THEN None ELSE pin[d]
    BY <2>1 DEF Release
  <2>3. Knows'
    BY <1>0, <2>1, <2>2 DEF Release, Knows, TypeInv, TypeOK, PinTypes
  <2>4. PinServes'
    BY <1>0, <2>2 DEF PinServes
  <2>5. /\ \A p \in Pools : Range(queue[p]) \subseteq Range(queue'[p])
        /\ Range(closeCh) \subseteq Range(closeCh')
        /\ b \in Range(closeCh') \/ \E p \in Pools : b \in Range(queue'[p])
    BY <2>1, ReturnKeeps DEF Placed, Registered
  <2>6. \A d \in Clients : Owned(d) \subseteq Owned(d)' \cup {b}
    BY <1>0, <2>2 DEF Owned
  <2> QED BY <1>0, <2>3, <2>4, <2>5, <2>6 DEF PinInv, Somewhere
<1>2. CASE pin[c] = None
  <2>1. UNCHANGED <<pin, bclient, queue, closeCh>>
    BY <1>2 DEF Cleanup, channelVars
  <2> QED BY <1>0, <2>1 DEF PinInv, Knows, PinServes, Somewhere, Owned
<1> QED BY <1>1, <1>2

LEMMA KeepsClient ==
    ASSUME TypeInv, OwnInv, PinInv, Placed, NEW c \in Clients, ClientStep(c)
    PROVE  PinInv' /\ \A b : Somewhere(b) => Somewhere(b)'
<1> USE DEF channelVars, targetVars, backendVars
<1>1. CASE Accept(c)
  <2>1. /\ UNCHANGED <<job, held, pin, queue, closeCh, inHand>> /\ pin[c] = None
        /\ \A d \in Clients : pc'[d] = IF d = c THEN "idle" ELSE pc[d]
        /\ \A b \in Backends : bclient'[b] \in {bclient[b], None}
    BY <1>1 DEF Accept, OwnInv, BorrowedApart, TypeInv, TypeOK, SessionTypes
  <2>2. Knows'
    BY <2>1 DEF PinInv, Knows
  <2>3. PinServes'
    BY <2>1 DEF PinInv, PinServes
  <2> QED BY <2>1, <2>2, <2>3 DEF PinInv, Somewhere, Owned
<1>2. CASE HandleClientMessage(c)
  BY <1>2, StartKeeps
<1>3. CASE Disconnect(c) \/ BorrowTimeout(c)
  <2>1. /\ UNCHANGED <<pin, bclient, queue, closeCh, inHand>> /\ held[c] = None
        /\ \A d \in Clients : /\ d # c => job'[d] = job[d] /\ pc'[d] = pc[d]
                              /\ held'[d] = held[d]
        /\ pc'[c] \in {"idle", "cleanup"}
    BY <1>3 DEF Disconnect, BorrowTimeout, Done, TypeInv, TypeOK, SessionTypes,
       HeldWhileServing
  <2>2. PinServes'
    BY <2>1 DEF PinInv, PinServes
  <2> QED BY <2>1, <2>2 DEF PinInv, Knows, Somewhere, Owned
<1>4. CASE ClientDrops(c) \/ BorrowWait(c) \/ SendRequest(c) \/ SendUnnoticed(c)
  <2>1. /\ UNCHANGED <<job, held, pin, bclient, queue, closeCh, inHand>>
        /\ \A d \in Clients : pc'[d] \in {"borrow", "wait"} => pc[d] \in {"borrow", "wait"}
    BY <1>4 DEF ClientDrops, BorrowWait, SendRequest, SendUnnoticed, TypeInv, TypeOK,
       SessionTypes
  <2> QED BY <2>1 DEF PinInv, Knows, PinServes, Somewhere, Owned
<1>5. CASE BorrowConn(c)
  BY <1>5, BorrowKeeps
<1>6. CASE \/ SendFails(c) \/ DeployFails(c) \/ ForwardFails(c) \/ ReadErrorSimple(c)
           \/ ReadReply(c) \/ ReadErrorExtended(c)
  <2>1. UNCHANGED inHand
    BY <1>6 DEF SendFails, DeployFails, ForwardFails, ReadErrorSimple, ReadReply,
       ReadErrorExtended
  <2>2. EndsRequest(c)
    BY <1>6, EndingSteps
  <2>3. bpool[held[c]] \in Pools
    BY <2>2, EndPassed DEF Placed, Registered
  <2> QED BY <2>1, <2>2, <2>3, EndKeeps
<1>7. CASE Cleanup(c)
  BY <1>7, CleanupKeeps
<1> QED BY <1>1, <1>2, <1>3, <1>4, <1>5, <1>6, <1>7 DEF ClientStep, ServeStep

\* The target goroutine changes no client; only openOne resets a Backend.client,
\* that of a connection nobody refers to.
LEMMA PinTarget ==
    ASSUME TypeInv, PinInv, TargetStep \/ \E b \in Backends : ConnectionDies(b)
    PROVE  PinInv' /\ UNCHANGED <<held, pin>>
<1> USE DEF clientVars, backendVars
<1>1. UNCHANGED <<pc, job, held, pin>>
  BY DEF TargetStep, CycleStep, HandleClose, GrowthScan, HealthStart, UpdateServerStats,
     GrowRecycle, GrowFresh, Shrink, HealthTake, GrowEnd, OpenOne, OpenFails, ShrinkEnd,
     HealthKeep, HealthReap, HealthEnd, ConnectionDies
<1>2. \A b \in Backends : bclient'[b] \in {bclient[b], None}
  <2>1. CASE OpenOne
    BY <2>1 DEF OpenOne, TypeInv, TypeOK, PinTypes
  <2>2. CASE ~OpenOne
    <3>1. UNCHANGED bclient
      BY <2>2 DEF TargetStep, CycleStep, HandleClose, GrowthScan, HealthStart,
         UpdateServerStats, GrowRecycle, GrowFresh, Shrink, HealthTake, GrowEnd, OpenFails,
         ShrinkEnd, HealthKeep, HealthReap, HealthEnd, ConnectionDies
    <3> QED BY <3>1
  <2> QED BY <2>1, <2>2
<1> QED BY <1>1, <1>2 DEF PinInv, Knows, PinServes

\* Every connection of an All stays somewhere, except one that leaves All.
LEMMA LostTarget ==
    ASSUME TypeInv, Exclusive, BookInv, \A b \in Pooled : Somewhere(b), UNCHANGED <<held, pin>>,
           TargetStep \/ \E b \in Backends : ConnectionDies(b)
    PROVE  \A b \in Pooled' : Somewhere(b)'
<1> USE DEF clientVars, channelVars, targetVars, backendVars, countVars
<1>0. /\ Homes /\ Placed /\ Budget /\ ChannelTypes /\ all \in [Pools -> SUBSET Backends]
  BY DEF BookInv, TypeInv, TypeOK, BookTypes
<1>a. ASSUME NEW x, Pooled' \subseteq Pooled \cup {x},
             x \notin Pooled' \/ \E q \in Pools : x \in Range(queue'[q]) \cup {inHand'},
             \A q \in Pools : Range(queue[q]) \subseteq Range(queue'[q]) \cup {x},
             Range(closeCh) \subseteq Range(closeCh') \cup {x},
             inHand' = inHand \/ inHand \in {None, x}
      PROVE  \A b \in Pooled' : Somewhere(b)'
  <2> SUFFICES ASSUME NEW b \in Pooled' PROVE Somewhere(b)'
    OBVIOUS
  <2>1. CASE b = x
    BY <1>a, <2>1 DEF Somewhere
  <2>2. CASE b # x
    <3>1. b \in Pooled /\ Somewhere(b)
      BY <1>a, <2>2
    <3>2. b # None
      BY <1>0, <3>1, PoolingAssumption DEF Pooled
    <3> QED BY <1>a, <2>2, <3>1, <3>2 DEF Somewhere, Owned
  <2> QED BY <2>1, <2>2
<1>b. ASSUME NEW p \in Pools, NEW x \in all[p], CloseAndForget(p, x)
      PROVE  Pooled' \subseteq Pooled \cup {x} /\ x \notin Pooled'
  BY <1>0, <1>b DEF CloseAndForget, Pooled, Homes
<1>c. ASSUME NEW p \in Pools, queue[p] # <<>>, queue' = [queue EXCEPT ![p] = Tail(@)]
      PROVE  /\ \A q \in Pools : Range(queue[q]) \subseteq Range(queue'[q]) \cup {Head(queue[p])}
             /\ Head(queue[p]) \in all[p]
  <2>1. Head(queue[p]) \in Range(queue[p])
    BY <1>0, <1>c, RangeTail DEF ChannelTypes
  <2>2. Range(queue[p]) \subseteq Range(Tail(queue[p])) \cup {Head(queue[p])}
    BY <1>0, <1>c, TailKeeps DEF ChannelTypes
  <2> QED BY <1>0, <1>c, <2>1, <2>2 DEF ChannelTypes, Placed
<1>1. CASE HandleClose
  <2> PICK x : x = Head(closeCh)
    OBVIOUS
  <2>1. x \in Range(closeCh) /\ Range(closeCh) \subseteq Range(closeCh') \cup {x}
    BY <1>0, <1>1, RangeTail, TailKeeps DEF HandleClose, ChannelTypes
  <2>2. bpool[x] \in Pools /\ x \in all[bpool[x]] /\ CloseAndForget(bpool[x], x)
    BY <1>0, <1>1, <2>1 DEF Placed, Registered, HandleClose
  <2>3. UNCHANGED <<queue, inHand>>
    BY <1>1 DEF HandleClose
  <2> QED BY <1>a, <1>b, <2>1, <2>2, <2>3
<1>2. ASSUME NEW p \in Pools, queue[p] # <<>>, queue' = [queue EXCEPT ![p] = Tail(@)],
             CloseAndForget(p, Head(queue[p])), UNCHANGED <<closeCh, inHand>>
      PROVE  \A b \in Pooled' : Somewhere(b)'
  <2> PICK x : x = Head(queue[p])
    OBVIOUS
  <2>1. /\ \A q \in Pools : Range(queue[q]) \subseteq Range(queue'[q]) \cup {x}
        /\ x \in all[p]
    BY <1>2, <1>c
  <2> QED BY <1>2, <1>a, <1>b, <2>1
<1>3. ASSUME NEW p \in Pools, NEW q \in Pools, GrowRecycle(p, q)
      PROVE  \A b \in Pooled' : Somewhere(b)'
  BY <1>2, <1>3 DEF GrowRecycle
<1>d. ASSUME UNCHANGED <<all, queue, closeCh, inHand>>
      PROVE  \A b \in Pooled' : Somewhere(b)'
  BY <1>d DEF Pooled, Somewhere, Owned
<1>4. ASSUME NEW p \in Pools, Shrink(p)
      PROVE  \A b \in Pooled' : Somewhere(b)'
  BY <1>2, <1>4, <1>d DEF Shrink
<1>5. ASSUME NEW p \in Pools, HealthTake(p)
      PROVE  \A b \in Pooled' : Somewhere(b)'
  <2> PICK x : x = Head(queue[p])
    OBVIOUS
  <2>1. /\ UNCHANGED <<all, closeCh>> /\ inHand = None /\ inHand' = x
        /\ queue[p] # <<>> /\ queue' = [queue EXCEPT ![p] = Tail(@)]
    BY <1>5 DEF HealthTake
  <2>2. \A q \in Pools : Range(queue[q]) \subseteq Range(queue'[q]) \cup {x}
    BY <1>c, <2>1
  <2> QED BY <1>a, <2>1, <2>2 DEF Pooled
<1>6. CASE HealthKeep
  <2> PICK x : x = inHand
    OBVIOUS
  <2>1. /\ UNCHANGED <<all, closeCh>> /\ x \in Backends
        /\ curPool \in Pools
        /\ queue' = [queue EXCEPT ![curPool] = Append(@, x)]
    BY <1>0, <1>6 DEF HealthKeep, Placed, TypeInv, TypeOK, TargetTypes
  <2>2. Range(queue'[curPool]) = Range(queue[curPool]) \cup {x}
    BY <1>0, <2>1, RangeAppend DEF ChannelTypes
  <2>3. \A q \in Pools : q # curPool => queue'[q] = queue[q]
    BY <1>0, <2>1 DEF ChannelTypes
  <2> QED BY <1>a, <2>1, <2>2, <2>3 DEF Pooled
<1>7. CASE HealthReap
  <2> PICK x : x = inHand
    OBVIOUS
  <2>1. /\ UNCHANGED <<queue, closeCh>>
        /\ curPool \in Pools /\ x \in all[curPool] /\ CloseAndForget(curPool, x)
    BY <1>0, <1>7 DEF HealthReap, Placed
  <2> QED BY <1>a, <1>b, <2>1
<1>8. CASE OpenOne
  <2>1. CASE Len(queue[curPool]) < MaxConnections
    <3>1. PICK x \in Backends :
            /\ all' = [all EXCEPT ![curPool] = @ \cup {x}]
            /\ queue' = [queue EXCEPT ![curPool] = Append(@, x)]
      BY <1>8, <2>1 DEF OpenOne
    <3>2. UNCHANGED <<closeCh, inHand>> /\ curPool \in Pools
      BY <1>0, <1>8 DEF OpenOne, Budget
    <3>3. Range(queue'[curPool]) = Range(queue[curPool]) \cup {x}
      BY <1>0, <3>1, <3>2, RangeAppend DEF ChannelTypes
    <3>4. \A q \in Pools : q # curPool => queue'[q] = queue[q]
      BY <1>0, <3>1 DEF ChannelTypes
    <3>5. Pooled' \subseteq Pooled \cup {x}
      BY <1>0, <3>1 DEF Pooled
    <3> QED BY <1>a, <3>2, <3>3, <3>4, <3>5
  <2>2. CASE ~(Len(queue[curPool]) < MaxConnections)
    BY <1>8, <1>d, <2>2 DEF OpenOne
  <2> QED BY <2>1, <2>2
<1>9. CASE (\E p \in Pools : GrowFresh(p)) \/ GrowthScan \/ UpdateServerStats \/ GrowEnd
           \/ OpenFails \/ ShrinkEnd \/ HealthEnd \/ HealthStart
           \/ \E b \in Backends : ConnectionDies(b)
  BY <1>9, <1>d DEF GrowFresh, GrowthScan, UpdateServerStats, GrowEnd, OpenFails, ShrinkEnd,
     HealthEnd, HealthStart, ConnectionDies
<1> QED BY <1>1, <1>3, <1>4, <1>5, <1>6, <1>7, <1>8, <1>9 DEF TargetStep, CycleStep

KeepInv == ExclusiveInv /\ BookInv /\ PinInv /\ NothingLost

LEMMA KeepStep ==
    ASSUME "named" \notin Requests \/ NoFaults, "listenLost" \notin Faults, KeepInv, [Next]_vars
    PROVE  KeepInv'
<1>0. TypeInv /\ OwnInv /\ Exclusive /\ Placed /\ \A b \in Pooled : Somewhere(b)
  BY DEF KeepInv, ExclusiveInv, OwnInv, BookInv, NothingLost, Pooled, Somewhere
<1>1. ExclusiveInv' /\ BookInv'
  BY ExclusiveStep, BookStep DEF KeepInv
<1>2. PinInv' /\ \A b \in Pooled' : Somewhere(b)'
  <2>1. ASSUME NEW c \in Clients, ClientStep(c)
        PROVE  PinInv' /\ \A b \in Pooled' : Somewhere(b)'
    <3>1. PinInv' /\ \A b : Somewhere(b) => Somewhere(b)'
      BY <1>0, <2>1, KeepsClient DEF KeepInv
    <3>2. Pooled' = Pooled
      BY <1>0, <2>1, ClientPlaces DEF Pooled
    <3> QED BY <1>0, <3>1, <3>2
  <2>2. CASE TargetStep \/ \E b \in Backends : ConnectionDies(b)
    BY <1>0, <2>2, PinTarget, LostTarget DEF KeepInv
  <2>3. CASE UNCHANGED vars
    BY <1>0, <2>3 DEF KeepInv, PinInv, Knows, PinServes, Pooled, Somewhere, Owned, vars,
       clientVars, backendVars, channelVars, targetVars
  <2>4. \A c \in Clients : ~FailListen(c)
    BY DEF FailListen
  <2> QED BY <2>1, <2>2, <2>3, <2>4 DEF Next, EnvironmentStep
<1>3. NothingLost'
  BY <1>1, <1>2 DEF BookInv, Homes, Placed, NothingLost, Pooled, Somewhere
<1> QED BY <1>1, <1>2, <1>3 DEF KeepInv

\* No connection of a Pool is lost: as long as no listen monitor fails (it closes
\* the pinned backend of its clients without Release), every connection in an All
\* is in a channel, with healthCheck or with a client, so its slot comes back.
THEOREM NoConnectionLost ==
    ASSUME "named" \notin Requests \/ Faults \cap {"die", "timeout", "oversize"} = {},
           "listenLost" \notin Faults
    PROVE  Spec => []NothingLost
<1>1. "named" \notin Requests \/ NoFaults
  BY DEF NoFaults
<1>2. Init => KeepInv
  <2> SUFFICES ASSUME Init PROVE KeepInv
    OBVIOUS
  <2>1. PinInv /\ NothingLost
    BY DEF Init, PinInv, Knows, PinServes, NothingLost, NoJob
  <2> QED BY <2>1, ExclusiveInit, BookInit DEF KeepInv
<1>3. KeepInv /\ [Next]_vars => KeepInv'
  BY <1>1, KeepStep
<1>4. KeepInv => NothingLost
  BY DEF KeepInv
<1> QED BY <1>2, <1>3, <1>4, PTL DEF Spec

----------------------------------------------------------------------------
(* What a client may find in the connection it is given: an idle connection    *)
(* carries nothing of its last client, a reply is read by the client it is     *)
(* for, and a transaction stays with its client.  With that, Pooling           *)
(* implements Lease.  Besides the proviso above, no query_timeout expires and  *)
(* no reply exceeds max_message_size (a read that is given up leaves its reply *)
(* on the wire), and a Close of a passthrough statement is never skipped by    *)
(* the server.                                                                 *)

\* Backend.client and Client.backend agree, until a listen monitor closes the
\* client and forgets its backend; the client then pins no other.
Stale ==
    \A b \in Backends, d \in Clients : bclient[b] = d /\ pin[d] # b =>
        /\ pin[d] = None /\ ~clientUp[d]
        /\ job[d].path # "notify" => pc[d] \notin {"borrow", "wait"} /\ held[d] \in {None, b}

\* What a handler knows of its client.  Only handleNotify works beside a pinned
\* backend, and only outside a transaction.
Handlers ==
    \A c \in Clients :
        /\ job[c].path # "notify" =>
              /\ pc[c] \in {"borrow", "wait"} => pin[c] = None
              /\ held[c] # None => pin[c] \in {None, held[c]}
        /\ job[c].path = "notify" => ~inTx[c]
        /\ job[c].req \in {"named", "close"} => job[c].path = "sync" /\ "named" \in Requests
        /\ job[c].req = "named" /\ pc[c] \in {"borrow", "wait", "send"} => namedStmts[c] >= 1

\* A session that ended has no transaction and no statements.
Fresh(b) == tx[b] = "I" /\ named[b] = 0

Ended == \A b \in Backends : conn[b] # "open" => Fresh(b)

\* One reply is on the wire of a live connection while its client reads, with the
\* status the session is in, and none otherwise.
Reading(c, b) == pc[c] = "read" /\ held[c] = b

Wires ==
    /\ \A c \in Clients : pc[c] = "read" /\ conn[held[c]] = "open" =>
          wire[held[c]] = <<[to |-> c, tx |-> tx[held[c]]]>>
    /\ \A b \in Backends \ Range(closeCh) :
          (\A c \in Clients : ~Reading(c, b)) => wire[b] = <<>>

\* A connection nobody uses is fresh, and so is a borrowed one before its first
\* request and after one that cannot begin a transaction.
IdleFresh ==
    /\ \A p \in Pools : \A b \in Range(queue[p]) : Fresh(b)
    /\ inHand # None => Fresh(inHand)

BorrowedFresh ==
    \A c \in Clients :
        /\ held[c] # None /\ pin[c] # held[c]
        /\ pc[c] = "send" \/ job[c].path \notin {"simple", "sync"}
        => Fresh(held[c])

\* namedStmts counts at least the passthrough statements of the session, give or
\* take the one the request in flight is about.
Owed(c, b) ==
    IF pc[c] = "send" /\ held[c] = b /\ job[c].req = "close" THEN namedStmts[c] + 1
    ELSE IF pc[c] = "send" /\ held[c] = b /\ job[c].req = "named" THEN namedStmts[c] - 1
    ELSE namedStmts[c]

NamedBound == \A c \in Clients : \A b \in Owned(c) : named[b] <= Owed(c, b)

\* inTransaction is set while the pinned session is in a transaction, except
\* between a request that may begin one and its reply.
TxKnown ==
    \A c \in Clients :
        /\ pin[c] # None /\ tx[pin[c]] # "I"
        /\ ~(Reading(c, pin[c]) /\ job[c].path \in {"simple", "sync"})
        => inTx[c]

CleanInv ==
    /\ Stale /\ Handlers /\ Ended /\ Wires /\ IdleFresh /\ BorrowedFresh
    /\ NamedBound /\ TxKnown

-----------------------------------------------------------------------------
(* The steps that change no client. *)

LEMMA SetSessionFresh ==
    ASSUME TypeInv, NEW x, NEW state, SetSession(x, state)
    PROVE  /\ x \in Backends => Fresh(x)' /\ wire'[x] = <<>> /\ conn'[x] = state
           /\ \A b \in Backends : Fresh(b) => Fresh(b)'
           /\ \A b \in Backends \ {x} : /\ conn'[b] = conn[b] /\ tx'[b] = tx[b]
                                        /\ named'[b] = named[b] /\ wire'[b] = wire[b]
BY DEF SetSession, Fresh, TypeInv, TypeOK, ServerTypes

\* A connection is closed, breaks, or is opened when nobody has it.
LEMMA SessionClean ==
    ASSUME TypeInv, CleanInv, UNCHANGED clientVars, NEW x \in Backends, NEW state,
           SetSession(x, state),
           \A b \in Backends : bclient'[b] \in {bclient[b], None},
           state = "open" => \A c \in Clients : x \notin Owned(c),
           \A q \in Pools : Range(queue'[q]) \subseteq Range(queue[q]) \cup {x},
           inHand' \in {inHand, None},
           Range(closeCh) \subseteq Range(closeCh') \cup {x}
    PROVE  CleanInv'
<1> USE DEF CleanInv, clientVars
<1>0. /\ x \in Backends => Fresh(x)' /\ wire'[x] = <<>> /\ conn'[x] = state
      /\ \A b \in Backends : Fresh(b) => Fresh(b)'
      /\ \A b \in Backends \ {x} : /\ conn'[b] = conn[b] /\ tx'[b] = tx[b]
                                   /\ named'[b] = named[b] /\ wire'[b] = wire[b]
  BY SetSessionFresh
<1>1. /\ \A c \in Clients : /\ pc[c] \in {"send", "read"} => held[c] \in Backends
                            /\ held[c] # None => held[c] \in Backends
                            /\ pin[c] # None => pin[c] \in Backends
                            /\ namedStmts[c] \in Nat
      /\ inHand \in Backends \cup {None}
      /\ \A q \in Pools : Range(queue[q]) \subseteq Backends
      /\ Range(closeCh) \subseteq Backends
  BY RangeOfSeq DEF TypeInv, TypeOK, SessionTypes, PinTypes, TargetTypes, ChannelTypes,
     HeldWhileServing
<1>a. \A c \in Clients : /\ Owned(c)' = Owned(c) /\ Owned(c) \subseteq Backends
                         /\ held[c] \in Backends => held[c] \in Owned(c)
  BY PoolingAssumption DEF TypeInv, TypeOK, SessionTypes, PinTypes, Owned
<1>2. Stale'
  BY PoolingAssumption DEF Stale
<1>3. Handlers'
  BY DEF Handlers
<1>4. Ended'
  BY <1>0 DEF Ended
<1>5. Wires'
  <2>1. ASSUME NEW c \in Clients, pc[c] = "read", conn'[held[c]] = "open"
        PROVE  wire'[held[c]] = <<[to |-> c, tx |-> tx'[held[c]]]>>
    <3>1. held[c] \in Backends /\ held[c] \in Owned(c)
      BY <1>1, <1>a, <2>1
    <3>2. held[c] # x
      BY <1>0, <2>1, <3>1
    <3> QED BY <1>0, <2>1, <3>1, <3>2 DEF Wires
  <2>2. ASSUME NEW b \in Backends, b \notin Range(closeCh'), \A c \in Clients : ~Reading(c, b)'
        PROVE  wire'[b] = <<>>
    <3>1. \A c \in Clients : ~Reading(c, b)
      BY <2>2 DEF Reading
    <3> QED BY <1>0, <2>2, <3>1 DEF Wires
  <2> QED BY <2>1, <2>2 DEF Wires
<1>6. IdleFresh'
  <2>1. \A p \in Pools : \A b \in Range(queue'[p]) : b \in Backends => Fresh(b)'
    BY <1>0, <1>1 DEF IdleFresh
  <2>2. \A p \in Pools : Range(queue'[p]) \subseteq Backends
    BY <1>1
  <2>3. inHand' # None => Fresh(inHand)'
    BY <1>0, <1>1 DEF IdleFresh, Fresh
  <2> QED BY <2>1, <2>2, <2>3 DEF IdleFresh
<1>7. BorrowedFresh'
  BY <1>0, <1>1 DEF BorrowedFresh, Fresh
<1>8. NamedBound'
  <2> SUFFICES ASSUME NEW c \in Clients, NEW b \in Owned(c)
               PROVE  named'[b] <= Owed(c, b)'
    BY <1>a DEF NamedBound
  <2>1. Owed(c, b)' = Owed(c, b)
    BY DEF Owed
  <2>2. named[b] <= Owed(c, b)
    BY DEF NamedBound
  <2>3. Owed(c, b) \in Int
    BY <1>1 DEF Owed
  <2>4. named[b] \in Nat /\ b \in Backends
    BY <1>a DEF TypeInv, TypeOK, ServerTypes
  <2>5. named'[b] \in {named[b], 0}
    BY <1>0, <2>4 DEF Fresh
  <2> QED BY <2>1, <2>2, <2>3, <2>4, <2>5
<1>9. TxKnown'
  <2> SUFFICES ASSUME NEW c \in Clients, pin[c] # None, tx'[pin[c]] # "I",
                      ~(Reading(c, pin[c]) /\ job[c].path \in {"simple", "sync"})
               PROVE  inTx[c]
    BY DEF TxKnown, Reading
  <2>1. tx[pin[c]] # "I"
    BY <1>0, <1>1 DEF Fresh
  <2> QED BY <2>1 DEF TxKnown
<1> QED BY <1>2, <1>3, <1>4, <1>5, <1>6, <1>7, <1>8, <1>9

\* The target goroutine takes a connection to look at it and puts it back.
LEMMA MovesClean ==
    ASSUME TypeInv, CleanInv, UNCHANGED <<clientVars, serverVars, bclient, closeCh>>,
           \A q \in Pools : \A b \in Range(queue'[q]) : b \in Range(queue[q]) \/ (b = inHand /\ b # None),
           inHand' \in {inHand, None} \/ \E q \in Pools : inHand' \in Range(queue[q])
    PROVE  CleanInv'
<1> USE DEF CleanInv, clientVars, serverVars
<1>1. Stale' /\ Handlers' /\ Ended' /\ Wires'
  BY DEF Stale, Handlers, Ended, Fresh, Wires, Reading
<1>2. IdleFresh'
  BY DEF IdleFresh, Fresh
<1>3. BorrowedFresh' /\ NamedBound' /\ TxKnown'
  BY DEF BorrowedFresh, Fresh, NamedBound, Owned, Owed, TxKnown, Reading
<1> QED BY <1>1, <1>2, <1>3

LEMMA CleanTarget ==
    ASSUME TypeInv, Exclusive, CleanInv, BookInv,
           TargetStep \/ \E b \in Backends : ConnectionDies(b)
    PROVE  CleanInv'
<1> USE DEF channelVars, targetVars, backendVars
<1>0. ChannelTypes /\ ChannelsApart /\ OwnersApart
  BY DEF Exclusive, TypeInv, TypeOK
<1>1. CASE HandleClose
  <2>1. Range(closeCh) \subseteq Range(closeCh') \cup {Head(closeCh)} /\ Head(closeCh) \in Backends
    BY <1>0, <1>1, TailKeeps, RangeTail DEF HandleClose, ChannelTypes
  <2> QED BY <1>1, <2>1, SessionClean DEF HandleClose, CloseAndForget
<1>2. ASSUME NEW p \in Pools, NEW q \in Pools, GrowRecycle(p, q)
      PROVE  CleanInv'
  <2>1. \A o \in Pools : Range(queue'[o]) \subseteq Range(queue[o])
    BY <1>0, <1>2, QueueTake DEF GrowRecycle
  <2>2. Head(queue[q]) \in Backends
    BY <1>0, <1>2, QueueTake DEF GrowRecycle
  <2> QED BY <1>2, <2>1, <2>2, SessionClean DEF GrowRecycle, CloseAndForget
<1>3. ASSUME NEW p \in Pools, Shrink(p)
      PROVE  CleanInv'
  <2>1. CASE queue[p] # <<>>
    <3>1. \A o \in Pools : Range(queue'[o]) \subseteq Range(queue[o])
      BY <1>0, <1>3, <2>1, QueueTake DEF Shrink
    <3>2. Head(queue[p]) \in Backends
      BY <1>0, <1>3, <2>1, QueueTake DEF Shrink
    <3> QED BY <1>3, <2>1, <3>1, <3>2, SessionClean DEF Shrink, CloseAndForget
  <2>2. CASE queue[p] = <<>>
    BY <1>3, <2>2, MovesClean DEF Shrink
  <2> QED BY <2>1, <2>2
<1>4. ASSUME NEW p \in Pools, HealthTake(p)
      PROVE  CleanInv'
  <2>1. \A o \in Pools : Range(queue'[o]) \subseteq Range(queue[o])
    BY <1>0, <1>4, QueueTake DEF HealthTake
  <2>2. Head(queue[p]) \in Range(queue[p])
    BY <1>0, <1>4, QueueTake DEF HealthTake
  <2> QED BY <1>4, <2>1, <2>2, MovesClean DEF HealthTake
<1>5. CASE HealthKeep
  <2>1. inHand \in Backends /\ curPool \in Pools \cup {None}
    BY <1>5 DEF HealthKeep, TypeInv, TypeOK, TargetTypes
  <2>2. \A q \in Pools : Range(queue'[q]) \subseteq Range(queue[q]) \cup {inHand}
    <3> TAKE q \in Pools
    <3>1. queue'[q] = IF q = curPool THEN Append(queue[q], inHand) ELSE queue[q]
      BY <1>0, <1>5 DEF HealthKeep, ChannelTypes
    <3> QED BY <1>0, <2>1, <3>1, QueueAppend
  <2> QED BY <1>5, <2>2, MovesClean DEF HealthKeep
<1>6. CASE HealthReap
  <2>1. inHand \in Backends
    BY <1>6 DEF HealthReap, TypeInv, TypeOK, TargetTypes
  <2> QED BY <1>6, <2>1, SessionClean DEF HealthReap, CloseAndForget
<1>7. CASE OpenOne
  <2>1. CASE Len(queue[curPool]) < MaxConnections
    <3>1. PICK x \in Backends :
            /\ Unreferenced(x)
            /\ SetSession(x, "open")
            /\ bclient' = [bclient EXCEPT ![x] = None]
            /\ queue' = [queue EXCEPT ![curPool] = Append(@, x)]
      BY <1>7, <2>1 DEF OpenOne
    <3>2. \A c \in Clients : x \notin Owned(c)
      BY <3>1 DEF Unreferenced, Owned
    <3>3. \A q \in Pools : Range(queue'[q]) \subseteq Range(queue[q]) \cup {x}
      <4> TAKE q \in Pools
      <4>1. queue'[q] = IF q = curPool THEN Append(queue[q], x) ELSE queue[q]
        BY <1>0, <3>1 DEF ChannelTypes
      <4>2. curPool \in Pools \cup {None}
        BY DEF TypeInv, TypeOK, TargetTypes
      <4> QED BY <1>0, <4>1, <4>2, QueueAppend
    <3>4. \A b \in Backends : bclient'[b] \in {bclient[b], None}
      BY <3>1 DEF TypeInv, TypeOK, PinTypes
    <3>5. UNCHANGED <<clientVars, closeCh, inHand>>
      BY <1>7 DEF OpenOne
    <3> QED BY <3>1, <3>2, <3>3, <3>4, <3>5, SessionClean
  <2>2. CASE ~(Len(queue[curPool]) < MaxConnections)
    BY <1>7, <2>2, MovesClean DEF OpenOne
  <2> QED BY <2>1, <2>2
<1>8. CASE (\E p \in Pools : GrowFresh(p)) \/ GrowthScan \/ UpdateServerStats \/ GrowEnd
           \/ OpenFails \/ ShrinkEnd \/ HealthEnd \/ HealthStart
  BY <1>8, MovesClean DEF GrowFresh, GrowthScan, UpdateServerStats, GrowEnd, OpenFails,
     ShrinkEnd, HealthEnd, HealthStart
<1>9. ASSUME NEW b \in Backends, ConnectionDies(b)
      PROVE  CleanInv'
  BY <1>9, SessionClean DEF ConnectionDies
<1> QED BY <1>1, <1>2, <1>3, <1>4, <1>5, <1>6, <1>7, <1>8, <1>9 DEF TargetStep, CycleStep

-----------------------------------------------------------------------------
(* A request ends. *)

\* What the clauses of EndsRequest have in common: no other client's pin
\* changes, and Backend.client keeps agreeing with Client.backend.
LEMMA EndPins ==
    ASSUME TypeInv, OwnInv, Stale, Handlers, NEW c \in Clients, EndsRequest(c),
           NEW b \in Backends, b = held[c]
    PROVE  /\ \A d \in Clients \ {c} : pin'[d] = pin[d]
           /\ pin'[c] \in {pin[c], None, b}
           /\ \A x \in Backends, d \in Clients : bclient'[x] = d =>
                 pin'[d] = x \/ (bclient[x] = d /\ pin'[d] = pin[d])
           /\ Range(closeCh) \subseteq Range(closeCh')
<1>0. /\ bclient \in [Backends -> Clients \cup {None}] /\ None \notin Clients
      /\ pin \in [Clients -> Backends \cup {None}] /\ None \notin Backends
      /\ b \in Owned(c) /\ closeCh \in Seq(Backends)
  BY PoolingAssumption DEF TypeInv, TypeOK, PinTypes, ChannelTypes, Owned
<1>1. \A d \in Clients \ {c} : pin[d] # b
  BY <1>0 DEF OwnInv, Exclusive, OwnersApart, Owned
<1>2. Range(Append(closeCh, b)) = Range(closeCh) \cup {b}
  BY <1>0, RangeAppend
<1>3. CASE Release(b)
  <2>1. \A d \in Clients : pin'[d] = IF d = bclient[b] THEN None ELSE pin[d]
    BY <1>3 DEF Release
  <2>2. \A d \in Clients : d = bclient[b] => pin[d] \in {b, None}
    BY <1>0 DEF Stale
  <2>3. \A x \in Backends : bclient'[x] = IF x = b THEN None ELSE bclient[x]
    BY <1>0, <1>3 DEF Release
  <2>4. \A d \in Clients \ {c} : pin'[d] = pin[d]
    BY <1>1, <2>1, <2>2
  <2>5. \A x \in Backends, d \in Clients : bclient'[x] = d =>
           pin'[d] = x \/ (bclient[x] = d /\ pin'[d] = pin[d])
    <3> SUFFICES ASSUME NEW x \in Backends, NEW d \in Clients, bclient'[x] = d, pin'[d] # x
                 PROVE  bclient[x] = d /\ pin'[d] = pin[d]
      OBVIOUS
    <3>1. x # b /\ bclient[x] = d
      BY <1>0, <2>3
    <3>2. pin[d] # x => pin[d] = None
      BY <3>1 DEF Stale
    <3>3. d = bclient[b] => pin[d] = None
      BY <1>0, <2>2, <3>1, <3>2
    <3> QED BY <2>1, <3>1, <3>3
  <2> QED BY <1>2, <1>3, <2>1, <2>4, <2>5 DEF Release
<1>4. ASSUME Return(b), pin'[c] \in {pin[c], None}, pin[c] # pin'[c] => job[c].path # "notify",
             \A d \in Clients \ {c} : pin'[d] = pin[d]
      PROVE  /\ \A x \in Backends, d \in Clients : bclient'[x] = d =>
                   pin'[d] = x \/ (bclient[x] = d /\ pin'[d] = pin[d])
             /\ Range(closeCh) \subseteq Range(closeCh')
  <2>1. \A x \in Backends : bclient'[x] = IF x = b THEN None ELSE bclient[x]
    BY <1>0, <1>4 DEF Return
  <2>2. pin[c] # pin'[c] => pin[c] \in {None, b}
    BY <1>0, <1>4 DEF Handlers
  <2>3. \A x \in Backends : x # b /\ bclient[x] = c => pin'[c] = pin[c]
    <3> SUFFICES ASSUME NEW x \in Backends, x # b, bclient[x] = c, pin'[c] # pin[c]
                 PROVE  FALSE
      OBVIOUS
    <3>1. pin[c] = b
      BY <1>4, <2>2
    <3> QED BY <1>0, <3>1 DEF Stale
  <2>4. Range(closeCh) \subseteq Range(closeCh')
    BY <1>2, <1>4 DEF Return
  <2> QED BY <1>0, <1>4, <2>1, <2>3, <2>4
<1>5. ASSUME Pin(c, b), job[c].path # "notify"
      PROVE  /\ \A d \in Clients \ {c} : pin'[d] = pin[d]
             /\ pin'[c] \in {pin[c], None, b}
             /\ \A x \in Backends, d \in Clients : bclient'[x] = d =>
                   pin'[d] = x \/ (bclient[x] = d /\ pin'[d] = pin[d])
             /\ UNCHANGED closeCh
  <2>1. CASE pin[c] # None
    BY <1>5, <2>1 DEF Pin, channelVars
  <2>2. CASE pin[c] = None
    <3>1. /\ \A d \in Clients : pin'[d] = IF d = c THEN b ELSE pin[d]
          /\ \A x \in Backends : bclient'[x] = IF x = b THEN c ELSE bclient[x]
          /\ UNCHANGED closeCh
      BY <1>0, <1>5, <2>2 DEF Pin, channelVars
    <3>2. \A x \in Backends : bclient[x] = c => x = b
      BY <1>0, <1>5, <2>2 DEF Stale
    <3> QED BY <3>1, <3>2
  <2> QED BY <2>1, <2>2
<1>6. ASSUME NEW clear, Unpin(c, b, clear), job[c].path # "notify"
      PROVE  /\ \A d \in Clients \ {c} : pin'[d] = pin[d]
             /\ pin'[c] \in {pin[c], None, b}
             /\ \A x \in Backends, d \in Clients : bclient'[x] = d =>
                   pin'[d] = x \/ (bclient[x] = d /\ pin'[d] = pin[d])
             /\ Range(closeCh) \subseteq Range(closeCh')
  <2>1. Return(b) /\ pin'[c] \in {pin[c], None} /\ \A d \in Clients \ {c} : pin'[d] = pin[d]
    BY <1>0, <1>6 DEF Unpin
  <2> QED BY <1>4, <1>6, <2>1
<1>7. ASSUME NEW status, Reconcile(c, b, status), job[c].path # "notify"
      PROVE  \/ Pin(c, b)
             \/ \E clear : Unpin(c, b, clear)
  BY <1>7 DEF Reconcile
<1>8. CASE Return(b) /\ UNCHANGED pin
  BY <1>4, <1>8
<1>9. CASE UNCHANGED <<pin, queue, closeCh, bclient>>
  BY <1>9
<1>10. CASE job[c].path # "notify" /\ \E status : Reconcile(c, b, status)
  BY <1>5, <1>6, <1>7, <1>10
<1>11. CASE job[c].path # "notify" /\ Pin(c, b)
  BY <1>5, <1>11
<1> QED BY <1>3, <1>8, <1>9, <1>10, <1>11 DEF EndsRequest

\* The end of a request keeps CleanInv when the connection is put where its
\* state allows: into the Queue when it is fresh and silent, to CloseCh in any
\* state, or into the pin of a client that knows of the transaction.
LEMMA EndClean ==
    ASSUME TypeInv, OwnInv, CleanInv, NEW c \in Clients, EndsRequest(c),
           NEW b \in Backends, b = held[c],
           UNCHANGED <<conn, tx, named, namedStmts, clientUp, inHand>>,
           \A x \in Backends \ {b} : wire'[x] = wire[x],
           wire'[b] = <<>> \/ b \in Range(closeCh'),
           pc[c] = "send" => pin'[c] # b,
           \A q \in Pools : b \in Range(queue'[q]) => Fresh(b),
           pin'[c] # None /\ tx[pin'[c]] # "I" => inTx'[c],
           \A d \in Clients \ {c} : inTx'[d] = inTx[d] \/ (pin'[d] = None /\ inTx'[d] = FALSE)
    PROVE  CleanInv'
<1> USE DEF CleanInv
<1>0. /\ \A d \in Clients \ {c} : pin'[d] = pin[d]
      /\ pin'[c] \in {pin[c], None, b}
      /\ \A x \in Backends, d \in Clients : bclient'[x] = d =>
            pin'[d] = x \/ (bclient[x] = d /\ pin'[d] = pin[d])
      /\ Range(closeCh) \subseteq Range(closeCh')
  BY EndPins
<1>1. /\ \A q \in Pools : Range(queue'[q]) \subseteq Range(queue[q]) \cup {b}
      /\ \A d \in Clients : Owned(d)' \subseteq Owned(d)
      /\ b \in Owned(c)
  BY EndPassed DEF Passed
<1>2. /\ pc'[c] \in {"idle", "cleanup"} /\ job'[c] = NoJob /\ held'[c] = None
      /\ \A d \in Clients \ {c} : pc'[d] = pc[d] /\ job'[d] = job[d] /\ held'[d] = held[d]
  BY DEF EndsRequest, Done, TypeInv, TypeOK, SessionTypes
<1>3. \A d \in Clients \ {c} : b \notin Owned(d)
  BY <1>1 DEF OwnInv, Exclusive, OwnersApart
<1>4. /\ None \notin Backends
      /\ \A d \in Clients : /\ held[d] \in Backends \cup {None}
                            /\ pc[d] \in {"send", "read"} <=> held[d] # None
                            /\ namedStmts[d] \in Nat
                            /\ Owned(d) \subseteq Backends
  BY PoolingAssumption DEF TypeInv, TypeOK, SessionTypes, PinTypes, HeldWhileServing, Owned
<1>5. Stale'
  <2> SUFFICES ASSUME NEW x \in Backends, NEW d \in Clients, bclient'[x] = d, pin'[d] # x
               PROVE  /\ pin'[d] = None /\ ~clientUp'[d]
                      /\ job'[d].path # "notify" =>
                            pc'[d] \notin {"borrow", "wait"} /\ held'[d] \in {None, x}
    BY DEF Stale
  <2>1. bclient[x] = d /\ pin'[d] = pin[d] /\ pin[d] # x
    BY <1>0
  <2> QED BY <1>2, <2>1 DEF Stale
<1>6. Handlers'
  <2> SUFFICES ASSUME NEW d \in Clients
               PROVE  /\ job'[d].path # "notify" =>
                            /\ pc'[d] \in {"borrow", "wait"} => pin'[d] = None
                            /\ held'[d] # None => pin'[d] \in {None, held'[d]}
                      /\ job'[d].path = "notify" => ~inTx'[d]
                      /\ job'[d].req \in {"named", "close"} =>
                            job'[d].path = "sync" /\ "named" \in Requests
                      /\ job'[d].req = "named" /\ pc'[d] \in {"borrow", "wait", "send"} =>
                            namedStmts'[d] >= 1
    BY DEF Handlers
  <2>1. CASE d = c
    BY <1>2, <2>1 DEF NoJob
  <2>2. CASE d # c
    BY <1>0, <1>2, <2>2 DEF Handlers
  <2> QED BY <2>1, <2>2
<1>7. Ended'
  BY DEF Ended, Fresh
<1>8. Wires'
  <2>1. ASSUME NEW d \in Clients, pc'[d] = "read", conn'[held'[d]] = "open"
        PROVE  wire'[held'[d]] = <<[to |-> d, tx |-> tx'[held'[d]]]>>
    <3>1. d # c /\ pc[d] = "read" /\ held'[d] = held[d] /\ held[d] \in Backends
      BY <1>2, <1>4, <2>1
    <3>2. held[d] # b
      BY <1>3, <1>4, <3>1 DEF Owned
    <3> QED BY <2>1, <3>1, <3>2 DEF Wires
  <2>2. ASSUME NEW x \in Backends, x \notin Range(closeCh'), \A d \in Clients : ~Reading(d, x)'
        PROVE  wire'[x] = <<>>
    <3>1. CASE x = b
      BY <2>2, <3>1
    <3>2. CASE x # b
      <4>1. \A d \in Clients : ~Reading(d, x)
        BY <1>2, <2>2, <3>2 DEF Reading
      <4> QED BY <1>0, <2>2, <3>2, <4>1 DEF Wires
    <3> QED BY <3>1, <3>2
  <2> QED BY <2>1, <2>2 DEF Wires
<1>9. IdleFresh'
  BY <1>1 DEF IdleFresh, Fresh
<1>10. BorrowedFresh'
  BY <1>0, <1>2 DEF BorrowedFresh, Fresh
<1>11. NamedBound'
  <2> SUFFICES ASSUME NEW d \in Clients, NEW x \in Owned(d)'
               PROVE  named[x] <= Owed(d, x)'
    BY DEF NamedBound
  <2>1. x \in Owned(d) /\ named[x] <= Owed(d, x)
    BY <1>1 DEF NamedBound
  <2>2. CASE d # c
    BY <1>2, <2>1, <2>2 DEF Owed
  <2>3. CASE d = c
    <3>1. Owed(c, x)' = namedStmts[c]
      BY <1>2 DEF Owed
    <3>2. named[x] \in Nat /\ x \in Backends
      BY <1>4, <2>1 DEF TypeInv, TypeOK, ServerTypes
    <3>3. CASE pc[c] = "send" /\ x = b
      BY <1>2, <2>3, <3>3 DEF Owned
    <3>4. CASE ~(pc[c] = "send" /\ x = b)
      <4>1. Owed(c, x) = namedStmts[c]
        BY <3>4 DEF Owed
      <4> QED BY <2>1, <2>3, <3>1, <4>1
    <3> QED BY <3>3, <3>4
  <2> QED BY <2>2, <2>3
<1>12. TxKnown'
  <2> SUFFICES ASSUME NEW d \in Clients, pin'[d] # None, tx[pin'[d]] # "I",
                      ~(Reading(d, pin[d])' /\ job'[d].path \in {"simple", "sync"})
               PROVE  inTx'[d]
    BY DEF TxKnown, Reading
  <2>1. CASE d = c
    BY <2>1
  <2>2. CASE d # c
    <3>1. pin'[d] = pin[d] /\ inTx'[d] = inTx[d]
      BY <1>0, <2>2
    <3> QED BY <1>2, <2>2, <3>1 DEF TxKnown, Reading
  <2> QED BY <2>1, <2>2
<1> QED BY <1>5, <1>6, <1>7, <1>8, <1>9, <1>10, <1>11, <1>12

\* What a handler knows of its own connection when the request ends.
LEMMA HeldKnown ==
    ASSUME TypeInv, OwnInv, Silent, CleanInv, NEW c \in Clients, NEW b \in Backends, b = held[c]
    PROVE  /\ \A q \in Pools : b \notin Range(queue[q])
           /\ job[c].path # "notify" => pin[c] \in {None, b}
           /\ job[c].path = "notify" \/ ~job[c].pinned => pin[c] # b
           /\ pin[c] # None /\ tx[pin[c]] # "I" /\ (pin[c] # b \/ job[c].path \notin {"simple", "sync"})
                 => inTx[c]
           /\ job[c].path \notin {"simple", "sync"} /\ pin[c] # b => Fresh(b)
           /\ conn[b] # "open" => Fresh(b) /\ wire[b] = <<>>
           /\ pc[c] = "read" /\ wire[b] # <<>> =>
                 /\ Tail(wire[b]) = <<>>
                 /\ Head(wire[b]).tx = tx[b]
                 /\ Head(wire[b]).to = c
           /\ pc[c] = "read" => named[b] <= namedStmts[c]
<1> USE DEF CleanInv
<1>0. b \in Owned(c) /\ b # None /\ b \in Backends
  BY PoolingAssumption DEF Owned
<1>1. \A q \in Pools : b \notin Range(queue[q])
  BY <1>0 DEF OwnInv, Exclusive, OwnersApart
<1>2. /\ job[c].path # "notify" => pin[c] \in {None, b}
      /\ job[c].path = "notify" \/ ~job[c].pinned => pin[c] # b
  BY <1>0 DEF Handlers, OwnInv, BorrowedApart
<1>3. pin[c] # None /\ tx[pin[c]] # "I" /\ (pin[c] # b \/ job[c].path \notin {"simple", "sync"})
        => inTx[c]
  BY DEF TxKnown, Reading
<1>4. /\ job[c].path \notin {"simple", "sync"} /\ pin[c] # b => Fresh(b)
      /\ conn[b] # "open" => Fresh(b) /\ wire[b] = <<>>
  BY <1>0 DEF BorrowedFresh, Ended, Silent
<1>5. ASSUME pc[c] = "read", wire[b] # <<>>
      PROVE  Tail(wire[b]) = <<>> /\ Head(wire[b]).tx = tx[b] /\ Head(wire[b]).to = c
  <2>1. wire[b] = <<[to |-> c, tx |-> tx[b]]>>
    BY <1>4, <1>5 DEF Wires
  <2> QED BY <2>1
<1>6. pc[c] = "read" => named[b] <= namedStmts[c]
  <2>1. pc[c] = "read" => Owed(c, b) = namedStmts[c]
    BY DEF Owed
  <2>2. named[b] <= Owed(c, b)
    BY <1>0 DEF NamedBound
  <2> QED BY <2>1, <2>2
<1> QED BY <1>1, <1>2, <1>3, <1>4, <1>5, <1>6

LEMMA EndingClean ==
    ASSUME TypeInv, OwnInv, Silent, CleanInv, Faults \cap {"timeout", "oversize"} = {},
           NEW c \in Clients,
           \/ SendFails(c) \/ DeployFails(c) \/ ForwardFails(c) \/ ReadErrorSimple(c)
           \/ ReadReply(c) \/ ReadErrorExtended(c)
    PROVE  CleanInv'
<1> USE DEF targetVars, serverVars, channelVars
<1>0. EndsRequest(c) /\ held[c] \in Backends
  <2>1. EndsRequest(c)
    BY EndingSteps
  <2> QED BY <2>1 DEF EndsRequest, TypeInv, TypeOK, SessionTypes
<1>1. PICK b \in Backends : b = held[c]
  BY <1>0
<1>k. /\ \A q \in Pools : b \notin Range(queue[q])
      /\ job[c].path # "notify" => pin[c] \in {None, b}
      /\ job[c].path = "notify" \/ ~job[c].pinned => pin[c] # b
      /\ pin[c] # None /\ tx[pin[c]] # "I" /\ (pin[c] # b \/ job[c].path \notin {"simple", "sync"})
            => inTx[c]
      /\ job[c].path \notin {"simple", "sync"} /\ pin[c] # b => Fresh(b)
      /\ conn[b] # "open" => Fresh(b) /\ wire[b] = <<>>
      /\ pc[c] = "read" /\ wire[b] # <<>> =>
            /\ Tail(wire[b]) = <<>>
            /\ Head(wire[b]).tx = tx[b]
            /\ Head(wire[b]).to = c
      /\ pc[c] = "read" => named[b] <= namedStmts[c]
  BY <1>1, HeldKnown
<1>t. /\ wire \in [Backends -> Seq(Replies)] /\ named[b] \in Nat /\ namedStmts[c] \in Nat
      /\ inTx \in [Clients -> BOOLEAN] /\ pin \in [Clients -> Backends \cup {None}]
      /\ None \notin Backends
  BY PoolingAssumption DEF TypeInv, TypeOK, ServerTypes, SessionTypes, PinTypes
\* The connection is given up.
<1>2. ASSUME Release(b), UNCHANGED <<serverVars, namedStmts, clientUp, inHand>>
      PROVE  CleanInv'
  <2>1. b \in Range(closeCh')
    BY <1>2, RangeAppend DEF Release, TypeInv, TypeOK, ChannelTypes
  <2>2. \A d \in Clients : /\ pin'[d] = IF d = bclient[b] THEN None ELSE pin[d]
                           /\ inTx'[d] = IF d = bclient[b] THEN FALSE ELSE inTx[d]
    BY <1>2 DEF Release
  <2>0. pin[c] = b => bclient[b] = c
    BY <1>t DEF OwnInv, PinsKnown
  <2>3. /\ pin'[c] # None /\ tx[pin'[c]] # "I" => inTx'[c]
        /\ pin'[c] # b
    BY <1>k, <1>t, <2>0, <2>2
  <2>4. \A q \in Pools : b \notin Range(queue'[q])
    BY <1>2, <1>k DEF Release
  <2>5. \A d \in Clients \ {c} : inTx'[d] = inTx[d] \/ (pin'[d] = None /\ inTx'[d] = FALSE)
    BY <2>2
  <2> QED BY <1>0, <1>1, <1>2, <2>1, <2>3, <2>4, <2>5, EndClean
<1>3. CASE SendFails(c) \/ DeployFails(c) \/ ForwardFails(c) \/ ReadErrorSimple(c)
  BY <1>1, <1>2, <1>3 DEF SendFails, DeployFails, ForwardFails, ReadErrorSimple, ReadFails
\* It is kept or given back, with nothing left on its wire.
<1>4. ASSUME UNCHANGED <<conn, tx, named, namedStmts, clientUp, inHand>>, pc[c] = "read",
             \A x \in Backends \ {b} : wire'[x] = wire[x], wire'[b] = <<>>,
             \A q \in Pools : b \in Range(queue'[q]) => Fresh(b),
             pin'[c] # None /\ tx[pin'[c]] # "I" => inTx'[c],
             \A d \in Clients \ {c} : inTx'[d] = inTx[d]
      PROVE  CleanInv'
  BY <1>0, <1>1, <1>4, EndClean
<1>5. ASSUME AfterFlush(c, b), job[c].path = "flush"
      PROVE  /\ \A q \in Pools : b \notin Range(queue'[q])
             /\ pin'[c] # None /\ tx[pin'[c]] # "I" => inTx'[c]
             /\ \A d \in Clients \ {c} : inTx'[d] = inTx[d]
  <2>1. UNCHANGED <<queue, inTx>> /\ pin'[c] \in {pin[c], b}
    BY <1>5, <1>t DEF AfterFlush, Pin
  <2>2. pin[c] # b => Fresh(b)
    BY <1>5, <1>k
  <2>3. pin'[c] # None /\ tx[pin'[c]] # "I" => inTx[c]
    BY <1>5, <1>k, <2>1, <2>2 DEF Fresh
  <2> QED BY <1>k, <2>1, <2>3
<1>6. ASSUME NEW status, Reconcile(c, b, status), job[c].path # "notify", pc[c] = "read",
             status = tx[b] \/ Fresh(b)
      PROVE  /\ \A q \in Pools : b \in Range(queue'[q]) => Fresh(b)
             /\ pin'[c] # None /\ tx[pin'[c]] # "I" => inTx'[c]
             /\ \A d \in Clients \ {c} : inTx'[d] = inTx[d]
  <2>0. pin[c] \in {None, b} /\ (~job[c].pinned => pin[c] # b)
    BY <1>6, <1>k
  <2>1. CASE status \in {"T", "E"}
    BY <1>6, <1>k, <1>t, <2>1 DEF Reconcile, Pin
  <2>2. CASE status = "I" /\ Pin(c, b)
    <3>1. pin'[c] = b /\ UNCHANGED queue
      BY <1>t, <2>0, <2>2 DEF Pin
    <3>2. tx[b] = "I"
      BY <1>6, <2>2 DEF Fresh
    <3>3. \A d \in Clients \ {c} : inTx'[d] = inTx[d]
      BY <1>6, <1>t, <2>2 DEF Reconcile
    <3> QED BY <1>k, <3>1, <3>2, <3>3
  <2>3. CASE status = "I" /\ namedStmts[c] = 0 /\ Unpin(c, b, job[c].pinned)
    <3>1. pin'[c] = None
      BY <1>t, <2>0, <2>3 DEF Unpin
    <3>2. Fresh(b)
      BY <1>6, <1>k, <1>t, <2>3 DEF Fresh
    <3>3. \A d \in Clients \ {c} : inTx'[d] = inTx[d]
      BY <1>6, <1>t, <2>3 DEF Reconcile
    <3> QED BY <3>1, <3>2, <3>3
  <2>4. CASE status = "?"
    <3>1. pin'[c] \in {None, b}
      BY <1>6, <1>t, <2>0, <2>4 DEF Reconcile, Unpin
    <3>2. tx[b] \in Statuses
      BY DEF TypeInv, TypeOK, ServerTypes
    <3>3. Fresh(b)
      BY <1>6, <2>4, <3>2 DEF Statuses
    <3>4. \A d \in Clients \ {c} : inTx'[d] = inTx[d]
      BY <1>6, <1>t, <2>4 DEF Reconcile
    <3> QED BY <3>1, <3>3, <3>4 DEF Fresh
  <2> QED BY <1>6, <2>1, <2>2, <2>3, <2>4 DEF Reconcile
<1>7. CASE ReadReply(c)
  <2>1. /\ pc[c] = "read" /\ wire[b] # <<>> /\ wire' = [wire EXCEPT ![b] = Tail(@)]
        /\ UNCHANGED <<conn, tx, named, namedStmts, clientUp, inHand>>
    BY <1>1, <1>7 DEF ReadReply
  <2>2. wire'[b] = <<>> /\ \A x \in Backends \ {b} : wire'[x] = wire[x]
    BY <1>k, <1>t, <2>1
  <2>3. CASE job[c].path = "notify"
    <3>1. UNCHANGED <<pin, inTx>>
      BY <1>7, <2>3 DEF ReadReply
    <3> QED BY <1>4, <1>k, <2>1, <2>2, <2>3, <3>1
  <2>4. CASE job[c].path = "flush"
    <3>1. AfterFlush(c, b)
      BY <1>1, <1>7, <2>4 DEF ReadReply
    <3> QED BY <1>4, <1>5, <2>1, <2>2, <2>4, <3>1
  <2>5. CASE job[c].path \notin {"notify", "flush"}
    <3>1. Reconcile(c, b, tx[b])
      BY <1>1, <1>7, <1>k, <2>1, <2>5 DEF ReadReply
    <3> QED BY <1>4, <1>6, <2>1, <2>2, <2>5, <3>1
  <2> QED BY <2>3, <2>4, <2>5
<1>8. CASE ReadErrorExtended(c)
  <2>1. /\ pc[c] = "read" /\ conn[b] # "open" /\ job[c].path \in {"prepared", "sync", "flush"}
        /\ UNCHANGED <<conn, tx, named, wire, namedStmts, clientUp, inHand>>
    BY <1>1, <1>8 DEF ReadErrorExtended, ReadFails
  <2>2. CASE Release(b)
    BY <1>2, <2>1, <2>2
  <2>3. CASE job[c].path = "flush" /\ AfterFlush(c, b)
    BY <1>4, <1>5, <1>k, <2>1, <2>3
  <2>4. CASE Reconcile(c, b, "?")
    BY <1>4, <1>6, <1>k, <2>1, <2>4
  <2> QED BY <1>1, <1>8, <2>2, <2>3, <2>4 DEF ReadErrorExtended
<1> QED BY <1>3, <1>7, <1>8

-----------------------------------------------------------------------------
(* A request is sent. *)

LEMMA SendClean ==
    ASSUME TypeInv, OwnInv, CleanInv, NEW c \in Clients, SendRequest(c),
           "closeSkipped" \notin Faults \/ "named" \notin Requests
    PROVE  CleanInv'
<1> USE DEF CleanInv
<1>0. /\ pc[c] = "send" /\ conn[held[c]] = "open" /\ held[c] \in Backends
      /\ UNCHANGED <<job, held, pin, inTx, namedStmts, clientUp, conn, bclient, queue, closeCh,
                     inHand>>
      /\ \A d \in Clients : pc'[d] = IF d = c THEN "read" ELSE pc[d]
  BY DEF SendRequest, Serve, backendVars, channelVars, targetVars, TypeInv, TypeOK,
     SessionTypes, HeldWhileServing
<1>1. PICK b \in Backends : b = held[c]
  BY <1>0
<1>2. PICK status \in Outcomes(job[c].path, tx[b]) :
        /\ tx' = [tx EXCEPT ![b] = status]
        /\ wire' = [wire EXCEPT ![b] = Append(@, [to |-> c, tx |-> status])]
  BY <1>1 DEF SendRequest, Serve
<1>3. /\ \A x \in Backends \ {b} : tx'[x] = tx[x] /\ wire'[x] = wire[x] /\ named'[x] = named[x]
      /\ tx'[b] = status /\ wire'[b] = Append(wire[b], [to |-> c, tx |-> status])
  BY <1>1, <1>2 DEF SendRequest, Serve, TypeInv, TypeOK, ServerTypes
<1>4. /\ b \in Owned(c) /\ b # None /\ b \notin Range(closeCh) /\ b # inHand
      /\ \A q \in Pools : b \notin Range(queue[q])
      /\ \A d \in Clients \ {c} : b \notin Owned(d) /\ held[d] # b /\ pin[d] # b
  BY <1>1, PoolingAssumption DEF Owned, OwnInv, Exclusive, OwnersApart
<1>5. /\ tx[b] = "I" /\ job[c].path \notin {"simple", "sync"} => status = "I"
      /\ tx[b] \in Statuses /\ named[b] \in Nat /\ namedStmts[c] \in Nat
      /\ Owned(c) \subseteq Backends
  BY <1>2 DEF Outcomes, TypeInv, TypeOK, ServerTypes, SessionTypes, PinTypes, Owned
<1>6. /\ job[c].req \notin {"named", "close"} => named'[b] = named[b]
      /\ named'[b] <= namedStmts[c]
  <2>0. named[b] <= Owed(c, b)
    BY <1>4 DEF NamedBound
  <2>1. CASE job[c].req = "named"
    <3>1. Owed(c, b) = namedStmts[c] - 1
      BY <1>0, <1>1, <2>1 DEF Owed
    <3>2. PICK n \in {0, 1} : named' = [named EXCEPT ![b] = @ + n]
      BY <1>1, <2>1 DEF SendRequest, Serve
    <3>3. named'[b] = named[b] + n
      BY <3>2 DEF TypeInv, TypeOK, ServerTypes
    <3> QED BY <1>5, <2>0, <2>1, <3>1, <3>2, <3>3
  <2>2. CASE job[c].req = "close"
    <3>1. Owed(c, b) = namedStmts[c] + 1
      BY <1>0, <1>1, <2>2 DEF Owed
    <3>2. "closeSkipped" \notin Faults
      BY <2>2 DEF Handlers
    <3>3. named' = [named EXCEPT ![b] = Max2(0, @ - 1)]
      BY <1>1, <2>2, <3>2 DEF SendRequest, Serve
    <3>4. named'[b] = Max2(0, named[b] - 1)
      BY <3>3 DEF TypeInv, TypeOK, ServerTypes
    <3> QED BY <1>5, <2>0, <2>2, <3>1, <3>4 DEF Max2
  <2>3. CASE job[c].req \notin {"named", "close"}
    <3>1. Owed(c, b) = namedStmts[c]
      BY <2>3 DEF Owed
    <3>2. named' = named
      BY <2>3 DEF SendRequest, Serve
    <3> QED BY <2>0, <2>3, <3>1, <3>2
  <2> QED BY <2>1, <2>2, <2>3
<1>7. Stale'
  BY <1>0 DEF Stale
<1>8. Handlers'
  BY <1>0 DEF Handlers
<1>9. Ended'
  BY <1>0, <1>1, <1>3 DEF Ended, Fresh
<1>10. Wires'
  <2>0. wire[b] = <<>>
    <3>1. \A d \in Clients : ~Reading(d, b)
      BY <1>0, <1>4 DEF Reading
    <3> QED BY <1>4, <3>1 DEF Wires
  <2>1. ASSUME NEW d \in Clients, pc'[d] = "read", conn'[held'[d]] = "open"
        PROVE  wire'[held'[d]] = <<[to |-> d, tx |-> tx'[held'[d]]]>>
    <3>1. CASE d = c
      <4>1. wire'[b] = <<[to |-> c, tx |-> status]>>
        BY <1>3, <2>0
      <4> QED BY <1>0, <1>1, <1>3, <3>1, <4>1
    <3>2. CASE d # c
      <4>1. pc[d] = "read" /\ held[d] # b /\ held[d] \in Backends /\ held'[d] = held[d]
        BY <1>0, <1>4, <2>1, <3>2 DEF TypeInv, TypeOK, SessionTypes, HeldWhileServing
      <4> QED BY <1>0, <1>3, <2>1, <4>1 DEF Wires
    <3> QED BY <3>1, <3>2
  <2>2. ASSUME NEW x \in Backends, x \notin Range(closeCh'), \A d \in Clients : ~Reading(d, x)'
        PROVE  wire'[x] = <<>>
    <3>1. x # b
      BY <1>0, <1>1, <2>2 DEF Reading
    <3>2. \A d \in Clients : ~Reading(d, x)
      BY <1>0, <2>2 DEF Reading
    <3> QED BY <1>0, <1>3, <2>2, <3>1, <3>2 DEF Wires
  <2> QED BY <2>1, <2>2 DEF Wires
<1>11. IdleFresh'
  <2>1. /\ \A q \in Pools : Range(queue[q]) \subseteq Backends
        /\ inHand \in Backends \cup {None}
    BY RangeOfSeq DEF TypeInv, TypeOK, ChannelTypes, TargetTypes
  <2> QED BY <1>0, <1>3, <1>4, <2>1 DEF IdleFresh, Fresh
<1>12. BorrowedFresh'
  <2> SUFFICES ASSUME NEW d \in Clients, held[d] # None, pin[d] # held[d],
                      pc'[d] = "send" \/ job[d].path \notin {"simple", "sync"}
               PROVE  Fresh(held[d])'
    BY <1>0 DEF BorrowedFresh, Fresh
  <2>1. CASE d = c
    <3>1. job[c].path \notin {"simple", "sync"}
      BY <1>0, <2>1
    <3>2. Fresh(b) /\ job[c].req \notin {"named", "close"}
      BY <1>0, <1>1, <2>1, <3>1 DEF BorrowedFresh, Handlers
    <3>3. tx'[b] = "I" /\ named'[b] = 0
      BY <1>3, <1>5, <1>6, <3>1, <3>2 DEF Fresh
    <3> QED BY <1>0, <1>1, <2>1, <3>3 DEF Fresh
  <2>2. CASE d # c
    <3>1. held[d] # b /\ held[d] \in Backends
      BY <1>4, <2>2 DEF TypeInv, TypeOK, SessionTypes
    <3>2. Fresh(held[d])
      BY <1>0, <2>2 DEF BorrowedFresh
    <3> QED BY <1>0, <1>3, <3>1, <3>2 DEF Fresh
  <2> QED BY <2>1, <2>2
<1>13. NamedBound'
  <2> SUFFICES ASSUME NEW d \in Clients, NEW x \in Owned(d)
               PROVE  named'[x] <= Owed(d, x)'
    BY <1>0 DEF NamedBound, Owned
  <2>1. CASE x = b
    <3>1. d = c
      BY <1>4, <2>1
    <3>2. Owed(c, b)' = namedStmts[c]
      BY <1>0 DEF Owed
    <3> QED BY <1>6, <2>1, <3>1, <3>2
  <2>2. CASE x # b
    <3>1. Owed(d, x)' = Owed(d, x)
      BY <1>0, <1>1, <2>2 DEF Owed
    <3>2. x \in Backends
      BY DEF Owned, TypeInv, TypeOK, SessionTypes, PinTypes
    <3>3. named[x] <= Owed(d, x)
      BY DEF NamedBound
    <3> QED BY <1>3, <2>2, <3>1, <3>2, <3>3
  <2> QED BY <2>1, <2>2
<1>14. TxKnown'
  <2> SUFFICES ASSUME NEW d \in Clients, pin[d] # None, tx'[pin[d]] # "I",
                      ~(pc'[d] = "read" /\ held[d] = pin[d] /\ job[d].path \in {"simple", "sync"})
               PROVE  inTx[d]
    BY <1>0 DEF TxKnown, Reading
  <2>0. pin[d] \in Backends
    BY DEF TypeInv, TypeOK, PinTypes
  <2>1. CASE d = c
    <3>1. ~Reading(c, pin[c])
      BY <1>0 DEF Reading
    <3>2. tx[pin[c]] # "I"
      BY <1>0, <1>1, <1>3, <1>5, <2>0, <2>1
    <3> QED BY <2>1, <3>1, <3>2 DEF TxKnown
  <2>2. CASE d # c
    <3>1. pin[d] # b
      BY <1>4, <2>2
    <3>2. tx[pin[d]] # "I"
      BY <1>3, <2>0, <3>1
    <3> QED BY <1>0, <2>2, <3>2 DEF TxKnown, Reading
  <2> QED BY <2>1, <2>2
<1> QED BY <1>7, <1>8, <1>9, <1>10, <1>11, <1>12, <1>13, <1>14

LEMMA UnnoticedClean ==
    ASSUME TypeInv, OwnInv, CleanInv, NEW c \in Clients, SendUnnoticed(c)
    PROVE  CleanInv'
<1> USE DEF CleanInv
<1>0. /\ pc[c] = "send" /\ conn[held[c]] # "open" /\ held[c] \in Backends
      /\ UNCHANGED <<job, held, pin, inTx, namedStmts, clientUp, conn, tx, named, wire, bclient,
                     queue, closeCh, inHand>>
      /\ \A d \in Clients : pc'[d] = IF d = c THEN "read" ELSE pc[d]
  BY DEF SendUnnoticed, serverVars, backendVars, channelVars, targetVars, TypeInv, TypeOK,
     SessionTypes, HeldWhileServing
<1>1. Fresh(held[c])
  BY <1>0 DEF Ended
<1>2. Stale' /\ Handlers' /\ Ended'
  BY <1>0 DEF Stale, Handlers, Ended, Fresh
<1>3. Wires'
  BY <1>0 DEF Wires, Reading
<1>4. IdleFresh' /\ BorrowedFresh'
  BY <1>0, <1>1 DEF IdleFresh, BorrowedFresh, Fresh
<1>5. NamedBound'
  <2> SUFFICES ASSUME NEW d \in Clients, NEW x \in Owned(d)
               PROVE  named[x] <= Owed(d, x)'
    BY <1>0 DEF NamedBound, Owned
  <2>1. CASE d = c /\ x = held[c]
    <3>1. named[x] = 0 /\ Owed(d, x)' = namedStmts[c] /\ namedStmts[c] \in Nat
      BY <1>0, <1>1, <2>1 DEF Owed, Fresh, TypeInv, TypeOK, SessionTypes
    <3> QED BY <3>1
  <2>2. CASE ~(d = c /\ x = held[c])
    <3>1. Owed(d, x)' = Owed(d, x)
      BY <1>0, <2>2 DEF Owed
    <3> QED BY <3>1 DEF NamedBound
  <2> QED BY <2>1, <2>2
<1>6. TxKnown'
  <2> SUFFICES ASSUME NEW d \in Clients, pin[d] # None, tx[pin[d]] # "I",
                      ~(pc'[d] = "read" /\ held[d] = pin[d] /\ job[d].path \in {"simple", "sync"})
               PROVE  inTx[d]
    BY <1>0 DEF TxKnown, Reading
  <2>1. ~(Reading(d, pin[d]) /\ job[d].path \in {"simple", "sync"})
    BY <1>0 DEF Reading
  <2> QED BY <2>1 DEF TxKnown
<1> QED BY <1>2, <1>3, <1>4, <1>5, <1>6

-----------------------------------------------------------------------------
(* The steps before a connection is had, and those of the environment. *)

\* The client goroutine has no connection but the pinned one, and does nothing
\* to any connection.
LEMMA QuietClean ==
    ASSUME TypeInv, CleanInv, NEW c \in Clients, held[c] = None,
           UNCHANGED <<pin, conn, tx, named, wire, queue, closeCh, inHand>>,
           \A d \in Clients \ {c} : /\ pc'[d] = pc[d] /\ job'[d] = job[d] /\ held'[d] = held[d]
                                    /\ inTx'[d] = inTx[d] /\ namedStmts'[d] = namedStmts[d],
           pc'[c] # "read", held'[c] \in {None, pin[c]},
           inTx'[c] = inTx[c] \/ pin[c] = None,
           pin[c] # None => namedStmts[c] <= Owed(c, pin[c])',
           Stale', Handlers', TypeInv'
    PROVE  CleanInv'
<1> USE DEF CleanInv
<1>0. pc[c] \notin {"send", "read"} /\ \A d \in Clients : namedStmts[d] \in Nat
  BY DEF TypeInv, HeldWhileServing, TypeOK, SessionTypes
<1>1. Ended' /\ IdleFresh'
  BY DEF Ended, IdleFresh, Fresh
<1>2. Wires'
  <2>1. \A d \in Clients : \A x : Reading(d, x)' <=> Reading(d, x)
    BY <1>0 DEF Reading
  <2>2. \A d \in Clients : pc'[d] = "read" => d # c
    OBVIOUS
  <2> QED BY <2>1, <2>2 DEF Wires
<1>3. BorrowedFresh'
  BY DEF BorrowedFresh, Fresh
<1>4. NamedBound'
  <2> SUFFICES ASSUME NEW d \in Clients, NEW x \in Owned(d)'
               PROVE  named[x] <= Owed(d, x)'
    BY DEF NamedBound
  <2>1. CASE d # c
    BY <2>1 DEF NamedBound, Owned, Owed
  <2>2. CASE d = c
    <3>1. x = pin[c] /\ x # None /\ x \in Owned(c)
      BY <2>2 DEF Owned
    <3>2. Owed(c, x) = namedStmts[c]
      BY <1>0 DEF Owed
    <3>3. named[x] <= namedStmts[c]
      BY <3>1, <3>2 DEF NamedBound
    <3>4. namedStmts'[c] \in Nat /\ named[x] \in Nat
      BY <3>1 DEF TypeInv, TypeOK, SessionTypes, ServerTypes, PinTypes
    <3>5. Owed(c, x)' \in Int
      BY <3>4 DEF Owed
    <3> QED BY <1>0, <2>2, <3>1, <3>3, <3>4, <3>5
  <2> QED BY <2>1, <2>2
<1>5. TxKnown'
  <2> SUFFICES ASSUME NEW d \in Clients, pin[d] # None, tx[pin[d]] # "I",
                      ~(pc'[d] = "read" /\ held'[d] = pin[d] /\ job'[d].path \in {"simple", "sync"})
               PROVE  inTx'[d]
    BY DEF TxKnown, Reading
  <2>1. CASE d = c
    BY <1>0, <2>1 DEF TxKnown, Reading
  <2>2. CASE d # c
    BY <2>2 DEF TxKnown, Reading
  <2> QED BY <2>1, <2>2
<1> QED BY <1>1, <1>2, <1>3, <1>4, <1>5

LEMMA StartClean ==
    ASSUME TypeInv, TypeInv', CleanInv, "named" \notin Requests => NoNamed, NEW c \in Clients,
           HandleClientMessage(c)
    PROVE  CleanInv'
<1> USE DEF CleanInv
<1>0. /\ pc[c] = "idle" /\ clientUp[c] /\ held[c] = None
      /\ UNCHANGED <<pin, inTx, clientUp, conn, tx, named, wire, bclient, queue, closeCh, inHand>>
  BY DEF HandleClientMessage, serverVars, backendVars, channelVars, targetVars, TypeInv,
     HeldWhileServing
<1>1. PICK req \in Requests, path \in Paths, usePin \in BOOLEAN :
        /\ Start(c, req, path, usePin)
        /\ path # "notify" => usePin = (pin[c] # None)
        /\ path = "notify" => ~inTx[c] /\ ~usePin
        /\ req \in {"named", "close"} => path = "sync"
        /\ req = "close" => namedStmts[c] > 0
        /\ namedStmts' = [namedStmts EXCEPT ![c] = CASE req = "named" -> @ + 1
                                                     [] req = "close" -> @ - 1
                                                     [] OTHER -> @]
  <2>1. CASE ExecuteQuery(c)
    <3>1. PICK req \in Requests \cap {"query", "dml", "notify"} :
            \/ req = "notify" /\ ~inTx[c] /\ Start(c, req, "notify", FALSE)
            \/ req = "dml" /\ ~(pin[c] # None) /\ Start(c, req, "prepared", FALSE)
            \/ Start(c, req, "simple", pin[c] # None)
      BY <2>1, Zenon DEF ExecuteQuery
    <3>2. {"notify", "prepared", "simple"} \subseteq Paths
      BY DEF Paths
    <3>3. namedStmts' = [namedStmts EXCEPT ![c] = CASE req = "named" -> @ + 1
                                                    [] req = "close" -> @ - 1
                                                    [] OTHER -> @]
      BY <2>1, <3>1 DEF ExecuteQuery, TypeInv, TypeOK, SessionTypes
    <3>4. CASE ~inTx[c] /\ Start(c, req, "notify", FALSE)
      BY <3>1, <3>2, <3>3, <3>4
    <3>5. CASE pin[c] = None /\ Start(c, req, "prepared", FALSE)
      BY <3>1, <3>2, <3>3, <3>5
    <3>6. CASE Start(c, req, "simple", pin[c] # None)
      BY <3>1, <3>2, <3>3, <3>6
    <3> QED BY <3>1, <3>4, <3>5, <3>6
  <2>2. CASE ExecuteExtendedPipeline(c)
    <3>1. PICK req \in Requests \ {"query", "dml", "notify"} :
            /\ req = "close" => namedStmts[c] > 0
            /\ Start(c, req, IF req \in {"flush", "flushUnnamed"} THEN "flush" ELSE "sync",
                     pin[c] # None)
            /\ namedStmts' = [namedStmts EXCEPT ![c] = CASE req = "named" -> @ + 1
                                                         [] req = "close" -> @ - 1
                                                         [] OTHER -> @]
      BY <2>2 DEF ExecuteExtendedPipeline
    <3>2. {"flush", "sync"} \subseteq Paths
      BY DEF Paths
    <3> QED BY <3>1, <3>2
  <2> QED BY <2>1, <2>2 DEF HandleClientMessage
<1>2. /\ \A d \in Clients \ {c} : /\ held'[d] = held[d] /\ job'[d] = job[d] /\ pc'[d] = pc[d]
                                  /\ namedStmts'[d] = namedStmts[d]
      /\ held'[c] = IF usePin THEN pin[c] ELSE None
      /\ pc'[c] = IF usePin THEN "send" ELSE "borrow"
      /\ job'[c].req = req /\ job'[c].path = path
      /\ namedStmts[c] \in Nat
      /\ namedStmts'[c] = CASE req = "named" -> namedStmts[c] + 1
                            [] req = "close" -> namedStmts[c] - 1
                            [] OTHER -> namedStmts[c]
  BY <1>1 DEF Start, TypeInv, TypeOK, SessionTypes
<1>3. Stale'
  <2> SUFFICES ASSUME NEW x \in Backends, NEW d \in Clients, bclient[x] = d, pin[d] # x
               PROVE  /\ pin[d] = None /\ ~clientUp[d]
                      /\ job'[d].path # "notify" =>
                            pc'[d] \notin {"borrow", "wait"} /\ held'[d] \in {None, x}
    BY <1>0 DEF Stale
  <2>1. d # c
    BY <1>0 DEF Stale
  <2> QED BY <1>2, <2>1 DEF Stale
<1>4. Handlers'
  <2> SUFFICES ASSUME NEW d \in Clients
               PROVE  /\ job'[d].path # "notify" =>
                            /\ pc'[d] \in {"borrow", "wait"} => pin[d] = None
                            /\ held'[d] # None => pin[d] \in {None, held'[d]}
                      /\ job'[d].path = "notify" => ~inTx[d]
                      /\ job'[d].req \in {"named", "close"} =>
                            job'[d].path = "sync" /\ "named" \in Requests
                      /\ job'[d].req = "named" /\ pc'[d] \in {"borrow", "wait", "send"} =>
                            namedStmts'[d] >= 1
    BY <1>0 DEF Handlers
  <2>1. CASE d = c
    <3>1. req = "close" => "named" \in Requests
      BY <1>1 DEF NoNamed
    <3>2. /\ path # "notify" /\ pc'[c] \in {"borrow", "wait"} => pin[c] = None
          /\ path # "notify" /\ held'[c] # None => pin[c] = held'[c]
      BY <1>1, <1>2
    <3>3. req = "named" => namedStmts'[c] >= 1
      BY <1>2
    <3> QED BY <1>1, <1>2, <2>1, <3>1, <3>2, <3>3
  <2>2. CASE d # c
    BY <1>2, <2>2 DEF Handlers
  <2> QED BY <2>1, <2>2
<1>5. pin[c] # None => namedStmts[c] <= Owed(c, pin[c])'
  <2>1. CASE req = "named"
    BY <1>0, <1>1, <1>2, <2>1 DEF Owed
  <2>2. CASE req = "close"
    <3>1. namedStmts'[c] = namedStmts[c] - 1
      BY <1>2, <2>2
    <3>2. pin[c] # None => pc'[c] = "send" /\ held'[c] = pin'[c]
      BY <1>0, <1>1, <1>2, <2>2
    <3>3. pin[c] # None => Owed(c, pin[c])' = namedStmts'[c] + 1
      BY <1>2, <2>2, <3>2 DEF Owed
    <3> QED BY <1>2, <3>1, <3>3
  <2>3. CASE req \notin {"named", "close"}
    BY <1>0, <1>2, <2>3 DEF Owed
  <2> QED BY <2>1, <2>2, <2>3
<1>6. pc'[c] # "read" /\ held'[c] \in {None, pin[c]}
  BY <1>2
<1> QED BY <1>0, <1>2, <1>3, <1>4, <1>5, <1>6, QuietClean

LEMMA BorrowClean ==
    ASSUME TypeInv, OwnInv, CleanInv, NEW c \in Clients, BorrowConn(c)
    PROVE  CleanInv'
<1> USE DEF CleanInv
<1> DEFINE p == PoolOf[c]
<1>0. /\ p \in Pools /\ queue[p] # <<>> /\ queue' = [queue EXCEPT ![p] = Tail(@)]
      /\ pc[c] \in {"borrow", "wait"} /\ held[c] = None
      /\ UNCHANGED <<job, inTx, namedStmts, clientUp, conn, tx, named, wire, closeCh, inHand>>
  BY PoolingAssumption DEF BorrowConn, TakeFromQueue, serverVars, targetVars, TypeInv,
     HeldWhileServing
<1>1. PICK x : x = Head(queue[p])
  OBVIOUS
<1>2. /\ x \in Range(queue[p]) /\ x \in Backends
      /\ \A d \in Clients : x \notin Owned(d)
      /\ \A q \in Pools : Range(queue'[q]) \subseteq Range(queue[q])
  <2>1. Exclusive /\ ChannelTypes
    BY DEF OwnInv, TypeInv, TypeOK
  <2> QED BY <1>0, <1>1, <2>1, HeadAlone, RangeOfSeq DEF ChannelTypes
<1>3. /\ \A d \in Clients : /\ pc'[d] = IF d = c THEN "send" ELSE pc[d]
                            /\ held'[d] = IF d = c THEN x ELSE held[d]
      /\ \A d \in Clients \ {c} : pin'[d] = pin[d]
      /\ \/ /\ RequiresPin(job[c].req) /\ pin'[c] = x
            /\ \A y \in Backends : bclient'[y] = IF y = x THEN c ELSE bclient[y]
         \/ pin'[c] = pin[c] /\ bclient' = bclient
  BY <1>1, <1>2 DEF BorrowConn, TakeFromQueue, TypeInv, TypeOK, SessionTypes, PinTypes
<1>4. /\ x # None /\ Fresh(x)
      /\ RequiresPin(job[c].req) => job[c].path # "notify"
      /\ job[c].path # "notify" => pin[c] = None
      /\ pin[c] # x
      /\ \A d \in Clients \ {c} : held[d] # x /\ pin[d] # x
      /\ \A d \in Clients : namedStmts[d] \in Nat
  BY <1>0, <1>2, PoolingAssumption DEF IdleFresh, OwnInv, BorrowedApart, Handlers, Owned,
     TypeInv, TypeOK, SessionTypes
<1>5. Stale'
  <2> SUFFICES ASSUME NEW y \in Backends, NEW d \in Clients, bclient'[y] = d, pin'[d] # y
               PROVE  /\ pin'[d] = None /\ ~clientUp'[d]
                      /\ job'[d].path # "notify" =>
                            pc'[d] \notin {"borrow", "wait"} /\ held'[d] \in {None, y}
    BY DEF Stale
  <2>1. bclient[y] = d
    BY <1>3
  <2>2. CASE d = c
    <3>1. pin[c] # y
      BY <1>0, <1>3, <1>4, <2>2, PoolingAssumption
    <3>2. job[c].path = "notify"
      BY <1>0, <2>1, <2>2, <3>1 DEF Stale
    <3>3. pin'[c] = pin[c]
      BY <1>3, <1>4, <3>2
    <3> QED BY <1>0, <2>1, <2>2, <3>1, <3>2, <3>3 DEF Stale
  <2>3. CASE d # c
    BY <1>0, <1>3, <2>1, <2>3 DEF Stale
  <2> QED BY <2>2, <2>3
<1>6. Handlers'
  BY <1>0, <1>3, <1>4 DEF Handlers
<1>7. Ended' /\ IdleFresh'
  BY <1>0, <1>2 DEF Ended, IdleFresh, Fresh
<1>8. Wires'
  <2>1. \A d \in Clients : \A y : Reading(d, y)' <=> Reading(d, y)
    BY <1>0, <1>3 DEF Reading
  <2>2. \A d \in Clients : pc'[d] = "read" => d # c
    BY <1>3
  <2> QED BY <1>0, <1>3, <2>1, <2>2 DEF Wires
<1>9. BorrowedFresh'
  BY <1>0, <1>3, <1>4 DEF BorrowedFresh, Fresh
<1>10. NamedBound'
  <2> SUFFICES ASSUME NEW d \in Clients, NEW y \in Owned(d)'
               PROVE  named[y] <= Owed(d, y)'
    BY <1>0 DEF NamedBound
  <2>1. CASE d # c
    BY <1>0, <1>3, <2>1 DEF NamedBound, Owned, Owed
  <2>2. CASE d = c /\ y = x
    <3>1. Owed(c, x)' \in Nat
      BY <1>0, <1>3, <1>4 DEF Owed, Handlers
    <3> QED BY <1>4, <2>2, <3>1 DEF Fresh
  <2>3. CASE d = c /\ y # x
    <3>1. y = pin[c] /\ y \in Owned(c)
      BY <1>3, <2>3 DEF Owned
    <3>2. Owed(c, y)' = namedStmts[c] /\ Owed(c, y) = namedStmts[c]
      BY <1>0, <1>3, <2>3 DEF Owed
    <3> QED BY <2>3, <3>1, <3>2 DEF NamedBound
  <2> QED BY <2>1, <2>2, <2>3
<1>11. TxKnown'
  <2> SUFFICES ASSUME NEW d \in Clients, pin'[d] # None, tx[pin'[d]] # "I",
                      ~(Reading(d, pin[d])' /\ job[d].path \in {"simple", "sync"})
               PROVE  inTx[d]
    BY <1>0 DEF TxKnown, Reading
  <2>1. pin'[d] = pin[d]
    BY <1>3, <1>4 DEF Fresh
  <2>2. CASE d = c
    BY <1>0, <2>1, <2>2 DEF TxKnown, Reading
  <2>3. CASE d # c
    BY <1>3, <2>1, <2>3 DEF TxKnown, Reading
  <2> QED BY <2>2, <2>3
<1> QED BY <1>5, <1>6, <1>7, <1>8, <1>9, <1>10, <1>11

\* A session is begun, a wait begins or ends, or the client leaves.
LEMMA RestClean ==
    ASSUME TypeInv, TypeInv', OwnInv, CleanInv, NEW c \in Clients,
           \/ Accept(c) \/ Disconnect(c) \/ BorrowTimeout(c) \/ BorrowWait(c)
           \/ Cleanup(c) /\ pin[c] = None
    PROVE  CleanInv'
<1> USE DEF CleanInv
<1>0. /\ pc[c] \notin {"send", "read"} /\ held[c] = None /\ namedStmts[c] \in Nat
      /\ UNCHANGED <<pin, conn, tx, named, wire, queue, closeCh, inHand>>
  BY DEF Accept, Disconnect, BorrowTimeout, BorrowWait, Cleanup, Done, serverVars,
     channelVars, targetVars, TypeInv, HeldWhileServing, TypeOK, SessionTypes
<1>1. CASE Accept(c)
  <2>1. /\ pin[c] = None /\ pc'[c] = "idle" /\ held' = held /\ job' = job
        /\ inTx'[c] = FALSE /\ clientUp'[c]
        /\ \A d \in Clients \ {c} : /\ pc'[d] = pc[d] /\ inTx'[d] = inTx[d]
                                    /\ namedStmts'[d] = namedStmts[d] /\ clientUp'[d] = clientUp[d]
        /\ \A b \in Backends : bclient'[b] = IF bclient[b] = c THEN None ELSE bclient[b]
    BY <1>1 DEF Accept, OwnInv, BorrowedApart, TypeInv, TypeOK, SessionTypes, PinTypes
  <2>2. Stale'
    BY <1>0, <2>1, PoolingAssumption DEF Stale
  <2>3. Handlers'
    BY <1>0, <2>1 DEF Handlers
  <2> QED BY <1>0, <2>1, <2>2, <2>3, QuietClean
<1>2. CASE Disconnect(c) \/ BorrowTimeout(c)
  <2>1. /\ pc'[c] \in {"idle", "cleanup"} /\ job'[c] = NoJob /\ held'[c] = None
        /\ \A d \in Clients \ {c} : pc'[d] = pc[d] /\ job'[d] = job[d] /\ held'[d] = held[d]
        /\ UNCHANGED <<inTx, namedStmts, clientUp, bclient>>
    BY <1>2 DEF Disconnect, BorrowTimeout, Done, backendVars, TypeInv, TypeOK, SessionTypes
  <2>2. Stale'
    BY <1>0, <2>1 DEF Stale
  <2>3. Handlers'
    BY <1>0, <2>1 DEF Handlers, NoJob
  <2>4. Owed(c, pin[c])' = namedStmts[c]
    BY <2>1 DEF Owed
  <2> QED BY <1>0, <2>1, <2>2, <2>3, <2>4, QuietClean
<1>3. CASE BorrowWait(c) \/ (Cleanup(c) /\ pin[c] = None)
  <2>1. /\ (pc'[c] = "wait" /\ pc[c] = "borrow") \/ (pc'[c] = "gone" /\ pin[c] = None)
        /\ \A d \in Clients \ {c} : pc'[d] = pc[d]
        /\ \A d \in Clients : clientUp'[d] => clientUp[d]
        /\ UNCHANGED <<job, held, inTx, namedStmts, bclient>>
    BY <1>3 DEF BorrowWait, Cleanup, backendVars, TypeInv, TypeOK, SessionTypes
  <2>2. Stale'
    BY <1>0, <2>1 DEF Stale
  <2>3. Handlers'
    BY <1>0, <2>1 DEF Handlers
  <2>4. Owed(c, pin[c])' = namedStmts[c]
    BY <1>0, <2>1 DEF Owed
  <2> QED BY <1>0, <2>1, <2>2, <2>3, <2>4, QuietClean
<1> QED BY <1>1, <1>2, <1>3

LEMMA DropsClean ==
    ASSUME CleanInv, NEW c \in Clients, ClientDrops(c), TypeInv
    PROVE  CleanInv'
<1> USE DEF CleanInv
<1>0. /\ \A d \in Clients : clientUp'[d] => clientUp[d]
      /\ UNCHANGED <<pc, job, held, pin, inTx, namedStmts, conn, tx, named, wire, bclient, queue,
                     closeCh, inHand>>
  BY DEF ClientDrops, serverVars, backendVars, channelVars, targetVars, TypeInv, TypeOK,
     SessionTypes
<1>1. Stale' /\ Handlers' /\ Ended' /\ Wires'
  BY <1>0 DEF Stale, Handlers, Ended, Fresh, Wires, Reading
<1>2. IdleFresh' /\ BorrowedFresh' /\ NamedBound' /\ TxKnown'
  BY <1>0 DEF IdleFresh, BorrowedFresh, Fresh, NamedBound, Owned, Owed, TxKnown, Reading
<1> QED BY <1>1, <1>2

\* The pinned session is ended: by the client's own goroutine when it leaves, or
\* by a listen monitor under a handler that is still at work.
LEMMA UnpinClean ==
    ASSUME TypeInv, OwnInv, CleanInv, NEW c \in Clients,
           FailListen(c) \/ (Cleanup(c) /\ pin[c] # None)
    PROVE  CleanInv'
<1> USE DEF CleanInv
<1>1. CASE FailListen(c) /\ pin[c] = None
  <2>0. /\ \A d \in Clients : clientUp'[d] => clientUp[d]
        /\ \A d \in Clients : pin'[d] = pin[d]
        /\ UNCHANGED <<pc, job, held, inTx, namedStmts, conn, tx, named, wire, bclient, queue,
                       closeCh, inHand>>
    BY <1>1 DEF FailListen, serverVars, backendVars, channelVars, targetVars, TypeInv, TypeOK,
       SessionTypes, PinTypes
  <2>1. Stale' /\ Handlers' /\ Ended' /\ Wires'
    BY <2>0 DEF Stale, Handlers, Ended, Fresh, Wires, Reading
  <2>2. IdleFresh' /\ BorrowedFresh' /\ NamedBound' /\ TxKnown'
    BY <2>0 DEF IdleFresh, BorrowedFresh, Fresh, NamedBound, Owned, Owed, TxKnown, Reading
  <2> QED BY <2>1, <2>2
<1>2. CASE pin[c] # None
  <2>1. PICK b \in Backends : b = pin[c]
    BY <1>2 DEF TypeInv, TypeOK, PinTypes
  <2>2. /\ b \in Owned(c) /\ bclient[b] = c
        /\ \A d \in Clients \ {c} : b \notin Owned(d) /\ held[d] # b /\ pin[d] # b
        /\ \A x \in Backends : bclient[x] = c => x = b
        /\ b # None
    BY <1>2, <2>1, PoolingAssumption DEF Owned, OwnInv, PinsKnown, Exclusive, OwnersApart, Stale
  <2>3. /\ pin'[c] = None /\ \A d \in Clients \ {c} : pin'[d] = pin[d] /\ inTx'[d] = inTx[d]
        /\ \A d \in Clients : inTx'[d] => inTx[d]
        /\ ~clientUp'[c] /\ \A d \in Clients \ {c} : clientUp'[d] = clientUp[d] /\ pc'[d] = pc[d]
        /\ pc'[c] = pc[c] \/ (pc'[c] = "gone" /\ held[c] = None)
        /\ pc'[c] = pc[c] => UNCHANGED bclient
        /\ \A x \in Backends : bclient'[x] \in {bclient[x], None}
        /\ UNCHANGED <<job, held, namedStmts, queue, inHand>>
    <3>1. CASE FailListen(c)
      BY <3>1 DEF FailListen, backendVars, channelVars, targetVars, TypeInv, TypeOK,
         SessionTypes, PinTypes
    <3>2. CASE Cleanup(c)
      <4>1. Release(b) /\ held[c] = None /\ pc[c] = "cleanup"
        BY <1>2, <2>1, <3>2 DEF Cleanup, TypeInv, HeldWhileServing
      <4>2. /\ \A d \in Clients : /\ pin'[d] = IF d = c THEN None ELSE pin[d]
                                  /\ inTx'[d] = IF d = c THEN FALSE ELSE inTx[d]
            /\ \A x \in Backends : bclient'[x] \in {bclient[x], None}
            /\ UNCHANGED queue
        BY <2>2, <4>1 DEF Release, TypeInv, TypeOK, PinTypes
      <4> QED BY <3>2, <4>1, <4>2 DEF Cleanup, targetVars, TypeInv, TypeOK, SessionTypes
    <3> QED BY <3>1, <3>2
  <2>4. /\ \E state \in {"dead", "closed"} : SetSession(b, state)
        /\ Range(closeCh) \subseteq Range(closeCh')
    <3>1. CASE FailListen(c)
      BY <1>2, <2>1, <3>1 DEF FailListen, channelVars
    <3>2. CASE Cleanup(c)
      <4>1. Release(b) /\ SetSession(b, "dead")
        BY <1>2, <2>1, <3>2 DEF Cleanup
      <4>2. Range(closeCh') = Range(closeCh) \cup {b}
        BY <4>1, RangeAppend DEF Release, TypeInv, TypeOK, ChannelTypes
      <4> QED BY <4>1, <4>2
    <3> QED BY <3>1, <3>2
  <2>5. /\ Fresh(b)' /\ wire'[b] = <<>> /\ conn'[b] # "open"
        /\ \A x \in Backends : Fresh(x) => Fresh(x)'
        /\ \A x \in Backends \ {b} : /\ conn'[x] = conn[x] /\ tx'[x] = tx[x]
                                     /\ named'[x] = named[x] /\ wire'[x] = wire[x]
    BY <2>4, SetSessionFresh
  <2>6. /\ \A d \in Clients : /\ held[d] \in Backends \cup {None}
                              /\ pc[d] \in {"send", "read"} => held[d] \in Backends
                              /\ pin[d] \in Backends \cup {None}
                              /\ namedStmts[d] \in Nat
                              /\ Owned(d) \subseteq Backends
        /\ inHand \in Backends \cup {None}
        /\ \A q \in Pools : Range(queue[q]) \subseteq Backends
    BY RangeOfSeq DEF TypeInv, TypeOK, SessionTypes, PinTypes, TargetTypes, ChannelTypes,
       HeldWhileServing, Owned
  <2>7. Stale'
    <3> SUFFICES ASSUME NEW x \in Backends, NEW d \in Clients, bclient'[x] = d, pin'[d] # x
                 PROVE  /\ pin'[d] = None /\ ~clientUp'[d]
                        /\ job'[d].path # "notify" =>
                              pc'[d] \notin {"borrow", "wait"} /\ held'[d] \in {None, x}
      BY DEF Stale
    <3>1. bclient[x] = d
      BY <2>3, PoolingAssumption
    <3>2. CASE d = c
      <4>1. x = pin[c]
        BY <2>1, <2>2, <3>1, <3>2
      <4>2. job[c].path # "notify" => pc'[c] \notin {"borrow", "wait"} /\ held[c] \in {None, x}
        BY <1>2, <2>3, <4>1 DEF Handlers
      <4> QED BY <2>3, <3>2, <4>2
    <3>3. CASE d # c
      BY <2>3, <3>1, <3>3 DEF Stale
    <3> QED BY <3>2, <3>3
  <2>8. Handlers'
    BY <2>3 DEF Handlers
  <2>9. Ended'
    BY <2>5 DEF Ended
  <2>10. Wires'
    <3>1. ASSUME NEW d \in Clients, pc'[d] = "read", conn'[held'[d]] = "open"
          PROVE  wire'[held'[d]] = <<[to |-> d, tx |-> tx'[held'[d]]]>>
      <4>1. pc[d] = "read" /\ held'[d] = held[d] /\ held[d] \in Backends /\ held[d] # b
        BY <2>3, <2>5, <2>6, <3>1
      <4> QED BY <2>5, <3>1, <4>1 DEF Wires
    <3>2. ASSUME NEW x \in Backends, x \notin Range(closeCh'), \A d \in Clients : ~Reading(d, x)'
          PROVE  wire'[x] = <<>>
      <4>1. \A d \in Clients : Reading(d, x) => Reading(d, x)'
        BY <2>3, PoolingAssumption DEF Reading
      <4> QED BY <2>4, <2>5, <3>2, <4>1 DEF Wires
    <3> QED BY <3>1, <3>2 DEF Wires
  <2>11. IdleFresh'
    <3>1. \A q \in Pools : \A x \in Range(queue[q]) : Fresh(x)'
      BY <2>5, <2>6 DEF IdleFresh
    <3>2. inHand # None => Fresh(inHand)'
      BY <2>3, <2>5, <2>6 DEF IdleFresh, Fresh
    <3> QED BY <2>3, <3>1, <3>2 DEF IdleFresh
  <2>12. BorrowedFresh'
    <3> SUFFICES ASSUME NEW d \in Clients, held[d] # None, pin'[d] # held[d],
                        pc'[d] = "send" \/ job[d].path \notin {"simple", "sync"}
                 PROVE  tx'[held[d]] = "I" /\ named'[held[d]] = 0
      BY <2>3 DEF BorrowedFresh, Fresh
    <3>1. CASE held[d] = b
      BY <2>5, <3>1 DEF Fresh
    <3>2. CASE held[d] # b
      <4>1. pin[d] # held[d] /\ pc[d] = pc'[d] /\ held[d] \in Backends
        BY <2>1, <2>3, <2>6, <3>2
      <4>2. Fresh(held[d])
        BY <4>1 DEF BorrowedFresh
      <4> QED BY <2>5, <3>2, <4>1, <4>2 DEF Fresh
    <3> QED BY <3>1, <3>2
  <2>13. NamedBound'
    <3> SUFFICES ASSUME NEW d \in Clients, NEW x \in Owned(d)'
                 PROVE  named'[x] <= Owed(d, x)'
      BY DEF NamedBound
    <3>1. x \in Owned(d) /\ x \in Backends
      BY <2>3, <2>6 DEF Owned
    <3>2. Owed(d, x)' = Owed(d, x)
      BY <2>3, <3>1, PoolingAssumption DEF Owed, TypeInv, HeldWhileServing
    <3>3. named[x] <= Owed(d, x) /\ named[x] \in Nat /\ Owed(d, x) \in Int
      BY <2>6, <3>1 DEF NamedBound, Owed, TypeInv, TypeOK, ServerTypes
    <3>4. named'[x] \in {named[x], 0}
      BY <2>5, <3>1 DEF Fresh
    <3> QED BY <3>2, <3>3, <3>4
  <2>14. TxKnown'
    <3> SUFFICES ASSUME NEW d \in Clients, pin'[d] # None, tx'[pin'[d]] # "I",
                        ~(Reading(d, pin[d])' /\ job'[d].path \in {"simple", "sync"})
                 PROVE  inTx'[d]
      BY DEF TxKnown
    <3>1. d # c /\ pin'[d] = pin[d] /\ inTx'[d] = inTx[d] /\ pc'[d] = pc[d] /\ pin[d] # b
      BY <2>2, <2>3
    <3>2. tx[pin[d]] # "I"
      BY <2>5, <2>6, <3>1
    <3> QED BY <2>3, <3>1, <3>2 DEF TxKnown, Reading
  <2> QED BY <2>7, <2>8, <2>9, <2>10, <2>11, <2>12, <2>13, <2>14
<1> QED BY <1>1, <1>2

-----------------------------------------------------------------------------
(* The theorems. *)

\* The proviso of PoolingProofs, no query_timeout, no oversize reply, and no skipped
\* Close of a passthrough statement.
CleanProviso ==
    /\ "named" \notin Requests \/ NoFaults
    /\ Faults \cap {"timeout", "oversize"} = {}
    /\ "closeSkipped" \notin Faults \/ "named" \notin Requests

SafeInv == ExclusiveInv /\ BookInv /\ CleanInv

LEMMA CleanInit == Init => CleanInv
<1> SUFFICES ASSUME Init PROVE CleanInv
  OBVIOUS
<1>1. \A p \in Pools : Range(queue[p]) = {}
  BY RangeEmpty DEF Init
<1>2. \A c \in Clients : Owned(c) = {}
  BY DEF Init, Owned
<1>3. Stale /\ Handlers /\ Ended /\ Wires
  BY PoolingAssumption DEF Init, Stale, Handlers, Ended, Fresh, Wires, Reading, NoJob
<1>4. IdleFresh /\ BorrowedFresh /\ TxKnown
  BY <1>1 DEF Init, IdleFresh, BorrowedFresh, TxKnown
<1>5. NamedBound
  BY <1>2 DEF NamedBound
<1> QED BY <1>3, <1>4, <1>5 DEF CleanInv

LEMMA CleanStep ==
    ASSUME CleanProviso, ExclusiveInv, ExclusiveInv', BookInv, CleanInv, [Next]_vars
    PROVE  CleanInv'
<1>0. /\ TypeInv /\ TypeInv' /\ OwnInv /\ Exclusive /\ Silent
      /\ "named" \notin Requests => NoNamed
      /\ Faults \cap {"timeout", "oversize"} = {}
      /\ "closeSkipped" \notin Faults \/ "named" \notin Requests
  BY DEF ExclusiveInv, OwnInv, CleanProviso
<1>1. ASSUME NEW c \in Clients, ClientStep(c)
      PROVE  CleanInv'
  BY <1>0, <1>1, EndingClean, SendClean, UnnoticedClean, StartClean, BorrowClean, RestClean,
     DropsClean, UnpinClean DEF ClientStep, ServeStep
<1>2. CASE TargetStep \/ \E b \in Backends : ConnectionDies(b)
  BY <1>0, <1>2, CleanTarget
<1>3. ASSUME NEW c \in Clients, FailListen(c)
      PROVE  CleanInv'
  BY <1>0, <1>3, UnpinClean
<1>4. CASE UNCHANGED vars
  BY <1>4 DEF vars, clientVars, serverVars, backendVars, channelVars, targetVars, CleanInv,
     Stale, Handlers, Ended, Fresh, Wires, Reading, IdleFresh, BorrowedFresh, NamedBound,
     Owned, Owed, TxKnown
<1> QED BY <1>1, <1>2, <1>3, <1>4 DEF Next, EnvironmentStep

LEMMA SafeInvariant ==
    ASSUME CleanProviso
    PROVE  Spec => []SafeInv
<1>0. "named" \notin Requests \/ NoFaults
  BY DEF CleanProviso
<1>1. Init => SafeInv
  BY ExclusiveInit, BookInit, CleanInit DEF SafeInv
<1>2. SafeInv /\ [Next]_vars => SafeInv'
  <2> SUFFICES ASSUME SafeInv, [Next]_vars
               PROVE  SafeInv'
    OBVIOUS
  <2>1. ExclusiveInv'
    BY <1>0, ExclusiveStep DEF SafeInv
  <2>2. BookInv'
    BY BookStep DEF SafeInv, ExclusiveInv, OwnInv
  <2>3. CleanInv'
    BY <2>1, CleanStep DEF SafeInv
  <2> QED BY <2>1, <2>2, <2>3 DEF SafeInv
<1> QED BY <1>1, <1>2, PTL DEF Spec

\* What the invariant says about the sessions a client has and those nobody has.
LEMMA IdleClean ==
    ASSUME SafeInv, NEW p \in Pools, NEW b \in Range(queue[p])
    PROVE  b \in Backends /\ Fresh(b) /\ wire[b] = <<>>
<1>0. /\ TypeInv /\ Exclusive /\ IdleFresh /\ Wires
      /\ b \in Backends
  BY RangeOfSeq DEF SafeInv, ExclusiveInv, OwnInv, CleanInv, TypeInv, TypeOK, ChannelTypes
<1>1. b \notin Range(closeCh) /\ \A c \in Clients : b \notin Owned(c)
  BY <1>0 DEF Exclusive, ChannelsApart, OwnersApart
<1>2. \A c \in Clients : ~Reading(c, b)
  BY <1>0, <1>1, PoolingAssumption DEF Reading, Owned
<1> QED BY <1>0, <1>1, <1>2 DEF IdleFresh, Wires

LEMMA OneTransaction ==
    ASSUME SafeInv, NEW c \in Clients, pc[c] = "send"
    PROVE  /\ held[c] # pin[c] => tx[held[c]] = "I"
           /\ pin[c] # None /\ pin[c] # held[c] => tx[pin[c]] = "I"
<1>0. /\ Handlers /\ BorrowedFresh /\ TxKnown
      /\ held[c] # None
  BY DEF SafeInv, CleanInv, ExclusiveInv, TypeInv, HeldWhileServing
<1>1. pin[c] # None /\ pin[c] # held[c] => ~inTx[c]
  BY <1>0 DEF Handlers
<1> QED BY <1>0, <1>1 DEF BorrowedFresh, Fresh, TxKnown, Reading

\* QueueClean for every instance without the faults named in the hypotheses: what
\* Return and reconcileConn put into a Queue, from the reply they have read and the
\* count in Client.namedStmts, carries nothing of its last client.
THEOREM IdleConnectionsClean ==
    ASSUME "named" \notin Requests \/ Faults \cap {"die", "timeout", "oversize"} = {},
           Faults \cap {"timeout", "oversize"} = {},
           "closeSkipped" \notin Faults \/ "named" \notin Requests
    PROVE  Spec => []QueueClean
<1>1. CleanProviso
  BY DEF CleanProviso, NoFaults
<1>2. SafeInv => QueueClean
  <2> SUFFICES ASSUME SafeInv, NEW p \in Pools, NEW i \in DOMAIN queue[p]
               PROVE  /\ tx[queue[p][i]] = "I" /\ named[queue[p][i]] = 0
                      /\ wire[queue[p][i]] = <<>>
    BY DEF QueueClean
  <2>1. queue[p][i] \in Range(queue[p])
    BY DEF Range
  <2> QED BY <2>1, IdleClean DEF Fresh
<1> QED BY <1>1, <1>2, SafeInvariant, PTL

\* OwnReply, under the same hypotheses: the handlers read a reply to its end or give
\* the connection up, so nobody finds the reply to another client's request.
THEOREM RepliesReachTheirClient ==
    ASSUME "named" \notin Requests \/ Faults \cap {"die", "timeout", "oversize"} = {},
           Faults \cap {"timeout", "oversize"} = {},
           "closeSkipped" \notin Faults \/ "named" \notin Requests
    PROVE  Spec => []OwnReply
<1>1. CleanProviso
  BY DEF CleanProviso, NoFaults
<1>2. SafeInv => OwnReply
  <2> SUFFICES ASSUME SafeInv, NEW c \in Clients, pc[c] = "read", wire[held[c]] # <<>>
               PROVE  Head(wire[held[c]]).to = c
    BY DEF OwnReply
  <2>1. /\ TypeInv /\ OwnInv /\ Silent /\ CleanInv
        /\ held[c] \in Backends
    BY DEF SafeInv, ExclusiveInv, TypeInv, HeldWhileServing, TypeOK, SessionTypes
  <2> QED BY <2>1, HeldKnown
<1> QED BY <1>1, <1>2, SafeInvariant, PTL

\* TxRouting, under the same hypotheses: reconcileConn pins the backend of a client
\* in a transaction and executeQuery, executeExtendedPipeline and handleNotify look
\* the pin up, so a transaction gets the requests of its own client only, and that
\* client sends nothing elsewhere while it lasts.
THEOREM TransactionsStayPut ==
    ASSUME "named" \notin Requests \/ Faults \cap {"die", "timeout", "oversize"} = {},
           Faults \cap {"timeout", "oversize"} = {},
           "closeSkipped" \notin Faults \/ "named" \notin Requests
    PROVE  Spec => TxRouting
<1>1. CleanProviso
  BY DEF CleanProviso, NoFaults
<1>2. SafeInv =>
        \A c \in Clients :
          pc[c] = "send" /\ pc'[c] = "read" /\ conn[held[c]] = "open" =>
            /\ tx[held[c]] \in {"T", "E"} => pin[c] = held[c]
            /\ pin[c] # None /\ pin[c] # held[c] => tx[pin[c]] = "I"
  BY OneTransaction
<1> QED BY <1>1, <1>2, SafeInvariant, PTL DEF TxRouting

-----------------------------------------------------------------------------
(* Pooling implements Lease. *)

\* A live connection is in the All of some Pool, so openOne never takes the
\* identity of one.
LivePooled == \A b \in Backends : conn[b] = "open" => \E p \in Pools : b \in all[p]

\* The clients whose replies a wire carries.
LEMMA NoSenders == [i \in DOMAIN << >> |-> (<< >>)[i].to] = << >>
OBVIOUS

LEMMA OneSender ==
    ASSUME NEW c, NEW status
    PROVE  /\ [i \in DOMAIN <<[to |-> c, tx |-> status]>> |->
                 (<<[to |-> c, tx |-> status]>>)[i].to] = <<c>>
           /\ Append(<< >>, c) = <<c>> /\ Tail(<<c>>) = << >> /\ Head(<<c>>) = c
           /\ <<c>> # << >>
OBVIOUS

\* The lease a state stands for, backend by backend.
BarView ==
    /\ \A b \in Backends : ~InUse(b) =>
          statusBar[b] = "none" /\ leaseBar[b] = None /\ leftBar[b] = 0 /\ repliesBar[b] = << >>
    /\ \A b \in Backends : InUse(b) => statusBar[b] = tx[b] /\ leftBar[b] = named[b]
    /\ \A b \in Backends : InUse(b) /\ wire[b] = << >> => repliesBar[b] = << >>
    /\ \A b \in Backends, c \in Clients, s \in Statuses :
          InUse(b) /\ wire[b] = <<[to |-> c, tx |-> s]>> => repliesBar[b] = <<c>>
    /\ \A b \in Backends, c \in Clients : InUse(b) /\ b \in Owned(c) => leaseBar[b] = c
    /\ \A b \in Backends : (\A c \in Clients : b \notin Owned(c)) => leaseBar[b] = None
    /\ /\ statusBar = [b \in Backends |-> statusBar[b]]
       /\ leaseBar = [b \in Backends |-> leaseBar[b]]
       /\ leftBar = [b \in Backends |-> leftBar[b]]
       /\ repliesBar = [b \in Backends |-> repliesBar[b]]

LEMMA ExclusiveBar == Exclusive => BarView
<1> SUFFICES ASSUME Exclusive PROVE BarView
  OBVIOUS
<1>1. \A b \in Backends : ~InUse(b) =>
         statusBar[b] = "none" /\ leaseBar[b] = None /\ leftBar[b] = 0 /\ repliesBar[b] = << >>
  BY DEF statusBar, leaseBar, leftBar, repliesBar
<1>2. \A b \in Backends : InUse(b) => statusBar[b] = tx[b] /\ leftBar[b] = named[b]
  BY DEF statusBar, leftBar
<1>3. \A b \in Backends : InUse(b) /\ wire[b] = << >> => repliesBar[b] = << >>
  BY NoSenders DEF repliesBar
<1>4. \A b \in Backends, c \in Clients, s \in Statuses :
         InUse(b) /\ wire[b] = <<[to |-> c, tx |-> s]>> => repliesBar[b] = <<c>>
  BY OneSender DEF repliesBar
<1>5. \A b \in Backends, c \in Clients : InUse(b) /\ b \in Owned(c) => leaseBar[b] = c
  <2> SUFFICES ASSUME NEW b \in Backends, NEW c \in Clients, InUse(b), b \in Owned(c)
               PROVE  leaseBar[b] = c
    OBVIOUS
  <2>1. Holders(b) = {c}
    BY DEF Exclusive, OwnersApart, Holders
  <2> QED BY <2>1 DEF leaseBar
<1>6. \A b \in Backends : (\A c \in Clients : b \notin Owned(c)) => leaseBar[b] = None
  <2> SUFFICES ASSUME NEW b \in Backends, \A c \in Clients : b \notin Owned(c)
               PROVE  leaseBar[b] = None
    OBVIOUS
  <2>1. Holders(b) = {}
    BY DEF Holders
  <2> QED BY <2>1 DEF leaseBar
<1>7. /\ statusBar = [b \in Backends |-> statusBar[b]]
      /\ leaseBar = [b \in Backends |-> leaseBar[b]]
      /\ leftBar = [b \in Backends |-> leftBar[b]]
      /\ repliesBar = [b \in Backends |-> repliesBar[b]]
  BY DEF statusBar, leaseBar, leftBar, repliesBar
<1> QED BY <1>1, <1>2, <1>3, <1>4, <1>5, <1>6, <1>7 DEF BarView

\* Nothing that matters to the lease of x changes.
Untouched(x) ==
    /\ InUse(x)' <=> InUse(x)
    /\ InUse(x) => /\ tx'[x] = tx[x] /\ named'[x] = named[x] /\ wire'[x] = wire[x]
                   /\ \A d \in Clients : x \in Owned(d)' <=> x \in Owned(d)

LEMMA UntouchedBar ==
    ASSUME BarView, BarView', NEW x \in Backends, Untouched(x)
    PROVE  /\ statusBar'[x] = statusBar[x] /\ leaseBar'[x] = leaseBar[x]
           /\ leftBar'[x] = leftBar[x] /\ repliesBar'[x] = repliesBar[x]
<1>1. ASSUME NEW d \in Clients, InUse(x), x \in Owned(d)
      PROVE  leaseBar'[x] = leaseBar[x]
  BY <1>1 DEF Untouched, BarView
<1>2. leaseBar'[x] = leaseBar[x]
  BY <1>1 DEF Untouched, BarView
<1>3. statusBar'[x] = statusBar[x] /\ leftBar'[x] = leftBar[x]
  BY DEF Untouched, statusBar, leftBar
<1>4. repliesBar'[x] = repliesBar[x]
  BY DEF Untouched, repliesBar
<1> QED BY <1>2, <1>3, <1>4

LEMMA StutterBar ==
    ASSUME BarView, BarView', \A x \in Backends : Untouched(x)
    PROVE  UNCHANGED <<statusBar, leaseBar, leftBar, repliesBar>>
<1>1. \A x \in Backends : /\ statusBar'[x] = statusBar[x] /\ leaseBar'[x] = leaseBar[x]
                          /\ leftBar'[x] = leftBar[x] /\ repliesBar'[x] = repliesBar[x]
  BY UntouchedBar
<1> QED BY <1>1 DEF BarView

LEMMA OthersBar ==
    ASSUME BarView, BarView', NEW b \in Backends, \A x \in Backends \ {b} : Untouched(x)
    PROVE  /\ statusBar' = [statusBar EXCEPT ![b] = statusBar'[b]]
           /\ leaseBar' = [leaseBar EXCEPT ![b] = leaseBar'[b]]
           /\ leftBar' = [leftBar EXCEPT ![b] = leftBar'[b]]
           /\ repliesBar' = [repliesBar EXCEPT ![b] = repliesBar'[b]]
           /\ statusBar'[b] = statusBar[b] => UNCHANGED statusBar
           /\ leaseBar'[b] = leaseBar[b] => UNCHANGED leaseBar
           /\ leftBar'[b] = leftBar[b] => UNCHANGED leftBar
           /\ repliesBar'[b] = repliesBar[b] => UNCHANGED repliesBar
<1>1. \A x \in Backends \ {b} : /\ statusBar'[x] = statusBar[x] /\ leaseBar'[x] = leaseBar[x]
                                /\ leftBar'[x] = leftBar[x] /\ repliesBar'[x] = repliesBar[x]
  BY UntouchedBar
<1>2. statusBar' = [statusBar EXCEPT ![b] = statusBar'[b]]
      /\ (statusBar'[b] = statusBar[b] => UNCHANGED statusBar)
  BY <1>1 DEF BarView
<1>3. leaseBar' = [leaseBar EXCEPT ![b] = leaseBar'[b]]
      /\ (leaseBar'[b] = leaseBar[b] => UNCHANGED leaseBar)
  BY <1>1 DEF BarView
<1>4. leftBar' = [leftBar EXCEPT ![b] = leftBar'[b]]
      /\ (leftBar'[b] = leftBar[b] => UNCHANGED leftBar)
  BY <1>1 DEF BarView
<1>5. repliesBar' = [repliesBar EXCEPT ![b] = repliesBar'[b]]
      /\ (repliesBar'[b] = repliesBar[b] => UNCHANGED repliesBar)
  BY <1>1 DEF BarView
<1> QED BY <1>2, <1>3, <1>4, <1>5

\* A session ends: it is closed, it breaks, or it is given up.
LEMMA EndBar ==
    ASSUME BarView, BarView', NEW b \in Backends, \A x \in Backends \ {b} : Untouched(x),
           ~InUse(b)'
    PROVE  Lease!Next
<1>1. /\ statusBar'[b] = "none" /\ leaseBar'[b] = None /\ leftBar'[b] = 0
      /\ repliesBar'[b] = << >>
  BY DEF BarView
<1>2. Lease!End(b)
  BY <1>1, OthersBar DEF Lease!End
<1> QED BY <1>2 DEF Lease!Next

LEMMA LiveStep ==
    ASSUME TypeInv, BookInv, LivePooled, Next
    PROVE  LivePooled'
<1> USE DEF serverVars
<1>t. /\ conn \in [Backends -> {"open", "dead", "closed"}]
      /\ all \in [Pools -> SUBSET Backends]
  BY DEF TypeInv, TypeOK, ServerTypes, BookTypes
<1>1. ASSUME NEW x, NEW state, SetSession(x, state), state # "open", UNCHANGED all
      PROVE  LivePooled'
  BY <1>1, <1>t DEF LivePooled, SetSession
<1>2. ASSUME NEW p, NEW x, CloseAndForget(p, x)
      PROVE  LivePooled'
  <2>1. \A b \in Backends : conn'[b] = "open" => b # x /\ conn[b] = "open"
    BY <1>2, <1>t DEF CloseAndForget, SetSession
  <2>2. \A q \in Pools : all[q] \ {x} \subseteq all'[q]
    BY <1>2, <1>t DEF CloseAndForget
  <2> QED BY <2>1, <2>2 DEF LivePooled
<1>3. ASSUME UNCHANGED <<conn, all>>
      PROVE  LivePooled'
  BY <1>3 DEF LivePooled
<1>4. ASSUME NEW c \in Clients, ClientStep(c) \/ FailListen(c)
      PROVE  LivePooled'
  <2>0. UNCHANGED all
    BY <1>4, ClientPlaces
  <2>1. CASE Accept(c) \/ ClientDrops(c) \/ BorrowWait(c) \/ SendRequest(c) \/ SendUnnoticed(c)
             \/ HandleClientMessage(c) \/ Disconnect(c) \/ BorrowTimeout(c) \/ BorrowConn(c)
    BY <1>3, <2>0, <2>1 DEF Accept, ClientDrops, BorrowWait, SendRequest, Serve, SendUnnoticed,
       HandleClientMessage, Disconnect, BorrowTimeout, BorrowConn
  <2>2. CASE \/ SendFails(c) \/ DeployFails(c) \/ ForwardFails(c) \/ ReadErrorSimple(c)
             \/ ReadReply(c) \/ ReadErrorExtended(c)
    BY <1>3, <2>0, <2>2 DEF SendFails, DeployFails, ForwardFails, ReadErrorSimple, ReadReply,
       ReadErrorExtended
  <2>3. CASE Cleanup(c)
    BY <1>1, <1>3, <2>0, <2>3 DEF Cleanup
  <2>4. CASE FailListen(c)
    BY <1>1, <1>3, <2>0, <2>4 DEF FailListen
  <2> QED BY <1>4, <2>1, <2>2, <2>3, <2>4 DEF ClientStep, ServeStep
<1>5. ASSUME NEW b \in Backends, ConnectionDies(b)
      PROVE  LivePooled'
  BY <1>1, <1>5 DEF ConnectionDies
<1>6. CASE TargetStep
  <2>1. CASE HandleClose \/ (\E p, q \in Pools : GrowRecycle(p, q)) \/ HealthReap
    BY <1>2, <2>1 DEF HandleClose, GrowRecycle, HealthReap
  <2>2. ASSUME NEW p \in Pools, Shrink(p)
        PROVE  LivePooled'
    BY <1>2, <1>3, <2>2 DEF Shrink
  <2>3. CASE OpenOne
    <3>1. CASE Len(queue[curPool]) < MaxConnections
      <4>1. PICK x \in Backends : SetSession(x, "open")
                                  /\ all' = [all EXCEPT ![curPool] = @ \cup {x}]
        BY <2>3, <3>1 DEF OpenOne
      <4>2. curPool \in Pools
        BY <2>3 DEF OpenOne, BookInv, Budget
      <4>3. \A b \in Backends \ {x} : conn'[b] = conn[b]
        BY <1>t, <4>1 DEF SetSession
      <4>4. x \in all'[curPool] /\ \A q \in Pools : all[q] \subseteq all'[q]
        BY <1>t, <4>1, <4>2
      <4> QED BY <4>2, <4>3, <4>4 DEF LivePooled
    <3>2. CASE ~(Len(queue[curPool]) < MaxConnections)
      BY <1>3, <2>3, <3>2 DEF OpenOne
    <3> QED BY <3>1, <3>2
  <2>4. CASE (\E p \in Pools : GrowFresh(p) \/ HealthTake(p)) \/ GrowthScan \/ UpdateServerStats
             \/ GrowEnd \/ OpenFails \/ ShrinkEnd \/ HealthEnd \/ HealthStart \/ HealthKeep
    BY <1>3, <2>4 DEF GrowFresh, GrowthScan, UpdateServerStats, GrowEnd, OpenFails, ShrinkEnd,
       HealthEnd, HealthStart, HealthTake, HealthKeep
  <2> QED BY <1>6, <2>1, <2>2, <2>3, <2>4 DEF TargetStep, CycleStep
<1> QED BY <1>4, <1>5, <1>6 DEF Next, EnvironmentStep

\* The target goroutine's steps begin and end sessions that nobody has leased.
LEMMA LeaseTarget ==
    ASSUME SafeInv, LivePooled, BarView, BarView',
           TargetStep \/ \E b \in Backends : ConnectionDies(b)
    PROVE  Lease!Next \/ UNCHANGED <<statusBar, leaseBar, leftBar, repliesBar>>
<1> USE DEF clientVars, serverVars, channelVars, targetVars
<1>0. TypeInv /\ Exclusive /\ BookInv /\ ChannelTypes /\ ChannelsApart
  BY DEF SafeInv, ExclusiveInv, OwnInv, Exclusive, TypeInv, TypeOK
<1>1. ASSUME NEW x \in Backends, NEW state, SetSession(x, state), state # "open",
             UNCHANGED <<held, pin, closeCh>>
      PROVE  Lease!Next
  <2>1. /\ conn'[x] = state
        /\ \A b \in Backends \ {x} : /\ conn'[b] = conn[b] /\ tx'[b] = tx[b]
                                     /\ named'[b] = named[b] /\ wire'[b] = wire[b]
    BY <1>0, <1>1, SetSessionFresh
  <2>2. \A b \in Backends \ {x} : Untouched(b)
    BY <1>1, <2>1 DEF Untouched, InUse, Owned
  <2>3. ~InUse(x)'
    BY <1>1, <2>1 DEF InUse
  <2> QED BY <2>2, <2>3, EndBar
<1>2. ASSUME UNCHANGED <<held, pin, closeCh, conn, tx, named, wire>>
      PROVE  UNCHANGED <<statusBar, leaseBar, leftBar, repliesBar>>
  <2>1. \A b \in Backends : Untouched(b)
    BY <1>2 DEF Untouched, InUse, Owned
  <2> QED BY <2>1, StutterBar
<1>3. CASE HandleClose
  <2>1. PICK x : x = Head(closeCh)
    OBVIOUS
  <2>2. /\ x \in Backends /\ \A b \in Backends \ {x} : b \in Range(closeCh') <=> b \in Range(closeCh)
    BY <1>0, <1>3, <2>1, TailKeeps, RangeTail DEF HandleClose, ChannelTypes
  <2>3. SetSession(x, "closed") /\ UNCHANGED <<held, pin>>
    BY <1>3, <2>1 DEF HandleClose, CloseAndForget
  <2>4. /\ conn'[x] = "closed"
        /\ \A b \in Backends \ {x} : /\ conn'[b] = conn[b] /\ tx'[b] = tx[b]
                                     /\ named'[b] = named[b] /\ wire'[b] = wire[b]
    BY <1>0, <2>2, <2>3, SetSessionFresh
  <2>5. \A b \in Backends \ {x} : Untouched(b)
    BY <2>2, <2>3, <2>4 DEF Untouched, InUse, Owned
  <2>6. ~InUse(x)'
    BY <2>4 DEF InUse
  <2> QED BY <2>2, <2>5, <2>6, EndBar
<1>4. ASSUME NEW p \in Pools, NEW q \in Pools, GrowRecycle(p, q)
      PROVE  Lease!Next
  <2>1. Head(queue[q]) \in Backends
    BY <1>0, <1>4, QueueTake DEF GrowRecycle
  <2> QED BY <1>1, <1>4, <2>1 DEF GrowRecycle, CloseAndForget
<1>5. ASSUME NEW p \in Pools, Shrink(p)
      PROVE  Lease!Next \/ UNCHANGED <<statusBar, leaseBar, leftBar, repliesBar>>
  <2>1. CASE queue[p] # <<>>
    <3>1. Head(queue[p]) \in Backends
      BY <1>0, <1>5, <2>1, QueueTake DEF Shrink
    <3> QED BY <1>1, <1>5, <2>1, <3>1 DEF Shrink, CloseAndForget
  <2>2. CASE queue[p] = <<>>
    BY <1>2, <1>5, <2>2 DEF Shrink
  <2> QED BY <2>1, <2>2
<1>6. CASE HealthReap
  <2>1. inHand \in Backends
    BY <1>0, <1>6 DEF HealthReap, TypeInv, TypeOK, TargetTypes
  <2> QED BY <1>1, <1>6, <2>1 DEF HealthReap, CloseAndForget
<1>7. CASE OpenOne
  <2>1. CASE Len(queue[curPool]) < MaxConnections
    <3>1. PICK x \in Backends : Unreferenced(x) /\ SetSession(x, "open")
      BY <1>7, <2>1 DEF OpenOne
    <3>2. UNCHANGED <<held, pin, closeCh>>
      BY <1>7 DEF OpenOne
    <3>3. /\ Fresh(x)' /\ wire'[x] = <<>> /\ conn'[x] = "open"
          /\ \A b \in Backends \ {x} : /\ conn'[b] = conn[b] /\ tx'[b] = tx[b]
                                       /\ named'[b] = named[b] /\ wire'[b] = wire[b]
      BY <1>0, <3>1, SetSessionFresh
    <3>4. \A b \in Backends \ {x} : Untouched(b)
      BY <3>2, <3>3 DEF Untouched, InUse, Owned
    <3>5. /\ ~InUse(x) /\ InUse(x)'
          /\ \A c \in Clients : x \notin Owned(c) /\ x \notin Owned(c)'
      BY <3>1, <3>2, <3>3 DEF Unreferenced, LivePooled, InUse, Owned
    <3>6. /\ statusBar[x] = "none" /\ leaseBar[x] = None /\ leftBar[x] = 0 /\ repliesBar[x] = <<>>
          /\ statusBar'[x] = "I" /\ leaseBar'[x] = None /\ leftBar'[x] = 0 /\ repliesBar'[x] = <<>>
      BY <3>3, <3>5 DEF BarView, Fresh
    <3>7. Lease!Open(x)
      BY <3>4, <3>6, OthersBar DEF Lease!Open
    <3> QED BY <3>7 DEF Lease!Next
  <2>2. CASE ~(Len(queue[curPool]) < MaxConnections)
    BY <1>2, <1>7, <2>2 DEF OpenOne
  <2> QED BY <2>1, <2>2
<1>8. CASE (\E p \in Pools : GrowFresh(p) \/ HealthTake(p)) \/ GrowthScan \/ UpdateServerStats
           \/ GrowEnd \/ OpenFails \/ ShrinkEnd \/ HealthEnd \/ HealthStart \/ HealthKeep
  BY <1>2, <1>8 DEF GrowFresh, GrowthScan, UpdateServerStats, GrowEnd, OpenFails, ShrinkEnd,
     HealthEnd, HealthStart, HealthTake, HealthKeep
<1>9. ASSUME NEW b \in Backends, ConnectionDies(b)
      PROVE  Lease!Next
  BY <1>1, <1>9 DEF ConnectionDies
<1> QED BY <1>3, <1>4, <1>5, <1>6, <1>7, <1>8, <1>9 DEF TargetStep, CycleStep

\* A request ends: the session is given up, or its holder has read its own reply
\* and keeps the session or leaves nothing in it.
LEMMA LeaseEnding ==
    ASSUME SafeInv, BarView, BarView', Faults \cap {"timeout", "oversize"} = {}, NEW c \in Clients,
           \/ SendFails(c) \/ DeployFails(c) \/ ForwardFails(c) \/ ReadErrorSimple(c)
           \/ ReadReply(c) \/ ReadErrorExtended(c)
    PROVE  Lease!Next \/ UNCHANGED <<statusBar, leaseBar, leftBar, repliesBar>>
<1> USE DEF serverVars
<1>0. /\ TypeInv /\ OwnInv /\ Exclusive /\ Silent /\ CleanInv /\ Stale /\ Handlers
      /\ EndsRequest(c)
  <2>1. TypeInv /\ OwnInv /\ Exclusive /\ Silent /\ CleanInv /\ Stale /\ Handlers
    BY DEF SafeInv, ExclusiveInv, OwnInv, CleanInv
  <2> QED BY <2>1, EndingSteps
<1>1. PICK b \in Backends : b = held[c]
  BY <1>0 DEF EndsRequest, TypeInv, TypeOK, SessionTypes
<1>2. /\ \A d \in Clients \ {c} : pin'[d] = pin[d]
      /\ pin'[c] \in {pin[c], None, b}
      /\ Range(closeCh) \subseteq Range(closeCh')
      /\ Range(closeCh') \subseteq Range(closeCh) \cup {b}
      /\ \A d \in Clients : Owned(d)' \subseteq Owned(d)
      /\ b \in Owned(c) /\ b \notin Range(closeCh)
  <2>1. Passed(b) /\ b \in Owned(c) /\ \A d \in Clients : Owned(d)' \subseteq Owned(d)
    BY <1>0, <1>1, EndPassed
  <2>2. b \notin Range(closeCh)
    BY <1>0, <2>1 DEF Exclusive, OwnersApart
  <2> QED BY <1>0, <1>1, <2>1, <2>2, EndPins DEF Passed
<1>3. /\ held'[c] = None /\ \A d \in Clients \ {c} : held'[d] = held[d]
      /\ None \notin Backends
  BY <1>0, PoolingAssumption DEF EndsRequest, Done, TypeInv, TypeOK, SessionTypes
<1>4. \A x \in Backends \ {b}, d \in Clients : x \in Owned(d)' <=> x \in Owned(d)
  <2> SUFFICES ASSUME NEW x \in Backends, x # b, NEW d \in Clients, x \in Owned(d)
               PROVE  x \in Owned(d)'
    BY <1>2
  <2>1. CASE d # c
    BY <1>2, <1>3, <2>1 DEF Owned
  <2>2. CASE d = c
    <3>1. x = pin[c] /\ x # None
      BY <1>1, <2>2 DEF Owned
    <3>2. job[c].path = "notify"
      BY <1>0, <1>1, <1>3, <3>1 DEF Handlers
    <3>3. pin'[c] = pin[c]
      <4>1. CASE Release(b)
        <5>1. bclient[b] = c => pin[c] \in {b, None}
          BY <1>0 DEF Stale
        <5>2. bclient[b] # c
          BY <3>1, <5>1
        <5> QED BY <4>1, <5>2 DEF Release
      <4>2. CASE UNCHANGED pin
        BY <4>2
      <4> QED BY <1>0, <1>1, <3>2, <4>1, <4>2 DEF EndsRequest
    <3> QED BY <2>2, <3>1, <3>3 DEF Owned
  <2> QED BY <2>1, <2>2
<1>5. /\ UNCHANGED <<conn, tx, named>>
      /\ \A x \in Backends \ {b} : wire'[x] = wire[x]
  <2>1. wire \in [Backends -> Seq(Replies)]
    BY <1>0 DEF TypeInv, TypeOK, ServerTypes
  <2> QED BY <1>1, <2>1 DEF SendFails, DeployFails, ForwardFails, ReadErrorSimple, ReadReply,
             ReadErrorExtended
<1>6. \A x \in Backends \ {b} : Untouched(x)
  BY <1>2, <1>4, <1>5 DEF Untouched, InUse
<1>7. CASE b \in Range(closeCh')
  <2>1. ~InUse(b)'
    BY <1>7 DEF InUse
  <2> QED BY <1>6, <2>1, EndBar
<1>8. CASE b \notin Range(closeCh') /\ conn[b] # "open"
  <2>1. Untouched(b)
    BY <1>5, <1>8 DEF Untouched, InUse
  <2> QED BY <1>6, <2>1, StutterBar
<1>9. CASE b \notin Range(closeCh') /\ conn[b] = "open"
  <2>1. ~Release(b)
    <3> SUFFICES ASSUME Release(b) PROVE FALSE
      OBVIOUS
    <3>1. Range(closeCh') = Range(closeCh) \cup {b}
      BY <1>0, RangeAppend DEF Release, TypeInv, TypeOK, ChannelTypes
    <3> QED BY <1>9, <3>1
  <2>2. ReadReply(c)
    BY <1>1, <1>9, <2>1 DEF SendFails, DeployFails, ForwardFails, ReadErrorSimple,
       ReadErrorExtended, ReadFails
  <2>3. /\ pc[c] = "read" /\ wire[b] # <<>> /\ wire' = [wire EXCEPT ![b] = Tail(@)]
        /\ CASE job[c].path = "notify" -> Return(b) /\ UNCHANGED <<pin, inTx>>
             [] job[c].path = "flush" -> AfterFlush(c, b)
             [] OTHER -> Reconcile(c, b, Head(wire[b]).tx)
    BY <1>1, <2>2 DEF ReadReply
  <2>k. /\ job[c].path # "notify" => pin[c] \in {None, b}
        /\ job[c].path = "notify" \/ ~job[c].pinned => pin[c] # b
        /\ job[c].path \notin {"simple", "sync"} /\ pin[c] # b => Fresh(b)
        /\ Tail(wire[b]) = <<>> /\ Head(wire[b]).tx = tx[b]
        /\ named[b] <= namedStmts[c]
    BY <1>0, <1>1, <2>3, HeldKnown
  <2>t. /\ tx[b] \in Statuses /\ named[b] \in Nat /\ namedStmts[c] \in Nat
        /\ wire \in [Backends -> Seq(Replies)] /\ pin \in [Clients -> Backends \cup {None}]
    BY <1>0 DEF TypeInv, TypeOK, ServerTypes, SessionTypes, PinTypes
  <2>4. wire[b] = <<[to |-> c, tx |-> tx[b]]>> /\ wire'[b] = <<>>
    <3>1. wire[b] = <<[to |-> c, tx |-> tx[b]]>>
      BY <1>0, <1>1, <1>9, <2>3 DEF CleanInv, Wires
    <3> QED BY <2>3, <2>k, <2>t, <3>1
  <2>5. b \in Owned(c)' \/ Fresh(b)
    <3>1. CASE job[c].path = "notify"
      BY <2>k, <3>1
    <3>2. CASE job[c].path = "flush"
      <4>1. UNCHANGED pin \/ Pin(c, b)
        BY <2>3, <3>2 DEF AfterFlush
      <4>2. pin'[c] = b \/ pin[c] # b
        BY <2>t, <4>1 DEF Pin
      <4> QED BY <1>3, <2>k, <3>2, <4>2 DEF Owned
    <3>3. CASE job[c].path \notin {"notify", "flush"}
      <4>1. Reconcile(c, b, tx[b])
        BY <2>3, <2>k, <3>3
      <4>2. CASE Pin(c, b)
        <5>1. pin'[c] = b
          BY <2>k, <2>t, <3>3, <4>2 DEF Pin
        <5> QED BY <1>3, <5>1 DEF Owned
      <4>3. CASE tx[b] = "I" /\ namedStmts[c] = 0
        BY <2>k, <2>t, <4>3 DEF Fresh
      <4> QED BY <2>t, <4>1, <4>2, <4>3 DEF Reconcile, Statuses
    <3> QED BY <3>1, <3>2, <3>3
  <2>6. InUse(b) /\ InUse(b)'
    BY <1>2, <1>5, <1>9 DEF InUse
  <2>7. /\ statusBar[b] = tx[b] /\ statusBar'[b] = tx[b]
        /\ leftBar[b] = named[b] /\ leftBar'[b] = named[b]
        /\ repliesBar[b] = <<c>> /\ repliesBar'[b] = <<>>
        /\ leaseBar[b] = c
    BY <1>2, <1>5, <2>4, <2>6, <2>t DEF BarView
  <2>8. leaseBar'[b] = c \/ (leaseBar'[b] = None /\ Fresh(b))
    <3>1. CASE b \in Owned(c)'
      BY <2>6, <3>1 DEF BarView
    <3>2. CASE b \notin Owned(c)'
      <4>1. \A d \in Clients : b \notin Owned(d)'
        BY <1>0, <1>2, <3>2 DEF Exclusive, OwnersApart
      <4> QED BY <2>5, <3>2, <4>1 DEF BarView
    <3> QED BY <3>1, <3>2
  <2>9. Lease!Answer(b, c)
    <3>1. Tail(repliesBar[b]) = <<>> /\ Head(repliesBar[b]) = c /\ repliesBar[b] # <<>>
      BY <2>7, OneSender
    <3>2. /\ repliesBar' = [repliesBar EXCEPT ![b] = Tail(repliesBar[b])]
          /\ UNCHANGED <<statusBar, leftBar>>
          /\ leaseBar' = [leaseBar EXCEPT ![b] = leaseBar'[b]]
          /\ leaseBar'[b] = leaseBar[b] => UNCHANGED leaseBar
      BY <1>6, <2>7, <3>1, OthersBar
    <3>3. \/ UNCHANGED leaseBar
          \/ /\ statusBar[b] = "I" /\ leftBar[b] = 0
             /\ leaseBar' = [leaseBar EXCEPT ![b] = None]
      BY <2>7, <2>8, <3>2 DEF Fresh
    <3> QED BY <2>7, <3>1, <3>2, <3>3 DEF Lease!Answer
  <2> QED BY <2>9 DEF Lease!Next
<1> QED BY <1>7, <1>8, <1>9

\* borrowConn lends a session in which nothing of a client is left.
LEMMA LeaseBorrow ==
    ASSUME SafeInv, BarView, BarView', NEW c \in Clients, BorrowConn(c)
    PROVE  Lease!Next \/ UNCHANGED <<statusBar, leaseBar, leftBar, repliesBar>>
<1>0. /\ TypeInv /\ OwnInv /\ Exclusive /\ CleanInv /\ Handlers
      /\ PoolOf[c] \in Pools /\ queue[PoolOf[c]] # <<>>
      /\ queue' = [queue EXCEPT ![PoolOf[c]] = Tail(@)]
      /\ UNCHANGED <<conn, tx, named, wire, closeCh>>
      /\ pc[c] \in {"borrow", "wait"} /\ held[c] = None
  BY PoolingAssumption DEF BorrowConn, TakeFromQueue, serverVars, SafeInv, ExclusiveInv,
     OwnInv, CleanInv, TypeInv, HeldWhileServing
<1>1. PICK x : x = Head(queue[PoolOf[c]])
  OBVIOUS
<1>2. /\ x \in Backends /\ Fresh(x) /\ wire[x] = <<>> /\ x # None
      /\ \A d \in Clients : x \notin Owned(d)
      /\ x \notin Range(closeCh)
  BY <1>0, <1>1, HeadAlone, IdleClean, PoolingAssumption
<1>3. /\ \A d \in Clients : held'[d] = IF d = c THEN x ELSE held[d]
      /\ \A d \in Clients \ {c} : pin'[d] = pin[d]
      /\ pin'[c] = pin[c] \/ (pin'[c] = x /\ RequiresPin(job[c].req))
  BY <1>0, <1>1, <1>2 DEF BorrowConn, TakeFromQueue, TypeInv, TypeOK, SessionTypes, PinTypes
<1>4. RequiresPin(job[c].req) => pin[c] = None
  BY <1>0 DEF OwnInv, BorrowedApart, Handlers
<1>5. /\ \A d \in Clients \ {c} : Owned(d)' = Owned(d)
      /\ Owned(c)' = Owned(c) \cup {x}
  BY <1>0, <1>2, <1>3, <1>4 DEF Owned
<1>6. \A y \in Backends \ {x} : Untouched(y)
  BY <1>0, <1>5 DEF Untouched, InUse
<1>7. CASE conn[x] # "open"
  <2>1. Untouched(x)
    BY <1>0, <1>7 DEF Untouched, InUse
  <2> QED BY <1>6, <2>1, StutterBar
<1>8. CASE conn[x] = "open"
  <2>1. InUse(x) /\ InUse(x)' /\ x \in Owned(c)'
    BY <1>0, <1>2, <1>5, <1>8 DEF InUse
  <2>2. /\ statusBar[x] = "I" /\ leftBar[x] = 0 /\ repliesBar[x] = <<>> /\ leaseBar[x] = None
        /\ statusBar'[x] = "I" /\ leftBar'[x] = 0 /\ repliesBar'[x] = <<>> /\ leaseBar'[x] = c
    BY <1>0, <1>2, <2>1 DEF BarView, Fresh
  <2>3. Lease!Lend(x, c)
    BY <1>2, <1>6, <2>2, OthersBar DEF Lease!Lend, Lease!Clean
  <2> QED BY <1>2, <2>3 DEF Lease!Next
<1> QED BY <1>7, <1>8

\* A request runs on a session its client has leased.
LEMMA LeaseSend ==
    ASSUME SafeInv, BarView, BarView', NEW c \in Clients, SendRequest(c)
    PROVE  Lease!Next
<1>0. /\ TypeInv /\ Exclusive /\ CleanInv /\ Wires
      /\ pc[c] = "send" /\ conn[held[c]] = "open" /\ held[c] \in Backends
      /\ UNCHANGED <<held, pin, conn, closeCh>>
  BY DEF SendRequest, Serve, channelVars, SafeInv, ExclusiveInv, OwnInv, CleanInv, TypeInv,
     HeldWhileServing, TypeOK, SessionTypes
<1>1. PICK b \in Backends : b = held[c]
  BY <1>0
<1>2. /\ Owned(c) \subseteq Backends /\ tx[b] \in Statuses /\ named[b] \in Nat
      /\ tx \in [Backends -> Statuses] /\ named \in [Backends -> Nat]
      /\ wire \in [Backends -> Seq(Replies)] /\ b # None
  BY <1>0, PoolingAssumption DEF TypeInv, TypeOK, ServerTypes, SessionTypes, PinTypes, Owned
<1>3. PICK status \in Outcomes(job[c].path, tx[b]) :
        /\ tx' = [tx EXCEPT ![b] = status]
        /\ wire' = [wire EXCEPT ![b] = Append(@, [to |-> c, tx |-> status])]
  BY <1>1 DEF SendRequest, Serve
<1>4. status \in Statuses
  BY <1>2, <1>3 DEF Outcomes, Statuses
<1>5. /\ b \in Owned(c) /\ b \notin Range(closeCh)
      /\ \A d \in Clients \ {c} : b \notin Owned(d) /\ held[d] # b
  BY <1>0, <1>1, <1>2 DEF Owned, Exclusive, OwnersApart
<1>6. wire[b] = <<>>
  <2>1. \A d \in Clients : ~Reading(d, b)
    BY <1>0, <1>5 DEF Reading
  <2> QED BY <1>0, <1>5, <2>1 DEF Wires
<1>7. /\ \A x \in Backends \ {b} : tx'[x] = tx[x] /\ wire'[x] = wire[x] /\ named'[x] = named[x]
      /\ tx'[b] = status /\ wire'[b] = <<[to |-> c, tx |-> status]>>
      /\ named'[b] \in {0, named[b], named[b] + 1, named[b] - 1}
  <2>1. wire'[b] = <<[to |-> c, tx |-> status]>>
    BY <1>2, <1>3, <1>6
  <2>2. /\ \A x \in Backends \ {b} : named'[x] = named[x]
        /\ named'[b] \in {0, named[b], named[b] + 1, named[b] - 1}
    <3>1. \/ \E n \in {0, 1} : named' = [named EXCEPT ![b] = @ + n]
          \/ named' = [named EXCEPT ![b] = Max2(0, @ - 1)]
          \/ UNCHANGED named
      BY <1>1 DEF SendRequest, Serve
    <3>2. CASE \E n \in {0, 1} : named' = [named EXCEPT ![b] = @ + n]
      BY <1>2, <3>2
    <3>3. CASE named' = [named EXCEPT ![b] = Max2(0, @ - 1)]
      <4>1. Max2(0, named[b] - 1) \in {0, named[b] - 1}
        BY DEF Max2
      <4> QED BY <1>2, <3>3, <4>1
    <3> QED BY <3>1, <3>2, <3>3
  <2> QED BY <1>2, <1>3, <2>1, <2>2
<1>8. \A x \in Backends \ {b} : Untouched(x)
  BY <1>0, <1>7 DEF Untouched, InUse, Owned
<1>9. InUse(b) /\ InUse(b)' /\ Owned(c)' = Owned(c)
  BY <1>0, <1>1, <1>5 DEF InUse, Owned
<1>10. /\ leaseBar[b] = c /\ leaseBar'[b] = c
       /\ statusBar[b] = tx[b] /\ statusBar'[b] = status
       /\ leftBar[b] = named[b] /\ leftBar'[b] \in {0, leftBar[b], leftBar[b] + 1, leftBar[b] - 1}
       /\ repliesBar[b] = <<>> /\ repliesBar'[b] = <<c>>
  BY <1>4, <1>5, <1>6, <1>7, <1>9 DEF BarView
<1>11. \A r \in Backends \ {b} : leaseBar[r] = c => statusBar[r] \notin {"T", "E"}
  <2> SUFFICES ASSUME NEW r \in Backends, r # b, leaseBar[r] = c
               PROVE  statusBar[r] \notin {"T", "E"}
    OBVIOUS
  <2>1. InUse(r)
    BY PoolingAssumption DEF BarView
  <2>2. r \in Owned(c)
    BY <2>1, PoolingAssumption DEF BarView
  <2>3. r = pin[c] /\ r # None /\ pin[c] # held[c]
    BY <1>1, <2>2 DEF Owned
  <2>4. tx[r] = "I"
    BY <1>0, <2>3, OneTransaction
  <2> QED BY <2>1, <2>4 DEF BarView
<1>12. Lease!Run(b, c)
  <2>1. /\ statusBar' = [statusBar EXCEPT ![b] = statusBar'[b]]
        /\ leftBar' = [leftBar EXCEPT ![b] = leftBar'[b]]
        /\ repliesBar' = [repliesBar EXCEPT ![b] = repliesBar'[b]]
        /\ UNCHANGED leaseBar
    BY <1>8, <1>10, OthersBar
  <2>2. /\ statusBar[b] # "none" /\ statusBar'[b] # "none"
    BY <1>2, <1>4, <1>10 DEF Statuses
  <2>3. \A r \in Backends \ {b} : statusBar'[r] = statusBar[r]
    BY <1>8, UntouchedBar
  <2>4. statusBar' \in [Backends -> {"none", "I", "T", "E"}]
    <3>1. \A x \in Backends : statusBar[x] \in {"none", "I", "T", "E"}
      BY <1>2 DEF BarView, Statuses
    <3>2. \A x \in Backends : statusBar'[x] \in {"none", "I", "T", "E"}
      BY <1>4, <1>10, <2>3, <3>1 DEF Statuses
    <3>3. statusBar' = [x \in Backends |-> statusBar'[x]]
      BY DEF BarView
    <3> QED BY <3>2, <3>3
  <2>5. \E n \in {0, leftBar[b], leftBar[b] + 1, leftBar[b] - 1} :
           leftBar' = [leftBar EXCEPT ![b] = n]
    BY <1>10, <2>1
  <2>6. repliesBar' = [repliesBar EXCEPT ![b] = Append(repliesBar[b], c)]
    BY <1>10, <2>1, OneSender
  <2> QED BY <1>10, <1>11, <2>1, <2>2, <2>3, <2>4, <2>5, <2>6 DEF Lease!Run
<1> QED BY <1>12 DEF Lease!Next

\* The steps that change no session, and those that end the pinned one.
LEMMA LeaseRest ==
    ASSUME SafeInv, BarView, BarView', NEW c \in Clients,
           \/ Accept(c) \/ HandleClientMessage(c) \/ Disconnect(c) \/ ClientDrops(c)
           \/ BorrowWait(c) \/ BorrowTimeout(c) \/ SendUnnoticed(c) \/ Cleanup(c)
           \/ FailListen(c)
    PROVE  Lease!Next \/ UNCHANGED <<statusBar, leaseBar, leftBar, repliesBar>>
<1> USE DEF serverVars, channelVars
<1>0. TypeInv /\ OwnInv /\ Exclusive /\ CleanInv /\ Stale
  BY DEF SafeInv, ExclusiveInv, OwnInv, CleanInv
<1>1. ASSUME UNCHANGED <<conn, tx, named, wire, closeCh>>,
             \A d \in Clients : Owned(d)' = Owned(d)
      PROVE  UNCHANGED <<statusBar, leaseBar, leftBar, repliesBar>>
  <2>1. \A b \in Backends : Untouched(b)
    BY <1>1 DEF Untouched, InUse
  <2> QED BY <2>1, StutterBar
<1>2. CASE Accept(c) \/ ClientDrops(c) \/ BorrowWait(c) \/ SendUnnoticed(c)
  BY <1>1, <1>2 DEF Accept, ClientDrops, BorrowWait, SendUnnoticed, Owned
<1>3. CASE HandleClientMessage(c) \/ Disconnect(c) \/ BorrowTimeout(c)
  <2>1. /\ held[c] = None /\ UNCHANGED <<pin, conn, tx, named, wire, closeCh>>
        /\ \A d \in Clients : IF d = c THEN held'[d] \in {pin[d], None} ELSE held'[d] = held[d]
    BY <1>0, <1>3 DEF HandleClientMessage, ExecuteQuery, ExecuteExtendedPipeline, Start,
       Disconnect, BorrowTimeout, Done, TypeInv, HeldWhileServing, TypeOK, SessionTypes
  <2>2. \A d \in Clients : Owned(d)' = Owned(d)
    BY <2>1 DEF Owned
  <2> QED BY <1>1, <2>1, <2>2
<1>4. CASE (Cleanup(c) \/ FailListen(c)) /\ pin[c] = None
  <2>1. /\ UNCHANGED <<held, conn, tx, named, wire, closeCh>>
        /\ \A d \in Clients : pin'[d] = pin[d]
    BY <1>0, <1>4 DEF Cleanup, FailListen, TypeInv, TypeOK, PinTypes
  <2> QED BY <1>1, <2>1 DEF Owned
<1>5. CASE (Cleanup(c) \/ FailListen(c)) /\ pin[c] # None
  <2>1. PICK b \in Backends : b = pin[c]
    BY <1>0, <1>5 DEF TypeInv, TypeOK, PinTypes
  <2>2. /\ bclient[b] = c /\ b \in Owned(c)
    BY <1>0, <1>5, <2>1 DEF OwnInv, PinsKnown, Owned
  <2>3. /\ \E state \in {"dead", "closed"} : SetSession(b, state)
        /\ UNCHANGED held
        /\ \A d \in Clients : pin'[d] = IF d = c THEN None ELSE pin[d]
        /\ \A x \in Backends \ {b} : x \in Range(closeCh') <=> x \in Range(closeCh)
    <3>1. CASE FailListen(c)
      BY <1>0, <1>5, <2>1, <3>1 DEF FailListen, TypeInv, TypeOK, PinTypes
    <3>2. CASE Cleanup(c)
      <4>1. Release(b) /\ SetSession(b, "dead") /\ UNCHANGED held
        BY <1>5, <2>1, <3>2 DEF Cleanup
      <4>2. Range(closeCh') = Range(closeCh) \cup {b}
        BY <1>0, <4>1, RangeAppend DEF Release, TypeInv, TypeOK, ChannelTypes
      <4>3. \A d \in Clients : pin'[d] = IF d = c THEN None ELSE pin[d]
        BY <2>2, <4>1 DEF Release
      <4> QED BY <4>1, <4>2, <4>3
    <3> QED BY <1>5, <3>1, <3>2
  <2>4. /\ conn'[b] # "open"
        /\ \A x \in Backends \ {b} : /\ conn'[x] = conn[x] /\ tx'[x] = tx[x]
                                     /\ named'[x] = named[x] /\ wire'[x] = wire[x]
    BY <1>0, <2>3, SetSessionFresh
  <2>5. \A x \in Backends \ {b}, d \in Clients : x \in Owned(d)' <=> x \in Owned(d)
    BY <2>1, <2>3, PoolingAssumption DEF Owned
  <2>6. \A x \in Backends \ {b} : Untouched(x)
    BY <2>3, <2>4, <2>5 DEF Untouched, InUse
  <2>7. ~InUse(b)'
    BY <2>4 DEF InUse
  <2> QED BY <2>6, <2>7, EndBar
<1> QED BY <1>2, <1>3, <1>4, <1>5

\* Pooling implements Lease for every number of clients, backends and pools, under
\* the hypotheses of IdleConnectionsClean: Return, Release, borrowConn, reconcileConn
\* and the target goroutine's cycles, in whatever order they meet, lend a session to
\* one client at a time, clean, and let only its holder use it.
THEOREM PoolingImplementsLease ==
    ASSUME "named" \notin Requests \/ Faults \cap {"die", "timeout", "oversize"} = {},
           Faults \cap {"timeout", "oversize"} = {},
           "closeSkipped" \notin Faults \/ "named" \notin Requests
    PROVE  Spec => ImplementsLease
<1>0. CleanProviso
  BY DEF CleanProviso, NoFaults
<1>1. Init => Lease!Init /\ LivePooled
  <2> SUFFICES ASSUME Init PROVE Lease!Init /\ LivePooled
    OBVIOUS
  <2>1. /\ statusBar = [b \in Backends |-> "none"] /\ leaseBar = [b \in Backends |-> None]
        /\ leftBar = [b \in Backends |-> 0] /\ repliesBar = [b \in Backends |-> << >>]
    BY DEF Init, statusBar, leaseBar, leftBar, repliesBar, InUse
  <2>2. LivePooled
    BY DEF Init, LivePooled
  <2> QED BY <2>1, <2>2 DEF Lease!Init
<1>2. SafeInv => BarView
  BY ExclusiveBar DEF SafeInv, ExclusiveInv, OwnInv
<1>3. SafeInv /\ LivePooled /\ [Next]_vars => LivePooled'
  <2>1. SafeInv /\ LivePooled /\ Next => LivePooled'
    BY LiveStep DEF SafeInv, ExclusiveInv
  <2>2. LivePooled /\ UNCHANGED vars => LivePooled'
    BY DEF LivePooled, vars, serverVars
  <2> QED BY <2>1, <2>2
<1>4. SafeInv /\ LivePooled /\ BarView /\ BarView' /\ [Next]_vars
        => [Lease!Next]_(Lease!leaseVars)
  <2> SUFFICES ASSUME SafeInv, LivePooled, BarView, BarView', [Next]_vars
               PROVE  Lease!Next \/ UNCHANGED <<statusBar, leaseBar, leftBar, repliesBar>>
    BY DEF Lease!leaseVars
  <2>0. Faults \cap {"timeout", "oversize"} = {}
    OBVIOUS
  <2>1. ASSUME NEW c \in Clients, ClientStep(c) \/ FailListen(c)
        PROVE  Lease!Next \/ UNCHANGED <<statusBar, leaseBar, leftBar, repliesBar>>
    BY <2>0, <2>1, LeaseEnding, LeaseBorrow, LeaseSend, LeaseRest DEF ClientStep, ServeStep
  <2>2. CASE TargetStep \/ \E b \in Backends : ConnectionDies(b)
    BY <2>2, LeaseTarget
  <2>3. CASE UNCHANGED vars
    <3>1. \A x \in Backends : Untouched(x)
      BY <2>3 DEF vars, clientVars, serverVars, channelVars, Untouched, InUse, Owned
    <3> QED BY <3>1, StutterBar
  <2> QED BY <2>1, <2>2, <2>3 DEF Next, EnvironmentStep
<1> QED BY <1>0, <1>1, <1>2, <1>3, <1>4, SafeInvariant, PTL DEF Spec, ImplementsLease, Lease!Spec

=============================================================================
