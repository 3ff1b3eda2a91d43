---------------------------- MODULE WakeupProofs ----------------------------
(***************************************************************************)
(* Proofs about Wakeup, for every number of clients and pools and every    *)
(* budget: what the counters count.                                        *)
(***************************************************************************)
EXTENDS Wakeup, FunctionTheorems, FiniteSetTheorems, TLAPS

\* What is counted can be counted.
Countable ==
    /\ IsFiniteSet(Numbered(total))
    /\ \A p \in Pools : IsFiniteSet(Holders(p))

----------------------------------------------------------------------------
(* Numbered connections. *)

LEMMA NumberedHas ==
    ASSUME NEW D, NEW f \in [D -> Nat]
    PROVE  /\ \A p, i : <<p, i>> \in Numbered(f) <=> p \in D /\ i \in 1..f[p]
           /\ \A s \in Numbered(f) : s[1] \in D /\ s[2] \in 1..f[s[1]] /\ s = <<s[1], s[2]>>
<1>1. DOMAIN f = D
  OBVIOUS
<1>2. \A s : s \in Numbered(f) <=> \E p \in D : s \in {p} \X (1..f[p])
  BY <1>1, Zenon DEF Numbered
<1>3. ASSUME NEW p, NEW i PROVE <<p, i>> \in Numbered(f) <=> p \in D /\ i \in 1..f[p]
  BY <1>2
<1>4. ASSUME NEW s \in Numbered(f)
      PROVE  s[1] \in D /\ s[2] \in 1..f[s[1]] /\ s = <<s[1], s[2]>>
  <2>1. PICK p \in D : s \in {p} \X (1..f[p])
    BY <1>2
  <2>2. s = <<s[1], s[2]>> /\ s[1] = p /\ s[2] \in 1..f[p]
    BY <2>1
  <2> QED BY <2>2
<1> QED BY <1>3, <1>4

\* A connection more.
LEMMA OneMore ==
    ASSUME NEW D, NEW f \in [D -> Nat], IsFiniteSet(Numbered(f)), NEW p \in D,
           NEW g \in [D -> Nat], g[p] = f[p] + 1, \A q \in D \ {p} : g[q] = f[q]
    PROVE  /\ IsFiniteSet(Numbered(g))
           /\ Cardinality(Numbered(g)) = Cardinality(Numbered(f)) + 1
<1> DEFINE s == <<p, f[p] + 1>>
<1>1. ASSUME NEW x PROVE x \in Numbered(g) <=> x \in Numbered(f) \cup {s}
  <2>1. ASSUME x \in Numbered(g) PROVE x \in Numbered(f) \cup {s}
    <3>1. x[1] \in D /\ x[2] \in 1..g[x[1]] /\ x = <<x[1], x[2]>>
      BY <2>1, NumberedHas
    <3>2. CASE x[1] # p
      <4>1. g[x[1]] = f[x[1]]
        BY <3>1, <3>2
      <4> QED BY <3>1, <4>1, NumberedHas
    <3>3. CASE x[1] = p
      <4>1. x[2] \in 1..f[p] \/ x[2] = f[p] + 1
        BY <3>1, <3>3
      <4> QED BY <3>1, <3>3, <4>1, NumberedHas
    <3> QED BY <3>2, <3>3
  <2>2. ASSUME x \in Numbered(f) PROVE x \in Numbered(g)
    <3>1. x[1] \in D /\ x[2] \in 1..f[x[1]] /\ x = <<x[1], x[2]>>
      BY <2>2, NumberedHas
    <3>2. x[2] \in 1..g[x[1]]
      BY <3>1
    <3> QED BY <3>1, <3>2, NumberedHas
  <2>3. s \in Numbered(g)
    <3>1. f[p] + 1 \in 1..g[p]
      OBVIOUS
    <3> QED BY <3>1, NumberedHas
  <2> QED BY <2>1, <2>2, <2>3
<1>2. Numbered(g) = Numbered(f) \cup {s}
  BY <1>1
<1>3. s \notin Numbered(f)
  <2>1. f[p] + 1 \notin 1..f[p]
    OBVIOUS
  <2> QED BY <2>1, NumberedHas
<1> HIDE DEF s
<1> QED BY <1>2, <1>3, FS_AddElement

\* A number of connections less in some of the pools.
LEMMA SomeLess ==
    ASSUME NEW D, NEW f \in [D -> Nat], IsFiniteSet(Numbered(f)),
           NEW E \in SUBSET D, NEW old \in [E -> Nat], \A p \in E : old[p] <= f[p],
           NEW g \in [D -> Nat],
           \A p \in D : g[p] = IF p \in E THEN f[p] - old[p] ELSE f[p]
    PROVE  /\ IsFiniteSet(Numbered(g)) /\ IsFiniteSet(Numbered(old))
           /\ Cardinality(Numbered(f)) = Cardinality(Numbered(g)) + Cardinality(Numbered(old))
<1> DEFINE F == Numbered(f)
           G == Numbered(g)
           O == Numbered(old)
           R == F \ G
           h == [s \in R |-> <<s[1], s[2] - g[s[1]]>>]
<1>1. G \subseteq F
  <2>1. ASSUME NEW s \in G PROVE s \in F
    <3>1. s[1] \in D /\ s[2] \in 1..g[s[1]] /\ s = <<s[1], s[2]>>
      BY NumberedHas
    <3>2. g[s[1]] \in Nat /\ f[s[1]] \in Nat /\ g[s[1]] <= f[s[1]]
      BY <3>1
    <3>3. s[2] \in 1..f[s[1]]
      BY <3>1, <3>2
    <3> QED BY <3>1, <3>3, NumberedHas
  <2> QED BY <2>1
<1>2. ASSUME NEW s \in R
      PROVE  /\ s = <<s[1], s[2]>> /\ s[1] \in E /\ s[2] \in Nat /\ g[s[1]] \in Nat
             /\ s[2] - g[s[1]] \in 1..old[s[1]]
  <2>1. s[1] \in D /\ s[2] \in 1..f[s[1]] /\ s = <<s[1], s[2]>>
    BY NumberedHas
  <2>2. s[2] \notin 1..g[s[1]]
    BY <2>1, NumberedHas
  <2>3. s[2] \in Nat /\ f[s[1]] \in Nat /\ g[s[1]] \in Nat /\ s[2] > g[s[1]]
    BY <2>1, <2>2
  <2>4. s[1] \in E
    BY <2>1, <2>3
  <2>5. g[s[1]] = f[s[1]] - old[s[1]] /\ old[s[1]] \in Nat
    BY <2>1, <2>4
  <2> QED BY <2>1, <2>3, <2>4, <2>5
<1>3. ASSUME NEW t \in O
      PROVE  /\ t = <<t[1], t[2]>> /\ t[1] \in E /\ t[2] \in Nat /\ g[t[1]] \in Nat
             /\ <<t[1], t[2] + g[t[1]]>> \in R
  <2>1. t[1] \in E /\ t[2] \in 1..old[t[1]] /\ t = <<t[1], t[2]>>
    BY NumberedHas
  <2>2. /\ t[1] \in D /\ f[t[1]] \in Nat /\ g[t[1]] \in Nat /\ old[t[1]] \in Nat
        /\ g[t[1]] = f[t[1]] - old[t[1]]
    BY <2>1
  <2>3. t[2] + g[t[1]] \in 1..f[t[1]] /\ t[2] + g[t[1]] \notin 1..g[t[1]]
    BY <2>1, <2>2
  <2> QED BY <2>1, <2>2, <2>3, NumberedHas
<1>4. h \in [R -> O]
  <2>1. ASSUME NEW s \in R PROVE <<s[1], s[2] - g[s[1]]>> \in O
    BY <1>2, NumberedHas
  <2> QED BY <2>1
<1>5. ASSUME NEW s \in R, NEW t \in R, h[s] = h[t] PROVE s = t
  <2>1. <<s[1], s[2] - g[s[1]]>> = <<t[1], t[2] - g[t[1]]>>
    BY <1>5
  <2>2. s[1] = t[1] /\ s[2] - g[s[1]] = t[2] - g[t[1]]
    BY <2>1
  <2>3. s[2] = t[2]
    BY <1>2, <2>2
  <2> QED BY <1>2, <2>2, <2>3
<1>6. ASSUME NEW t \in O PROVE \E s \in R : h[s] = t
  <2> DEFINE s == <<t[1], t[2] + g[t[1]]>>
  <2>1. s \in R /\ s[1] = t[1] /\ s[2] = t[2] + g[t[1]]
    BY <1>3
  <2>2. h[s] = <<s[1], s[2] - g[s[1]]>>
    BY <2>1
  <2>3. s[2] - g[s[1]] = t[2]
    BY <1>3, <2>1
  <2>4. h[s] = t
    BY <1>3, <2>1, <2>2, <2>3
  <2> QED BY <2>1, <2>4
<1> HIDE DEF h
<1>7. h \in Bijection(R, O)
  <2>1. h \in Injection(R, O)
    BY <1>4, <1>5 DEF Injection, IsInjective
  <2>2. h \in Surjection(R, O)
    BY <1>4, <1>6 DEF Surjection
  <2> QED BY <2>1, <2>2 DEF Bijection
<1>8. IsFiniteSet(R) /\ IsFiniteSet(G) /\ IsFiniteSet(F)
  BY <1>1, FS_Subset
<1>9. IsFiniteSet(O) /\ Cardinality(O) = Cardinality(R)
  BY <1>7, <1>8, FS_Bijection DEF ExistsBijection
<1>10. Cardinality(R) = Cardinality(F) - Cardinality(G)
  <2>1. Cardinality(F \ G) = Cardinality(F) - Cardinality(F \cap G)
    BY <1>8, FS_Difference
  <2>2. F \cap G = G
    BY <1>1
  <2> QED BY <2>1, <2>2
<1>11. Cardinality(F) \in Nat /\ Cardinality(G) \in Nat /\ Cardinality(O) \in Nat
  BY <1>8, <1>9, FS_CardinalityType
<1> QED BY <1>8, <1>9, <1>10, <1>11

\* One connection of each of some pools.
LEMMA OneOfEach ==
    ASSUME NEW E, NEW old \in [E -> Nat], \A p \in E : old[p] = 1, IsFiniteSet(Numbered(old))
    PROVE  IsFiniteSet(E) /\ Cardinality(E) = Cardinality(Numbered(old))
<1> DEFINE h == [s \in Numbered(old) |-> s[1]]
<1>1. ASSUME NEW s \in Numbered(old) PROVE s[1] \in E /\ s = <<s[1], 1>>
  <2>1. s[1] \in E /\ s[2] \in 1..old[s[1]] /\ s = <<s[1], s[2]>>
    BY NumberedHas
  <2>2. s[2] = 1
    BY <2>1
  <2> QED BY <2>1, <2>2
<1>2. ASSUME NEW p \in E PROVE <<p, 1>> \in Numbered(old) /\ h[<<p, 1>>] = p
  <2>1. 1 \in 1..old[p]
    OBVIOUS
  <2>2. <<p, 1>> \in Numbered(old)
    BY <2>1, NumberedHas
  <2>3. h[<<p, 1>>] = <<p, 1>>[1]
    BY <2>2
  <2> QED BY <2>2, <2>3
<1>3. h \in [Numbered(old) -> E]
  BY <1>1
<1>4. \A s, t \in Numbered(old) : h[s] = h[t] => s = t
  BY <1>1
<1> HIDE DEF h
<1>5. h \in Bijection(Numbered(old), E)
  <2>1. h \in Injection(Numbered(old), E)
    BY <1>3, <1>4 DEF Injection, IsInjective
  <2>2. h \in Surjection(Numbered(old), E)
    BY <1>2, <1>3 DEF Surjection
  <2> QED BY <2>1, <2>2 DEF Bijection
<1> QED BY <1>5, FS_Bijection DEF ExistsBijection

\* A connection less.
LEMMA OneLess ==
    ASSUME NEW D, NEW f \in [D -> Nat], IsFiniteSet(Numbered(f)), NEW p \in D, f[p] > 0,
           NEW g \in [D -> Nat], g[p] = f[p] - 1, \A q \in D \ {p} : g[q] = f[q]
    PROVE  /\ IsFiniteSet(Numbered(g))
           /\ Cardinality(Numbered(g)) = Cardinality(Numbered(f)) - 1
<1> DEFINE old == [q \in {p} |-> 1]
<1>1. old \in [{p} -> Nat] /\ {p} \in SUBSET D /\ \A q \in {p} : old[q] = 1
  OBVIOUS
<1>2. /\ \A q \in {p} : old[q] <= f[q]
      /\ \A q \in D : g[q] = IF q \in {p} THEN f[q] - old[q] ELSE f[q]
  OBVIOUS
<1> HIDE DEF old
<1>3. /\ IsFiniteSet(Numbered(g)) /\ IsFiniteSet(Numbered(old))
      /\ Cardinality(Numbered(f)) = Cardinality(Numbered(g)) + Cardinality(Numbered(old))
  BY <1>1, <1>2, SomeLess
<1>4. Cardinality(Numbered(old)) = 1
  BY <1>1, <1>3, OneOfEach, FS_Singleton
<1>5. Cardinality(Numbered(g)) \in Nat
  BY <1>3, FS_CardinalityType
<1> QED BY <1>3, <1>4, <1>5

----------------------------------------------------------------------------
(* Who holds a connection. *)

LEMMA HoldersSame ==
    ASSUME NEW p \in Pools, \A c \in Clients : pc'[c] = "holding" <=> pc[c] = "holding"
    PROVE  Holders(p)' = Holders(p)
BY DEF Holders

\* TakeConn: of its Pool, a client holds a connection more.
LEMMA HoldersGain ==
    ASSUME TypeOK, Countable, NEW c \in Clients, pc[c] # "holding", Go(c, "holding"), NEW p \in Pools
    PROVE  /\ IsFiniteSet(Holders(p)')
           /\ Cardinality(Holders(p)') = Cardinality(Holders(p)) + (IF PoolOf[c] = p THEN 1 ELSE 0)
<1>1. pc' = [pc EXCEPT ![c] = "holding"] /\ DOMAIN pc = Clients
  BY DEF Go, TypeOK
<1>2. c \notin Holders(p)
  BY DEF Holders
<1>3. IsFiniteSet(Holders(p)) /\ Cardinality(Holders(p)) \in Nat
  BY FS_CardinalityType DEF Countable
<1>4. CASE PoolOf[c] = p
  <2>1. Holders(p)' = Holders(p) \cup {c}
    BY <1>1, <1>4 DEF Holders
  <2> QED BY <1>2, <1>3, <1>4, <2>1, FS_AddElement
<1>5. CASE PoolOf[c] # p
  <2>1. Holders(p)' = Holders(p)
    BY <1>1, <1>5 DEF Holders
  <2> QED BY <1>3, <1>5, <2>1
<1> QED BY <1>4, <1>5

\* Return and Release: of its Pool, a client holds one less.
LEMMA HoldersLose ==
    ASSUME TypeOK, Countable, NEW c \in Clients, pc[c] = "holding", Go(c, "ready"), NEW p \in Pools
    PROVE  /\ IsFiniteSet(Holders(p)')
           /\ Cardinality(Holders(p)') = Cardinality(Holders(p)) - (IF PoolOf[c] = p THEN 1 ELSE 0)
<1>1. pc' = [pc EXCEPT ![c] = "ready"] /\ DOMAIN pc = Clients
  BY DEF Go, TypeOK
<1>3. IsFiniteSet(Holders(p)) /\ Cardinality(Holders(p)) \in Nat
  BY FS_CardinalityType DEF Countable
<1>4. CASE PoolOf[c] = p
  <2>1. Holders(p)' = Holders(p) \ {c} /\ c \in Holders(p)
    BY <1>1, <1>4 DEF Holders
  <2> QED BY <1>3, <1>4, <2>1, FS_RemoveElement
<1>5. CASE PoolOf[c] # p
  <2>1. Holders(p)' = Holders(p)
    BY <1>1, <1>5 DEF Holders
  <2> QED BY <1>3, <1>5, <2>1
<1> QED BY <1>4, <1>5

\* The conjuncts of TypeOK about the counters of the connections, and the others.
Books ==
    /\ total \in [Pools -> Nat] /\ idle \in [Pools -> Nat] /\ closing \in [Pools -> Nat]
    /\ \A p \in Pools : total[p] = idle[p] + closing[p] + Cardinality(Holders(p))
    /\ totalOpen = 1 + Cardinality(Numbered(total))
    /\ totalOpen <= MaxConnections

Ranges ==
    /\ pc \in [Clients -> {"new", "register", "ready", "waiting", "holding"}]
    /\ reg \in [Pools -> {"none", "stored", "registered", "cached"}]
    /\ demand \in BOOLEAN /\ connReady \in 0..MaxConnections
    /\ tpc \in {"loop", "grow", "shrink"}
    /\ todo \subseteq Pools /\ (tpc = "grow" <=> todo # {})
    /\ excess \in [Pools -> 0..MaxConnections]
    /\ roomy \in BOOLEAN

LEMMA TypeParts == TypeOK <=> Books /\ Ranges
BY DEF TypeOK, Books, Ranges

LEMMA TypePartsNext == TypeOK' <=> Books' /\ Ranges'
BY DEF TypeOK, Books, Ranges

\* A step that moves no connection keeps the books.
LEMMA BooksSame ==
    ASSUME Books, Countable, UNCHANGED connVars,
           \A c \in Clients : pc'[c] = "holding" <=> pc[c] = "holding"
    PROVE  Books' /\ Countable'
<1>1. \A p \in Pools : Holders(p)' = Holders(p)
  BY HoldersSame
<1>2. total' = total /\ idle' = idle /\ closing' = closing /\ totalOpen' = totalOpen
  BY DEF connVars
<1> QED BY <1>1, <1>2 DEF Books, Countable

\* A step in which a client takes, returns or releases a connection: the total of its
\* Pool stays.
LEMMA BooksMoved ==
    ASSUME Books, Countable, total' = total, totalOpen' = totalOpen,
           idle' \in [Pools -> Nat], closing' \in [Pools -> Nat],
           \A p \in Pools :
              /\ IsFiniteSet(Holders(p)')
              /\ idle'[p] + closing'[p] + Cardinality(Holders(p)')
                 = idle[p] + closing[p] + Cardinality(Holders(p))
    PROVE  Books' /\ Countable'
<1>1. Numbered(total)' = Numbered(total)
  BY DEF Numbered
<1>2. Books'
  BY <1>1 DEF Books
<1>3. Countable'
  BY <1>1 DEF Countable
<1> QED BY <1>2, <1>3

\* A client takes a connection out of the Queue (borrowConn).
LEMMA TakeBooks ==
    ASSUME TypeOK, Countable, NEW c \in Clients, pc[c] # "holding", TakeConn(c),
           UNCHANGED <<total, closing, totalOpen>>
    PROVE  Books' /\ Countable' /\ pc' \in [Clients -> {"new", "register", "ready", "waiting", "holding"}]
<1>1. /\ idle[PoolOf[c]] > 0 /\ idle' = [idle EXCEPT ![PoolOf[c]] = @ - 1] /\ Go(c, "holding")
      /\ total' = total /\ closing' = closing /\ totalOpen' = totalOpen
  BY DEF TakeConn
<1>2. PoolOf[c] \in Pools /\ idle \in [Pools -> Nat] /\ closing \in [Pools -> Nat]
  BY WakeupAssumption DEF TypeOK
<1>3. idle' \in [Pools -> Nat]
  BY <1>1, <1>2
<1>4. ASSUME NEW p \in Pools
      PROVE  /\ IsFiniteSet(Holders(p)')
             /\ idle'[p] + closing'[p] + Cardinality(Holders(p)')
                = idle[p] + closing[p] + Cardinality(Holders(p))
  <2>1. /\ IsFiniteSet(Holders(p)') /\ Cardinality(Holders(p)) \in Nat
        /\ Cardinality(Holders(p)') = Cardinality(Holders(p)) + (IF PoolOf[c] = p THEN 1 ELSE 0)
    BY <1>1, HoldersGain, FS_CardinalityType DEF Countable
  <2>2. /\ idle'[p] = idle[p] - (IF PoolOf[c] = p THEN 1 ELSE 0)
        /\ idle[p] \in Nat /\ closing[p] \in Nat
    BY <1>1, <1>2
  <2> QED BY <1>1, <2>1, <2>2
<1>5. Books' /\ Countable'
  BY <1>1, <1>2, <1>3, <1>4, TypeParts, BooksMoved
<1>6. pc' \in [Clients -> {"new", "register", "ready", "waiting", "holding"}]
  BY <1>1 DEF Go, TypeOK
<1> QED BY <1>5, <1>6

\* A client gives its connection back: exactly one of the two counters of its Pool
\* grows (Return, Release).
LEMMA GiveBooks ==
    ASSUME TypeOK, Countable, NEW c \in Clients, pc[c] = "holding", Go(c, "ready"),
           UNCHANGED <<total, totalOpen>>,
           \/ idle' = [idle EXCEPT ![PoolOf[c]] = @ + 1] /\ closing' = closing
           \/ closing' = [closing EXCEPT ![PoolOf[c]] = @ + 1] /\ idle' = idle
    PROVE  Books' /\ Countable' /\ pc' \in [Clients -> {"new", "register", "ready", "waiting", "holding"}]
<1>2. PoolOf[c] \in Pools /\ idle \in [Pools -> Nat] /\ closing \in [Pools -> Nat]
  BY WakeupAssumption DEF TypeOK
<1>3. idle' \in [Pools -> Nat] /\ closing' \in [Pools -> Nat]
  BY <1>2
<1>4. ASSUME NEW p \in Pools
      PROVE  /\ IsFiniteSet(Holders(p)')
             /\ idle'[p] + closing'[p] + Cardinality(Holders(p)')
                = idle[p] + closing[p] + Cardinality(Holders(p))
  <2>1. /\ IsFiniteSet(Holders(p)') /\ Cardinality(Holders(p)) \in Nat
        /\ Cardinality(Holders(p)') = Cardinality(Holders(p)) - (IF PoolOf[c] = p THEN 1 ELSE 0)
    BY HoldersLose, FS_CardinalityType DEF Countable
  <2>2. /\ idle'[p] + closing'[p] = idle[p] + closing[p] + (IF PoolOf[c] = p THEN 1 ELSE 0)
        /\ idle[p] \in Nat /\ closing[p] \in Nat /\ idle'[p] \in Nat /\ closing'[p] \in Nat
    BY <1>2, <1>3
  <2> QED BY <2>1, <2>2
<1>5. Books' /\ Countable'
  BY <1>3, <1>4, TypeParts, BooksMoved
<1>6. pc' \in [Clients -> {"new", "register", "ready", "waiting", "holding"}]
  BY DEF Go, TypeOK
<1> QED BY <1>5, <1>6

----------------------------------------------------------------------------
(* The target goroutine opens and closes connections. *)

\* Some of the idle connections of some pools are closed.
LEMMA LessBooks ==
    ASSUME Books, Countable, UNCHANGED <<pc, closing>>,
           NEW E \in SUBSET Pools, NEW old \in [E -> Nat], \A p \in E : old[p] <= idle[p],
           idle' = [p \in Pools |-> IF p \in E THEN idle[p] - old[p] ELSE idle[p]],
           total' = [p \in Pools |-> IF p \in E THEN total[p] - old[p] ELSE total[p]],
           totalOpen' = totalOpen - Cardinality(Numbered(old))
    PROVE  Books' /\ Countable' /\ IsFiniteSet(Numbered(old))
<1>1. /\ total \in [Pools -> Nat] /\ idle \in [Pools -> Nat] /\ closing \in [Pools -> Nat]
      /\ MaxConnections \in Nat
  BY WakeupAssumption DEF Books
<1>2. \A p \in Pools : Holders(p)' = Holders(p) /\ Cardinality(Holders(p)) \in Nat
  BY HoldersSame, FS_CardinalityType DEF Countable
<1>3. \A p \in E : total[p] \in Nat /\ idle[p] \in Nat /\ old[p] \in Nat /\ old[p] <= total[p]
  <2>1. ASSUME NEW p \in E
        PROVE  total[p] \in Nat /\ idle[p] \in Nat /\ old[p] \in Nat /\ old[p] <= total[p]
    <3>1. total[p] = idle[p] + closing[p] + Cardinality(Holders(p)) /\ old[p] <= idle[p]
      BY DEF Books
    <3>2. /\ total[p] \in Nat /\ idle[p] \in Nat /\ closing[p] \in Nat /\ old[p] \in Nat
          /\ Cardinality(Holders(p)) \in Nat
      BY <1>1, <1>2
    <3> QED BY <3>1, <3>2
  <2> QED BY <2>1
<1>4. idle' \in [Pools -> Nat]
  BY <1>1, <1>3
<1>5. total' \in [Pools -> Nat]
  BY <1>1, <1>3
<1>6. \A p \in Pools : total'[p] = IF p \in E THEN total[p] - old[p] ELSE total[p]
  OBVIOUS
<1>7. /\ IsFiniteSet(Numbered(total')) /\ IsFiniteSet(Numbered(old))
      /\ Cardinality(Numbered(total)) = Cardinality(Numbered(total')) + Cardinality(Numbered(old))
  BY <1>1, <1>3, <1>5, <1>6, SomeLess DEF Countable
<1>8. Cardinality(Numbered(total')) \in Nat /\ Cardinality(Numbered(old)) \in Nat
  BY <1>7, FS_CardinalityType
<1>9. totalOpen' = 1 + Cardinality(Numbered(total')) /\ totalOpen' <= MaxConnections
  BY <1>1, <1>7, <1>8 DEF Books
<1>10. ASSUME NEW p \in Pools PROVE total'[p] = idle'[p] + closing'[p] + Cardinality(Holders(p)')
  <2>1. total[p] = idle[p] + closing[p] + Cardinality(Holders(p))
    BY DEF Books
  <2>2. total[p] \in Nat /\ idle[p] \in Nat /\ closing[p] \in Nat /\ Cardinality(Holders(p)) \in Nat
    BY <1>1, <1>2
  <2>3. CASE p \in E
    <3>1. total'[p] = total[p] - old[p] /\ idle'[p] = idle[p] - old[p] /\ old[p] \in Nat
      BY <2>3
    <3> QED BY <1>2, <2>1, <2>2, <3>1
  <2>4. CASE p \notin E
    <3>1. total'[p] = total[p] /\ idle'[p] = idle[p]
      BY <2>4
    <3> QED BY <1>2, <2>1, <2>2, <3>1
  <2> QED BY <2>3, <2>4
<1>11. Books'
  BY <1>1, <1>4, <1>5, <1>9, <1>10 DEF Books
<1>12. Countable'
  BY <1>2, <1>7 DEF Countable
<1> QED BY <1>7, <1>11, <1>12

\* handleClose: a connection leaves CloseCh and All.
LEMMA CloseBooks ==
    ASSUME Books, Countable, NEW p \in Pools, closing[p] > 0, UNCHANGED <<pc, idle>>,
           closing' = [closing EXCEPT ![p] = @ - 1], total' = [total EXCEPT ![p] = @ - 1],
           totalOpen' = totalOpen - 1
    PROVE  Books' /\ Countable'
<1>1. /\ total \in [Pools -> Nat] /\ idle \in [Pools -> Nat] /\ closing \in [Pools -> Nat]
      /\ MaxConnections \in Nat
  BY WakeupAssumption DEF Books
<1>2. \A q \in Pools : Holders(q)' = Holders(q) /\ Cardinality(Holders(q)) \in Nat
  BY HoldersSame, FS_CardinalityType DEF Countable
<1>3. total[p] > 0
  <2>1. total[p] = idle[p] + closing[p] + Cardinality(Holders(p))
    BY DEF Books
  <2> QED BY <1>1, <1>2, <2>1
<1>4. total' \in [Pools -> Nat] /\ closing' \in [Pools -> Nat] /\ idle' \in [Pools -> Nat]
  BY <1>1, <1>3
<1>5. total'[p] = total[p] - 1 /\ \A q \in Pools \ {p} : total'[q] = total[q]
  BY <1>1
<1>6. /\ IsFiniteSet(Numbered(total'))
      /\ Cardinality(Numbered(total')) = Cardinality(Numbered(total)) - 1
  <2> DEFINE new == total'
  <2>1. /\ new \in [Pools -> Nat] /\ new[p] = total[p] - 1
        /\ \A q \in Pools \ {p} : new[q] = total[q]
    BY <1>4, <1>5
  <2> HIDE DEF new
  <2>2. /\ IsFiniteSet(Numbered(new))
        /\ Cardinality(Numbered(new)) = Cardinality(Numbered(total)) - 1
    BY <1>1, <1>3, <2>1, OneLess DEF Countable
  <2> QED BY <2>2 DEF new
<1>7. Cardinality(Numbered(total)) \in Nat
  BY FS_CardinalityType DEF Countable
<1>8. totalOpen' = 1 + Cardinality(Numbered(total')) /\ totalOpen' <= MaxConnections
  BY <1>1, <1>6, <1>7 DEF Books
<1>9. ASSUME NEW q \in Pools PROVE total'[q] = idle'[q] + closing'[q] + Cardinality(Holders(q)')
  <2>1. total[q] = idle[q] + closing[q] + Cardinality(Holders(q))
    BY DEF Books
  <2>2. total[q] \in Nat /\ idle[q] \in Nat /\ closing[q] \in Nat /\ Cardinality(Holders(q)) \in Nat
    BY <1>1, <1>2
  <2>3. total'[q] - total[q] = closing'[q] - closing[q] /\ total'[q] \in Nat /\ closing'[q] \in Nat
    BY <1>1, <1>4
  <2> QED BY <1>2, <2>1, <2>2, <2>3
<1>10. Books'
  BY <1>4, <1>8, <1>9 DEF Books
<1>11. Countable'
  BY <1>2, <1>6 DEF Countable
<1> QED BY <1>10, <1>11

\* openOne: a connection that was opened is put in the Queue.
LEMMA OpenBooks ==
    ASSUME Books, Countable, NEW p \in Pools, UNCHANGED <<pc, closing>>,
           totalOpen < MaxConnections,
           idle' = [idle EXCEPT ![p] = @ + 1], total' = [total EXCEPT ![p] = @ + 1],
           totalOpen' = totalOpen + 1
    PROVE  Books' /\ Countable'
<1>1. /\ total \in [Pools -> Nat] /\ idle \in [Pools -> Nat] /\ closing \in [Pools -> Nat]
      /\ MaxConnections \in Nat
  BY WakeupAssumption DEF Books
<1>2. \A q \in Pools : Holders(q)' = Holders(q) /\ Cardinality(Holders(q)) \in Nat
  BY HoldersSame, FS_CardinalityType DEF Countable
<1>4. total' \in [Pools -> Nat] /\ closing' \in [Pools -> Nat] /\ idle' \in [Pools -> Nat]
  BY <1>1
<1>5. total'[p] = total[p] + 1 /\ \A q \in Pools \ {p} : total'[q] = total[q]
  BY <1>1
<1>6. /\ IsFiniteSet(Numbered(total'))
      /\ Cardinality(Numbered(total')) = Cardinality(Numbered(total)) + 1
  <2> DEFINE new == total'
  <2>1. /\ new \in [Pools -> Nat] /\ new[p] = total[p] + 1
        /\ \A q \in Pools \ {p} : new[q] = total[q]
    BY <1>4, <1>5
  <2> HIDE DEF new
  <2>2. /\ IsFiniteSet(Numbered(new))
        /\ Cardinality(Numbered(new)) = Cardinality(Numbered(total)) + 1
    BY <1>1, <2>1, OneMore DEF Countable
  <2> QED BY <2>2 DEF new
<1>7. Cardinality(Numbered(total)) \in Nat
  BY FS_CardinalityType DEF Countable
<1>8. totalOpen' = 1 + Cardinality(Numbered(total')) /\ totalOpen' <= MaxConnections
  BY <1>1, <1>6, <1>7 DEF Books
<1>9. ASSUME NEW q \in Pools PROVE total'[q] = idle'[q] + closing'[q] + Cardinality(Holders(q)')
  <2>1. total[q] = idle[q] + closing[q] + Cardinality(Holders(q))
    BY DEF Books
  <2>2. total[q] \in Nat /\ idle[q] \in Nat /\ closing[q] \in Nat /\ Cardinality(Holders(q)) \in Nat
    BY <1>1, <1>2
  <2>3. total'[q] - total[q] = idle'[q] - idle[q] /\ total'[q] \in Nat /\ idle'[q] \in Nat
    BY <1>1, <1>4
  <2> QED BY <1>2, <2>1, <2>2, <2>3
<1>10. Books'
  BY <1>4, <1>8, <1>9 DEF Books
<1>11. Countable'
  BY <1>2, <1>6 DEF Countable
<1> QED BY <1>10, <1>11

\* Recycling: an idle connection of a Pool is closed and one of another is opened.
LEMMA RecycleBooks ==
    ASSUME Books, Countable, NEW p \in Pools, NEW q \in Pools, idle[q] > 0,
           UNCHANGED <<pc, closing, totalOpen>>,
           idle' = [idle EXCEPT ![q] = @ - 1, ![p] = @ + 1],
           total' = [total EXCEPT ![q] = @ - 1, ![p] = @ + 1]
    PROVE  Books' /\ Countable'
<1> DEFINE mid == [total EXCEPT ![q] = @ - 1]
<1>1. /\ total \in [Pools -> Nat] /\ idle \in [Pools -> Nat] /\ closing \in [Pools -> Nat]
      /\ MaxConnections \in Nat
  BY WakeupAssumption DEF Books
<1>2. \A r \in Pools : Holders(r)' = Holders(r) /\ Cardinality(Holders(r)) \in Nat
  BY HoldersSame, FS_CardinalityType DEF Countable
<1>3. total[q] > 0
  <2>1. total[q] = idle[q] + closing[q] + Cardinality(Holders(q))
    BY DEF Books
  <2> QED BY <1>1, <1>2, <2>1
<1>4. total' \in [Pools -> Nat] /\ closing' \in [Pools -> Nat] /\ idle' \in [Pools -> Nat]
  BY <1>1, <1>3
<1>5. mid \in [Pools -> Nat] /\ mid[q] = total[q] - 1 /\ \A r \in Pools \ {q} : mid[r] = total[r]
  BY <1>1, <1>3
<1>6. total'[p] = mid[p] + 1 /\ \A r \in Pools \ {p} : total'[r] = mid[r]
  BY <1>1
<1> HIDE DEF mid
<1>7. /\ IsFiniteSet(Numbered(mid))
      /\ Cardinality(Numbered(mid)) = Cardinality(Numbered(total)) - 1
  BY <1>1, <1>3, <1>5, OneLess DEF Countable
<1>8. /\ IsFiniteSet(Numbered(total'))
      /\ Cardinality(Numbered(total')) = Cardinality(Numbered(mid)) + 1
  <2> DEFINE new == total'
  <2>1. /\ new \in [Pools -> Nat] /\ new[p] = mid[p] + 1
        /\ \A r \in Pools \ {p} : new[r] = mid[r]
    BY <1>4, <1>6
  <2> HIDE DEF new
  <2>2. /\ IsFiniteSet(Numbered(new))
        /\ Cardinality(Numbered(new)) = Cardinality(Numbered(mid)) + 1
    BY <1>5, <1>7, <2>1, OneMore DEF Countable
  <2> QED BY <2>2 DEF new
<1>9. Cardinality(Numbered(total)) \in Nat
  BY FS_CardinalityType DEF Countable
<1>10. totalOpen' = 1 + Cardinality(Numbered(total')) /\ totalOpen' <= MaxConnections
  BY <1>7, <1>8, <1>9 DEF Books
<1>11. ASSUME NEW r \in Pools PROVE total'[r] = idle'[r] + closing'[r] + Cardinality(Holders(r)')
  <2>1. total[r] = idle[r] + closing[r] + Cardinality(Holders(r))
    BY DEF Books
  <2>2. total[r] \in Nat /\ idle[r] \in Nat /\ closing[r] \in Nat /\ Cardinality(Holders(r)) \in Nat
    BY <1>1, <1>2
  <2>3. total'[r] - total[r] = idle'[r] - idle[r] /\ total'[r] \in Nat /\ idle'[r] \in Nat
    BY <1>1, <1>4
  <2> QED BY <1>2, <2>1, <2>2, <2>3
<1>12. Books'
  BY <1>4, <1>10, <1>11 DEF Books
<1>13. Countable'
  BY <1>2, <1>8 DEF Countable
<1> QED BY <1>12, <1>13

----------------------------------------------------------------------------
(* The invariant is inductive. *)

LEMMA SignalledType ==
    ASSUME connReady \in 0..MaxConnections
    PROVE  Signalled \in 0..MaxConnections
BY WakeupAssumption DEF Signalled

LEMMA ClientSteps ==
    ASSUME TypeOK, Countable, NEW c \in Clients,
           \/ GetPool(c) \/ RegisterPool(c) \/ BorrowConn(c) \/ ReceiveConn(c) \/ WakeUp(c)
           \/ BorrowTimeout(c) \/ Return(c) \/ Release(c)
    PROVE  TypeOK' /\ Countable'
<1> USE DEF tokenVars, cycleVars
<1>1. Books /\ Ranges
  BY TypeParts
<1>2. PoolOf[c] \in Pools /\ MaxConnections \in Nat
  BY WakeupAssumption
<1>3. CASE GetPool(c) \/ RegisterPool(c) \/ BorrowTimeout(c)
  <2>1. UNCHANGED connVars
    BY <1>3 DEF GetPool, RegisterPool, BorrowTimeout
  <2>2. \A d \in Clients : pc'[d] = "holding" <=> pc[d] = "holding"
    BY <1>1, <1>3 DEF GetPool, RegisterPool, BorrowTimeout, Go, Ranges
  <2>3. Ranges'
    BY <1>1, <1>2, <1>3 DEF GetPool, RegisterPool, BorrowTimeout, Go, Ranges
  <2> QED BY <1>1, <2>1, <2>2, <2>3, BooksSame, TypePartsNext
<1>4. CASE BorrowConn(c)
  <2>1. CASE TakeConn(c)
    <3>1. /\ Books' /\ Countable'
          /\ pc' \in [Clients -> {"new", "register", "ready", "waiting", "holding"}]
      BY <1>4, <2>1, TakeBooks DEF BorrowConn
    <3>2. demand' \in BOOLEAN
      BY <1>1, <1>4 DEF BorrowConn, Ranges
    <3>3. Ranges'
      BY <1>1, <1>4, <3>1, <3>2 DEF BorrowConn, Ranges
    <3> QED BY <3>1, <3>3, TypePartsNext
  <2>2. CASE ~TakeConn(c)
    <3>1. UNCHANGED connVars /\ Go(c, "waiting") /\ demand' = TRUE
      BY <1>4, <2>2 DEF BorrowConn, connVars
    <3>2. \A d \in Clients : pc'[d] = "holding" <=> pc[d] = "holding"
      BY <1>1, <1>4, <3>1 DEF BorrowConn, Go, Ranges
    <3>3. Ranges'
      BY <1>1, <1>4, <3>1 DEF BorrowConn, Go, Ranges
    <3> QED BY <1>1, <3>1, <3>2, <3>3, BooksSame, TypePartsNext
  <2> QED BY <2>1, <2>2
<1>5. CASE ReceiveConn(c)
  <2>1. /\ Books' /\ Countable'
        /\ pc' \in [Clients -> {"new", "register", "ready", "waiting", "holding"}]
    BY <1>5, TakeBooks DEF ReceiveConn
  <2>2. Ranges'
    BY <1>1, <1>5, <2>1 DEF ReceiveConn, Ranges
  <2> QED BY <2>1, <2>2, TypePartsNext
<1>6. CASE WakeUp(c)
  <2>0. connReady' \in 0..MaxConnections
    BY <1>1, <1>2, <1>6 DEF WakeUp, Ranges
  <2>1. CASE TakeConn(c)
    <3>1. /\ Books' /\ Countable'
          /\ pc' \in [Clients -> {"new", "register", "ready", "waiting", "holding"}]
      BY <1>6, <2>1, TakeBooks DEF WakeUp
    <3>2. demand' \in BOOLEAN
      BY <1>1, <1>6 DEF WakeUp, Ranges
    <3>3. Ranges'
      BY <1>1, <1>6, <2>0, <3>1, <3>2 DEF WakeUp, Ranges
    <3> QED BY <3>1, <3>3, TypePartsNext
  <2>2. CASE ~TakeConn(c)
    <3>1. UNCHANGED connVars /\ pc' = pc /\ demand' = TRUE
      BY <1>6, <2>2 DEF WakeUp, connVars
    <3>2. Ranges'
      BY <1>1, <1>6, <2>0, <3>1 DEF WakeUp, Ranges
    <3> QED BY <1>1, <3>1, <3>2, BooksSame, TypePartsNext
  <2> QED BY <2>1, <2>2
<1>7. CASE Return(c) \/ Release(c)
  <2>1. /\ Books' /\ Countable'
        /\ pc' \in [Clients -> {"new", "register", "ready", "waiting", "holding"}]
    BY <1>7, GiveBooks DEF Return, Release
  <2>2. connReady' \in 0..MaxConnections
    BY <1>1, <1>7, SignalledType DEF Return, Release, Ranges
  <2>3. Ranges'
    BY <1>1, <1>7, <2>1, <2>2 DEF Return, Release, Ranges
  <2> QED BY <2>1, <2>3, TypePartsNext
<1> QED BY <1>3, <1>4, <1>5, <1>6, <1>7

\* The first half of growthCycle opens and closes nothing.
LEMMA ScanSteps ==
    ASSUME TypeOK, Countable, GrowthScan, demand' \in BOOLEAN
    PROVE  TypeOK' /\ Countable'
<1>1. Books /\ Ranges
  BY TypeParts
<1>2. Books' /\ Countable'
  BY <1>1, BooksSame DEF GrowthScan
<1>3. reg' \in [Pools -> {"none", "stored", "registered", "cached"}]
  BY <1>1 DEF GrowthScan, CacheAll, Ranges
<1>4. excess' \in [Pools -> 0..MaxConnections]
  <2> DEFINE spare == {p \in AllPools : MaxExcess(p) > 0}
  <2>1. PICK x \in [spare -> 0..MaxConnections] :
          excess' = [p \in Pools |-> IF p \in spare THEN x[p] ELSE 0]
    BY DEF GrowthScan
  <2> HIDE DEF spare
  <2>2. 0 \in 0..MaxConnections
    BY WakeupAssumption
  <2> QED BY <2>1, <2>2
<1>5. roomy' \in BOOLEAN
  <2>1. roomy' \in RoomAnswers
    BY DEF GrowthScan
  <2>2. CASE ServerRoom # {}
    <3>1. RoomAnswers = ServerRoom
      BY <2>2 DEF RoomAnswers
    <3> QED BY <2>1, <3>1, WakeupAssumption
  <2>3. CASE ServerRoom = {}
    <3>1. roomy' = (MaxConnections - totalOpen > 1)
      BY <2>1, <2>3 DEF RoomAnswers
    <3> QED BY <3>1
  <2> QED BY <2>2, <2>3
<1>6. todo' \subseteq Pools /\ tpc' = IF todo' # {} THEN "grow" ELSE "shrink"
  BY DEF GrowthScan, AllPools
<1>7. Ranges'
  BY <1>1, <1>3, <1>4, <1>5, <1>6 DEF GrowthScan, Ranges
<1> QED BY <1>2, <1>7, TypePartsNext

LEMMA EndCycleRanges ==
    ASSUME Ranges, EndCycle, UNCHANGED <<pc, reg, tokenVars>>
    PROVE  Ranges'
<1>1. excess' \in [Pools -> 0..MaxConnections]
  BY WakeupAssumption DEF EndCycle, NoExcess
<1> QED BY <1>1 DEF EndCycle, Ranges, tokenVars

LEMMA GrowSteps ==
    ASSUME TypeOK, Countable, NEW p \in Pools, GrowNext(p)
    PROVE  TypeOK' /\ Countable'
<1>1. Books /\ Ranges
  BY TypeParts
<1>2. /\ p \in todo /\ roomy /\ totalOpen < MaxConnections /\ tpc = "grow"
      /\ todo' = todo \ {p} /\ roomy' = (roomy \/ todo = {p})
      /\ tpc' = IF todo = {p} THEN "loop" ELSE "grow"
      /\ connReady' = Signalled
      /\ pc' = pc /\ reg' = reg /\ closing' = closing /\ demand' = demand
  BY DEF GrowNext
<1>3. NoExcess \in [Pools -> 0..MaxConnections]
  BY WakeupAssumption DEF NoExcess
<1>4. connReady' \in 0..MaxConnections
  BY <1>1, <1>2, SignalledType DEF Ranges
<1>5. ASSUME excess' \in [Pools -> 0..MaxConnections] PROVE Ranges'
  <2>1. roomy' \in BOOLEAN
    BY <1>2
  <2>2. todo' \subseteq Pools /\ (tpc' = "grow" <=> todo' # {}) /\ tpc' \in {"loop", "grow", "shrink"}
    BY <1>1, <1>2 DEF Ranges
  <2> QED BY <1>1, <1>2, <1>4, <1>5, <2>1, <2>2 DEF Ranges
<1>6. CASE /\ idle' = [idle EXCEPT ![p] = @ + 1]
           /\ total' = [total EXCEPT ![p] = @ + 1]
           /\ totalOpen' = totalOpen + 1
           /\ excess' = IF todo = {p} THEN NoExcess ELSE excess
  <2>1. Books' /\ Countable'
    BY <1>1, <1>2, <1>6, OpenBooks
  <2>2. excess' \in [Pools -> 0..MaxConnections]
    BY <1>1, <1>3, <1>6 DEF Ranges
  <2> QED BY <1>5, <2>1, <2>2, TypePartsNext
<1>7. ASSUME NEW q \in Pools,
             /\ excess[q] > 0 /\ idle[q] > 0
             /\ idle' = [idle EXCEPT ![q] = @ - 1, ![p] = @ + 1]
             /\ total' = [total EXCEPT ![q] = @ - 1, ![p] = @ + 1]
             /\ excess' = IF todo = {p} THEN NoExcess ELSE [excess EXCEPT ![q] = @ - 1]
             /\ UNCHANGED totalOpen
      PROVE  TypeOK' /\ Countable'
  <2>1. Books' /\ Countable'
    BY <1>1, <1>2, <1>7, RecycleBooks
  <2>2. [excess EXCEPT ![q] = @ - 1] \in [Pools -> 0..MaxConnections]
    BY <1>1, <1>7, WakeupAssumption DEF Ranges
  <2>3. excess' \in [Pools -> 0..MaxConnections]
    BY <1>3, <1>7, <2>2
  <2> QED BY <1>5, <2>1, <2>3, TypePartsNext
<1> QED BY <1>6, <1>7 DEF GrowNext

LEMMA ShrinkSteps ==
    ASSUME TypeOK, Countable, Shrink
    PROVE  TypeOK' /\ Countable'
<1> DEFINE S == {p \in Pools : excess[p] > 0 /\ idle[p] > 0}
           old == [p \in S |-> 1]
<1>1. Books /\ Ranges
  BY TypeParts
<1>2. /\ idle' = [p \in Pools |-> IF p \in S THEN idle[p] - 1 ELSE idle[p]]
      /\ total' = [p \in Pools |-> IF p \in S THEN total[p] - 1 ELSE total[p]]
      /\ totalOpen' = totalOpen - Cardinality(S)
      /\ EndCycle /\ UNCHANGED <<pc, reg, closing, tokenVars>>
  BY DEF Shrink
<1>3. S \in SUBSET Pools /\ old \in [S -> Nat] /\ \A p \in S : old[p] = 1
  OBVIOUS
<1>4. \A p \in S : old[p] <= idle[p]
  BY <1>1, <1>3 DEF Books
<1> HIDE DEF old
<1>5. /\ [p \in Pools |-> IF p \in S THEN idle[p] - 1 ELSE idle[p]]
         = [p \in Pools |-> IF p \in S THEN idle[p] - old[p] ELSE idle[p]]
      /\ [p \in Pools |-> IF p \in S THEN total[p] - 1 ELSE total[p]]
         = [p \in Pools |-> IF p \in S THEN total[p] - old[p] ELSE total[p]]
  BY <1>3
<1> HIDE DEF S
<1>6. IsFiniteSet(Numbered(old))
  <2>1. total \in [Pools -> Nat] /\ IsFiniteSet(Numbered(total))
    BY <1>1 DEF Books, Countable
  <2>2. ASSUME NEW s \in Numbered(old) PROVE s \in Numbered(total)
    <3>1. s[1] \in S /\ s[2] \in 1..old[s[1]] /\ s = <<s[1], s[2]>>
      BY <1>3, NumberedHas
    <3>2. PICK p \in S : p = s[1]
      BY <3>1
    <3>3. /\ total[p] = idle[p] + closing[p] + Cardinality(Holders(p)) /\ total[p] \in Nat
          /\ idle[p] \in Nat /\ closing[p] \in Nat /\ IsFiniteSet(Holders(p)) /\ p \in Pools
      BY <1>1, <1>3 DEF Books, Countable
    <3>4. Cardinality(Holders(p)) \in Nat
      BY <3>3, FS_CardinalityType
    <3>5. s[2] \in 1..total[p]
      BY <1>3, <1>4, <3>1, <3>2, <3>3, <3>4
    <3> QED BY <2>1, <3>1, <3>2, <3>3, <3>5, NumberedHas
  <2>3. Numbered(old) \in SUBSET Numbered(total)
    BY <2>2
  <2> QED BY <2>1, <2>3, FS_Subset
<1>7. Cardinality(S) = Cardinality(Numbered(old))
  BY <1>3, <1>6, OneOfEach
<1>8. Books' /\ Countable'
  BY <1>1, <1>2, <1>3, <1>4, <1>5, <1>7, LessBooks
<1>9. Ranges'
  BY <1>1, <1>2, EndCycleRanges
<1> QED BY <1>8, <1>9, TypePartsNext

LEMMA HealthSteps ==
    ASSUME TypeOK, Countable, HealthCheck
    PROVE  TypeOK' /\ Countable'
<1> DEFINE quiet == {p \in AllPools : idle[p] > 0 /\ \A c \in Clients :
                                        PoolOf[c] = p => pc[c] # "waiting"}
<1>1. Books /\ Ranges
  BY TypeParts
<1>2. PICK old \in [quiet -> 1..MaxConnections] :
        /\ \A p \in quiet : old[p] <= idle[p]
        /\ idle' = [p \in Pools |-> IF p \in quiet THEN idle[p] - old[p] ELSE idle[p]]
        /\ total' = [p \in Pools |-> IF p \in quiet THEN total[p] - old[p] ELSE total[p]]
        /\ totalOpen' = totalOpen - Cardinality(Numbered(old))
  BY DEF HealthCheck
<1>3. pc' = pc /\ closing' = closing /\ CacheAll /\ UNCHANGED <<tokenVars, cycleVars>>
  BY DEF HealthCheck
<1>4. quiet \in SUBSET Pools
  BY DEF AllPools
<1> HIDE DEF quiet
<1>5. old \in [quiet -> Nat]
  BY <1>2, WakeupAssumption
<1>6. Books' /\ Countable'
  BY <1>1, <1>2, <1>3, <1>4, <1>5, LessBooks
<1>7. reg' \in [Pools -> {"none", "stored", "registered", "cached"}]
  BY <1>1, <1>3 DEF CacheAll, Ranges
<1>8. Ranges'
  BY <1>1, <1>3, <1>7 DEF Ranges, tokenVars, cycleVars
<1> QED BY <1>6, <1>8, TypePartsNext

LEMMA CloseSteps ==
    ASSUME TypeOK, Countable, NEW p \in Pools, HandleClose(p)
    PROVE  TypeOK' /\ Countable'
<1>1. Books /\ Ranges
  BY TypeParts
<1>2. Books' /\ Countable'
  BY <1>1, CloseBooks DEF HandleClose
<1>3. connReady' \in 0..MaxConnections
  BY <1>1, SignalledType DEF HandleClose, Ranges
<1>4. Ranges'
  BY <1>1, <1>3 DEF HandleClose, Ranges, cycleVars
<1> QED BY <1>2, <1>4, TypePartsNext

LEMMA WakeupInit == Init => TypeOK /\ Countable
<1> SUFFICES ASSUME Init PROVE TypeOK /\ Countable
  OBVIOUS
<1>1. \A p \in Pools : Holders(p) = {}
  BY DEF Init, Holders
<1>2. Numbered(total) = {}
  <2>1. total \in [Pools -> Nat] /\ \A p \in Pools : total[p] = 0
    BY DEF Init, NoExcess
  <2>2. ASSUME NEW s \in Numbered(total) PROVE FALSE
    <3>1. s[1] \in Pools /\ s[2] \in 1..total[s[1]]
      BY <2>1, NumberedHas
    <3> QED BY <2>1, <3>1
  <2> QED BY <2>2
<1>3. Books
  BY <1>1, <1>2, FS_EmptySet, WakeupAssumption DEF Init, NoExcess, Books
<1>4. Ranges
  <2>1. 0 \in 0..MaxConnections
    BY WakeupAssumption
  <2>2. demand \in BOOLEAN /\ roomy \in BOOLEAN
    BY DEF Init
  <2> QED BY <2>1, <2>2 DEF Init, NoExcess, Ranges
<1>5. Countable
  BY <1>1, <1>2, FS_EmptySet DEF Countable
<1> QED BY <1>3, <1>4, <1>5, TypeParts

LEMMA WakeupStep == TypeOK /\ Countable /\ [Next]_vars => TypeOK' /\ Countable'
<1> SUFFICES ASSUME TypeOK, Countable, [Next]_vars PROVE TypeOK' /\ Countable'
  OBVIOUS
<1>0. Books /\ Ranges
  BY TypeParts
<1>1. CASE TakeDemand \/ GrowthTick
  <2>1. GrowthScan /\ demand' \in BOOLEAN
    BY <1>0, <1>1 DEF TakeDemand, GrowthTick, Ranges
  <2> QED BY <2>1, ScanSteps
<1>2. CASE GrowBreak
  <2>1. Books' /\ Countable'
    BY <1>0, <1>2, BooksSame DEF GrowBreak
  <2>2. Ranges'
    BY <1>0, <1>2, EndCycleRanges DEF GrowBreak
  <2> QED BY <2>1, <2>2, TypePartsNext
<1>3. CASE UNCHANGED vars
  <2>1. Books' /\ Countable'
    BY <1>0, <1>3, BooksSame DEF vars
  <2>2. Ranges'
    BY <1>0, <1>3 DEF vars, Ranges, tokenVars, cycleVars
  <2> QED BY <2>1, <2>2, TypePartsNext
<1> QED BY <1>1, <1>2, <1>3, ClientSteps, GrowSteps, CloseSteps, ShrinkSteps, HealthSteps DEF Next

\* TypeOK of Wakeup in every reachable state: every connection of a Pool is idle, held
\* or on its way to be closed, TotalOpen is their number and the privileged one, and
\* the budget is never exceeded, in whatever order borrowConn, Return, Release,
\* handleClose, growthCycle and healthCheck run, and whatever the statistics say.
THEOREM WakeupTypeCorrect == Spec => []TypeOK
<1>1. TypeOK /\ Countable /\ [Next]_vars => TypeOK' /\ Countable'
  BY WakeupStep
<1> QED BY WakeupInit, <1>1, PTL DEF Spec
=============================================================================
