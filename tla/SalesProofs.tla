----------------------------- MODULE SalesProofs -----------------------------
(***************************************************************************)
(* Proofs about Sales, for any number of events, ticket types, orders and  *)
(* requests: what is configured fits its event, nothing is sold twice,     *)
(* tickets are paid, what is on sale does not change, and BoxOffice is     *)
(* implemented.                                                            *)
(***************************************************************************)
EXTENDS Sales, FiniteSetTheorems, TLAPS

\* A row is locked by one request, and a request outside a transaction by none.
LocksExclusive == \A s, o \in Request : s # o => holds[s] \cap holds[o] = {}

\* What a request has found in the rows it has locked is still true of them.
KnowsUpdate(s) ==
    Doing(s, "update") =>
        /\ tx[s].event \in Event \cap holds[s]
        /\ event[tx[s].event].status = "DRAFT"
        /\ Total(Quantities, TypesOf(tx[s].event)) <= tx[s].n
        /\ tx[s].n \in Units

KnowsConfigure(s) ==
    Doing(s, "configure") =>
        /\ tx[s].type \in Type /\ tx[s].event = EventOf[tx[s].type]
        /\ tx[s].event \in holds[s]
        /\ event[tx[s].event].status = "DRAFT"
        /\ tx[s].status # "NONE" /\ tx[s].n \in Units
        /\ type[tx[s].type].sold <= tx[s].n
        /\ Total(Quantities, TypesOf(tx[s].event) \ {tx[s].type}) + tx[s].n
               <= event[tx[s].event].capacity

KnowsPublish(s) ==
    Doing(s, "publish") =>
        /\ tx[s].event \in Event \cap holds[s]
        /\ event[tx[s].event].status = "DRAFT"
        /\ \E y \in TypesOf(tx[s].event) : type[y].status = "ACTIVE"

KnowsCancel(s) ==
    Doing(s, "cancel") =>
        /\ tx[s].event \in Event \cap holds[s]
        /\ event[tx[s].event].status \in {"DRAFT", "PUBLISHED"}

KnowsIssue(s) ==
    Doing(s, "issue") =>
        /\ tx[s].type \in Type /\ tx[s].event = EventOf[tx[s].type]
        /\ tx[s].event \in holds[s]
        /\ event[tx[s].event].status = "PUBLISHED"
        /\ tx[s].n \in Units
        /\ tx[s].type \in holds[s] =>
              /\ type[tx[s].type].status = "ACTIVE"
              /\ type[tx[s].type].sold + tx[s].n <= type[tx[s].type].quantity

KnowsFulfil(s) ==
    Doing(s, "fulfil") =>
        \A y \in Type \cap holds[s] :
            /\ EventOf[y] \in holds[s]
            /\ type[y].status = "ACTIVE"
            /\ type[y].sold + order[tx[s].order].wants[y] <= type[y].quantity

\* Before the transaction of a payment there is an order, and no lock.
KnowsOrder(s) ==
    /\ tx[s].op \in {"charge", "lapse", "recheck", "fulfil"} =>
          tx[s].order \in Order /\ order[tx[s].order].status # "NONE"
    /\ tx[s].op \in {"idle", "charge", "lapse", "recheck"} => holds[s] = {}
    /\ holds[s] \cap Type # {} => tx[s].op \in {"issue", "fulfil"}

Knows(s) ==
    /\ KnowsUpdate(s) /\ KnowsConfigure(s) /\ KnowsPublish(s) /\ KnowsCancel(s)
    /\ KnowsIssue(s) /\ KnowsFulfil(s) /\ KnowsOrder(s)

\* What was not created has no room and no stock, and no type sells more than
\* it has.
StockOK ==
    /\ \A e \in Event : event[e].status = "NONE" => event[e].capacity = 0
    /\ \A y \in Type : /\ type[y].sold <= type[y].quantity
                       /\ type[y].status = "NONE" => type[y].quantity = 0

\* The payments of an order that were charged for and have bought nothing yet.
Paying(x) == {s \in Request : tx[s].order = x /\ tx[s].op \in {"recheck", "fulfil"}}

\* Every purchase, made or under way, has a charge of its own.
ChargesOK == \A x \in Order : bought[x] + Cardinality(Paying(x)) <= charged[x]

OrdersOK ==
    \A x \in Order :
        /\ order[x].status = "CONFIRMED" =>
              bought[x] > 0 /\ order[x].payment = "SUCCEEDED"
        /\ order[x].status \in {"NONE", "PENDING"} =>
              bought[x] = 0 /\ order[x].payment = "PENDING"

SalesInv ==
    /\ TypeOK
    /\ LocksExclusive
    /\ \A s \in Request : Knows(s)
    /\ StockOK
    /\ InventoryFits
    /\ ChargesOK
    /\ OrdersOK

-----------------------------------------------------------------------------
(* Sums, as numbers of units. *)

Of(f, S) == UNION {{y} \X (1..f[y]) : y \in S}

\* A unit of the sum is a pair of a type and a number.
LEMMA InOf ==
    ASSUME NEW f, NEW S, NEW u
    PROVE  u \in Of(f, S) <=> \E y \in S : \E i \in 1..f[y] : u = <<y, i>>
BY DEF Of

\* The units of a sum are finitely many.
LEMMA OfFinite ==
    ASSUME NEW S \in SUBSET Type, NEW f \in [Type -> 0..MaxUnits]
    PROVE  IsFiniteSet(Of(f, S))
<1>1. IsFiniteSet(Type \X (1..MaxUnits))
  <2>1. 1 \in Int /\ MaxUnits \in Int /\ IsFiniteSet(Type)
    BY SalesAssumption
  <2>2. IsFiniteSet(1..MaxUnits)
    BY <2>1, FS_Interval
  <2> QED BY <2>1, <2>2, FS_Product
<1>2. Of(f, S) \subseteq Type \X (1..MaxUnits)
  <2> SUFFICES ASSUME NEW y \in S, NEW i \in 1..f[y]
               PROVE  <<y, i>> \in Type \X (1..MaxUnits)
    BY DEF Of
  <2>1. f[y] \in 0..MaxUnits
    OBVIOUS
  <2> QED BY <2>1, SalesAssumption
<1> QED BY <1>1, <1>2, FS_Subset

\* A sum is a number.
LEMMA TotalType ==
    ASSUME NEW S \in SUBSET Type, NEW f \in [Type -> 0..MaxUnits]
    PROVE  Total(f, S) \in Nat
BY OfFinite, FS_CardinalityType DEF Total, Of

\* A sum depends only on the values it is made of.
LEMMA TotalSame ==
    ASSUME NEW S, NEW f, NEW g, \A y \in S : f[y] = g[y]
    PROVE  Total(f, S) = Total(g, S)
<1>1. ASSUME NEW u PROVE u \in Of(f, S) <=> u \in Of(g, S)
  BY InOf
<1> QED BY <1>1 DEF Total, Of

\* Smaller values have a smaller sum.
LEMMA TotalMonotonic ==
    ASSUME NEW S \in SUBSET Type, NEW f, NEW g \in [Type -> 0..MaxUnits],
           \A y \in S : f[y] \in Nat /\ f[y] <= g[y]
    PROVE  Total(f, S) \in Nat /\ Total(f, S) <= Total(g, S)
<1>1. Of(f, S) \subseteq Of(g, S)
  <2> SUFFICES ASSUME NEW y \in S, NEW i \in 1..f[y] PROVE <<y, i>> \in Of(g, S)
    BY DEF Of
  <2>1. i \in 1..g[y]
    <3>1. f[y] \in Nat /\ f[y] <= g[y] /\ g[y] \in 0..MaxUnits
      OBVIOUS
    <3> QED BY <3>1, SalesAssumption
  <2> QED BY <2>1, InOf
<1>2. IsFiniteSet(Of(g, S))
  BY OfFinite
<1> QED BY <1>1, <1>2, FS_Subset, FS_CardinalityType DEF Total, Of

\* One of the values can be taken out of the sum.
LEMMA TotalSplit ==
    ASSUME NEW S \in SUBSET Type, NEW f \in [Type -> 0..MaxUnits], NEW y \in S
    PROVE  Total(f, S) = Total(f, S \ {y}) + f[y]
<1> DEFINE A == Of(f, S \ {y})
           B == {y} \X (1..f[y])
<1>1. f[y] \in Nat
  BY SalesAssumption
<1>2. Of(f, S) = A \cup B
  BY DEF Of
<1>3. A \cap B = {}
  <2> SUFFICES ASSUME NEW z \in S \ {y}, NEW i \in 1..f[z], <<z, i>> \in B PROVE FALSE
    BY DEF Of
  <2> QED OBVIOUS
<1>4. IsFiniteSet(A)
  BY OfFinite
<1>5. IsFiniteSet(B) /\ Cardinality(B) = f[y]
  <2>1. IsFiniteSet(1..f[y]) /\ Cardinality(1..f[y]) = f[y]
    BY <1>1, FS_Interval
  <2>2. IsFiniteSet({y}) /\ Cardinality({y}) = 1
    BY FS_Singleton
  <2>3. Cardinality(B) = 1 * f[y] /\ IsFiniteSet(B)
    BY <2>1, <2>2, FS_Product
  <2> QED BY <1>1, <2>3
<1>6. Cardinality(A \cup B) = Cardinality(A) + Cardinality(B) - Cardinality(A \cap B)
  BY <1>4, <1>5, FS_Union
<1>7. Cardinality(A \cap B) = 0 /\ Cardinality(A) \in Nat
  BY <1>3, <1>4, FS_EmptySet, FS_CardinalityType
<1>8. Cardinality(A \cup B) = Cardinality(A) + f[y]
  BY <1>1, <1>5, <1>6, <1>7
<1> QED BY <1>2, <1>8 DEF Total, Of

-----------------------------------------------------------------------------
(* Steps, as the other requests see them. *)

EventsKept(s) ==
    \A e \in Event \cap holds[s] :
        event[e].status # "NONE" =>
            event'[e].status = event[e].status /\ event'[e].capacity = event[e].capacity

TypesKept(s) == \A y \in Type : EventOf[y] \in holds[s] => type'[y] = type[y]

OrdersKept ==
    \A x \in Order : order[x].status # "NONE" =>
        order'[x].status # "NONE" /\ order'[x].wants = order[x].wants

Only(s) == \A o \in Request \ {s} : tx'[o] = tx[o] /\ holds'[o] = holds[o]

\* Configured quantities are bounded numbers.
LEMMA QuantitiesType ==
    ASSUME TypeOK
    PROVE  Quantities \in [Type -> 0..MaxUnits]
<1>1. 0 \in 0..MaxUnits
  BY SalesAssumption
<1> QED BY <1>1 DEF TypeOK, Quantities

\* What a request knows lasts as long as the rows it has locked.
LEMMA KnowsKept ==
    ASSUME SalesInv, NEW s \in Request, tx'[s] = tx[s], holds'[s] = holds[s],
           EventsKept(s), TypesKept(s), OrdersKept
    PROVE  Knows(s)'
<1> USE DEF Doing
<1>1. Knows(s)
  BY DEF SalesInv
<1>2. ASSUME NEW e \in holds[s], NEW S \in SUBSET TypesOf(e)
      PROVE  Total(Quantities, S)' = Total(Quantities, S)
  <2>1. \A y \in S : y \in Type /\ Quantities'[y] = Quantities[y]
    BY <1>2 DEF TypesKept, TypesOf, Quantities
  <2> QED BY <2>1, TotalSame DEF Total
<1>3. KnowsUpdate(s)'
  <2> SUFFICES ASSUME tx[s].op = "update" PROVE KnowsUpdate(s)'
    BY DEF KnowsUpdate
  <2>1. tx[s].event \in Event \cap holds[s]
    BY <1>1 DEF Knows, KnowsUpdate
  <2>2. Total(Quantities, TypesOf(tx[s].event))' = Total(Quantities, TypesOf(tx[s].event))
    BY <1>2, <2>1 DEF Total, TypesOf
  <2> QED BY <1>1, <2>1, <2>2 DEF Knows, KnowsUpdate, EventsKept
<1>4. KnowsConfigure(s)'
  <2> SUFFICES ASSUME tx[s].op = "configure" PROVE KnowsConfigure(s)'
    BY DEF KnowsConfigure
  <2> DEFINE y == tx[s].type
             e == tx[s].event
  <2>1. y \in Type /\ e = EventOf[y] /\ e \in Event \cap holds[s]
    BY <1>1, SalesAssumption DEF Knows, KnowsConfigure
  <2>2. Total(Quantities, TypesOf(e) \ {y})' = Total(Quantities, TypesOf(e) \ {y})
    BY <1>2, <2>1 DEF Total, TypesOf
  <2>3. type'[y] = type[y] /\ event'[e].status = event[e].status
                           /\ event'[e].capacity = event[e].capacity
    BY <1>1, <2>1 DEF TypesKept, EventsKept, Knows, KnowsConfigure
  <2> QED BY <1>1, <2>1, <2>2, <2>3 DEF Knows, KnowsConfigure
<1>5. KnowsPublish(s)' /\ KnowsCancel(s)'
  <2>1. KnowsCancel(s)'
    BY <1>1 DEF Knows, KnowsCancel, EventsKept
  <2>2. ASSUME tx[s].op = "publish"
        PROVE  /\ tx[s].event \in Event \cap holds[s]
               /\ event'[tx[s].event].status = "DRAFT"
               /\ \E y \in TypesOf(tx[s].event) : type'[y].status = "ACTIVE"
    <3>1. /\ tx[s].event \in Event \cap holds[s]
          /\ event[tx[s].event].status = "DRAFT"
      BY <1>1, <2>2 DEF Knows, KnowsPublish
    <3>2. PICK y \in TypesOf(tx[s].event) : type[y].status = "ACTIVE"
      BY <1>1, <2>2 DEF Knows, KnowsPublish
    <3>3. type'[y] = type[y]
      BY <3>1, <3>2 DEF TypesKept, TypesOf
    <3> QED BY <3>1, <3>2, <3>3 DEF EventsKept
  <2>3. KnowsPublish(s)'
    BY <2>2 DEF KnowsPublish, TypesOf
  <2> QED BY <2>1, <2>3
<1>6. KnowsIssue(s)'
  <2> SUFFICES ASSUME tx[s].op = "issue" PROVE KnowsIssue(s)'
    BY DEF KnowsIssue
  <2> DEFINE y == tx[s].type
             e == tx[s].event
  <2>1. /\ y \in Type /\ e = EventOf[y] /\ e \in Event \cap holds[s]
        /\ event[e].status = "PUBLISHED" /\ tx[s].n \in Units
        /\ y \in holds[s] =>
              type[y].status = "ACTIVE" /\ type[y].sold + tx[s].n <= type[y].quantity
    BY <1>1, SalesAssumption DEF Knows, KnowsIssue
  <2>2. event'[e].status = "PUBLISHED" /\ type'[y] = type[y]
    BY <2>1 DEF EventsKept, TypesKept
  <2> QED BY <2>1, <2>2 DEF KnowsIssue
<1>7. KnowsFulfil(s)' /\ KnowsOrder(s)'
  BY <1>1 DEF Knows, KnowsFulfil, KnowsOrder, TypesKept, OrdersKept
<1> QED BY <1>3, <1>4, <1>5, <1>6, <1>7 DEF Knows

\* A step that changes no table.
LEMMA QuietStep ==
    ASSUME SalesInv, NEW s \in Request, UNCHANGED tables, TypeOK', Only(s), Knows(s)',
           \A o \in Request \ {s} : holds'[s] \cap holds[o] = {},
           \A x \in Order : Paying(x)' \subseteq Paying(x)
    PROVE  SalesInv'
<1>1. LocksExclusive'
  BY DEF SalesInv, LocksExclusive, Only
<1>2. \A o \in Request : Knows(o)'
  <2> SUFFICES ASSUME NEW o \in Request \ {s} PROVE Knows(o)'
    OBVIOUS
  <2>1. EventsKept(o) /\ TypesKept(o) /\ OrdersKept
    BY DEF EventsKept, TypesKept, OrdersKept, tables
  <2> QED BY <2>1, KnowsKept DEF Only
<1>3. StockOK' /\ InventoryFits' /\ OrdersOK'
  <2>1. StockOK' /\ OrdersOK'
    BY DEF SalesInv, tables, StockOK, OrdersOK
  <2>2. InventoryFits'
    <3>1. Quantities' = Quantities
      BY DEF tables, Quantities
    <3> QED BY <3>1 DEF SalesInv, tables, InventoryFits, Total
  <2> QED BY <2>1, <2>2
<1>4. ChargesOK'
  <2> SUFFICES ASSUME NEW x \in Order
               PROVE  bought[x] + Cardinality(Paying(x)') <= charged[x]
    BY DEF ChargesOK, tables
  <2>1. IsFiniteSet(Paying(x))
    BY SalesAssumption, FS_Subset DEF Paying
  <2>2. Cardinality(Paying(x)') <= Cardinality(Paying(x)) /\ Cardinality(Paying(x)') \in Nat
        /\ Cardinality(Paying(x)) \in Nat
    BY <2>1, FS_Subset, FS_CardinalityType
  <2>3. bought[x] \in Nat /\ charged[x] \in Nat
    BY SalesAssumption DEF SalesInv, TypeOK
  <2> QED BY <2>2, <2>3 DEF SalesInv, ChargesOK
<1> QED BY <1>1, <1>2, <1>3, <1>4 DEF SalesInv

\* A step that ends what a request was doing.
LEMMA EndStep ==
    ASSUME SalesInv, NEW s \in Request, End(s), TypeOK',
           \A o \in Request \ {s} : EventsKept(o) /\ TypesKept(o), OrdersKept,
           StockOK', InventoryFits', ChargesOK', OrdersOK'
    PROVE  SalesInv'
<1>1. Only(s) /\ tx'[s] = NoTx /\ holds'[s] = {}
  BY DEF End, Only, SalesInv, TypeOK
<1>2. LocksExclusive'
  BY <1>1 DEF SalesInv, LocksExclusive, Only
<1>3. ASSUME NEW o \in Request \ {s} PROVE Knows(o)'
  BY <1>1, KnowsKept DEF Only
<1>4. Knows(s)'
  BY <1>1 DEF Knows, KnowsUpdate, KnowsConfigure, KnowsPublish, KnowsCancel, KnowsIssue,
              KnowsFulfil, KnowsOrder, Doing, NoTx
<1> QED BY <1>2, <1>3, <1>4 DEF SalesInv

-----------------------------------------------------------------------------
(* Steps that lock a row, or change nothing but what a request is doing. *)

Steps == [op : {"idle"} \cup Operations, event : Event \cup {None},
          type : Type \cup {None}, order : Order \cup {None}, n : 0..MaxUnits,
          status : {"NONE", "ACTIVE", "INACTIVE"}]

\* Doing nothing is one of the things a request does.
LEMMA NoTxType == NoTx \in Steps
BY SalesAssumption DEF NoTx, Steps, Operations

\* What requests do, and the rows they lock, have their types.
LEMMA TxType ==
    ASSUME SalesInv
    PROVE  tx \in [Request -> Steps] /\ holds \in [Request -> SUBSET (Event \cup Type)]
BY DEF SalesInv, TypeOK, Steps

EventRows == [status : {"NONE", "DRAFT", "PUBLISHED", "CANCELLED"},
              capacity : 0..MaxUnits, ended : BOOLEAN]

TypeRows == [status : {"NONE", "ACTIVE", "INACTIVE"}, quantity : 0..MaxUnits, sold : Nat]

OrderRows == [status : {"NONE", "PENDING", "CONFIRMED", "EXPIRED"},
              wants : [Type -> 0..MaxUnits], due : BOOLEAN,
              payment : {"PENDING", "SUCCEEDED"}]

\* The rows of every table have their types.
LEMMA TableTypes ==
    ASSUME SalesInv
    PROVE  /\ event \in [Event -> EventRows] /\ type \in [Type -> TypeRows]
           /\ order \in [Order -> OrderRows] /\ live \in [Type -> Nat]
           /\ bought \in [Order -> Nat] /\ charged \in [Order -> 0..MaxCharges]
BY DEF SalesInv, TypeOK, EventRows, TypeRows, OrderRows

\* A step that leaves the tables alone has only requests to type.
LEMMA TablesKeepTypes ==
    ASSUME SalesInv, UNCHANGED tables, tx' \in [Request -> Steps],
           holds' \in [Request -> SUBSET (Event \cup Type)]
    PROVE  TypeOK'
BY DEF SalesInv, TypeOK, Steps, tables

\* Free means what it says.
LEMMA FreeRow ==
    ASSUME NEW s \in Request, NEW r, Free(s, r)
    PROVE  \A o \in Request \ {s} : r \notin holds[o]
BY DEF Free

\* Opening a transaction on a free event: everybody else knows what it knew.
LEMMA BeginStep ==
    ASSUME SalesInv, NEW s \in Request, NEW e \in Event, NEW todo \in Steps,
           Begin(s, e, todo), todo.op \in {"update", "configure", "publish", "cancel", "issue"},
           Knows(s)'
    PROVE  SalesInv'
<1>1. UNCHANGED tables /\ Only(s) /\ tx'[s] = todo /\ holds'[s] = {e}
  BY TxType DEF Begin, Only
<1>2. TypeOK'
  <2>1. tx' \in [Request -> Steps] /\ holds' \in [Request -> SUBSET (Event \cup Type)]
    BY TxType DEF Begin
  <2> QED BY <1>1, <2>1, TablesKeepTypes
<1>3. \A o \in Request \ {s} : holds'[s] \cap holds[o] = {}
  BY <1>1, FreeRow DEF Begin
<1>4. \A x \in Order : Paying(x)' \subseteq Paying(x)
  BY <1>1 DEF Paying, Only
<1> QED BY <1>1, <1>2, <1>3, <1>4, QuietStep

\* Locking one more free row.
LEMMA LockStep ==
    ASSUME SalesInv, NEW s \in Request, NEW r \in Event \cup Type, LockMore(s, r), Knows(s)'
    PROVE  SalesInv'
<1>1. UNCHANGED tables /\ Only(s) /\ tx' = tx /\ holds'[s] = holds[s] \cup {r}
  BY TxType DEF LockMore, Only
<1>2. TypeOK'
  <2>1. holds' \in [Request -> SUBSET (Event \cup Type)]
    BY TxType DEF LockMore
  <2> QED BY <1>1, <2>1, TxType, TablesKeepTypes
<1>3. \A o \in Request \ {s} : holds'[s] \cap holds[o] = {}
  BY <1>1, FreeRow DEF LockMore, SalesInv, LocksExclusive
<1>4. \A x \in Order : Paying(x)' \subseteq Paying(x)
  BY <1>1 DEF Paying
<1> QED BY <1>1, <1>2, <1>3, <1>4, QuietStep

\* The facts about the other things a request may be doing hold vacuously.
LEMMA KnowsOne ==
    ASSUME NEW s \in Request, KnowsOrder(s)',
           \/ tx'[s].op = "update" /\ KnowsUpdate(s)'
           \/ tx'[s].op = "configure" /\ KnowsConfigure(s)'
           \/ tx'[s].op = "publish" /\ KnowsPublish(s)'
           \/ tx'[s].op = "cancel" /\ KnowsCancel(s)'
           \/ tx'[s].op = "issue" /\ KnowsIssue(s)'
           \/ tx'[s].op = "fulfil" /\ KnowsFulfil(s)'
           \/ tx'[s].op \in {"idle", "charge", "lapse", "recheck"}
    PROVE  Knows(s)'
BY DEF Knows, Doing, KnowsUpdate, KnowsConfigure, KnowsPublish, KnowsCancel, KnowsIssue,
       KnowsFulfil

\* A transaction that starts with an event has no type and no order yet.
LEMMA OnlyEventLocked ==
    ASSUME NEW s \in Request, NEW e \in Event, holds'[s] = {e},
           tx'[s].op \in {"update", "configure", "publish", "cancel", "issue"}
    PROVE  KnowsOrder(s)' /\ \A y \in Type : y \notin holds'[s]
BY SalesAssumption DEF KnowsOrder

\* What such a transaction is to do.
LEMMA TodoEvent ==
    ASSUME NEW o \in Operations, NEW e \in Event
    PROVE  [NoTx EXCEPT !.op = o, !.event = e] \in Steps
<1>1. [NoTx EXCEPT !.op = o] \in Steps
  BY NoTxType DEF Steps
<1> QED BY <1>1 DEF Steps

\* updateEvent finds a draft whose types fit the new capacity.
LEMMA UpdateLockKeeps ==
    ASSUME SalesInv, NEW s \in Request, NEW e \in Event, NEW c \in Units, UpdateLock(s, e, c)
    PROVE  SalesInv'
<1> DEFINE todo == [NoTx EXCEPT !.op = "update", !.event = e, !.n = c]
<1>1. todo \in Steps /\ todo.op = "update" /\ todo.event = e /\ todo.n = c
  <2>1. "update" \in Operations /\ c \in 0..MaxUnits
    BY SalesAssumption DEF Operations, Units
  <2>2. [NoTx EXCEPT !.op = "update", !.event = e] \in Steps
    BY <2>1, TodoEvent
  <2>3. todo \in Steps
    BY <2>1, <2>2 DEF Steps
  <2> QED BY <2>3, NoTxType DEF Steps
<1>2. tx'[s] = todo /\ holds'[s] = {e} /\ UNCHANGED tables
  BY TxType DEF UpdateLock, Begin
<1>3. KnowsUpdate(s)'
  BY <1>1, <1>2 DEF UpdateLock, KnowsUpdate, tables, Total, Quantities
<1>4. Knows(s)'
  BY <1>1, <1>2, <1>3, OnlyEventLocked, KnowsOne
<1> QED BY <1>1, <1>4, BeginStep DEF UpdateLock

\* Both handlers of a type find a draft with room for the new quantity.
LEMMA ConfigureLockKeeps ==
    ASSUME SalesInv, NEW s \in Request, NEW y \in Type, NEW q \in Units,
           NEW st \in {"ACTIVE", "INACTIVE"},
           (CreateTypeLock(s, y, q) /\ st = "ACTIVE") \/ UpdateTypeLock(s, y, q, st)
    PROVE  SalesInv'
<1> DEFINE e == EventOf[y]
           todo == [op |-> "configure", event |-> e, type |-> y, order |-> None,
                    n |-> q, status |-> st]
<1>1. todo \in Steps /\ e \in Event
  BY SalesAssumption DEF Steps, Operations, Units
<1>2. Begin(s, e, todo) /\ event[e].status = "DRAFT" /\ type[y].sold <= q
  <2>1. CASE CreateTypeLock(s, y, q) /\ st = "ACTIVE"
    <3>1. type[y].sold = 0 /\ q \in Nat
      BY <2>1, SalesAssumption DEF CreateTypeLock, SalesInv, StockOK, TypeOK, Units
    <3> QED BY <2>1, <3>1 DEF CreateTypeLock
  <2>2. CASE UpdateTypeLock(s, y, q, st)
    BY <2>2 DEF UpdateTypeLock, SalesInv, TypeOK, Units
  <2> QED BY <2>1, <2>2
<1>3. Total(Quantities, TypesOf(e) \ {y}) + q <= event[e].capacity
  <2>1. CASE CreateTypeLock(s, y, q) /\ st = "ACTIVE"
    <3>1. Quantities \in [Type -> 0..MaxUnits] /\ y \in TypesOf(e) /\ Quantities[y] = 0
      BY <2>1, QuantitiesType DEF CreateTypeLock, SalesInv, TypesOf, Quantities
    <3>2. Total(Quantities, TypesOf(e)) = Total(Quantities, TypesOf(e) \ {y}) + 0
      BY <3>1, TotalSplit DEF TypesOf
    <3>3. Total(Quantities, TypesOf(e) \ {y}) \in Nat
      BY <3>1, TotalType DEF TypesOf
    <3> QED BY <2>1, <3>2, <3>3 DEF CreateTypeLock
  <2>2. CASE UpdateTypeLock(s, y, q, st)
    BY <2>2 DEF UpdateTypeLock
  <2> QED BY <2>1, <2>2
<1>4. tx'[s] = todo /\ holds'[s] = {e} /\ UNCHANGED tables
  BY <1>2, TxType DEF Begin
<1>5. KnowsConfigure(s)'
  BY <1>1, <1>2, <1>3, <1>4 DEF KnowsConfigure, tables, Total, Quantities
<1>6. Knows(s)'
  BY <1>1, <1>4, <1>5, OnlyEventLocked, KnowsOne
<1> QED BY <1>1, <1>2, <1>6, BeginStep

\* publishEvent finds a draft with something to sell.
LEMMA PublishLockKeeps ==
    ASSUME SalesInv, NEW s \in Request, NEW e \in Event, PublishLock(s, e)
    PROVE  SalesInv'
<1> DEFINE todo == [NoTx EXCEPT !.op = "publish", !.event = e]
<1>1. todo \in Steps /\ todo.op = "publish" /\ todo.event = e
  <2>1. "publish" \in Operations
    BY DEF Operations
  <2>2. todo \in Steps
    BY <2>1, TodoEvent
  <2> QED BY <2>2, NoTxType DEF Steps
<1>2. tx'[s] = todo /\ holds'[s] = {e} /\ UNCHANGED tables
  BY TxType DEF PublishLock, Begin
<1>3. KnowsPublish(s)'
  BY <1>1, <1>2 DEF PublishLock, KnowsPublish, tables
<1>4. Knows(s)'
  BY <1>1, <1>2, <1>3, OnlyEventLocked, KnowsOne
<1> QED BY <1>1, <1>4, BeginStep DEF PublishLock

\* cancelEvent finds an event that was not cancelled.
LEMMA CancelLockKeeps ==
    ASSUME SalesInv, NEW s \in Request, NEW e \in Event, CancelLock(s, e)
    PROVE  SalesInv'
<1> DEFINE todo == [NoTx EXCEPT !.op = "cancel", !.event = e]
<1>1. todo \in Steps /\ todo.op = "cancel" /\ todo.event = e
  <2>1. "cancel" \in Operations
    BY DEF Operations
  <2>2. todo \in Steps
    BY <2>1, TodoEvent
  <2> QED BY <2>2, NoTxType DEF Steps
<1>2. tx'[s] = todo /\ holds'[s] = {e} /\ UNCHANGED tables
  BY TxType DEF CancelLock, Begin
<1>3. KnowsCancel(s)'
  BY <1>1, <1>2 DEF KnowsCancel, CancelLock, tables
<1>4. Knows(s)'
  BY <1>1, <1>2, <1>3, OnlyEventLocked, KnowsOne
<1> QED BY <1>1, <1>4, BeginStep DEF CancelLock

\* issue locks the type's event first.
LEMMA IssueLockKeeps ==
    ASSUME SalesInv, NEW s \in Request, NEW y \in Type, NEW n \in Units, IssueLock(s, y, n)
    PROVE  SalesInv'
<1> DEFINE e == EventOf[y]
           todo == [NoTx EXCEPT !.op = "issue", !.event = e, !.type = y, !.n = n]
<1>1. /\ todo \in Steps /\ e \in Event /\ todo.op = "issue" /\ todo.event = e
      /\ todo.type = y /\ todo.n = n
  <2>1. "issue" \in Operations /\ n \in 0..MaxUnits /\ e \in Event
    BY SalesAssumption DEF Operations, Units
  <2>2. [NoTx EXCEPT !.op = "issue", !.event = e] \in Steps
    BY <2>1, TodoEvent
  <2>3. [NoTx EXCEPT !.op = "issue", !.event = e, !.type = y] \in Steps
    BY <2>2 DEF Steps
  <2>4. todo \in Steps
    BY <2>1, <2>3 DEF Steps
  <2> QED BY <2>1, <2>4, NoTxType DEF Steps
<1>2. tx'[s] = todo /\ holds'[s] = {e} /\ UNCHANGED tables
  BY TxType DEF IssueLock, Begin
<1>3. KnowsIssue(s)'
  BY <1>1, <1>2, OnlyEventLocked DEF KnowsIssue, IssueLock, tables
<1>4. Knows(s)'
  BY <1>1, <1>2, <1>3, OnlyEventLocked, KnowsOne
<1> QED BY <1>1, <1>4, BeginStep DEF IssueLock

\* issue finds stock left under the lock of the type.
LEMMA IssueLockTypeKeeps ==
    ASSUME SalesInv, NEW s \in Request, IssueLockType(s)
    PROVE  SalesInv'
<1> DEFINE y == tx[s].type
<1>1. Knows(s) /\ tx[s].op = "issue" /\ y \in Type
  BY DEF SalesInv, IssueLockType, Doing, Knows, KnowsIssue
<1>2. tx' = tx /\ holds'[s] = holds[s] \cup {y} /\ UNCHANGED tables
  BY TxType DEF IssueLockType, LockMore
<1>3. KnowsIssue(s)'
  BY <1>1, <1>2 DEF Knows, KnowsIssue, IssueLockType, Doing, tables
<1>4. KnowsOrder(s)'
  BY <1>1, <1>2 DEF KnowsOrder
<1>5. Knows(s)'
  BY <1>1, <1>2, <1>3, <1>4, KnowsOne
<1> QED BY <1>1, <1>5, LockStep DEF IssueLockType

\* A payment locks the event of a type it is going to issue.
LEMMA PayLockEventKeeps ==
    ASSUME SalesInv, NEW s \in Request, PayLockEvent(s)
    PROVE  SalesInv'
<1>1. PICK y \in Wanted(tx[s].order) : LockMore(s, EventOf[y])
  BY DEF PayLockEvent
<1>2. Knows(s) /\ tx[s].op = "fulfil" /\ EventOf[y] \in Event
  BY SalesAssumption DEF SalesInv, PayLockEvent, Doing, Wanted
<1>3. tx' = tx /\ holds'[s] = holds[s] \cup {EventOf[y]} /\ UNCHANGED tables
  BY <1>1, TxType DEF LockMore
<1>4. KnowsFulfil(s)'
  BY <1>2, <1>3, SalesAssumption DEF Knows, KnowsFulfil, Doing, tables
<1>5. KnowsOrder(s)'
  BY <1>2, <1>3 DEF Knows, KnowsOrder, tables
<1>6. Knows(s)'
  BY <1>2, <1>3, <1>4, <1>5, KnowsOne
<1> QED BY <1>1, <1>2, <1>6, LockStep

\* A payment finds stock left under the lock of the type.
LEMMA PayLockTypeKeeps ==
    ASSUME SalesInv, NEW s \in Request, PayLockType(s)
    PROVE  SalesInv'
<1> DEFINE o == tx[s].order
<1>1. PICK y \in Wanted(o) : /\ EventOf[y] \in holds[s] /\ LockMore(s, y)
                             /\ type[y].status = "ACTIVE"
                             /\ type[y].sold + order[o].wants[y] <= type[y].quantity
  BY DEF PayLockType
<1>2. Knows(s) /\ tx[s].op = "fulfil" /\ y \in Type
  BY DEF SalesInv, PayLockType, Doing, Wanted
<1>3. tx' = tx /\ holds'[s] = holds[s] \cup {y} /\ UNCHANGED tables
  BY <1>1, TxType DEF LockMore
<1>4. KnowsFulfil(s)'
  BY <1>1, <1>2, <1>3 DEF Knows, KnowsFulfil, Doing, tables
<1>5. KnowsOrder(s)'
  BY <1>2, <1>3 DEF Knows, KnowsOrder, tables
<1>6. Knows(s)'
  BY <1>2, <1>3, <1>4, <1>5, KnowsOne
<1> QED BY <1>1, <1>2, <1>6, LockStep

\* A request goes on to the next part of its handler.
LEMMA GotoStep ==
    ASSUME SalesInv, NEW s \in Request, UNCHANGED tables, holds' = holds, NEW t \in Steps,
           tx' = [tx EXCEPT ![s] = t], Knows(s)',
           t.op \in {"recheck", "fulfil"} => t.order = tx[s].order /\ tx[s].op = "recheck"
    PROVE  SalesInv'
<1>1. Only(s) /\ tx'[s] = t
  BY TxType DEF Only
<1>2. TypeOK'
  BY TxType, TablesKeepTypes
<1>3. \A o \in Request \ {s} : holds'[s] \cap holds[o] = {}
  BY DEF SalesInv, LocksExclusive
<1>4. \A x \in Order : Paying(x)' \subseteq Paying(x)
  BY <1>1 DEF Paying, Only
<1> QED BY <1>1, <1>2, <1>3, <1>4, QuietStep

\* A handler that answers without having written anything.
LEMMA EndQuietly ==
    ASSUME SalesInv, NEW s \in Request, UNCHANGED tables, End(s)
    PROVE  SalesInv'
<1>1. tx'[s] = NoTx /\ holds'[s] = {} /\ Only(s)
  BY TxType DEF End, Only
<1>2. TypeOK'
  <2>1. tx' \in [Request -> Steps] /\ holds' \in [Request -> SUBSET (Event \cup Type)]
    BY TxType, NoTxType DEF End
  <2> QED BY <2>1, TablesKeepTypes
<1>3. \A x \in Order : Paying(x)' \subseteq Paying(x)
  BY <1>1 DEF Paying, Only, NoTx
<1>4. Knows(s)'
  BY <1>1, KnowsOne DEF KnowsOrder, NoTx
<1> QED BY <1>1, <1>2, <1>3, <1>4, QuietStep

\* pay reads the order outside any transaction.
LEMMA PayReadKeeps ==
    ASSUME SalesInv, NEW s \in Request, NEW o \in Order, PayRead(s, o)
    PROVE  SalesInv'
<1>1. PICK p \in {"lapse", "charge"} :
        tx' = [tx EXCEPT ![s] = [NoTx EXCEPT !.order = o, !.op = p]]
  BY DEF PayRead
<1> DEFINE t == [NoTx EXCEPT !.order = o, !.op = p]
<1>2. t \in Steps /\ t.op = p /\ t.order = o
  <2>1. [NoTx EXCEPT !.order = o] \in Steps
    BY NoTxType DEF Steps
  <2>2. p \in Operations
    BY DEF Operations
  <2>3. t \in Steps
    BY <2>1, <2>2 DEF Steps
  <2> QED BY <2>3, NoTxType DEF Steps
<1>3. holds' = holds /\ UNCHANGED tables /\ holds[s] = {} /\ order[o].status # "NONE"
  BY DEF PayRead, Idle, SalesInv, Knows, KnowsOrder
<1>4. tx'[s] = t
  BY <1>1, TxType
<1>5. Knows(s)'
  BY <1>2, <1>3, <1>4, KnowsOne DEF KnowsOrder, tables
<1> QED BY <1>1, <1>2, <1>3, <1>5, GotoStep

\* pay reads the order again, and gives up or goes on to fulfil it.
LEMMA PayRecheckKeeps ==
    ASSUME SalesInv, NEW s \in Request, PayRecheck(s)
    PROVE  SalesInv'
<1>1. CASE End(s)
  BY <1>1, EndQuietly DEF PayRecheck
<1>2. CASE Goto(s, "fulfil")
  <2> DEFINE t == [tx[s] EXCEPT !.op = "fulfil"]
  <2>1. t \in Steps /\ t.op = "fulfil" /\ t.order = tx[s].order
    <3>1. tx[s] \in Steps /\ "fulfil" \in Operations
      BY TxType DEF Operations
    <3> QED BY <3>1 DEF Steps
  <2>2. tx' = [tx EXCEPT ![s] = t] /\ holds' = holds /\ UNCHANGED tables
        /\ tx[s].op = "recheck" /\ Knows(s)
    BY <1>2 DEF Goto, PayRecheck, Doing, SalesInv
  <2>3. tx'[s] = t /\ holds[s] = {}
    BY <2>2, TxType DEF Knows, KnowsOrder
  <2>4. KnowsFulfil(s)' /\ KnowsOrder(s)'
    BY <2>1, <2>2, <2>3 DEF Knows, KnowsFulfil, KnowsOrder, tables
  <2>5. Knows(s)'
    BY <2>1, <2>3, <2>4, KnowsOne
  <2> QED BY <2>1, <2>2, <2>5, GotoStep
<1> QED BY <1>1, <1>2 DEF PayRecheck

\* A transaction that fails leaves nothing behind.
LEMMA RollbackKeeps ==
    ASSUME SalesInv, NEW s \in Request, Rollback(s)
    PROVE  SalesInv'
BY EndQuietly DEF Rollback

-----------------------------------------------------------------------------
(* Steps that write a table. *)

\* Room and stock stay as they were, and so does what they add up to.
LEMMA RoomKept ==
    ASSUME SalesInv,
           \A e \in Event : event'[e].status = "NONE" => event[e].status = "NONE",
           \A e \in Event : event'[e].capacity = event[e].capacity,
           type' = type
    PROVE  StockOK' /\ InventoryFits'
<1>1. Quantities' = Quantities
  BY DEF Quantities
<1>2. InventoryFits'
  BY <1>1 DEF SalesInv, InventoryFits, Total
<1> QED BY <1>2 DEF SalesInv, StockOK

\* A step of no request that spares what requests rely on.
LEMMA OutsideStep ==
    ASSUME SalesInv, UNCHANGED <<holds, tx>>, TypeOK',
           \A s \in Request : EventsKept(s) /\ TypesKept(s), OrdersKept,
           UNCHANGED <<bought, charged>>, StockOK', InventoryFits', OrdersOK'
    PROVE  SalesInv'
<1>1. LocksExclusive'
  BY DEF SalesInv, LocksExclusive
<1>2. \A s \in Request : Knows(s)'
  BY KnowsKept
<1>3. ChargesOK'
  BY DEF SalesInv, ChargesOK, Paying
<1> QED BY <1>1, <1>2, <1>3 DEF SalesInv

\* A new event has no types yet.
LEMMA CreateEventKeeps ==
    ASSUME SalesInv, NEW e \in Event, NEW c \in Units, CreateEvent(e, c)
    PROVE  SalesInv'
<1>1. PICK past \in BOOLEAN :
        event' = [event EXCEPT ![e] = [status |-> "DRAFT", capacity |-> c, ended |-> past]]
  BY DEF CreateEvent
<1>2. c \in 0..MaxUnits /\ c \in Nat /\ event \in [Event -> EventRows]
  BY SalesAssumption, TableTypes DEF Units
<1>3. TypeOK'
  BY <1>1, <1>2 DEF CreateEvent, SalesInv, TypeOK, EventRows
<1>4. \A f \in Event \ {e} : event'[f] = event[f]
  BY <1>1, <1>2
<1>5. event'[e].capacity = c /\ event'[e].status = "DRAFT" /\ event[e].status = "NONE"
  BY <1>1, <1>2 DEF CreateEvent, EventRows
<1>6. \A s \in Request : EventsKept(s) /\ TypesKept(s)
  BY <1>4, <1>5 DEF EventsKept, TypesKept, CreateEvent
<1>7. OrdersKept /\ OrdersOK' /\ UNCHANGED <<type, holds, tx, bought, charged>>
  BY DEF OrdersKept, CreateEvent, SalesInv, OrdersOK
<1>8. StockOK'
  BY <1>4, <1>5, <1>7 DEF SalesInv, StockOK
<1>9. InventoryFits'
  <2>1. Quantities' = Quantities
    BY <1>7 DEF Quantities
  <2> SUFFICES ASSUME NEW f \in Event
               PROVE  Total(Quantities, TypesOf(f)) <= event'[f].capacity
    BY <2>1 DEF InventoryFits, Total
  <2>2. CASE f # e
    BY <1>4, <2>2 DEF SalesInv, InventoryFits
  <2>3. CASE f = e
    <3>1. Total(Quantities, TypesOf(e)) <= 0
      BY <1>5 DEF SalesInv, StockOK, InventoryFits
    <3>2. Total(Quantities, TypesOf(e)) \in Nat
      BY QuantitiesType, TotalType DEF SalesInv, TypesOf
    <3> QED BY <1>2, <1>5, <2>3, <3>1, <3>2
  <2> QED BY <2>2, <2>3
<1> QED BY <1>3, <1>6, <1>7, <1>8, <1>9, OutsideStep

\* Time passing changes no status and no capacity.
LEMMA EventEndsKeeps ==
    ASSUME SalesInv, NEW e \in Event, EventEnds(e)
    PROVE  SalesInv'
<1>1. \A f \in Event : /\ event'[f].status = event[f].status
                       /\ event'[f].capacity = event[f].capacity
  BY DEF EventEnds, SalesInv, TypeOK
<1>2. TypeOK'
  <2>1. event' \in [Event -> EventRows]
    BY TableTypes DEF EventEnds, EventRows
  <2> QED BY <2>1 DEF EventEnds, SalesInv, TypeOK, EventRows
<1>3. UNCHANGED <<type, order, bought, charged, holds, tx>>
  BY DEF EventEnds
<1>4. \A s \in Request : EventsKept(s) /\ TypesKept(s)
  BY <1>1, <1>3 DEF EventsKept, TypesKept
<1>5. OrdersKept /\ OrdersOK'
  BY <1>3 DEF OrdersKept, SalesInv, OrdersOK
<1> QED BY <1>1, <1>2, <1>3, <1>4, <1>5, RoomKept, OutsideStep

\* Only the orders are written.
LEMMA OrderStep ==
    ASSUME SalesInv, UNCHANGED <<event, type, live, bought, charged, holds, tx>>,
           TypeOK', OrdersKept, OrdersOK'
    PROVE  SalesInv'
<1>1. \A s \in Request : EventsKept(s) /\ TypesKept(s)
  BY DEF EventsKept, TypesKept
<1> QED BY <1>1, RoomKept, OutsideStep

\* An order past its time keeps its status until somebody looks.
LEMMA OrderLapsesKeeps ==
    ASSUME SalesInv, NEW o \in Order, OrderLapses(o)
    PROVE  SalesInv'
<1>1. TypeOK'
  <2>1. order' \in [Order -> OrderRows]
    BY TableTypes DEF OrderLapses, OrderRows
  <2> QED BY <2>1 DEF OrderLapses, SalesInv, TypeOK, OrderRows
<1>2. \A x \in Order : /\ order'[x].status = order[x].status /\ order'[x].wants = order[x].wants
                       /\ order'[x].payment = order[x].payment
  BY DEF OrderLapses, SalesInv, TypeOK
<1>3. OrdersKept /\ OrdersOK'
  BY <1>2 DEF OrdersKept, SalesInv, OrdersOK, OrderLapses
<1> QED BY <1>1, <1>3, OrderStep DEF OrderLapses

\* A new order is pending, unpaid, and has bought nothing.
LEMMA CheckoutKeeps ==
    ASSUME SalesInv, NEW s \in Request, NEW o \in Order, NEW e \in Event,
           NEW w \in [Type -> 0..MaxUnits], Checkout(s, o, e, w)
    PROVE  SalesInv'
<1>1. order' = [order EXCEPT ![o] = [status |-> "PENDING", wants |-> w, due |-> FALSE,
                                     payment |-> "PENDING"]]
      /\ order[o].status = "NONE" /\ UNCHANGED <<event, type, live, bought, charged, holds, tx>>
  BY DEF Checkout
<1>2. TypeOK'
  BY <1>1 DEF SalesInv, TypeOK
<1>3. OrdersKept /\ OrdersOK'
  BY <1>1 DEF OrdersKept, SalesInv, OrdersOK, TypeOK
<1> QED BY <1>1, <1>2, <1>3, OrderStep

-----------------------------------------------------------------------------
(* Commits. *)

\* A request that ends is idle and holds nothing.
LEMMA EndTypes ==
    ASSUME SalesInv, NEW s \in Request, End(s)
    PROVE  tx' \in [Request -> Steps] /\ holds' \in [Request -> SUBSET (Event \cup Type)]
BY TxType, NoTxType DEF End

\* The types of the variables, put together.
LEMMA TypesMakeTypeOK ==
    ASSUME tx' \in [Request -> Steps], holds' \in [Request -> SUBSET (Event \cup Type)],
           event' \in [Event -> EventRows], type' \in [Type -> TypeRows],
           order' \in [Order -> OrderRows], live' \in [Type -> Nat],
           bought' \in [Order -> Nat], charged' \in [Order -> 0..MaxCharges]
    PROVE  TypeOK'
BY DEF TypeOK, Steps, EventRows, TypeRows, OrderRows

\* A payment that ends has one charge less to account for.
LEMMA PayingEnds ==
    ASSUME SalesInv, NEW s \in Request, End(s), NEW x \in Order
    PROVE  /\ Paying(x)' = Paying(x) \ {s}
           /\ IsFiniteSet(Paying(x)) /\ Cardinality(Paying(x)) \in Nat
           /\ Cardinality(Paying(x)') =
                 IF s \in Paying(x) THEN Cardinality(Paying(x)) - 1 ELSE Cardinality(Paying(x))
<1>1. Paying(x)' = Paying(x) \ {s}
  <2>1. tx'[s] = NoTx /\ \A o \in Request \ {s} : tx'[o] = tx[o]
    BY TxType DEF End
  <2> QED BY <2>1 DEF Paying, NoTx
<1>2. IsFiniteSet(Paying(x))
  BY SalesAssumption, FS_Subset DEF Paying
<1> QED BY <1>1, <1>2, FS_RemoveElement, FS_CardinalityType

\* One that ends without a purchase leaves a charge behind.
LEMMA ChargesKept ==
    ASSUME SalesInv, NEW s \in Request, End(s), UNCHANGED <<bought, charged>>
    PROVE  ChargesOK'
<1> SUFFICES ASSUME NEW x \in Order PROVE bought[x] + Cardinality(Paying(x)') <= charged[x]
  BY DEF ChargesOK
<1>1. bought[x] \in Nat /\ charged[x] \in Nat
  BY TableTypes, SalesAssumption
<1>2. bought[x] + Cardinality(Paying(x)) <= charged[x]
  BY DEF SalesInv, ChargesOK
<1> QED BY <1>1, <1>2, PayingEnds

\* A commit that writes one event that its request has locked.
LEMMA EventCommit ==
    ASSUME SalesInv, NEW s \in Request, End(s), NEW e \in Event \cap holds[s],
           NEW row \in EventRows, event' = [event EXCEPT ![e] = row],
           live' \in [Type -> Nat], UNCHANGED <<type, order, bought, charged>>,
           row.status # "NONE", Total(Quantities, TypesOf(e)) <= row.capacity
    PROVE  SalesInv'
<1>1. TypeOK'
  <2>1. event' \in [Event -> EventRows]
    BY TableTypes
  <2> QED BY <2>1, EndTypes, TableTypes, TypesMakeTypeOK
<1>2. ASSUME NEW o \in Request \ {s} PROVE EventsKept(o) /\ TypesKept(o)
  <2>1. e \notin holds[o]
    BY DEF SalesInv, LocksExclusive
  <2> QED BY <2>1, TableTypes DEF EventsKept, TypesKept
<1>3. StockOK' /\ OrdersKept /\ OrdersOK'
  BY TableTypes DEF SalesInv, StockOK, OrdersKept, OrdersOK
<1>4. InventoryFits'
  <2>1. Quantities' = Quantities
    BY DEF Quantities
  <2> SUFFICES ASSUME NEW f \in Event
               PROVE  Total(Quantities, TypesOf(f)) <= event'[f].capacity
    BY <2>1 DEF InventoryFits, Total
  <2> QED BY TableTypes DEF SalesInv, InventoryFits
<1> QED BY <1>1, <1>2, <1>3, <1>4, ChargesKept, EndStep

\* The new capacity was compared with the quantities under the lock.
LEMMA UpdateCommitKeeps ==
    ASSUME SalesInv, NEW s \in Request, UpdateCommit(s)
    PROVE  SalesInv'
<1> DEFINE e == tx[s].event
<1>1. PICK past \in BOOLEAN : event' = [event EXCEPT ![e].capacity = tx[s].n, ![e].ended = past]
  BY DEF UpdateCommit
<1> DEFINE row == [event[e] EXCEPT !.capacity = tx[s].n, !.ended = past]
<1>2. e \in Event \cap holds[s] /\ event[e].status = "DRAFT"
      /\ Total(Quantities, TypesOf(e)) <= tx[s].n
  BY DEF UpdateCommit, Doing, SalesInv, Knows, KnowsUpdate
<1>3. event[e] \in EventRows /\ tx[s].n \in 0..MaxUnits
  BY <1>2, TableTypes, TxType DEF Steps
<1>4. row \in EventRows /\ row.status = "DRAFT" /\ row.capacity = tx[s].n
  BY <1>2, <1>3 DEF EventRows
<1>5. event' = [event EXCEPT ![e] = row]
  BY <1>1, <1>2, TableTypes
<1> QED BY <1>2, <1>4, <1>5, TableTypes, EventCommit DEF UpdateCommit

\* Publishing changes the status only.
LEMMA PublishCommitKeeps ==
    ASSUME SalesInv, NEW s \in Request, PublishCommit(s)
    PROVE  SalesInv'
<1> DEFINE e == tx[s].event
           row == [event[e] EXCEPT !.status = "PUBLISHED"]
<1>1. e \in Event \cap holds[s]
  BY DEF PublishCommit, Doing, SalesInv, Knows, KnowsPublish
<1>2. event[e] \in EventRows
  BY <1>1, TableTypes
<1>3. row \in EventRows /\ row.status = "PUBLISHED" /\ row.capacity = event[e].capacity
  BY <1>2 DEF EventRows
<1>4. Total(Quantities, TypesOf(e)) <= event[e].capacity
  BY <1>1 DEF SalesInv, InventoryFits
<1> QED BY <1>1, <1>3, <1>4, TableTypes, EventCommit DEF PublishCommit

\* Cancelling changes the status only.
LEMMA CancelCommitKeeps ==
    ASSUME SalesInv, NEW s \in Request, CancelCommit(s)
    PROVE  SalesInv'
<1> DEFINE e == tx[s].event
           row == [event[e] EXCEPT !.status = "CANCELLED"]
<1>1. e \in Event \cap holds[s]
  BY DEF CancelCommit, Doing, SalesInv, Knows, KnowsCancel
<1>2. event[e] \in EventRows
  BY <1>1, TableTypes
<1>3. row \in EventRows /\ row.status = "CANCELLED" /\ row.capacity = event[e].capacity
  BY <1>2 DEF EventRows
<1>4. Total(Quantities, TypesOf(e)) <= event[e].capacity
  BY <1>1 DEF SalesInv, InventoryFits
<1>5. live' \in [Type -> Nat]
  BY TableTypes DEF CancelCommit
<1> QED BY <1>1, <1>3, <1>4, <1>5, TableTypes, EventCommit DEF CancelCommit

\* A commit that writes types whose events its request has locked.
LEMMA TypeCommit ==
    ASSUME SalesInv, NEW s \in Request, End(s), UNCHANGED <<event, charged>>,
           type' \in [Type -> TypeRows], live' \in [Type -> Nat],
           order' \in [Order -> OrderRows], bought' \in [Order -> Nat],
           \A y \in Type : type'[y] # type[y] => EventOf[y] \in holds[s],
           OrdersKept, OrdersOK', StockOK', InventoryFits', ChargesOK'
    PROVE  SalesInv'
<1>1. TypeOK'
  BY EndTypes, TableTypes, TypesMakeTypeOK
<1>2. ASSUME NEW o \in Request \ {s} PROVE EventsKept(o) /\ TypesKept(o)
  BY DEF SalesInv, LocksExclusive, EventsKept, TypesKept
<1> QED BY <1>1, <1>2, EndStep

\* The new quantity fits beside those of the other types.
LEMMA ConfigureCommitKeeps ==
    ASSUME SalesInv, NEW s \in Request, ConfigureCommit(s)
    PROVE  SalesInv'
<1> DEFINE y == tx[s].type
           e == tx[s].event
           q == tx[s].n
           row == [type[y] EXCEPT !.status = tx[s].status, !.quantity = q]
<1>1. /\ y \in Type /\ e = EventOf[y] /\ e \in Event \cap holds[s]
      /\ tx[s].status # "NONE" /\ type[y].sold <= q
      /\ Total(Quantities, TypesOf(e) \ {y}) + q <= event[e].capacity
  BY SalesAssumption DEF ConfigureCommit, Doing, SalesInv, Knows, KnowsConfigure
<1>2. q \in 0..MaxUnits /\ tx[s].status \in {"NONE", "ACTIVE", "INACTIVE"}
  BY TxType DEF Steps
<1>3. type[y] \in TypeRows
  BY <1>1, TableTypes
<1>4. row \in TypeRows /\ row.quantity = q /\ row.status = tx[s].status
      /\ row.sold = type[y].sold
  BY <1>2, <1>3 DEF TypeRows
<1>5. type' = [type EXCEPT ![y] = row]
  BY <1>1, TableTypes DEF ConfigureCommit
<1>6. type' \in [Type -> TypeRows] /\ type'[y] = row /\ \A z \in Type \ {y} : type'[z] = type[z]
  BY <1>1, <1>4, <1>5, TableTypes
<1>7. StockOK'
  BY <1>1, <1>4, <1>6 DEF SalesInv, StockOK, ConfigureCommit
<1>8. InventoryFits'
  <2> SUFFICES ASSUME NEW f \in Event
               PROVE  Total(Quantities', TypesOf(f)) <= event[f].capacity
    BY DEF InventoryFits, Total, ConfigureCommit
  <2>1. Quantities \in [Type -> 0..MaxUnits]
    BY QuantitiesType DEF SalesInv
  <2>2. /\ Quantities' \in [Type -> 0..MaxUnits] /\ Quantities'[y] = q
        /\ \A z \in Type \ {y} : Quantities'[z] = Quantities[z]
    <3>1. 0 \in 0..MaxUnits
      BY SalesAssumption
    <3> QED BY <1>1, <1>4, <1>6, <3>1 DEF Quantities, TypeRows
  <2>3. CASE f = e
    <3>1. Total(Quantities', TypesOf(e)) = Total(Quantities', TypesOf(e) \ {y}) + q
      BY <1>1, <2>2, TotalSplit DEF TypesOf
    <3>2. Total(Quantities', TypesOf(e) \ {y}) = Total(Quantities, TypesOf(e) \ {y})
      BY <2>2, TotalSame DEF TypesOf
    <3> QED BY <1>1, <2>3, <3>1, <3>2
  <2>4. CASE f # e
    <3>1. Total(Quantities', TypesOf(f)) = Total(Quantities, TypesOf(f))
      BY <1>1, <2>2, <2>4, TotalSame DEF TypesOf
    <3> QED BY <3>1 DEF SalesInv, InventoryFits
  <2> QED BY <2>3, <2>4
<1>9. OrdersKept /\ OrdersOK' /\ ChargesOK'
  BY ChargesKept DEF ConfigureCommit, OrdersKept, SalesInv, OrdersOK
<1> QED BY <1>1, <1>6, <1>7, <1>8, <1>9, TableTypes, TypeCommit DEF ConfigureCommit

\* Sales fill the stock and leave the rest of a type alone.
LEMMA SoldKept ==
    ASSUME SalesInv, UNCHANGED event,
           \A y \in Type : /\ type'[y].status = type[y].status
                           /\ type'[y].quantity = type[y].quantity
                           /\ type'[y].sold <= type[y].quantity
    PROVE  StockOK' /\ InventoryFits'
<1>1. Quantities' = Quantities
  BY DEF Quantities
<1>2. InventoryFits'
  BY <1>1 DEF SalesInv, InventoryFits, Total
<1> QED BY <1>2 DEF SalesInv, StockOK

\* What is issued was in stock, and still is.
LEMMA IssueCommitKeeps ==
    ASSUME SalesInv, NEW s \in Request, IssueCommit(s)
    PROVE  SalesInv'
<1> DEFINE y == tx[s].type
           n == tx[s].n
           row == [type[y] EXCEPT !.sold = @ + n]
<1>1. y \in Type /\ EventOf[y] \in holds[s] /\ type[y].sold + n <= type[y].quantity
  BY DEF IssueCommit, Doing, SalesInv, Knows, KnowsIssue
<1>2. n \in Nat /\ type[y] \in TypeRows
  BY <1>1, TableTypes, TxType, SalesAssumption DEF Steps
<1>3. row \in TypeRows /\ row.quantity = type[y].quantity /\ row.status = type[y].status
      /\ row.sold = type[y].sold + n
  BY <1>2 DEF TypeRows
<1>4. type' = [type EXCEPT ![y] = row] /\ live' = [live EXCEPT ![y] = @ + n]
  BY <1>1, TableTypes DEF IssueCommit
<1>5. type' \in [Type -> TypeRows] /\ type'[y] = row /\ \A z \in Type \ {y} : type'[z] = type[z]
  BY <1>1, <1>3, <1>4, TableTypes
<1>6. live' \in [Type -> Nat]
  BY <1>1, <1>2, <1>4, TableTypes
<1>7. StockOK' /\ InventoryFits'
  <2>1. \A z \in Type : /\ type'[z].status = type[z].status
                        /\ type'[z].quantity = type[z].quantity
                        /\ type'[z].sold <= type[z].quantity
    <3>1. /\ type'[y].status = type[y].status /\ type'[y].quantity = type[y].quantity
          /\ type'[y].sold <= type[y].quantity
      BY <1>1, <1>3, <1>5
    <3>2. \A z \in Type \ {y} : type'[z] = type[z] /\ type[z].sold <= type[z].quantity
      BY <1>5 DEF SalesInv, StockOK
    <3> QED BY <3>1, <3>2
  <2> QED BY <2>1, SoldKept DEF IssueCommit
<1>8. OrdersKept /\ OrdersOK' /\ ChargesOK'
  BY ChargesKept DEF IssueCommit, OrdersKept, SalesInv, OrdersOK
<1> QED BY <1>1, <1>5, <1>6, <1>7, <1>8, TableTypes, TypeCommit DEF IssueCommit

\* An order found late is written off.
LEMMA PayLapseKeeps ==
    ASSUME SalesInv, NEW s \in Request, PayLapse(s)
    PROVE  SalesInv'
<1> DEFINE o == tx[s].order
           row == [order[o] EXCEPT !.status = "EXPIRED"]
<1>1. o \in Order /\ order[o].status # "NONE"
  BY DEF PayLapse, Doing, SalesInv, Knows, KnowsOrder
<1>2. row \in OrderRows /\ row.status = "EXPIRED" /\ row.wants = order[o].wants
  BY <1>1, TableTypes DEF OrderRows
<1>3. order' \in [Order -> OrderRows] /\ order'[o] = row
      /\ \A x \in Order \ {o} : order'[x] = order[x]
  BY <1>1, <1>2, TableTypes DEF PayLapse
<1>4. OrdersKept /\ OrdersOK'
  BY <1>1, <1>2, <1>3 DEF OrdersKept, SalesInv, OrdersOK, PayLapse
<1>5. StockOK' /\ InventoryFits'
  BY RoomKept DEF PayLapse
<1>6. ChargesOK'
  BY ChargesKept DEF PayLapse
<1> QED BY <1>3, <1>4, <1>5, <1>6, TableTypes, TypeCommit DEF PayLapse

\* The charge is counted before the purchase it pays for.
LEMMA PayChargeKeeps ==
    ASSUME SalesInv, NEW s \in Request, PayCharge(s)
    PROVE  SalesInv'
<1> DEFINE o == tx[s].order
           t == [tx[s] EXCEPT !.op = "recheck"]
<1>1. /\ o \in Order /\ order[o].status # "NONE" /\ tx[s].op = "charge" /\ holds[s] = {}
      /\ charged[o] \in Nat /\ charged[o] < MaxCharges
  BY TableTypes, SalesAssumption DEF PayCharge, Doing, SalesInv, Knows, KnowsOrder
<1>2. t \in Steps /\ t.op = "recheck" /\ t.order = o
  <2>1. tx[s] \in Steps /\ "recheck" \in Operations
    BY TxType DEF Operations
  <2> QED BY <2>1 DEF Steps
<1>3. /\ tx' = [tx EXCEPT ![s] = t] /\ holds' = holds
      /\ charged' = [charged EXCEPT ![o] = @ + 1]
      /\ UNCHANGED <<event, type, live, order, bought>>
  BY DEF PayCharge, Goto
<1>4. tx'[s] = t /\ Only(s)
  BY <1>3, TxType DEF Only
<1>5. TypeOK'
  <2>1. charged' \in [Order -> 0..MaxCharges]
    BY <1>1, <1>3, TableTypes, SalesAssumption
  <2> QED BY <1>2, <1>3, <2>1, TxType, TableTypes, TypesMakeTypeOK
<1>6. LocksExclusive'
  BY <1>3 DEF SalesInv, LocksExclusive
<1>7. ASSUME NEW p \in Request PROVE Knows(p)'
  <2>1. CASE p = s
    BY <1>1, <1>2, <1>3, <1>4, <2>1, KnowsOne DEF KnowsOrder
  <2>2. CASE p # s
    <3>1. EventsKept(p) /\ TypesKept(p) /\ OrdersKept
      BY <1>3 DEF EventsKept, TypesKept, OrdersKept
    <3> QED BY <1>3, <1>4, <2>2, <3>1, KnowsKept DEF Only
  <2> QED BY <2>1, <2>2
<1>8. StockOK' /\ InventoryFits' /\ OrdersOK'
  BY <1>3, RoomKept DEF SalesInv, OrdersOK
<1>9. ChargesOK'
  <2> SUFFICES ASSUME NEW x \in Order
               PROVE  bought[x] + Cardinality(Paying(x)') <= charged'[x]
    BY <1>3 DEF ChargesOK
  <2>1. IsFiniteSet(Paying(x)) /\ Cardinality(Paying(x)) \in Nat
    BY SalesAssumption, FS_Subset, FS_CardinalityType DEF Paying
  <2>2. bought[x] + Cardinality(Paying(x)) <= charged[x] /\ bought[x] \in Nat
        /\ charged[x] \in Nat
    BY TableTypes, SalesAssumption DEF SalesInv, ChargesOK
  <2>3. CASE x = o
    <3>1. Paying(x)' = Paying(x) \cup {s} /\ s \notin Paying(x)
      BY <1>1, <1>2, <1>4, <2>3 DEF Paying, Only
    <3>2. Cardinality(Paying(x)') = Cardinality(Paying(x)) + 1
      BY <2>1, <3>1, FS_AddElement
    <3>3. charged'[x] = charged[x] + 1
      BY <1>1, <1>3, <2>3, TableTypes
    <3> QED BY <2>1, <2>2, <3>2, <3>3
  <2>4. CASE x # o
    <3>1. Paying(x)' = Paying(x)
      BY <1>1, <1>2, <1>4, <2>4 DEF Paying, Only
    <3>2. charged'[x] = charged[x]
      BY <1>3, <2>4, TableTypes
    <3> QED BY <2>2, <3>1, <3>2
  <2> QED BY <2>3, <2>4
<1> QED BY <1>5, <1>6, <1>7, <1>8, <1>9 DEF SalesInv

\* A purchase under way becomes a purchase made.
LEMMA PayCommitKeeps ==
    ASSUME SalesInv, NEW s \in Request, PayCommit(s)
    PROVE  SalesInv'
<1> DEFINE o == tx[s].order
           row == [order[o] EXCEPT !.status = "CONFIRMED", !.due = FALSE,
                                   !.payment = "SUCCEEDED"]
<1>1. /\ Knows(s) /\ tx[s].op = "fulfil" /\ o \in Order /\ order[o].status # "NONE"
      /\ Wanted(o) \subseteq holds[s]
  BY DEF PayCommit, Doing, SalesInv, Knows, KnowsOrder
<1>2. order[o] \in OrderRows /\ order[o].wants \in [Type -> Nat]
  <2>1. order[o] \in OrderRows
    BY <1>1, TableTypes
  <2>2. order[o].wants \in [Type -> 0..MaxUnits]
    BY <2>1 DEF OrderRows
  <2> QED BY <2>1, <2>2, SalesAssumption
<1>3. \A y \in Type : type[y] \in TypeRows /\ live[y] \in Nat /\ order[o].wants[y] \in Nat
  BY <1>2, TableTypes
<1>4. /\ type' = [y \in Type |-> [type[y] EXCEPT !.sold = @ + order[o].wants[y]]]
      /\ live' = [y \in Type |-> live[y] + order[o].wants[y]]
      /\ bought' = [bought EXCEPT ![o] = @ + 1]
      /\ order' = [order EXCEPT ![o] = row]
  BY <1>1, TableTypes DEF PayCommit
<1>5. ASSUME NEW y \in Type
      PROVE  /\ type'[y] \in TypeRows
             /\ type'[y].status = type[y].status /\ type'[y].quantity = type[y].quantity
             /\ type'[y].sold = type[y].sold + order[o].wants[y]
  <2>1. type[y] \in TypeRows /\ order[o].wants[y] \in Nat
    BY <1>3
  <2>2. type'[y] = [type[y] EXCEPT !.sold = @ + order[o].wants[y]]
    BY <1>4
  <2> QED BY <2>1, <2>2 DEF TypeRows
<1>6. type' \in [Type -> TypeRows] /\ live' \in [Type -> Nat]
  BY <1>3, <1>4, <1>5
<1>7. row \in OrderRows /\ row.status = "CONFIRMED" /\ row.payment = "SUCCEEDED"
      /\ row.wants = order[o].wants
  BY <1>2 DEF OrderRows
<1>8. order' \in [Order -> OrderRows] /\ order'[o] = row
      /\ \A x \in Order \ {o} : order'[x] = order[x]
  BY <1>1, <1>4, <1>7, TableTypes
<1>9. bought' \in [Order -> Nat] /\ bought'[o] = bought[o] + 1 /\ bought[o] \in Nat
      /\ \A x \in Order \ {o} : bought'[x] = bought[x]
  BY <1>1, <1>4, TableTypes
<1>10. ASSUME NEW y \in Type
       PROVE  \/ order[o].wants[y] = 0 /\ type'[y] = type[y]
              \/ EventOf[y] \in holds[s] /\ type'[y].sold <= type[y].quantity
  <2>1. CASE order[o].wants[y] > 0
    <3>1. y \in Type \cap holds[s]
      BY <1>1, <2>1 DEF Wanted
    <3> QED BY <1>1, <1>5, <3>1 DEF Knows, KnowsFulfil, Doing
  <2>2. CASE order[o].wants[y] = 0
    <3>1. type[y] \in TypeRows /\ type'[y] = [type[y] EXCEPT !.sold = @ + 0]
      BY <1>3, <1>4, <2>2
    <3>2. type'[y] = type[y]
      BY <3>1 DEF TypeRows
    <3> QED BY <2>2, <3>2
  <2> QED BY <1>3, <2>1, <2>2
<1>11. StockOK' /\ InventoryFits'
  <2>1. \A y \in Type : type'[y].sold <= type[y].quantity
    BY <1>10 DEF SalesInv, StockOK
  <2> QED BY <1>5, <2>1, SoldKept DEF PayCommit
<1>12. OrdersKept
  BY <1>7, <1>8 DEF OrdersKept
<1>13. OrdersOK'
  <2> SUFFICES ASSUME NEW x \in Order
               PROVE  /\ order'[x].status = "CONFIRMED" =>
                            bought'[x] > 0 /\ order'[x].payment = "SUCCEEDED"
                      /\ order'[x].status \in {"NONE", "PENDING"} =>
                            bought'[x] = 0 /\ order'[x].payment = "PENDING"
    BY DEF OrdersOK
  <2>1. CASE x = o
    <3>1. order'[x].status = "CONFIRMED" /\ order'[x].payment = "SUCCEEDED"
      BY <1>7, <1>8, <2>1
    <3>2. bought'[x] > 0
      BY <1>9, <2>1
    <3> QED BY <3>1, <3>2
  <2>2. CASE x # o
    BY <1>8, <1>9, <2>2 DEF SalesInv, OrdersOK
  <2> QED BY <2>1, <2>2
<1>14. ChargesOK'
  <2> SUFFICES ASSUME NEW x \in Order
               PROVE  bought'[x] + Cardinality(Paying(x)') <= charged[x]
    BY DEF ChargesOK, PayCommit
  <2>1. bought[x] + Cardinality(Paying(x)) <= charged[x] /\ bought[x] \in Nat
        /\ charged[x] \in Nat
    BY TableTypes, SalesAssumption DEF SalesInv, ChargesOK
  <2>2. /\ Cardinality(Paying(x)) \in Nat
        /\ Cardinality(Paying(x)') =
              IF s \in Paying(x) THEN Cardinality(Paying(x)) - 1 ELSE Cardinality(Paying(x))
    BY PayingEnds DEF PayCommit
  <2>3. s \in Paying(x) <=> x = o
    BY <1>1 DEF Paying
  <2> QED BY <1>9, <2>1, <2>2, <2>3
<1> QED
  BY <1>6, <1>8, <1>9, <1>10, <1>11, <1>12, <1>13, <1>14, TypeCommit DEF PayCommit

-----------------------------------------------------------------------------

\* Nothing exists at the start.
LEMMA InitHolds == Init => SalesInv
<1> SUFFICES ASSUME Init PROVE SalesInv
  OBVIOUS
<1>1. 0 \in 0..MaxUnits /\ 0 \in 0..MaxCharges
  BY SalesAssumption
<1>2. TypeOK
  <2>1. NoTx \in Steps
    BY NoTxType
  <2> QED BY <1>1, <2>1 DEF Init, TypeOK, Steps
<1>3. LocksExclusive /\ StockOK /\ OrdersOK
  BY DEF Init, LocksExclusive, StockOK, OrdersOK
<1>4. \A s \in Request : Knows(s)
  BY DEF Init, NoTx, Doing, Knows, KnowsUpdate, KnowsConfigure, KnowsPublish, KnowsCancel,
         KnowsIssue, KnowsFulfil, KnowsOrder
<1>5. ChargesOK
  <2>1. \A x \in Order : Paying(x) = {}
    BY DEF Init, NoTx, Paying
  <2>2. \A x \in Order : bought[x] = 0 /\ charged[x] = 0 /\ Cardinality(Paying(x)) = 0
    BY <2>1, FS_EmptySet DEF Init
  <2> QED BY <2>2 DEF ChargesOK
<1>6. InventoryFits
  <2> SUFFICES ASSUME NEW e \in Event PROVE Total(Quantities, TypesOf(e)) <= 0
    BY DEF Init, InventoryFits
  <2>1. \A y \in TypesOf(e) : Quantities[y] = 0
    BY DEF Init, Quantities, TypesOf
  <2>2. UNION {{y} \X (1..Quantities[y]) : y \in TypesOf(e)} = {}
    BY <2>1
  <2> QED BY <2>2, FS_EmptySet DEF Total
<1> QED BY <1>2, <1>3, <1>4, <1>5, <1>6 DEF SalesInv

\* Every step keeps the inductive invariant.
LEMMA NextKeeps == SalesInv /\ [Next]_vars => SalesInv'
<1> SUFFICES ASSUME SalesInv, [Next]_vars PROVE SalesInv'
  OBVIOUS
<1>1. ASSUME NEW s \in Request, Organizing(s) PROVE SalesInv'
  <2>1. ASSUME NEW e \in Event, NEW c \in Units, UpdateLock(s, e, c) PROVE SalesInv'
    BY <2>1, UpdateLockKeeps
  <2>2. ASSUME NEW y \in Type, NEW q \in Units, CreateTypeLock(s, y, q) PROVE SalesInv'
    BY <2>2, ConfigureLockKeeps
  <2>3. ASSUME NEW y \in Type, NEW q \in Units, NEW st \in {"ACTIVE", "INACTIVE"},
               UpdateTypeLock(s, y, q, st)
        PROVE  SalesInv'
    BY <2>3, ConfigureLockKeeps
  <2>4. ASSUME NEW e \in Event, PublishLock(s, e) \/ CancelLock(s, e) PROVE SalesInv'
    BY <2>4, PublishLockKeeps, CancelLockKeeps
  <2>5. ASSUME NEW y \in Type, NEW n \in Units, IssueLock(s, y, n) PROVE SalesInv'
    BY <2>5, IssueLockKeeps
  <2> QED BY <1>1, <2>1, <2>2, <2>3, <2>4, <2>5, UpdateCommitKeeps, ConfigureCommitKeeps,
             PublishCommitKeeps, CancelCommitKeeps, IssueLockTypeKeeps, IssueCommitKeeps
          DEF Organizing
<1>2. ASSUME NEW s \in Request, Buying(s) PROVE SalesInv'
  <2>1. ASSUME NEW o \in Order, NEW e \in Event, NEW w \in [Type -> 0..MaxUnits],
               Checkout(s, o, e, w)
        PROVE  SalesInv'
    BY <2>1, CheckoutKeeps
  <2>2. ASSUME NEW o \in Order, PayRead(s, o) PROVE SalesInv'
    BY <2>2, PayReadKeeps
  <2> QED BY <1>2, <2>1, <2>2, PayLapseKeeps, PayChargeKeeps, PayRecheckKeeps,
             PayLockEventKeeps, PayLockTypeKeeps, PayCommitKeeps
          DEF Buying
<1>3. CASE Environment
  <2>1. ASSUME NEW e \in Event, NEW c \in Units, CreateEvent(e, c) PROVE SalesInv'
    BY <2>1, CreateEventKeeps
  <2>2. ASSUME NEW s \in Request, Rollback(s) PROVE SalesInv'
    BY <2>2, RollbackKeeps
  <2>3. ASSUME NEW o \in Order, OrderLapses(o) PROVE SalesInv'
    BY <2>3, OrderLapsesKeeps
  <2>4. ASSUME NEW e \in Event, EventEnds(e) PROVE SalesInv'
    BY <2>4, EventEndsKeeps
  <2> QED BY <1>3, <2>1, <2>2, <2>3, <2>4 DEF Environment
<1>4. CASE UNCHANGED vars
  <2>1. TypeOK' /\ LocksExclusive' /\ StockOK' /\ OrdersOK'
    BY <1>4 DEF vars, tables, SalesInv, TypeOK, LocksExclusive, StockOK, OrdersOK
  <2>2. InventoryFits'
    <3>1. Quantities' = Quantities
      BY <1>4 DEF vars, tables, Quantities
    <3> QED BY <1>4, <3>1 DEF vars, tables, SalesInv, InventoryFits, Total
  <2>3. ASSUME NEW s \in Request PROVE Knows(s)'
    BY <1>4, KnowsKept DEF vars, tables, EventsKept, TypesKept, OrdersKept
  <2>4. ChargesOK'
    BY <1>4 DEF vars, tables, SalesInv, ChargesOK, Paying
  <2> QED BY <2>1, <2>2, <2>3, <2>4 DEF SalesInv
<1> QED BY <1>1, <1>2, <1>3, <1>4 DEF Next

\* The inductive invariant, and with it every variable's type.
THEOREM InvariantHolds == Spec => []SalesInv
BY InitHolds, NextKeeps, PTL DEF Spec

\* Every variable keeps its type.
THEOREM TypeCorrect == Spec => []TypeOK
<1>1. SalesInv => TypeOK
  BY DEF SalesInv
<1> QED BY <1>1, InvariantHolds, PTL

\* The organizer never configures more tickets than an event has places:
\* every change reads the quantities and the capacity under the event's lock.
THEOREM InventoryAlwaysFits == Spec => []InventoryFits
<1>1. SalesInv => InventoryFits
  BY DEF SalesInv
<1> QED BY <1>1, InvariantHolds, PTL

\* No type and no event is oversold: each sale rechecks the stock under the
\* type's lock, and what the types may sell fits the event.
THEOREM NothingIsOversold == Spec => []NeverOversold
<1>1. SalesInv => NeverOversold
  <2> SUFFICES ASSUME SalesInv PROVE NeverOversold
    OBVIOUS
  <2>1. \A y \in Type : type[y] \in TypeRows /\ type[y].sold <= type[y].quantity
                        /\ (type[y].status = "NONE" => type[y].quantity = 0)
    BY TableTypes DEF SalesInv, StockOK
  <2>2. ASSUME NEW e \in Event PROVE Total(Sold, TypesOf(e)) <= event[e].capacity
    <3>1. Quantities \in [Type -> 0..MaxUnits] /\ TypesOf(e) \in SUBSET Type
      BY QuantitiesType DEF SalesInv, TypesOf
    <3>2. ASSUME NEW y \in TypesOf(e) PROVE Sold[y] \in Nat /\ Sold[y] <= Quantities[y]
      <4>1. y \in Type /\ type[y].sold \in Nat /\ type[y].quantity \in Nat
        BY <2>1, SalesAssumption DEF TypesOf, TypeRows
      <4>2. Sold[y] = type[y].sold /\
            Quantities[y] = IF type[y].status = "NONE" THEN 0 ELSE type[y].quantity
        BY <4>1 DEF Sold, Quantities
      <4> QED BY <2>1, <4>1, <4>2
    <3>3. Total(Sold, TypesOf(e)) \in Nat
          /\ Total(Sold, TypesOf(e)) <= Total(Quantities, TypesOf(e))
      BY <3>1, <3>2, TotalMonotonic
    <3>4. Total(Quantities, TypesOf(e)) \in Nat /\ event[e].capacity \in Nat
      BY <3>1, TotalType, TableTypes, SalesAssumption DEF EventRows
    <3>5. Total(Quantities, TypesOf(e)) <= event[e].capacity
      BY DEF SalesInv, InventoryFits
    <3> QED BY <3>3, <3>4, <3>5
  <2> QED BY <2>1, <2>2 DEF NeverOversold
<1> QED BY <1>1, InvariantHolds, PTL

\* Every purchase has a charge of its own, though the charge is made before
\* the transaction and the order is read without a lock.
THEOREM TicketsAreAlwaysPaid == Spec => []TicketsArePaid
<1>1. SalesInv => TicketsArePaid
  <2> SUFFICES ASSUME SalesInv, NEW x \in Order PROVE bought[x] <= charged[x]
    BY DEF SalesInv, OrdersOK, TicketsArePaid
  <2>1. Cardinality(Paying(x)) \in Nat
    BY SalesAssumption, FS_Subset, FS_CardinalityType DEF Paying
  <2>2. bought[x] \in Nat /\ charged[x] \in Nat
    BY TableTypes, SalesAssumption
  <2> QED BY <2>1, <2>2 DEF SalesInv, ChargesOK
<1> QED BY <1>1, InvariantHolds, PTL

\* What was sold is a number.
LEMMA SoldNumbers ==
    ASSUME SalesInv
    PROVE  \A y \in Type : type[y].sold \in Nat
BY TableTypes DEF TypeRows

\* What one step leaves as it is of a published or cancelled event.
FrozenTerms ==
    /\ \A e \in Event : event[e].status \in {"PUBLISHED", "CANCELLED"} =>
          /\ event'[e].status \in {event[e].status, "CANCELLED"}
          /\ event'[e].capacity = event[e].capacity
    /\ \A y \in Type :
          /\ type'[y].sold >= type[y].sold
          /\ event[EventOf[y]].status \in {"PUBLISHED", "CANCELLED"} =>
                /\ type'[y].status = type[y].status
                /\ type'[y].quantity = type[y].quantity

\* No step changes the terms of an event that has left the draft.
LEMMA NextFreezes ==
    ASSUME SalesInv, [Next]_vars
    PROVE  FrozenTerms
<1> USE DEF FrozenTerms
<1>1. CASE UNCHANGED <<event, type>>
  BY <1>1, SoldNumbers
<1>2. ASSUME NEW s \in Request,
             UpdateCommit(s) \/ PublishCommit(s) \/ CancelCommit(s) PROVE FrozenTerms
  <2> DEFINE e == tx[s].event
  <2>1. type' = type /\ \A f \in Event \ {e} : event'[f] = event[f]
    BY <1>2, TableTypes DEF UpdateCommit, PublishCommit, CancelCommit
  <2>2. \/ event[e].status = "DRAFT"
        \/ event'[e].status = "CANCELLED" /\ event'[e].capacity = event[e].capacity
    <3>1. CASE UpdateCommit(s)
      BY <3>1 DEF UpdateCommit, Doing, SalesInv, Knows, KnowsUpdate
    <3>2. CASE PublishCommit(s)
      BY <3>2 DEF PublishCommit, Doing, SalesInv, Knows, KnowsPublish
    <3>3. CASE CancelCommit(s)
      <4>1. e \in Event
        BY <3>3 DEF CancelCommit, Doing, SalesInv, Knows, KnowsCancel
      <4>2. event[e] \in EventRows /\ event'[e] = [event[e] EXCEPT !.status = "CANCELLED"]
        BY <3>3, <4>1, TableTypes DEF CancelCommit
      <4> QED BY <4>2 DEF EventRows
    <3> QED BY <1>2, <3>1, <3>2, <3>3
  <2> QED BY <2>1, <2>2, SoldNumbers
<1>3. ASSUME NEW s \in Request, ConfigureCommit(s) PROVE FrozenTerms
  <2> DEFINE y == tx[s].type
  <2>1. y \in Type /\ event[EventOf[y]].status = "DRAFT" /\ event' = event
    BY <1>3 DEF ConfigureCommit, Doing, SalesInv, Knows, KnowsConfigure
  <2>2. type[y] \in TypeRows
        /\ type'[y] = [type[y] EXCEPT !.status = tx[s].status, !.quantity = tx[s].n]
    BY <1>3, <2>1, TableTypes DEF ConfigureCommit
  <2>3. type'[y].sold = type[y].sold /\ \A z \in Type \ {y} : type'[z] = type[z]
    BY <1>3, <2>1, <2>2, TableTypes DEF ConfigureCommit, TypeRows
  <2> QED BY <2>1, <2>3, SoldNumbers
<1>4. ASSUME NEW s \in Request, IssueCommit(s) PROVE FrozenTerms
  <2> DEFINE y == tx[s].type
  <2>1. y \in Type /\ tx[s].n \in Nat /\ event' = event
    BY <1>4, TxType, SalesAssumption
       DEF IssueCommit, Doing, SalesInv, Knows, KnowsIssue, Steps
  <2>2. type[y] \in TypeRows /\ type'[y] = [type[y] EXCEPT !.sold = @ + tx[s].n]
        /\ \A z \in Type \ {y} : type'[z] = type[z]
    BY <1>4, <2>1, TableTypes DEF IssueCommit
  <2>3. /\ type'[y].sold = type[y].sold + tx[s].n /\ type[y].sold \in Nat
        /\ type'[y].status = type[y].status /\ type'[y].quantity = type[y].quantity
    BY <2>2 DEF TypeRows
  <2>4. type'[y].sold >= type[y].sold
    BY <2>1, <2>3
  <2>5. ASSUME NEW z \in Type
        PROVE  /\ type'[z].sold >= type[z].sold
               /\ type'[z].status = type[z].status /\ type'[z].quantity = type[z].quantity
    <3>1. CASE z = y
      BY <2>3, <2>4, <3>1
    <3>2. CASE z # y
      BY <2>2, <3>2, SoldNumbers
    <3> QED BY <3>1, <3>2
  <2> QED BY <2>1, <2>5
<1>5. ASSUME NEW s \in Request, PayCommit(s) PROVE FrozenTerms
  <2> DEFINE o == tx[s].order
  <2>1. o \in Order /\ event' = event
    BY <1>5 DEF PayCommit, Doing, SalesInv, Knows, KnowsOrder
  <2>2. order[o].wants \in [Type -> 0..MaxUnits]
    BY <2>1, TableTypes DEF OrderRows
  <2>3. ASSUME NEW y \in Type
        PROVE  /\ type'[y].sold >= type[y].sold
               /\ type'[y].status = type[y].status /\ type'[y].quantity = type[y].quantity
    <3>1. type[y] \in TypeRows /\ order[o].wants[y] \in Nat
      BY <2>2, TableTypes, SalesAssumption
    <3>2. type'[y] = [type[y] EXCEPT !.sold = @ + order[o].wants[y]]
      BY <1>5 DEF PayCommit
    <3>3. /\ type'[y].sold = type[y].sold + order[o].wants[y] /\ type[y].sold \in Nat
          /\ type'[y].status = type[y].status /\ type'[y].quantity = type[y].quantity
      BY <3>1, <3>2 DEF TypeRows
    <3>4. type'[y].sold >= type[y].sold
      BY <3>1, <3>3
    <3> QED BY <3>3, <3>4
  <2> QED BY <2>1, <2>3
<1>6. ASSUME NEW e \in Event, NEW c \in Units, CreateEvent(e, c) PROVE FrozenTerms
  <2>1. type' = type /\ event[e].status = "NONE" /\ \A f \in Event \ {e} : event'[f] = event[f]
    BY <1>6, TableTypes DEF CreateEvent
  <2> QED BY <2>1, SoldNumbers
<1>7. ASSUME NEW e \in Event, EventEnds(e) PROVE FrozenTerms
  <2>1. type' = type /\ \A f \in Event : /\ event'[f].status = event[f].status
                                         /\ event'[f].capacity = event[f].capacity
    BY <1>7, TableTypes DEF EventEnds, EventRows
  <2> QED BY <2>1, SoldNumbers
<1>8. ASSUME NEW s \in Request, Organizing(s) PROVE FrozenTerms
  BY <1>1, <1>2, <1>3, <1>4, <1>8
     DEF Organizing, UpdateLock, CreateTypeLock, UpdateTypeLock, PublishLock, CancelLock,
         IssueLock, IssueLockType, Begin, LockMore, tables
<1>9. ASSUME NEW s \in Request, Buying(s) PROVE FrozenTerms
  BY <1>1, <1>5, <1>9
     DEF Buying, Checkout, PayRead, PayLapse, PayCharge, PayRecheck, PayLockEvent,
         PayLockType, LockMore, tables
<1>10. CASE Environment
  BY <1>1, <1>6, <1>7, <1>10 DEF Environment, Rollback, OrderLapses, tables
<1>11. CASE UNCHANGED vars
  BY <1>1, <1>11 DEF vars, tables
<1> QED BY <1>8, <1>9, <1>10, <1>11 DEF Next

\* Once an event has left the draft its capacity and its types stay, it can
\* only be cancelled, and no sale is taken back: who configures holds the
\* event's lock and has found a draft.
THEOREM TermsStayFrozen == Spec => TermsAreFrozen
<1>1. SalesInv /\ [Next]_vars => [FrozenTerms]_vars
  BY NextFreezes
<1> QED BY <1>1, InvariantHolds, PTL DEF Spec, TermsAreFrozen, FrozenTerms

-----------------------------------------------------------------------------
(***************************************************************************)
(* Sales implements BoxOffice.                                             *)
(*                                                                         *)
(* A request that commits takes the step of the clerk: what it knows of    *)
(* the rows it has locked is what the clerk asks for.  All other steps     *)
(* leave what the clerk sees as it was.                                    *)
(***************************************************************************)

\* What an order is for was on sale when it was placed, and has been since,
\* unless the event was cancelled.
PlacedOK ==
    \A o \in Order :
        /\ order[o].status = "NONE" => Wanted(o) = {}
        /\ order[o].status # "NONE" => Wanted(o) # {}
        /\ \A y \in Wanted(o) : event[EventOf[y]].status \in {"PUBLISHED", "CANCELLED"}

\* Only a checkout says what an order is for.
LEMMA OrdersStay ==
    ASSUME SalesInv, [Next]_vars, NEW o \in Order
    PROVE  \/ /\ order'[o].wants = order[o].wants
              /\ order'[o].status = "NONE" <=> order[o].status = "NONE"
           \/ \E s \in Request, e \in Event, w \in [Type -> 0..MaxUnits] :
                 Checkout(s, o, e, w)
<1> DEFINE Stays == /\ order'[o].wants = order[o].wants
                    /\ order'[o].status = "NONE" <=> order[o].status = "NONE"
<1>1. order \in [Order -> OrderRows]
  BY TableTypes
<1>2. CASE UNCHANGED order
  BY <1>2
<1>3. ASSUME NEW s \in Request, PayLapse(s) \/ PayCommit(s)
      PROVE  Stays
  <2> DEFINE x == tx[s].order
  <2>1. x \in Order /\ order[x].status # "NONE"
    BY <1>3 DEF PayLapse, PayCommit, Doing, SalesInv, Knows, KnowsOrder
  <2>2. /\ order'[x].wants = order[x].wants /\ order'[x].status # "NONE"
        /\ \A z \in Order \ {x} : order'[z] = order[z]
    BY <1>1, <1>3, <2>1 DEF PayLapse, PayCommit, OrderRows
  <2> QED BY <2>1, <2>2
<1>4. ASSUME NEW x \in Order, OrderLapses(x)
      PROVE  Stays
  BY <1>1, <1>4 DEF OrderLapses, OrderRows
<1>5. ASSUME NEW s \in Request, NEW x \in Order, NEW e \in Event,
             NEW w \in [Type -> 0..MaxUnits], Checkout(s, x, e, w)
      PROVE  Stays \/ x = o
  BY <1>1, <1>5 DEF Checkout
<1>6. ASSUME NEW s \in Request, Buying(s)
      PROVE  \/ Stays
             \/ \E e \in Event, w \in [Type -> 0..MaxUnits] : Checkout(s, o, e, w)
  BY <1>2, <1>3, <1>5, <1>6
     DEF Buying, PayRead, PayCharge, PayRecheck, PayLockEvent, PayLockType, LockMore, tables
<1>7. ASSUME NEW s \in Request, Organizing(s)
      PROVE  Stays
  BY <1>2, <1>7
     DEF Organizing, UpdateLock, CreateTypeLock, UpdateTypeLock, PublishLock, CancelLock,
         IssueLock, IssueLockType, Begin, LockMore, tables, UpdateCommit, ConfigureCommit,
         PublishCommit, CancelCommit, IssueCommit
<1>8. CASE Environment
  BY <1>2, <1>4, <1>8 DEF Environment, CreateEvent, EventEnds, Rollback, tables
<1>9. CASE UNCHANGED vars
  BY <1>2, <1>9 DEF vars
<1> QED BY <1>6, <1>7, <1>8, <1>9 DEF Next

\* Nothing is placed at first.
LEMMA PlacedInit == Init => PlacedOK
  BY DEF Init, PlacedOK, Wanted

\* An order keeps what it is for, and the events of its types stay published or
\* become cancelled.
LEMMA PlacedKept ==
    ASSUME SalesInv, PlacedOK, [Next]_vars
    PROVE  PlacedOK'
<1> SUFFICES ASSUME NEW o \in Order
             PROVE  /\ order'[o].status = "NONE" => Wanted(o)' = {}
                    /\ order'[o].status # "NONE" => Wanted(o)' # {}
                    /\ \A y \in Wanted(o)' : event'[EventOf[y]].status \in {"PUBLISHED", "CANCELLED"}
  BY DEF PlacedOK
<1>1. \A e \in Event : event[e].status \in {"PUBLISHED", "CANCELLED"} =>
          event'[e].status \in {"PUBLISHED", "CANCELLED"}
  BY NextFreezes DEF FrozenTerms
<1>2. \A y \in Type : EventOf[y] \in Event
  BY SalesAssumption
<1>3. CASE /\ order'[o].wants = order[o].wants
           /\ order'[o].status = "NONE" <=> order[o].status = "NONE"
  <2>1. Wanted(o)' = Wanted(o) /\ Wanted(o) \subseteq Type
    BY <1>3 DEF Wanted
  <2> QED BY <1>1, <1>2, <1>3, <2>1 DEF PlacedOK
<1>4. ASSUME NEW s \in Request, NEW e \in Event, NEW w \in [Type -> 0..MaxUnits],
             Checkout(s, o, e, w)
      PROVE  /\ order'[o].status # "NONE" /\ Wanted(o)' # {}
             /\ \A y \in Wanted(o)' : event'[EventOf[y]].status = "PUBLISHED"
  <2>1. /\ order'[o].status = "PENDING" /\ order'[o].wants = w /\ event' = event
        /\ {y \in Type : w[y] > 0} # {}
        /\ event[e].status = "PUBLISHED"
        /\ \A y \in Type : w[y] > 0 => EventOf[y] = e
    BY <1>4, TableTypes DEF Checkout
  <2>2. Wanted(o)' = {y \in Type : w[y] > 0}
    BY <2>1 DEF Wanted
  <2> QED BY <2>1, <2>2
<1> QED BY <1>3, <1>4, OrdersStay

-----------------------------------------------------------------------------
(* What the clerk sees. *)

Seen(row) == [status |-> row.status, capacity |-> row.capacity]

SeenEvents == [e \in Event |-> Seen(event[e])]

SeenOrders == [o \in Order |-> order[o].wants]

\* The clerk counts the same places.
LEMMA PlacesAreTotal == ASSUME NEW S PROVE Clerk!Places(S) = Total(Quantities, S)
BY DEF Clerk!Places, Quantities

\* A changed row is seen as such.
LEMMA EventSeen ==
    ASSUME SalesInv, NEW e \in Event, NEW row \in EventRows, event' = [event EXCEPT ![e] = row]
    PROVE  SeenEvents' = [SeenEvents EXCEPT ![e] = Seen(row)]
<1>1. event \in [Event -> EventRows]
  BY TableTypes
<1>2. \A f \in Event : event'[f] = IF f = e THEN row ELSE event[f]
  BY <1>1
<1>3. SeenEvents' = [f \in Event |-> Seen(IF f = e THEN row ELSE event[f])]
  BY <1>2 DEF SeenEvents, Seen
<1>4. [SeenEvents EXCEPT ![e] = Seen(row)]
      = [f \in Event |-> IF f = e THEN Seen(row) ELSE Seen(event[f])]
  BY DEF SeenEvents
<1> QED BY <1>3, <1>4

\* The clerk does nothing when neither status nor capacity, nor what orders are
\* for, nor the stock, the tickets or the charges change.
LEMMA ClerkRests ==
    ASSUME \A e \in Event : event'[e].status = event[e].status
                            /\ event'[e].capacity = event[e].capacity,
           \A o \in Order : order'[o].wants = order[o].wants,
           UNCHANGED <<type, live, bought, charged>>
    PROVE  UNCHANGED Clerk!vars
<1>1. [e \in Event |-> [status |-> event'[e].status, capacity |-> event'[e].capacity]]
      = [e \in Event |-> [status |-> event[e].status, capacity |-> event[e].capacity]]
  OBVIOUS
<1>2. [o \in Order |-> order'[o].wants] = [o \in Order |-> order[o].wants]
  OBVIOUS
<1> QED BY <1>1, <1>2 DEF Clerk!vars
-----------------------------------------------------------------------------
(* Each commit is the clerk's step. *)

\* Units are bounded numbers.
LEMMA UnitsAreBounded == \A n \in Units : n \in 0..MaxUnits /\ n \in Nat
BY SalesAssumption DEF Units

\* A draft is announced.
LEMMA AnnounceStep ==
    ASSUME SalesInv, NEW e \in Event, NEW c \in Units, CreateEvent(e, c)
    PROVE  Clerk!Announce(e, c)
<1>1. PICK past \in BOOLEAN :
         event' = [event EXCEPT ![e] = [status |-> "DRAFT", capacity |-> c, ended |-> past]]
  BY DEF CreateEvent
<1> DEFINE row == [status |-> "DRAFT", capacity |-> c, ended |-> past]
<1>2. row \in EventRows
  BY UnitsAreBounded DEF EventRows
<1>3. SeenEvents' = [SeenEvents EXCEPT ![e] = Seen(row)]
  BY <1>1, <1>2, EventSeen
<1>4. Seen(row) = [status |-> "DRAFT", capacity |-> c]
  BY DEF Seen
<1>5. SeenEvents[e].status = "NONE" /\ SeenOrders' = SeenOrders
  BY DEF CreateEvent, SeenEvents, SeenOrders, Seen
<1>6. UNCHANGED <<type, live, bought, charged>>
  BY DEF CreateEvent
<1> HIDE DEF row
<1> QED BY <1>3, <1>4, <1>5, <1>6 DEF Clerk!Announce, SeenEvents, SeenOrders, Seen

\* Who changes the capacity holds the event's lock, and has counted the places.
LEMMA ResizeStep ==
    ASSUME SalesInv, NEW s \in Request, UpdateCommit(s)
    PROVE  \E e \in Event, n \in Units : Clerk!Resize(e, n)
<1>1. PICK e \in Event, n \in Units :
         /\ e = tx[s].event /\ n = tx[s].n /\ event[e].status = "DRAFT"
         /\ Total(Quantities, TypesOf(e)) <= n
  BY DEF UpdateCommit, Doing, SalesInv, Knows, KnowsUpdate
<1>2. PICK past \in BOOLEAN : event' = [event EXCEPT ![e].capacity = n, ![e].ended = past]
  BY <1>1 DEF UpdateCommit
<1> DEFINE row == [status |-> "DRAFT", capacity |-> n, ended |-> past]
<1>3. event \in [Event -> EventRows]
  BY TableTypes
<1>4. row \in EventRows
  BY <1>1, UnitsAreBounded DEF EventRows
<1>5. event' = [event EXCEPT ![e] = row]
  <2>1. event[e] = [status |-> "DRAFT", capacity |-> event[e].capacity, ended |-> event[e].ended]
    BY <1>1, <1>3 DEF EventRows
  <2>2. event'[e] = row
    BY <1>1, <1>2, <1>3, <2>1
  <2>3. \A f \in Event \ {e} : event'[f] = event[f]
    BY <1>1, <1>2, <1>3
  <2>4. DOMAIN event' = Event
    BY <1>2, <1>3
  <2>5. event' = [f \in Event |-> event'[f]]
    BY <1>2, <1>3
  <2> HIDE DEF row
  <2> QED BY <1>1, <1>3, <2>2, <2>3, <2>5
<1>6. SeenEvents' = [SeenEvents EXCEPT ![e] = Seen(row)]
  BY <1>1, <1>4, <1>5, EventSeen
<1>7. SeenEvents[e] = [status |-> "DRAFT", capacity |-> event[e].capacity]
  BY <1>1 DEF SeenEvents, Seen
<1>8. Seen(row) = [SeenEvents[e] EXCEPT !.capacity = n]
  BY <1>7 DEF Seen
<1>9. SeenEvents' = [SeenEvents EXCEPT ![e].capacity = n]
  BY <1>6, <1>8
<1>10. SeenEvents[e].status = "DRAFT" /\ SeenOrders' = SeenOrders
       /\ UNCHANGED <<type, live, bought, charged>>
  BY <1>7 DEF UpdateCommit, SeenOrders
<1>11. Clerk!Places(Clerk!TypesOf(e)) <= n
  BY <1>1, PlacesAreTotal DEF Clerk!TypesOf, TypesOf
<1> QED BY <1>1, <1>9, <1>10, <1>11 DEF Clerk!Resize, SeenEvents, SeenOrders, Seen

\* Who configures a type holds its event's lock, and the other types, the stock
\* that is sold and the capacity are still what was read.
LEMMA ConfigureStep ==
    ASSUME SalesInv, NEW s \in Request, ConfigureCommit(s)
    PROVE  /\ tx[s].type \in Type /\ tx[s].n \in Units /\ tx[s].status \in {"ACTIVE", "INACTIVE"}
           /\ Clerk!Configure(tx[s].type, tx[s].n, tx[s].status)
<1> DEFINE y == tx[s].type
           e == tx[s].event
           n == tx[s].n
<1>1. /\ y \in Type /\ e = EventOf[y] /\ event[e].status = "DRAFT" /\ n \in Units
      /\ type[y].sold <= n /\ tx[s].status # "NONE"
      /\ Total(Quantities, TypesOf(e) \ {y}) + n <= event[e].capacity
  BY DEF ConfigureCommit, Doing, SalesInv, Knows, KnowsConfigure
<1>2. e \in Event /\ tx[s].status \in {"ACTIVE", "INACTIVE"}
  BY <1>1, TxType, SalesAssumption DEF Steps
<1>3. SeenEvents[e].status = "DRAFT" /\ SeenEvents[e].capacity = event[e].capacity
      /\ SeenEvents' = SeenEvents /\ SeenOrders' = SeenOrders
  BY <1>1, <1>2 DEF ConfigureCommit, SeenEvents, SeenOrders, Seen
<1>4. Clerk!Places(Clerk!TypesOf(EventOf[y]) \ {y}) + n <= SeenEvents[EventOf[y]].capacity
  BY <1>1, <1>3, PlacesAreTotal DEF Clerk!TypesOf, TypesOf
<1> QED BY <1>1, <1>2, <1>3, <1>4 DEF ConfigureCommit, Clerk!Configure, SeenEvents, SeenOrders, Seen

\* A status that changes alone is seen alone.
LEMMA StatusSeen ==
    ASSUME SalesInv, NEW e \in Event, NEW status \in {"PUBLISHED", "CANCELLED"},
           event' = [event EXCEPT ![e].status = status]
    PROVE  SeenEvents' = [SeenEvents EXCEPT ![e].status = status]
<1> DEFINE row == [event[e] EXCEPT !.status = status]
<1>1. event \in [Event -> EventRows]
  BY TableTypes
<1>2. row = [status |-> status, capacity |-> event[e].capacity, ended |-> event[e].ended]
      /\ row \in EventRows
  BY <1>1 DEF EventRows
<1>3. event' = [event EXCEPT ![e] = row]
  BY <1>1
<1>4. SeenEvents' = [SeenEvents EXCEPT ![e] = Seen(row)]
  BY <1>2, <1>3, EventSeen
<1>5. SeenEvents[e] = [status |-> event[e].status, capacity |-> event[e].capacity]
  BY DEF SeenEvents, Seen
<1>6. Seen(row) = [status |-> status, capacity |-> event[e].capacity]
  BY <1>2 DEF Seen
<1>7. Seen(row) = [SeenEvents[e] EXCEPT !.status = status]
  BY <1>5, <1>6
<1> QED BY <1>4, <1>7

\* Who publishes has found a draft and a type that is for sale.
LEMMA OpenStep ==
    ASSUME SalesInv, NEW s \in Request, PublishCommit(s)
    PROVE  \E e \in Event : Clerk!Open(e)
<1>1. PICK e \in Event :
         /\ e = tx[s].event /\ event[e].status = "DRAFT"
         /\ \E y \in TypesOf(e) : type[y].status = "ACTIVE"
  BY DEF PublishCommit, Doing, SalesInv, Knows, KnowsPublish
<1>2. SeenEvents' = [SeenEvents EXCEPT ![e].status = "PUBLISHED"]
  BY <1>1, StatusSeen DEF PublishCommit
<1>3. SeenEvents[e].status = "DRAFT" /\ SeenOrders' = SeenOrders
  BY <1>1 DEF PublishCommit, SeenEvents, SeenOrders, Seen
<1>4. \E y \in Clerk!TypesOf(e) : type[y].status = "ACTIVE"
  BY <1>1 DEF Clerk!TypesOf, TypesOf
<1> QED BY <1>1, <1>2, <1>3, <1>4 DEF PublishCommit, Clerk!Open, SeenEvents, SeenOrders, Seen

\* Who cancels has found an event that is not cancelled yet.
LEMMA CloseStep ==
    ASSUME SalesInv, NEW s \in Request, CancelCommit(s)
    PROVE  \E e \in Event : Clerk!Close(e)
<1>1. PICK e \in Event : e = tx[s].event /\ event[e].status \in {"DRAFT", "PUBLISHED"}
  BY DEF CancelCommit, Doing, SalesInv, Knows, KnowsCancel
<1>2. SeenEvents' = [SeenEvents EXCEPT ![e].status = "CANCELLED"]
  BY <1>1, StatusSeen DEF CancelCommit
<1>3. SeenEvents[e].status \in {"DRAFT", "PUBLISHED"} /\ SeenOrders' = SeenOrders
  BY <1>1 DEF CancelCommit, SeenEvents, SeenOrders, Seen
<1> QED BY <1>1, <1>2, <1>3 DEF CancelCommit, Clerk!Close, SeenEvents, SeenOrders, Seen

\* Who issues has found the event published and enough of the type left.
LEMMA HandOutStep ==
    ASSUME SalesInv, NEW s \in Request, IssueCommit(s)
    PROVE  /\ tx[s].type \in Type /\ tx[s].n \in Units
           /\ Clerk!HandOut(tx[s].type, tx[s].n)
<1> DEFINE y == tx[s].type
           n == tx[s].n
<1>1. /\ y \in Type /\ n \in Units /\ event[EventOf[y]].status = "PUBLISHED"
      /\ type[y].status = "ACTIVE" /\ type[y].sold + n <= type[y].quantity
  BY DEF IssueCommit, Doing, SalesInv, Knows, KnowsIssue
<1>2. EventOf[y] \in Event
  BY <1>1, SalesAssumption
<1>3. SeenEvents[EventOf[y]].status = "PUBLISHED"
      /\ SeenEvents' = SeenEvents /\ SeenOrders' = SeenOrders
  BY <1>1, <1>2 DEF IssueCommit, SeenEvents, SeenOrders, Seen
<1> QED BY <1>1, <1>3
        DEF IssueCommit, Clerk!HandOut, Clerk!Available, SeenEvents, SeenOrders, Seen

\* The clerk wants of an order what the order wants.
LEMMA WantedSeen == \A o \in Order : Clerk!Wanted(SeenOrders[o]) = Wanted(o)
BY DEF Clerk!Wanted, SeenOrders, Wanted

\* Who checks out has found everything on sale, and the order is a new one.
LEMMA PlaceStep ==
    ASSUME SalesInv, PlacedOK, NEW s \in Request, NEW o \in Order, NEW e \in Event,
           NEW w \in [Type -> 0..MaxUnits], Checkout(s, o, e, w)
    PROVE  Clerk!Place(o, e, w)
<1>1. Clerk!Wanted(SeenOrders[o]) = {}
  BY WantedSeen DEF Checkout, PlacedOK
<1>2. SeenEvents[e].status = "PUBLISHED"
  BY DEF Checkout, SeenEvents, Seen
<1>3. Clerk!Wanted(w) # {}
      /\ \A y \in Clerk!Wanted(w) : EventOf[y] = e /\ Clerk!Available(y, w[y])
  BY DEF Checkout, Clerk!Wanted, Clerk!Available
<1>4. SeenOrders' = [SeenOrders EXCEPT ![o] = w]
  <2>1. order \in [Order -> OrderRows]
    BY TableTypes
  <2>2. \A x \in Order : order'[x].wants = IF x = o THEN w ELSE order[x].wants
    BY <2>1 DEF Checkout
  <2>3. SeenOrders' = [x \in Order |-> IF x = o THEN w ELSE order[x].wants]
    BY <2>2 DEF SeenOrders
  <2>4. [SeenOrders EXCEPT ![o] = w] = [x \in Order |-> IF x = o THEN w ELSE order[x].wants]
    BY DEF SeenOrders
  <2> QED BY <2>3, <2>4
<1>5. SeenEvents' = SeenEvents
  BY DEF Checkout, SeenEvents
<1> QED BY <1>1, <1>2, <1>3, <1>4, <1>5
        DEF Checkout, Clerk!Place, SeenEvents, SeenOrders, Seen

\* Only an order that was placed is charged.
LEMMA ChargeStep ==
    ASSUME SalesInv, PlacedOK, NEW s \in Request, PayCharge(s)
    PROVE  tx[s].order \in Order /\ Clerk!Charge(tx[s].order)
<1>1. tx[s].order \in Order /\ order[tx[s].order].status # "NONE"
  BY DEF PayCharge, Doing, SalesInv, Knows, KnowsOrder
<1>2. Clerk!Wanted(SeenOrders[tx[s].order]) # {}
  BY <1>1, WantedSeen DEF PlacedOK
<1>3. SeenEvents' = SeenEvents /\ SeenOrders' = SeenOrders
  BY DEF PayCharge, SeenEvents, SeenOrders
<1> QED BY <1>1, <1>2, <1>3 DEF PayCharge, Clerk!Charge, SeenEvents, SeenOrders, Seen

\* A payment that creates tickets has a charge that bought nothing yet.
LEMMA FulfilIsCharged ==
    ASSUME SalesInv, NEW s \in Request, Doing(s, "fulfil")
    PROVE  bought[tx[s].order] < charged[tx[s].order]
<1> DEFINE o == tx[s].order
<1>1. o \in Order
  BY DEF Doing, SalesInv, Knows, KnowsOrder
<1>2. s \in Paying(o) /\ IsFiniteSet(Paying(o))
  BY SalesAssumption, FS_Subset DEF Doing, Paying
<1>3. Cardinality(Paying(o)) \in Nat /\ Cardinality(Paying(o)) # 0
  BY <1>2, FS_CardinalityType, FS_EmptySet
<1>4. bought[o] \in Nat /\ charged[o] \in Nat
  BY <1>1, TableTypes, SalesAssumption
<1>5. bought[o] + Cardinality(Paying(o)) <= charged[o]
  BY <1>1 DEF SalesInv, ChargesOK
<1> QED BY <1>3, <1>4, <1>5

\* Who fulfils an order has a charge that bought nothing yet, and has found the
\* stock under the locks of its types; of the event nothing was asked.
LEMMA FillStep ==
    ASSUME SalesInv, PlacedOK, NEW s \in Request, PayCommit(s)
    PROVE  tx[s].order \in Order /\ Clerk!Fill(tx[s].order)
<1> DEFINE o == tx[s].order
<1>1. o \in Order /\ order[o].status # "NONE" /\ Wanted(o) \subseteq Type \cap holds[s]
  BY DEF PayCommit, Doing, SalesInv, Knows, KnowsOrder, Wanted
<1>2. Clerk!Wanted(SeenOrders[o]) = Wanted(o) /\ Wanted(o) # {}
  BY <1>1, WantedSeen DEF PlacedOK
<1>3. bought[o] < charged[o]
  BY FulfilIsCharged DEF PayCommit
<1>4. SeenOrders[o] = order[o].wants
  BY <1>1 DEF SeenOrders
<1>5. ASSUME NEW y \in Wanted(o)
      PROVE  /\ SeenEvents[EventOf[y]].status \in {"PUBLISHED", "CANCELLED"}
             /\ Clerk!Available(y, SeenOrders[o][y])
  <2>1. y \in Type \cap holds[s] /\ EventOf[y] \in Event
    BY <1>1, SalesAssumption
  <2>2. event[EventOf[y]].status \in {"PUBLISHED", "CANCELLED"}
    BY <1>1 DEF PlacedOK
  <2>3. type[y].status = "ACTIVE" /\ type[y].sold + order[o].wants[y] <= type[y].quantity
    BY <2>1 DEF PayCommit, SalesInv, Knows, KnowsFulfil
  <2> QED BY <1>4, <2>1, <2>2, <2>3 DEF SeenEvents, Seen, Clerk!Available
<1>6. order \in [Order -> OrderRows]
  BY TableTypes
<1>7. \A x \in Order : order'[x].wants = order[x].wants
  BY <1>1, <1>6 DEF PayCommit, OrderRows
<1>8. SeenOrders' = SeenOrders /\ SeenEvents' = SeenEvents
  BY <1>7 DEF PayCommit, SeenEvents, SeenOrders
<1>9. /\ type' = [y \in Type |-> [type[y] EXCEPT !.sold = @ + SeenOrders[o][y]]]
      /\ live' = [y \in Type |-> live[y] + SeenOrders[o][y]]
  BY <1>4 DEF PayCommit
<1> QED BY <1>1, <1>2, <1>3, <1>5, <1>8, <1>9
        DEF PayCommit, Clerk!Fill, SeenEvents, SeenOrders, Seen

-----------------------------------------------------------------------------

\* The clerk sees nothing of a step that changes no table.
LEMMA TablesRest == ASSUME UNCHANGED tables PROVE UNCHANGED Clerk!vars
BY DEF tables, Clerk!vars

\* Neither does the clerk see that an order or an event has become due.
LEMMA TimesRest ==
    ASSUME SalesInv, \/ \E s \in Request : PayLapse(s)
                     \/ \E o \in Order : OrderLapses(o)
                     \/ \E e \in Event : EventEnds(e)
    PROVE  UNCHANGED Clerk!vars
<1>1. event \in [Event -> EventRows] /\ order \in [Order -> OrderRows]
  BY TableTypes
<1>2. ASSUME NEW s \in Request, PayLapse(s)
      PROVE  UNCHANGED <<event, type, live, bought, charged>>
             /\ \A o \in Order : order'[o].wants = order[o].wants
  BY <1>1, <1>2 DEF PayLapse, OrderRows
<1>3. ASSUME NEW x \in Order, OrderLapses(x)
      PROVE  UNCHANGED <<event, type, live, bought, charged>>
             /\ \A o \in Order : order'[o].wants = order[o].wants
  BY <1>1, <1>3 DEF OrderLapses, OrderRows
<1>4. ASSUME NEW x \in Event, EventEnds(x)
      PROVE  /\ UNCHANGED <<order, type, live, bought, charged>>
             /\ \A e \in Event : event'[e].status = event[e].status
                                 /\ event'[e].capacity = event[e].capacity
  BY <1>1, <1>4 DEF EventEnds, EventRows
<1>5. CASE \E e \in Event : EventEnds(e)
  BY <1>4, <1>5, ClerkRests
<1>6. CASE \E s \in Request : PayLapse(s)
  BY <1>2, <1>6, ClerkRests
<1>7. CASE \E o \in Order : OrderLapses(o)
  BY <1>3, <1>7, ClerkRests
<1> QED BY <1>5, <1>6, <1>7

\* Every step is one of the clerk's or none.
LEMMA StepIsTheClerks ==
    ASSUME SalesInv, PlacedOK, [Next]_vars
    PROVE  [Clerk!Next]_(Clerk!vars)
<1> DEFINE Maps == Clerk!Next \/ UNCHANGED Clerk!vars
<1> SUFFICES Maps
  OBVIOUS
<1>1. ASSUME UNCHANGED tables PROVE Maps
  BY <1>1, TablesRest
<1>2. ASSUME NEW s \in Request, UpdateCommit(s) PROVE Maps
  BY <1>2, ResizeStep DEF Clerk!Next, Clerk!Units, Units
<1>3. ASSUME NEW s \in Request, ConfigureCommit(s) PROVE Maps
  BY <1>3, ConfigureStep DEF Clerk!Next, Clerk!Units, Units
<1>4. ASSUME NEW s \in Request, PublishCommit(s) \/ CancelCommit(s) PROVE Maps
  BY <1>4, OpenStep, CloseStep DEF Clerk!Next
<1>5. ASSUME NEW s \in Request, IssueCommit(s) PROVE Maps
  BY <1>5, HandOutStep DEF Clerk!Next, Clerk!Units, Units
<1>6. ASSUME NEW s \in Request, NEW o \in Order, NEW e \in Event,
             NEW w \in [Type -> 0..MaxUnits], Checkout(s, o, e, w)
      PROVE  Maps
  BY <1>6, PlaceStep DEF Clerk!Next
<1>7. ASSUME NEW s \in Request, PayCharge(s) \/ PayCommit(s) PROVE Maps
  BY <1>7, ChargeStep, FillStep DEF Clerk!Next
<1>8. ASSUME NEW e \in Event, NEW c \in Units, CreateEvent(e, c) PROVE Maps
  BY <1>8, AnnounceStep DEF Clerk!Next, Clerk!Units, Units
<1>9. ASSUME NEW s \in Request, PayLapse(s) PROVE Maps
  BY <1>9, TimesRest
<1>10. ASSUME NEW s \in Request, Organizing(s) PROVE Maps
  <2> HIDE DEF Maps
  <2> QED BY <1>1, <1>2, <1>3, <1>4, <1>5, <1>10
          DEF Organizing, UpdateLock, CreateTypeLock, UpdateTypeLock, PublishLock, CancelLock,
              IssueLock, IssueLockType, Begin, LockMore
<1>11. ASSUME NEW s \in Request, Buying(s) PROVE Maps
  <2> HIDE DEF Maps
  <2> QED BY <1>1, <1>6, <1>7, <1>9, <1>11
          DEF Buying, PayRead, PayRecheck, PayLockEvent, PayLockType, LockMore
<1>12. CASE Environment
  <2>1. ASSUME (\E o \in Order : OrderLapses(o)) \/ (\E e \in Event : EventEnds(e)) PROVE Maps
    BY <2>1, TimesRest
  <2> HIDE DEF Maps
  <2> QED BY <1>1, <1>8, <1>12, <2>1 DEF Environment, Rollback
<1>13. CASE UNCHANGED vars
  BY <1>1, <1>13 DEF vars, tables
<1> HIDE DEF Maps
<1> QED BY <1>10, <1>11, <1>12, <1>13 DEF Next

\* The empty database is an office before its first event.
LEMMA InitIsTheClerks ==
    ASSUME Init
    PROVE  Clerk!Init
<1>1. SeenEvents = [e \in Event |-> [status |-> "NONE", capacity |-> 0]]
  BY DEF Init, SeenEvents, Seen
<1>2. SeenOrders = [o \in Order |-> [y \in Type |-> 0]]
  BY DEF Init, SeenOrders
<1> QED BY <1>1, <1>2 DEF Init, Clerk!Init, SeenEvents, SeenOrders, Seen

\* Sales does what BoxOffice promises: however requests wait for row locks,
\* read what others are about to change, and are rolled back, what is created,
\* opened, closed, sold and charged is as if one clerk had done it.
THEOREM BoxOfficeIsImplemented == Spec => ImplementsBoxOffice
<1>1. Init => PlacedOK
  BY PlacedInit
<1>2. SalesInv /\ PlacedOK /\ [Next]_vars => PlacedOK'
  BY PlacedKept
<1>3. Init => Clerk!Init
  BY InitIsTheClerks
<1>4. SalesInv /\ PlacedOK /\ [Next]_vars => [Clerk!Next]_(Clerk!vars)
  BY StepIsTheClerks
<1> QED BY <1>1, <1>2, <1>3, <1>4, InvariantHolds, PTL
        DEF Spec, ImplementsBoxOffice, Clerk!Spec
-----------------------------------------------------------------------------
(***************************************************************************)
(* What the two refuted properties of Sales rest on.                       *)
(*                                                                         *)
(* The code does not make sure of these conditions; where they hold, so do *)
(* the properties.                                                         *)
(***************************************************************************)

Serving(s, o) == tx[s].op \in {"lapse", "charge", "recheck", "fulfil"} /\ tx[s].order = o

\* An order is paid by one request at a time.
OnePayment ==
    \A o \in Order : \A s, r \in Request : Serving(s, o) /\ Serving(r, o) => s = r

OnceInv ==
    /\ TicketsOnce
    /\ \A s \in Request : Doing(s, "fulfil") => bought[tx[s].order] = 0

\* A step that creates no tickets, and lets nobody create any.
OnceRests ==
    /\ bought' = bought
    /\ \A s \in Request : tx'[s] = tx[s] \/ tx'[s].op # "fulfil"

\* Which steps those are.
LEMMA OnceQuiet ==
    ASSUME SalesInv, [Next]_vars
    PROVE  OnceRests \/ \E s \in Request : PayRecheck(s) \/ PayCommit(s)
<1>1. tx \in [Request -> Steps]
  BY TxType
<1>2. ASSUME NEW s \in Request, Organizing(s)
      PROVE  OnceRests
  <2>1. bought' = bought
    BY <1>2 DEF Organizing, UpdateLock, CreateTypeLock, UpdateTypeLock, PublishLock, CancelLock,
                IssueLock, IssueLockType, Begin, LockMore, tables, UpdateCommit,
                ConfigureCommit, PublishCommit, CancelCommit, IssueCommit
  <2>2. ASSUME NEW e, NEW todo, Begin(s, e, todo), todo.op # "fulfil"
        PROVE  \A r \in Request : tx'[r] = tx[r] \/ tx'[r].op # "fulfil"
    BY <1>1, <2>2 DEF Begin
  <2>3. CASE UpdateCommit(s) \/ ConfigureCommit(s) \/ PublishCommit(s) \/ CancelCommit(s)
             \/ IssueCommit(s)
    BY <1>1, <2>1, <2>3
       DEF UpdateCommit, ConfigureCommit, PublishCommit, CancelCommit, IssueCommit, End, NoTx,
           OnceRests
  <2>4. CASE IssueLockType(s)
    BY <2>1, <2>4 DEF IssueLockType, LockMore, OnceRests
  <2>5. CASE \E e \in Event, c \in Units : UpdateLock(s, e, c)
    BY <2>1, <2>2, <2>5 DEF UpdateLock, NoTx, OnceRests
  <2>6. CASE \E y \in Type, q \in Units : CreateTypeLock(s, y, q)
    BY <2>1, <2>2, <2>6 DEF CreateTypeLock, OnceRests
  <2>7. CASE \E y \in Type, q \in Units, st \in {"ACTIVE", "INACTIVE"} :
                UpdateTypeLock(s, y, q, st)
    BY <2>1, <2>2, <2>7 DEF UpdateTypeLock, OnceRests
  <2>8. CASE \E e \in Event : PublishLock(s, e) \/ CancelLock(s, e)
    BY <2>1, <2>2, <2>8 DEF PublishLock, CancelLock, NoTx, OnceRests
  <2>9. CASE \E y \in Type, n \in Units : IssueLock(s, y, n)
    <3>1. PICK y \in Type, n \in Units : IssueLock(s, y, n)
      BY <2>9
    <3> DEFINE todo == [NoTx EXCEPT !.op = "issue", !.event = EventOf[y], !.type = y, !.n = n]
    <3>2. Begin(s, EventOf[y], todo) /\ todo.op = "issue"
      BY <3>1 DEF IssueLock, NoTx
    <3> HIDE DEF todo
    <3> QED BY <2>1, <2>2, <3>2 DEF OnceRests
  <2> QED BY <1>2, <2>3, <2>4, <2>5, <2>6, <2>7, <2>8, <2>9 DEF Organizing
<1>3. ASSUME NEW s \in Request, Buying(s)
      PROVE  OnceRests \/ PayRecheck(s) \/ PayCommit(s)
  <2>1. CASE \E o \in Order : PayRead(s, o)
    BY <1>1, <2>1 DEF PayRead, NoTx, tables, OnceRests
  <2>2. CASE PayCharge(s)
    BY <1>1, <2>2 DEF PayCharge, Goto, OnceRests
  <2>3. CASE PayLapse(s)
    BY <1>1, <2>3 DEF PayLapse, End, NoTx, OnceRests
  <2>4. CASE \/ PayLockEvent(s) \/ PayLockType(s)
             \/ \E o \in Order, e \in Event, w \in [Type -> 0..MaxUnits] : Checkout(s, o, e, w)
    BY <2>4 DEF PayLockEvent, PayLockType, LockMore, Checkout, tables, OnceRests
  <2> QED BY <1>3, <2>1, <2>2, <2>3, <2>4 DEF Buying
<1>4. CASE Environment
  BY <1>1, <1>4
     DEF Environment, CreateEvent, EventEnds, OrderLapses, Rollback, End, NoTx, tables, OnceRests
<1>5. CASE UNCHANGED vars
  BY <1>5 DEF vars, OnceRests
<1> QED BY <1>2, <1>3, <1>4, <1>5 DEF Next

\* With one payment at a time, what pay reads the second time stays true.
LEMMA OnceKept ==
    ASSUME SalesInv, OnceInv, OnePayment, [Next]_vars
    PROVE  OnceInv'
<1>1. tx \in [Request -> Steps] /\ bought \in [Order -> Nat]
  BY TxType, TableTypes
<1>2. CASE OnceRests
  BY <1>2 DEF OnceRests, OnceInv, TicketsOnce, Doing
<1>3. ASSUME NEW s \in Request, PayRecheck(s)
      PROVE  OnceInv'
  <2> DEFINE o == tx[s].order
  <2>1. o \in Order /\ bought' = bought
    BY <1>3 DEF PayRecheck, Doing, tables, SalesInv, Knows, KnowsOrder
  <2>2. \A r \in Request \ {s} : tx'[r] = tx[r]
    BY <1>1, <1>3 DEF PayRecheck, Goto, End
  <2>3. CASE order[o].status = "PENDING"
    <3>1. bought[o] = 0
      BY <2>1, <2>3 DEF SalesInv, OrdersOK
    <3>2. tx'[s].order = o
      BY <1>1, <1>3, <2>3 DEF PayRecheck, Goto, Steps
    <3> QED BY <2>1, <2>2, <3>1, <3>2 DEF OnceInv, TicketsOnce, Doing
  <2>4. CASE order[o].status # "PENDING"
    <3>1. tx'[s].op = "idle"
      BY <1>1, <1>3, <2>4 DEF PayRecheck, End, NoTx
    <3> QED BY <2>1, <2>2, <3>1 DEF OnceInv, TicketsOnce, Doing
  <2> QED BY <2>3, <2>4
<1>4. ASSUME NEW s \in Request, PayCommit(s)
      PROVE  OnceInv'
  <2> DEFINE o == tx[s].order
  <2>1. o \in Order /\ bought[o] = 0 /\ tx[s].op = "fulfil"
    BY <1>4 DEF PayCommit, Doing, OnceInv, SalesInv, Knows, KnowsOrder
  <2>2. bought'[o] = 1 /\ \A x \in Order \ {o} : bought'[x] = bought[x]
    BY <1>1, <1>4, <2>1 DEF PayCommit
  <2>3. tx'[s].op = "idle" /\ \A r \in Request \ {s} : tx'[r] = tx[r]
    BY <1>1, <1>4 DEF PayCommit, End, NoTx
  <2>4. ASSUME NEW r \in Request, tx'[r].op = "fulfil"
        PROVE  bought'[tx'[r].order] = 0
    <3>1. r # s /\ tx'[r] = tx[r] /\ tx[r].op = "fulfil"
      BY <2>3, <2>4
    <3>2. tx[r].order # o
      BY <2>1, <3>1 DEF OnePayment, Serving
    <3>3. tx[r].order \in Order /\ bought[tx[r].order] = 0
      BY <3>1 DEF Doing, OnceInv, SalesInv, Knows, KnowsOrder
    <3> QED BY <2>2, <3>1, <3>2, <3>3
  <2>5. TicketsOnce'
    BY <2>2 DEF OnceInv, TicketsOnce
  <2> QED BY <2>4, <2>5 DEF OnceInv, Doing
<1> QED BY <1>2, <1>3, <1>4, OnceQuiet

\* Two payments of one order at a time are the only way to have its tickets
\* created twice: neither its expiry, nor a failed fulfilment that is paid for
\* again, nor a charge without an answer does it.
THEOREM OnePaymentBuysOnce == Spec /\ []OnePayment => []TicketsOnce
<1>1. Init => OnceInv
  BY DEF Init, OnceInv, TicketsOnce, Doing, NoTx
<1>2. SalesInv /\ OnceInv /\ OnePayment /\ [Next]_vars => OnceInv'
  BY OnceKept
<1>3. OnceInv => TicketsOnce
  BY DEF OnceInv
<1> QED BY <1>1, <1>2, <1>3, InvariantHolds, PTL DEF Spec

-----------------------------------------------------------------------------

\* No order for a cancelled event gets as far as its fulfilling transaction.
NoLatePayment ==
    \A s \in Request : Doing(s, "fulfil") =>
        \A y \in Wanted(tx[s].order) : event[EventOf[y]].status # "CANCELLED"

\* A step that makes no ticket and cancels no event.
DoorsStay ==
    /\ live' = live
    /\ \A e \in Event : event'[e].status = "CANCELLED" => event[e].status = "CANCELLED"

\* Which steps those are.
LEMMA DoorsQuiet ==
    ASSUME SalesInv, [Next]_vars
    PROVE  DoorsStay \/ \E s \in Request : CancelCommit(s) \/ IssueCommit(s) \/ PayCommit(s)
<1>1. event \in [Event -> EventRows]
  BY TableTypes
<1>2. ASSUME UNCHANGED <<event, live>>
      PROVE  DoorsStay
  BY <1>2 DEF DoorsStay
<1>3. ASSUME NEW s \in Request, UpdateCommit(s)
      PROVE  DoorsStay
  BY <1>1, <1>3 DEF UpdateCommit, EventRows, DoorsStay
<1>4. ASSUME NEW s \in Request, PublishCommit(s)
      PROVE  DoorsStay
  BY <1>1, <1>4 DEF PublishCommit, EventRows, DoorsStay
<1>5. CASE \E e \in Event, c \in Units : CreateEvent(e, c)
  BY <1>1, <1>5 DEF CreateEvent, DoorsStay
<1>6. CASE \E e \in Event : EventEnds(e)
  BY <1>1, <1>6 DEF EventEnds, EventRows, DoorsStay
<1>7. ASSUME NEW s \in Request, Organizing(s)
      PROVE  DoorsStay \/ CancelCommit(s) \/ IssueCommit(s)
  BY <1>2, <1>3, <1>4, <1>7
     DEF Organizing, UpdateLock, CreateTypeLock, UpdateTypeLock, PublishLock, CancelLock,
         IssueLock, IssueLockType, Begin, LockMore, tables, ConfigureCommit
<1>8. ASSUME NEW s \in Request, Buying(s)
      PROVE  DoorsStay \/ PayCommit(s)
  BY <1>2, <1>8
     DEF Buying, Checkout, PayRead, PayLapse, PayCharge, PayRecheck, PayLockEvent, PayLockType,
         LockMore, tables
<1>9. CASE Environment
  BY <1>2, <1>5, <1>6, <1>9 DEF Environment, OrderLapses, Rollback, tables
<1>10. CASE UNCHANGED vars
  BY <1>2, <1>10 DEF vars
<1> QED BY <1>7, <1>8, <1>9, <1>10 DEF Next

\* The organizer's own issue holds the lock that a cancellation needs.
LEMMA CancelledStay ==
    ASSUME SalesInv, CancelledEventsSellNothing, NoLatePayment, [Next]_vars
    PROVE  CancelledEventsSellNothing'
<1> SUFFICES ASSUME NEW y \in Type, event'[EventOf[y]].status = "CANCELLED"
             PROVE  live'[y] = 0
  BY DEF CancelledEventsSellNothing
<1>1. /\ event \in [Event -> EventRows] /\ live \in [Type -> Nat] /\ EventOf[y] \in Event
      /\ event[EventOf[y]].status = "CANCELLED" => live[y] = 0
  BY TableTypes, SalesAssumption DEF CancelledEventsSellNothing
<1>2. CASE DoorsStay
  BY <1>1, <1>2 DEF DoorsStay
<1>3. ASSUME NEW s \in Request, CancelCommit(s)
      PROVE  live'[y] = 0
  <2>1. CASE EventOf[y] = tx[s].event
    BY <1>3, <2>1 DEF CancelCommit
  <2>2. CASE EventOf[y] # tx[s].event
    BY <1>1, <1>3, <2>2 DEF CancelCommit
  <2> QED BY <2>1, <2>2
<1>4. ASSUME NEW s \in Request, IssueCommit(s)
      PROVE  live'[y] = 0
  <2>1. tx[s].type \in Type /\ event[EventOf[tx[s].type]].status = "PUBLISHED" /\ event' = event
    BY <1>4 DEF IssueCommit, Doing, SalesInv, Knows, KnowsIssue
  <2>2. live'[y] = live[y]
    BY <1>1, <1>4, <2>1 DEF IssueCommit
  <2> QED BY <1>1, <2>1, <2>2
<1>5. ASSUME NEW s \in Request, PayCommit(s)
      PROVE  live'[y] = 0
  <2>1. event' = event /\ tx[s].order \in Order /\ y \notin Wanted(tx[s].order)
    BY <1>5 DEF PayCommit, Doing, NoLatePayment, SalesInv, Knows, KnowsOrder
  <2>2. order[tx[s].order].wants[y] \in Nat
    BY <2>1, TableTypes, SalesAssumption DEF OrderRows
  <2>3. order[tx[s].order].wants[y] = 0
    BY <2>1, <2>2 DEF Wanted
  <2>4. live'[y] = live[y] + 0
    BY <1>5, <2>3 DEF PayCommit
  <2> QED BY <1>1, <2>1, <2>4
<1> QED BY <1>2, <1>3, <1>4, <1>5, DoorsQuiet

\* A payment that goes on after the event was cancelled is the only way for a
\* cancelled event to have live tickets: the organizer's issue, though it reads
\* the event's status some steps before it writes, is not one.
THEOREM NothingElseSells == Spec /\ []NoLatePayment => []CancelledEventsSellNothing
<1>1. Init => CancelledEventsSellNothing
  BY SalesAssumption DEF Init, CancelledEventsSellNothing
<1>2. SalesInv /\ CancelledEventsSellNothing /\ NoLatePayment /\ [Next]_vars
      => CancelledEventsSellNothing'
  BY CancelledStay
<1> QED BY <1>1, <1>2, InvariantHolds, PTL DEF Spec

=============================================================================
