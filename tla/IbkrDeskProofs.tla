--------------------------- MODULE IbkrDeskProofs ---------------------------
(***************************************************************************)
(* What keeps IBKR orders apart, for any number of users, signals, ports   *)
(* and faults: OrderedOncePerAccount and LiveOrdersConfirmed.              *)
(*                                                                         *)
(* A batch that is linked to a port is the only one there, because all     *)
(* batches use one client id.  So while it works, nobody but itself orders *)
(* at its account, and what it found pending stays without an order there  *)
(* (TodoIsFresh).  It can leave an order behind a signal that is still     *)
(* pending only by losing its session or its transaction, which is what    *)
(* `lost' counts (OrdersCounted).                                          *)
(***************************************************************************)
EXTENDS IbkrDesk, FiniteSetTheorems, SequenceTheorems, TLAPS

Account == Ports \cup {None}

Batch == [pc : {"idle", "probe", "connected", "work", "sent", "stop", "closing"},
          port : 1..Done, found : SUBSET Ports, at : Account, confirm : Account,
          ids : SUBSET Signals, todo : SUBSET Signals, sig : SUBSET Signals,
          marks : SUBSET (Signals \X {"PLACED", "REJECTED"})]

Order == [signal : Signals, at : Ports, by : {"sync", "order"}, stop : BOOLEAN, confirm : Account]

StateOK ==
    /\ up \subseteq Ports
    /\ links \subseteq Ports \X Clients
    /\ client \in [Clients -> Batch]
    /\ signal \in [Signals -> {"PENDING_APPROVAL", "PLACED", "REJECTED"}]
    /\ orders \in Seq(Order)
    /\ lost \in [Signals -> Nat]
    /\ table.account \in Account

\* One connection per client id and port.
OneLink ==
    \A l, m \in links : l[1] = m[1] /\ ClientId(l[2]) = ClientId(m[2]) => l = m

\* Where a batch stands, and what it therefore holds.
Holds(c) ==
    /\ client[c].pc \in {"idle", "probe", "closing"} => client[c].at = None
    /\ client[c].pc \in {"connected", "work", "sent", "stop"} => client[c].at # None
    /\ client[c].pc \in {"idle", "probe", "closing", "connected"} =>
           client[c].todo = {} /\ client[c].sig = {} /\ client[c].marks = {}
    /\ client[c].pc # "sent" =>
           \A s \in client[c].sig : s \notin client[c].todo /\ <<s, "PLACED">> \in client[c].marks
    /\ c \in Users /\ client[c].at # None => ~ LiveRefused(client[c].at, client[c].confirm)

Batches == \A c \in Clients : Holds(c)

OrdersOf(s, p) == {o \in DOMAIN orders : orders[o].signal = s /\ orders[o].at = p}

\* A batch that is linked to p has an order of s out.
HeldAt(s, p) == \E u \in Users : Linked(u) /\ client[u].at = p /\ Sent(u, s)

OrdersCounted ==
    \A s \in Signals, p \in Ports :
        LET n == Cardinality(OrdersOf(s, p))
        IN  \/ n <= lost[s]
            \/ n <= lost[s] + 1 /\ (signal[s] # "PENDING_APPROVAL" \/ HeldAt(s, p))

TodoIsFresh ==
    \A u \in Users : Linked(u) =>
        \A s \in client[u].todo \ client[u].sig :
            Cardinality(OrdersOf(s, client[u].at)) <= lost[s]

IInv == StateOK /\ OneLink /\ Batches /\ OrdersCounted /\ TodoIsFresh /\ LiveOrdersConfirmed

-----------------------------------------------------------------------------
\* The orders of a signal at an account are finitely many.
LEMMA OrdersFinite ==
    ASSUME orders \in Seq(Order), NEW s, NEW p
    PROVE  IsFiniteSet(OrdersOf(s, p)) /\ Cardinality(OrdersOf(s, p)) \in Nat
<1>1. IsFiniteSet(1..Len(orders))
  BY FS_Interval, LenProperties
<1>2. OrdersOf(s, p) \subseteq 1..Len(orders)
  BY DEF OrdersOf
<1> QED
  BY <1>1, <1>2, FS_Subset, FS_CardinalityType

\* A new order is counted once, for its signal and account.
LEMMA OrderCounted ==
    ASSUME orders \in Seq(Order), NEW o \in Order, orders' = Append(orders, o), NEW s, NEW p
    PROVE  Cardinality(OrdersOf(s, p)') =
             IF o.signal = s /\ o.at = p THEN Cardinality(OrdersOf(s, p)) + 1
                                         ELSE Cardinality(OrdersOf(s, p))
<1>1. /\ Len(orders) \in Nat /\ DOMAIN orders = 1..Len(orders)
      /\ DOMAIN orders' = 1..(Len(orders) + 1)
      /\ \A i \in 1..Len(orders) : orders'[i] = orders[i]
      /\ orders'[Len(orders) + 1] = o
  BY LenProperties, AppendProperties
<1>2. CASE o.signal = s /\ o.at = p
  <2>1. OrdersOf(s, p)' = OrdersOf(s, p) \cup {Len(orders) + 1}
    BY <1>1, <1>2 DEF OrdersOf
  <2>2. Len(orders) + 1 \notin OrdersOf(s, p)
    BY <1>1 DEF OrdersOf
  <2> QED
    BY <1>2, <2>1, <2>2, OrdersFinite, FS_AddElement
<1>3. CASE ~ (o.signal = s /\ o.at = p)
  <2>1. OrdersOf(s, p)' = OrdersOf(s, p)
    BY <1>1, <1>3 DEF OrdersOf
  <2> QED
    BY <1>3, <2>1
<1> QED
  BY <1>2, <1>3

\* The least of some ports is one of them.
LEMMA LeastPort == ASSUME NEW S \in SUBSET (1..5), S # {} PROVE Min(S) \in S
<1>1. \E x \in S : \A y \in S : x <= y
  <2>1. CASE 1 \in S
    BY <2>1
  <2>2. CASE 1 \notin S /\ 2 \in S
    BY <2>2
  <2>3. CASE 1 \notin S /\ 2 \notin S /\ 3 \in S
    BY <2>3
  <2>4. CASE 1 \notin S /\ 2 \notin S /\ 3 \notin S /\ 4 \in S
    BY <2>4
  <2>5. CASE 1 \notin S /\ 2 \notin S /\ 3 \notin S /\ 4 \notin S
    <3>1. PICK x \in S : TRUE
      OBVIOUS
    <3>2. \A y \in S : x <= y
      BY <2>5
    <3> QED
      BY <3>2
  <2> QED
    BY <2>1, <2>2, <2>3, <2>4, <2>5
<1> QED
  BY <1>1 DEF Min

\* A batch that loses its place is counted for each signal it has sent.
LEMMA LosesCounts ==
    ASSUME NEW U \in SUBSET Users, Loses(U), lost \in [Signals -> Nat]
    PROVE  /\ lost' \in [Signals -> Nat]
           /\ \A s \in Signals : lost'[s] >= lost[s]
           /\ \A s \in Signals, u \in U : Sent(u, s) => lost'[s] >= lost[s] + 1
<1> DEFINE Of(s) == {u \in U : Sent(u, s)}
<1>1. \A s \in Signals : IsFiniteSet(Of(s))
  BY FS_Subset, IbkrAssumption
<1>2. \A s \in Signals : Cardinality(Of(s)) \in Nat
  BY <1>1, FS_CardinalityType
<1>3. \A s \in Signals, u \in U : Sent(u, s) => Cardinality(Of(s)) >= 1
  BY <1>1, <1>2, FS_EmptySet
<1>4. lost' = [s \in Signals |-> lost[s] + Cardinality(Of(s))]
  BY DEF Loses
<1> HIDE DEF Of
<1> QED
  BY <1>2, <1>3, <1>4

-----------------------------------------------------------------------------
(***************************************************************************)
(* Every step but a login is a step of one client, or of none.  What such  *)
(* a step must keep.                                                       *)
(***************************************************************************)
\* Nobody but c moves.
OnlyMoves(c) ==
    \A d \in Clients \ {c} : client'[d] = client[d] /\ (Linked(d)' <=> Linked(d))

\* A signal that c has sent is held on to, no longer pending, or counted.
KeepsHold(c) ==
    \A s \in Signals : Linked(c) /\ Sent(c, s) =>
        \/ lost'[s] >= lost[s] + 1
        \/ signal'[s] # "PENDING_APPROVAL"
        \/ Linked(c)' /\ client'[c].at = client[c].at /\ Sent(c, s)'

\* c has nothing new to do.
KeepsTodo(c) ==
    Linked(c)' => /\ Linked(c) \/ client'[c].todo = {}
                  /\ client'[c].todo # {} => client'[c].at = client[c].at
                  /\ client'[c].todo \ client'[c].sig \subseteq client[c].todo \ client[c].sig

BookGrows ==
    /\ \A s \in Signals : lost'[s] >= lost[s]
    /\ \A s \in Signals : signal'[s] = "PENDING_APPROVAL" => signal[s] = "PENDING_APPROVAL"

SameOrders ==
    \A s \in Signals, p \in Ports : Cardinality(OrdersOf(s, p)') = Cardinality(OrdersOf(s, p))

\* A step of one client that keeps its hold keeps the count of the orders.
LEMMA CountKept ==
    ASSUME IInv, StateOK', NEW c \in Clients, OnlyMoves(c), KeepsHold(c), BookGrows, SameOrders
    PROVE  OrdersCounted'
<1>1. \A s \in Signals : lost[s] \in Nat /\ lost'[s] \in Nat
  BY DEF IInv, StateOK
<1>2. \A s \in Signals, p \in Ports : Cardinality(OrdersOf(s, p)) \in Nat
  BY OrdersFinite DEF IInv, StateOK
<1>3. ASSUME NEW s \in Signals, NEW p \in Ports, HeldAt(s, p), signal'[s] = "PENDING_APPROVAL"
      PROVE  HeldAt(s, p)' \/ lost'[s] >= lost[s] + 1
  <2>1. PICK u \in Users : Linked(u) /\ client[u].at = p /\ Sent(u, s)
    BY <1>3 DEF HeldAt
  <2>2. CASE u = c
    BY <2>1, <2>2, <1>3 DEF KeepsHold, HeldAt
  <2>3. CASE u # c
    <3>1. client'[u] = client[u] /\ (Linked(u)' <=> Linked(u))
      BY <2>3 DEF OnlyMoves, Clients
    <3>2. Sent(u, s)'
      BY <2>1, <3>1 DEF Sent
    <3> QED
      BY <2>1, <3>1, <3>2 DEF HeldAt
  <2> QED
    BY <2>2, <2>3
<1>4. SUFFICES ASSUME NEW s \in Signals, NEW p \in Ports
               PROVE  LET n == Cardinality(OrdersOf(s, p)')
                      IN  \/ n <= lost'[s]
                          \/ n <= lost'[s] + 1 /\ (signal'[s] # "PENDING_APPROVAL" \/ HeldAt(s, p)')
  BY DEF OrdersCounted
<1>5. LET n == Cardinality(OrdersOf(s, p))
      IN  \/ n <= lost[s]
          \/ n <= lost[s] + 1 /\ (signal[s] # "PENDING_APPROVAL" \/ HeldAt(s, p))
  BY DEF IInv, OrdersCounted
<1>6. Cardinality(OrdersOf(s, p)') = Cardinality(OrdersOf(s, p))
  BY DEF SameOrders
<1>7. lost'[s] >= lost[s] /\ (signal'[s] = "PENDING_APPROVAL" => signal[s] = "PENDING_APPROVAL")
  BY DEF BookGrows
<1>8. HeldAt(s, p) /\ signal'[s] = "PENDING_APPROVAL" => HeldAt(s, p)' \/ lost'[s] >= lost[s] + 1
  BY <1>3
<1>9. /\ lost[s] \in Nat /\ lost'[s] \in Nat
      /\ Cardinality(OrdersOf(s, p)) \in Nat
  BY <1>1, <1>2
<1> QED
  BY <1>5, <1>6, <1>7, <1>8, <1>9

\* A step of one client that finds nothing new to do keeps what is to do fresh.
LEMMA TodoKept ==
    ASSUME IInv, StateOK', NEW c \in Clients, OnlyMoves(c), KeepsTodo(c), BookGrows, SameOrders
    PROVE  TodoIsFresh'
<1>1. \A s \in Signals : lost[s] \in Nat /\ lost'[s] \in Nat /\ lost'[s] >= lost[s]
  BY DEF IInv, StateOK, BookGrows
<1>2. \A s \in Signals, p \in Ports : Cardinality(OrdersOf(s, p)) \in Nat
  BY OrdersFinite DEF IInv, StateOK
<1>3. SUFFICES ASSUME NEW u \in Users, Linked(u)', NEW s \in client'[u].todo \ client'[u].sig
               PROVE  Cardinality(OrdersOf(s, client[u].at)') <= lost'[s]
  BY DEF TodoIsFresh
<1>4. Linked(u) /\ client'[u].at = client[u].at /\ s \in client[u].todo \ client[u].sig
  BY <1>3 DEF OnlyMoves, KeepsTodo, Clients
<1>5. s \in Signals /\ client[u].at \in Ports
  BY <1>4 DEF IInv, StateOK, Batch, Clients, Linked
<1>6. PICK p \in Ports : p = client[u].at /\ p = client'[u].at
  BY <1>4, <1>5
<1>7. Cardinality(OrdersOf(s, p)) <= lost[s]
  BY <1>4, <1>6 DEF IInv, TodoIsFresh
<1>8. OrdersOf(s, client[u].at)' = OrdersOf(s, p)'
  BY <1>6 DEF OrdersOf
<1>9. Cardinality(OrdersOf(s, p)') = Cardinality(OrdersOf(s, p))
  BY <1>5 DEF SameOrders
<1> QED
  BY <1>1, <1>2, <1>5, <1>7, <1>8, <1>9

\* One batch becomes b, and the other clients keep their links.
LEMMA OneClient ==
    ASSUME IInv, NEW c \in Clients, NEW b \in Batch, client' = [client EXCEPT ![c] = b],
           \A d \in Clients \ {c}, p \in Account : <<p, d>> \in links' <=> <<p, d>> \in links
    PROVE  /\ client' \in [Clients -> Batch]
           /\ client'[c] = b
           /\ OnlyMoves(c)
           /\ Holds(c)' => Batches'
<1>1. client \in [Clients -> Batch]
  BY DEF IInv, StateOK
<1>2. client' \in [Clients -> Batch] /\ client'[c] = b
  BY <1>1
<1>3. \A d \in Clients \ {c} : client'[d] = client[d]
  BY <1>1
<1>4. \A d \in Clients : client[d].at \in Account
  BY <1>1 DEF Batch
<1>5. OnlyMoves(c)
  BY <1>3, <1>4 DEF OnlyMoves, Linked
<1>6. Holds(c)' => Batches'
  BY <1>3 DEF IInv, Batches, Holds
<1> QED
  BY <1>2, <1>5, <1>6

\* The rest of the state after a step of c that orders nothing new.
RestOK(c) ==
    /\ up' = up /\ table'.account \in Account
    /\ links' \subseteq Ports \X Clients
    /\ \A d \in Clients \ {c}, p \in Account : <<p, d>> \in links' <=> <<p, d>> \in links
    /\ signal' \in [Signals -> {"PENDING_APPROVAL", "PLACED", "REJECTED"}]
    /\ lost' \in [Signals -> Nat]
    /\ orders' \in Seq(Order)

\* A step of one client that orders nothing new.
LEMMA StepKeeps ==
    ASSUME IInv, NEW c \in Clients, NEW b \in Batch, client' = [client EXCEPT ![c] = b],
           RestOK(c), OneLink', BookGrows, SameOrders, LiveOrdersConfirmed', Holds(c)', KeepsHold(c)
    PROVE  StateOK' /\ OnlyMoves(c) /\ OrdersCounted' /\ Batches' /\ (KeepsTodo(c) => IInv')
<1>1. client' \in [Clients -> Batch] /\ OnlyMoves(c) /\ Batches'
  BY OneClient DEF RestOK
<1>2. StateOK'
  BY <1>1 DEF IInv, StateOK, RestOK
<1>3. OrdersCounted'
  BY <1>1, <1>2, CountKept
<1>4. KeepsTodo(c) => TodoIsFresh'
  BY <1>1, <1>2, TodoKept
<1> QED
  BY <1>1, <1>2, <1>3, <1>4 DEF IInv

LEMMA ApproveKeeps ==
    ASSUME IInv, NEW u \in Users, NEW ids \in SUBSET Signals,
           NEW confirm \in {None, table.account}, Approve(u, ids, confirm)
    PROVE  IInv'
<1> DEFINE b == [Idle EXCEPT !.pc = "probe", !.ids = ids, !.confirm = confirm]
<1>1. client \in [Clients -> Batch] /\ u \in Clients /\ Holds(u)
  BY DEF IInv, StateOK, Batches, Clients
<1>2. b \in Batch
  <2>1. confirm \in Account
    BY DEF IInv, StateOK, Account, None
  <2>2. Idle \in Batch
    BY DEF Batch, Ports, Account, Done, None, Idle
  <2>3. ids \in SUBSET Signals
    OBVIOUS
  <2> QED
    BY <2>1, <2>2, <2>3 DEF Batch
<1>3. client' = [client EXCEPT ![u] = b] /\ client'[u] = b /\ UNCHANGED <<up, links, signal, orders, lost, table>>
  BY <1>1 DEF Approve, Idle
<1>4. RestOK(u)
  BY <1>3 DEF RestOK, IInv, StateOK
<1>5. OneLink'
  BY <1>3 DEF IInv, OneLink
<1>6. BookGrows
  BY <1>3 DEF IInv, StateOK, BookGrows
<1>7. SameOrders
  BY <1>3 DEF SameOrders, OrdersOf
<1>8. LiveOrdersConfirmed'
  BY <1>3 DEF IInv, LiveOrdersConfirmed
<1>9. Holds(u)'
  BY <1>1, <1>3, IbkrAssumption DEF Holds, Batch, LiveRefused, Approve, Idle
<1>10. KeepsHold(u)
  BY <1>1, <1>3 DEF KeepsHold, Holds, Linked, Sent, Batch, Account, Approve, Idle
<1>11. KeepsTodo(u)
  BY <1>1, <1>3 DEF KeepsTodo, Holds, Linked, Batch, Account, Approve, Idle
<1> HIDE DEF b
<1> QED
  BY <1>1, <1>2, <1>3, <1>4, <1>5, <1>6, <1>7, <1>8, <1>9, <1>10, <1>11, StepKeeps

LEMMA SyncConnectsKeeps ==
    ASSUME IInv, SyncConnects
    PROVE  IInv'
<1> DEFINE b == [Idle EXCEPT !.pc = "probe"]
<1>1. client \in [Clients -> Batch] /\ Sync \in Clients /\ Holds(Sync)
  BY DEF IInv, StateOK, Batches, Clients
<1>2. b \in Batch
  BY <1>1 DEF Batch, Ports, Account, Done, None, Idle
<1>3. client' = [client EXCEPT ![Sync] = b] /\ client'[Sync] = b /\ UNCHANGED <<up, links, signal, orders, lost, table>>
  BY <1>1 DEF SyncConnects, Idle
<1>4. RestOK(Sync)
  BY <1>3 DEF RestOK, IInv, StateOK
<1>5. OneLink'
  BY <1>3 DEF IInv, OneLink
<1>6. BookGrows
  BY <1>3 DEF IInv, StateOK, BookGrows
<1>7. SameOrders
  BY <1>3 DEF SameOrders, OrdersOf
<1>8. LiveOrdersConfirmed'
  BY <1>3 DEF IInv, LiveOrdersConfirmed
<1>9. Holds(Sync)'
  BY <1>1, <1>3, IbkrAssumption DEF Holds, Batch, LiveRefused, SyncConnects, Idle
<1>10. KeepsHold(Sync)
  BY <1>1, <1>3 DEF KeepsHold, Holds, Linked, Sent, Batch, Account, SyncConnects, Idle
<1>11. KeepsTodo(Sync)
  BY <1>1, <1>3 DEF KeepsTodo, Holds, Linked, Batch, Account, SyncConnects, Idle
<1> HIDE DEF b
<1> QED
  BY <1>1, <1>2, <1>3, <1>4, <1>5, <1>6, <1>7, <1>8, <1>9, <1>10, <1>11, StepKeeps

\* A port that answers has no link of this client id.
LEMMA ProbeKeeps ==
    ASSUME IInv, NEW c \in Clients, Probe(c)
    PROVE  IInv'
<1> DEFINE p == client[c].port
           found == IF Answers(p, c) THEN {p} ELSE {}
           b == [client[c] EXCEPT !.port = NextPort(p), !.found = @ \cup found]
<1>1. client \in [Clients -> Batch] /\ c \in Clients /\ Holds(c)
  BY DEF IInv, StateOK, Batches, Clients
<1>2. b \in Batch
  <2>1. p \in 1..4 /\ client[c] \in Batch
    BY <1>1 DEF Probe, Batch, Done
  <2>2. NextPort(p) \in 1..5
    <3> HIDE DEF p
    <3> DEFINE rest == {q \in Available \cup {Done} : q > p}
    <3>1. rest \in SUBSET (1..5)
      <4>1. Available \cup {Done} \subseteq 1..5
        BY IbkrAssumption DEF Ports, Done
      <4> QED
        BY <4>1
    <3>2. Done > p
      BY <2>1 DEF Done
    <3>3. Done \in rest
      BY <3>2
    <3>4. NextPort(p) = Min(rest)
      BY DEF NextPort
    <3> HIDE DEF rest
    <3> QED
      BY <3>1, <3>3, <3>4, LeastPort
  <2>3. found \subseteq Ports
    BY DEF Answers, IInv, StateOK
  <2> QED
    BY <2>1, <2>2, <2>3 DEF Batch, Done
<1>3. client' = [client EXCEPT ![c] = b] /\ client'[c] = b /\ UNCHANGED <<up, signal, orders, lost, table>>
  BY <1>1 DEF Probe, Answers
<1>4. RestOK(c)
  <2>1. links' \subseteq Ports \X Clients
    BY <1>1 DEF Probe, Answers, IInv, StateOK
  <2>2. \A d \in Clients \ {c}, q \in Account : <<q, d>> \in links' <=> <<q, d>> \in links
    BY DEF Probe
  <2> QED
    BY <1>3, <2>1, <2>2 DEF RestOK, IInv, StateOK
<1>5. OneLink'
  <2>1. links' = links \cup (found \X {c})
    BY DEF Probe
  <2>2. CASE Answers(p, c)
    <3>1. \A l \in links : l = <<l[1], l[2]>> /\ l[2] \in Clients
      BY DEF IInv, StateOK
    <3>2. \A l \in links : l[1] = p => ClientId(l[2]) # ClientId(c)
      BY <2>2, <3>1 DEF Answers
    <3> QED
      BY <2>1, <2>2, <3>2 DEF IInv, OneLink
  <2>3. CASE ~ Answers(p, c)
    BY <2>1, <2>3 DEF IInv, OneLink
  <2> QED
    BY <2>2, <2>3
<1>6. BookGrows
  BY <1>3 DEF IInv, StateOK, BookGrows
<1>7. SameOrders
  BY <1>3 DEF SameOrders, OrdersOf
<1>8. LiveOrdersConfirmed'
  BY <1>3 DEF IInv, LiveOrdersConfirmed
<1>9. Holds(c)'
  BY <1>1, <1>3, IbkrAssumption DEF Holds, Batch, LiveRefused, Probe, Answers
<1>10. KeepsHold(c)
  BY <1>1, <1>3 DEF KeepsHold, Holds, Linked, Sent, Batch, Account, Probe, Answers
<1>11. KeepsTodo(c)
  BY <1>1, <1>3 DEF KeepsTodo, Holds, Linked, Batch, Account, Probe, Answers
<1> HIDE DEF b
<1> QED
  BY <1>1, <1>2, <1>3, <1>4, <1>5, <1>6, <1>7, <1>8, <1>9, <1>10, <1>11, StepKeeps

LEMMA ConnectedKeeps ==
    ASSUME IInv, NEW c \in Clients, Connected(c)
    PROVE  IInv'
<1> DEFINE at == Chosen(client[c].found)
           stay == at # None /\ (c \in Users => ~ LiveRefused(at, client[c].confirm))
           b == IF stay THEN [client[c] EXCEPT !.pc = "connected", !.at = at, !.found = {}]
                        ELSE Idle
<1>1. client \in [Clients -> Batch] /\ c \in Clients /\ Holds(c)
  BY DEF IInv, StateOK, Batches, Clients
<1>2. b \in Batch
  <2>1. at \in Account
    <3>1. client[c].found \in SUBSET Ports
      BY <1>1 DEF Batch
    <3>2. Ports \subseteq 1..5
      BY DEF Ports
    <3>3. client[c].found # {} => Min(client[c].found) \in client[c].found
      BY <3>1, <3>2, LeastPort
    <3> QED
      BY <3>1, <3>3 DEF Chosen, Account
  <2>2. client[c] \in Batch
    BY <1>1
  <2>3. Idle \in Batch
    BY DEF Batch, Ports, Account, Done, None, Idle
  <2> HIDE DEF at
  <2> QED
    BY <2>1, <2>2, <2>3 DEF Batch
<1>3. client' = [client EXCEPT ![c] = b] /\ client'[c] = b /\ UNCHANGED <<up, signal, orders, lost, table>>
  BY <1>1 DEF Connected, Idle
<1>4. RestOK(c)
  BY <1>1, <1>3 DEF RestOK, IInv, StateOK, Connected
<1>5. OneLink'
  BY DEF IInv, OneLink, Connected
<1>6. BookGrows
  BY <1>3 DEF IInv, StateOK, BookGrows
<1>7. SameOrders
  BY <1>3 DEF SameOrders, OrdersOf
<1>8. LiveOrdersConfirmed'
  BY <1>3 DEF IInv, LiveOrdersConfirmed
<1>9. Holds(c)'
  <2>1. CASE stay
    <3>1. b = [client[c] EXCEPT !.pc = "connected", !.at = at, !.found = {}]
      BY <2>1
    <3>2. /\ b.pc = "connected" /\ b.at = at /\ at # None /\ b.confirm = client[c].confirm
          /\ b.todo = {} /\ b.sig = {} /\ b.marks = {}
      BY <1>1, <2>1, <3>1 DEF Batch, Holds, Connected
    <3>3. c \in Users => ~ LiveRefused(at, client[c].confirm)
      BY <2>1
    <3> HIDE DEF b, at
    <3> QED
      BY <1>3, <3>2, <3>3 DEF Holds
  <2>2. CASE ~ stay
    <3>1. b = Idle
      BY <2>2
    <3> HIDE DEF b
    <3> QED
      BY <1>3, <3>1 DEF Holds, Idle
  <2> QED
    BY <2>1, <2>2
<1>10. KeepsHold(c)
  BY <1>1 DEF KeepsHold, Holds, Linked, Sent, Connected
<1>11. KeepsTodo(c)
  <2>1. b.todo = {}
    BY <1>1 DEF Holds, Batch, Idle, Connected
  <2> HIDE DEF b
  <2> QED
    BY <1>3, <2>1 DEF KeepsTodo
<1> HIDE DEF b
<1> QED
  BY <1>1, <1>2, <1>3, <1>4, <1>5, <1>6, <1>7, <1>8, <1>9, <1>10, <1>11, StepKeeps

LEMMA DisconnectKeeps ==
    ASSUME IInv, NEW u \in Users, Disconnect(u)
    PROVE  IInv'
<1> DEFINE b == Idle
<1>1. client \in [Clients -> Batch] /\ u \in Clients /\ Holds(u)
  BY DEF IInv, StateOK, Batches, Clients
<1>2. b \in Batch
  BY <1>1 DEF Batch, Ports, Account, Done, None, Idle
<1>3. client' = [client EXCEPT ![u] = b] /\ client'[u] = b /\ UNCHANGED <<up, signal, orders, lost, table>>
  BY <1>1 DEF Disconnect, Idle
<1>4. RestOK(u)
  BY <1>1 DEF RestOK, IInv, StateOK, Clients, Account, Disconnect, Idle
<1>5. OneLink'
  BY DEF IInv, OneLink, Disconnect, Idle
<1>6. BookGrows
  BY <1>3 DEF IInv, StateOK, BookGrows
<1>7. SameOrders
  BY <1>3 DEF SameOrders, OrdersOf
<1>8. LiveOrdersConfirmed'
  BY <1>3 DEF IInv, LiveOrdersConfirmed
<1>9. Holds(u)'
  BY <1>1, <1>3, IbkrAssumption DEF Holds, Batch, LiveRefused, Disconnect, Idle
<1>10. KeepsHold(u)
  BY <1>1, <1>3 DEF KeepsHold, Holds, Linked, Sent, Batch, Account, Disconnect, Idle
<1>11. KeepsTodo(u)
  BY <1>1, <1>3 DEF KeepsTodo, Holds, Linked, Batch, Account, Disconnect, Idle
<1> HIDE DEF b
<1> QED
  BY <1>1, <1>2, <1>3, <1>4, <1>5, <1>6, <1>7, <1>8, <1>9, <1>10, <1>11, StepKeeps

LEMMA RefuseKeeps ==
    ASSUME IInv, NEW u \in Users, NEW s \in Signals, Refuse(u, s)
    PROVE  IInv'
<1> DEFINE b == [client[u] EXCEPT !.todo = @ \ {s}, !.marks = @ \cup {<<s, "REJECTED">>}]
<1>1. client \in [Clients -> Batch] /\ u \in Clients /\ Holds(u)
  BY DEF IInv, StateOK, Batches, Clients
<1>2. b \in Batch
  <2>1. client[u] \in Batch
    BY <1>1
  <2>2. {<<s, "REJECTED">>} \subseteq Signals \X {"PLACED", "REJECTED"}
    OBVIOUS
  <2> QED
    BY <2>1, <2>2 DEF Batch
<1>3. client' = [client EXCEPT ![u] = b] /\ client'[u] = b /\ UNCHANGED <<up, links, signal, orders, lost, table>>
  BY <1>1 DEF Refuse
<1>4. RestOK(u)
  BY <1>3 DEF RestOK, IInv, StateOK
<1>5. OneLink'
  BY <1>3 DEF IInv, OneLink
<1>6. BookGrows
  BY <1>3 DEF IInv, StateOK, BookGrows
<1>7. SameOrders
  BY <1>3 DEF SameOrders, OrdersOf
<1>8. LiveOrdersConfirmed'
  BY <1>3 DEF IInv, LiveOrdersConfirmed
<1>9. Holds(u)'
  BY <1>1, <1>3, IbkrAssumption DEF Holds, Batch, LiveRefused, Refuse
<1>10. KeepsHold(u)
  BY <1>1, <1>3 DEF KeepsHold, Holds, Linked, Sent, Batch, Account, Refuse
<1>11. KeepsTodo(u)
  BY <1>1, <1>3 DEF KeepsTodo, Holds, Linked, Batch, Account, Refuse
<1> HIDE DEF b
<1> QED
  BY <1>1, <1>2, <1>3, <1>4, <1>5, <1>6, <1>7, <1>8, <1>9, <1>10, <1>11, StepKeeps

LEMMA MarkPlacedKeeps ==
    ASSUME IInv, NEW u \in Users, MarkPlaced(u)
    PROVE  IInv'
<1> DEFINE b == [client[u] EXCEPT
                !.pc = IF client[u].sig \subseteq Opens THEN "stop" ELSE "work",
                !.todo = @ \ client[u].sig,
                !.marks = @ \cup (client[u].sig \X {"PLACED"})]
<1>1. client \in [Clients -> Batch] /\ u \in Clients /\ Holds(u)
  BY DEF IInv, StateOK, Batches, Clients
<1>2. b \in Batch
  <2>1. client[u] \in Batch
    BY <1>1
  <2>2. client[u].sig \X {"PLACED"} \subseteq Signals \X {"PLACED", "REJECTED"}
    BY <2>1 DEF Batch
  <2> QED
    BY <2>1, <2>2 DEF Batch
<1>3. client' = [client EXCEPT ![u] = b] /\ client'[u] = b /\ UNCHANGED <<up, links, signal, orders, lost, table>>
  BY <1>1 DEF MarkPlaced
<1>4. RestOK(u)
  BY <1>3 DEF RestOK, IInv, StateOK
<1>5. OneLink'
  BY <1>3 DEF IInv, OneLink
<1>6. BookGrows
  BY <1>3 DEF IInv, StateOK, BookGrows
<1>7. SameOrders
  BY <1>3 DEF SameOrders, OrdersOf
<1>8. LiveOrdersConfirmed'
  BY <1>3 DEF IInv, LiveOrdersConfirmed
<1>9. Holds(u)'
  <2>1. /\ client[u].at # None /\ b.at = client[u].at /\ b.confirm = client[u].confirm
        /\ b.pc \in {"stop", "work"} /\ b.sig = client[u].sig
        /\ b.todo = client[u].todo \ client[u].sig
        /\ client[u].sig \X {"PLACED"} \subseteq b.marks
    BY <1>1 DEF Batch, Holds, MarkPlaced
  <2>2. \A s \in b.sig : s \notin b.todo /\ <<s, "PLACED">> \in b.marks
    BY <2>1
  <2> HIDE DEF b
  <2> QED
    BY <1>1, <1>3, <2>1, <2>2 DEF Holds, LiveRefused
<1>10. KeepsHold(u)
  <2>1. /\ b.at = client[u].at /\ b.sig = client[u].sig /\ client[u].marks \subseteq b.marks
    BY <1>1 DEF Batch
  <2> HIDE DEF b
  <2> QED
    BY <1>3, <2>1 DEF KeepsHold, Linked, Sent
<1>11. KeepsTodo(u)
  BY <1>1, <1>3 DEF KeepsTodo, Holds, Linked, Batch, Account, MarkPlaced
<1> HIDE DEF b
<1> QED
  BY <1>1, <1>2, <1>3, <1>4, <1>5, <1>6, <1>7, <1>8, <1>9, <1>10, <1>11, StepKeeps

\* A stop changes neither the signal nor the account of an order.
LEMMA PlaceStopKeeps ==
    ASSUME IInv, NEW u \in Users, PlaceStop(u)
    PROVE  IInv'
<1> DEFINE b == [client[u] EXCEPT !.pc = "work"]
<1>1. client \in [Clients -> Batch] /\ u \in Clients /\ Holds(u)
  BY DEF IInv, StateOK, Batches, Clients
<1>2. b \in Batch
  BY <1>1 DEF Batch, Ports, Account, Done, None, Idle
<1>3. client' = [client EXCEPT ![u] = b] /\ client'[u] = b /\ UNCHANGED <<up, links, signal, lost, table>>
  BY <1>1 DEF PlaceStop
<1>4. RestOK(u)
  <2>1. orders' \in Seq(Order)
    <3>1. PICK placed \in {FALSE, Linked(u)} :
            orders' = [o \in DOMAIN orders |->
                        IF {orders[o].signal} = client[u].sig /\ orders[o].at = client[u].at
                        THEN [orders[o] EXCEPT !.stop = @ \/ placed] ELSE orders[o]]
      BY DEF PlaceStop
    <3>2. \A o \in DOMAIN orders : orders[o] \in Order
      BY DEF IInv, StateOK
    <3>3. placed \in BOOLEAN
      <4>1. Linked(u) \in BOOLEAN
        BY DEF Linked
      <4> QED
        BY <4>1, Zenon
    <3>4. \A o \in DOMAIN orders : [orders[o] EXCEPT !.stop = @ \/ placed] \in Order
      BY <3>2, <3>3 DEF Order
    <3>5. Len(orders) \in Nat /\ DOMAIN orders = 1..Len(orders)
      BY DEF IInv, StateOK
    <3> QED
      BY <3>1, <3>2, <3>4, <3>5
  <2> QED
    BY <1>3, <2>1 DEF RestOK, IInv, StateOK
<1>5. OneLink'
  BY <1>3 DEF IInv, OneLink
<1>6. BookGrows
  BY <1>3 DEF IInv, StateOK, BookGrows
<1>7. SameOrders
  <2>1. /\ DOMAIN orders' = DOMAIN orders
        /\ \A o \in DOMAIN orders : /\ orders'[o].signal = orders[o].signal
                                     /\ orders'[o].at = orders[o].at
                                     /\ orders'[o].confirm = orders[o].confirm
    BY DEF PlaceStop, IInv, StateOK, Order
  <2> QED
    BY <2>1 DEF SameOrders, OrdersOf
<1>8. LiveOrdersConfirmed'
  BY DEF IInv, LiveOrdersConfirmed, PlaceStop
<1>9. Holds(u)'
  BY <1>1, <1>3, IbkrAssumption DEF Holds, Batch, LiveRefused, PlaceStop
<1>10. KeepsHold(u)
  BY <1>1, <1>3 DEF KeepsHold, Holds, Linked, Sent, Batch, Account, PlaceStop
<1>11. KeepsTodo(u)
  BY <1>1, <1>3 DEF KeepsTodo, Holds, Linked, Batch, Account, PlaceStop
<1> HIDE DEF b
<1> QED
  BY <1>1, <1>2, <1>3, <1>4, <1>5, <1>6, <1>7, <1>8, <1>9, <1>10, <1>11, StepKeeps

\* A signal that was sent is marked, so it is no longer pending.
LEMMA CommitBatchKeeps ==
    ASSUME IInv, NEW u \in Users, CommitBatch(u)
    PROVE  IInv'
<1> DEFINE b == [Idle EXCEPT !.pc = "closing"]
<1>1. client \in [Clients -> Batch] /\ u \in Clients /\ Holds(u)
  BY DEF IInv, StateOK, Batches, Clients
<1>2. b \in Batch
  BY <1>1 DEF Batch, Ports, Account, Done, None, Idle
<1>3. client' = [client EXCEPT ![u] = b] /\ client'[u] = b /\ UNCHANGED <<up, links, orders, lost, table>>
  BY <1>1 DEF CommitBatch, Idle
<1>4. RestOK(u)
  <2>1. \A s \in Signals : Marked(u, s) \subseteq {"PLACED", "REJECTED"}
    BY <1>1 DEF Marked, Batch
  <2>2. signal' \in [Signals -> {"PENDING_APPROVAL", "PLACED", "REJECTED"}]
    BY <2>1 DEF CommitBatch, IInv, StateOK
  <2> QED
    BY <1>3, <2>2 DEF RestOK, IInv, StateOK
<1>5. OneLink'
  BY <1>3 DEF IInv, OneLink
<1>6. BookGrows
  <2>1. \A s \in Signals : Marked(u, s) \subseteq {"PLACED", "REJECTED"}
    BY <1>1 DEF Marked, Batch
  <2>2. \A s \in Signals : signal'[s] # signal[s] => signal'[s] \in Marked(u, s)
    BY DEF CommitBatch, IInv, StateOK
  <2> QED
    BY <1>3, <2>1, <2>2 DEF BookGrows, IInv, StateOK
<1>7. SameOrders
  BY <1>3 DEF SameOrders, OrdersOf
<1>8. LiveOrdersConfirmed'
  BY <1>3 DEF IInv, LiveOrdersConfirmed
<1>9. Holds(u)'
  BY <1>1, <1>3, IbkrAssumption DEF Holds, Batch, LiveRefused, CommitBatch, Idle
<1>10. KeepsHold(u)
  <2>1. SUFFICES ASSUME NEW s \in Signals, Sent(u, s) PROVE signal'[s] # "PENDING_APPROVAL"
    BY DEF KeepsHold
  <2>2. <<s, "PLACED">> \in client[u].marks
    BY <1>1, <2>1 DEF Holds, Sent, CommitBatch
  <2>3. "PLACED" \in Marked(u, s) /\ Marked(u, s) \subseteq {"PLACED", "REJECTED"}
    BY <1>1, <2>2 DEF Marked, Batch
  <2>4. signal'[s] \in Marked(u, s)
    BY <2>3 DEF CommitBatch
  <2> QED
    BY <2>3, <2>4
<1>11. KeepsTodo(u)
  BY <1>1, <1>3 DEF KeepsTodo, Holds, Linked, Batch, Account, CommitBatch, Idle
<1> HIDE DEF b
<1> QED
  BY <1>1, <1>2, <1>3, <1>4, <1>5, <1>6, <1>7, <1>8, <1>9, <1>10, <1>11, StepKeeps

\* A batch that still had its session is counted; one that had lost it was
\* counted then.
LEMMA AbortBatchKeeps ==
    ASSUME IInv, NEW u \in Users, AbortBatch(u)
    PROVE  IInv'
<1> DEFINE b == [Idle EXCEPT !.pc = "closing"]
<1>1. client \in [Clients -> Batch] /\ u \in Clients /\ Holds(u)
  BY DEF IInv, StateOK, Batches, Clients
<1>2. b \in Batch
  BY <1>1 DEF Batch, Ports, Account, Done, None, Idle
<1>3. client' = [client EXCEPT ![u] = b] /\ client'[u] = b /\ UNCHANGED <<up, links, signal, orders, table>>
  BY <1>1 DEF AbortBatch, Idle
<1>4. RestOK(u)
  <2>1. lost' \in [Signals -> Nat]
    BY LosesCounts, <1>1 DEF AbortBatch, IInv, StateOK
  <2> QED
    BY <1>3, <2>1 DEF RestOK, IInv, StateOK
<1>5. OneLink'
  BY <1>3 DEF IInv, OneLink
<1>6. BookGrows
  BY <1>3, LosesCounts DEF AbortBatch, BookGrows, IInv, StateOK
<1>7. SameOrders
  BY <1>3 DEF SameOrders, OrdersOf
<1>8. LiveOrdersConfirmed'
  BY <1>3 DEF IInv, LiveOrdersConfirmed
<1>9. Holds(u)'
  BY <1>1, <1>3, IbkrAssumption DEF Holds, Batch, LiveRefused, AbortBatch, Idle
<1>10. KeepsHold(u)
  BY LosesCounts DEF AbortBatch, KeepsHold, IInv, StateOK
<1>11. KeepsTodo(u)
  BY <1>1, <1>3 DEF KeepsTodo, Holds, Linked, Batch, Account, AbortBatch, Idle
<1> HIDE DEF b
<1> QED
  BY <1>1, <1>2, <1>3, <1>4, <1>5, <1>6, <1>7, <1>8, <1>9, <1>10, <1>11, StepKeeps

LEMMA RejectKeeps ==
    ASSUME IInv, NEW s \in Signals, Reject(s)
    PROVE  IInv'
<1> DEFINE b == client[Sync]
<1>1. client \in [Clients -> Batch] /\ Sync \in Clients /\ Holds(Sync)
  BY DEF IInv, StateOK, Batches, Clients
<1>2. b \in Batch
  BY <1>1 DEF Batch, Ports, Account, Done, None, Idle
<1>3. client' = [client EXCEPT ![Sync] = b] /\ client'[Sync] = b /\ UNCHANGED <<up, links, client, orders, lost, table>>
  BY <1>1 DEF Reject
<1>4. RestOK(Sync)
  BY <1>1 DEF RestOK, IInv, StateOK, Clients, Account, Reject
<1>5. OneLink'
  BY <1>3 DEF IInv, OneLink
<1>6. BookGrows
  BY DEF IInv, StateOK, BookGrows, Reject
<1>7. SameOrders
  BY <1>3 DEF SameOrders, OrdersOf
<1>8. LiveOrdersConfirmed'
  BY <1>3 DEF IInv, LiveOrdersConfirmed
<1>9. Holds(Sync)'
  BY <1>1, <1>3, IbkrAssumption DEF Holds, Batch, LiveRefused, Reject
<1>10. KeepsHold(Sync)
  BY <1>1, <1>3 DEF KeepsHold, Holds, Linked, Sent, Batch, Account, Reject
<1>11. KeepsTodo(Sync)
  BY <1>1, <1>3 DEF KeepsTodo, Holds, Linked, Batch, Account, Reject
<1> HIDE DEF b
<1> QED
  BY <1>1, <1>2, <1>3, <1>4, <1>5, <1>6, <1>7, <1>8, <1>9, <1>10, <1>11, StepKeeps

LEMMA TickKeeps ==
    ASSUME IInv, Tick
    PROVE  IInv'
<1> DEFINE b == client[Sync]
<1>1. client \in [Clients -> Batch] /\ Sync \in Clients /\ Holds(Sync)
  BY DEF IInv, StateOK, Batches, Clients
<1>2. b \in Batch
  BY <1>1 DEF Batch, Ports, Account, Done, None, Idle
<1>3. client' = [client EXCEPT ![Sync] = b] /\ client'[Sync] = b /\ UNCHANGED <<up, links, client, signal, orders, lost>>
  BY <1>1 DEF Tick, LastSeen
<1>4. RestOK(Sync)
  <2>1. table'.account = client[Sync].at
    BY DEF Tick, LastSeen
  <2> QED
    BY <1>1, <1>3, <2>1 DEF RestOK, IInv, StateOK, Batch
<1>5. OneLink'
  BY <1>3 DEF IInv, OneLink
<1>6. BookGrows
  BY <1>3 DEF IInv, StateOK, BookGrows
<1>7. SameOrders
  BY <1>3 DEF SameOrders, OrdersOf
<1>8. LiveOrdersConfirmed'
  BY <1>3 DEF IInv, LiveOrdersConfirmed
<1>9. Holds(Sync)'
  BY <1>1, <1>3, IbkrAssumption DEF Holds, Batch, LiveRefused, Tick, LastSeen
<1>10. KeepsHold(Sync)
  BY <1>1, <1>3 DEF KeepsHold, Holds, Linked, Sent, Batch, Account, Tick, LastSeen
<1>11. KeepsTodo(Sync)
  BY <1>1, <1>3 DEF KeepsTodo, Holds, Linked, Batch, Account, Tick, LastSeen
<1> HIDE DEF b
<1> QED
  BY <1>1, <1>2, <1>3, <1>4, <1>5, <1>6, <1>7, <1>8, <1>9, <1>10, <1>11, StepKeeps

LEMMA TickFailsKeeps ==
    ASSUME IInv, TickFails
    PROVE  IInv'
<1> DEFINE b == Idle
<1>1. client \in [Clients -> Batch] /\ Sync \in Clients /\ Holds(Sync)
  BY DEF IInv, StateOK, Batches, Clients
<1>2. b \in Batch
  BY <1>1 DEF Batch, Ports, Account, Done, None, Idle
<1>3. client' = [client EXCEPT ![Sync] = b] /\ client'[Sync] = b /\ UNCHANGED <<up, signal, orders, lost, table>>
  BY <1>1 DEF TickFails, Idle
<1>4. RestOK(Sync)
  BY <1>1 DEF RestOK, IInv, StateOK, Clients, Account, TickFails, Idle
<1>5. OneLink'
  BY DEF IInv, OneLink, TickFails, Idle
<1>6. BookGrows
  BY <1>3 DEF IInv, StateOK, BookGrows
<1>7. SameOrders
  BY <1>3 DEF SameOrders, OrdersOf
<1>8. LiveOrdersConfirmed'
  BY <1>3 DEF IInv, LiveOrdersConfirmed
<1>9. Holds(Sync)'
  BY <1>1, <1>3, IbkrAssumption DEF Holds, Batch, LiveRefused, TickFails, Idle
<1>10. KeepsHold(Sync)
  BY <1>1, <1>3 DEF KeepsHold, Holds, Linked, Sent, Batch, Account, TickFails, Idle
<1>11. KeepsTodo(Sync)
  BY <1>1, <1>3 DEF KeepsTodo, Holds, Linked, Batch, Account, TickFails, Idle
<1> HIDE DEF b
<1> QED
  BY <1>1, <1>2, <1>3, <1>4, <1>5, <1>6, <1>7, <1>8, <1>9, <1>10, <1>11, StepKeeps


\* Logins count the batches that lose their session.
LEMMA LoginKeeps ==
    ASSUME IInv, NEW S \in SUBSET Available, Login(S)
    PROVE  IInv'
<1> DEFINE Out == {u \in Users : Linked(u) /\ client[u].at \notin S}
<1>1. UNCHANGED <<client, signal, orders, table>> /\ links' = {l \in links : l[1] \in S}
  BY DEF Login
<1>2. /\ lost' \in [Signals -> Nat]
      /\ \A s \in Signals : lost'[s] >= lost[s]
      /\ \A s \in Signals, u \in Out : Sent(u, s) => lost'[s] >= lost[s] + 1
  <2>1. Loses(Out) /\ Out \in SUBSET Users /\ lost \in [Signals -> Nat]
    BY DEF Login, IInv, StateOK
  <2> HIDE DEF Out
  <2> QED
    BY <2>1, LosesCounts
<1>3. StateOK'
  BY <1>1, <1>2, IbkrAssumption DEF Login, IInv, StateOK
<1>4. OneLink' /\ LiveOrdersConfirmed'
  BY <1>1 DEF IInv, OneLink, LiveOrdersConfirmed
<1>5. Batches'
  BY <1>1 DEF IInv, Batches, Holds
<1>6. \A s \in Signals, p \in Ports :
        /\ OrdersOf(s, p)' = OrdersOf(s, p)
        /\ Cardinality(OrdersOf(s, p)) \in Nat
  <2>1. \A s \in Signals, p \in Ports : OrdersOf(s, p)' = OrdersOf(s, p)
    BY <1>1 DEF OrdersOf
  <2>2. \A s \in Signals, p \in Ports : Cardinality(OrdersOf(s, p)) \in Nat
    BY OrdersFinite DEF IInv, StateOK
  <2> QED
    BY <2>1, <2>2
<1>7. \A u \in Users : Linked(u)' => Linked(u)
  BY <1>1 DEF Linked
<1>8. TodoIsFresh'
  <2>1. SUFFICES ASSUME NEW u \in Users, Linked(u)', NEW s \in client[u].todo \ client[u].sig
                 PROVE  Cardinality(OrdersOf(s, client[u].at)') <= lost'[s]
    BY <1>1 DEF TodoIsFresh
  <2>2. PICK p \in Ports : p = client[u].at
    BY <1>7, <2>1 DEF Linked, IInv, StateOK
  <2>3. s \in Signals
    BY <2>1 DEF IInv, StateOK, Batch, Clients
  <2>4. Cardinality(OrdersOf(s, p)) <= lost[s]
    BY <1>7, <2>1, <2>2 DEF IInv, TodoIsFresh
  <2>5. OrdersOf(s, client[u].at)' = OrdersOf(s, p)'
    BY <1>1, <2>2 DEF OrdersOf
  <2>6. lost[s] \in Nat /\ lost'[s] \in Nat /\ lost'[s] >= lost[s]
    BY <1>2, <2>3 DEF IInv, StateOK
  <2> QED
    BY <1>6, <2>3, <2>4, <2>5, <2>6
<1>9. OrdersCounted'
  <2>1. SUFFICES ASSUME NEW s \in Signals, NEW p \in Ports
                 PROVE  LET n == Cardinality(OrdersOf(s, p)')
                        IN  \/ n <= lost'[s]
                            \/ n <= lost'[s] + 1 /\ (signal'[s] # "PENDING_APPROVAL" \/ HeldAt(s, p)')
    BY DEF OrdersCounted
  <2>2. lost[s] \in Nat /\ lost'[s] \in Nat /\ lost'[s] >= lost[s]
    BY <1>2 DEF IInv, StateOK
  <2>3. HeldAt(s, p) => HeldAt(s, p)' \/ lost'[s] >= lost[s] + 1
    <3>1. SUFFICES ASSUME NEW u \in Users, Linked(u), client[u].at = p, Sent(u, s)
                   PROVE  HeldAt(s, p)' \/ lost'[s] >= lost[s] + 1
      BY DEF HeldAt
    <3>2. CASE u \in Out
      BY <1>2, <3>1, <3>2
    <3>3. CASE u \notin Out
      <4>1. p \in S
        BY <3>1, <3>3
      <4>2. Linked(u)' /\ client'[u].at = p /\ Sent(u, s)'
        BY <1>1, <3>1, <4>1 DEF Linked, Sent
      <4> QED
        BY <4>2 DEF HeldAt
    <3> QED
      BY <3>2, <3>3
  <2>4. \/ Cardinality(OrdersOf(s, p)) <= lost[s]
        \/ /\ Cardinality(OrdersOf(s, p)) <= lost[s] + 1
           /\ signal[s] # "PENDING_APPROVAL" \/ HeldAt(s, p)
    BY DEF IInv, OrdersCounted
  <2>5. signal' = signal
    BY <1>1
  <2> HIDE DEF Out
  <2> QED
    BY <1>6, <2>2, <2>3, <2>4, <2>5
<1> QED
  BY <1>3, <1>4, <1>5, <1>8, <1>9 DEF IInv

\* What a batch finds pending, while it is the only one at its account, has
\* no order there that is not counted.
LEMMA ListPendingKeeps ==
    ASSUME IInv, NEW u \in Users, ListPending(u)
    PROVE  IInv'
<1> DEFINE b == [client[u] EXCEPT !.pc = "work", !.todo = client[u].ids \cap Pending]
<1>1. client \in [Clients -> Batch] /\ u \in Clients /\ Holds(u)
  BY DEF IInv, StateOK, Batches, Clients
<1>2. b \in Batch
  <2>1. client[u] \in Batch
    BY <1>1
  <2> QED
    BY <2>1 DEF Batch, Pending
<1>3. /\ client' = [client EXCEPT ![u] = b] /\ client'[u] = b
      /\ UNCHANGED <<up, links, signal, orders, lost, table>>
  BY <1>1 DEF ListPending
<1>4. RestOK(u)
  BY <1>3 DEF RestOK, IInv, StateOK
<1>5. OneLink' /\ LiveOrdersConfirmed'
  BY <1>3 DEF IInv, OneLink, LiveOrdersConfirmed
<1>6. BookGrows
  BY <1>3 DEF IInv, StateOK, BookGrows
<1>7. SameOrders
  BY <1>3 DEF SameOrders, OrdersOf
<1>8. Holds(u)' /\ KeepsHold(u)
  BY <1>1, <1>3 DEF Holds, KeepsHold, Batch, LiveRefused, Linked, Sent, ListPending
<1>9. StateOK' /\ OnlyMoves(u) /\ OrdersCounted' /\ Batches'
  <2> HIDE DEF b
  <2> QED
    BY <1>1, <1>2, <1>3, <1>4, <1>5, <1>6, <1>7, <1>8, StepKeeps
<1>10. ASSUME Linked(u), NEW s \in Pending
       PROVE  Cardinality(OrdersOf(s, client[u].at)) <= lost[s]
  <2>1. PICK p \in Ports : p = client[u].at
    BY <1>10 DEF Linked, IInv, StateOK
  <2>2. s \in Signals /\ signal[s] = "PENDING_APPROVAL"
    BY DEF Pending
  <2>3. ~ HeldAt(s, p)
    <3>1. SUFFICES ASSUME NEW v \in Users, Linked(v), client[v].at = p, Sent(v, s) PROVE FALSE
      BY DEF HeldAt
    <3>2. v = u
      BY <1>10, <2>1, <3>1, IbkrAssumption DEF IInv, OneLink, Linked, ClientId
    <3> QED
      BY <1>1, <3>1, <3>2 DEF Sent, Holds, ListPending
  <2>4. Cardinality(OrdersOf(s, p)) <= lost[s]
    BY <2>2, <2>3 DEF IInv, OrdersCounted
  <2> QED
    BY <2>1, <2>4
<1>11. TodoIsFresh'
  <2>1. SUFFICES ASSUME NEW v \in Users, Linked(v)', NEW s \in client'[v].todo \ client'[v].sig
                 PROVE  Cardinality(OrdersOf(s, client[v].at)') <= lost'[s]
    BY DEF TodoIsFresh
  <2>2. Linked(v) /\ client'[v].at = client[v].at
    BY <1>1, <1>3, <2>1 DEF Linked, OnlyMoves, Clients, Batch
  <2>3. OrdersOf(s, client[v].at)' = OrdersOf(s, client[v].at)
    BY <1>3, <2>2 DEF OrdersOf
  <2>4. Cardinality(OrdersOf(s, client[v].at)) <= lost[s]
    <3>1. CASE v = u
      <4>1. s \in Pending
        BY <1>1, <1>3, <2>1, <3>1 DEF Batch
      <4> QED
        BY <1>10, <2>2, <3>1, <4>1
    <3>2. CASE v # u
      <4>1. client'[v] = client[v]
        BY <1>9, <3>2 DEF OnlyMoves, Clients
      <4> QED
        BY <2>1, <2>2, <4>1 DEF IInv, TodoIsFresh
    <3> QED
      BY <3>1, <3>2
  <2> QED
    BY <1>3, <2>3, <2>4
<1> QED
  BY <1>5, <1>9, <1>11 DEF IInv

\* An order goes out for a signal that has none at this account yet.
LEMMA PlaceOrderKeeps ==
    ASSUME IInv, NEW u \in Users, NEW s \in Signals, PlaceOrder(u, s)
    PROVE  IInv'
<1> DEFINE b == [client[u] EXCEPT !.pc = "sent", !.sig = {s}]
           o == [signal |-> s, at |-> client[u].at, by |-> ClientId(u),
                 stop |-> FALSE, confirm |-> client[u].confirm]
<1>1. client \in [Clients -> Batch] /\ u \in Clients /\ Holds(u)
  BY DEF IInv, StateOK, Batches, Clients
<1>2. /\ client[u].pc = "work" /\ s \in client[u].todo /\ Linked(u)
      /\ client' = [client EXCEPT ![u] = b] /\ orders' = Append(orders, o)
      /\ UNCHANGED <<up, links, signal, lost, table>>
  BY <1>1 DEF PlaceOrder
<1>3. b \in Batch /\ s \notin client[u].sig
  BY <1>1, <1>2 DEF Batch, Holds
<1>4. client[u].at \in Ports /\ o \in Order
  BY <1>1, <1>2 DEF Order, Batch, Linked, IInv, StateOK, ClientId
<1>5. b.at = client[u].at /\ b.todo = client[u].todo /\ b.sig = {s} /\ b.marks = client[u].marks
        /\ b.confirm = client[u].confirm /\ b.pc = "sent"
  BY <1>1 DEF Batch
<1>6. o.signal = s /\ o.at = client[u].at /\ o.confirm = client[u].confirm
  OBVIOUS
<1> HIDE DEF b, o
<1>7. /\ client' \in [Clients -> Batch] /\ client'[u] = b /\ OnlyMoves(u)
      /\ Holds(u)' => Batches'
  BY <1>1, <1>2, <1>3, OneClient
<1>8. Batches'
  BY <1>1, <1>2, <1>5, <1>7 DEF Holds
<1>9. StateOK'
  BY <1>2, <1>4, <1>7 DEF IInv, StateOK
<1>10. OneLink'
  BY <1>2 DEF IInv, OneLink
<1>11. LiveOrdersConfirmed'
  <2>1. \A i \in DOMAIN orders' : orders'[i] = o \/ (i \in DOMAIN orders /\ orders'[i] = orders[i])
    BY <1>2, <1>4 DEF IInv, StateOK
  <2>2. Mode(o.at) = "live" => o.confirm = o.at
    BY <1>1, <1>2, <1>6 DEF Holds, LiveRefused
  <2> QED
    BY <2>1, <2>2 DEF IInv, LiveOrdersConfirmed
<1>12. \A t \in Signals, p \in Ports :
         Cardinality(OrdersOf(t, p)') = IF t = s /\ p = client[u].at
                                        THEN Cardinality(OrdersOf(t, p)) + 1
                                        ELSE Cardinality(OrdersOf(t, p))
  BY <1>2, <1>4, <1>6, OrderCounted DEF IInv, StateOK
<1>13. \A t \in Signals, p \in Ports : Cardinality(OrdersOf(t, p)) \in Nat /\ lost[t] \in Nat
  BY OrdersFinite DEF IInv, StateOK
<1>14. Linked(u)' /\ \A t \in Signals : Sent(u, t)' <=> t = s \/ <<t, "PLACED">> \in client[u].marks
  BY <1>2, <1>5, <1>7 DEF Linked, Sent
<1>15. Cardinality(OrdersOf(s, client[u].at)) <= lost[s]
  BY <1>2, <1>3 DEF IInv, TodoIsFresh
<1>16. ASSUME NEW t \in Signals, NEW p \in Ports, HeldAt(t, p) PROVE HeldAt(t, p)'
  <2>1. PICK v \in Users : Linked(v) /\ client[v].at = p /\ Sent(v, t)
    BY <1>16 DEF HeldAt
  <2>2. CASE v = u
    <3>1. <<t, "PLACED">> \in client[u].marks
      BY <1>1, <1>2, <2>1, <2>2 DEF Sent, Holds
    <3> QED
      BY <1>5, <1>7, <1>14, <2>1, <2>2, <3>1 DEF HeldAt
  <2>3. CASE v # u
    <3>1. client'[v] = client[v] /\ (Linked(v)' <=> Linked(v))
      BY <1>7, <2>3 DEF OnlyMoves, Clients
    <3> QED
      BY <2>1, <3>1 DEF HeldAt, Sent
  <2> QED
    BY <2>2, <2>3
<1>17. OrdersCounted'
  <2>1. SUFFICES ASSUME NEW t \in Signals, NEW p \in Ports
                 PROVE  LET n == Cardinality(OrdersOf(t, p)')
                        IN  \/ n <= lost'[t]
                            \/ n <= lost'[t] + 1 /\ (signal'[t] # "PENDING_APPROVAL" \/ HeldAt(t, p)')
    BY DEF OrdersCounted
  <2>2. lost' = lost /\ signal' = signal
    BY <1>2
  <2>3. CASE t = s /\ p = client[u].at
    <3>1. HeldAt(t, p)'
      BY <1>5, <1>7, <1>14, <2>3 DEF HeldAt
    <3>2. Cardinality(OrdersOf(t, p)') = Cardinality(OrdersOf(t, p)) + 1
      BY <1>12, <2>3
    <3>3. Cardinality(OrdersOf(t, p)) <= lost[t] /\ Cardinality(OrdersOf(t, p)) \in Nat /\ lost[t] \in Nat
      BY <1>13, <1>15, <2>3
    <3> QED
      BY <2>2, <3>1, <3>2, <3>3
  <2>4. CASE ~ (t = s /\ p = client[u].at)
    <3>1. Cardinality(OrdersOf(t, p)') = Cardinality(OrdersOf(t, p))
      BY <1>12, <2>4
    <3>2. \/ Cardinality(OrdersOf(t, p)) <= lost[t]
          \/ /\ Cardinality(OrdersOf(t, p)) <= lost[t] + 1
             /\ signal[t] # "PENDING_APPROVAL" \/ HeldAt(t, p)
      BY DEF IInv, OrdersCounted
    <3>3. HeldAt(t, p) => HeldAt(t, p)'
      BY <1>16
    <3> QED
      BY <2>2, <3>1, <3>2, <3>3
  <2> QED
    BY <2>3, <2>4
<1>18. TodoIsFresh'
  <2>1. SUFFICES ASSUME NEW v \in Users, Linked(v)', NEW t \in client'[v].todo \ client'[v].sig
                 PROVE  Cardinality(OrdersOf(t, client[v].at)') <= lost'[t]
    BY DEF TodoIsFresh
  <2>2. Linked(v) /\ client'[v].at = client[v].at /\ t \in client[v].todo
    BY <1>2, <1>5, <1>7, <2>1 DEF OnlyMoves, Clients
  <2>3. PICK p \in Ports : p = client[v].at /\ p = client'[v].at
    BY <2>2 DEF Linked, IInv, StateOK
  <2>4. t \in Signals
    BY <1>1, <2>2 DEF Batch, Clients
  <2>5. OrdersOf(t, client[v].at)' = OrdersOf(t, p)'
    BY <2>3 DEF OrdersOf
  <2>6. ~ (t = s /\ p = client[u].at)
    <3>1. CASE v = u
      BY <1>5, <1>7, <2>1, <3>1
    <3>2. CASE v # u
      BY <1>2, <2>2, <2>3, <3>2, IbkrAssumption DEF IInv, OneLink, Linked, ClientId
    <3> QED
      BY <3>1, <3>2
  <2>7. Cardinality(OrdersOf(t, p)) <= lost[t]
    <3>1. t \notin client[v].sig
      <4>1. CASE v = u
        BY <1>1, <1>2, <2>2, <4>1 DEF Holds
      <4>2. CASE v # u
        BY <1>7, <2>1, <4>2 DEF OnlyMoves, Clients
      <4> QED
        BY <4>1, <4>2
    <3> QED
      BY <2>2, <2>3, <3>1 DEF IInv, TodoIsFresh
  <2> QED
    BY <1>2, <1>12, <2>4, <2>5, <2>6, <2>7
<1> QED
  BY <1>8, <1>9, <1>10, <1>11, <1>17, <1>18 DEF IInv

-----------------------------------------------------------------------------
LEMMA Start == Init => IInv
<1> SUFFICES ASSUME Init PROVE IInv
  OBVIOUS
<1>1. Idle \in Batch
  BY DEF Batch, Ports, Account, Done, None, Idle
<1>2. StateOK
  BY <1>1, IbkrAssumption DEF Init, StateOK, Account, None
<1>3. OneLink /\ LiveOrdersConfirmed
  BY DEF Init, OneLink, LiveOrdersConfirmed
<1>4. Batches
  BY DEF Init, Batches, Holds, Idle
<1>5. \A s, p : OrdersOf(s, p) = {}
  BY DEF Init, OrdersOf
<1>6. OrdersCounted /\ TodoIsFresh
  <2>1. \A s, p : Cardinality(OrdersOf(s, p)) = 0
    BY <1>5, FS_EmptySet
  <2>2. \A s \in Signals : lost[s] = 0
    BY DEF Init
  <2>3. \A u \in Users : ~ Linked(u)
    BY DEF Init, Linked
  <2> QED
    BY <2>1, <2>2, <2>3 DEF OrdersCounted, TodoIsFresh
<1> QED
  BY <1>2, <1>3, <1>4, <1>6 DEF IInv

LEMMA Stays == IInv /\ UNCHANGED vars => IInv'
<1> SUFFICES ASSUME IInv, UNCHANGED vars PROVE IInv'
  OBVIOUS
<1>1. \A s, p : Cardinality(OrdersOf(s, p)') = Cardinality(OrdersOf(s, p))
  BY DEF vars, OrdersOf
<1>2. StateOK' /\ OneLink' /\ Batches' /\ LiveOrdersConfirmed'
  BY DEF vars, IInv, StateOK, OneLink, Batches, Holds, LiveOrdersConfirmed
<1>3. OrdersCounted'
  BY <1>1 DEF vars, IInv, OrdersCounted, HeldAt, Linked, Sent
<1>4. TodoIsFresh'
  <2>1. \A s, u : OrdersOf(s, client[u].at)' = OrdersOf(s, client[u].at)
    BY DEF vars, OrdersOf
  <2> QED
    BY <2>1 DEF vars, IInv, TodoIsFresh, Linked
<1> QED
  BY <1>2, <1>3, <1>4 DEF IInv

\* IInv is inductive.
LEMMA Inductive == Spec => []IInv
<1>1. Init => IInv
  BY Start
<1>2. ASSUME IInv, [Next]_vars PROVE IInv'
  <2>1. CASE Next
    <3>1. Sync \in Clients /\ Users \subseteq Clients
      BY DEF Clients
    <3> QED
      BY <1>2, <2>1, <3>1, LoginKeeps, ApproveKeeps, SyncConnectsKeeps, ProbeKeeps, ConnectedKeeps,
         DisconnectKeeps, ListPendingKeeps, RefuseKeeps, PlaceOrderKeeps, MarkPlacedKeeps,
         PlaceStopKeeps, CommitBatchKeeps, AbortBatchKeeps, RejectKeeps, TickKeeps, TickFailsKeeps
         DEF Next, ConnectStep, BatchStep, SyncStep
  <2>2. CASE UNCHANGED vars
    BY <1>2, <2>2, Stays
  <2> QED
    BY <1>2, <2>1, <2>2
<1> QED
  BY <1>1, <1>2, PTL DEF Spec

\* Whatever users approve, log in, log out or fail, approve_and_submit orders a
\* signal once per account, and once more only after a batch that sent it lost
\* its session or its transaction.
THEOREM OrderedOncePerAccountHolds == Spec => []OrderedOncePerAccount
<1>1. IInv => OrderedOncePerAccount
  <2>1. SUFFICES ASSUME IInv, NEW s \in Signals, NEW p \in Available
                 PROVE  Cardinality(OrdersOf(s, p)) <= 1 + lost[s]
    BY DEF OrderedOncePerAccount, OrdersOf
  <2>2. p \in Ports /\ lost[s] \in Nat
    BY <2>1, IbkrAssumption DEF IInv, StateOK
  <2>3. Cardinality(OrdersOf(s, p)) \in Nat
    BY <2>1, OrdersFinite DEF IInv, StateOK
  <2>4. \/ Cardinality(OrdersOf(s, p)) <= lost[s]
        \/ Cardinality(OrdersOf(s, p)) <= lost[s] + 1
    BY <2>1, <2>2 DEF IInv, OrdersCounted
  <2> QED
    BY <2>2, <2>3, <2>4
<1> QED
  BY <1>1, Inductive, PTL

\* Whatever ports answer when an approval connects, an order that goes to a live
\* account was confirmed with that account's own id (_ensure_live_account_matches).
THEOREM LiveOrdersConfirmedHolds == Spec => []LiveOrdersConfirmed
BY Inductive, PTL DEF IInv

=============================================================================
