------------------------- MODULE AuditLedgerProofs -------------------------
(***************************************************************************)
(* Theorems about the audit log, for any number of transactions, objects   *)
(* and tenants and any bound on rows and time.                             *)
(***************************************************************************)
EXTENDS AuditLedger, SequenceTheorems, TLAPS

-----------------------------------------------------------------------------
(* The inductive invariant: links *)

\* What transaction t found is still the newest row of those it could see when
\* it read, among the rows R, with the transactions in done committed.
HeadOK(q, t, R, done, now) ==
    /\ q.seen \subseteq done
    /\ \/ /\ q.head = NoRow
          /\ \A c \in R : SameTenant(c, q) => c.txn # t /\ c.txn \notin q.seen
       \/ \E b \in R :
             /\ b.id = q.head
             /\ SameTenant(b, q)
             /\ b.txn = t \/ b.txn \in done
             /\ b.at <= now
             /\ \A c \in R : SameTenant(c, q) /\ (c.txn = t \/ c.txn \in q.seen) =>
                               c = b \/ Before(c, b)

\* A row continues none, or one that lasts as long as itself and precedes it.
LinkOK(a, R, done) ==
    /\ a.seen \subseteq done
    /\ \/ a.prev = NoRow
       \/ \E b \in R : /\ b.id = a.prev
                       /\ SameTenant(a, b)
                       /\ b.txn = a.txn \/ b.txn \in done
                       /\ Before(b, a)

IdsOK ==
    /\ \A a \in rows : a.id <= lastId /\ a.at <= clock
    /\ \A a, b \in rows : a.id = b.id => a = b

OwnersOK == \A a \in rows : InFlight(a.txn) \/ a.txn \in Committed

ObjectsOK == \A t \in Txns : InFlight(t) => txn[t].object \in Objects

HeadsOK ==
    \A t \in Txns :
        /\ txn[t].pc = "read" => HeadOK(txn[t], t, rows, Committed, clock)
        /\ txn[t].pc = "stamped" =>
               HeadOK(txn[t], t, rows, Committed, txn[t].at) /\ txn[t].at <= clock

LinksOK == \A a \in rows : LinkOK(a, rows, Committed)

IInv == TypeOK /\ IdsOK /\ OwnersOK /\ ObjectsOK /\ HeadsOK /\ LinksOK /\ ForkNeedsOverlap

-----------------------------------------------------------------------------
(* Lemmas *)

\* What was found stays the newest as long as the rows that were visible stay
\* and no row joins them.
LEMMA HeadStays ==
    ASSUME NEW q \in Txn, NEW t \in Txns, NEW R \in SUBSET Row, NEW R2 \in SUBSET Row,
           NEW done, NEW done2, NEW now \in Nat, NEW now2 \in Nat,
           HeadOK(q, t, R, done, now), done \subseteq done2, now <= now2,
           \A c \in R2 : c.txn = t \/ c.txn \in done => c \in R,
           \A c \in R : c.txn = t \/ c.txn \in done => c \in R2
    PROVE  HeadOK(q, t, R2, done2, now2)
  <1>1. q.seen \subseteq done2
    BY DEF HeadOK
  <1>2. CASE q.head = NoRow /\ \A c \in R : SameTenant(c, q) => c.txn # t /\ c.txn \notin q.seen
    <2>1. \A c \in R2 : SameTenant(c, q) => c.txn # t /\ c.txn \notin q.seen
      BY <1>2 DEF HeadOK
    <2>2. QED
      BY <1>1, <1>2, <2>1 DEF HeadOK
  <1>3. ASSUME NEW b \in R, b.id = q.head, SameTenant(b, q), b.txn = t \/ b.txn \in done,
               b.at <= now,
               \A c \in R : SameTenant(c, q) /\ (c.txn = t \/ c.txn \in q.seen) =>
                               c = b \/ Before(c, b)
        PROVE  HeadOK(q, t, R2, done2, now2)
    <2>1. b \in R2 /\ (b.txn = t \/ b.txn \in done2)
      BY <1>3
    <2>2. b.at <= now2
      BY <1>3 DEF Row
    <2>3. \A c \in R2 : SameTenant(c, q) /\ (c.txn = t \/ c.txn \in q.seen) =>
                          c = b \/ Before(c, b)
      BY <1>3 DEF HeadOK
    <2>4. QED
      BY <1>1, <1>3, <2>1, <2>2, <2>3 DEF HeadOK
  <1>4. QED
    BY <1>2, <1>3 DEF HeadOK

\* A link holds as long as the rows of its transaction and the committed ones stay.
LEMMA LinkStays ==
    ASSUME NEW a, NEW R, NEW R2, NEW done, NEW done2,
           LinkOK(a, R, done), done \subseteq done2,
           \A c \in R : c.txn = a.txn \/ c.txn \in done => c \in R2
    PROVE  LinkOK(a, R2, done2)
  BY DEF LinkOK

LEMMA InitInvariant == Init => IInv
  <1> SUFFICES ASSUME Init PROVE IInv
    OBVIOUS
  <1>1. TypeOK
    BY DEF Init, TypeOK, NewTxn, Txn, NoRow
  <1>2. IdsOK /\ OwnersOK /\ LinksOK /\ ForkNeedsOverlap
    BY DEF Init, IdsOK, OwnersOK, LinksOK, ForkNeedsOverlap
  <1>3. ObjectsOK /\ HeadsOK
    BY DEF Init, ObjectsOK, HeadsOK, InFlight, NewTxn
  <1>4. QED
    BY <1>1, <1>2, <1>3 DEF IInv

-----------------------------------------------------------------------------
(* Steps that leave the rows alone *)

\* A transaction that goes on without having committed before or after.
LEMMA TxnStep ==
    ASSUME IInv, NEW t \in Txns, NEW q \in Txn,
           txn' = [txn EXCEPT ![t] = q], UNCHANGED <<rows, commits, lastId, clock>>,
           txn[t].pc \in {"new", "open", "read"}, q.pc \in {"open", "read", "stamped"},
           q.object \in Objects,
           q.pc = "read" => HeadOK(q, t, rows, Committed, clock),
           q.pc = "stamped" => HeadOK(q, t, rows, Committed, q.at) /\ q.at <= clock
    PROVE  IInv'
  <1>1. txn \in [Txns -> Txn]
    BY DEF IInv, TypeOK
  <1>2. Committed' = Committed
    BY <1>1 DEF Committed
  <1>3. TypeOK'
    BY <1>1 DEF IInv, TypeOK
  <1>4. IdsOK' /\ ForkNeedsOverlap'
    BY DEF IInv, IdsOK, ForkNeedsOverlap
  <1>5. OwnersOK'
    BY <1>1, <1>2 DEF IInv, OwnersOK, InFlight
  <1>6. ObjectsOK'
    BY <1>1 DEF IInv, ObjectsOK, InFlight
  <1>7. HeadsOK'
    <2> SUFFICES ASSUME NEW u \in Txns
                 PROVE  /\ txn'[u].pc = "read" => HeadOK(txn'[u], u, rows, Committed, clock)
                        /\ txn'[u].pc = "stamped" =>
                               HeadOK(txn'[u], u, rows, Committed, txn'[u].at) /\ txn'[u].at <= clock
      BY <1>2 DEF HeadsOK
    <2>1. CASE u = t
      BY <1>1, <2>1
    <2>2. CASE u # t
      BY <1>1, <2>2 DEF IInv, HeadsOK
    <2>3. QED
      BY <2>1, <2>2
  <1>8. LinksOK'
    BY <1>2 DEF IInv, LinksOK
  <1>9. QED
    BY <1>3, <1>4, <1>5, <1>6, <1>7, <1>8 DEF IInv

\* A transaction that opens is well formed.
LEMMA OpenedType ==
    ASSUME NEW old \in Txn, NEW o \in Objects, NEW locks \in BOOLEAN, NEW now \in Nat
    PROVE  [old EXCEPT !.pc = "open", !.object = o, !.locks = locks, !.began = now] \in Txn
  BY DEF Txn

LEMMA OpenStep ==
    ASSUME IInv, NEW t \in Txns, NEW o \in Objects, NEW locks \in BOOLEAN, Opened(t, o, locks)
    PROVE  IInv'
  <1>1. txn \in [Txns -> Txn] /\ clock \in Nat
    BY DEF IInv, TypeOK
  <1>2. PICK q \in Txn : q = [txn[t] EXCEPT !.pc = "open", !.object = o, !.locks = locks,
                                            !.began = clock]
    <2>1. txn[t] \in Txn
      BY <1>1
    <2>2. QED
      BY <1>1, <2>1, OpenedType
  <1>3. q.pc = "open" /\ q.object = o
    BY <1>1, <1>2 DEF Txn
  <1>4. txn' = [txn EXCEPT ![t] = q]
    BY <1>2 DEF Opened
  <1>5. QED
    BY <1>3, <1>4, TxnStep DEF Opened

LEMMA ReadStep ==
    ASSUME IInv, NEW t \in Txns, ReadHead(t)
    PROVE  IInv'
  <1>1. txn \in [Txns -> Txn] /\ rows \subseteq Row /\ txn[t].pc = "open"
    BY DEF IInv, TypeOK, ReadHead
  <1>2. txn[t].object \in Objects
    BY <1>1 DEF IInv, ObjectsOK, InFlight
  <1>3. ASSUME NEW head \in Nat, Found(t, head),
               \/ Visible(t) = {} /\ head = NoRow
               \/ \E a \in Visible(t) : IsNewest(a, Visible(t)) /\ head = a.id
        PROVE  IInv'
    <2>1. PICK q \in Txn : q = [txn[t] EXCEPT !.pc = "read", !.head = head, !.seen = Committed]
      BY <1>1 DEF Txn, Committed
    <2>2. /\ q.pc = "read" /\ q.head = head /\ q.seen = Committed
          /\ q.object = txn[t].object
      BY <1>1, <2>1 DEF Txn
    <2>3. txn' = [txn EXCEPT ![t] = q]
      BY <1>3, <2>1 DEF Found
    <2>4. \A c \in rows : SameTenant(c, q) /\ (c.txn = t \/ c.txn \in Committed) <=> c \in Visible(t)
      BY <2>2 DEF Visible, SameTenant
    <2>5. CASE Visible(t) = {} /\ head = NoRow
      <3>1. HeadOK(q, t, rows, Committed, clock)
        BY <2>2, <2>4, <2>5 DEF HeadOK
      <3>2. QED
        BY <1>1, <1>2, <2>2, <2>3, <3>1, TxnStep DEF ReadHead
    <2>6. ASSUME NEW a \in Visible(t), IsNewest(a, Visible(t)), head = a.id
          PROVE  IInv'
      <3>1. a \in rows /\ a.at <= clock
        BY DEF Visible, IInv, IdsOK
      <3>2. \A c \in Visible(t) : c = a \/ Before(c, a)
        BY <2>6 DEF IsNewest
      <3>3. HeadOK(q, t, rows, Committed, clock)
        BY <2>2, <2>4, <2>6, <3>1, <3>2 DEF HeadOK
      <3>4. QED
        BY <1>1, <1>2, <2>2, <2>3, <3>3, TxnStep DEF ReadHead
    <2>7. QED
      BY <1>3, <2>5, <2>6
  <1>4. CASE Visible(t) = {} /\ Found(t, NoRow)
    BY <1>3, <1>4 DEF NoRow
  <1>5. ASSUME NEW a \in Visible(t), IsNewest(a, Visible(t)), Found(t, a.id)
        PROVE  IInv'
    <2>1. a.id \in Nat
      BY <1>1 DEF Visible, Row
    <2>2. QED
      BY <1>3, <1>5, <2>1
  <1>6. QED
    BY <1>4, <1>5 DEF ReadHead

LEMMA StampStep ==
    ASSUME IInv, NEW t \in Txns, Stamp(t)
    PROVE  IInv'
  <1>1. txn \in [Txns -> Txn] /\ clock \in Nat /\ txn[t].pc = "read"
    BY DEF IInv, TypeOK, Stamp
  <1>2. PICK q \in Txn : q = [txn[t] EXCEPT !.pc = "stamped", !.at = clock]
    BY <1>1 DEF Txn
  <1>3. /\ q.pc = "stamped" /\ q.at = clock /\ q.head = txn[t].head
        /\ q.seen = txn[t].seen /\ q.object = txn[t].object
    BY <1>1, <1>2 DEF Txn
  <1>4. HeadOK(txn[t], t, rows, Committed, clock) /\ txn[t].object \in Objects
    BY <1>1 DEF IInv, HeadsOK, ObjectsOK, InFlight
  <1>5. HeadOK(q, t, rows, Committed, q.at)
    BY <1>3, <1>4 DEF HeadOK, SameTenant
  <1>6. q.at <= clock
    BY <1>1, <1>3
  <1>7. txn' = [txn EXCEPT ![t] = q]
    BY <1>2 DEF Stamp, TimeTaken
  <1>8. QED
    BY <1>1, <1>3, <1>4, <1>5, <1>6, <1>7, TxnStep DEF Stamp

LEMMA TickStep == ASSUME IInv, Tick PROVE IInv'
  <1>1. clock \in Nat /\ clock' = clock + 1 /\ txn \in [Txns -> Txn] /\ rows \subseteq Row
    BY DEF IInv, TypeOK, Tick
  <1>2. TypeOK'
    BY <1>1 DEF IInv, TypeOK, Tick
  <1>3. Committed' = Committed
    BY DEF Tick, Committed
  <1>4. IdsOK'
    BY <1>1 DEF IInv, IdsOK, Tick, Row
  <1>5. OwnersOK' /\ ObjectsOK' /\ LinksOK' /\ ForkNeedsOverlap'
    BY <1>3 DEF Tick, IInv, OwnersOK, ObjectsOK, LinksOK, ForkNeedsOverlap, InFlight
  <1>6. HeadsOK'
    <2> SUFFICES ASSUME NEW t \in Txns
                 PROVE  /\ txn[t].pc = "read" => HeadOK(txn[t], t, rows, Committed, clock + 1)
                        /\ txn[t].pc = "stamped" =>
                               HeadOK(txn[t], t, rows, Committed, txn[t].at) /\ txn[t].at <= clock + 1
      BY <1>1, <1>3 DEF HeadsOK, Tick
    <2>1. CASE txn[t].pc = "read"
      <3>1. HeadOK(txn[t], t, rows, Committed, clock)
        BY <2>1 DEF IInv, HeadsOK
      <3>2. clock + 1 \in Nat /\ clock <= clock + 1
        BY <1>1
      <3>3. HeadOK(txn[t], t, rows, Committed, clock + 1)
        BY <1>1, <3>1, <3>2, HeadStays
      <3>4. QED
        BY <2>1, <3>3
    <2>2. CASE txn[t].pc = "stamped"
      <3>1. HeadOK(txn[t], t, rows, Committed, txn[t].at) /\ txn[t].at <= clock
        BY <2>2 DEF IInv, HeadsOK
      <3>2. txn[t].at <= clock + 1
        BY <1>1, <3>1 DEF Txn
      <3>3. QED
        BY <2>2, <3>1, <3>2
    <2>3. QED
      BY <2>1, <2>2
  <1>7. QED
    BY <1>2, <1>4, <1>5, <1>6 DEF IInv

-----------------------------------------------------------------------------
(* Steps that change the rows *)

\* The row a stamped transaction inserts.
LEMMA NewRowOK ==
    ASSUME IInv, NEW t \in Txns, txn[t].pc = "stamped"
    PROVE  /\ NewRow(t) \in Row
           /\ NewRow(t).id = lastId + 1 /\ NewRow(t).txn = t
           /\ NewRow(t).at = txn[t].at /\ NewRow(t).at <= clock
           /\ NewRow(t).prev = txn[t].head /\ NewRow(t).seen = txn[t].seen
           /\ NewRow(t).object = txn[t].object /\ NewRow(t).change = txn[t].locks
           /\ t \notin Committed
  <1>1. txn[t] \in Txn /\ lastId \in Nat
    BY DEF IInv, TypeOK
  <1>2. txn[t].object \in Objects /\ txn[t].at <= clock
    BY DEF IInv, ObjectsOK, HeadsOK, InFlight
  <1>3. QED
    BY <1>1, <1>2 DEF NewRow, Row, Txn, Committed, NoRow

\* The row that was found precedes the one inserted, and none that was visible
\* continues it.
LEMMA NewLink ==
    ASSUME IInv, NEW t \in Txns, txn[t].pc = "stamped"
    PROVE  /\ LinkOK(NewRow(t), rows, Committed)
           /\ \A a \in rows : SameTenant(a, NewRow(t)) /\ a.prev = NewRow(t).prev =>
                 a.txn # t /\ a.txn \notin NewRow(t).seen
  <1> PICK n \in Row : n = NewRow(t)
    BY NewRowOK
  <1>1. /\ n.id = lastId + 1 /\ n.txn = t /\ n.at = txn[t].at
        /\ n.prev = txn[t].head /\ n.seen = txn[t].seen /\ n.object = txn[t].object
    BY NewRowOK
  <1>2. HeadOK(txn[t], t, rows, Committed, txn[t].at)
    BY DEF IInv, HeadsOK
  <1>3. rows \subseteq Row /\ lastId \in Nat
    BY DEF IInv, TypeOK
  <1>4. CASE /\ n.prev = NoRow
             /\ \A c \in rows : SameTenant(c, n) => c.txn # t /\ c.txn \notin n.seen
    BY <1>1, <1>2, <1>4 DEF HeadOK, LinkOK
  <1>5. ASSUME NEW b \in rows, b.id = n.prev, SameTenant(b, n),
               b.txn = t \/ b.txn \in Committed, b.at <= n.at,
               \A c \in rows : SameTenant(c, n) /\ (c.txn = t \/ c.txn \in n.seen) =>
                                 c = b \/ Before(c, b)
        PROVE  /\ LinkOK(n, rows, Committed)
               /\ \A a \in rows : SameTenant(a, n) /\ a.prev = n.prev =>
                     a.txn # t /\ a.txn \notin n.seen
    <2>1. b.id <= lastId
      BY DEF IInv, IdsOK
    <2>2. Before(b, n)
      BY <1>1, <1>3, <1>5, <2>1 DEF Before, Row
    <2>3. n.seen \subseteq Committed
      BY <1>1, <1>2 DEF HeadOK
    <2>4. LinkOK(n, rows, Committed)
      BY <1>1, <1>5, <2>2, <2>3 DEF LinkOK, SameTenant
    <2>5. ASSUME NEW a \in rows, a.prev = n.prev PROVE Before(b, a)
      <3>1. b.id # NoRow
        BY <1>3 DEF Row
      <3>2. PICK x \in rows : x.id = a.prev /\ Before(x, a)
        BY <1>5, <2>5, <3>1 DEF IInv, LinksOK, LinkOK
      <3>3. x = b
        BY <1>5, <2>5, <3>2 DEF IInv, IdsOK
      <3>4. QED
        BY <3>2, <3>3
    <2>6. \A a \in rows : Before(b, a) => a # b /\ ~Before(a, b)
      BY <1>3 DEF Before, Row
    <2>7. QED
      BY <1>5, <2>4, <2>5, <2>6
  <1>6. QED
    BY <1>1, <1>2, <1>4, <1>5 DEF HeadOK, SameTenant

\* A transaction that goes on after its insert is well formed.
LEMMA WrittenType ==
    ASSUME NEW old \in Txn, NEW q,
           q = [old EXCEPT !.pc = "open", !.wrote = TRUE, !.head = NoRow, !.at = 0, !.seen = {}]
    PROVE  /\ q \in Txn /\ q.pc = "open" /\ q.object = old.object
           /\ q.locks = old.locks
  BY DEF Txn, NoRow

LEMMA InsertStep ==
    ASSUME IInv, NEW t \in Txns, InsertRow(t)
    PROVE  IInv'
  <1>1. /\ txn \in [Txns -> Txn] /\ rows \subseteq Row /\ lastId \in Nat /\ clock \in Nat
        /\ txn[t].pc = "stamped"
    BY DEF IInv, TypeOK, InsertRow
  <1>2. PICK n \in Row : n = NewRow(t)
    BY <1>1, NewRowOK
  <1>3. /\ n.id = lastId + 1 /\ n.txn = t /\ n.at <= clock /\ t \notin Committed
    BY <1>1, <1>2, NewRowOK
  <1>4. rows' = rows \cup {n} /\ lastId' = lastId + 1 /\ clock' = clock /\ commits' = commits
    BY <1>2 DEF InsertRow
  <1>5. PICK q \in Txn :
            /\ q = [txn[t] EXCEPT !.pc = "open", !.wrote = TRUE, !.head = NoRow, !.at = 0, !.seen = {}]
            /\ q.pc = "open" /\ q.object = txn[t].object
    <2>1. txn[t] \in Txn
      BY <1>1
    <2>2. QED
      BY <2>1, WrittenType
  <1>6. txn' = [txn EXCEPT ![t] = q]
    BY <1>5 DEF InsertRow
  <1>7. Committed' = Committed
    BY <1>1, <1>5, <1>6 DEF Committed
  <1>8. TypeOK'
    BY <1>1, <1>4, <1>6 DEF IInv, TypeOK
  <1>9. IdsOK'
    BY <1>1, <1>3, <1>4 DEF IInv, IdsOK, Row
  <1>10. OwnersOK'
    BY <1>1, <1>3, <1>4, <1>5, <1>6, <1>7 DEF IInv, OwnersOK, InFlight
  <1>11. ObjectsOK'
    BY <1>1, <1>5, <1>6 DEF IInv, ObjectsOK, InFlight
  <1>12. HeadsOK'
    <2> SUFFICES ASSUME NEW u \in Txns
                 PROVE  /\ txn'[u].pc = "read" => HeadOK(txn'[u], u, rows', Committed, clock)
                        /\ txn'[u].pc = "stamped" =>
                               HeadOK(txn'[u], u, rows', Committed, txn'[u].at) /\ txn'[u].at <= clock
      BY <1>4, <1>7 DEF HeadsOK
    <2>1. CASE u = t
      BY <1>1, <1>5, <1>6, <2>1
    <2>2. CASE u # t
      <3>1. txn'[u] = txn[u] /\ txn[u] \in Txn
        BY <1>1, <1>6, <2>2
      <3>2. rows' \in SUBSET Row /\ rows \in SUBSET Row
        BY <1>1, <1>4
      <3>3. /\ \A c \in rows' : c.txn = u \/ c.txn \in Committed => c \in rows
            /\ \A c \in rows : c \in rows'
        BY <1>3, <1>4, <2>2
      <3>4. CASE txn[u].pc = "read"
        <4>1. HeadOK(txn[u], u, rows, Committed, clock)
          BY <3>4 DEF IInv, HeadsOK
        <4>2. HeadOK(txn[u], u, rows', Committed, clock)
          BY <1>1, <3>1, <3>2, <3>3, <4>1, HeadStays
        <4>3. QED
          BY <3>1, <3>4, <4>2
      <3>5. CASE txn[u].pc = "stamped"
        <4>1. HeadOK(txn[u], u, rows, Committed, txn[u].at) /\ txn[u].at <= clock
          BY <3>5 DEF IInv, HeadsOK
        <4>2. txn[u].at \in Nat
          BY <3>1 DEF Txn
        <4>3. HeadOK(txn[u], u, rows', Committed, txn[u].at)
          BY <3>1, <3>2, <3>3, <4>1, <4>2, HeadStays
        <4>4. QED
          BY <3>1, <3>5, <4>1, <4>3
      <3>6. QED
        BY <3>1, <3>4, <3>5
    <2>3. QED
      BY <2>1, <2>2
  <1>13. LinksOK'
    <2> SUFFICES ASSUME NEW a \in rows' PROVE LinkOK(a, rows', Committed)
      BY <1>7 DEF LinksOK
    <2>1. LinkOK(a, rows, Committed)
      BY <1>1, <1>2, <1>4, NewLink DEF IInv, LinksOK
    <2>2. rows \subseteq rows'
      BY <1>4
    <2>3. QED
      BY <2>1, <2>2, LinkStays
  <1>14. ForkNeedsOverlap'
    <2>1. \A a \in rows : t \notin a.seen
      BY <1>3 DEF IInv, LinksOK, LinkOK
    <2>2. \A a \in rows : SameTenant(a, n) /\ a.prev = n.prev => a.txn # t /\ a.txn \notin n.seen
      BY <1>1, <1>2, NewLink
    <2>3. ASSUME NEW a \in rows', NEW b \in rows', a # b, SameTenant(a, b), a.prev = b.prev
          PROVE  a.txn # b.txn /\ a.txn \notin b.seen /\ b.txn \notin a.seen
      <3>1. CASE a \in rows /\ b \in rows
        BY <2>3, <3>1 DEF IInv, ForkNeedsOverlap
      <3>2. CASE a \in rows /\ b = n
        BY <1>3, <2>1, <2>2, <2>3, <3>2
      <3>3. CASE a = n /\ b \in rows
        BY <1>3, <2>1, <2>2, <2>3, <3>3 DEF SameTenant
      <3>4. QED
        BY <1>4, <2>3, <3>1, <3>2, <3>3
    <2>4. QED
      BY <2>3 DEF ForkNeedsOverlap, SameTenant
  <1>15. QED
    BY <1>8, <1>9, <1>10, <1>11, <1>12, <1>13, <1>14 DEF IInv

\* A transaction ends: committed, with all rows kept, or aborted, without its own.
LEMMA EndStep ==
    ASSUME IInv, NEW t \in Txns, NEW q \in Txn, NEW R \in SUBSET rows,
           InFlight(t), q.pc \in {"committed", "aborted"},
           txn' = [txn EXCEPT ![t] = q], rows' = R, commits' \in Seq(Txns),
           lastId' = lastId, clock' = clock,
           \A a \in rows : a \in R <=> q.pc = "committed" \/ a.txn # t
    PROVE  IInv'
  <1>1. txn \in [Txns -> Txn] /\ rows \subseteq Row /\ lastId \in Nat /\ clock \in Nat
    BY DEF IInv, TypeOK
  <1>2. t \notin Committed
    BY DEF InFlight, Committed
  <1>3. PICK done \in SUBSET Txns : done = Committed'
    BY DEF Committed
  <1>4. done = IF q.pc = "committed" THEN Committed \cup {t} ELSE Committed
    BY <1>1, <1>2, <1>3 DEF Committed
  <1>5. TypeOK'
    BY <1>1 DEF IInv, TypeOK
  <1>6. IdsOK'
    BY DEF IInv, IdsOK
  <1>7. OwnersOK'
    <2> SUFFICES ASSUME NEW a \in R PROVE InFlight(a.txn)' \/ a.txn \in done
      BY <1>3 DEF OwnersOK
    <2>1. a.txn \in Txns /\ (InFlight(a.txn) \/ a.txn \in Committed)
      BY <1>1 DEF IInv, OwnersOK, Row
    <2>2. QED
      BY <1>1, <1>4, <2>1 DEF InFlight
  <1>8. ObjectsOK'
    BY <1>1 DEF IInv, ObjectsOK, InFlight
  <1>9. HeadsOK'
    <2> SUFFICES ASSUME NEW u \in Txns
                 PROVE  /\ txn'[u].pc = "read" => HeadOK(txn'[u], u, R, done, clock)
                        /\ txn'[u].pc = "stamped" =>
                               HeadOK(txn'[u], u, R, done, txn'[u].at) /\ txn'[u].at <= clock
      BY <1>3 DEF HeadsOK
    <2>1. CASE u = t
      BY <1>1, <2>1
    <2>2. CASE u # t
      <3>1. txn'[u] = txn[u] /\ txn[u] \in Txn
        BY <1>1, <2>2
      <3>2. R \in SUBSET Row /\ rows \in SUBSET Row /\ Committed \subseteq done
        BY <1>1, <1>4
      <3>3. /\ \A c \in R : c \in rows
            /\ \A c \in rows : c.txn = u \/ c.txn \in Committed => c \in R
        BY <1>2, <2>2
      <3>4. CASE txn[u].pc = "read"
        <4>1. HeadOK(txn[u], u, rows, Committed, clock)
          BY <3>4 DEF IInv, HeadsOK
        <4>2. HeadOK(txn[u], u, R, done, clock)
          BY <1>1, <3>1, <3>2, <3>3, <4>1, HeadStays
        <4>3. QED
          BY <3>1, <3>4, <4>2
      <3>5. CASE txn[u].pc = "stamped"
        <4>1. HeadOK(txn[u], u, rows, Committed, txn[u].at) /\ txn[u].at <= clock
          BY <3>5 DEF IInv, HeadsOK
        <4>2. txn[u].at \in Nat
          BY <3>1 DEF Txn
        <4>3. HeadOK(txn[u], u, R, done, txn[u].at)
          BY <3>1, <3>2, <3>3, <4>1, <4>2, HeadStays
        <4>4. QED
          BY <3>1, <3>5, <4>1, <4>3
      <3>6. QED
        BY <3>1, <3>4, <3>5
    <2>3. QED
      BY <2>1, <2>2
  <1>10. LinksOK'
    <2> SUFFICES ASSUME NEW a \in R PROVE LinkOK(a, R, done)
      BY <1>3 DEF LinksOK
    <2>1. LinkOK(a, rows, Committed) /\ Committed \subseteq done
      BY <1>4 DEF IInv, LinksOK
    <2>2. \A c \in rows : c.txn = a.txn \/ c.txn \in Committed => c \in R
      BY <1>2
    <2>3. QED
      BY <2>1, <2>2, LinkStays
  <1>11. ForkNeedsOverlap'
    BY DEF IInv, ForkNeedsOverlap
  <1>12. QED
    BY <1>5, <1>6, <1>7, <1>8, <1>9, <1>10, <1>11 DEF IInv

\* A transaction that has ended is well formed.
LEMMA EndedType ==
    ASSUME NEW pc \in {"committed", "aborted"}
    PROVE  /\ [NewTxn EXCEPT !.pc = pc] \in Txn
           /\ [NewTxn EXCEPT !.pc = pc].pc = pc
           /\ [NewTxn EXCEPT !.pc = pc].locks = FALSE
  <1>1. NewTxn \in Txn /\ NewTxn.locks = FALSE
    BY DEF NewTxn, Txn, NoRow
  <1>2. QED
    BY <1>1 DEF Txn

LEMMA CommitStep == ASSUME IInv, NEW t \in Txns, Commit(t) PROVE IInv'
  <1>1. PICK q \in Txn : q = [NewTxn EXCEPT !.pc = "committed"] /\ q.pc = "committed"
    BY EndedType
  <1>2. commits' \in Seq(Txns) /\ InFlight(t)
    BY DEF Commit, IInv, TypeOK, InFlight
  <1>3. QED
    BY <1>1, <1>2, EndStep DEF Commit

LEMMA AbortStep == ASSUME IInv, NEW t \in Txns, Abort(t) PROVE IInv'
  <1>1. PICK q \in Txn : q = [NewTxn EXCEPT !.pc = "aborted"] /\ q.pc = "aborted"
    BY EndedType
  <1>2. commits' \in Seq(Txns)
    BY DEF Abort, IInv, TypeOK
  <1>3. PICK R \in SUBSET rows : R = {a \in rows : a.txn # t}
    OBVIOUS
  <1>4. QED
    BY <1>1, <1>2, <1>3, EndStep DEF Abort

LEMMA InvariantStep == IInv /\ [Next]_vars => IInv'
  <1> SUFFICES ASSUME IInv, [Next]_vars PROVE IInv'
    OBVIOUS
  <1>1. ASSUME NEW t \in Txns, NEW o \in Objects, BeginChange(t, o) \/ BeginNote(t, o)
        PROVE  IInv'
    BY <1>1, OpenStep DEF BeginChange, BeginNote
  <1>2. ASSUME NEW t \in Txns, ReadHead(t) \/ Stamp(t) \/ InsertRow(t) \/ Commit(t) \/ Abort(t)
        PROVE  IInv'
    BY <1>2, ReadStep, StampStep, InsertStep, CommitStep, AbortStep
  <1>3. CASE Tick
    BY <1>3, TickStep
  <1>4. CASE UNCHANGED vars
    <2>1. UNCHANGED Committed
      BY <1>4 DEF vars, Committed
    <2>2. TypeOK' /\ IdsOK' /\ OwnersOK' /\ ObjectsOK' /\ ForkNeedsOverlap'
      BY <1>4, <2>1 DEF vars, IInv, TypeOK, IdsOK, OwnersOK, ObjectsOK, InFlight, ForkNeedsOverlap
    <2>3. HeadsOK' /\ LinksOK'
      BY <1>4, <2>1 DEF vars, IInv, HeadsOK, LinksOK
    <2>4. QED
      BY <2>2, <2>3 DEF IInv
  <1>5. QED
    BY <1>1, <1>2, <1>3, <1>4 DEF Next

LEMMA Invariance == Spec => []IInv
  BY InitInvariant, InvariantStep, PTL DEF Spec

-----------------------------------------------------------------------------
(* The theorems about links *)

\* The type invariant.
THEOREM LedgerTypeCorrect == Spec => []TypeOK
  <1>1. IInv => TypeOK
    BY DEF IInv
  <1>2. QED
    BY <1>1, Invariance, PTL

\* The committed log can be recomputed from itself: the row a committed row
\* names is committed too, whatever is rolled back.
THEOREM NoDanglingLinkHolds == Spec => []NoDanglingLink
  <1>1. IInv => NoDanglingLink
    BY DEF IInv, LinksOK, LinkOK, NoDanglingLink, Settled
  <1>2. QED
    BY <1>1, Invariance, PTL

\* Links lead back in the order of the log.
THEOREM LinksLeadBackHolds == Spec => []LinksLeadBack
  <1>1. ASSUME IInv PROVE LinksLeadBack
    <2> SUFFICES ASSUME NEW a \in rows, NEW b \in rows, a.prev = b.id PROVE Before(b, a)
      BY DEF LinksLeadBack
    <2>1. b.id # NoRow
      BY <1>1 DEF IInv, TypeOK, Row
    <2>2. PICK c \in rows : c.id = a.prev /\ Before(c, a)
      BY <1>1, <2>1 DEF IInv, LinksOK, LinkOK
    <2>3. c = b
      BY <1>1, <2>2 DEF IInv, IdsOK
    <2>4. QED
      BY <2>2, <2>3
  <1>2. QED
    BY <1>1, Invariance, PTL

\* A fork needs two transactions neither of which saw the other committed.
THEOREM ForkNeedsOverlapHolds == Spec => []ForkNeedsOverlap
  <1>1. IInv => ForkNeedsOverlap
    BY DEF IInv
  <1>2. QED
    BY <1>1, Invariance, PTL

-----------------------------------------------------------------------------
(* The order of an object's changes *)

\* Two changes of one object.
Changes(a, b) == a.change /\ b.change /\ a.object = b.object

\* The history lists each committed transaction once.
CommitsOK ==
    /\ \A i \in 1 .. Len(commits) : commits[i] \in Committed
    /\ \A i, j \in 1 .. Len(commits) : commits[i] = commits[j] => i = j
    /\ \A t \in Committed : \E i \in 1 .. Len(commits) : commits[i] = t

\* A business row is locked by one transaction at a time, and what is written
\* about it as a change is written by that one.
LocksOK ==
    /\ \A t, u \in Txns :
          /\ InFlight(t) /\ txn[t].locks
          /\ InFlight(u) /\ txn[u].locks
          /\ txn[t].object = txn[u].object
          => t = u
    /\ \A a \in rows :
          a.change /\ InFlight(a.txn) =>
              txn[a.txn].locks /\ txn[a.txn].object = a.object

\* The time of a locked change is taken after all changes of that object.
StampsOK ==
    \A t \in Txns, a \in rows :
        /\ txn[t].pc = "stamped" /\ txn[t].locks
        /\ a.change /\ a.object = txn[t].object
        => a.at <= txn[t].at

\* Committed changes precede those of the transaction that holds the lock.
CommittedFirst ==
    \A a, b \in rows :
        Changes(a, b) /\ a.txn \in Committed /\ InFlight(b.txn) => Before(a, b)

CommitOrder ==
    \A a, b \in rows : \A i, j \in 1 .. Len(commits) :
        Changes(a, b) /\ commits[i] = a.txn /\ commits[j] = b.txn /\ i < j => Before(a, b)

Order == CommitsOK /\ LocksOK /\ StampsOK /\ CommittedFirst /\ CommitOrder

LEMMA InitOrder == Init => Order
  BY DEF Init, Order, CommitsOK, LocksOK, StampsOK, CommittedFirst, CommitOrder, Committed,
         InFlight, NewTxn

\* A transaction goes on, holding its lock or a new one that was free, and
\* takes the time when it is stamped.
LEMMA TxnKeepsOrder ==
    ASSUME IInv, Order, NEW t \in Txns, NEW q \in Txn,
           txn' = [txn EXCEPT ![t] = q], UNCHANGED <<rows, commits, lastId, clock>>,
           txn[t].pc \in {"new", "open", "read"}, q.pc \in {"open", "read", "stamped"},
           \/ /\ InFlight(t) /\ q.locks = txn[t].locks /\ q.object = txn[t].object
           \/ /\ txn[t].pc = "new"
              /\ q.locks => Unlocked(q.object),
           q.pc = "stamped" => q.at = clock
    PROVE  Order'
  <1>1. txn \in [Txns -> Txn] /\ rows \subseteq Row /\ clock \in Nat
    BY DEF IInv, TypeOK
  <1>2. Committed' = Committed
    BY <1>1 DEF Committed
  <1>3. \A u \in Txns : u # t => txn'[u] = txn[u]
    BY <1>1
  <1>4. txn'[t] = q /\ InFlight(t)'
    BY <1>1 DEF InFlight
  <1>5. CommitsOK' /\ CommitOrder'
    BY <1>2 DEF Order, CommitsOK, CommitOrder
  <1>6. LocksOK'
    <2>1. \A u \in Txns : u # t /\ InFlight(u)' /\ txn'[u].locks /\ q.locks =>
              txn'[u].object # q.object
      BY <1>3 DEF Order, LocksOK, InFlight, Unlocked
    <2>2. ASSUME NEW u \in Txns, NEW v \in Txns,
                 InFlight(u)', txn'[u].locks, InFlight(v)', txn'[v].locks,
                 txn'[u].object = txn'[v].object
          PROVE  u = v
      <3>1. CASE u # t /\ v # t
        BY <1>3, <2>2, <3>1 DEF Order, LocksOK, InFlight
      <3>2. CASE u = t \/ v = t
        BY <1>4, <2>1, <2>2, <3>2
      <3>3. QED
        BY <3>1, <3>2
    <2>3. ASSUME NEW a \in rows, a.change, InFlight(a.txn)'
          PROVE  txn'[a.txn].locks /\ txn'[a.txn].object = a.object
      <3>1. a.txn \in Txns
        BY <1>1 DEF Row
      <3>2. InFlight(a.txn)
        BY <1>1, <1>2, <1>3, <1>4, <2>3, <3>1 DEF IInv, OwnersOK, InFlight, Committed
      <3>3. txn[a.txn].locks /\ txn[a.txn].object = a.object
        BY <2>3, <3>2 DEF Order, LocksOK
      <3>4. QED
        BY <1>3, <1>4, <3>1, <3>2, <3>3 DEF InFlight
    <2>4. QED
      BY <2>2, <2>3 DEF LocksOK
  <1>7. StampsOK'
    <2> SUFFICES ASSUME NEW u \in Txns, NEW a \in rows, txn'[u].pc = "stamped", txn'[u].locks,
                        a.change, a.object = txn'[u].object
                 PROVE  a.at <= txn'[u].at
      BY DEF StampsOK
    <2>1. CASE u = t
      BY <1>4, <2>1 DEF IInv, IdsOK
    <2>2. CASE u # t
      BY <1>3, <2>2 DEF Order, StampsOK
    <2>3. QED
      BY <2>1, <2>2
  <1>8. CommittedFirst'
    <2> SUFFICES ASSUME NEW a \in rows, NEW b \in rows, Changes(a, b), a.txn \in Committed,
                        InFlight(b.txn)'
                 PROVE  Before(a, b)
      BY <1>2 DEF CommittedFirst
    <2>1. b.txn \in Txns
      BY <1>1 DEF Row
    <2>2. InFlight(b.txn)
      BY <1>1, <1>2, <1>3, <1>4, <2>1 DEF IInv, OwnersOK, InFlight, Committed
    <2>3. QED
      BY <2>2 DEF Order, CommittedFirst
  <1>9. QED
    BY <1>5, <1>6, <1>7, <1>8 DEF Order

LEMMA OpenKeepsOrder ==
    ASSUME IInv, Order, NEW t \in Txns, NEW o \in Objects, BeginChange(t, o) \/ BeginNote(t, o)
    PROVE  Order'
  <1>1. PICK locks \in BOOLEAN : Opened(t, o, locks) /\ (locks => Unlocked(o))
    BY DEF BeginChange, BeginNote
  <1>2. txn[t] \in Txn /\ clock \in Nat
    BY DEF IInv, TypeOK
  <1>3. PICK q \in Txn : q = [txn[t] EXCEPT !.pc = "open", !.object = o, !.locks = locks,
                                            !.began = clock]
    BY <1>2, OpenedType
  <1>4. q.pc = "open" /\ q.object = o /\ q.locks = locks
    BY <1>2, <1>3 DEF Txn
  <1>5. txn' = [txn EXCEPT ![t] = q]
    BY <1>1, <1>3 DEF Opened
  <1>6. QED
    BY <1>1, <1>4, <1>5, TxnKeepsOrder DEF Opened

LEMMA ReadKeepsOrder ==
    ASSUME IInv, Order, NEW t \in Txns, ReadHead(t)
    PROVE  Order'
  <1>1. txn[t] \in Txn /\ rows \subseteq Row /\ txn[t].pc = "open"
    BY DEF IInv, TypeOK, ReadHead
  <1>2. PICK head \in Nat : Found(t, head)
    BY <1>1 DEF ReadHead, Visible, Row, NoRow
  <1>3. PICK q \in Txn : q = [txn[t] EXCEPT !.pc = "read", !.head = head, !.seen = Committed]
    BY <1>1 DEF Txn, Committed
  <1>4. q.pc = "read" /\ q.object = txn[t].object /\ q.locks = txn[t].locks
    BY <1>1, <1>3 DEF Txn
  <1>5. txn' = [txn EXCEPT ![t] = q]
    BY <1>2, <1>3 DEF Found
  <1>6. QED
    BY <1>1, <1>4, <1>5, TxnKeepsOrder DEF ReadHead, InFlight

LEMMA StampKeepsOrder ==
    ASSUME IInv, Order, NEW t \in Txns, Stamp(t)
    PROVE  Order'
  <1>1. txn[t] \in Txn /\ clock \in Nat /\ txn[t].pc = "read"
    BY DEF IInv, TypeOK, Stamp
  <1>2. PICK q \in Txn : q = [txn[t] EXCEPT !.pc = "stamped", !.at = clock]
    BY <1>1 DEF Txn
  <1>3. q.pc = "stamped" /\ q.at = clock /\ q.object = txn[t].object /\ q.locks = txn[t].locks
    BY <1>1, <1>2 DEF Txn
  <1>4. txn' = [txn EXCEPT ![t] = q]
    BY <1>2 DEF Stamp, TimeTaken
  <1>5. QED
    BY <1>1, <1>3, <1>4, TxnKeepsOrder DEF Stamp, InFlight

\* The row inserted comes after every committed change of its object.
LEMMA InsertKeepsOrder ==
    ASSUME IInv, Order, NEW t \in Txns, InsertRow(t)
    PROVE  Order'
  <1>1. /\ txn \in [Txns -> Txn] /\ rows \subseteq Row /\ lastId \in Nat
        /\ txn[t].pc = "stamped" /\ InFlight(t)
    BY DEF IInv, TypeOK, InsertRow, InFlight
  <1>2. PICK n \in Row : n = NewRow(t)
    BY <1>1, NewRowOK
  <1>3. /\ n.id = lastId + 1 /\ n.txn = t /\ n.at = txn[t].at /\ t \notin Committed
        /\ n.object = txn[t].object /\ n.change = txn[t].locks
    BY <1>1, <1>2, NewRowOK
  <1>4. rows' = rows \cup {n} /\ commits' = commits
    BY <1>2 DEF InsertRow
  <1>5. PICK q \in Txn :
            /\ q = [txn[t] EXCEPT !.pc = "open", !.wrote = TRUE, !.head = NoRow, !.at = 0, !.seen = {}]
            /\ q.pc = "open" /\ q.object = txn[t].object /\ q.locks = txn[t].locks
    <2>1. txn[t] \in Txn
      BY <1>1
    <2>2. QED
      BY <2>1, WrittenType
  <1>6. txn' = [txn EXCEPT ![t] = q]
    BY <1>5 DEF InsertRow
  <1>7. Committed' = Committed
    BY <1>1, <1>5, <1>6 DEF Committed
  <1>8. \A u \in Txns : /\ InFlight(u)' <=> InFlight(u)
                        /\ txn'[u].locks = txn[u].locks /\ txn'[u].object = txn[u].object
    BY <1>1, <1>5, <1>6 DEF InFlight
  <1>9. CommitsOK'
    BY <1>4, <1>7 DEF Order, CommitsOK
  <1>10. LocksOK'
    <2>1. \A u, v \in Txns :
              InFlight(u)' /\ txn'[u].locks /\ InFlight(v)' /\ txn'[v].locks
              /\ txn'[u].object = txn'[v].object => u = v
      BY <1>8 DEF Order, LocksOK
    <2>2. ASSUME NEW a \in rows', a.change, InFlight(a.txn)'
          PROVE  txn'[a.txn].locks /\ txn'[a.txn].object = a.object
      <3>1. CASE a = n
        BY <1>3, <1>8, <2>2, <3>1
      <3>2. CASE a \in rows
        <4>1. a.txn \in Txns /\ InFlight(a.txn)
          BY <1>1, <1>8, <2>2, <3>2 DEF Row
        <4>2. QED
          BY <1>8, <2>2, <3>2, <4>1 DEF Order, LocksOK
      <3>3. QED
        BY <1>4, <3>1, <3>2
    <2>3. QED
      BY <2>1, <2>2 DEF LocksOK
  <1>11. StampsOK'
    <2> SUFFICES ASSUME NEW u \in Txns, NEW a \in rows', txn'[u].pc = "stamped", txn'[u].locks,
                        a.change, a.object = txn'[u].object
                 PROVE  a.at <= txn'[u].at
      BY DEF StampsOK
    <2>1. u # t /\ txn'[u] = txn[u] /\ InFlight(u)
      BY <1>1, <1>5, <1>6 DEF InFlight
    <2>2. a # n
      BY <1>1, <1>3, <2>1 DEF Order, LocksOK
    <2>3. QED
      BY <1>4, <2>1, <2>2 DEF Order, StampsOK
  <1>12. CommittedFirst'
    <2> SUFFICES ASSUME NEW a \in rows', NEW b \in rows', Changes(a, b), a.txn \in Committed,
                        InFlight(b.txn)'
                 PROVE  Before(a, b)
      BY <1>7 DEF CommittedFirst
    <2>1. a \in rows
      BY <1>3, <1>4
    <2>2. CASE b \in rows
      <3>1. InFlight(b.txn)
        BY <1>1, <1>8, <2>2 DEF Row
      <3>2. QED
        BY <2>1, <2>2, <3>1 DEF Order, CommittedFirst
    <2>3. CASE b = n
      <3>1. a.at <= n.at
        BY <1>1, <1>3, <2>1, <2>3 DEF Order, StampsOK, Changes
      <3>2. a.id <= lastId
        BY <2>1 DEF IInv, IdsOK
      <3>3. QED
        BY <1>1, <1>3, <2>1, <2>3, <3>1, <3>2 DEF Before, Row
    <2>4. QED
      BY <1>4, <2>2, <2>3
  <1>13. CommitOrder'
    <2>1. \A i \in 1 .. Len(commits) : commits[i] # t
      BY <1>3 DEF Order, CommitsOK
    <2>2. QED
      BY <1>3, <1>4, <2>1 DEF Order, CommitOrder
  <1>14. QED
    BY <1>9, <1>10, <1>11, <1>12, <1>13 DEF Order

LEMMA CommitKeepsOrder ==
    ASSUME IInv, Order, NEW t \in Txns, Commit(t)
    PROVE  Order'
  <1>1. /\ txn \in [Txns -> Txn] /\ rows \subseteq Row /\ commits \in Seq(Txns)
        /\ InFlight(t) /\ t \notin Committed
    BY DEF IInv, TypeOK, Commit, InFlight, Committed
  <1>2. PICK q \in Txn : q = [NewTxn EXCEPT !.pc = "committed"] /\ q.pc = "committed"
    BY EndedType
  <1>3. txn' = [txn EXCEPT ![t] = q] /\ rows' = rows /\ commits' = Append(commits, t)
    BY <1>2 DEF Commit
  <1>4. Committed' = Committed \cup {t}
    BY <1>1, <1>2, <1>3 DEF Committed
  <1>5. \A u \in Txns : u # t => txn'[u] = txn[u]
    BY <1>1, <1>3
  <1>6. ~InFlight(t)'
    BY <1>1, <1>2, <1>3 DEF InFlight
  <1>7. PICK n \in Nat : n = Len(commits)
    BY <1>1
  <1>8. /\ Len(commits') = n + 1 /\ commits'[n + 1] = t
        /\ \A i \in 1 .. n : commits'[i] = commits[i]
    BY <1>1, <1>3, <1>7, AppendProperties
  <1>9. CommitsOK'
    <2>1. \A i \in 1 .. n : commits[i] \in Committed
      BY <1>7 DEF Order, CommitsOK
    <2>2. \A i \in 1 .. n + 1 : commits'[i] \in Committed'
      BY <1>4, <1>8, <2>1
    <2>3. \A i, j \in 1 .. n + 1 : commits'[i] = commits'[j] => i = j
      BY <1>1, <1>7, <1>8, <2>1 DEF Order, CommitsOK
    <2>4. \A u \in Committed' : \E i \in 1 .. n + 1 : commits'[i] = u
      <3>1. ASSUME NEW u \in Committed PROVE \E i \in 1 .. n + 1 : commits'[i] = u
        <4>1. PICK i \in 1 .. n : commits[i] = u
          BY <1>7, <3>1 DEF Order, CommitsOK
        <4>2. QED
          BY <1>8, <4>1
      <3>2. QED
        BY <1>4, <1>8, <3>1
    <2>5. QED
      BY <1>8, <2>2, <2>3, <2>4 DEF CommitsOK
  <1>10. LocksOK'
    <2>1. \A u \in Txns : InFlight(u)' => u # t /\ InFlight(u) /\ txn'[u] = txn[u]
      BY <1>5, <1>6 DEF InFlight
    <2>2. \A a \in rows : a.txn \in Txns
      BY <1>1 DEF Row
    <2>3. QED
      BY <1>3, <2>1, <2>2 DEF Order, LocksOK
  <1>11. StampsOK'
    BY <1>1, <1>2, <1>3, <1>5 DEF Order, StampsOK
  <1>12. CommittedFirst'
    <2> SUFFICES ASSUME NEW a \in rows, NEW b \in rows, Changes(a, b),
                        a.txn \in Committed \cup {t}, InFlight(b.txn)'
                 PROVE  Before(a, b)
      BY <1>3, <1>4 DEF CommittedFirst
    <2>1. b.txn # t /\ InFlight(b.txn) /\ b.txn \in Txns
      BY <1>1, <1>5, <1>6 DEF Row, InFlight
    <2>2. a.txn # t
      BY <1>1, <2>1 DEF Order, LocksOK, Changes
    <2>3. QED
      BY <2>1, <2>2 DEF Order, CommittedFirst
  <1>13. CommitOrder'
    <2> SUFFICES ASSUME NEW a \in rows, NEW b \in rows, NEW i \in 1 .. n + 1, NEW j \in 1 .. n + 1,
                        Changes(a, b), commits'[i] = a.txn, commits'[j] = b.txn, i < j
                 PROVE  Before(a, b)
      BY <1>3, <1>8 DEF CommitOrder
    <2>1. i \in 1 .. n /\ commits[i] = a.txn /\ a.txn \in Committed
      <3>1. i \in 1 .. n
        BY <1>7
      <3>2. QED
        BY <1>7, <1>8, <3>1 DEF Order, CommitsOK
    <2>2. CASE j \in 1 .. n
      BY <1>7, <1>8, <2>1, <2>2 DEF Order, CommitOrder
    <2>3. CASE j = n + 1
      BY <1>1, <1>8, <2>1, <2>3 DEF Order, CommittedFirst
    <2>4. QED
      BY <2>2, <2>3
  <1>14. QED
    BY <1>9, <1>10, <1>11, <1>12, <1>13 DEF Order

LEMMA AbortKeepsOrder ==
    ASSUME IInv, Order, NEW t \in Txns, Abort(t)
    PROVE  Order'
  <1>1. /\ txn \in [Txns -> Txn] /\ rows \subseteq Row
        /\ InFlight(t) /\ t \notin Committed
    BY DEF IInv, TypeOK, Abort, InFlight, Committed
  <1>2. PICK q \in Txn : q = [NewTxn EXCEPT !.pc = "aborted"] /\ q.pc = "aborted"
    BY EndedType
  <1>3. txn' = [txn EXCEPT ![t] = q] /\ rows' \subseteq rows /\ commits' = commits
    BY <1>2 DEF Abort
  <1>4. Committed' = Committed
    BY <1>1, <1>2, <1>3 DEF Committed
  <1>5. \A u \in Txns : /\ u # t => txn'[u] = txn[u]
                        /\ InFlight(u)' => u # t /\ InFlight(u)
                        /\ txn'[u].pc = "stamped" => u # t
    BY <1>1, <1>2, <1>3 DEF InFlight
  <1>6. \A a \in rows' : a \in rows /\ a.txn \in Txns
    BY <1>1, <1>3 DEF Row
  <1>7. CommitsOK'
    BY <1>3, <1>4 DEF Order, CommitsOK
  <1>8. LocksOK'
    BY <1>5, <1>6 DEF Order, LocksOK
  <1>9. StampsOK'
    BY <1>5, <1>6 DEF Order, StampsOK
  <1>10. CommittedFirst'
    BY <1>4, <1>5, <1>6 DEF Order, CommittedFirst
  <1>11. CommitOrder'
    BY <1>3, <1>6 DEF Order, CommitOrder
  <1>12. QED
    BY <1>7, <1>8, <1>9, <1>10, <1>11 DEF Order

LEMMA QuietKeepsOrder ==
    ASSUME Order, UNCHANGED <<txn, rows, commits>>
    PROVE  Order'
  <1>1. Committed' = Committed
    BY DEF Committed
  <1>2. \A t \in Txns : InFlight(t)' <=> InFlight(t)
    BY DEF InFlight
  <1>3. CommitsOK' /\ StampsOK' /\ CommitOrder'
    BY <1>1 DEF Order, CommitsOK, StampsOK, CommitOrder
  <1>4. LocksOK' /\ CommittedFirst'
    BY <1>1 DEF Order, LocksOK, CommittedFirst, InFlight
  <1>5. QED
    BY <1>3, <1>4 DEF Order

LEMMA OrderStep == IInv /\ Order /\ [Next]_vars => Order'
  <1> SUFFICES ASSUME IInv, Order, [Next]_vars PROVE Order'
    OBVIOUS
  <1>1. ASSUME NEW t \in Txns, NEW o \in Objects, BeginChange(t, o) \/ BeginNote(t, o)
        PROVE  Order'
    BY <1>1, OpenKeepsOrder
  <1>2. ASSUME NEW t \in Txns, ReadHead(t) \/ Stamp(t) \/ InsertRow(t) \/ Commit(t) \/ Abort(t)
        PROVE  Order'
    BY <1>2, ReadKeepsOrder, StampKeepsOrder, InsertKeepsOrder, CommitKeepsOrder, AbortKeepsOrder
  <1>3. CASE Tick \/ UNCHANGED vars
    BY <1>3, QuietKeepsOrder DEF Tick, vars
  <1>4. QED
    BY <1>1, <1>2, <1>3 DEF Next

LEMMA OrderInvariance == Spec => []Order
  BY InitOrder, OrderStep, Invariance, PTL DEF Spec

\* The changes of an object are shown in the order in which they were committed.
THEOREM ObjectHistoryHolds == Spec => []ObjectHistoryInOrder
  <1>1. ASSUME IInv, Order PROVE ObjectHistoryInOrder
    <2> SUFFICES ASSUME NEW a \in Settled, NEW b \in Settled, Changes(a, b),
                        CommitPosition(a.txn) < CommitPosition(b.txn)
                 PROVE  Before(a, b)
      BY DEF ObjectHistoryInOrder, Changes
    <2>1. \A t \in Committed : /\ CommitPosition(t) \in 1 .. Len(commits)
                               /\ commits[CommitPosition(t)] = t
      BY <1>1 DEF Order, CommitsOK, CommitPosition
    <2>2. PICK i \in 1 .. Len(commits), j \in 1 .. Len(commits) :
              commits[i] = a.txn /\ commits[j] = b.txn /\ i < j
      BY <2>1 DEF Settled
    <2>3. QED
      BY <1>1, <2>2 DEF Order, CommitOrder, Settled
  <1>2. QED
    BY <1>1, Invariance, OrderInvariance, PTL
=============================================================================
