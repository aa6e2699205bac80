---------------------------- MODULE AuditLedger ----------------------------
(***************************************************************************)
(* The audit log core.audit_log as write_audit (audit/service.py) grows    *)
(* it.  Every business handler calls write_audit inside its own database   *)
(* transaction: the newest row it can see is read, the time is taken, and  *)
(* a row that carries the hash of the row read is inserted.  Nothing locks *)
(* the log, so those three steps interleave with other transactions under  *)
(* READ COMMITTED.  A hash is modelled by the id of the row it is of.      *)
(***************************************************************************)
EXTENDS Naturals, Sequences

CONSTANTS
    Txns,       \* database transactions that write audit rows
    Objects,    \* business rows (cases, responses, ...) that they lock and change
    TenantOf,   \* the tenant each object belongs to
    NoObject,
    MaxRows,    \* audit rows ever inserted, rolled back or not
    MaxClock    \* the clock stops here

ASSUME LedgerAssumption == NoObject \notin Objects /\ MaxRows \in Nat /\ MaxClock \in Nat

VARIABLES
    txn,      \* what each transaction has done so far
    rows,     \* the audit rows in the table, uncommitted ones included
    commits,  \* history: the transactions that have committed, in that order
    lastId,   \* the sequence behind audit_id: never rolled back
    clock     \* datetime.now(UTC) of the one host that runs API and worker

vars == <<txn, rows, commits, lastId, clock>>

NoRow == 0

\* object is the business row it is about, locks whether it holds that row FOR
\* UPDATE, began when it started; head and at are what write_audit holds between
\* its statements; seen, as history, who had committed when it read.
Txn == [pc : {"new", "open", "read", "stamped", "committed", "aborted"},
        object : Objects \cup {NoObject}, locks : BOOLEAN, began : Nat, wrote : BOOLEAN,
        head : Nat, at : Nat, seen : SUBSET Txns]

NewTxn == [pc |-> "new", object |-> NoObject, locks |-> FALSE, began |-> 0,
           wrote |-> FALSE, head |-> NoRow, at |-> 0, seen |-> {}]

\* change: written under the lock of the business row it is about.
Row == [id : Nat \ {NoRow}, at : Nat, object : Objects, txn : Txns, change : BOOLEAN,
        prev : Nat, seen : SUBSET Txns]

TypeOK ==
    /\ txn \in [Txns -> Txn]
    /\ rows \subseteq Row
    /\ commits \in Seq(Txns)
    /\ lastId \in Nat
    /\ clock \in Nat

Init ==
    /\ txn = [t \in Txns |-> NewTxn]
    /\ rows = {}
    /\ commits = <<>>
    /\ lastId = NoRow
    /\ clock = 0

-----------------------------------------------------------------------------
Committed == {t \in Txns : txn[t].pc = "committed"}

InFlight(t) == txn[t].pc \in {"open", "read", "stamped"}

\* ORDER BY occurred_at, audit_id
Before(a, b) == a.at < b.at \/ (a.at = b.at /\ a.id < b.id)

SameTenant(a, b) == TenantOf[a.object] = TenantOf[b.object]

\* Mutant: the read sees rows that are not committed.
VisibleDirty(t) == {a \in rows : SameTenant(a, txn[t])}

\* READ COMMITTED: the tenant's committed rows and one's own.
Visible(t) == {a \in rows : SameTenant(a, txn[t]) /\ (a.txn = t \/ a.txn \in Committed)}

\* Mutant: ORDER BY without DESC.
IsOldest(a, S) == a \in S /\ \A b \in S : b = a \/ Before(a, b)

\* ORDER BY occurred_at DESC, audit_id DESC LIMIT 1
IsNewest(a, S) == a \in S /\ \A b \in S : b = a \/ Before(b, a)

\* Mutant: the business row is read without FOR UPDATE.
NobodyWaits(o) == TRUE

Unlocked(o) == \A t \in Txns : InFlight(t) /\ txn[t].locks => txn[t].object # o

Opened(t, o, locks) ==
    /\ txn[t].pc = "new"
    /\ txn' = [txn EXCEPT ![t].pc = "open", ![t].object = o, ![t].locks = locks, ![t].began = clock]
    /\ UNCHANGED <<rows, commits, lastId, clock>>

\* A handler that changes a business row first locks it, with SELECT ... FOR
\* UPDATE, an UPDATE or the INSERT itself.
BeginChange(t, o) == Unlocked(o) /\ Opened(t, o, TRUE)

\* add_case_note and the sign-in audit write about a row they do not lock.
BeginNote(t, o) == Opened(t, o, FALSE)

\* What the SELECT found is kept until the INSERT.
Found(t, head) ==
    txn' = [txn EXCEPT ![t].pc = "read", ![t].head = head, ![t].seen = Committed]

\* SELECT row_hash ... LIMIT 1
ReadHead(t) ==
    /\ txn[t].pc = "open"
    /\ \/ Visible(t) = {} /\ Found(t, NoRow)
       \/ \E a \in Visible(t) : IsNewest(a, Visible(t)) /\ Found(t, a.id)
    /\ UNCHANGED <<rows, commits, lastId, clock>>

\* Mutant: the column's default, now(), which is when the transaction began.
ColumnDefault(t) == txn[t].began

\* occurred_at = datetime.now(UTC)
TimeTaken(t) == clock

Stamp(t) ==
    /\ txn[t].pc = "read"
    /\ txn' = [txn EXCEPT ![t].pc = "stamped", ![t].at = TimeTaken(t)]
    /\ UNCHANGED <<rows, commits, lastId, clock>>

\* Mutant: the sequence starts at the id that stands for no row.
RowFromZero(t) ==
    [id |-> lastId, at |-> txn[t].at, object |-> txn[t].object, txn |-> t,
     change |-> txn[t].locks, prev |-> txn[t].head, seen |-> txn[t].seen]

NewRow(t) ==
    [id |-> lastId + 1, at |-> txn[t].at, object |-> txn[t].object, txn |-> t,
     change |-> txn[t].locks, prev |-> txn[t].head, seen |-> txn[t].seen]

\* INSERT INTO core.audit_log
InsertRow(t) ==
    /\ txn[t].pc = "stamped"
    /\ lastId < MaxRows
    /\ lastId' = lastId + 1
    /\ rows' = rows \cup {NewRow(t)}
    /\ txn' = [txn EXCEPT ![t].pc = "open", ![t].wrote = TRUE,
                        ![t].head = NoRow, ![t].at = 0, ![t].seen = {}]
    /\ UNCHANGED <<commits, clock>>

\* The handler commits: its change and its audit rows become visible at once.
Commit(t) ==
    /\ txn[t].pc = "open"
    /\ txn[t].wrote
    /\ commits' = Append(commits, t)
    /\ txn' = [txn EXCEPT ![t] = [NewTxn EXCEPT !.pc = "committed"]]
    /\ UNCHANGED <<rows, lastId, clock>>

\* An exception or a crash: the session is closed and the database rolls back.
Abort(t) ==
    /\ InFlight(t)
    /\ rows' = {a \in rows : a.txn # t}
    /\ txn' = [txn EXCEPT ![t] = [NewTxn EXCEPT !.pc = "aborted"]]
    /\ UNCHANGED <<commits, lastId, clock>>

Tick ==
    /\ clock < MaxClock
    /\ clock' = clock + 1
    /\ UNCHANGED <<txn, rows, commits, lastId>>

Next ==
    \/ \E t \in Txns, o \in Objects : BeginChange(t, o) \/ BeginNote(t, o)
    \/ \E t \in Txns : ReadHead(t) \/ Stamp(t) \/ InsertRow(t) \/ Commit(t) \/ Abort(t)
    \/ Tick

Spec == Init /\ [][Next]_vars

-----------------------------------------------------------------------------
(* Properties *)

Settled == {a \in rows : a.txn \in Committed}

\* Every committed row names a committed row of its own tenant, or none: the
\* chain can be recomputed from the committed log, whatever was rolled back
\* while it grew.
NoDanglingLink ==
    \A a \in Settled : a.prev # NoRow => \E b \in Settled : b.id = a.prev /\ SameTenant(a, b)

\* A link leads back in the order the audit page shows (occurred_at, audit_id),
\* so links never form a cycle; the time is taken after the newest row is read,
\* and a row inserted late with an early time must not upset it.
LinksLeadBack ==
    \A a, b \in rows : a.prev = b.id => Before(b, a)

\* Two rows of a tenant continue the same row only if their transactions
\* overlapped: neither had committed when the other one read.  Without
\* concurrency the log is one chain.
ForkNeedsOverlap ==
    \A a, b \in rows :
        a # b /\ SameTenant(a, b) /\ a.prev = b.prev =>
            a.txn # b.txn /\ a.txn \notin b.seen /\ b.txn \notin a.seen

CommitPosition(t) == CHOOSE i \in 1..Len(commits) : commits[i] = t

\* The audit page tells the changes of one business row in the order in which
\* they were committed (the row lock outlives the audit row); a note, written
\* without the lock, may be shown out of place.
ObjectHistoryInOrder ==
    \A a, b \in Settled :
        /\ a.object = b.object /\ a.change /\ b.change
        /\ CommitPosition(a.txn) < CommitPosition(b.txn)
        => Before(a, b)

-----------------------------------------------------------------------------
(* What the documentation says and the code does not do *)

\* ARCHITECTURE.md on the audit chain: any deletion of a historical audit row
\* breaks the chain.  So every committed row but the newest is continued by
\* another one; the side of a fork that nobody continues could disappear
\* without a trace.
DeletionBreaksChain ==
    \A a \in Settled :
        \/ \E b \in Settled : b.prev = a.id
        \/ \A b \in Settled : SameTenant(a, b) => b = a \/ Before(b, a)
=============================================================================
