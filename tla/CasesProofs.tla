----------------------------- MODULE CasesProofs -----------------------------
(***************************************************************************)
(* Theorems about the case workflow, for any number of cases, users and    *)
(* requests, any length of history and any time.                           *)
(***************************************************************************)
EXTENDS Cases, TLAPS

-----------------------------------------------------------------------------
(* The inductive invariant: what holds of a row and its history h *)

ToldColumns == {"status", "severity", "assigned_to"}

InWork == {"assigned", "awaiting_response", "responded", "resolved", "closed"}

RowOK(row) ==
    /\ row.status = "absent" => row.assigned_to = NoUser
    /\ row.status \in InWork => row.assigned_to # NoUser
    /\ row.resolved_at # NoTime <=> row.status \in {"resolved", "closed"}

Tells(h, i, column) == {j \in 1..i : column \in DOMAIN h[j].after}

LastOf(set) == CHOOSE j \in set : \A k \in set : k <= j

\* Told, of any sequence of audit rows.
ToldIn(h, i, column) ==
    IF Tells(h, i, column) = {} THEN FirstRow[column]
    ELSE h[LastOf(Tells(h, i, column))].after[column]

\* The CHOOSE of ToldIn has something to choose.
HasLast(h) ==
    \A i \in 0..Len(h), column \in ToldColumns :
        \/ Tells(h, i, column) = {}
        \/ \E j \in Tells(h, i, column) : \A k \in Tells(h, i, column) : k <= j

\* What a trail tells of a row: of one that is not there yet, how it will start.
Shown(row) == IF row.status = "absent" THEN FirstRow ELSE row

Replays(row, h) ==
    /\ HasLast(h)
    /\ \A i \in 1..Len(h) : \A column \in DOMAIN h[i].before :
          h[i].before[column] = ToldIn(h, i - 1, column)
    /\ \A column \in ToldColumns : Shown(row)[column] = ToldIn(h, Len(h), column)

Responded(entry, time) ==
    Records(entry, "responded") /\ entry.now = time /\ time <= entry.at

Resolved(entry, time) == Records(entry, "resolved") /\ entry.now = time

\* Both times are those of audit rows, a resolution's after the response's.
Timed(row, h) ==
    /\ row.first_response_at # NoTime =>
          \E i \in 1..Len(h) : Responded(h[i], row.first_response_at)
    /\ row.resolved_at # NoTime =>
          \E j \in 1..Len(h) :
            /\ Resolved(h[j], row.resolved_at)
            /\ row.first_response_at # NoTime =>
                  \E i \in 1..Len(h) : i < j /\ Responded(h[i], row.first_response_at)

CasesOK ==
    \A c \in Cases :
        RowOK(kase[c]) /\ Replays(kase[c], history[c]) /\ Timed(kase[c], history[c])

\* A request that has locked a case is the only one and has read it as it is.
SessionsOK ==
    \A s \in Sessions :
        /\ session[s].pc # "idle" => session[s].began \in 1..clock
        /\ session[s].pc = "locked" =>
            /\ session[s].kase \in Cases
            /\ session[s].row = kase[session[s].kase]
            /\ session[s].row.status # "absent"
        /\ session[s].kase # NoCase =>
            /\ session[s].pc = "locked"
            /\ \A t \in Sessions : session[t].kase = session[s].kase => t = s

IInv == TypeOK /\ CasesOK /\ SessionsOK

-----------------------------------------------------------------------------
(* What each request that writes a case does to its row, old, and its       *)
(* history: the new row and the audit row entry fit.                        *)

Recording(old, row, entry) ==
    /\ row.status \in Statuses
    /\ \A column \in DOMAIN entry.before : entry.before[column] = Shown(old)[column]
    /\ \A column \in ToldColumns :
          row[column] = IF column \in DOMAIN entry.after THEN entry.after[column]
                        ELSE Shown(old)[column]

Lawful(old, row, entry) ==
    /\ old.status # "absent" =>
        /\ row.status \in {old.status} \cup Transitions[old.status]
        /\ old.first_response_at # NoTime => row.first_response_at = old.first_response_at
    /\ old.severity = "critical" /\ row.severity # "critical" => entry.named

Timely(old, row, entry) ==
    /\ row.first_response_at # old.first_response_at =>
        Responded(entry, row.first_response_at) /\ row.resolved_at = NoTime
    /\ row.resolved_at \notin {NoTime, old.resolved_at} => Resolved(entry, row.resolved_at)

Fits(old, row, entry) ==
    /\ row \in Row /\ entry \in AuditRow
    /\ RowOK(row)
    /\ Recording(old, row, entry) /\ Lawful(old, row, entry) /\ Timely(old, row, entry)

Writes(c, row, entry) ==
    /\ kase' = [kase EXCEPT ![c] = row]
    /\ history' = [history EXCEPT ![c] = Append(@, entry)]

WritesFitting(c) == \E row, entry : Fits(kase[c], row, entry) /\ Writes(c, row, entry)

-----------------------------------------------------------------------------
(* Lemmas about audit rows *)

\* Nothing else is recorded.
LEMMA RecordedColumns == \A recorded \in Recorded : DOMAIN recorded \subseteq ToldColumns
  BY DEF Recorded, ToldColumns

\* The columns a handler reads of a row can be recorded.
LEMMA RowColumns ==
    ASSUME NEW row \in Row, row.status # "absent", NEW columns \in SUBSET ToldColumns
    PROVE  /\ Columns(row, columns) \in Recorded
           /\ DOMAIN Columns(row, columns) = columns
           /\ \A column \in columns : Columns(row, columns)[column] = row[column]
  <1>1. \A column \in columns : row[column] \in Statuses \cup Severities \cup MaybeUser
    BY DEF Row, ToldColumns
  <1>2. Columns(row, columns) \in [columns -> Statuses \cup Severities \cup MaybeUser]
    BY <1>1 DEF Columns
  <1>3. QED
    BY <1>2 DEF Recorded, ToldColumns, Columns

\* So can nothing.
LEMMA NothingRecorded == Nothing \in Recorded /\ DOMAIN Nothing = {}
  BY DEF Nothing, Recorded

\* So can a severity.
LEMMA SeverityRecorded ==
    ASSUME NEW severity \in Severities
    PROVE  [severity |-> severity] \in Recorded
  <1>1. [severity |-> severity] \in [{"severity"} -> Statuses \cup Severities \cup MaybeUser]
    OBVIOUS
  <1>2. QED
    BY <1>1 DEF Recorded

\* So can a status.
LEMMA StatusRecorded ==
    ASSUME NEW status \in Statuses
    PROVE  [status |-> status] \in Recorded
  <1>1. [status |-> status] \in [{"status"} -> Statuses \cup Severities \cup MaybeUser]
    OBVIOUS
  <1>2. QED
    BY <1>1 DEF Recorded

\* So can a status and a severity, or an assignee.
LEMMA PairRecorded ==
    ASSUME NEW status \in Statuses
    PROVE  /\ \A u \in MaybeUser : [status |-> status, assigned_to |-> u] \in Recorded
           /\ \A severity \in Severities : [status |-> status, severity |-> severity] \in Recorded
  <1>1. \A u \in MaybeUser : [status |-> status, assigned_to |-> u]
            \in [{"status", "assigned_to"} -> Statuses \cup Severities \cup MaybeUser]
    OBVIOUS
  <1>2. \A severity \in Severities : [status |-> status, severity |-> severity]
            \in [{"status", "severity"} -> Statuses \cup Severities \cup MaybeUser]
    OBVIOUS
  <1>3. QED
    BY <1>1, <1>2 DEF Recorded

-----------------------------------------------------------------------------
(* Lemmas about histories *)

\* What a longer history tells up to an earlier row.
LEMMA TellsOfPrefix ==
    ASSUME NEW h \in Seq(AuditRow), NEW entry \in AuditRow, NEW column,
           NEW i \in 0..Len(h)
    PROVE  /\ Tells(Append(h, entry), i, column) = Tells(h, i, column)
           /\ \A j \in Tells(h, i, column) : Append(h, entry)[j] = h[j]
  BY DEF Tells

\* What the last row tells.
LEMMA TellsOfAll ==
    ASSUME NEW h \in Seq(AuditRow), NEW entry \in AuditRow, NEW column
    PROVE  Tells(Append(h, entry), Len(h) + 1, column) =
               Tells(h, Len(h), column)
               \cup IF column \in DOMAIN entry.after THEN {Len(h) + 1} ELSE {}
  BY DEF Tells

\* An earlier row's values are told as before.
LEMMA ToldOfPrefix ==
    ASSUME NEW h \in Seq(AuditRow), NEW entry \in AuditRow, NEW column \in ToldColumns,
           NEW i \in 0..Len(h), HasLast(h)
    PROVE  ToldIn(Append(h, entry), i, column) = ToldIn(h, i, column)
  <1>1. CASE Tells(h, i, column) = {}
    BY <1>1, TellsOfPrefix DEF ToldIn
  <1>2. CASE Tells(h, i, column) # {}
    <2>1. PICK j \in Tells(h, i, column) : \A k \in Tells(h, i, column) : k <= j
      BY <1>2 DEF HasLast
    <2>2. LastOf(Tells(h, i, column)) \in Tells(h, i, column)
      BY <2>1 DEF LastOf
    <2>3. Append(h, entry)[LastOf(Tells(h, i, column))] = h[LastOf(Tells(h, i, column))]
      BY <2>2, TellsOfPrefix
    <2>4. Tells(Append(h, entry), i, column) = Tells(h, i, column)
      BY TellsOfPrefix
    <2>5. QED
      BY <1>2, <2>3, <2>4 DEF ToldIn
  <1>3. QED
    BY <1>1, <1>2

\* The last row's values are told from then on.
LEMMA ToldOfAll ==
    ASSUME NEW h \in Seq(AuditRow), NEW entry \in AuditRow, NEW column \in ToldColumns,
           HasLast(h)
    PROVE  ToldIn(Append(h, entry), Len(h) + 1, column) =
               IF column \in DOMAIN entry.after THEN entry.after[column]
               ELSE ToldIn(h, Len(h), column)
  <1>1. CASE column \in DOMAIN entry.after
    <2> DEFINE all == Tells(Append(h, entry), Len(h) + 1, column)
    <2>1. Len(h) + 1 \in all /\ \A k \in all : k \in 1..(Len(h) + 1)
      BY <1>1, TellsOfAll DEF Tells
    <2>2. LastOf(all) = Len(h) + 1
      <3>1. \A l \in all : (\A k \in all : k <= l) => l = Len(h) + 1
        BY <2>1
      <3>2. \A k \in all : k <= Len(h) + 1
        BY <2>1
      <3>3. QED
        BY <2>1, <3>1, <3>2 DEF LastOf
    <2>3. Append(h, entry)[Len(h) + 1] = entry
      OBVIOUS
    <2>4. QED
      BY <1>1, <2>1, <2>2, <2>3 DEF ToldIn
  <1>2. CASE column \notin DOMAIN entry.after
    <2>1. Tells(Append(h, entry), Len(h) + 1, column) = Tells(h, Len(h), column)
      BY <1>2, TellsOfAll
    <2>2. Tells(Append(h, entry), Len(h), column) = Tells(h, Len(h), column)
      BY TellsOfPrefix
    <2>3. ToldIn(Append(h, entry), Len(h) + 1, column) = ToldIn(Append(h, entry), Len(h), column)
      BY <2>1, <2>2 DEF ToldIn
    <2>4. QED
      BY <1>2, <2>3, ToldOfPrefix
  <1>3. QED
    BY <1>1, <1>2

\* A longer history has something to choose, too.
LEMMA LastOfAll ==
    ASSUME NEW h \in Seq(AuditRow), NEW entry \in AuditRow, HasLast(h)
    PROVE  HasLast(Append(h, entry))
  <1> SUFFICES ASSUME NEW i \in 0..Len(Append(h, entry)), NEW column \in ToldColumns
               PROVE  \/ Tells(Append(h, entry), i, column) = {}
                      \/ \E j \in Tells(Append(h, entry), i, column) :
                            \A k \in Tells(Append(h, entry), i, column) : k <= j
    BY DEF HasLast
  <1>1. CASE i \in 0..Len(h)
    BY <1>1, TellsOfPrefix DEF HasLast
  <1>2. CASE i = Len(h) + 1 /\ column \in DOMAIN entry.after
    BY <1>2, TellsOfAll DEF Tells
  <1>3. CASE i = Len(h) + 1 /\ column \notin DOMAIN entry.after
    <2>1. Tells(Append(h, entry), i, column) = Tells(h, Len(h), column)
      BY <1>3, TellsOfAll
    <2>2. Len(h) \in 0..Len(h)
      OBVIOUS
    <2>3. QED
      BY <2>1, <2>2 DEF HasLast
  <1>4. QED
    BY <1>1, <1>2, <1>3

\* Told is ToldIn of the history of a case.
LEMMA ToldIsToldIn ==
    \A c, i, column : Told(c, i, column) = ToldIn(history[c], i, column)
  BY DEF Told, ToldIn, Tells, LastOf

-----------------------------------------------------------------------------
(* Lemmas about a fitting write *)

\* The history of a case still gives its row.
LEMMA ReplaysOn ==
    ASSUME NEW row \in Row, NEW entry \in AuditRow, NEW old \in Row,
           NEW h \in Seq(AuditRow), Replays(old, h), Recording(old, row, entry)
    PROVE  Replays(row, Append(h, entry))
  <1> DEFINE longer == Append(h, entry)
  <1>1. HasLast(longer)
    BY LastOfAll DEF Replays
  <1>2. ASSUME NEW i \in 1..Len(longer), NEW column \in DOMAIN longer[i].before
        PROVE  longer[i].before[column] = ToldIn(longer, i - 1, column)
    <2>1. CASE i \in 1..Len(h)
      <3>1. longer[i] = h[i] /\ i - 1 \in 0..Len(h) /\ column \in DOMAIN h[i].before
        BY <2>1, <1>2
      <3>2. h[i].before[column] = ToldIn(h, i - 1, column)
        BY <2>1, <3>1 DEF Replays
      <3>3. column \in ToldColumns
        <4>1. h[i] \in AuditRow
          BY <2>1
        <4>2. h[i].before \in Recorded
          BY <4>1 DEF AuditRow
        <4>3. QED
          BY <3>1, <4>2, RecordedColumns
      <3>4. ToldIn(longer, i - 1, column) = ToldIn(h, i - 1, column)
        BY <3>1, <3>3, ToldOfPrefix DEF Replays
      <3>5. QED
        BY <3>1, <3>2, <3>4
    <2>2. CASE i = Len(h) + 1
      <3>1. longer[i] = entry /\ i - 1 = Len(h) /\ Len(h) \in 0..Len(h)
        BY <2>2
      <3>2. column \in ToldColumns /\ entry.before[column] = Shown(old)[column]
        <4>1. entry.before \in Recorded
          BY DEF AuditRow
        <4>2. QED
          BY <1>2, <3>1, <4>1, RecordedColumns DEF Recording
      <3>3. Shown(old)[column] = ToldIn(h, Len(h), column)
        BY <3>2 DEF Replays
      <3>4. ToldIn(longer, Len(h), column) = ToldIn(h, Len(h), column)
        BY <3>1, <3>2, ToldOfPrefix DEF Replays
      <3>5. QED
        BY <3>1, <3>2, <3>3, <3>4
    <2>3. QED
      BY <2>1, <2>2
  <1>3. ASSUME NEW column \in ToldColumns
        PROVE  Shown(row)[column] = ToldIn(longer, Len(longer), column)
    <2>1. Len(longer) = Len(h) + 1
      OBVIOUS
    <2>2. ToldIn(longer, Len(longer), column) =
              IF column \in DOMAIN entry.after THEN entry.after[column]
              ELSE ToldIn(h, Len(h), column)
      BY <2>1, ToldOfAll DEF Replays
    <2>3. Shown(row) = row
      BY DEF Recording, Shown, Statuses
    <2>4. QED
      BY <2>2, <2>3 DEF Recording, Replays
  <1>4. QED
    BY <1>1, <1>2, <1>3 DEF Replays

\* Its times still stand in it.
LEMMA TimedOn ==
    ASSUME NEW row \in Row, NEW entry \in AuditRow, NEW old \in Row,
           NEW h \in Seq(AuditRow), Timed(old, h), Timely(old, row, entry)
    PROVE  Timed(row, Append(h, entry))
  <1> DEFINE longer == Append(h, entry)
  <1>1. /\ Len(longer) = Len(h) + 1 /\ longer[Len(h) + 1] = entry
        /\ Len(h) \in Nat
        /\ \A i \in 1..Len(h) : i \in 1..Len(longer) /\ longer[i] = h[i]
    OBVIOUS
  <1>2. row.first_response_at # NoTime =>
          \/ row.first_response_at # old.first_response_at
          \/ \E i \in 1..Len(h) : Responded(h[i], row.first_response_at)
    BY DEF Timed
  <1>3. row.first_response_at # NoTime =>
          \E i \in 1..Len(longer) : Responded(longer[i], row.first_response_at)
    BY <1>1, <1>2 DEF Timely
  <1>4. ASSUME row.resolved_at # NoTime
        PROVE  \E j \in 1..Len(longer) :
                /\ Resolved(longer[j], row.resolved_at)
                /\ row.first_response_at # NoTime =>
                      \E i \in 1..Len(longer) :
                          i < j /\ Responded(longer[i], row.first_response_at)
    <2>1. row.first_response_at = old.first_response_at
      BY <1>4 DEF Timely
    <2>2. CASE row.resolved_at = old.resolved_at
      <3>1. PICK j \in 1..Len(h) :
                /\ Resolved(h[j], row.resolved_at)
                /\ row.first_response_at # NoTime =>
                      \E i \in 1..Len(h) : i < j /\ Responded(h[i], row.first_response_at)
        BY <1>4, <2>1, <2>2 DEF Timed
      <3>2. row.first_response_at # NoTime =>
                \E i \in 1..Len(longer) :
                    i < j /\ Responded(longer[i], row.first_response_at)
        BY <1>1, <3>1
      <3>3. QED
        BY <1>1, <3>1, <3>2
    <2>3. CASE row.resolved_at # old.resolved_at
      <3>1. Resolved(longer[Len(h) + 1], row.resolved_at)
        BY <1>1, <1>4, <2>3 DEF Timely
      <3>2. row.first_response_at # NoTime =>
                \E i \in 1..Len(longer) :
                    i < Len(h) + 1 /\ Responded(longer[i], row.first_response_at)
        BY <1>1, <1>2, <2>1
      <3>3. QED
        BY <1>1, <3>1, <3>2
    <2>4. QED
      BY <2>2, <2>3
  <1>5. QED
    BY <1>3, <1>4 DEF Timed

\* A fitting write of one case keeps the invariant of all of them.
LEMMA FittingWrite ==
    ASSUME TypeOK, CasesOK, NEW c \in Cases, WritesFitting(c)
    PROVE  /\ kase' \in [Cases -> Row] /\ history' \in [Cases -> Seq(AuditRow)]
           /\ \A d \in Cases \ {c} : kase'[d] = kase[d] /\ history'[d] = history[d]
           /\ CasesOK'
  <1>1. PICK row, entry : Fits(kase[c], row, entry) /\ Writes(c, row, entry)
    BY DEF WritesFitting
  <1>2. kase' = [kase EXCEPT ![c] = row] /\ kase[c] \in Row /\ row \in Row
    BY <1>1 DEF Writes, Fits, TypeOK
  <1>3. /\ history' = [history EXCEPT ![c] = Append(history[c], entry)]
        /\ history[c] \in Seq(AuditRow) /\ entry \in AuditRow
    BY <1>1 DEF Writes, Fits, TypeOK
  <1>4. kase' \in [Cases -> Row] /\ history' \in [Cases -> Seq(AuditRow)]
    BY <1>2, <1>3 DEF TypeOK
  <1>5. \A d \in Cases \ {c} : kase'[d] = kase[d] /\ history'[d] = history[d]
    BY <1>2, <1>3 DEF TypeOK
  <1>6. kase'[c] = row /\ history'[c] = Append(history[c], entry)
    BY <1>2, <1>3 DEF TypeOK
  <1>7. Replays(row, Append(history[c], entry))
    BY <1>1, <1>2, <1>3, ReplaysOn DEF CasesOK, Fits
  <1>8. Timed(row, Append(history[c], entry))
    BY <1>1, <1>2, <1>3, TimedOn DEF CasesOK, Fits
  <1>9. RowOK(row)
    BY <1>1 DEF Fits
  <1>10. \A d \in Cases :
            RowOK(kase'[d]) /\ Replays(kase'[d], history'[d]) /\ Timed(kase'[d], history'[d])
    BY <1>5, <1>6, <1>7, <1>8, <1>9 DEF CasesOK
  <1>11. QED
    BY <1>4, <1>5, <1>10 DEF CasesOK

-----------------------------------------------------------------------------
(* The writes fit *)

\* Where the statuses lead.
LEMMA Targets ==
    ASSUME NEW status \in Statuses, NEW next \in Transitions[status]
    PROVE  /\ next \in Statuses
           /\ next = "closed" => status = "resolved"
           /\ next \in {"triaged", "rejected"} => status \in {"new", "triaged"}
           /\ next \in {"awaiting_response", "responded"} =>
                 status \in {"assigned", "awaiting_response", "responded"}
           /\ next # "new"
  BY DEF Statuses, Transitions

\* Assigning moves a case the way STATUS_TRANSITIONS does, or not at all.
LEMMA AssignmentMoves ==
    ASSUME NEW status \in Statuses
    PROVE  /\ StatusOnAssign(status) \in Statuses
           /\ StatusOnAssign(status) \in {status} \cup Transitions[status]
           /\ StatusOnAssign(status) \in {"resolved", "closed"} <=> status = "closed"
           /\ StatusOnAssign(status) = "assigned" \/ StatusOnAssign(status) = status
  BY DEF Statuses, Transitions, StatusOnAssign

\* A new case and the history entry that opens it.
LEMMA OpenedFits ==
    ASSUME TypeOK, CasesOK, NEW c \in Cases, NEW severity \in Severities,
           NEW after \in Recorded, DOMAIN after \subseteq {"status", "severity"},
           "severity" \in DOMAIN after, after["severity"] = severity,
           "status" \in DOMAIN after => after["status"] = "new",
           Opened(c, severity, after)
    PROVE  WritesFitting(c)
  <1> DEFINE row == [kase[c] EXCEPT !.status = "new", !.severity = severity]
             entry == [action |-> "create", before |-> Nothing,
                       after |-> after,
                       now |-> NoTime, at |-> NoTime, named |-> TRUE]
  <1>1. kase[c] \in Row /\ kase[c].status = "absent" /\ RowOK(kase[c])
    BY DEF TypeOK, Opened, CasesOK
  <1>2. row \in Row
    BY <1>1 DEF Row, Statuses
  <1>3. entry \in AuditRow
    BY NothingRecorded DEF AuditRow, NoTime
  <1>4. RowOK(row)
    BY <1>1 DEF RowOK, InWork, Row
  <1>5. Recording(kase[c], row, entry)
    <2>1. DOMAIN entry.before = {}
      BY NothingRecorded
    <2>2. /\ Shown(kase[c])["status"] = "new"
          /\ Shown(kase[c])["assigned_to"] = NoUser
      BY <1>1 DEF Shown, FirstRow, AbsentRow
    <2>3. /\ row["status"] = "new"
          /\ row["severity"] = severity
          /\ row["assigned_to"] = NoUser
      BY <1>1 DEF Row, RowOK
    <2>4. \A column \in ToldColumns :
            row[column] = IF column \in DOMAIN entry.after THEN entry.after[column]
                          ELSE Shown(kase[c])[column]
      BY <2>2, <2>3 DEF ToldColumns
    <2>5. QED
      BY <2>1, <2>3, <2>4 DEF Recording, Statuses
  <1>6. Lawful(kase[c], row, entry) /\ Timely(kase[c], row, entry)
    BY <1>1 DEF Lawful, Timely, Row
  <1>7. Writes(c, row, entry)
    BY DEF Opened, Audited, AuditedAs, Writes
  <1>8. QED
    BY <1>2, <1>3, <1>4, <1>5, <1>6, <1>7 DEF WritesFitting, Fits

\* A note changes no column of the case.
LEMMA NoteFits ==
    ASSUME TypeOK, CasesOK, NEW c \in Cases, AddCaseNote(c)
    PROVE  WritesFitting(c)
  <1> DEFINE row == kase[c]
             entry == [action |-> "note", before |-> Nothing, after |-> Nothing,
                       now |-> NoTime, at |-> NoTime, named |-> FALSE]
  <1>1. row \in Row /\ RowOK(row) /\ row.status \in Statuses
    BY DEF TypeOK, CasesOK, AddCaseNote, Row
  <1>2. entry \in AuditRow
    BY NothingRecorded DEF AuditRow, NoTime
  <1>3. Recording(row, row, entry)
    BY <1>1, NothingRecorded DEF Recording, Shown, Statuses
  <1>4. Lawful(row, row, entry) /\ Timely(row, row, entry)
    BY <1>1 DEF Lawful, Timely
  <1>5. Writes(c, row, entry)
    BY DEF AddCaseNote, Audited, AuditedAs, Writes, TypeOK
  <1>6. QED
    BY <1>1, <1>2, <1>3, <1>4, <1>5 DEF WritesFitting, Fits

\* An escalation raises the severity and says so, whatever it was before.
LEMMA EscalationFits ==
    ASSUME TypeOK, CasesOK, NEW c \in Cases, EscalateCase(c)
    PROVE  WritesFitting(c)
  <1> DEFINE row == [kase[c] EXCEPT !.severity = "critical"]
             entry == [action |-> "escalate", before |-> Nothing,
                       after |-> [severity |-> "critical"],
                       now |-> NoTime, at |-> NoTime, named |-> TRUE]
  <1>1. kase[c] \in Row /\ kase[c].status # "absent" /\ RowOK(kase[c])
    BY DEF TypeOK, EscalateCase, CasesOK
  <1>2. row \in Row
    BY <1>1 DEF Row, Severities
  <1>3. entry \in AuditRow
    BY NothingRecorded, SeverityRecorded DEF AuditRow, NoTime, Severities
  <1>4. RowOK(row)
    BY <1>1 DEF RowOK, Row
  <1>5. Recording(kase[c], row, entry)
    <2>1. DOMAIN entry.before = {}
      BY NothingRecorded
    <2>2. \A column \in ToldColumns :
            row[column] = IF column \in DOMAIN entry.after THEN entry.after[column]
                          ELSE kase[c][column]
      BY <1>1 DEF ToldColumns, Row
    <2>3. Shown(kase[c]) = kase[c] /\ row.status \in Statuses
      BY <1>1 DEF Shown, Row
    <2>4. QED
      BY <2>1, <2>2, <2>3 DEF Recording
  <1>6. Lawful(kase[c], row, entry) /\ Timely(kase[c], row, entry)
    BY <1>1 DEF Lawful, Timely, Row
  <1>7. Writes(c, row, entry)
    BY DEF EscalateCase, Audited, AuditedAs, Writes
  <1>8. QED
    BY <1>2, <1>3, <1>4, <1>5, <1>6, <1>7 DEF WritesFitting, Fits

\* What a request knows of the case it has locked.
LEMMA LockedCase ==
    ASSUME IInv, NEW s \in Sessions, session[s].pc = "locked", NEW c, c = session[s].kase
    PROVE  /\ c \in Cases /\ session[s].row = kase[c]
           /\ kase[c] \in Row /\ kase[c].status \in Statuses /\ RowOK(kase[c])
           /\ session[s].began \in 1..clock /\ clock \in Nat
           /\ session[s].assignee \in MaybeUser
  <1>1. c \in Cases /\ session[s].row = kase[c] /\ kase[c].status # "absent"
    BY DEF IInv, SessionsOK
  <1>2. kase[c] \in Row /\ RowOK(kase[c])
    BY <1>1 DEF IInv, TypeOK, CasesOK
  <1>3. session[s] \in Session
    BY DEF IInv, TypeOK
  <1>4. session[s].began \in 1..clock /\ clock \in Nat
    BY DEF IInv, TypeOK, SessionsOK, Times
  <1>5. QED
    BY <1>1, <1>2, <1>3, <1>4 DEF Row, Session

\* The severity a PATCH leaves is the one its history entry names.
LEMMA UpdateFits ==
    ASSUME IInv, NEW s \in Sessions, NEW severity \in Severities \cup {NoSeverity},
           UpdateCase(s, severity)
    PROVE  WritesFitting(session[s].kase)
  <1> DEFINE c == session[s].kase
             old == kase[c]
             chosen == SeverityOr(severity, old.severity)
             row == [old EXCEPT !.severity = chosen]
             entry == [action |-> "update", before |-> Columns(old, {"severity"}),
                       after |-> [severity |-> chosen],
                       now |-> NoTime, at |-> NoTime, named |-> severity # NoSeverity]
  <1>1. /\ session[s].row = old /\ old \in Row /\ old.status \in Statuses /\ RowOK(old)
        /\ old.severity \in Severities /\ old.status # "absent"
    BY LockedCase DEF UpdateCase, Row, Statuses
  <1>2. chosen \in Severities
    BY <1>1 DEF SeverityOr
  <1>3. row \in Row /\ RowOK(row)
    BY <1>1, <1>2 DEF Row, RowOK
  <1>4. /\ Columns(old, {"severity"}) \in Recorded
        /\ DOMAIN Columns(old, {"severity"}) = {"severity"}
        /\ Columns(old, {"severity"})["severity"] = old["severity"]
    BY <1>1, RowColumns DEF ToldColumns
  <1>5. entry \in AuditRow
    BY <1>2, <1>4, SeverityRecorded DEF AuditRow, NoTime
  <1>6. Recording(old, row, entry)
    <2>1. \A column \in ToldColumns :
            row[column] = IF column \in DOMAIN entry.after THEN entry.after[column]
                          ELSE old[column]
      BY <1>1 DEF ToldColumns, Row
    <2>2. Shown(old) = old /\ row.status \in Statuses
      BY <1>1 DEF Shown, Row
    <2>3. QED
      BY <1>4, <2>1, <2>2 DEF Recording
  <1>7. Lawful(old, row, entry) /\ Timely(old, row, entry)
    BY <1>1 DEF Lawful, Timely, Row, SeverityOr
  <1>8. Writes(c, row, entry)
    BY <1>1 DEF UpdateCase, Written, Audited, AuditedAs, Writes
  <1>9. QED
    BY <1>3, <1>5, <1>6, <1>7, <1>8 DEF WritesFitting, Fits

\* An assignment moves a case to in progress and counts as no answer.
LEMMA AssignmentFits ==
    ASSUME IInv, NEW s \in Sessions, AssignCase(s)
    PROVE  WritesFitting(session[s].kase)
  <1> DEFINE c == session[s].kase
             old == kase[c]
             u == session[s].assignee
             status == StatusOnAssign(old.status)
             row == [old EXCEPT !.assigned_to = u, !.status = status,
                                !.resolved_at = ResolutionAfterAssign(status, old.resolved_at)]
             entry == [action |-> "assign", before |-> Columns(old, {"status", "assigned_to"}),
                       after |-> [status |-> status, assigned_to |-> u],
                       now |-> NoTime, at |-> NoTime, named |-> FALSE]
  <1>1. /\ session[s].row = old /\ old \in Row /\ old.status \in Statuses /\ RowOK(old)
        /\ u \in MaybeUser /\ u # NoUser /\ old.status # "absent"
    BY LockedCase DEF AssignCase, Row, Statuses
  <1>2. /\ status \in Statuses /\ status \in {old.status} \cup Transitions[old.status]
        /\ status \in {"resolved", "closed"} <=> old.status = "closed"
        /\ status = "assigned" \/ status = old.status
    BY <1>1, AssignmentMoves
  <1>3. row \in Row
    BY <1>1, <1>2 DEF Row, ResolutionAfterAssign, NoTime
  <1>4. RowOK(row)
    BY <1>1, <1>2 DEF Row, RowOK, ResolutionAfterAssign
  <1>5. /\ Columns(old, {"status", "assigned_to"}) \in Recorded
        /\ DOMAIN Columns(old, {"status", "assigned_to"}) = {"status", "assigned_to"}
        /\ \A column \in {"status", "assigned_to"} :
              Columns(old, {"status", "assigned_to"})[column] = old[column]
    BY <1>1, RowColumns DEF ToldColumns
  <1>6. entry \in AuditRow
    <2>1. [status |-> status, assigned_to |-> u] \in Recorded
      BY <1>1, <1>2, PairRecorded
    <2>2. QED
      BY <1>5, <2>1 DEF AuditRow, NoTime
  <1>7. Recording(old, row, entry)
    <2>1. \A column \in ToldColumns :
            row[column] = IF column \in DOMAIN entry.after THEN entry.after[column]
                          ELSE old[column]
      <3>1. /\ DOMAIN entry.after = {"status", "assigned_to"}
            /\ entry.after["status"] = status
            /\ entry.after["assigned_to"] = u
        OBVIOUS
      <3>2. /\ row["status"] = status
            /\ row["severity"] = old["severity"]
            /\ row["assigned_to"] = u
        BY <1>1 DEF Row
      <3>3. QED
        BY <3>1, <3>2 DEF ToldColumns
    <2>2. Shown(old) = old /\ row.status \in Statuses
      BY <1>1, <1>2 DEF Shown, Row
    <2>3. QED
      BY <1>5, <2>1, <2>2 DEF Recording
  <1>8. Lawful(old, row, entry)
    BY <1>1, <1>2 DEF Lawful, Row
  <1>9. Timely(old, row, entry)
    BY <1>1 DEF Timely, Row, ResolutionAfterAssign
  <1>10. Writes(c, row, entry)
    BY <1>1 DEF AssignCase, Written, Audited, AuditedAs, Writes
  <1>11. QED
    BY <1>3, <1>4, <1>6, <1>7, <1>8, <1>9, <1>10 DEF WritesFitting, Fits

\* A transition writes the transaction's time and never one before the case came in
\* hand, but for a request that waited for the lock.
LEMMA TransitionFits ==
    ASSUME IInv, NEW s \in Sessions, NEW next \in Statuses, TransitionCase(s, next)
    PROVE  WritesFitting(session[s].kase)
  <1> DEFINE c == session[s].kase
             old == kase[c]
             now == session[s].began
             row == [old EXCEPT !.status = next,
                                !.first_response_at = FirstResponse(next, old.first_response_at, now),
                                !.resolved_at = Resolution(next, old.resolved_at, now)]
             entry == [action |-> "status", before |-> Columns(old, {"status"}),
                       after |-> [status |-> next],
                       now |-> now, at |-> clock, named |-> FALSE]
  <1>1. /\ session[s].row = old /\ old \in Row /\ old.status \in Statuses /\ RowOK(old)
        /\ now \in 1..clock /\ clock \in Nat /\ MayMove(old, next) /\ old.status # "absent"
    BY LockedCase DEF TransitionCase, Row, Statuses
  <1>2. /\ next \in Transitions[old.status]
        /\ next = "closed" => old.status = "resolved"
        /\ next \in {"triaged", "rejected"} => old.status \in {"new", "triaged"}
        /\ next \in {"awaiting_response", "responded"} =>
              old.status \in {"assigned", "awaiting_response", "responded"}
        /\ next # "new"
    BY <1>1, Targets DEF MayMove
  <1>3. now \in Nat /\ now # NoTime /\ now <= clock
    BY <1>1 DEF NoTime
  <1>4. row \in Row
    BY <1>1, <1>3 DEF Row, FirstResponse, Resolution, Coalesce, NoTime
  <1>5. RowOK(row)
    <2>1. row.status \in InWork => row.assigned_to # NoUser
      BY <1>1, <1>2 DEF Row, RowOK, InWork, MayMove
    <2>2. row.resolved_at # NoTime <=> row.status \in {"resolved", "closed"}
      BY <1>1, <1>2, <1>3 DEF Row, RowOK, Resolution, Coalesce, Statuses
    <2>3. row.status # "absent"
      BY <1>1, <1>2 DEF Row, Statuses
    <2>4. QED
      BY <2>1, <2>2, <2>3 DEF RowOK
  <1>6. /\ Columns(old, {"status"}) \in Recorded
        /\ DOMAIN Columns(old, {"status"}) = {"status"}
        /\ Columns(old, {"status"})["status"] = old["status"]
    BY <1>1, RowColumns DEF ToldColumns
  <1>7. entry \in AuditRow
    BY <1>1, <1>3, <1>6, StatusRecorded DEF AuditRow
  <1>8. Recording(old, row, entry)
    <2>1. \A column \in ToldColumns :
            row[column] = IF column \in DOMAIN entry.after THEN entry.after[column]
                          ELSE old[column]
      <3>1. /\ DOMAIN entry.after = {"status"}
            /\ entry.after["status"] = next
        OBVIOUS
      <3>2. /\ row["status"] = next
            /\ row["severity"] = old["severity"]
            /\ row["assigned_to"] = old["assigned_to"]
        BY <1>1 DEF Row
      <3>3. QED
        BY <3>1, <3>2 DEF ToldColumns
    <2>2. Shown(old) = old /\ row.status \in Statuses
      BY <1>1 DEF Shown, Row
    <2>3. QED
      BY <1>6, <2>1, <2>2 DEF Recording
  <1>9. Lawful(old, row, entry)
    BY <1>1, <1>2 DEF Lawful, Row, FirstResponse, Coalesce
  <1>10. Timely(old, row, entry)
    <2>1. Records(entry, next)
      BY DEF Records
    <2>2. row.first_response_at # old.first_response_at =>
              Responded(entry, row.first_response_at) /\ row.resolved_at = NoTime
      BY <1>1, <1>2, <1>3, <2>1 DEF Row, RowOK, FirstResponse, Resolution, Coalesce, Responded
    <2>3. row.resolved_at \notin {NoTime, old.resolved_at} => Resolved(entry, row.resolved_at)
      BY <1>1, <1>2, <1>3, <2>1 DEF Row, RowOK, Resolution, Coalesce, Resolved
    <2>4. QED
      BY <2>2, <2>3 DEF Timely
  <1>11. Writes(c, row, entry)
    BY <1>1 DEF TransitionCase, Written, StatusAudited, AuditedAs, Writes
  <1>12. QED
    BY <1>4, <1>5, <1>7, <1>8, <1>9, <1>10, <1>11 DEF WritesFitting, Fits

-----------------------------------------------------------------------------
(* Every step keeps the invariant *)

\* The transaction of a request that is over.
LEMMA IdleType == IdleSession \in Session
  BY DEF IdleSession, Session, AbsentRow, Row, MaybeUser, NoTime, Severities

\* A write of a case nobody else has locked leaves the requests that go on.
LEMMA SessionsGoOn ==
    ASSUME IInv, NEW c \in Cases, UNCHANGED <<active, clock>>, WritesFitting(c),
           session' \in [Sessions -> Session],
           \A s \in Sessions : \/ session'[s] = IdleSession
                               \/ session'[s] = session[s] /\ session[s].kase # c
    PROVE  IInv'
  <1>1. /\ kase' \in [Cases -> Row] /\ history' \in [Cases -> Seq(AuditRow)]
        /\ \A d \in Cases \ {c} : kase'[d] = kase[d]
        /\ CasesOK'
    BY FittingWrite DEF IInv
  <1>2. TypeOK'
    BY <1>1 DEF IInv, TypeOK
  <1>3. SessionsOK'
    <2> SUFFICES ASSUME NEW s \in Sessions
                 PROVE  /\ session'[s].pc # "idle" => session'[s].began \in 1..clock
                        /\ session'[s].pc = "locked" =>
                            /\ session'[s].kase \in Cases
                            /\ session'[s].row = kase'[session'[s].kase]
                            /\ session'[s].row.status # "absent"
                        /\ session'[s].kase # NoCase =>
                            /\ session'[s].pc = "locked"
                            /\ \A t \in Sessions : session'[t].kase = session'[s].kase => t = s
      BY DEF SessionsOK
    <2>1. CASE session'[s] = IdleSession
      BY <2>1 DEF IdleSession
    <2>2. CASE session'[s] = session[s] /\ session[s].kase # c
      <3>1. session[s].pc = "locked" => kase'[session[s].kase] = kase[session[s].kase]
        BY <1>1, <2>2 DEF IInv, SessionsOK
      <3>2. ASSUME session[s].kase # NoCase, NEW t \in Sessions,
                   session'[t].kase = session[s].kase
            PROVE  t = s
        <4>1. session'[t] # IdleSession
          BY <3>2 DEF IdleSession
        <4>2. QED
          BY <3>2, <4>1 DEF IInv, SessionsOK
      <3>3. QED
        BY <2>2, <3>1, <3>2 DEF IInv, SessionsOK
    <2>3. QED
      BY <2>1, <2>2
  <1>4. QED
    BY <1>1, <1>2, <1>3 DEF IInv

\* The steps that write a case.
WriteStep(c) ==
    \/ CreateCase(c) \/ CreateCaseFromMessage(c) \/ AddCaseNote(c) \/ EscalateCase(c)
    \/ \E s \in Sessions :
        /\ c = session[s].kase
        /\ \/ \E severity \in Severities \cup {NoSeverity} : UpdateCase(s, severity)
           \/ AssignCase(s)
           \/ \E next \in Statuses : TransitionCase(s, next)

\* Every request that writes a case fits and keeps the invariant.
LEMMA WriteStepFits ==
    ASSUME IInv, NEW c \in Cases, WriteStep(c)
    PROVE  WritesFitting(c) /\ IInv'
  <1>1. ASSUME NEW severity \in Severities, NEW after, Opened(c, severity, after),
               WritesFitting(c)
        PROVE  WritesFitting(c) /\ IInv'
    <2>1. \A s \in Sessions : session[s].kase # c
      BY <1>1, CaseNulls DEF Opened, IInv, SessionsOK
    <2>2. UNCHANGED <<session, active, clock>> /\ session' \in [Sessions -> Session]
      BY <1>1 DEF Opened, IInv, TypeOK
    <2>3. QED
      BY <1>1, <2>1, <2>2, SessionsGoOn
  <1>2. ASSUME CreateCase(c)
        PROVE  WritesFitting(c) /\ IInv'
    <2>1. PICK severity \in Severities :
            Opened(c, severity, [status |-> "new", severity |-> severity])
      BY <1>2 DEF CreateCase
    <2>2. [status |-> "new", severity |-> severity] \in Recorded
      BY PairRecorded DEF Statuses
    <2>3. WritesFitting(c)
      BY <2>1, <2>2, OpenedFits DEF IInv
    <2>4. QED
      BY <1>1, <2>1, <2>3
  <1>3. ASSUME CreateCaseFromMessage(c)
        PROVE  WritesFitting(c) /\ IInv'
    <2>1. Opened(c, "medium", [severity |-> "medium"]) /\ "medium" \in Severities
      BY <1>3 DEF CreateCaseFromMessage, Severities
    <2>2. [severity |-> "medium"] \in Recorded
      BY <2>1, SeverityRecorded
    <2>3. WritesFitting(c)
      BY <2>1, <2>2, OpenedFits DEF IInv
    <2>4. QED
      BY <1>1, <2>1, <2>3
  <1>4. ASSUME AddCaseNote(c)
        PROVE  WritesFitting(c) /\ IInv'
    <2>1. WritesFitting(c)
      BY <1>4, NoteFits DEF IInv
    <2>2. /\ UNCHANGED <<session, active, clock>> /\ session' \in [Sessions -> Session]
          /\ \A s \in Sessions : session[s].kase # c
      BY <1>4 DEF AddCaseNote, IInv, TypeOK, Unlocked
    <2>3. QED
      BY <2>1, <2>2, SessionsGoOn
  <1>5. ASSUME EscalateCase(c)
        PROVE  WritesFitting(c) /\ IInv'
    <2>1. WritesFitting(c)
      BY <1>5, EscalationFits DEF IInv
    <2>2. /\ UNCHANGED <<session, active, clock>> /\ session' \in [Sessions -> Session]
          /\ \A s \in Sessions : session[s].kase # c
      BY <1>5 DEF EscalateCase, IInv, TypeOK, Unlocked
    <2>3. QED
      BY <2>1, <2>2, SessionsGoOn
  <1>6. ASSUME NEW s \in Sessions, c = session[s].kase, WritesFitting(c),
               session' = [session EXCEPT ![s] = IdleSession], UNCHANGED <<active, clock>>
        PROVE  WritesFitting(c) /\ IInv'
    <2>1. session' \in [Sessions -> Session]
      BY <1>6, IdleType DEF IInv, TypeOK
    <2>2. \A t \in Sessions : \/ session'[t] = IdleSession
                              \/ session'[t] = session[t] /\ session[t].kase # c
      BY <1>6, CaseNulls DEF IInv, TypeOK, SessionsOK
    <2>3. QED
      BY <1>6, <2>1, <2>2, SessionsGoOn
  <1>7. ASSUME NEW s \in Sessions, c = session[s].kase,
               NEW severity \in Severities \cup {NoSeverity}, UpdateCase(s, severity)
        PROVE  WritesFitting(c) /\ IInv'
    BY <1>6, <1>7, UpdateFits DEF UpdateCase, Written
  <1>8. ASSUME NEW s \in Sessions, c = session[s].kase, AssignCase(s)
        PROVE  WritesFitting(c) /\ IInv'
    BY <1>6, <1>8, AssignmentFits DEF AssignCase, Written
  <1>9. ASSUME NEW s \in Sessions, c = session[s].kase, NEW next \in Statuses,
               TransitionCase(s, next)
        PROVE  WritesFitting(c) /\ IInv'
    BY <1>6, <1>9, TransitionFits DEF TransitionCase, Written
  <1>10. QED
    BY <1>2, <1>3, <1>4, <1>5, <1>7, <1>8, <1>9 DEF WriteStep

\* The steps that leave cases and their history alone.
LEMMA QuietStep ==
    ASSUME IInv, UNCHANGED <<kase, history>>, TypeOK', SessionsOK'
    PROVE  IInv'
  <1>1. CasesOK'
    BY DEF IInv, CasesOK
  <1>2. QED
    BY <1>1 DEF IInv

\* Steps that write no case: the start of a request.
LEMMA BeginKeeps ==
    ASSUME IInv, NEW s \in Sessions, BeginRequest(s)
    PROVE  IInv' /\ UNCHANGED <<kase, history>>
  <1>1. PICK q : q = [session[s] EXCEPT !.pc = "begun", !.began = clock]
    OBVIOUS
  <1>2. session[s] \in Session /\ session[s].pc = "idle" /\ clock \in Times
    BY DEF IInv, TypeOK, BeginRequest
  <1>3. /\ q \in Session /\ q.pc = "begun" /\ q.began = clock
        /\ q.kase = session[s].kase /\ session[s].kase = NoCase
    BY <1>1, <1>2 DEF Session, Times, IInv, SessionsOK
  <1>4. session' = [session EXCEPT ![s] = q] /\ UNCHANGED <<kase, active, history, clock>>
    BY <1>1 DEF BeginRequest
  <1>5. TypeOK'
    BY <1>3, <1>4 DEF IInv, TypeOK
  <1>6. SessionsOK'
    BY <1>2, <1>3, <1>4 DEF IInv, TypeOK, SessionsOK, Times, NoTime
  <1>7. QED
    BY <1>4, <1>5, <1>6, QuietStep

\* The assignee is looked up before the case is locked.
LEMMA FindKeeps ==
    ASSUME IInv, NEW s \in Sessions, NEW u \in Users, FindAssignee(s, u)
    PROVE  IInv' /\ UNCHANGED <<kase, history>>
  <1>1. PICK q : q = [session[s] EXCEPT !.assignee = u]
    OBVIOUS
  <1>2. session[s] \in Session /\ session[s].pc = "begun"
    BY DEF IInv, TypeOK, FindAssignee
  <1>3. /\ q \in Session /\ q.pc = "begun" /\ q.began = session[s].began
        /\ q.kase = session[s].kase /\ session[s].kase = NoCase
    BY <1>1, <1>2 DEF Session, MaybeUser, IInv, SessionsOK
  <1>4. session' = [session EXCEPT ![s] = q] /\ UNCHANGED <<kase, active, history, clock>>
    BY <1>1 DEF FindAssignee
  <1>5. TypeOK'
    BY <1>3, <1>4 DEF IInv, TypeOK
  <1>6. SessionsOK'
    BY <1>2, <1>3, <1>4 DEF IInv, TypeOK, SessionsOK
  <1>7. QED
    BY <1>4, <1>5, <1>6, QuietStep

\* A lock reads the row as it is committed, and no other request has it.
LEMMA LockKeeps ==
    ASSUME IInv, NEW s \in Sessions, NEW c \in Cases, LockCase(s, c)
    PROVE  IInv' /\ UNCHANGED <<kase, history>>
  <1>1. PICK q : q = [session[s] EXCEPT !.pc = "locked", !.kase = c, !.row = kase[c]]
    OBVIOUS
  <1>2. /\ session[s] \in Session /\ session[s].pc = "begun" /\ kase[c] \in Row
        /\ kase[c].status # "absent" /\ \A t \in Sessions : session[t].kase # c
    BY DEF IInv, TypeOK, LockCase, Unlocked
  <1>3. /\ q \in Session /\ q.pc = "locked" /\ q.began = session[s].began
        /\ q.kase = c /\ q.row = kase[c]
    BY <1>1, <1>2 DEF Session
  <1>4. session' = [session EXCEPT ![s] = q] /\ UNCHANGED <<kase, active, history, clock>>
    BY <1>1 DEF LockCase
  <1>5. TypeOK'
    BY <1>3, <1>4 DEF IInv, TypeOK
  <1>6. SessionsOK'
    BY <1>2, <1>3, <1>4 DEF IInv, TypeOK, SessionsOK
  <1>7. QED
    BY <1>4, <1>5, <1>6, QuietStep

\* A request that is refused or fails.
LEMMA GiveUpKeeps ==
    ASSUME IInv, NEW s \in Sessions, GiveUp(s)
    PROVE  IInv' /\ UNCHANGED <<kase, history>>
  <1>1. /\ session' = [session EXCEPT ![s] = IdleSession]
        /\ UNCHANGED <<kase, active, history, clock>>
    BY DEF GiveUp
  <1>2. TypeOK'
    BY <1>1, IdleType DEF IInv, TypeOK
  <1>3. IdleSession.pc = "idle" /\ IdleSession.kase = NoCase
    BY DEF IdleSession
  <1>4. SessionsOK'
    BY <1>1, <1>3 DEF IInv, TypeOK, SessionsOK
  <1>5. QED
    BY <1>1, <1>2, <1>4, QuietStep

\* Time passes, users come and go.
LEMMA UserOrClockKeeps ==
    ASSUME IInv, Tick \/ \E u \in Users : SetUserStatus(u)
    PROVE  IInv' /\ UNCHANGED <<kase, history>>
  <1>1. /\ UNCHANGED <<kase, session, history>>
        /\ clock' \in {clock, clock + 1} /\ clock \in Times
        /\ active' \in [Users -> BOOLEAN]
    BY DEF Tick, SetUserStatus, IInv, TypeOK
  <1>2. TypeOK'
    BY <1>1 DEF IInv, TypeOK, Times, NoTime
  <1>3. 1..clock \subseteq 1..(clock')
    BY <1>1 DEF Times
  <1>4. SessionsOK'
    BY <1>1, <1>3 DEF IInv, SessionsOK
  <1>5. QED
    BY <1>1, <1>2, <1>4, QuietStep

\* A step writes one case, or none.
LEMMA StepCases ==
    ASSUME IInv, Next
    PROVE  \/ \E c \in Cases : WriteStep(c)
           \/ IInv' /\ UNCHANGED <<kase, history>>
  <1>1. ASSUME NEW c \in Cases,
               CreateCase(c) \/ CreateCaseFromMessage(c) \/ AddCaseNote(c) \/ EscalateCase(c)
        PROVE  WriteStep(c)
    BY <1>1 DEF WriteStep
  <1>2. ASSUME NEW s \in Sessions, session[s].pc = "locked"
        PROVE  session[s].kase \in Cases
    BY <1>2 DEF IInv, SessionsOK
  <1>3. ASSUME NEW s \in Sessions, NEW severity \in Severities \cup {NoSeverity},
               UpdateCase(s, severity)
        PROVE  \E c \in Cases : WriteStep(c)
    BY <1>2, <1>3 DEF WriteStep, UpdateCase
  <1>4. ASSUME NEW s \in Sessions, AssignCase(s)
        PROVE  \E c \in Cases : WriteStep(c)
    BY <1>2, <1>4 DEF WriteStep, AssignCase
  <1>5. ASSUME NEW s \in Sessions, NEW next \in Statuses, TransitionCase(s, next)
        PROVE  \E c \in Cases : WriteStep(c)
    BY <1>2, <1>5 DEF WriteStep, TransitionCase
  <1>6. QED
    BY <1>1, <1>3, <1>4, <1>5, BeginKeeps, FindKeeps, LockKeeps, GiveUpKeeps,
       UserOrClockKeeps DEF Next

\* No case, no history.
LEMMA Initially == Init => IInv
  <1> SUFFICES ASSUME Init PROVE IInv
    OBVIOUS
  <1>1. AbsentRow \in Row
    BY DEF AbsentRow, Row, MaybeUser, NoTime, Severities
  <1>2. TypeOK
    BY <1>1, IdleType DEF Init, TypeOK, Times, NoTime
  <1>3. RowOK(AbsentRow) /\ Timed(AbsentRow, <<>>)
    BY DEF RowOK, Timed, AbsentRow, InWork
  <1>4. \A i \in 0..0, column \in ToldColumns : Tells(<<>>, i, column) = {}
    BY DEF Tells
  <1>5. Replays(AbsentRow, <<>>)
    BY <1>4 DEF Replays, HasLast, ToldIn, Shown, AbsentRow
  <1>6. CasesOK
    BY <1>3, <1>5 DEF Init, CasesOK
  <1>7. SessionsOK
    BY DEF Init, SessionsOK, IdleSession
  <1>8. QED
    BY <1>2, <1>6, <1>7 DEF IInv

\* The invariant is kept by every step.
LEMMA Inductive == IInv /\ [Next]_vars => IInv'
  <1> SUFFICES ASSUME IInv, [Next]_vars PROVE IInv'
    OBVIOUS
  <1>1. CASE Next
    BY <1>1, StepCases, WriteStepFits
  <1>2. CASE UNCHANGED vars
    <2>1. TypeOK' /\ SessionsOK'
      BY <1>2 DEF IInv, TypeOK, SessionsOK, vars
    <2>2. QED
      BY <1>2, <2>1, QuietStep DEF vars
  <1>3. QED
    BY <1>1, <1>2

\* The inductive invariant holds throughout.
LEMMA Invariance == Spec => []IInv
  BY Initially, Inductive, PTL DEF Spec

-----------------------------------------------------------------------------
(* Theorems *)

\* The variables of the case workflow have their types.
THEOREM CasesTypeCorrect == Spec => []TypeOK
  <1>1. IInv => TypeOK
    BY DEF IInv
  <1>2. QED
    BY <1>1, Invariance, PTL

\* A case in work always has somebody assigned to it.
THEOREM WorkHasAssigneeHolds == Spec => []WorkHasAssignee
  <1>1. IInv => WorkHasAssignee
    BY DEF IInv, CasesOK, RowOK, InWork, WorkHasAssignee
  <1>2. QED
    BY <1>1, Invariance, PTL

\* The resolution time is set exactly while the case is resolved or closed.
THEOREM ResolvedHasTimeHolds == Spec => []ResolvedHasTime
  <1>1. IInv => ResolvedHasTime
    BY DEF IInv, CasesOK, RowOK, ResolvedHasTime
  <1>2. QED
    BY <1>1, Invariance, PTL

\* The audit rows of a case, of any number, replay to its row.
THEOREM HistoryReplaysHolds == Spec => []HistoryReplays
  <1>1. IInv => HistoryReplays
    BY ToldIsToldIn DEF IInv, CasesOK, Replays, Shown, HistoryReplays, ToldColumns
  <1>2. QED
    BY <1>1, Invariance, PTL

\* A resolution before the first response is explained by a wait for the row.
THEOREM InversionNeedsWaitHolds == Spec => []InversionNeedsWait
  <1>1. IInv => InversionNeedsWait
    <2> SUFFICES ASSUME IInv, NEW c \in Cases, NoTime < kase[c].resolved_at,
                        kase[c].resolved_at < kase[c].first_response_at
                 PROVE  \E i, j \in 1..Len(history[c]) :
                          /\ i < j
                          /\ Records(history[c][i], "responded")
                          /\ Records(history[c][j], "resolved")
                          /\ history[c][j].now < history[c][i].at
      BY DEF InversionNeedsWait
    <2>1. /\ kase[c].resolved_at \in Nat /\ kase[c].first_response_at \in Nat
          /\ history[c] \in Seq(AuditRow)
      BY DEF IInv, TypeOK, Row
    <2>2. kase[c].resolved_at # NoTime /\ kase[c].first_response_at # NoTime
      BY <2>1 DEF NoTime
    <2>3. PICK j \in 1..Len(history[c]) :
            /\ Resolved(history[c][j], kase[c].resolved_at)
            /\ \E i \in 1..Len(history[c]) :
                  i < j /\ Responded(history[c][i], kase[c].first_response_at)
      BY <2>2 DEF IInv, CasesOK, Timed
    <2>4. PICK i \in 1..Len(history[c]) :
            i < j /\ Responded(history[c][i], kase[c].first_response_at)
      BY <2>3
    <2>5. history[c][i].at \in Nat
      <3>1. history[c][i] \in AuditRow
        BY <2>1
      <3>2. QED
        BY <3>1 DEF AuditRow
    <2>6. history[c][j].now < history[c][i].at
      BY <2>1, <2>3, <2>4, <2>5 DEF Resolved, Responded
    <2>7. QED
      BY <2>3, <2>4, <2>6 DEF Resolved, Responded
  <1>2. QED
    BY <1>1, Invariance, PTL

\* What a step does to the cases it does not leave alone.
LEMMA StepIsLawful ==
    ASSUME IInv, [Next]_vars, NEW c \in Cases
    PROVE  \/ kase'[c] = kase[c]
           \/ \E entry : /\ Lawful(kase[c], kase'[c], entry)
                         /\ history'[c][Len(history'[c])] = entry
  <1>1. CASE UNCHANGED kase
    BY <1>1
  <1>2. CASE \E d \in Cases : WriteStep(d)
    <2>1. PICK d \in Cases : WriteStep(d)
      BY <1>2
    <2>2. PICK row, entry : Fits(kase[d], row, entry) /\ Writes(d, row, entry)
      BY <2>1, WriteStepFits DEF WritesFitting
    <2>3. /\ kase' = [kase EXCEPT ![d] = row]
          /\ history' = [history EXCEPT ![d] = Append(history[d], entry)]
          /\ history[d] \in Seq(AuditRow) /\ entry \in AuditRow
          /\ Lawful(kase[d], row, entry)
      BY <2>2 DEF Writes, Fits, IInv, TypeOK
    <2>4. CASE c = d
      <3>1. kase'[c] = row /\ history'[c] = Append(history[c], entry)
        BY <2>3, <2>4 DEF IInv, TypeOK
      <3>2. history'[c][Len(history'[c])] = entry
        BY <2>3, <2>4, <3>1
      <3>3. QED
        BY <2>3, <2>4, <3>1, <3>2
    <2>5. CASE c # d
      BY <2>3, <2>5 DEF IInv, TypeOK
    <2>6. QED
      BY <2>4, <2>5
  <1>3. QED
    BY <1>1, <1>2, StepCases DEF vars

\* A case moves along STATUS_TRANSITIONS and keeps its first response.
THEOREM LifecycleHolds == Spec => LifecycleFollowsGraph
  <1>1. IInv /\ [Next]_vars =>
          [\A c \in Cases :
              kase[c].status # "absent" =>
                /\ kase'[c].status \in {kase[c].status} \cup Transitions[kase[c].status]
                /\ kase[c].first_response_at # NoTime =>
                      kase'[c].first_response_at = kase[c].first_response_at]_vars
    BY StepIsLawful DEF Lawful
  <1>2. QED
    BY <1>1, Invariance, PTL DEF Spec, LifecycleFollowsGraph

\* An escalation is undone only by an edit that names a severity.
THEOREM EscalationHolds == Spec => EscalationSticks
  <1>1. IInv /\ [Next]_vars =>
          [\A c \in Cases :
              kase[c].severity = "critical" /\ kase'[c].severity # "critical" =>
                history'[c][Len(history'[c])].named]_vars
    BY StepIsLawful DEF Lawful
  <1>2. QED
    BY <1>1, Invariance, PTL DEF Spec, EscalationSticks
=============================================================================
