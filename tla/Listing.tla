-------------------------------- MODULE Listing --------------------------------
(***************************************************************************)
(* The listings of one owner's resolutions, while calls create and save    *)
(* them (list_open_owned and list_recent_owned of                          *)
(* src/src/closeloop/repository.py and dynamodb_repository.py, asked by    *)
(* lifecycle.py).  SQL answers with one statement.  DynamoDB is paged      *)
(* through in the order of identifiers and nothing isolates one item from  *)
(* the next, so it is read item by item here; the service filters, sorts   *)
(* and cuts what was read.                                                 *)
(*                                                                         *)
(* A customer asks for the open resolutions and then for the recent ones.  *)
(* A record that does not decode is one whose last look was judged         *)
(* uncorrelated (RecordContract, Decodes); it is open, and stays as it is. *)
(***************************************************************************)
EXTENDS Integers, FiniteSets, SequencesExt

CONSTANTS
  NumRecords,       \* resolutions the owner may have
  Limit,            \* how many a listing may return
  MaxTime,          \* bound of the model: ticks of the clock
  Delay             \* ticks from reading the clock to the write that uses it

ASSUME SizeAssumption == NumRecords \in Nat /\ Limit \in Nat \ {0}
ASSUME ClockAssumption == MaxTime \in Nat /\ Delay \in Nat

VARIABLES
  table,            \* the records of the owner, by identifier
  now,              \* the clock
  backend,          \* which repository is configured
  reader,           \* the listing in progress: what it asks for, where it is
  answers,          \* what each listing said
  past,             \* what each record has been since this listing began
  known             \* the records there were when the first listing began

vars == <<table, now, backend, reader, answers, past, known>>

Ids == 1..NumRecords
Kinds == {"open", "recent"}
Absent == [state |-> "absent", created |-> 0, updated |-> 0]

\* What a listing says: nothing yet, an error, or the records it lists.
Pending == [said |-> "nothing", list |-> <<>>]
Failed == [said |-> "error", list |-> <<>>]
List(list) == [said |-> "list", list |-> list]

Entry(i, row) == [id |-> i, row |-> row]

(***************************************************************************)
(* What a listing is about, and its order                                  *)
(***************************************************************************)
\* Slip: the open listing is not filtered.
AnyRecord(kind, row) == IF kind = "open" THEN row # Absent ELSE row.state = "final"

\* Slip: a record that does not decode is passed over.
DecodableOnly(kind, row) == row.state = (IF kind = "open" THEN "open" ELSE "final")

Belongs(kind, row) ==
  IF kind = "open" THEN row.state \in {"open", "unreadable"} ELSE row.state = "final"

\* The oldest first, or the one changed last first.
Before(kind, a, b) == IF kind = "open" THEN a.created < b.created ELSE a.updated > b.updated

\* DynamoDB's records are sorted by identifier where the times are the same.
SortsBefore(kind, a, b) ==
  \/ Before(kind, a.row, b.row)
  \/ ~Before(kind, b.row, a.row) /\ (IF kind = "open" THEN a.id < b.id ELSE a.id > b.id)

Cut(list) == SubSeq(list, 1, IF Len(list) < Limit THEN Len(list) ELSE Limit)

\* SQL leaves the order of equal times open.
Sorted(kind, list) ==
  \A i, j \in DOMAIN list : i < j =>
    IF backend = "sql" THEN ~Before(kind, list[j].row, list[i].row)
    ELSE SortsBefore(kind, list[i], list[j])

Orders(kind, entries) == {list \in SetToSeqs(entries) : Sorted(kind, list)}

(***************************************************************************)
(* Calls that change a record (lifecycle.py)                               *)
(***************************************************************************)
WriteTimes == {t \in 0..now : now - t <= Delay}

Write(i, row) ==
  /\ table' = [table EXCEPT ![i] = row]
  /\ past' = IF reader.busy THEN [past EXCEPT ![i] = @ \cup {row}] ELSE past
  /\ UNCHANGED <<now, backend, reader, answers, known>>

Create(i) ==
  /\ table[i] = Absent
  /\ \E t \in WriteTimes : Write(i, [state |-> "open", created |-> t, updated |-> 0])

\* A save that leaves the record open and readable changes nothing a listing
\* looks at, and the time of its change matters once it is final.
Save(i) ==
  /\ table[i].state = "open"
  /\ \/ Write(i, [table[i] EXCEPT !.state = "unreadable"])
     \/ \E t \in WriteTimes :
          t >= table[i].created /\ Write(i, [table[i] EXCEPT !.state = "final", !.updated = t])

Tick ==
  /\ now < MaxTime
  /\ now' = now + 1
  /\ UNCHANGED <<table, backend, reader, answers, past, known>>

(***************************************************************************)
(* A listing                                                               *)
(***************************************************************************)
Idle(kind) == [kind |-> kind, busy |-> FALSE, cursor |-> 0, found |-> {}]

Begin ==
  /\ ~reader.busy /\ answers[reader.kind] = Pending
  /\ reader' = [reader EXCEPT !.busy = TRUE]
  /\ past' = [i \in Ids |-> {table[i]}]
  /\ known' = IF reader.kind = "open" THEN {i \in Ids : table[i] # Absent} ELSE known
  /\ UNCHANGED <<table, now, backend, answers>>

Answer(answer) ==
  /\ answers' = [answers EXCEPT ![reader.kind] = answer]
  /\ reader' = [reader EXCEPT !.busy = FALSE]
  /\ UNCHANGED <<table, now, backend, past, known>>

\* The rows are selected, ordered and cut by the database, then decoded.
SqlList ==
  /\ reader.busy /\ backend = "sql"
  /\ LET rows == {Entry(i, table[i]) : i \in {j \in Ids : Belongs(reader.kind, table[j])}}
     IN \E order \in Orders(reader.kind, rows) :
          LET list == Cut(order) IN
          Answer(IF \E k \in DOMAIN list : list[k].row.state = "unreadable" THEN Failed ELSE List(list))

\* Every item is decoded, also those that do not belong into the listing.
ReadItem ==
  LET i == reader.cursor + 1 IN
  /\ reader.busy /\ backend = "dynamodb" /\ i \in Ids
  /\ IF table[i].state = "unreadable" THEN Answer(Failed)
     ELSE /\ reader' = [reader EXCEPT
               !.cursor = i,
               !.found = IF Belongs(reader.kind, table[i])
                         THEN @ \cup {Entry(i, table[i])} ELSE @]
          /\ UNCHANGED <<table, now, backend, answers, past, known>>

\* Slip: reading stops when there are enough records to return.
EnoughRead == reader.cursor = NumRecords \/ Cardinality(reader.found) >= Limit
AllRead == reader.cursor = NumRecords

SortAndCut ==
  /\ reader.busy /\ backend = "dynamodb" /\ AllRead
  /\ \E order \in Orders(reader.kind, reader.found) : Answer(List(Cut(order)))

\* A statement or a page fails; the listing is answered with an error.
StorageFails == reader.busy /\ Answer(Failed)

\* The customer goes on to the recent resolutions.
AskForRecent ==
  /\ reader.kind = "open" /\ ~reader.busy /\ answers["open"] # Pending
  /\ reader' = Idle("recent")
  /\ past' = [i \in Ids |-> {}]
  /\ UNCHANGED <<table, now, backend, answers, known>>

Init ==
  /\ table = [i \in Ids |-> Absent]
  /\ now = 0
  /\ backend \in {"sql", "dynamodb"}
  /\ reader = Idle("open")
  /\ answers = [kind \in Kinds |-> Pending]
  /\ past = [i \in Ids |-> {}]
  /\ known = {}

\* Bound of the model: what is written after both answers matters to nobody.
Asking == answers["recent"] = Pending

Next ==
  \/ Asking /\ (Tick \/ \E i \in Ids : Create(i) \/ Save(i))
  \/ Begin \/ SqlList \/ ReadItem \/ SortAndCut \/ StorageFails \/ AskForRecent

Spec == Init /\ [][Next]_vars

(***************************************************************************)
(* Properties                                                              *)
(***************************************************************************)
Answered(kind) == answers[kind].said = "list"
Listed(kind, i) == \E k \in DOMAIN answers[kind].list : answers[kind].list[k].id = i
JustAnswered == ~reader.busy /\ Answered(reader.kind)

\* A record is what a listing is asked for: unresolved, or an outcome.
AsAsked(kind, row) == row # Absent /\ (row.state = "final" <=> kind = "recent")

\* What is listed as unresolved was unresolved, and what is listed as an
\* outcome was one, at some moment of the listing, and nothing is listed twice
\* (docs/architecture.md, "unresolved work only").
ListedAsItWas ==
  JustAnswered =>
    LET list == answers[reader.kind].list IN
    /\ \A k \in DOMAIN list :
         list[k].row \in past[list[k].id] /\ AsAsked(reader.kind, list[k].row)
    /\ \A k, l \in DOMAIN list : list[k].id = list[l].id => k = l

\* A record that belonged into the listing all the while is listed, whatever
\* was written meanwhile, unless Limit others come before it or at the same
\* time (list_open_owned, list_recent_owned).
NothingIsOverlooked ==
  JustAnswered =>
    LET kind == reader.kind  list == answers[kind].list IN
    \A i \in Ids :
      (\A row \in past[i] : AsAsked(kind, row))
        => \/ Listed(kind, i)
           \/ /\ Len(list) = Limit
              /\ \A k \in DOMAIN list : \E row \in past[i] : ~Before(kind, row, list[k].row)

\* Whoever asks for the open resolutions and then for the recent ones is told
\* of every one there was, although it may become final in between or during
\* either listing: it is in one of them, unless that one is full.
NoneFallsBetween ==
  (Answered("open") /\ Answered("recent")) =>
    \A i \in known :
      \/ Listed("open", i) \/ Listed("recent", i)
      \/ \E kind \in Kinds : Len(answers[kind].list) = Limit
=============================================================================
