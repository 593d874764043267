----------------------------- MODULE ListingProofs -----------------------------
(***************************************************************************)
(* What a listing may leave out, for any number of records, limit and      *)
(* clock.  The argument is in two parts.  Whatever was collected, cutting  *)
(* a sorted list of it is right (CutIsRight).  What is collected while     *)
(* records change is what CollectedInv says: every record that was read    *)
(* was so since the listing began, and one that belonged all the while and *)
(* was passed by is among them.  The two listings together miss nothing    *)
(* because an outcome is for ever: a record that the first one did not     *)
(* list, and that did not belong all the while, is final when the second   *)
(* one begins (BetweenInv).                                                *)
(***************************************************************************)
EXTENDS Listing, FiniteSetTheorems, FunctionTheorems, TLAPS

(***************************************************************************)
(* The inductive invariant                                                 *)
(***************************************************************************)
Row == {Absent} \cup [state: {"open", "unreadable", "final"}, created: Nat, updated: Nat]
Item == [id: Ids, row: Row]

TypeOK ==
  /\ table \in [Ids -> Row]
  /\ now \in Nat
  /\ backend \in {"sql", "dynamodb"}
  /\ reader \in [kind: Kinds, busy: BOOLEAN, cursor: 0..NumRecords, found: SUBSET Item]
  /\ answers \in [Kinds -> [said: {"nothing", "error", "list"}, list: Seq(Item)]]
  /\ past \in [Ids -> SUBSET Row]
  /\ known \in SUBSET Ids

\* The questions are asked one after the other, and each once.
TurnsInv ==
  /\ reader.kind = "open" => answers["recent"] = Pending
  /\ reader.busy => answers[reader.kind] = Pending
  /\ (~reader.busy /\ answers[reader.kind] = Pending) => reader.cursor = 0 /\ reader.found = {}

\* The past reaches to the present while a listing is made, and outcomes stay.
PastInv ==
  /\ reader.busy => \A i \in Ids : table[i] \in past[i]
  /\ \A i \in Ids : \A row \in past[i] : row.state = "final" => table[i] = row

\* No two entries are about the same record.
Distinct(entries) == \A e, f \in entries : e.id = f.id => e = f

\* What the entries say was so.
Witnessed(kind, entries, seen) ==
  \A e \in entries : e.row \in seen[e.id] /\ AsAsked(kind, e.row)

\* The records that belonged into the listing all the while.
Lasting(kind, seen) == {i \in Ids : \A row \in seen[i] : AsAsked(kind, row)}

Covers(entries, ids) == \A i \in ids : \E e \in entries : e.id = i

\* What was read so far.
CollectedInv ==
  reader.busy =>
    /\ \A e \in reader.found : e.id <= reader.cursor
    /\ Distinct(reader.found)
    /\ Witnessed(reader.kind, reader.found, past)
    /\ Covers(reader.found, Lasting(reader.kind, past) \cap 1..reader.cursor)

\* What the open listing did not list is final when the recent one is asked for.
BetweenInv ==
  /\ \A i \in known : table[i] # Absent /\ Absent \notin past[i]
  /\ (reader.kind = "recent" /\ Answered("open")) =>
       \A i \in known :
         \/ Listed("open", i)
         \/ Len(answers["open"].list) = Limit
         \/ table[i].state = "final" /\ \A row \in past[i] : row.state = "final"

ListingInv ==
  /\ TypeOK /\ TurnsInv /\ PastInv /\ CollectedInv /\ BetweenInv
  /\ ListedAsItWas /\ NothingIsOverlooked

(***************************************************************************)
(* The operators                                                           *)
(***************************************************************************)
LEMMA IdsFinite ==
  /\ IsFiniteSet(Ids) /\ Ids \subseteq Nat
BY SizeAssumption, FS_Interval DEF Ids

\* Entries about different records are finitely many.
LEMMA DistinctFinite ==
  ASSUME NEW found \in SUBSET Item, Distinct(found)
  PROVE  IsFiniteSet(found)
<1> DEFINE idOf == [e \in found |-> e.id]
<1>1. idOf \in [found -> Ids]
  BY DEF Item
<1>2. \A e, f \in found : idOf[e] = idOf[f] => e = f
  BY DEF Distinct
<1>3. idOf \in Injection(found, Ids)
  BY <1>1, <1>2 DEF Injection, IsInjective
<1> QED BY <1>3, IdsFinite, FS_Injection

\* A record belongs into a listing when it is what is asked for
\* (list_open_owned, list_recent_owned).
LEMMA BelongsAsAsked ==
  ASSUME NEW kind \in Kinds, NEW row \in Row
  PROVE  Belongs(kind, row) <=> AsAsked(kind, row)
BY DEF Belongs, AsAsked, Row, Absent, Kinds

\* Either order of equal times leaves the earlier ones first.
LEMMA SortedKeepsBefore ==
  ASSUME NEW kind \in Kinds, NEW order \in Seq(Item), Sorted(kind, order),
         NEW i \in DOMAIN order, NEW j \in DOMAIN order, i < j
  PROVE  ~Before(kind, order[j].row, order[i].row)
<1>1. /\ order[i].row.created \in Int /\ order[i].row.updated \in Int
      /\ order[j].row.created \in Int /\ order[j].row.updated \in Int
  <2>1. order[i] \in Item /\ order[j] \in Item
    OBVIOUS
  <2>2. \A e \in Item : e.row.created \in Int /\ e.row.updated \in Int
    BY DEF Item, Row, Absent
  <2> QED BY <2>1, <2>2
<1>2. CASE backend = "sql"
  BY <1>2 DEF Sorted
<1>3. CASE backend # "sql"
  <2>1. SortsBefore(kind, order[i], order[j])
    BY <1>3 DEF Sorted
  <2> QED BY <1>1, <2>1 DEF SortsBefore, Before
<1> QED BY <1>2, <1>3

\* An order of some entries lists each of them once.
LEMMA OrderListsEach ==
  ASSUME NEW kind, NEW found \in SUBSET Item, IsFiniteSet(found),
         NEW order \in Orders(kind, found)
  PROVE  /\ order \in Seq(Item) /\ Sorted(kind, order)
         /\ \A i \in DOMAIN order : order[i] \in found
         /\ \A i, j \in DOMAIN order : order[i] = order[j] => i = j
         /\ \A e \in found : \E i \in DOMAIN order : order[i] = e
<1> DEFINE n == Cardinality(found)
<1>1. n \in Nat
  BY FS_CardinalityType
<1>2. /\ order \in [1..n -> found] /\ Sorted(kind, order)
      /\ \A i, j \in 1..n : i # j => order[i] # order[j]
  BY DEF Orders, SetToSeqs
<1>3. IsFiniteSet(1..n) /\ Cardinality(1..n) = n
  BY <1>1, FS_Interval
<1> HIDE DEF n
<1>4. order \in Seq(Item)
  BY <1>1, <1>2
<1>5. order \in Injection(1..n, found)
  BY <1>2 DEF Injection, IsInjective
<1>6. order \in Surjection(1..n, found)
  BY <1>3, <1>5, FS_Injection DEF n
<1>7. \A e \in found : \E i \in 1..n : order[i] = e
  BY <1>6 DEF Surjection
<1> QED BY <1>2, <1>4, <1>7

\* The first of a list, at most Limit.
LEMMA CutTakesFirst ==
  ASSUME NEW order \in Seq(Item)
  PROVE  LET list == Cut(order) IN
         /\ list \in Seq(Item)
         /\ Len(list) = (IF Len(order) < Limit THEN Len(order) ELSE Limit)
         /\ \A k \in DOMAIN list : k \in DOMAIN order /\ list[k] = order[k]
BY SizeAssumption DEF Cut

\* What is answered from collected entries is right: it was so, each record is
\* listed once, and what belonged all the while is listed or preceded by Limit
\* others.
LEMMA CutIsRight ==
  ASSUME NEW kind \in Kinds, NEW found \in SUBSET Item, NEW seen \in [Ids -> SUBSET Row],
         Distinct(found), Witnessed(kind, found, seen), Covers(found, Lasting(kind, seen)),
         NEW order \in Orders(kind, found)
  PROVE  LET list == Cut(order) IN
         /\ list \in Seq(Item)
         /\ \A k \in DOMAIN list : list[k] \in found
         /\ \A k, l \in DOMAIN list : list[k].id = list[l].id => k = l
         /\ \A i \in Lasting(kind, seen) :
              \/ \E k \in DOMAIN list : list[k].id = i
              \/ /\ Len(list) = Limit
                 /\ \A k \in DOMAIN list : \E row \in seen[i] : ~Before(kind, row, list[k].row)
<1> DEFINE list == Cut(order)
<1>1. IsFiniteSet(found)
  BY DistinctFinite
<1>2. /\ order \in Seq(Item) /\ Sorted(kind, order)
      /\ \A i \in DOMAIN order : order[i] \in found
      /\ \A i, j \in DOMAIN order : order[i] = order[j] => i = j
      /\ \A e \in found : \E i \in DOMAIN order : order[i] = e
  BY <1>1, OrderListsEach
<1>3. /\ list \in Seq(Item)
      /\ Len(list) = (IF Len(order) < Limit THEN Len(order) ELSE Limit)
      /\ \A k \in DOMAIN list : k \in DOMAIN order /\ list[k] = order[k]
  BY <1>2, CutTakesFirst
<1> HIDE DEF list
<1>4. \A k \in DOMAIN list : list[k] \in found
  BY <1>2, <1>3
<1>5. \A k, l \in DOMAIN list : list[k].id = list[l].id => k = l
  BY <1>2, <1>3, <1>4 DEF Distinct
<1>6. ASSUME NEW i \in Lasting(kind, seen), ~\E k \in DOMAIN list : list[k].id = i
      PROVE  /\ Len(list) = Limit
             /\ \A k \in DOMAIN list : \E row \in seen[i] : ~Before(kind, row, list[k].row)
  <2>1. PICK p \in DOMAIN order : order[p].id = i
    BY <1>2 DEF Covers
  <2>2. p \in 1..Len(order) /\ DOMAIN list = 1..Len(list) /\ Len(list) \in Nat
    BY <1>2, <1>3, <2>1
  <2>3. p \notin DOMAIN list
    BY <1>3, <1>6, <2>1
  <2>4. Len(list) = Limit /\ \A k \in DOMAIN list : k < p
    BY <1>2, <1>3, <2>2, <2>3, SizeAssumption
  <2>5. order[p].row \in seen[i]
    BY <1>2, <2>1 DEF Witnessed
  <2>6. ASSUME NEW k \in DOMAIN list
        PROVE  ~Before(kind, order[p].row, list[k].row)
    BY <1>2, <1>3, <2>1, <2>4, SortedKeepsBefore
  <2> QED BY <2>4, <2>5, <2>6
<1> QED BY <1>3, <1>4, <1>5, <1>6 DEF list

(***************************************************************************)
(* The steps                                                               *)
(***************************************************************************)
\* An answer leaves what the other listing said.
LEMMA AnswerKeepsInv ==
  ASSUME ListingInv, reader.busy,
         NEW answer \in [said: {"error", "list"}, list: Seq(Item)], Answer(answer),
         answer.said = "list" =>
           /\ \A k \in DOMAIN answer.list :
                /\ answer.list[k].row \in past[answer.list[k].id]
                /\ AsAsked(reader.kind, answer.list[k].row)
           /\ \A k, l \in DOMAIN answer.list : answer.list[k].id = answer.list[l].id => k = l
           /\ \A i \in Lasting(reader.kind, past) :
                \/ \E k \in DOMAIN answer.list : answer.list[k].id = i
                \/ /\ Len(answer.list) = Limit
                   /\ \A k \in DOMAIN answer.list :
                        \E row \in past[i] : ~Before(reader.kind, row, answer.list[k].row)
  PROVE  ListingInv'
<1> USE DEF ListingInv
<1>1. TypeOK'
  BY DEF TypeOK, Answer
<1>2. /\ reader'.kind = reader.kind /\ ~reader'.busy /\ reader.kind \in Kinds
      /\ answers' = [answers EXCEPT ![reader.kind] = answer]
      /\ answers'[reader.kind] = answer /\ answer # Pending
      /\ UNCHANGED <<table, now, backend, past, known>>
  BY DEF TypeOK, Answer, Pending
<1>3. \A kind \in Kinds \ {reader.kind} : answers'[kind] = answers[kind]
  BY <1>2 DEF TypeOK
<1>4. TurnsInv'
  BY <1>2, <1>3 DEF TurnsInv, Kinds
<1>5. PastInv' /\ CollectedInv'
  BY <1>2 DEF PastInv, CollectedInv
<1>6. BetweenInv'
  <2>1. reader.kind = "recent" => answers'["open"] = answers["open"]
    BY <1>3 DEF Kinds
  <2> QED BY <1>2, <2>1 DEF BetweenInv, Answered, Listed
<1>7. ListedAsItWas'
  BY <1>2 DEF ListedAsItWas, JustAnswered, Answered
<1>8. NothingIsOverlooked'
  <2> SUFFICES ASSUME answer.said = "list", NEW i \in Ids,
                      \A row \in past[i] : AsAsked(reader.kind, row)
               PROVE  \/ \E k \in DOMAIN answer.list : answer.list[k].id = i
                      \/ /\ Len(answer.list) = Limit
                         /\ \A k \in DOMAIN answer.list :
                              \E row \in past[i] : ~Before(reader.kind, row, answer.list[k].row)
    BY <1>2 DEF NothingIsOverlooked, JustAnswered, Answered, Listed
  <2>1. i \in Lasting(reader.kind, past)
    BY DEF Lasting
  <2> QED BY <2>1
<1> QED BY <1>1, <1>4, <1>5, <1>6, <1>7, <1>8

\* Any answer that is an error is right.
LEMMA FailedKeepsInv ==
  ASSUME ListingInv, reader.busy, Answer(Failed)
  PROVE  ListingInv'
<1>1. Failed \in [said: {"error", "list"}, list: Seq(Item)] /\ Failed.said # "list"
  BY DEF Failed
<1> HIDE DEF Failed
<1> QED BY <1>1, AnswerKeepsInv

\* A list that was cut from what was collected is right.
LEMMA ListKeepsInv ==
  ASSUME ListingInv, reader.busy, NEW found \in SUBSET Item,
         Distinct(found), Witnessed(reader.kind, found, past),
         Covers(found, Lasting(reader.kind, past)),
         NEW order \in Orders(reader.kind, found), Answer(List(Cut(order)))
  PROVE  ListingInv'
<1> DEFINE list == Cut(order)
           answer == List(list)
<1>1. reader.kind \in Kinds /\ past \in [Ids -> SUBSET Row]
  BY DEF ListingInv, TypeOK
<1>2. /\ list \in Seq(Item)
      /\ \A k \in DOMAIN list : list[k] \in found
      /\ \A k, l \in DOMAIN list : list[k].id = list[l].id => k = l
      /\ \A i \in Lasting(reader.kind, past) :
           \/ \E k \in DOMAIN list : list[k].id = i
           \/ /\ Len(list) = Limit
              /\ \A k \in DOMAIN list :
                   \E row \in past[i] : ~Before(reader.kind, row, list[k].row)
  BY <1>1, CutIsRight
<1> HIDE DEF list
<1>3. answer \in [said: {"error", "list"}, list: Seq(Item)] /\ answer.list = list
  BY <1>2 DEF List
<1>4. \A k \in DOMAIN list : /\ list[k].row \in past[list[k].id]
                             /\ AsAsked(reader.kind, list[k].row)
  BY <1>2 DEF Witnessed
<1>5. Answer(answer)
  BY DEF list
<1> HIDE DEF answer
<1> QED BY <1>2, <1>3, <1>4, <1>5, AnswerKeepsInv, ZenonT(30)

\* SQL: one statement sees every record as it is now.
LEMMA SqlListKeepsInv ==
  ASSUME ListingInv, SqlList
  PROVE  ListingInv'
<1> DEFINE kind == reader.kind
           rows == {Entry(i, table[i]) : i \in {j \in Ids : Belongs(kind, table[j])}}
<1>1. /\ kind \in Kinds /\ table \in [Ids -> Row] /\ reader.busy
      /\ \A i \in Ids : table[i] \in past[i]
  BY DEF ListingInv, TypeOK, PastInv, SqlList
<1>2. \A e \in rows : e \in Item /\ e.row = table[e.id] /\ Belongs(kind, e.row)
  BY <1>1 DEF Entry, Item
<1>3. \A i \in Ids : Belongs(kind, table[i]) => Entry(i, table[i]) \in rows /\ Entry(i, table[i]).id = i
  BY DEF Entry
<1>4. PICK order \in Orders(kind, rows) : Answer(Failed) \/ Answer(List(Cut(order)))
  BY DEF SqlList
<1> HIDE DEF rows
<1>5. Distinct(rows)
  BY <1>2 DEF Distinct, Item
<1>6. Witnessed(kind, rows, past)
  BY <1>1, <1>2, BelongsAsAsked DEF Witnessed, Item
<1>7. Covers(rows, Lasting(kind, past))
  BY <1>1, <1>3, BelongsAsAsked DEF Covers, Lasting
<1>8. CASE Answer(Failed)
  BY <1>1, <1>8, FailedKeepsInv
<1>9. CASE Answer(List(Cut(order)))
  BY <1>1, <1>2, <1>5, <1>6, <1>7, <1>9, ListKeepsInv
<1> QED BY <1>4, <1>8, <1>9

\* DynamoDB: what was read is what was collected.
LEMMA SortAndCutKeepsInv ==
  ASSUME ListingInv, SortAndCut
  PROVE  ListingInv'
<1>1. /\ reader.busy /\ reader.found \in SUBSET Item
      /\ Distinct(reader.found) /\ Witnessed(reader.kind, reader.found, past)
      /\ reader.cursor = NumRecords
  BY DEF ListingInv, TypeOK, CollectedInv, SortAndCut, AllRead
<1>2. Lasting(reader.kind, past) \cap 1..reader.cursor = Lasting(reader.kind, past)
  BY <1>1 DEF Lasting, Ids
<1>3. Covers(reader.found, Lasting(reader.kind, past))
  BY <1>1, <1>2 DEF ListingInv, CollectedInv
<1>4. PICK order \in Orders(reader.kind, reader.found) : Answer(List(Cut(order)))
  BY DEF SortAndCut
<1> QED BY <1>1, <1>3, <1>4, ListKeepsInv

\* One more item is read; an item that does not decode ends the listing.
LEMMA ReadItemKeepsInv ==
  ASSUME ListingInv, ReadItem
  PROVE  ListingInv'
<1> USE DEF ListingInv
<1> DEFINE i == reader.cursor + 1
           kind == reader.kind
<1>1. /\ reader.busy /\ i \in Ids /\ kind \in Kinds /\ reader.cursor \in 0..NumRecords
      /\ table[i] \in Row /\ table[i] \in past[i] /\ reader.found \in SUBSET Item
  BY DEF ReadItem, TypeOK, PastInv
<1>2. CASE table[i].state = "unreadable"
  <2>1. Answer(Failed)
    BY <1>2 DEF ReadItem
  <2> QED BY <1>1, <2>1, FailedKeepsInv
<1>3. CASE table[i].state # "unreadable"
  <2> DEFINE entry == Entry(i, table[i])
             found == IF Belongs(kind, table[i]) THEN reader.found \cup {entry} ELSE reader.found
  <2>1. /\ reader' = [reader EXCEPT !.cursor = i, !.found = found]
        /\ UNCHANGED <<table, now, backend, answers, past, known>>
    BY <1>3 DEF ReadItem
  <2>2. entry \in Item /\ entry.id = i /\ entry.row = table[i]
    BY <1>1 DEF Entry, Item
  <2> HIDE DEF entry
  <2>3. found \in SUBSET Item
    BY <1>1, <2>2
  <2>4. \A e \in reader.found : e.id <= reader.cursor
    BY <1>1 DEF CollectedInv
  <2>5. i \in Nat /\ i > reader.cursor
    BY <1>1
  <2>6. \A e \in found : e.id <= i
    <3>1. \A e \in reader.found : e.id \in Int
      BY <1>1 DEF Item, Ids
    <3> QED BY <1>1, <2>2, <2>4, <3>1
  <2>7. Distinct(found)
    <3>1. Distinct(reader.found)
      BY <1>1 DEF CollectedInv
    <3>2. \A e \in reader.found : e.id # i
      BY <1>1, <2>4
    <3> QED BY <2>2, <3>1, <3>2 DEF Distinct
  <2>8. Witnessed(kind, found, past)
    <3>1. Witnessed(kind, reader.found, past)
      BY <1>1 DEF CollectedInv
    <3> QED BY <1>1, <2>2, <3>1, BelongsAsAsked DEF Witnessed
  <2>9. Covers(found, Lasting(kind, past) \cap 1..i)
    <3>1. Covers(reader.found, Lasting(kind, past) \cap 1..reader.cursor)
      BY <1>1 DEF CollectedInv
    <3>2. \A j \in 1..i : j = i \/ j \in 1..reader.cursor
      BY <1>1
    <3>3. i \in Lasting(kind, past) => Belongs(kind, table[i])
      BY <1>1, BelongsAsAsked DEF Lasting
    <3> QED BY <2>2, <3>1, <3>2, <3>3 DEF Covers
  <2> HIDE DEF found
  <2>10. /\ reader'.kind = kind /\ reader'.busy = reader.busy
         /\ reader'.cursor = i /\ reader'.found = found
    BY <2>1 DEF TypeOK
  <2>11. TypeOK'
    <3>1. i \in 0..NumRecords
      BY <1>1 DEF Ids
    <3>2. reader' \in [kind: Kinds, busy: BOOLEAN, cursor: 0..NumRecords, found: SUBSET Item]
      BY <2>1, <2>3, <3>1 DEF TypeOK
    <3> QED BY <2>1, <3>2 DEF TypeOK
  <2>12. TurnsInv' /\ PastInv' /\ BetweenInv'
    BY <1>1, <2>1, <2>10 DEF TurnsInv, PastInv, BetweenInv, Answered, Listed
  <2>13. CollectedInv'
    BY <2>1, <2>6, <2>7, <2>8, <2>9, <2>10 DEF CollectedInv
  <2>14. ListedAsItWas' /\ NothingIsOverlooked'
    BY <1>1, <2>10 DEF ListedAsItWas, NothingIsOverlooked, JustAnswered
  <2> QED BY <2>11, <2>12, <2>13, <2>14
<1> QED BY <1>2, <1>3

\* A listing begins: nothing is read yet, and its past is the present.
LEMMA BeginKeepsInv ==
  ASSUME ListingInv, Begin
  PROVE  ListingInv'
<1> USE DEF ListingInv
<1>1. /\ ~reader.busy /\ answers[reader.kind] = Pending
      /\ reader.cursor = 0 /\ reader.found = {} /\ reader.kind \in Kinds
      /\ UNCHANGED <<table, now, backend, answers>>
  BY DEF Begin, TurnsInv, TypeOK
<1>2. /\ reader'.kind = reader.kind /\ reader'.busy
      /\ reader'.cursor = 0 /\ reader'.found = {}
  BY <1>1 DEF Begin, TypeOK
<1>3. past' = [i \in Ids |-> {table[i]}]
  BY DEF Begin
<1>4. known' = IF reader.kind = "open" THEN {i \in Ids : table[i] # Absent} ELSE known
  BY DEF Begin
<1>5. TypeOK'
  <2>1. reader' \in [kind: Kinds, busy: BOOLEAN, cursor: 0..NumRecords, found: SUBSET Item]
    BY DEF TypeOK, Begin
  <2>2. past' \in [Ids -> SUBSET Row]
    BY <1>3 DEF TypeOK
  <2>3. known' \in SUBSET Ids
    BY <1>4 DEF TypeOK
  <2> QED BY <1>1, <2>1, <2>2, <2>3 DEF TypeOK
<1>6. TurnsInv'
  BY <1>1, <1>2 DEF TurnsInv
<1>7. PastInv'
  BY <1>1, <1>3 DEF PastInv
<1>8. CollectedInv'
  BY <1>2 DEF CollectedInv, Distinct, Witnessed, Covers
<1>9. BetweenInv'
  <2>1. \A i \in known' : i \in Ids /\ table[i] # Absent
    BY <1>4 DEF BetweenInv, TypeOK
  <2>2. \A i \in known' : Absent \notin past'[i]
    BY <1>3, <2>1
  <2>3. CASE reader.kind = "recent"
    BY <1>1, <1>2, <1>3, <1>4, <2>1, <2>2, <2>3 DEF BetweenInv, Answered, Listed
  <2>4. CASE reader.kind # "recent"
    BY <1>1, <1>2, <2>1, <2>2, <2>4 DEF BetweenInv
  <2> QED BY <2>3, <2>4
<1>10. ListedAsItWas' /\ NothingIsOverlooked'
  BY <1>2 DEF ListedAsItWas, NothingIsOverlooked, JustAnswered
<1> QED BY <1>5, <1>6, <1>7, <1>8, <1>9, <1>10

\* Between the listings: what was open all the while was listed, or the list
\* was full; what was not is an outcome by now, and stays one.
LEMMA AskForRecentKeepsInv ==
  ASSUME ListingInv, AskForRecent
  PROVE  ListingInv'
<1> USE DEF ListingInv
<1>1. /\ reader.kind = "open" /\ ~reader.busy /\ answers["open"] # Pending
      /\ reader' = Idle("recent") /\ past' = [i \in Ids |-> {}]
      /\ UNCHANGED <<table, now, backend, answers, known>>
  BY DEF AskForRecent
<1>2. answers["recent"] = Pending
  BY <1>1 DEF TurnsInv
<1>3. /\ reader'.kind = "recent" /\ ~reader'.busy
      /\ reader'.cursor = 0 /\ reader'.found = {}
  BY <1>1 DEF Idle
<1>4. TypeOK'
  BY <1>1, SizeAssumption DEF TypeOK, Idle, Kinds
<1>5. TurnsInv' /\ PastInv' /\ CollectedInv'
  BY <1>1, <1>2, <1>3 DEF TurnsInv, PastInv, CollectedInv
<1>6. BetweenInv'
  <2>1. \A i \in known : i \in Ids /\ table[i] # Absent /\ past'[i] = {}
    BY <1>1 DEF BetweenInv, TypeOK
  <2>2. ASSUME Answered("open"), NEW i \in known
        PROVE  \/ Listed("open", i) \/ Len(answers["open"].list) = Limit
               \/ table[i].state = "final"
    <3>1. CASE \A row \in past[i] : AsAsked("open", row)
      BY <1>1, <2>1, <2>2, <3>1 DEF NothingIsOverlooked, JustAnswered
    <3>2. CASE ~\A row \in past[i] : AsAsked("open", row)
      <4>1. PICK row \in past[i] : ~AsAsked("open", row)
        BY <3>2
      <4>2. row # Absent
        BY <4>1 DEF BetweenInv
      <4>3. row.state = "final"
        BY <4>1, <4>2 DEF AsAsked
      <4> QED BY <2>1, <4>3 DEF PastInv
    <3> QED BY <3>1, <3>2
  <2> QED BY <1>1, <1>3, <2>1, <2>2 DEF BetweenInv, Answered, Listed
<1>7. ListedAsItWas' /\ NothingIsOverlooked'
  BY <1>1, <1>2, <1>3 DEF ListedAsItWas, NothingIsOverlooked, JustAnswered, Answered, Pending
<1> QED BY <1>4, <1>5, <1>6, <1>7

\* A record that is no outcome is created or saved, whatever a listing is at.
LEMMA WriteKeepsInv ==
  ASSUME ListingInv, NEW i \in Ids, NEW new \in Row \ {Absent},
         table[i].state # "final", Write(i, new)
  PROVE  ListingInv'
<1> USE DEF ListingInv
<1>1. /\ table' = [table EXCEPT ![i] = new]
      /\ past' = IF reader.busy THEN [past EXCEPT ![i] = @ \cup {new}] ELSE past
      /\ UNCHANGED <<now, backend, reader, answers, known>>
  BY DEF Write
<1>2. table \in [Ids -> Row] /\ past \in [Ids -> SUBSET Row]
  BY DEF TypeOK
<1>3. /\ table'[i] = new
      /\ \A j \in Ids \ {i} : table'[j] = table[j] /\ past'[j] = past[j]
      /\ past[i] \subseteq past'[i] /\ past'[i] \subseteq past[i] \cup {new}
      /\ reader.busy => new \in past'[i]
      /\ ~reader.busy => past' = past
  BY <1>1, <1>2
<1>4. TypeOK'
  BY <1>1, <1>2 DEF TypeOK
<1>5. TurnsInv'
  BY <1>1 DEF TurnsInv
<1>6. PastInv'
  <2>1. reader.busy => \A j \in Ids : table'[j] \in past'[j]
    BY <1>3 DEF PastInv
  <2>2. ASSUME NEW j \in Ids, NEW row \in past'[j], row.state = "final"
        PROVE  table'[j] = row
    <3>1. CASE j # i
      BY <1>3, <2>2, <3>1 DEF PastInv
    <3>2. CASE j = i
      <4>1. row \notin past[i]
        BY <2>2, <3>2 DEF PastInv
      <4> QED BY <1>3, <3>2, <4>1
    <3> QED BY <3>1, <3>2
  <2> QED BY <1>1, <2>1, <2>2 DEF PastInv
<1>7. CollectedInv'
  <2> SUFFICES ASSUME reader.busy
               PROVE  /\ Witnessed(reader.kind, reader.found, past')
                      /\ Covers(reader.found, Lasting(reader.kind, past') \cap 1..reader.cursor)
    BY <1>1 DEF CollectedInv
  <2>1. \A j \in Ids : past[j] \subseteq past'[j]
    BY <1>3
  <2>2. Lasting(reader.kind, past') \subseteq Lasting(reader.kind, past)
    BY <2>1 DEF Lasting
  <2>3. \A e \in reader.found : e.id \in Ids
    BY DEF TypeOK, Item
  <2> QED BY <2>1, <2>2, <2>3 DEF CollectedInv, Witnessed, Covers
<1>8. BetweenInv'
  <2>1. ASSUME NEW j \in known
        PROVE  /\ table'[j] # Absent /\ Absent \notin past'[j]
               /\ (table[j].state = "final" /\ \A row \in past[j] : row.state = "final") =>
                    (table'[j].state = "final" /\ \A row \in past'[j] : row.state = "final")
    <3>1. j \in Ids
      BY DEF TypeOK
    <3> QED BY <1>3, <3>1 DEF BetweenInv
  <2> QED BY <1>1, <2>1 DEF BetweenInv, Answered, Listed
<1>9. ListedAsItWas' /\ NothingIsOverlooked'
  BY <1>1, <1>3 DEF ListedAsItWas, NothingIsOverlooked, JustAnswered, Answered, Listed
<1> QED BY <1>4, <1>5, <1>6, <1>7, <1>8, <1>9

\* Calls write records with times of the past, and no outcome is saved again.
LEMMA CreateKeepsInv ==
  ASSUME ListingInv, NEW i \in Ids, Create(i)
  PROVE  ListingInv'
<1>1. table[i].state # "final"
  BY DEF Create, Absent
<1>2. PICK t \in WriteTimes : Write(i, [state |-> "open", created |-> t, updated |-> 0])
  BY DEF Create
<1> DEFINE new == [state |-> "open", created |-> t, updated |-> 0]
<1>3. new \in Row \ {Absent}
  BY DEF WriteTimes, Row, Absent
<1> HIDE DEF new
<1>4. Write(i, new)
  BY <1>2 DEF new
<1> QED BY <1>1, <1>3, <1>4, WriteKeepsInv

LEMMA SaveKeepsInv ==
  ASSUME ListingInv, NEW i \in Ids, Save(i)
  PROVE  ListingInv'
<1>1. /\ table[i].state = "open" /\ now \in Nat
      /\ table[i] \in [state: {"open", "unreadable", "final"}, created: Nat, updated: Nat]
  <2>1. table[i].state = "open" /\ now \in Nat /\ table[i] \in Row
    BY DEF Save, ListingInv, TypeOK
  <2>2. table[i] # Absent
    BY <2>1 DEF Absent
  <2> QED BY <2>1, <2>2 DEF Row
<1>2. \A new : new \in [state: {"open", "unreadable", "final"}, created: Nat, updated: Nat]
               => new \in Row \ {Absent}
  BY DEF Row, Absent
<1>3. CASE Write(i, [table[i] EXCEPT !.state = "unreadable"])
  <2> DEFINE new == [table[i] EXCEPT !.state = "unreadable"]
  <2>1. new \in Row \ {Absent}
    BY <1>1, <1>2
  <2> HIDE DEF new
  <2>2. Write(i, new)
    BY <1>3 DEF new
  <2> QED BY <1>1, <2>1, <2>2, WriteKeepsInv
<1>4. ASSUME NEW t \in Nat, Write(i, [table[i] EXCEPT !.state = "final", !.updated = t])
      PROVE  ListingInv'
  <2> DEFINE new == [table[i] EXCEPT !.state = "final", !.updated = t]
  <2>1. new \in Row \ {Absent}
    BY <1>1, <1>2
  <2> HIDE DEF new
  <2>2. Write(i, new)
    BY <1>4 DEF new
  <2> QED BY <1>1, <2>1, <2>2, WriteKeepsInv
<1>5. WriteTimes \subseteq Nat
  BY <1>1 DEF WriteTimes
<1> QED BY <1>3, <1>4, <1>5 DEF Save

\* What no step of this kind touches: everything but the clock.
LEMMA TimeKeepsInv ==
  ASSUME ListingInv, Tick \/ UNCHANGED vars
  PROVE  ListingInv'
<1>1. now' \in Nat /\ UNCHANGED <<table, backend, reader, answers, past, known>>
  BY DEF ListingInv, TypeOK, Tick, vars
<1>2. TypeOK'
  BY <1>1 DEF ListingInv, TypeOK
<1>3. TurnsInv' /\ PastInv' /\ CollectedInv' /\ BetweenInv'
  BY <1>1 DEF ListingInv, TurnsInv, PastInv, CollectedInv, BetweenInv, Answered, Listed
<1>4. ListedAsItWas' /\ NothingIsOverlooked'
  BY <1>1 DEF ListingInv, ListedAsItWas, NothingIsOverlooked, JustAnswered, Answered, Listed
<1> QED BY <1>2, <1>3, <1>4 DEF ListingInv

LEMMA InitListingInv ==
  ASSUME Init
  PROVE  ListingInv
<1>1. /\ reader.kind = "open" /\ ~reader.busy /\ reader.cursor = 0 /\ reader.found = {}
      /\ table = [i \in Ids |-> Absent] /\ past = [i \in Ids |-> {}] /\ known = {}
      /\ answers["recent"] = Pending /\ answers["open"] = Pending
  BY DEF Init, Idle, Kinds
<1>2. TypeOK
  BY SizeAssumption DEF Init, TypeOK, Idle, Kinds, Row, Pending
<1>3. TurnsInv /\ PastInv /\ CollectedInv /\ BetweenInv
  BY <1>1 DEF TurnsInv, PastInv, CollectedInv, BetweenInv
<1>4. ListedAsItWas /\ NothingIsOverlooked
  BY <1>1 DEF ListedAsItWas, NothingIsOverlooked, JustAnswered, Answered, Pending
<1> QED BY <1>2, <1>3, <1>4 DEF ListingInv

LEMMA StepKeepsInv ==
  ASSUME ListingInv, [Next]_vars
  PROVE  ListingInv'
<1>1. CASE Tick \/ UNCHANGED vars
  BY <1>1, TimeKeepsInv
<1>2. CASE \E i \in Ids : Create(i) \/ Save(i)
  BY <1>2, CreateKeepsInv, SaveKeepsInv
<1>3. CASE Begin
  BY <1>3, BeginKeepsInv
<1>4. CASE SqlList
  BY <1>4, SqlListKeepsInv
<1>5. CASE ReadItem
  BY <1>5, ReadItemKeepsInv
<1>6. CASE SortAndCut
  BY <1>6, SortAndCutKeepsInv
<1>7. CASE StorageFails
  BY <1>7, FailedKeepsInv DEF StorageFails
<1>8. CASE AskForRecent
  BY <1>8, AskForRecentKeepsInv
<1> QED BY <1>1, <1>2, <1>3, <1>4, <1>5, <1>6, <1>7, <1>8 DEF Next

\* Whoever was told of an open list and of a recent one is told of every record.
LEMMA InvMissesNone ==
  ASSUME ListingInv
  PROVE  NoneFallsBetween
<1> USE DEF ListingInv
<1> SUFFICES ASSUME Answered("open"), Answered("recent"), NEW i \in known,
                    ~Listed("open", i), Len(answers["open"].list) # Limit
             PROVE  Listed("recent", i) \/ Len(answers["recent"].list) = Limit
  BY DEF NoneFallsBetween, Kinds
<1>1. answers["recent"] # Pending
  BY DEF Answered, Pending
<1>2. reader.kind = "recent"
  BY <1>1 DEF TurnsInv, TypeOK, Kinds
<1>3. ~reader.busy /\ JustAnswered
  BY <1>1, <1>2 DEF TurnsInv, JustAnswered
<1>4. \A row \in past[i] : row.state = "final" /\ row # Absent
  BY <1>2 DEF BetweenInv
<1>5. i \in Ids
  BY DEF TypeOK
<1>6. \A row \in past[i] : AsAsked("recent", row)
  BY <1>4 DEF AsAsked
<1> QED BY <1>2, <1>3, <1>5, <1>6 DEF NothingIsOverlooked

(***************************************************************************)
(* What the customer can rely on                                           *)
(***************************************************************************)
\* The invariant holds for any number of records, any limit and any delay
\* between the clock and a write.
THEOREM ListingInvariant == Spec => []ListingInv
<1>1. Init => ListingInv
  BY InitListingInv
<1>2. ListingInv /\ [Next]_vars => ListingInv'
  BY StepKeepsInv
<1> QED BY <1>1, <1>2, PTL DEF Spec

\* What is listed was so at some moment of the listing, and nothing is listed
\* twice (list_open_owned, list_recent_owned).
THEOREM AsItWas == Spec => []ListedAsItWas
<1>1. ListingInv => ListedAsItWas
  BY DEF ListingInv
<1> QED BY <1>1, ListingInvariant, PTL

\* What belonged into the listing all the while is in it, unless as many as
\* were asked for come before it (list_open_owned, list_recent_owned).
THEOREM NoneOverlooked == Spec => []NothingIsOverlooked
<1>1. ListingInv => NothingIsOverlooked
  BY DEF ListingInv
<1> QED BY <1>1, ListingInvariant, PTL

\* A record that becomes final between or during the listings is in one of
\* them, unless that one is full (list_open_resolutions, list_recent_resolutions).
THEOREM NoneBetween == Spec => []NoneFallsBetween
<1>1. ListingInv => NoneFallsBetween
  BY InvMissesNone
<1> QED BY <1>1, ListingInvariant, PTL
=============================================================================
