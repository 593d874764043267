---------------------------- MODULE SchemaProofs ----------------------------
(***************************************************************************)
(* No call is served on an incomplete table, for any number of processes,  *)
(* calls, columns and failures.  The inductive invariant says how far a    *)
(* call that makes the schema can rely on what it has done: columns are    *)
(* never dropped, so that every column before the one it is at is there,   *)
(* also when another process added it.                                     *)
(***************************************************************************)
EXTENDS SchemaCreation, TLAPS

TypeOK ==
  /\ table \in BOOLEAN
  /\ columns \subseteq Added
  /\ ready \in [Processes -> BOOLEAN]
  /\ pc \in [Calls -> Places]
  /\ present \in [Calls -> SUBSET Added]
  /\ name \in [Calls -> 1..(NumAdded + 1)]

\* What a call at some place knows of the table.
Passed(c) == 1..(name[c] - 1)

SchemaInv ==
  /\ TypeOK
  /\ \A c \in Calls :
       /\ pc[c] \in {"inspecting", "adding", "checking"} => table
       /\ pc[c] \in {"adding", "checking"} => Passed(c) \subseteq columns /\ present[c] \subseteq columns
       /\ pc[c] = "checking" => name[c] \in Added
  /\ ServedOnCompleteTable

\* Steps only add to the table (_ensure_schema drops nothing).
LEMMA TableGrows == SchemaInv /\ [Next]_vars =>
  /\ table => table'
  /\ columns \subseteq columns'
  /\ columns' \subseteq Added
  /\ table' \in BOOLEAN
<1> SUFFICES ASSUME SchemaInv, [Next]_vars
             PROVE  /\ table => table'
                    /\ columns \subseteq columns' /\ columns' \subseteq Added
                    /\ table' \in BOOLEAN
  OBVIOUS
<1>1. ASSUME NEW c \in Calls, CreateTable(c) \/ AddColumn(c) \/ WriteFails(c)
      PROVE  /\ table => table'
             /\ columns \subseteq columns' /\ columns' \subseteq Added
             /\ table' \in BOOLEAN
  BY <1>1 DEF SchemaInv, TypeOK, CreateTable, AddColumn, WriteFails
<1>2. ASSUME NEW c \in Calls,
             \/ Begin(c) \/ Lock(c) \/ FindTable(c) \/ Inspect(c) \/ CheckColumn(c)
             \/ SetReady(c) \/ Return(c) \/ ReadFails(c)
      PROVE  table' = table /\ columns' = columns
  BY <1>2 DEF Begin, Lock, FindTable, Inspect, CheckColumn, SetReady, Return, ReadFails
<1>3. ASSUME NEW p \in Processes, Restart(p)
      PROVE  table' = table /\ columns' = columns
  BY <1>3 DEF Restart
<1>4. CASE UNCHANGED vars
  BY <1>4 DEF vars, SchemaInv, TypeOK
<1> QED BY <1>1, <1>2, <1>3, <1>4 DEF Next, Statement, SchemaInv, TypeOK

\* A call that takes no part in a step knows afterwards what it knew before,
\* because the table only grows; so a step keeps the invariant if the call that
\* takes it may know what it then claims to know.
LEMMA KnowledgeLasts ==
  ASSUME SchemaInv, TypeOK', NEW c \in Calls,
         table => table', columns \subseteq columns',
         ready' = ready,
         \A d \in Calls \ {c} : pc'[d] = pc[d] /\ present'[d] = present[d] /\ name'[d] = name[d],
         pc'[c] \in {"inspecting", "adding", "checking"} => table',
         pc'[c] \in {"adding", "checking"} => Passed(c)' \subseteq columns' /\ present'[c] \subseteq columns',
         pc'[c] = "checking" => name'[c] \in Added,
         pc'[c] = "serving" => Complete'
  PROVE  SchemaInv'
<1>1. ASSUME NEW d \in Calls
      PROVE  /\ pc'[d] \in {"inspecting", "adding", "checking"} => table'
             /\ pc'[d] \in {"adding", "checking"} => Passed(d)' \subseteq columns' /\ present'[d] \subseteq columns'
             /\ pc'[d] = "checking" => name'[d] \in Added
             /\ pc'[d] = "serving" => Complete'
  <2>1. CASE d = c
    BY <2>1
  <2>2. CASE d # c
    BY <2>2 DEF SchemaInv, TypeOK, Passed, ServedOnCompleteTable, Complete
  <2> QED BY <2>1, <2>2
<1>2. \A p \in Processes : ready'[p] => Complete'
  BY DEF SchemaInv, TypeOK, ServedOnCompleteTable, Complete
<1> QED BY <1>1, <1>2 DEF SchemaInv, ServedOnCompleteTable

\* The statements on the database keep the invariant (_ensure_schema).
LEMMA StatementsKeepInv ==
  ASSUME SchemaInv, [Next]_vars, NEW c \in Calls, Statement(c)
  PROVE  SchemaInv'
<1>0. (table => table') /\ columns \subseteq columns' /\ columns' \subseteq Added
  BY TableGrows
<1>1. CASE FindTable(c)
  <2>1. TypeOK'
    BY <1>1 DEF SchemaInv, TypeOK, FindTable, Goto, Places
  <2> QED BY <1>0, <1>1, <2>1, KnowledgeLasts DEF SchemaInv, TypeOK, FindTable, Goto
<1>2. CASE CreateTable(c)
  <2>1. TypeOK'
    BY <1>2 DEF SchemaInv, TypeOK, CreateTable, Refuse, Goto, Places
  <2> QED BY <1>0, <1>2, <2>1, KnowledgeLasts DEF SchemaInv, TypeOK, CreateTable, Refuse, Goto
<1>3. CASE Inspect(c)
  <2>1. TypeOK'
    BY <1>3, NumAddedAssumption DEF SchemaInv, TypeOK, Inspect, Goto, Places
  <2>2. name'[c] = 1 /\ present'[c] = columns'
    BY <1>3 DEF SchemaInv, TypeOK, Inspect
  <2>3. Passed(c)' = {}
    BY <2>2 DEF Passed
  <2> QED BY <1>0, <1>3, <2>1, <2>2, <2>3, KnowledgeLasts DEF SchemaInv, TypeOK, Inspect, Goto
<1>4. CASE AddColumn(c)
  <2>1. TypeOK'
    <3>1. name[c] \in Added /\ name[c] + 1 \in 1..(NumAdded + 1)
      BY <1>4, NumAddedAssumption DEF AddColumn, Added
    <3>2. name' \in [Calls -> 1..(NumAdded + 1)]
      BY <1>4, <3>1 DEF SchemaInv, TypeOK, AddColumn
    <3>3. present' \in [Calls -> SUBSET Added] /\ pc' \in [Calls -> Places]
      BY <1>4, <3>1 DEF SchemaInv, TypeOK, AddColumn, Goto, Places
    <3>4. table' \in BOOLEAN /\ ready' \in [Processes -> BOOLEAN]
      BY <1>4 DEF SchemaInv, TypeOK, AddColumn
    <3>5. columns' \subseteq Added
      BY <1>0
    <3> QED BY <3>2, <3>3, <3>4, <3>5, Zenon DEF TypeOK
  <2>2. CASE name[c] \notin present[c] /\ name[c] \in columns
    BY <1>0, <1>4, <2>1, <2>2, KnowledgeLasts
       DEF SchemaInv, TypeOK, AddColumn, Goto, Passed
  <2>3. CASE ~(name[c] \notin present[c] /\ name[c] \in columns)
    <3>1. name'[c] = name[c] + 1 /\ name[c] \in Added /\ name[c] \in columns'
      BY <1>4, <2>3 DEF SchemaInv, TypeOK, AddColumn
    <3>2. Passed(c)' = Passed(c) \cup {name[c]}
      BY <3>1, NumAddedAssumption DEF Passed, Added
    <3>3. /\ pc' = pc /\ pc[c] = "adding" /\ ready' = ready
          /\ present'[c] = present[c] \cup {name[c]}
          /\ \A d \in Calls \ {c} : present'[d] = present[d] /\ name'[d] = name[d]
      BY <1>4, <2>3 DEF SchemaInv, TypeOK, AddColumn
    <3>4. Passed(c) \subseteq columns /\ present[c] \subseteq columns /\ table
      BY <3>3 DEF SchemaInv
    <3> QED BY <1>0, <2>1, <3>1, <3>2, <3>3, <3>4, KnowledgeLasts
  <2> QED BY <2>2, <2>3
<1>5. CASE CheckColumn(c)
  <2>1. TypeOK'
    BY <1>5, NumAddedAssumption DEF SchemaInv, TypeOK, CheckColumn, Refuse, Goto, Places, Added
  <2>2. /\ table /\ Passed(c) \subseteq columns /\ name[c] \in Added
        /\ columns' = columns /\ table' = table /\ ready' = ready
        /\ present'[c] = columns
        /\ \A d \in Calls \ {c} : pc'[d] = pc[d] /\ present'[d] = present[d] /\ name'[d] = name[d]
    BY <1>5 DEF SchemaInv, TypeOK, CheckColumn, Refuse, Goto
  <2>3. CASE name[c] \in columns
    <3>1. name'[c] = name[c] + 1 /\ pc'[c] = "adding"
      BY <1>5, <2>3 DEF SchemaInv, TypeOK, CheckColumn, Goto
    <3>2. Passed(c)' = Passed(c) \cup {name[c]}
      BY <2>2, <3>1, NumAddedAssumption DEF Passed, Added
    <3> QED BY <1>0, <2>1, <2>2, <2>3, <3>1, <3>2, KnowledgeLasts
  <2>4. CASE name[c] \notin columns
    <3>1. pc'[c] = "refused"
      BY <1>5, <2>4 DEF SchemaInv, TypeOK, CheckColumn, Refuse, Goto
    <3> QED BY <1>0, <2>1, <2>2, <3>1, KnowledgeLasts
  <2> QED BY <2>3, <2>4
<1> QED BY <1>1, <1>2, <1>3, <1>4, <1>5 DEF Statement

\* When every column has been gone through the table is complete, and may be
\* said to be (_schema_ready).
LEMMA ReadyKeepsInv ==
  ASSUME SchemaInv, NEW c \in Calls, SetReady(c)
  PROVE  SchemaInv'
<1>1. name[c] = NumAdded + 1
  BY NumAddedAssumption DEF SchemaInv, TypeOK, SetReady, Added
<1>2. Passed(c) = Added
  BY <1>1, NumAddedAssumption DEF Passed, Added
<1>3. Complete
  BY <1>2 DEF SchemaInv, TypeOK, SetReady, Complete
<1>4. Complete'
  BY <1>3 DEF SetReady, Complete
<1>5. TypeOK'
  BY HomeAssumption DEF SchemaInv, TypeOK, SetReady, Serve, Goto, Places
<1>6. /\ columns' = columns /\ table' = table /\ present' = present /\ name' = name
      /\ pc'[c] = "serving" /\ \A d \in Calls \ {c} : pc'[d] = pc[d]
  BY DEF SchemaInv, TypeOK, SetReady, Serve, Goto
<1>7. ServedOnCompleteTable'
  BY <1>4 DEF ServedOnCompleteTable
<1> QED BY <1>5, <1>6, <1>7 DEF SchemaInv, Passed

\* The steps of a call that touch no column keep the invariant, whether they
\* begin it, end it or fail it.
LEMMA CallsKeepInv ==
  ASSUME SchemaInv, [Next]_vars, NEW c \in Calls,
         Begin(c) \/ Lock(c) \/ Return(c) \/ ReadFails(c) \/ WriteFails(c)
  PROVE  SchemaInv'
<1>0. (table => table') /\ columns \subseteq columns' /\ columns' \subseteq Added /\ table' \in BOOLEAN
  BY TableGrows
<1>1. CASE Begin(c) \/ Lock(c)
  <2>1. TypeOK'
    BY <1>1 DEF SchemaInv, TypeOK, Begin, Lock, Serve, Goto, Places
  <2>2. pc'[c] = "serving" => Complete'
    BY <1>1, HomeAssumption
       DEF SchemaInv, TypeOK, ServedOnCompleteTable, Complete, Begin, Lock, Serve, Goto
  <2> QED BY <1>0, <1>1, <2>1, <2>2, KnowledgeLasts
          DEF SchemaInv, TypeOK, Begin, Lock, Serve, Goto
<1>2. CASE Return(c) \/ ReadFails(c)
  <2>1. TypeOK'
    BY <1>2 DEF SchemaInv, TypeOK, Return, ReadFails, Refuse, Goto, Places
  <2> QED BY <1>0, <1>2, <2>1, KnowledgeLasts
          DEF SchemaInv, TypeOK, Return, ReadFails, Refuse, Goto
<1>3. CASE WriteFails(c)
  <2>1. TypeOK'
    BY <1>0, <1>3 DEF SchemaInv, TypeOK, WriteFails, Refuse, Goto, Places
  <2> QED BY <1>0, <1>3, <2>1, KnowledgeLasts
          DEF SchemaInv, TypeOK, WriteFails, Refuse, Goto, Passed
<1> QED BY <1>1, <1>2, <1>3

\* A process that starts again believes nothing (SqlResolutionRepository).
LEMMA RestartKeepsInv ==
  ASSUME SchemaInv, NEW p \in Processes, Restart(p)
  PROVE  SchemaInv'
<1>1. TypeOK'
  BY DEF SchemaInv, TypeOK, Restart, Places
<1>2. /\ columns' = columns /\ table' = table /\ present' = present /\ name' = name
      /\ \A c \in Calls : pc'[c] \in {"idle", pc[c]}
      /\ \A r \in Processes : ready'[r] => ready[r]
  BY DEF SchemaInv, TypeOK, Restart
<1>3. ServedOnCompleteTable'
  BY <1>2 DEF SchemaInv, ServedOnCompleteTable, Complete
<1> QED BY <1>1, <1>2, <1>3 DEF SchemaInv, Passed

\* The invariant holds of every reachable state, for any number of processes,
\* calls, columns and failures.
THEOREM SchemaInvariant == Spec => []SchemaInv
<1>1. Init => SchemaInv
  BY NumAddedAssumption
     DEF Init, SchemaInv, TypeOK, ServedOnCompleteTable, Places, Passed
<1>2. SchemaInv /\ [Next]_vars => SchemaInv'
  <2> SUFFICES ASSUME SchemaInv, [Next]_vars PROVE SchemaInv'
    OBVIOUS
  <2>1. CASE UNCHANGED vars
    BY <2>1 DEF vars, SchemaInv, TypeOK, ServedOnCompleteTable, Complete, Passed
  <2>2. CASE Next
    BY <2>2, StatementsKeepInv, ReadyKeepsInv, CallsKeepInv, RestartKeepsInv DEF Next
  <2> QED BY <2>1, <2>2
<1> QED BY <1>1, <1>2, PTL DEF Spec

\* No call is served, and no process believes the schema to be there, before
\* every column is (_ensure_schema).
THEOREM ServedOnComplete == Spec => []ServedOnCompleteTable
<1>1. SchemaInv => ServedOnCompleteTable
  BY DEF SchemaInv
<1> QED BY <1>1, SchemaInvariant, PTL

(***************************************************************************)
(* Who is to blame for a refusal                                           *)
(***************************************************************************)
\* A call whose ALTER TABLE failed had a failing statement, or finds the column
\* that another process has added.
BlameInv ==
  /\ trouble \in [Calls -> SUBSET {"statement", "creation"}]
  /\ \A c \in Calls : pc[c] = "checking" => name[c] \in columns \/ trouble[c] # {}
  /\ MigratorsDoNotCollide

\* A step of one call blames no other, because the table only grows.
LEMMA BlameLasts ==
  ASSUME SchemaInv, BlameInv, NEW c \in Calls, columns \subseteq columns',
         trouble' \in [Calls -> SUBSET {"statement", "creation"}],
         \A d \in Calls \ {c} : pc'[d] = pc[d] /\ name'[d] = name[d] /\ trouble'[d] = trouble[d],
         pc'[c] = "checking" => name'[c] \in columns' \/ trouble'[c] # {},
         pc'[c] = "refused" => trouble'[c] # {}
  PROVE  BlameInv'
  BY DEF BlameInv, MigratorsDoNotCollide

\* Every step of a call keeps the blame where it belongs (_ensure_schema).
LEMMA CallsKeepBlame ==
  ASSUME SchemaInv, BlameInv, [Next]_vars, NEW c \in Calls,
         \/ Begin(c) \/ Lock(c) \/ Statement(c) \/ SetReady(c) \/ Return(c)
         \/ ReadFails(c) \/ WriteFails(c)
  PROVE  BlameInv'
<1>0. columns \subseteq columns'
  BY TableGrows
<1>1. CASE Begin(c)
  BY <1>0, <1>1, BlameLasts DEF SchemaInv, TypeOK, BlameInv, Begin, Goto
<1>2. CASE Lock(c) \/ SetReady(c) \/ Return(c) \/ FindTable(c) \/ Inspect(c)
  BY <1>0, <1>2, BlameLasts
     DEF SchemaInv, TypeOK, BlameInv, Lock, SetReady, Return, FindTable, Inspect, Serve, Goto
<1>3. CASE CreateTable(c)
  BY <1>0, <1>3, BlameLasts DEF SchemaInv, TypeOK, BlameInv, CreateTable, Refuse, Goto
<1>4. CASE AddColumn(c)
  <2>1. CASE name[c] \notin present[c] /\ name[c] \in columns
    BY <1>0, <1>4, <2>1, BlameLasts DEF SchemaInv, TypeOK, BlameInv, AddColumn, Goto
  <2>2. CASE ~(name[c] \notin present[c] /\ name[c] \in columns)
    BY <1>0, <1>4, <2>2, BlameLasts DEF SchemaInv, TypeOK, BlameInv, AddColumn
  <2> QED BY <2>1, <2>2
<1>5. CASE CheckColumn(c)
  BY <1>0, <1>5, BlameLasts DEF SchemaInv, TypeOK, BlameInv, CheckColumn, Refuse, Goto
<1>6. CASE ReadFails(c) \/ WriteFails(c)
  <2>1. /\ trouble' = [trouble EXCEPT ![c] = @ \cup {"statement"}]
        /\ trouble'[c] # {} /\ name' = name
        /\ \A d \in Calls \ {c} : pc'[d] = pc[d]
    BY <1>6, ZenonT(30) DEF SchemaInv, TypeOK, BlameInv, ReadFails, WriteFails, Refuse, Goto
  <2> QED BY <1>0, <2>1, BlameLasts DEF BlameInv
<1> QED BY <1>1, <1>2, <1>3, <1>4, <1>5, <1>6 DEF Statement

\* A call is refused for what went wrong in it or because another process made
\* the table, never because another process was adding columns as well, for any
\* number of processes, calls, columns and failures (_ensure_schema).
THEOREM NoCollision == Spec => []MigratorsDoNotCollide
<1>1. Init => BlameInv
  BY DEF Init, BlameInv, MigratorsDoNotCollide
<1>2. SchemaInv /\ BlameInv /\ [Next]_vars => BlameInv'
  <2> SUFFICES ASSUME SchemaInv, BlameInv, [Next]_vars PROVE BlameInv'
    OBVIOUS
  <2>1. CASE UNCHANGED vars
    BY <2>1 DEF vars, BlameInv, MigratorsDoNotCollide
  <2>2. ASSUME NEW p \in Processes, Restart(p) PROVE BlameInv'
    BY <2>2 DEF SchemaInv, TypeOK, BlameInv, MigratorsDoNotCollide, Restart
  <2> QED BY <2>1, <2>2, CallsKeepBlame DEF Next
<1>3. BlameInv => MigratorsDoNotCollide
  BY DEF BlameInv
<1> QED BY <1>1, <1>2, <1>3, SchemaInvariant, PTL DEF Spec
=============================================================================
