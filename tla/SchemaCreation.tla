--------------------------- MODULE SchemaCreation ---------------------------
(***************************************************************************)
(* Creation of the SQL schema (src/src/closeloop/repository.py,            *)
(* _ensure_schema).  Every operation of the SQL repository begins with it. *)
(* Several calls run in one process and share its lock and its flag;       *)
(* several processes share the database and nothing else.                  *)
(*                                                                         *)
(* A statement on the database is one step.  The table that create_all     *)
(* makes has every column; a table left by an earlier version lacks some   *)
(* of those that were added since, numbered here in the order in which     *)
(* _ensure_schema goes through them.                                       *)
(***************************************************************************)
EXTENDS Integers

CONSTANTS
  Processes,    \* processes, each with a repository of its own
  Calls,        \* calls that may be in progress at the same time
  Home,         \* the process that serves a call
  NumAdded,     \* columns that were added since the first version
  MaxFaults,    \* bound on failures of the database and ends of processes
  NoCall        \* nobody

ASSUME HomeAssumption == Home \in [Calls -> Processes]
ASSUME NumAddedAssumption == NumAdded \in Nat
ASSUME MaxFaultsAssumption == MaxFaults \in Nat
ASSUME NoCallAssumption == NoCall \notin Calls

Added == 1..NumAdded

VARIABLES
  table,     \* whether the table exists
  columns,   \* the added columns that it has
  ready,     \* _schema_ready of each process
  holder,    \* the call that holds _schema_lock of each process
  pc,        \* where each call is
  present,   \* the columns a call has seen
  name,      \* the column a call is at
  trouble,   \* what went wrong in a call: its statements, or the table's creation
  faults     \* failures so far

vars == <<table, columns, ready, holder, pc, present, name, trouble, faults>>

Places == {"idle", "waiting", "creating", "missing", "inspecting", "adding",
           "checking", "serving", "refused"}

\* A new database, or a table of any earlier version.
Init ==
  /\ table \in BOOLEAN
  /\ columns \in SUBSET Added /\ (~table => columns = {})
  /\ ready = [p \in Processes |-> FALSE]
  /\ holder = [p \in Processes |-> NoCall]
  /\ pc = [c \in Calls |-> "idle"]
  /\ present = [c \in Calls |-> {}]
  /\ name = [c \in Calls |-> 1]
  /\ trouble = [c \in Calls |-> {}]
  /\ faults = 0

Goto(c, place) == pc' = [pc EXCEPT ![c] = place]
Unlock(c) == holder' = [holder EXCEPT ![Home[c]] = NoCall]

\* Slip: the lock stays taken.
ServeLocked(c) == Goto(c, "serving") /\ UNCHANGED holder

\* The call leaves the lock's block for the statement that follows, or with
\* the error that storage is unavailable.
Serve(c) == Goto(c, "serving") /\ Unlock(c)

Refuse(c) == Goto(c, "refused") /\ Unlock(c)

\* The flag is looked at before the lock is taken ...
Begin(c) ==
  /\ pc[c] = "idle"
  /\ Goto(c, IF ready[Home[c]] THEN "serving" ELSE "waiting")
  /\ trouble' = [trouble EXCEPT ![c] = {}]
  /\ UNCHANGED <<table, columns, ready, holder, present, name, faults>>

\* ... and again when it is.
Lock(c) ==
  /\ pc[c] = "waiting"
  /\ holder[Home[c]] = NoCall
  /\ IF ready[Home[c]]
     THEN Serve(c)
     ELSE Goto(c, "creating") /\ holder' = [holder EXCEPT ![Home[c]] = c]
  /\ UNCHANGED <<table, columns, ready, present, name, trouble, faults>>

\* create_all looks for the table ...
FindTable(c) ==
  /\ pc[c] = "creating"
  /\ Goto(c, IF table THEN "inspecting" ELSE "missing")
  /\ UNCHANGED <<table, columns, ready, holder, present, name, trouble, faults>>

\* ... and creates it when it was not there, which fails when it is by now.
CreateTable(c) ==
  /\ pc[c] = "missing"
  /\ IF table
     THEN /\ Refuse(c)
          /\ trouble' = [trouble EXCEPT ![c] = @ \cup {"creation"}]
          /\ UNCHANGED <<table, columns>>
     ELSE /\ table' = TRUE /\ columns' = Added
          /\ Goto(c, "inspecting")
          /\ UNCHANGED <<holder, trouble>>
  /\ UNCHANGED <<ready, present, name, faults>>

Inspect(c) ==
  /\ pc[c] = "inspecting"
  /\ present' = [present EXCEPT ![c] = columns]
  /\ name' = [name EXCEPT ![c] = 1]
  /\ Goto(c, "adding")
  /\ UNCHANGED <<table, columns, ready, holder, trouble, faults>>

\* One turn of the loop.  ALTER TABLE fails when another process has added the
\* column since it was looked for.
AddColumn(c) ==
  /\ pc[c] = "adding" /\ name[c] \in Added
  /\ IF name[c] \notin present[c] /\ name[c] \in columns
     THEN Goto(c, "checking") /\ UNCHANGED <<columns, present, name>>
     ELSE /\ columns' = columns \cup {name[c]}
          /\ present' = [present EXCEPT ![c] = @ \cup {name[c]}]
          /\ name' = [name EXCEPT ![c] = @ + 1]
          /\ UNCHANGED pc
  /\ UNCHANGED <<table, ready, holder, trouble, faults>>

\* Slip: whoever made ALTER TABLE fail will have added the column.
TrustOthers(c) ==
  /\ pc[c] = "checking"
  /\ name' = [name EXCEPT ![c] = @ + 1] /\ Goto(c, "adding")
  /\ UNCHANGED <<table, columns, ready, holder, present, trouble, faults>>

\* Slip: the columns seen before are looked at again.
CheckSeen(c) ==
  /\ pc[c] = "checking"
  /\ IF name[c] \in present[c]
     THEN name' = [name EXCEPT ![c] = @ + 1] /\ Goto(c, "adding") /\ UNCHANGED holder
     ELSE Refuse(c) /\ UNCHANGED name
  /\ UNCHANGED <<table, columns, ready, present, trouble, faults>>

\* After a failed ALTER TABLE: does the column exist all the same?
CheckColumn(c) ==
  /\ pc[c] = "checking"
  /\ present' = [present EXCEPT ![c] = columns]
  /\ IF name[c] \in columns
     THEN name' = [name EXCEPT ![c] = @ + 1] /\ Goto(c, "adding") /\ UNCHANGED holder
     ELSE Refuse(c) /\ UNCHANGED name
  /\ UNCHANGED <<table, columns, ready, trouble, faults>>

SetReady(c) ==
  /\ pc[c] = "adding" /\ name[c] \notin Added
  /\ ready' = [ready EXCEPT ![Home[c]] = TRUE]
  /\ Serve(c)
  /\ UNCHANGED <<table, columns, present, name, trouble, faults>>

\* The call is over: it has used the table, or reported the error.
Return(c) ==
  /\ pc[c] \in {"serving", "refused"}
  /\ Goto(c, "idle")
  /\ UNCHANGED <<table, columns, ready, holder, present, name, trouble, faults>>

Fault == faults < MaxFaults /\ faults' = faults + 1

\* The database fails a statement that reads.
ReadFails(c) ==
  /\ Fault
  /\ pc[c] \in {"creating", "inspecting", "checking"}
  /\ Refuse(c)
  /\ trouble' = [trouble EXCEPT ![c] = @ \cup {"statement"}]
  /\ UNCHANGED <<table, columns, ready, present, name>>

\* The database fails a statement that writes, or the answer is lost and the
\* statement done.
WriteFails(c) ==
  /\ Fault
  /\ trouble' = [trouble EXCEPT ![c] = @ \cup {"statement"}]
  /\ \/ /\ pc[c] = "missing" /\ Refuse(c)
        /\ \/ UNCHANGED <<table, columns>>
           \/ ~table /\ table' = TRUE /\ columns' = Added
     \/ /\ pc[c] = "adding" /\ name[c] \in Added \ present[c]
        /\ Goto(c, "checking")
        /\ columns' \in {columns, columns \cup {name[c]}}
        /\ UNCHANGED <<table, holder>>
  /\ UNCHANGED <<ready, present, name>>

\* A process ends, with its calls, and is started again.
Restart(p) ==
  /\ Fault
  /\ ready' = [ready EXCEPT ![p] = FALSE]
  /\ holder' = [holder EXCEPT ![p] = NoCall]
  /\ pc' = [c \in Calls |-> IF Home[c] = p THEN "idle" ELSE pc[c]]
  /\ UNCHANGED <<table, columns, present, name, trouble>>

Statement(c) ==
  FindTable(c) \/ CreateTable(c) \/ Inspect(c) \/ AddColumn(c) \/ CheckColumn(c)

Next ==
  \/ \E c \in Calls :
       Begin(c) \/ Lock(c) \/ Statement(c) \/ SetReady(c) \/ Return(c)
         \/ ReadFails(c) \/ WriteFails(c)
  \/ \E p \in Processes : Restart(p)

Spec == Init /\ [][Next]_vars

\* Threads run and statements are answered.  Nothing is assumed of the order in
\* which threads get the lock: threading.Lock has none.
FairSpec ==
  /\ Spec
  /\ \A c \in Calls : WF_vars(Statement(c) \/ SetReady(c)) /\ WF_vars(Lock(c))

(***************************************************************************)
(* Properties                                                              *)
(***************************************************************************)
Complete == table /\ columns = Added

\* No call goes on to its own statement, and no process believes that the
\* schema is there, before every column is, whoever adds it and whichever
\* statements fail (_ensure_schema, "Another process may have applied this
\* additive migration").
ServedOnCompleteTable ==
  /\ \A p \in Processes : ready[p] => Complete
  /\ \A c \in Calls : pc[c] = "serving" => Complete

\* A call is refused only when the database failed one of its statements or
\* another process created the table first: processes that migrate the same
\* table do not make each other fail (_ensure_schema).
MigratorsDoNotCollide ==
  \A c \in Calls : pc[c] = "refused" => trouble[c] # {}

\* No call waits for the lock for ever, whichever statements fail under it.
LockIsObtained == \A c \in Calls : pc[c] = "waiting" ~> pc[c] # "waiting"
=============================================================================
