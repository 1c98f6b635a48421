-------------------------- MODULE MigrationsProofs --------------------------
(***************************************************************************)
(* Proofs about Migrations, for any number of processes and files and any  *)
(* timeouts and crashes.                                                   *)
(***************************************************************************)
EXTENDS Migrations, TLAPS

Labels == {"off", "locking", "serving", "gave_up"} \union Statements

(* The lock, which is all the code relies on: whoever is past pg_advisory_lock
   holds it, and a session that ends gives it up. *)
LockInv == /\ holder \in Procs \union {NoProc}
           /\ pc \in [Procs -> Labels]
           /\ \A p \in Procs : pc[p] \in Statements <=> holder = p

(* Under the lock the list of missing files stays true: it is read after the
   lock was taken and shortened by the files that are committed. *)
ListInv == /\ todo \in [Procs -> SUBSET Files]
           /\ \A p \in Procs :
                /\ pc[p] \in {"executing", "inserting", "committing"} =>
                     todo[p] = Missing /\ Missing # {}
                /\ pc[p] = "unlocking" => Missing = {}

(* A transaction is open only while its file is applied. *)
OpenInv == /\ open \in [Procs -> Files \union {0}]
           /\ \A p \in Procs :
                open[p] # 0 => pc[p] \in {"inserting", "committing"}
           /\ \A p \in Procs :
                pc[p] \in {"inserting", "committing"} => open[p] = File(p)

Inv == /\ LockInv /\ ListInv /\ OpenInv
       /\ SchemaIsRecorded /\ ServesOnFullSchema

----------------------------------------------------------------------------

(* The next file of a list that lacks nothing but its head start. *)
LEMMA NextFile ==
  ASSUME NEW p \in Procs, NEW n \in 0..NumFiles, names = 1..n,
         todo[p] = Missing, Missing # {}
  PROVE  n + 1 \in Files /\ File(p) = n + 1
  <1>1. NumFiles \in Nat
    BY FilesAssumption DEF FilesAssumption
  <1>2. Missing = (n + 1)..NumFiles
    BY <1>1 DEF Missing, Files
  <1>3. n + 1 \in todo[p] /\ \A g \in todo[p] : n + 1 <= g
    BY <1>1, <1>2
  <1>4. File(p) \in todo[p] /\ \A g \in todo[p] : File(p) <= g
    BY <1>3 DEF File
  <1> QED BY <1>1, <1>2, <1>3, <1>4 DEF Files

(* Nobody but the holder of the lock is past it. *)
LEMMA Exclusive ==
  ASSUME LockInv, NEW p \in Procs, pc[p] \in Statements
  PROVE  holder = p /\ \A q \in Procs \ {p} : pc[q] \notin Statements
  BY DEF LockInv

LEMMA InvInit == Init => Inv
  <1> SUFFICES ASSUME Init PROVE Inv
    OBVIOUS
  <1> USE DEF Init, Statements
  <1>1. LockInv
    BY ProcAssumption DEF LockInv, Labels, ProcAssumption
  <1>2. ListInv /\ OpenInv
    BY DEF ListInv, OpenInv
  <1>3. SchemaIsRecorded /\ ServesOnFullSchema
    BY DEF SchemaIsRecorded, ServesOnFullSchema
  <1> QED BY <1>1, <1>2, <1>3 DEF Inv

(* A session that ends leaves nothing behind, whatever it was doing. *)
LEMMA InvEndSession ==
  ASSUME Inv, NEW p \in Procs, NEW label \in {"off", "gave_up"}, EndSession(p, label)
  PROVE  Inv'
  <1> USE DEF Inv, EndSession, Goto, Statements
  <1>1. LockInv'
    BY ProcAssumption DEF LockInv, Labels, ProcAssumption
  <1>2. ListInv'
    BY DEF ListInv, Missing, LockInv
  <1>3. OpenInv'
    BY DEF OpenInv, File, LockInv
  <1>4. SchemaIsRecorded' /\ ServesOnFullSchema'
    BY DEF SchemaIsRecorded, ServesOnFullSchema, LockInv
  <1> QED BY <1>1, <1>2, <1>3, <1>4

LEMMA InvNext == Inv /\ [Next]_vars => Inv'
  <1> SUFFICES ASSUME Inv, [Next]_vars PROVE Inv'
    OBVIOUS
  <1> USE DEF Inv, Goto, Statements
  <1>1. ASSUME NEW p \in Procs, Start(p) PROVE Inv'
    <2> USE <1>1 DEF Start
    <2>1. LockInv'
      BY DEF LockInv, Labels
    <2>2. ListInv' /\ OpenInv'
      BY DEF ListInv, OpenInv, Missing, File, LockInv
    <2>3. SchemaIsRecorded' /\ ServesOnFullSchema'
      BY DEF SchemaIsRecorded, ServesOnFullSchema, LockInv
    <2> QED BY <2>1, <2>2, <2>3
  <1>2. ASSUME NEW p \in Procs, Lock(p) PROVE Inv'
    <2> USE <1>2 DEF Lock
    <2>1. LockInv'
      BY ProcAssumption DEF LockInv, Labels, ProcAssumption
    <2>2. ListInv' /\ OpenInv'
      BY DEF ListInv, OpenInv, Missing, File, LockInv
    <2>3. SchemaIsRecorded' /\ ServesOnFullSchema'
      BY DEF SchemaIsRecorded, ServesOnFullSchema, LockInv
    <2> QED BY <2>1, <2>2, <2>3
  <1>3. ASSUME NEW p \in Procs, List(p) PROVE Inv'
    <2> USE <1>3 DEF List, Following
    <2>1. LockInv'
      BY DEF LockInv, Labels
    <2>2. ListInv'
      BY DEF ListInv, Missing, LockInv, Files
    <2>3. OpenInv'
      BY Exclusive DEF OpenInv, File, LockInv
    <2>4. SchemaIsRecorded' /\ ServesOnFullSchema'
      BY DEF SchemaIsRecorded, ServesOnFullSchema, LockInv
    <2> QED BY <2>1, <2>2, <2>3, <2>4
  <1>4. ASSUME NEW p \in Procs, Execute(p) PROVE Inv'
    <2> USE <1>4 DEF Execute
    <2>1. LockInv'
      BY DEF LockInv, Labels
    <2>2. ListInv'
      BY DEF ListInv, Missing, LockInv
    <2>3. File(p) \in Files
      BY NextFile DEF ListInv, SchemaIsRecorded
    <2>4. OpenInv'
      BY <2>3 DEF OpenInv, File, LockInv
    <2>5. SchemaIsRecorded' /\ ServesOnFullSchema'
      BY DEF SchemaIsRecorded, ServesOnFullSchema, LockInv
    <2> QED BY <2>1, <2>2, <2>4, <2>5
  <1>5. ASSUME NEW p \in Procs, InsertName(p) PROVE Inv'
    <2> USE <1>5 DEF InsertName
    <2>1. LockInv'
      BY DEF LockInv, Labels
    <2>2. ListInv' /\ OpenInv'
      BY DEF ListInv, OpenInv, Missing, File, LockInv
    <2>3. SchemaIsRecorded' /\ ServesOnFullSchema'
      BY DEF SchemaIsRecorded, ServesOnFullSchema, LockInv
    <2> QED BY <2>1, <2>2, <2>3
  <1>6. ASSUME NEW p \in Procs, Commit(p) PROVE Inv'
    <2> USE <1>6 DEF Commit, Following
    <2>1. PICK n \in 0..NumFiles : schema = 1..n /\ names = 1..n
      BY DEF SchemaIsRecorded
    <2>2. open[p] = n + 1 /\ n + 1 \in Files /\ todo[p] = Missing
      BY <2>1, NextFile DEF OpenInv, ListInv
    <2>3. schema' = 1..(n + 1) /\ names' = 1..(n + 1) /\ n + 1 \in 0..NumFiles
      BY <2>1, <2>2, FilesAssumption DEF Files, FilesAssumption
    <2>4. todo'[p] = Missing' /\ todo' \in [Procs -> SUBSET Files]
      BY <2>2 DEF ListInv, Missing
    <2>5. LockInv'
      BY DEF LockInv, Labels
    <2>6. \A q \in Procs \ {p} : pc'[q] \notin Statements
      BY Exclusive DEF LockInv
    <2>7. ListInv'
      BY <2>4, <2>6 DEF ListInv, LockInv
    <2>8. OpenInv'
      BY <2>6 DEF OpenInv, LockInv
    <2>9. SchemaIsRecorded'
      BY <2>3 DEF SchemaIsRecorded
    <2>10. ServesOnFullSchema'
      BY <2>2 DEF ServesOnFullSchema, LockInv
    <2> QED BY <2>5, <2>7, <2>8, <2>9, <2>10
  <1>7. ASSUME NEW p \in Procs, Unlock(p) PROVE Inv'
    <2> USE <1>7 DEF Unlock
    <2>1. LockInv'
      BY ProcAssumption DEF LockInv, Labels, ProcAssumption
    <2>2. ListInv' /\ OpenInv'
      BY DEF ListInv, OpenInv, Missing, File, LockInv
    <2>3. SchemaIsRecorded'
      BY DEF SchemaIsRecorded
    <2>4. schema = Files
      BY FilesAssumption DEF ListInv, SchemaIsRecorded, Missing, Files, FilesAssumption
    <2>5. ServesOnFullSchema'
      BY <2>4 DEF ServesOnFullSchema
    <2> QED BY <2>1, <2>2, <2>3, <2>5
  <1>8. ASSUME NEW p \in Procs, GiveUp(p) PROVE Inv'
    BY <1>8, InvEndSession DEF GiveUp
  <1>9. ASSUME NEW p \in Procs, Crash(p) PROVE Inv'
    BY <1>9, InvEndSession DEF Crash
  <1>10. CASE UNCHANGED <<pc, todo, holder, open, schema, names>>
    BY <1>10 DEF LockInv, ListInv, OpenInv, Missing, File, SchemaIsRecorded, ServesOnFullSchema
  <1> QED BY <1>1, <1>2, <1>3, <1>4, <1>5, <1>6, <1>7, <1>8, <1>9, <1>10
          DEF Next, Step, Elapse, vars

LEMMA Invariance == Spec => []Inv
  BY InvInit, InvNext, PTL DEF Spec

(* A file and its name are committed together and in order, whichever process
   does it and wherever processes crash. *)
THEOREM FilesAreRecorded == Spec => []SchemaIsRecorded
  <1>1. Inv => SchemaIsRecorded
    BY DEF Inv
  <1> QED BY <1>1, Invariance, PTL

(* Whoever serves has the whole schema under it. *)
THEOREM NobodyServesEarly == Spec => []ServesOnFullSchema
  <1>1. Inv => ServesOnFullSchema
    BY DEF Inv
  <1> QED BY <1>1, Invariance, PTL

(* No process ever runs a file that is done or that another process is
   running, so no start fails on a file. *)
THEOREM StartsAreSafe == Spec => []NoStartBreaks
  <1>1. Inv => NoStartBreaks
    <2> SUFFICES ASSUME Inv, NEW p \in Procs
                 PROVE  /\ pc[p] = "executing" => File(p) \notin schema
                        /\ pc[p] \in {"inserting", "committing"} => open[p] \notin names
                        /\ \A q \in Procs \ {p} : open[p] # 0 => open[p] # open[q]
      BY DEF NoStartBreaks
    <2> USE DEF Inv
    <2>1. ASSUME pc[p] \in {"executing", "inserting", "committing"}
          PROVE  File(p) \notin names
      <3>1. PICK n \in 0..NumFiles : names = 1..n
        BY DEF SchemaIsRecorded
      <3>2. File(p) = n + 1
        BY <2>1, <3>1, NextFile DEF ListInv
      <3> QED BY <3>1, <3>2
    <2>2. ASSUME NEW q \in Procs \ {p}, open[p] # 0 PROVE open[p] # open[q]
      BY <2>2, Exclusive DEF OpenInv, Statements
    <2> QED BY <2>1, <2>2 DEF OpenInv, SchemaIsRecorded
  <1> QED BY <1>1, Invariance, PTL
=============================================================================
