------------------------- MODULE FileRegistryProofs -------------------------
(***************************************************************************)
(* Theorems about FileRegistry, for any number of keys and of requests at  *)
(* a time, with every statement and every call to the store able to fail.  *)
(*                                                                         *)
(* SweepSparesFiles is not inductive.  Why the sweep is safe although it   *)
(* reads the objects, the table and the ages at different times: an object *)
(* past the cut-off is one whose ticket has expired and which nobody is    *)
(* uploading or registering (Over), and what is Over stays so.  So a key   *)
(* that was not in the table when the sweep read it, and was past the      *)
(* cut-off by then, never gets into the table (SweepOK).                   *)
(***************************************************************************)
EXTENDS FileRegistry, TLAPS

\* Nobody can register k any more.
Over(k) ==
  /\ k \in expired /\ k \notin putting
  /\ \A q \in Requests : Registering(q) => key[q] # k

AgeOK ==
  /\ \A k \in Keys : object[k] = "old" => Over(k)
  /\ \A k \in cleanAged : Over(k)

\* What the sweep still means to look at, or is about to erase.
SweepOK ==
  /\ cleanPc \in {"sweep", "sweepErase"} =>
       \A k \in cleanTodo : k \in cleanAged => k \notin files
  /\ cleanPc = "sweepErase" => cleanKey \in cleanAged /\ cleanKey \notin files

\* What a request has read from the object it is about to register.
SniffOK == \A q \in Requests : pc[q] = "insert" => key[q] \in genuine

-----------------------------------------------------------------------------
(* The steps, one by one.                                                  *)

\* Every step leaves the variables well typed.
LEMMA TypeStep == TypeOK /\ [Next]_vars => TypeOK'
<1> SUFFICES ASSUME TypeOK, [Next]_vars PROVE TypeOK'
  OBVIOUS
<1> USE DEF TypeOK, Goto, WithoutObject, uploading, purger, cleaner
<1>1. CASE Lifecycle
  BY <1>1 DEF Lifecycle, ChangeStatus, SoftDelete, Restore
<1>2. ASSUME NEW k \in Keys, Browser(k) PROVE TypeOK'
  BY <1>2 DEF Browser, CreateUploadUrl, BeginPut, PutLands, PutFails
<1>3. ASSUME NEW k \in Keys, Clock(k) PROVE TypeOK'
  BY <1>3 DEF Clock, Expire, Age
<1>4. ASSUME NEW q \in Requests, Calls(q) PROVE TypeOK'
  BY <1>4 DEF Calls, BeginRegister, BeginRemove
<1>5. ASSUME NEW q \in Requests, Handles(q) PROVE TypeOK'
  BY <1>5 DEF Handles, Verify, Sniff, Insert, RecordOrphan, RemoveObject,
     RemoveRow, Fail, TicketAfterUse
<1>6. CASE Purge
  BY <1>6 DEF Purge, BeginPurge, PurgeKeys, PurgeObject, PurgeRow, PurgeFails,
     AllErased
<1>7. CASE Cleanup
  <2>1. ASSUME NEW ok \in BOOLEAN, CleanStart(ok) PROVE TypeOK'
    BY <2>1 DEF CleanStart
  <2>2. ASSUME NEW k \in Keys, NEW stored \in BOOLEAN, CleanMarker(k, stored) PROVE TypeOK'
    BY <2>2 DEF CleanMarker, AfterHead
  <2>3. CASE CleanErase
    BY <2>3 DEF CleanErase
  <2>4. CASE CleanEraseFails
    BY <2>4 DEF CleanEraseFails
  <2>5. CASE CleanSettle
    BY <2>5 DEF CleanSettle
  <2>6. CASE SweepList
    BY <2>6 DEF SweepList
  <2>7. CASE SweepKnown
    BY <2>7 DEF SweepKnown
  <2>8. ASSUME NEW k \in Keys, NEW stored \in BOOLEAN, SweepHead(k, stored) PROVE TypeOK'
    BY <2>8 DEF SweepHead
  <2>9. CASE SweepErase
    BY <2>9 DEF SweepErase
  <2>10. CASE SweepEraseFails
    BY <2>10 DEF SweepEraseFails
  <2>11. CASE CleanEnds
    BY <2>11 DEF CleanEnds
  <2> QED
    BY <1>7, <2>1, <2>2, <2>3, <2>4, <2>5, <2>6, <2>7, <2>8, <2>9, <2>10,
       <2>11 DEF Cleanup
<1>8. CASE UNCHANGED vars
  BY <1>8 DEF vars
<1>9. QED
  BY <1>1, <1>2, <1>3, <1>4, <1>5, <1>6, <1>7, <1>8 DEF Next

-----------------------------------------------------------------------------
(* Rows, tickets and contents.                                             *)

LEMMA RowStep == TypeOK /\ RowHasUsedTicket /\ [Next]_vars => RowHasUsedTicket'
<1> SUFFICES ASSUME TypeOK, RowHasUsedTicket, [Next]_vars PROVE RowHasUsedTicket'
  OBVIOUS
<1> USE DEF RowHasUsedTicket
<1>1. CASE Lifecycle
  BY <1>1 DEF Lifecycle, ChangeStatus, SoftDelete, Restore
<1>2. ASSUME NEW k \in Keys, Browser(k) PROVE RowHasUsedTicket'
  BY <1>2 DEF Browser, CreateUploadUrl, BeginPut, PutLands, PutFails, TypeOK
<1>3. ASSUME NEW q \in Requests, Handles(q) PROVE RowHasUsedTicket'
  <2>1. CASE Insert(q)
    BY <2>1 DEF Insert, TicketAfterUse, TypeOK
  <2>2. CASE RemoveRow(q)
    BY <2>2 DEF RemoveRow
  <2>3. CASE UNCHANGED <<resource, ticket, files>>
    BY <2>3
  <2> QED
    BY <1>3, <2>1, <2>2, <2>3
    DEF Handles, Verify, Sniff, RecordOrphan, RemoveObject, Fail
<1>4. CASE PurgeRow
  BY <1>4 DEF PurgeRow
<1>5. CASE UNCHANGED <<resource, ticket, files>>
  BY <1>5
<1> QED
  BY <1>1, <1>2, <1>3, <1>4, <1>5
  DEF Next, Clock, Expire, Age, Calls, BeginRegister, BeginRemove,
      Purge, BeginPurge, PurgeKeys, PurgeObject, PurgeFails,
      Cleanup, CleanStart, CleanMarker, CleanErase, CleanEraseFails, CleanSettle,
      SweepList, SweepKnown, SweepHead, SweepErase, SweepEraseFails, CleanEnds, vars

\* What a request is about to register has been looked at, and so has what is
\* registered.
LEMMA GenuineStep ==
  TypeOK /\ SniffOK /\ RegisteredIsGenuine /\ [Next]_vars => SniffOK' /\ RegisteredIsGenuine'
<1> SUFFICES ASSUME TypeOK, SniffOK, RegisteredIsGenuine, [Next]_vars
             PROVE  SniffOK' /\ RegisteredIsGenuine'
  OBVIOUS
<1> USE DEF SniffOK, RegisteredIsGenuine, uploading
<1>1. ASSUME NEW q \in Requests, Calls(q) PROVE SniffOK' /\ RegisteredIsGenuine'
  BY <1>1 DEF Calls, BeginRegister, BeginRemove, TypeOK
<1>2. ASSUME NEW q \in Requests, Handles(q) PROVE SniffOK' /\ RegisteredIsGenuine'
  BY <1>2 DEF Handles, Verify, Sniff, Accepted, Insert, RecordOrphan, RemoveObject,
              RemoveRow, Fail, Goto, TypeOK
<1>3. CASE PurgeRow
  BY <1>3 DEF PurgeRow
<1>4. CASE UNCHANGED <<genuine, files, pc, key>>
  BY <1>4
<1> QED
  BY <1>1, <1>2, <1>3, <1>4
  DEF Next, Lifecycle, ChangeStatus, SoftDelete, Restore,
      Browser, CreateUploadUrl, BeginPut, PutLands, PutFails, Clock, Expire, Age,
      Purge, BeginPurge, PurgeKeys, PurgeObject, PurgeFails,
      Cleanup, CleanStart, CleanMarker, CleanErase, CleanEraseFails, CleanSettle,
      SweepList, SweepKnown, SweepHead, SweepErase, SweepEraseFails, CleanEnds, vars

-----------------------------------------------------------------------------
(* The sweep.                                                              *)

\* What nobody can register any more stays so, and out of the table.
LEMMA OverStays ==
  ASSUME TypeOK, [Next]_vars, NEW k \in Keys, Over(k)
  PROVE  Over(k)' /\ (k \notin files => k \notin files')
<1> USE DEF Over, Registering, uploading
<1>1. ASSUME NEW l \in Keys, Browser(l) PROVE Over(k)' /\ (k \notin files => k \notin files')
  BY <1>1 DEF Browser, CreateUploadUrl, BeginPut, PutLands, PutFails
<1>2. ASSUME NEW l \in Keys, Clock(l) PROVE Over(k)' /\ (k \notin files => k \notin files')
  BY <1>2 DEF Clock, Expire, Age
<1>3. ASSUME NEW q \in Requests, Calls(q) PROVE Over(k)' /\ (k \notin files => k \notin files')
  BY <1>3 DEF Calls, BeginRegister, BeginRemove, TypeOK
<1>4. ASSUME NEW q \in Requests, Handles(q) PROVE Over(k)' /\ (k \notin files => k \notin files')
  BY <1>4 DEF Handles, Verify, Sniff, Insert, RecordOrphan, RemoveObject, RemoveRow, Fail,
              Goto, TypeOK
<1>5. CASE PurgeRow
  BY <1>5 DEF PurgeRow
<1>6. CASE UNCHANGED <<uploading, files, pc, key>>
  BY <1>6
<1> QED
  BY <1>1, <1>2, <1>3, <1>4, <1>5, <1>6
  DEF Next, Lifecycle, ChangeStatus, SoftDelete, Restore,
      Purge, BeginPurge, PurgeKeys, PurgeObject, PurgeFails,
      Cleanup, CleanStart, CleanMarker, CleanErase, CleanEraseFails, CleanSettle,
      SweepList, SweepKnown, SweepHead, SweepErase, SweepEraseFails, CleanEnds, vars

\* An object grows old only when its key is over: the age the script asks for
\* is longer than a ticket lives.
LEMMA AgeStep == TypeOK /\ TypeOK' /\ AgeOK /\ [Next]_vars => AgeOK'
<1> SUFFICES ASSUME TypeOK, TypeOK', AgeOK, [Next]_vars PROVE AgeOK'
  OBVIOUS
<1>1. \A k \in Keys : Over(k) => Over(k)'
  BY OverStays
<1>2. ASSUME NEW k \in Keys, object'[k] = "old" PROVE object[k] = "old" \/ Over(k)
  <2>1. ASSUME NEW l \in Keys, Age(l) PROVE object[k] = "old" \/ Over(k)
    BY <1>2, <2>1 DEF Age, Over, TypeOK
  <2>2. ASSUME NEW l, object' = [object EXCEPT ![l] = "none"] \/ object' = [object EXCEPT ![l] = "fresh"]
        PROVE  object[k] = "old"
    BY <1>2, <2>2 DEF TypeOK
  <2>3. CASE UNCHANGED object
    BY <1>2, <2>3
  <2> QED
    BY <2>1, <2>2, <2>3
    DEF Next, Lifecycle, ChangeStatus, SoftDelete, Restore, WithoutObject,
        Browser, CreateUploadUrl, BeginPut, PutLands, PutFails, Clock, Expire,
        Calls, BeginRegister, BeginRemove,
        Handles, Verify, Sniff, Insert, RecordOrphan, RemoveObject, RemoveRow, Fail,
        Purge, BeginPurge, PurgeKeys, PurgeObject, PurgeRow, PurgeFails,
        Cleanup, CleanStart, CleanMarker, CleanErase, CleanEraseFails, CleanSettle,
        SweepList, SweepKnown, SweepHead, SweepErase, SweepEraseFails, CleanEnds, vars
<1>3. ASSUME NEW k \in cleanAged' PROVE k \in Keys /\ Over(k)
  <2>1. CASE SweepKnown
    BY <1>3, <2>1 DEF SweepKnown, AgeOK
  <2>2. CASE cleanAged' = {}
    BY <1>3, <2>2
  <2>3. CASE UNCHANGED cleanAged
    BY <1>3, <2>3 DEF AgeOK, TypeOK
  <2> QED
    BY <2>1, <2>2, <2>3
    DEF Next, Lifecycle, ChangeStatus, SoftDelete, Restore, cleaner,
        Browser, CreateUploadUrl, BeginPut, PutLands, PutFails, Clock, Expire, Age,
        Calls, BeginRegister, BeginRemove,
        Handles, Verify, Sniff, Insert, RecordOrphan, RemoveObject, RemoveRow, Fail,
        Purge, BeginPurge, PurgeKeys, PurgeObject, PurgeRow, PurgeFails,
        Cleanup, CleanStart, CleanMarker, CleanErase, CleanEraseFails, CleanSettle,
        SweepList, SweepHead, SweepErase, SweepEraseFails, CleanEnds, vars
<1> QED
  BY <1>1, <1>2, <1>3 DEF AgeOK

LEMMA SweepStep == TypeOK /\ AgeOK /\ SweepOK /\ [Next]_vars => SweepOK'
<1> SUFFICES ASSUME TypeOK, AgeOK, SweepOK, [Next]_vars PROVE SweepOK'
  OBVIOUS
<1>1. \A k \in cleanAged : k \notin files => k \notin files'
  BY OverStays DEF AgeOK, TypeOK
<1>2. CASE UNCHANGED <<cleanPc, cleanTodo, cleanKey, cleanAged>>
  BY <1>1, <1>2 DEF SweepOK
<1>3. CASE SweepKnown
  BY <1>3 DEF SweepKnown, SweepOK, Known
<1>4. ASSUME NEW k \in Keys, NEW stored \in BOOLEAN, SweepHead(k, stored) PROVE SweepOK'
  BY <1>4 DEF SweepHead, SweepOK, OldEnough
<1>5. CASE SweepErase \/ SweepEraseFails
  BY <1>5 DEF SweepErase, SweepEraseFails, SweepOK
<1>6. CASE cleanPc' \notin {"sweep", "sweepErase"}
  BY <1>6 DEF SweepOK
<1> QED
  BY <1>2, <1>3, <1>4, <1>5, <1>6
  DEF Next, Lifecycle, ChangeStatus, SoftDelete, Restore, cleaner,
      Browser, CreateUploadUrl, BeginPut, PutLands, PutFails, Clock, Expire, Age,
      Calls, BeginRegister, BeginRemove,
      Handles, Verify, Sniff, Insert, RecordOrphan, RemoveObject, RemoveRow, Fail,
      Purge, BeginPurge, PurgeKeys, PurgeObject, PurgeRow, PurgeFails,
      Cleanup, CleanStart, CleanMarker, AfterHead, CleanErase, CleanEraseFails,
      CleanSettle, SweepList, CleanEnds, vars

-----------------------------------------------------------------------------
(* The theorems.                                                           *)

IInv ==
  /\ TypeOK /\ RowHasUsedTicket /\ SniffOK /\ RegisteredIsGenuine
  /\ AgeOK /\ SweepOK

LEMMA InitIInv == Init => IInv
  BY DEF Init, IInv, TypeOK, RowHasUsedTicket, SniffOK, RegisteredIsGenuine, AgeOK, SweepOK

\* The inductive invariant of the registry: every step of the code keeps it.
THEOREM RegistryInvariant == Spec => []IInv
<1>1. IInv /\ [Next]_vars => IInv'
  BY TypeStep, RowStep, GenuineStep, AgeStep, SweepStep DEF IInv
<1> QED
  BY <1>1, InitIInv, PTL DEF Spec

\* The tables, the object store and the processes keep their types, whatever
\* fails: in particular a purge deletes rows only when it has erased objects.
THEOREM RegistryTypeCorrect == Spec => []TypeOK
  BY RegistryInvariant, PTL DEF IInv

\* A file's row and the use of its ticket go together (the transaction of
\* register() and the cascades of a purge), for any number of requests.
THEOREM RowAndTicketTogether == Spec => []RowHasUsedTicket
  BY RegistryInvariant, PTL DEF IInv

\* Only what passed the check of the first bytes is ever in resource_files.
THEOREM OnlyGenuineRegistered == Spec => []RegisteredIsGenuine
  BY RegistryInvariant, PTL DEF IInv

\* The sweep of cleanup-orphans.mjs never erases what a row refers to, or what
\* a request is about to register, although it reads the list of objects, the
\* table and the ages one after the other beside running registrations.
THEOREM SweepIsSafe == Spec => []SweepSparesFiles
<1>1. IInv => SweepSparesFiles
  BY DEF IInv, SweepSparesFiles, SweepOK, AgeOK, Over
<1> QED
  BY <1>1, RegistryInvariant, PTL
=============================================================================
