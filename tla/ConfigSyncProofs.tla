-------------------------- MODULE ConfigSyncProofs --------------------------
(***************************************************************************)
(* Proofs about ConfigSync: type correctness, and that the hand-over       *)
(* between the event loop and the writer thread loses no change of the     *)
(* main configuration, for any keys, values and numbers of faults.         *)
(***************************************************************************)
EXTENDS ConfigSync, FiniteSetTheorems, TLAPS

\* The size of a dictionary is a number.
LEMMA PresentFinite ==
    ASSUME NEW area, area \subseteq Key
    PROVE  Cardinality(Present(area)) \in Nat
  <1>1. IsFiniteSet(Present(area))
    BY KeysFinite, FS_Subset DEF Present
  <1> QED BY <1>1, FS_CardinalityType

\* The flags stay Boolean.
LEMMA FlagsStay == FlagsOK /\ [Next]_vars => FlagsOK'
  <1> SUFFICES ASSUME FlagsOK, [Next]_vars PROVE FlagsOK'
    OBVIOUS
  <1> USE DEF FlagsOK, mainvars, syncvars, diskvars, histvars, writer,
              NoWriter, NewWriter, Goto, Skip, BgSync, Take, Die, ReadFromPath
  <1>1. CASE UNCHANGED vars
    BY <1>1, Zenon DEF vars
  <1>2. CASE MainNext
    BY <1>2, Zenon DEF MainNext, CountTransaction, ChangeMain, AddMember,
       SetGlobalMark, DelMember, MarkDirty, MarkDeleted, Dissolve,
       SetGlobalAssign, RequestSync, FlushRequest, FlushStart, FlushDone,
       FlushReturn, Unclean
  <1>3. CASE WriterStep
    BY <1>3, Zenon DEF WriterStep, TruncateTx, WriteTx, StartGlobals,
       StartCollective, StartMain, WriteKey, CloseFile, IterationError, Finish
  <1>4. CASE IOError \/ Recreate \/ Shutdown \/ Crash
    BY <1>4, Zenon DEF IOError, Recreate, Shutdown, Crash
  <1> QED BY <1>1, <1>2, <1>3, <1>4 DEF Next

\* Every step of the event loop keeps the types.
LEMMA MainTypes == TypeOK /\ MainNext => TypeOK'
  <1> SUFFICES ASSUME TypeOK, MainNext PROVE TypeOK'
    OBVIOUS
  <1>0. FlagsOK'
    BY FlagsStay DEF TypeOK, Next
  <1> USE DEF TypeOK, mainvars, syncvars, diskvars, histvars, MainPc, WriterPc,
              Key, writer, NoWriter, NewWriter
  <1>1. CASE CountTransaction
    BY <1>0, <1>1 DEF CountTransaction
  <1>2. ASSUME NEW k \in Key, NEW v \in Value \cup {Absent},
               ChangeMain(k, v) PROVE TypeOK'
    BY <1>0, <1>2 DEF ChangeMain
  <1>3. ASSUME NEW k \in Key, NEW v \in Value \cup {Absent},
               AddMember(k, v) PROVE TypeOK'
    BY <1>0, <1>3 DEF AddMember
  <1>4. ASSUME NEW k \in Key, NEW v \in Value \cup {Absent},
               SetGlobalMark(k, v) PROVE TypeOK'
    BY <1>0, <1>4 DEF SetGlobalMark
  <1>5. ASSUME NEW k \in Key, DelMember(k) PROVE TypeOK'
    BY <1>0, <1>5 DEF DelMember, Present
  <1>6. CASE MarkDirty
    BY <1>0, <1>6 DEF MarkDirty
  <1>7. CASE MarkDeleted
    BY <1>0, <1>7 DEF MarkDeleted
  <1>8. CASE Dissolve
    BY <1>0, <1>8 DEF Dissolve
  <1>9. CASE SetGlobalAssign
    BY <1>0, <1>9 DEF SetGlobalAssign
  <1>10. CASE RequestSync
    BY <1>0, <1>10 DEF RequestSync, BgSync, Unclean
  <1>11. CASE FlushRequest \/ FlushDone \/ FlushReturn
    BY <1>0, <1>11 DEF FlushRequest, FlushDone, FlushReturn
  <1>12. ASSUME NEW fullsync \in BOOLEAN, FlushStart(fullsync) PROVE TypeOK'
    BY <1>0, <1>12 DEF FlushStart, BgSync, Unclean
  <1> QED
    BY <1>1, <1>2, <1>3, <1>4, <1>5, <1>6, <1>7, <1>8, <1>9, <1>10, <1>11,
       <1>12 DEF MainNext

\* Taking the marks of an area leaves keys in the batch and in the marks.
LEMMA TakeTypes ==
    ASSUME TypeOK, FlagsOK', NEW area, area \subseteq Key, NEW pc \in WriterPc,
           Take(area, pc)
    PROVE  TypeOK'
  <1>1. batch' \subseteq Key
    BY DEF Take, TypeOK, Present
  <1>2. dirty' \subseteq Key
    BY DEF Take, TypeOK
  <1>3. size' \in Nat
    BY PresentFinite DEF Take
  <1>4. wpc' \in WriterPc
    BY DEF Take
  <1> QED BY <1>1, <1>2, <1>3, <1>4 DEF Take, TypeOK, diskvars, histvars

\* Every step of the writer thread, failures included, and every restart
\* keeps the types.
LEMMA WriterTypes ==
    TypeOK /\ (WriterStep \/ IOError \/ Recreate \/ Shutdown \/ Crash) => TypeOK'
  <1> SUFFICES ASSUME TypeOK,
                      WriterStep \/ IOError \/ Recreate \/ Shutdown \/ Crash
               PROVE  TypeOK'
    OBVIOUS
  <1>0. FlagsOK'
    BY FlagsStay DEF TypeOK, Next
  <1> USE DEF TypeOK, mainvars, syncvars, diskvars, histvars, MainPc, WriterPc,
              writer, NoWriter, NewWriter, Goto, Skip
  <1>1. CASE TruncateTx \/ WriteTx
    BY <1>0, <1>1 DEF TruncateTx, WriteTx
  <1>2. CASE StartGlobals
    <2>1. CASE Take(GlobalKey, "wglobals")
      BY <1>0, <2>1, TakeTypes DEF Key
    <2> QED BY <1>0, <1>2, <2>1 DEF StartGlobals
  <1>3. CASE StartCollective
    <2>1. CASE Take(MemberKey, "wcollective")
      BY <1>0, <2>1, TakeTypes DEF Key
    <2> QED BY <1>0, <1>3, <2>1 DEF StartCollective
  <1>4. CASE StartMain
    <2>1. CASE Take(MainKey, "wmain")
      BY <1>0, <2>1, TakeTypes DEF Key
    <2> QED BY <1>0, <1>4, <2>1 DEF StartMain
  <1>5. ASSUME NEW k \in Key, WriteKey(k) PROVE TypeOK'
    BY <1>0, <1>5 DEF WriteKey
  <1>6. CASE CloseFile
    BY <1>0, <1>6 DEF CloseFile, AfterArea
  <1>7. CASE IterationError \/ IOError
    BY <1>0, <1>7, BoundsAreNat DEF IterationError, IOError, Die
  <1>8. CASE Finish
    BY <1>0, <1>8 DEF Finish
  <1>9. CASE Recreate
    BY <1>0, <1>9, BoundsAreNat DEF Recreate
  <1>10. CASE Shutdown \/ Crash
    BY <1>0, <1>10, BoundsAreNat DEF Shutdown, Crash, ReadFromPath
  <1> QED
    BY <1>1, <1>2, <1>3, <1>4, <1>5, <1>6, <1>7, <1>8, <1>9, <1>10
    DEF WriterStep

\* Type correctness: no interleaving of the two threads, no fault and no
\* restart from the files leaves a variable outside its domain.
THEOREM TypeCorrect == Spec => []TypeOK
  <1>1. Init => TypeOK
    <2>1. Init => FlagsOK
      BY Zenon DEF Init, FlagsOK
    <2> QED BY <2>1 DEF Init, TypeOK, MainPc, WriterPc
  <1>2. TypeOK /\ [Next]_vars => TypeOK'
    <2>1. TypeOK /\ UNCHANGED vars => TypeOK'
      BY DEF TypeOK, vars, mainvars, syncvars, diskvars, histvars,
             writer, FlagsOK
    <2> QED BY <2>1, MainTypes, WriterTypes DEF Next
  <1> QED BY <1>1, <1>2, PTL DEF Spec
-----------------------------------------------------------------------------

\* No step of the event loop breaks SyncInv.  Changing a key excuses it until
\* MarkDirty marks it, and the sync that follows the mark will take it.
LEMMA MainKeepsSyncInv == TypeOK /\ SyncInv /\ MainNext => SyncInv'
  <1> SUFFICES ASSUME TypeOK, SyncInv, MainNext, ~died' PROVE SyncInv'
    BY DEF SyncInv
  <1>0. ~died
    BY DEF MainNext, CountTransaction, ChangeMain, AddMember, SetGlobalMark,
           DelMember, MarkDirty, MarkDeleted, Dissolve, SetGlobalAssign,
           RequestSync, FlushRequest, FlushStart, FlushDone, FlushReturn,
           histvars
  <1> USE <1>0 DEF SyncInv, FlagsTellWriter, FullOnlyInFlush, BehindIsKnown,
                   Behind, MarksAreTaken, CountFlushed,
                   mainvars, syncvars, diskvars, histvars, writer
  <1>1. CASE CountTransaction
    BY <1>1 DEF CountTransaction
  <1>2. ASSUME NEW k \in Key, NEW v \in Value \cup {Absent},
               ChangeMain(k, v) PROVE SyncInv'
    BY <1>2 DEF ChangeMain, TypeOK
  <1>3. ASSUME NEW k \in Key, NEW v \in Value \cup {Absent},
               AddMember(k, v) PROVE SyncInv'
    BY <1>3, KeysDisjoint DEF AddMember, TypeOK
  <1>4. ASSUME NEW k \in Key, NEW v \in Value \cup {Absent},
               SetGlobalMark(k, v) PROVE SyncInv'
    BY <1>4, KeysDisjoint DEF SetGlobalMark, TypeOK
  <1>5. ASSUME NEW k \in Key, DelMember(k) PROVE SyncInv'
    BY <1>5, KeysDisjoint DEF DelMember, Present, TypeOK
  <1>6. CASE MarkDirty
    BY <1>6 DEF MarkDirty, TypeOK
  <1>7. CASE MarkDeleted
    BY <1>7, KeysDisjoint DEF MarkDeleted, TypeOK
  <1>8. CASE Dissolve
    BY <1>8, KeysDisjoint DEF Dissolve, Key
  <1>9. CASE SetGlobalAssign
    BY <1>9, KeysDisjoint DEF SetGlobalAssign, TypeOK
  <1>10. CASE RequestSync
    BY <1>10 DEF RequestSync, BgSync, Unclean, NewWriter, BeforeMain
  <1>11. CASE FlushRequest \/ FlushDone \/ FlushReturn
    BY <1>11 DEF FlushRequest, FlushDone, FlushReturn
  <1>12. ASSUME NEW fullsync \in BOOLEAN, FlushStart(fullsync) PROVE SyncInv'
    BY <1>12 DEF FlushStart, BgSync, Unclean, NewWriter, BeforeMain
  <1> QED
    BY <1>1, <1>2, <1>3, <1>4, <1>5, <1>6, <1>7, <1>8, <1>9, <1>10, <1>11,
       <1>12 DEF MainNext

\* No step of the writer thread and no restart breaks SyncInv.  Taking the
\* marks moves the keys that are behind from the marks to the batch; a full
\* sync leaves the marks, but then there are none of main keys.
LEMMA WriterKeepsSyncInv ==
    /\ TypeOK /\ SyncInv
    /\ WriterStep \/ IOError \/ Recreate \/ Shutdown \/ Crash
    => SyncInv'
  <1> SUFFICES ASSUME TypeOK, SyncInv, ~died',
                      WriterStep \/ IOError \/ Recreate \/ Shutdown \/ Crash
               PROVE  SyncInv'
    BY DEF SyncInv
  <1>1. CASE Shutdown \/ Crash
    BY <1>1 DEF Shutdown, Crash, ReadFromPath, NoWriter, SyncInv,
       FlagsTellWriter, FullOnlyInFlush, BehindIsKnown, MarksAreTaken,
       CountFlushed, diskvars
  <1>2. CASE IterationError \/ IOError
    BY <1>2 DEF IterationError, IOError, Die
  <1> SUFFICES ASSUME ~(Shutdown \/ Crash), ~(IterationError \/ IOError)
               PROVE  SyncInv'
    BY <1>1, <1>2
  <1>0. ~died
    BY DEF WriterStep, TruncateTx, WriteTx, StartGlobals, StartCollective,
           StartMain, Take, Skip, WriteKey, CloseFile, Finish, Recreate,
           histvars
  <1> USE <1>0 DEF SyncInv, FlagsTellWriter, FullOnlyInFlush, BehindIsKnown,
                   Behind, MarksAreTaken, CountFlushed, BeforeMain,
                   mainvars, syncvars, diskvars, histvars, writer, Goto, Skip
  <1>3. CASE TruncateTx \/ WriteTx
    BY <1>3 DEF TruncateTx, WriteTx
  <1>4. CASE StartGlobals
    BY <1>4, KeysDisjoint DEF StartGlobals, Take
  <1>5. CASE StartCollective
    BY <1>5, KeysDisjoint DEF StartCollective, Take, Key
  <1>6. CASE StartMain
    BY <1>6 DEF StartMain, Take, Due, Present
  <1>7. ASSUME NEW k \in Key, WriteKey(k) PROVE SyncInv'
    BY <1>7 DEF WriteKey, TypeOK
  <1>8. CASE CloseFile
    BY <1>8 DEF CloseFile, AfterArea, Writing
  <1>9. CASE Finish
    BY <1>9 DEF Finish, NoWriter, NewWriter
  <1>10. CASE Recreate
    <2>1. CASE wpc = "wmain"
      <3>1. OpenArea = MainKey
        BY <2>1 DEF OpenArea
      <3>2. \A k \in MainKey : disk'[k] = Absent /\ (store[k] # Absent => k \in batch)
        BY <1>10, <3>1 DEF Recreate, Present, Key
      <3> QED BY <1>10, <2>1, <3>2 DEF Recreate
    <2>2. CASE wpc # "wmain"
      <3>1. OpenArea \cap MainKey = {}
        BY <1>10, <2>2, KeysDisjoint DEF Recreate, Writing, OpenArea
      <3>2. \A k \in MainKey : disk'[k] = disk[k]
        BY <1>10, <3>1 DEF Recreate, Key
      <3> QED BY <1>10, <2>2, <3>2 DEF Recreate
    <2> QED BY <2>1, <2>2
  <1> QED
    BY <1>3, <1>4, <1>5, <1>6, <1>7, <1>8, <1>9, <1>10 DEF WriterStep

\* SyncInv is an invariant.
LEMMA SyncInvariant == Spec => []SyncInv
  <1>1. Init => SyncInv
    BY DEF Init, SyncInv, FlagsTellWriter, FullOnlyInFlush, BehindIsKnown,
           MarksAreTaken, CountFlushed
  <1>2. TypeOK /\ SyncInv /\ [Next]_vars => SyncInv'
    <2>1. SyncInv /\ UNCHANGED vars => SyncInv'
      BY DEF SyncInv, FlagsTellWriter, FullOnlyInFlush, BehindIsKnown, Behind,
             MarksAreTaken, CountFlushed, vars, mainvars, syncvars, diskvars,
             histvars, writer
    <2> QED BY <2>1, MainKeepsSyncInv, WriterKeepsSyncInv DEF Next
  <1> QED BY <1>1, <1>2, TypeCorrect, PTL DEF Spec

\* _bg_sync_to_file and _sync_to_file lose no change of the main
\* configuration: whenever no sync is running, the files agree with memory.
THEOREM MainIsDurable == Spec => []MainDurable
  <1>1. TypeOK /\ SyncInv => MainDurable
    BY DEF SyncInv, MainDurable, Quiescent, Saved, FlagsTellWriter,
           BehindIsKnown, Behind, MarksAreTaken, BeforeMain
  <1> QED BY <1>1, TypeCorrect, SyncInvariant, PTL

\* When wait_for_sync returns, the main configuration and the transaction
\* count are in the files.
THEOREM FlushIsDurable == Spec => []FlushDurable
  <1>1. TypeOK /\ SyncInv => FlushDurable
    BY DEF SyncInv, FlushDurable, Saved, FlagsTellWriter, BehindIsKnown,
           Behind, MarksAreTaken, BeforeMain, CountFlushed
  <1> QED BY <1>1, TypeCorrect, SyncInvariant, PTL
-----------------------------------------------------------------------------

\* No step of the event loop breaks RecoveryInv.
LEMMA MainKeepsRecoveryInv == TypeOK /\ RecoveryInv /\ MainNext => RecoveryInv'
  <1> SUFFICES ASSUME TypeOK, RecoveryInv, MainNext PROVE RecoveryInv'
    OBVIOUS
  <1> USE DEF RecoveryInv, StillToWrite, Unclean,
              mainvars, syncvars, diskvars, histvars, writer
  <1>1. CASE CountTransaction
    BY <1>1 DEF CountTransaction
  <1>2. ASSUME NEW k \in Key, NEW v \in Value \cup {Absent},
               ChangeMain(k, v) PROVE RecoveryInv'
    BY <1>2 DEF ChangeMain, TypeOK
  <1>3. ASSUME NEW k \in Key, NEW v \in Value \cup {Absent},
               AddMember(k, v) PROVE RecoveryInv'
    BY <1>3, KeysDisjoint DEF AddMember, TypeOK
  <1>4. ASSUME NEW k \in Key, NEW v \in Value \cup {Absent},
               SetGlobalMark(k, v) PROVE RecoveryInv'
    BY <1>4 DEF SetGlobalMark
  <1>5. ASSUME NEW k \in Key, DelMember(k) PROVE RecoveryInv'
    BY <1>5, KeysDisjoint DEF DelMember, Present, TypeOK
  <1>6. CASE MarkDirty
    BY <1>6 DEF MarkDirty, TypeOK
  <1>7. CASE MarkDeleted
    BY <1>7, KeysDisjoint DEF MarkDeleted, TypeOK
  <1>8. CASE Dissolve
    BY <1>8, KeysDisjoint DEF Dissolve, Key
  <1>9. CASE SetGlobalAssign
    BY <1>9, KeysDisjoint DEF SetGlobalAssign, TypeOK
  <1>10. CASE RequestSync
    <2>1. CASE syncrunning /\ wpc # "none"
      BY <1>10, <2>1 DEF RequestSync, BgSync
    <2>2. CASE ~(syncrunning /\ wpc # "none")
      <3>1. /\ syncrunning' /\ wpc' = "truncate"
            /\ Unclean => wfull'
            /\ UNCHANGED <<store, dirty, disk>>
        BY <1>10, <2>2, Zenon DEF RequestSync, BgSync, NewWriter
      <3> QED BY <1>10, <2>2, <3>1 DEF RequestSync, BeforeMain
    <2> QED BY <2>1, <2>2
  <1>11. CASE FlushRequest \/ FlushDone \/ FlushReturn
    BY <1>11 DEF FlushRequest, FlushDone, FlushReturn
  <1>12. ASSUME NEW fullsync \in BOOLEAN, FlushStart(fullsync)
         PROVE RecoveryInv'
    BY <1>12 DEF FlushStart, BgSync, NewWriter, BeforeMain
  <1> QED
    BY <1>1, <1>2, <1>3, <1>4, <1>5, <1>6, <1>7, <1>8, <1>9, <1>10, <1>11,
       <1>12 DEF MainNext

\* Taking the marks of another area changes nothing for the main keys.
LEMMA TakeOther ==
    ASSUME TypeOK, RecoveryInv, NEW area, area \cap MainKey = {},
           NEW pc \in BeforeMain, wpc \in BeforeMain, Take(area, pc)
    PROVE  RecoveryInv'
  <1>1. \A k \in MainKey : k \in dirty => k \in dirty'
    BY DEF Take
  <1>2. wpc' \in BeforeMain /\ syncrunning'
    BY DEF Take, RecoveryInv, BeforeMain
  <1>3. UNCHANGED <<store, disk, mainpc, pend, wfull>>
    BY DEF Take, diskvars
  <1>4. wpc # "none" /\ wpc # "wmain"
    BY DEF BeforeMain
  <1> QED BY <1>1, <1>2, <1>3, <1>4 DEF RecoveryInv, StillToWrite, Unclean

\* Taking the marks of the main keys moves every one that is still to be
\* written into the batch.
LEMMA TakeMain ==
    ASSUME TypeOK, RecoveryInv, wpc = "main", Take(MainKey, "wmain")
    PROVE  RecoveryInv'
  <1>1. UNCHANGED <<store, disk, mainpc, pend, syncrunning>> /\ wpc' = "wmain"
    BY DEF Take, diskvars
  <1>2. syncrunning
    BY DEF RecoveryInv
  <1>3. ASSUME NEW k \in MainKey, store[k] \notin {Absent, disk[k]}
        PROVE  StillToWrite(k)'
    <2>1. CASE wfull
      <3>1. k \in batch'
        BY <1>3, <2>1 DEF Take, Present
      <3> QED BY <1>1, <3>1 DEF StillToWrite
    <2>2. CASE ~wfull /\ k \in dirty
      <3>1. k \in batch'
        BY <2>2 DEF Take
      <3> QED BY <1>1, <3>1 DEF StillToWrite
    <2>3. CASE ~wfull /\ k \notin dirty
      BY <1>1, <1>3, <2>3 DEF RecoveryInv, StillToWrite, Unclean
    <2> QED BY <2>1, <2>2, <2>3
  <1> QED BY <1>1, <1>2, <1>3 DEF RecoveryInv

\* No step of the writer thread breaks RecoveryInv: a writer that dies leaves
\* _syncrunning set, so a full sync is due.
LEMMA WriterKeepsRecoveryInv ==
    /\ TypeOK /\ RecoveryInv
    /\ WriterStep \/ IOError \/ Recreate \/ Shutdown \/ Crash
    => RecoveryInv'
  <1> SUFFICES ASSUME TypeOK, RecoveryInv,
                      WriterStep \/ IOError \/ Recreate \/ Shutdown \/ Crash
               PROVE  RecoveryInv'
    OBVIOUS
  <1> USE DEF RecoveryInv, StillToWrite, Unclean, BeforeMain,
              mainvars, syncvars, diskvars, histvars, writer, Goto, Skip
  <1>1. CASE Shutdown \/ Crash
    BY <1>1 DEF Shutdown, Crash, ReadFromPath, NoWriter
  <1>2. CASE IterationError \/ IOError
    BY <1>2 DEF IterationError, IOError, Die, NoWriter, Writing
  <1>3. CASE TruncateTx \/ WriteTx
    BY <1>3 DEF TruncateTx, WriteTx
  <1>4. CASE StartGlobals
    <2>1. CASE Take(GlobalKey, "wglobals")
      BY <1>4, <2>1, TakeOther, KeysDisjoint DEF StartGlobals
    <2>2. CASE Skip("collective")
      BY <1>4, <2>2 DEF StartGlobals
    <2> QED BY <1>4, <2>1, <2>2 DEF StartGlobals
  <1>5. CASE StartCollective
    <2>1. CASE Take(MemberKey, "wcollective")
      BY <1>5, <2>1, TakeOther, KeysDisjoint DEF StartCollective
    <2>2. CASE /\ \A k \in MainKey : disk'[k] = disk[k]
               /\ Goto("main")
               /\ UNCHANGED <<mainvars, syncrunning, writepending>>
      BY <1>5, <2>2 DEF StartCollective
    <2> QED BY <1>5, <2>1, <2>2, KeysDisjoint DEF StartCollective, Key
  <1>6. CASE StartMain
    <2>1. CASE Skip("finish") /\ ~Due(MainKey)
      BY <1>6, <2>1 DEF StartMain, Due
    <2>2. CASE Take(MainKey, "wmain")
      BY <1>6, <2>2, TakeMain DEF StartMain
    <2> QED BY <1>6, <2>1, <2>2 DEF StartMain
  <1>7. ASSUME NEW k \in Key, WriteKey(k) PROVE RecoveryInv'
    <2>1. \A j \in MainKey : j # k => disk'[j] = disk[j]
      BY <1>7 DEF WriteKey, TypeOK
    <2>2. store[k] = Absent \/ disk'[k] = store[k]
      BY <1>7 DEF WriteKey, TypeOK
    <2> QED BY <1>7, <2>1, <2>2 DEF WriteKey
  <1>8. CASE CloseFile
    BY <1>8 DEF CloseFile, AfterArea, Writing
  <1>9. CASE Finish
    BY <1>9 DEF Finish, NoWriter, NewWriter
  <1>10. CASE Recreate
    <2>1. CASE wpc = "wmain"
      <3>1. OpenArea = MainKey
        BY <2>1 DEF OpenArea
      <3>2. \A k \in MainKey : store[k] # Absent => k \in batch
        BY <1>10, <3>1 DEF Recreate, Present
      <3> QED BY <1>10, <2>1, <3>2 DEF Recreate
    <2>2. CASE wpc # "wmain"
      <3>1. OpenArea \cap MainKey = {}
        BY <1>10, <2>2, KeysDisjoint DEF Recreate, Writing, OpenArea
      <3>2. \A k \in MainKey : disk'[k] = disk[k]
        BY <1>10, <3>1 DEF Recreate, Key
      <3> QED BY <1>10, <2>2, <3>2 DEF Recreate
    <2> QED BY <2>1, <2>2
  <1> QED
    BY <1>1, <1>2, <1>3, <1>4, <1>5, <1>6, <1>7, <1>8, <1>9, <1>10
    DEF WriterStep

\* Whatever writer threads die and whenever the process crashes, no node,
\* group or user that is in memory is missing from the files, or old in
\* them, once a sync has ended (_bg_sync_to_file's full sync as a recovery).
THEOREM RecoveryIsSafe == Spec => []RecoveryKeepsPresent
  <1>1. Init => RecoveryInv
    BY DEF Init, RecoveryInv
  <1>2. TypeOK /\ RecoveryInv /\ [Next]_vars => RecoveryInv'
    <2>1. RecoveryInv /\ UNCHANGED vars => RecoveryInv'
      BY DEF RecoveryInv, StillToWrite, Unclean, vars, mainvars, syncvars,
             diskvars, histvars, writer
    <2> QED BY <2>1, MainKeepsRecoveryInv, WriterKeepsRecoveryInv DEF Next
  <1>3. RecoveryInv => RecoveryKeepsPresent
    BY DEF RecoveryInv, RecoveryKeepsPresent, StillToWrite, Unclean,
           Quiescent, Saved, Present, BeforeMain
  <1> QED BY <1>1, <1>2, <1>3, TypeCorrect, PTL DEF Spec
=============================================================================
