----------------------------- MODULE ConfigSync -----------------------------
(***************************************************************************)
(* Persistence of the configuration database: the event loop changes the   *)
(* in-memory _cfgstore, marks what it changed as dirty and asks for a      *)
(* background sync (_bg_sync_to_file); a writer thread (_sync_to_file)     *)
(* copies the marked keys to the dbm files.  The two threads interleave at *)
(* every step; the process may crash and restart from the files.           *)
(*                                                                         *)
(* The keys of _cfgstore['globals'], of _cfgstore['collective'] and of one *)
(* category of _cfgstore['main'] are three disjoint sets, because          *)
(* _sync_to_file treats the three areas differently.                       *)
(***************************************************************************)
EXTENDS Naturals, FiniteSets

CONSTANTS GlobalKey,   \* keys of _cfgstore['globals']
          MemberKey,   \* keys of _cfgstore['collective']
          MainKey,     \* keys of _cfgstore['main'][category]
          Value,       \* values a key may hold
          Absent,      \* the key is not in the dictionary
          MaxTx,       \* bound on _txcount
          MaxFault      \* bound on crashes and I/O failures

Key == GlobalKey \cup MemberKey \cup MainKey

ASSUME KeysDisjoint ==
    /\ GlobalKey \cap MemberKey = {}
    /\ GlobalKey \cap MainKey = {}
    /\ MemberKey \cap MainKey = {}
ASSUME AbsentIsNoValue == Absent \notin Value
ASSUME BoundsAreNat == MaxTx \in Nat /\ MaxFault \in Nat
ASSUME KeysFinite == IsFiniteSet(Key)

VARIABLES
    store,        \* _cfgstore: the value of every key, or Absent
    dirty,        \* dirtyglobals, collectivedirty and dirtykeys
    txcount,      \* _txcount
    mainpc,       \* where the event loop is
    pend,         \* the key (and value) of the change it is making
    syncrunning,  \* ConfigManager._syncrunning
    writepending, \* ConfigManager._writepending
    wpc,          \* where the writer thread (_cfgwriter) is, "none" if ended
    wfull,        \* its argument fullsync
    batch,        \* the keys it still has to write to the open file
    size,         \* the size of the dictionary it iterates
    disk,         \* the dbm files
    disktx,       \* the transactioncount file, Absent while it is truncated
    faults,        \* crashes and I/O failures so far
    died          \* history: a writer thread of this process has died

mainvars == <<store, dirty, txcount, mainpc, pend>>
writer == <<wpc, wfull, batch, size>>
syncvars == <<syncrunning, writepending, writer>>
diskvars == <<disk, disktx>>
histvars == <<faults, died>>
vars == <<mainvars, syncvars, diskvars, histvars>>

\* The keys of an area that are in the dictionary.
Present(area) == {k \in area : store[k] # Absent}

\* The writer thread ends, or a new one starts.
NoWriter == wpc' = "none" /\ wfull' = FALSE /\ batch' = {} /\ size' = 0
NewWriter(fullsync) ==
    wpc' = "truncate" /\ wfull' = fullsync /\ batch' = {} /\ size' = 0
WriterPc == {"none", "truncate", "txcount", "globals", "wglobals",
             "collective", "wcollective", "main", "wmain", "finish"}

Init ==
    /\ store \in [Key -> Value \cup {Absent}]
    /\ Cardinality(Present(MemberKey)) # 1
    /\ disk = store
    /\ txcount = 0 /\ disktx = 0
    /\ dirty = {}
    /\ mainpc = "idle" /\ pend = <<>>
    /\ syncrunning = FALSE /\ writepending = FALSE
    /\ wpc = "none" /\ wfull = FALSE /\ batch = {} /\ size = 0
    /\ faults = 0 /\ died = FALSE

-----------------------------------------------------------------------------
(* The event loop.                                                         *)

\* exec_on_followers_unconditional counts the transaction before anybody,
\* this process included, applies it.
CountTransaction ==
    /\ mainpc = "idle"
    /\ txcount < MaxTx
    /\ txcount' = txcount + 1
    /\ UNCHANGED <<store, dirty, mainpc, pend, syncvars, diskvars, histvars>>

\* The _true_set_* and _true_del_* methods change the dictionary first
\* (v = Absent is a deletion) and mark the key afterwards.
ChangeMain(k, v) ==
    /\ mainpc = "idle"
    /\ k \in MainKey /\ store[k] # v
    /\ store' = [store EXCEPT ![k] = v]
    /\ pend' = <<k>>
    /\ mainpc' = "mark"
    /\ UNCHANGED <<dirty, txcount, syncvars, diskvars, histvars>>

\* _true_add_collective_member
AddMember(k, v) ==
    /\ mainpc = "idle"
    /\ k \in MemberKey /\ v \in Value
    /\ store' = [store EXCEPT ![k] = v]
    /\ pend' = <<k>>
    /\ mainpc' = "mark"
    /\ UNCHANGED <<dirty, txcount, syncvars, diskvars, histvars>>

\* _true_del_collective_member: a collective of fewer than two members is
\* deleted altogether, after the departed member was marked.
DelMember(k) ==
    /\ mainpc = "idle"
    /\ k \in Present(MemberKey)
    /\ store' = [store EXCEPT ![k] = Absent]
    /\ pend' = <<k>>
    /\ mainpc' = "markdel"
    /\ UNCHANGED <<dirty, txcount, syncvars, diskvars, histvars>>

\* _mark_dirtykey, and the same lines of _true_add_collective_member
MarkDirty ==
    /\ mainpc = "mark"
    /\ dirty' = dirty \cup {pend[1]}
    /\ mainpc' = "sync"
    /\ pend' = <<>>
    /\ UNCHANGED <<store, txcount, syncvars, diskvars, histvars>>

MarkDeleted ==
    /\ mainpc = "markdel"
    /\ dirty' = dirty \cup {pend[1]}
    /\ mainpc' = "dissolve"
    /\ pend' = <<>>
    /\ UNCHANGED <<store, txcount, syncvars, diskvars, histvars>>

Dissolve ==
    /\ mainpc = "dissolve"
    /\ store' = IF Cardinality(Present(MemberKey)) < 2
                THEN [k \in Key |-> IF k \in MemberKey THEN Absent ELSE store[k]]
                ELSE store
    /\ mainpc' = "sync"
    /\ UNCHANGED <<dirty, txcount, pend, syncvars, diskvars, histvars>>

\* set_global marks the key first and assigns the value afterwards.
SetGlobalMark(k, v) ==
    /\ mainpc = "idle"
    /\ k \in GlobalKey /\ v \in Value
    /\ dirty' = dirty \cup {k}
    /\ pend' = <<k, v>>
    /\ mainpc' = "assign"
    /\ UNCHANGED <<store, txcount, syncvars, diskvars, histvars>>

SetGlobalAssign ==
    /\ mainpc = "assign"
    /\ store' = [store EXCEPT ![pend[1]] = pend[2]]
    /\ pend' = <<>>
    /\ mainpc' = "sync"
    /\ UNCHANGED <<dirty, txcount, syncvars, diskvars, histvars>>

\* The writer died without clearing _syncrunning.
Unclean == syncrunning /\ wpc = "none"

\* Mutants of BgSync: no full sync after an unclean one; a running writer is
\* not told of the request.
BgSyncNeverRecovers(fullsync) ==
    IF syncrunning /\ wpc # "none"
    THEN /\ writepending' = TRUE
         /\ UNCHANGED <<syncrunning, writer>>
    ELSE /\ syncrunning' = TRUE
         /\ NewWriter(fullsync)
         /\ UNCHANGED writepending

BgSyncForgets(fullsync) ==
    IF syncrunning /\ wpc # "none"
    THEN UNCHANGED syncvars
    ELSE /\ syncrunning' = TRUE
         /\ NewWriter(fullsync \/ Unclean)
         /\ UNCHANGED writepending

\* _bg_sync_to_file: hand the work to the running writer, or start one; a
\* writer that died makes the next one a full sync.
BgSync(fullsync) ==
    IF syncrunning /\ wpc # "none"
    THEN /\ writepending' = TRUE
         /\ UNCHANGED <<syncrunning, writer>>
    ELSE /\ syncrunning' = TRUE
         /\ NewWriter(fullsync \/ Unclean)
         /\ UNCHANGED writepending

RequestSync ==
    /\ mainpc = "sync"
    /\ BgSync(FALSE)
    /\ mainpc' = "idle"
    /\ UNCHANGED <<store, dirty, txcount, pend, diskvars, histvars>>

\* wait_for_sync: join the writer, sync, join again.  The event loop does
\* nothing else meanwhile.
FlushRequest ==
    /\ mainpc = "idle"
    /\ mainpc' = "join"
    /\ UNCHANGED <<store, dirty, txcount, pend, syncvars, diskvars, histvars>>

\* Mutant of FlushStart: only waits for the running writer.
FlushStartOnlyJoins(fullsync) ==
    /\ mainpc = "join"
    /\ wpc = "none"
    /\ mainpc' = "flush"
    /\ UNCHANGED <<store, dirty, txcount, pend, syncvars, diskvars, histvars>>

FlushStart(fullsync) ==
    /\ mainpc = "join"
    /\ wpc = "none"
    /\ BgSync(fullsync)
    /\ mainpc' = "flush"
    /\ UNCHANGED <<store, dirty, txcount, pend, diskvars, histvars>>

FlushDone ==
    /\ mainpc = "flush"
    /\ wpc = "none"
    /\ mainpc' = "flushed"
    /\ UNCHANGED <<store, dirty, txcount, pend, syncvars, diskvars, histvars>>

FlushReturn ==
    /\ mainpc = "flushed"
    /\ mainpc' = "idle"
    /\ UNCHANGED <<store, dirty, txcount, pend, syncvars, diskvars, histvars>>

\* Mutant of ReadFromPath: takes a truncated transactioncount as it is.
ReadTruncated ==
    /\ store' = disk
    /\ txcount' = disktx
    /\ dirty' = {} /\ mainpc' = "idle" /\ pend' = <<>>
    /\ syncrunning' = FALSE /\ writepending' = FALSE
    /\ NoWriter
    /\ died' = FALSE
    /\ UNCHANGED diskvars

\* init() of a new process reads the files again (_read_from_path).  A
\* truncated transactioncount reads as 0.
ReadFromPath ==
    /\ store' = disk
    /\ txcount' = IF disktx = Absent THEN 0 ELSE disktx
    /\ dirty' = {} /\ mainpc' = "idle" /\ pend' = <<>>
    /\ syncrunning' = FALSE /\ writepending' = FALSE
    /\ NoWriter
    /\ died' = FALSE
    /\ UNCHANGED diskvars

\* shutdown() flushes before the process ends ...
Shutdown ==
    /\ mainpc = "flushed"
    /\ ReadFromPath
    /\ UNCHANGED faults

\* ... a crash ends both threads anywhere.
Crash ==
    /\ faults < MaxFault
    /\ faults' = faults + 1
    /\ ReadFromPath

MainNext ==
    \/ CountTransaction
    \/ \E k \in Key, v \in Value \cup {Absent} :
          ChangeMain(k, v) \/ AddMember(k, v) \/ SetGlobalMark(k, v)
    \/ \E k \in Key : DelMember(k)
    \/ MarkDirty \/ MarkDeleted \/ Dissolve \/ SetGlobalAssign
    \/ RequestSync
    \/ FlushRequest \/ FlushDone \/ FlushReturn
    \/ \E fullsync \in BOOLEAN : FlushStart(fullsync)

-----------------------------------------------------------------------------
(* The writer thread: one pass of _sync_to_file under _synclock.           *)

Goto(pc) == wpc' = pc /\ UNCHANGED <<wfull, batch, size>>

\* open(..., 'wb') truncates the transactioncount file ...
TruncateTx ==
    /\ wpc = "truncate"
    /\ disktx' = Absent
    /\ Goto("txcount")
    /\ UNCHANGED <<mainvars, syncrunning, writepending, disk, histvars>>

\* ... and leaving the with block writes it.
WriteTx ==
    /\ wpc = "txcount"
    /\ disktx' = txcount
    /\ Goto("globals")
    /\ UNCHANGED <<mainvars, syncrunning, writepending, disk, histvars>>

\* Take the marks of an area: a full sync iterates the live dictionary and
\* leaves the marks, otherwise the marks are copied and deleted.
Take(area, pc) ==
    /\ wpc' = pc /\ UNCHANGED wfull
    /\ batch' = IF wfull THEN Present(area) ELSE dirty \cap area
    /\ size' = Cardinality(Present(area))
    /\ dirty' = IF wfull THEN dirty ELSE dirty \ area
    /\ UNCHANGED <<store, txcount, mainpc, pend, syncrunning, writepending,
                   diskvars, histvars>>

Skip(pc) ==
    /\ Goto(pc)
    /\ UNCHANGED <<mainvars, syncrunning, writepending, diskvars, histvars>>

Due(area) == wfull \/ dirty \cap area # {}

StartGlobals ==
    /\ wpc = "globals"
    /\ IF Due(GlobalKey) THEN Take(GlobalKey, "wglobals")
       ELSE Skip("collective")

\* Mutant of StartCollective: drops the marks with the file.
StartCollectiveDropsMarks ==
    /\ wpc = "collective"
    /\ IF ~Due(MemberKey) THEN Skip("main")
       ELSE IF Cardinality(Present(MemberKey)) > 1
       THEN Take(MemberKey, "wcollective")
       ELSE /\ disk' = [k \in Key |-> IF k \in MemberKey THEN Absent
                                      ELSE disk[k]]
            /\ dirty' = dirty \ MemberKey
            /\ Goto("main")
            /\ UNCHANGED <<store, txcount, mainpc, pend, syncrunning,
                           writepending, disktx, histvars>>

\* The collective file only exists while there is a collective.
StartCollective ==
    /\ wpc = "collective"
    /\ IF ~Due(MemberKey) THEN Skip("main")
       ELSE IF Cardinality(Present(MemberKey)) > 1
       THEN Take(MemberKey, "wcollective")
       ELSE /\ disk' = [k \in Key |-> IF k \in MemberKey THEN Absent
                                      ELSE disk[k]]
            /\ Goto("main")
            /\ UNCHANGED <<mainvars, syncrunning, writepending, disktx, histvars>>

StartMain ==
    /\ wpc = "main"
    /\ IF Due(MainKey) THEN Take(MainKey, "wmain") ELSE Skip("finish")

\* The area whose file is open, and where the writer goes when it closes it.
OpenArea == CASE wpc = "wglobals" -> GlobalKey
              [] wpc = "wcollective" -> MemberKey
              [] OTHER -> MainKey
AfterArea == CASE wpc = "wglobals" -> "collective"
               [] wpc = "wcollective" -> "main"
               [] OTHER -> "finish"
Writing == wpc \in {"wglobals", "wcollective", "wmain"}

\* Asking the iterator of a dictionary whose size the event loop changed
\* raises RuntimeError, at the end too; looking into a collective that was
\* dissolved raises KeyError.
IterationBroken ==
    \/ wfull /\ Cardinality(Present(OpenArea)) # size
    \/ /\ wpc = "wcollective"
       /\ batch # {} /\ Present(MemberKey) = {}

\* One key: its current value, or its removal.
WriteKey(k) ==
    /\ Writing /\ ~IterationBroken
    /\ k \in batch
    /\ disk' = IF wfull /\ store[k] = Absent THEN disk
               ELSE [disk EXCEPT ![k] = store[k]]
    /\ batch' = batch \ {k} /\ UNCHANGED <<wpc, wfull, size>>
    /\ UNCHANGED <<mainvars, syncrunning, writepending, disktx, histvars>>

CloseFile ==
    /\ Writing /\ ~IterationBroken
    /\ batch = {}
    /\ Skip(AfterArea)

\* The exception ends the thread; _syncrunning stays set.
Die ==
    /\ NoWriter
    /\ died' = TRUE
    /\ UNCHANGED <<mainvars, syncrunning, writepending, diskvars>>

IterationError ==
    /\ Writing /\ IterationBroken
    /\ Die
    /\ UNCHANGED faults

\* dbm.open or a dbm store fails.  The collective file is opened before the
\* marks are taken, the other files after.
IOError ==
    /\ \/ Writing
       \/ /\ wpc = "collective" /\ Due(MemberKey)
          /\ Cardinality(Present(MemberKey)) > 1
    /\ faults < MaxFault
    /\ faults' = faults + 1
    /\ Die

\* A full sync that cannot open a file removes it and starts a new one.
Recreate ==
    /\ Writing /\ wfull
    /\ batch = Present(OpenArea)
    /\ faults < MaxFault
    /\ faults' = faults + 1
    /\ disk' = [k \in Key |-> IF k \in OpenArea THEN Absent ELSE disk[k]]
    /\ UNCHANGED <<mainvars, syncvars, disktx, died>>

\* Mutant of Finish: ends although a request is pending.
FinishIgnoresPending ==
    /\ wpc = "finish"
    /\ syncrunning' = FALSE /\ writepending' = FALSE
    /\ NoWriter
    /\ UNCHANGED <<mainvars, diskvars, histvars>>

\* The end of _sync_to_file, under _syncstate: go again, not as a full sync,
\* if a request came in meanwhile.
Finish ==
    /\ wpc = "finish"
    /\ IF writepending
       THEN /\ writepending' = FALSE
            /\ NewWriter(FALSE)
            /\ UNCHANGED syncrunning
       ELSE /\ syncrunning' = FALSE
            /\ NoWriter
            /\ UNCHANGED writepending
    /\ UNCHANGED <<mainvars, diskvars, histvars>>

WriterStep ==
    \/ TruncateTx \/ WriteTx
    \/ StartGlobals \/ StartCollective \/ StartMain
    \/ \E k \in Key : WriteKey(k)
    \/ CloseFile \/ IterationError \/ Finish

Next == MainNext \/ WriterStep \/ IOError \/ Recreate \/ Shutdown \/ Crash

Spec == Init /\ [][Next]_vars

\* Both threads keep running: the event loop returns from these methods and
\* the interpreter schedules the writer thread.  Changes, flushes, I/O
\* failures and restarts may or may not come.
MainStep ==
    \/ MarkDirty \/ MarkDeleted \/ Dissolve \/ SetGlobalAssign
    \/ RequestSync \/ FlushDone \/ FlushReturn
    \/ \E fullsync \in BOOLEAN : FlushStart(fullsync)

FairSpec == Spec /\ WF_vars(MainStep) /\ WF_vars(WriterStep)

-----------------------------------------------------------------------------
(* Properties.                                                             *)

MainPc == {"idle", "mark", "markdel", "dissolve", "assign", "sync", "join",
           "flush", "flushed"}

\* Every variable keeps the shape of the Python value it stands for.
FlagsOK ==
    /\ syncrunning \in BOOLEAN /\ writepending \in BOOLEAN
    /\ wfull \in BOOLEAN /\ died \in BOOLEAN
TypeOK ==
    /\ FlagsOK
    /\ store \in [Key -> Value \cup {Absent}]
    /\ disk \in [Key -> Value \cup {Absent}]
    /\ dirty \subseteq Key
    /\ txcount \in Nat /\ disktx \in Nat \cup {Absent}
    /\ mainpc \in MainPc
    /\ pend \in {<<>>} \cup {<<k>> : k \in Key}
                \cup {<<k, v>> : k \in GlobalKey, v \in Value}
    /\ mainpc = "mark" => pend \in {<<k>> : k \in Key}
    /\ mainpc = "markdel" => pend \in {<<k>> : k \in MemberKey}
    /\ mainpc = "assign" => pend \in {<<k, v>> : k \in GlobalKey, v \in Value}
    /\ wpc \in WriterPc /\ batch \subseteq Key /\ size \in Nat
    /\ faults \in Nat

\* The files hold what is in memory.
Saved(keys) == \A k \in keys : disk[k] = store[k]

\* Nothing is being changed and no sync is running or requested.
Quiescent == mainpc \in {"idle", "join", "flushed"} /\ ~syncrunning

\* The writepending hand-over between the event loop and the writer thread
\* (_bg_sync_to_file, end of _sync_to_file) loses no change of the main
\* configuration: when no sync is running the files hold every node, group
\* and user as they are in memory, deletions included.
MainDurable == ~died /\ Quiescent => Saved(MainKey)

\* The same for the collective members, whose file is removed when the
\* collective is dissolved while marks of its members are left behind.
MemberDurable ==
    faults = 0 /\ ~died /\ Quiescent /\ Cardinality(Present(MemberKey)) > 1
        => Saved(Present(MemberKey))

\* wait_for_sync keeps what shutdown relies on: when it returns, members and
\* main configuration are in the files and the transaction count with them.
FlushDurable ==
    ~died /\ mainpc = "flushed" =>
        Saved(MainKey) /\ disktx = txcount

\* What makes MainDurable and FlushDurable inductive, while no writer thread
\* has died: the flags tell whether a writer is alive; only wait_for_sync
\* runs a full sync, with the event loop blocked; a main key whose file is
\* behind is marked, about to be marked or in the writer's batch; a marked
\* main key has a sync to come that will take it; and wait_for_sync leaves
\* the transaction count written.
BeforeMain == {"truncate", "txcount", "globals", "wglobals", "collective",
               "wcollective", "main"}
FlagsTellWriter ==
    /\ syncrunning <=> wpc # "none"
    /\ writepending => wpc # "none"
FullOnlyInFlush == wfull => mainpc = "flush" /\ wpc # "none"
Behind(k) ==
    \/ k \in dirty
    \/ mainpc = "mark" /\ pend = <<k>>
    \/ wpc = "wmain" /\ k \in batch
       /\ (wfull => store[k] # Absent)
BehindIsKnown == \A k \in MainKey : store[k] # disk[k] => Behind(k)
MarksAreTaken ==
    dirty \cap MainKey # {} =>
        \/ mainpc = "sync"
        \/ writepending
        \/ wpc \in BeforeMain /\ ~wfull
CountFlushed ==
    /\ mainpc = "flush" =>
           wpc \in {"truncate", "txcount"} \/ disktx = txcount
    /\ mainpc = "flushed" => wpc = "none" /\ disktx = txcount
SyncInv ==
    ~died => /\ FlagsTellWriter
             /\ FullOnlyInFlush
             /\ BehindIsKnown
             /\ MarksAreTaken
             /\ CountFlushed

\* After a writer thread died, the full sync that follows writes back every
\* node, group and user that still exists.
RecoveryKeepsPresent ==
    Quiescent => Saved(Present(MainKey))

\* What makes RecoveryKeepsPresent inductive, with any number of faults: a
\* main key that is in memory and not in the files is about to be marked, is
\* marked with a sync to come, is in the writer's batch, or a full sync is
\* running or will have to be made.
StillToWrite(k) ==
    \/ mainpc = "mark" /\ pend = <<k>>
    \/ k \in dirty /\ (mainpc = "sync" \/ writepending \/ wpc \in BeforeMain)
    \/ wpc = "wmain" /\ k \in batch
    \/ wpc \in BeforeMain /\ wfull
    \/ Unclean
RecoveryInv ==
    /\ wpc # "none" \/ writepending => syncrunning
    /\ \A k \in MainKey :
          store[k] \notin {Absent, disk[k]} => StillToWrite(k)

\* "This suggests an unclean write attempt, do a fullsync as a recovery":
\* after the recovery, with no mark left, the files hold what is in memory.
RecoveryComplete == Quiescent /\ dirty = {} => Saved(MainKey)

\* The shutdown comment, "including flushing configuration", for globals.
GlobalsFlushed == ~died /\ mainpc = "flushed" => Saved(GlobalKey)

\* Once the event loop stops changing the configuration, the files catch up
\* without any further request, unless a writer thread dies.
EventuallyDurable ==
    <>[](mainpc = "idle") /\ []~died => <>[]Saved(MainKey)
=============================================================================
