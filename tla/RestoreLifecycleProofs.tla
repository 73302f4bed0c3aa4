------------------------ MODULE RestoreLifecycleProofs ------------------------
(***************************************************************************)
(* Theorems about RestoreLifecycle, for every set of runs and of backups.  *)
(***************************************************************************)
EXTENDS RestoreLifecycle, TLAPS

LEMMA EmptyIsDatabase == \A o \in Restore \cup {Other} : Empty(o) \in Database
BY DEF Empty, Database

LEMMA ConnectedDatabase ==
  ASSUME NEW d \in Database, NEW r \in Restore, NEW m \in BOOLEAN
  PROVE  LET c == [d EXCEPT !.writers = @ \cup {r}, !.mixed = m, !.restored = {}]
         IN  /\ c \in Database
             /\ c.by = d.by /\ c.writers = d.writers \cup {r}
             /\ c.mixed = m /\ c.restored = {}
BY DEF Database

LEMMA RestoredDatabase ==
  ASSUME NEW d \in Database, NEW v \in SUBSET Version
  PROVE  LET c == [d EXCEPT !.restored = v]
         IN  /\ c \in Database
             /\ c.by = d.by /\ c.writers = d.writers
             /\ c.mixed = d.mixed /\ c.restored = v
BY DEF Database

-----------------------------------------------------------------------------
(***************************************************************************)
(* The types.  A connected tool has a database: it found one, and DROP     *)
(* DATABASE is refused while it is connected.                              *)
(***************************************************************************)
TypeInv == TypeOK /\ (Connected # {} => database # None)

LEMMA InitTypeInv == Init => TypeInv
BY RestoreAssumption, NoneIsNoDatabase, EmptyIsDatabase
   DEF Init, TypeInv, TypeOK, Connected, Loaded, Executing

LEMMA CheckType ==
  ASSUME TypeInv, NEW r \in Restore, Check(r) PROVE TypeInv'
<1>1. TypeOK'
  BY DEF TypeInv, TypeOK, Check, SeeArchive, LoadSidecar, ValidateBackup,
         ValidateRestore, Approve, ChecksFail, Goto, Active, Loaded, Executing,
         Ended, files
<1>2. UNCHANGED <<tool, database>>
  BY DEF Check, SeeArchive, LoadSidecar, ValidateBackup, ValidateRestore,
         Approve, ChecksFail
<1>. QED BY <1>1, <1>2 DEF TypeInv, Connected

LEMMA ConnectsType ==
  ASSUME TypeInv, NEW r \in Restore, ToolConnects(r) PROVE TypeInv'
<1> DEFINE m == Connected # {}
           d == [database EXCEPT !.writers = @ \cup {r}, !.mixed = m, !.restored = {}]
<1>1. database \in Database /\ m \in BOOLEAN
  BY DEF TypeInv, TypeOK, ToolConnects
<1>2. d \in Database
  BY <1>1, ConnectedDatabase
<1>3. /\ database' = d
      /\ tool[r] = "opened" /\ tool' = [tool EXCEPT ![r] = "connected"]
      /\ UNCHANGED <<pc, executing, files, backup, archive>>
  BY DEF ToolConnects
<1>4. d # None
  BY <1>2, NoneIsNoDatabase
<1> HIDE DEF d, m
<1>. QED BY <1>2, <1>3, <1>4 DEF TypeInv, TypeOK, files

LEMMA SucceedsType ==
  ASSUME TypeInv, NEW r \in Restore, ToolSucceeds(r) PROVE TypeInv'
<1> DEFINE v == IF database.mixed THEN {} ELSE archive[r]
           d == [database EXCEPT !.restored = v]
<1>1. database \in Database /\ v \in SUBSET Version
  BY DEF TypeInv, TypeOK, ToolSucceeds, Connected
<1>2. d \in Database
  BY <1>1, RestoredDatabase
<1>3. /\ database' = d
      /\ tool' = [tool EXCEPT ![r] = "idle"]
      /\ pc' = [pc EXCEPT ![r] = IF pc[r] = "running" THEN "restored" ELSE pc[r]]
      /\ UNCHANGED <<executing, files, backup, archive>>
  BY DEF ToolSucceeds
<1>4. d # None
  BY <1>2, NoneIsNoDatabase
<1> HIDE DEF d, v
<1>. QED BY <1>2, <1>3, <1>4
  DEF TypeInv, TypeOK, files, Active, Loaded, Executing, Ended

LEMMA ExecuteType ==
  ASSUME TypeInv, NEW r \in Restore, Execute(r) PROVE TypeInv'
<1>1. CASE CreateTarget(r)
  BY <1>1, EmptyIsDatabase, NoneIsNoDatabase
     DEF CreateTarget, Goto, TypeInv, TypeOK, Connected, Active, Loaded,
         Executing, Ended, files
<1>2. CASE CreateFails(r) \/ StartTool(r) \/ ToolOpens(r) \/ WorkerOpens(r)
             \/ ToolFails(r)
             \/ Verify(r) \/ VerifyFails(r)
  BY <1>2, RestoreAssumption
     DEF CreateFails, StartTool, ToolOpens, WorkerOpens, ToolFails, Verify, VerifyFails,
         Goto, TypeInv, TypeOK, Connected, Active, Loaded, Executing, Ended, files
<1>. QED BY <1>1, <1>2, ConnectsType, SucceedsType DEF Execute

LEMMA OthersType ==
  ASSUME TypeInv, ReplaceArchive \/ OthersCreate \/ OthersDrop PROVE TypeInv'
BY EmptyIsDatabase, NoneIsNoDatabase
   DEF ReplaceArchive, OthersCreate, OthersDrop, TypeInv, TypeOK, Connected, files

LEMMA CrashType ==
  ASSUME TypeInv, NEW r \in Restore, Crash(r) PROVE TypeInv'
BY DEF Crash, TypeInv, TypeOK, Connected, Active, Loaded, Executing, Ended, files

LEMMA NextTypeInv == TypeInv /\ [Next]_vars => TypeInv'
<1> SUFFICES ASSUME TypeInv, [Next]_vars PROVE TypeInv'
  OBVIOUS
<1>1. CASE UNCHANGED vars
  BY <1>1 DEF vars, files, TypeInv, TypeOK, Connected
<1>. QED BY <1>1, CheckType, ExecuteType, CrashType, OthersType DEF Next, Step

LEMMA TypeInvHolds == Spec => []TypeInv
BY InitTypeInv, NextTypeInv, PTL DEF Spec

\* Every variable has its type, for any set of runs (RestoreService.restore).
THEOREM TypeCorrect == Spec => []TypeOK
BY TypeInvHolds, PTL DEF TypeInv

-----------------------------------------------------------------------------
(***************************************************************************)
(* No implicit overwrite.  CREATE DATABASE refuses an existing name, so a  *)
(* creating run that got past it owns the target from then on; a target in *)
(* use is not dropped; and a run with neither option does not get that far.*)
(***************************************************************************)
InUse(r) == pc[r] \in {"created", "running", "restored"} \/ tool[r] # "idle"

ModeKnown ==
  \A r \in Restore :
    pc[r] = "checked" \/ InUse(r) => r \in Creating \cup Cleaning

Owned == \A r \in Creating : InUse(r) => database # None /\ database.by = r

OwnInv == TypeInv /\ ModeKnown /\ Owned /\ NoImplicitOverwrite

LEMMA InitOwnInv == Init => OwnInv
BY InitTypeInv, RestoreAssumption
   DEF Init, OwnInv, ModeKnown, Owned, InUse, NoImplicitOverwrite, Empty

LEMMA CheckOwn ==
  ASSUME OwnInv, NEW r \in Restore, Check(r)
  PROVE  ModeKnown' /\ Owned' /\ NoImplicitOverwrite'
<1>1. UNCHANGED <<database, tool>>
  BY DEF Check, SeeArchive, LoadSidecar, ValidateBackup, ValidateRestore,
         Approve, ChecksFail
<1>2. ModeKnown' /\ \A q \in Restore : InUse(q)' => InUse(q)
  BY <1>1
     DEF OwnInv, TypeInv, TypeOK, ModeKnown, InUse, Check, SeeArchive,
         LoadSidecar, ValidateBackup, ValidateRestore, TargetAllowed, Approve,
         ChecksFail, Goto
<1>. QED BY <1>1, <1>2, RestoreAssumption DEF OwnInv, Owned, NoImplicitOverwrite

LEMMA CreateOwn ==
  ASSUME OwnInv, NEW r \in Restore, CreateTarget(r)
  PROVE  ModeKnown' /\ Owned' /\ NoImplicitOverwrite'
<1>1. /\ database = None /\ r \in Creating
      /\ database'.by = r /\ database'.writers = {} /\ database' # None
  BY EmptyIsDatabase, NoneIsNoDatabase DEF CreateTarget, Empty
<1>2. \A q \in Creating : ~ InUse(q)
  BY <1>1 DEF OwnInv, Owned
<1>3. \A q \in Restore : InUse(q)' => InUse(q) \/ q = r
  BY DEF CreateTarget, Goto, InUse, OwnInv, TypeInv, TypeOK
<1>. QED BY <1>1, <1>2, <1>3, RestoreAssumption
  DEF OwnInv, TypeInv, TypeOK, ModeKnown, Owned, NoImplicitOverwrite, CreateTarget, Goto

LEMMA ConnectsOwn ==
  ASSUME OwnInv, NEW r \in Restore, ToolConnects(r)
  PROVE  ModeKnown' /\ Owned' /\ NoImplicitOverwrite'
<1> DEFINE m == Connected # {}
           d == [database EXCEPT !.writers = @ \cup {r}, !.mixed = m, !.restored = {}]
<1>1. database \in Database /\ m \in BOOLEAN /\ database' = d
  BY DEF OwnInv, TypeInv, TypeOK, ToolConnects
<1> HIDE DEF m
<1>2. /\ database' \in Database
      /\ database'.by = database.by /\ database'.writers = database.writers \cup {r}
  <2>1. d \in Database /\ d.by = database.by /\ d.writers = database.writers \cup {r}
    BY <1>1 DEF Database
  <2>. QED BY <1>1, <2>1
<1>3. database' # None /\ database # None
  BY <1>2, NoneIsNoDatabase DEF ToolConnects
<1>4. InUse(r) /\ \A q \in Restore : InUse(q)' => InUse(q)
  BY DEF ToolConnects, InUse, OwnInv, TypeInv, TypeOK
<1>5. ModeKnown'
  BY <1>4 DEF ModeKnown, OwnInv, ToolConnects
<1>6. r \in Cleaning \/ database.by = r
  BY <1>4 DEF OwnInv, ModeKnown, Owned
<1>. QED BY <1>2, <1>3, <1>4, <1>5, <1>6, RestoreAssumption
  DEF OwnInv, Owned, NoImplicitOverwrite

LEMMA SucceedsOwn ==
  ASSUME OwnInv, NEW r \in Restore, ToolSucceeds(r)
  PROVE  ModeKnown' /\ Owned' /\ NoImplicitOverwrite'
<1> DEFINE v == IF database.mixed THEN {} ELSE archive[r]
<1>1. database \in Database /\ v \in SUBSET Version
  BY DEF OwnInv, TypeInv, TypeOK, ToolSucceeds, Connected
<1>2. /\ database' \in Database
      /\ database'.by = database.by /\ database'.writers = database.writers
  BY <1>1, RestoredDatabase DEF ToolSucceeds
<1>3. database' # None /\ database # None
  BY <1>1, <1>2, NoneIsNoDatabase
<1>4. ModeKnown' /\ \A q \in Restore : InUse(q)' => InUse(q)
  BY DEF ToolSucceeds, ModeKnown, InUse, OwnInv, TypeInv, TypeOK
<1>. QED BY <1>2, <1>3, <1>4, RestoreAssumption DEF OwnInv, Owned, NoImplicitOverwrite

\* The steps of a run that leave the database alone.
LEMMA QuietOwn ==
  ASSUME OwnInv, NEW r \in Restore,
         CreateFails(r) \/ StartTool(r) \/ ToolOpens(r) \/ WorkerOpens(r)
           \/ ToolFails(r) \/ Verify(r) \/ VerifyFails(r) \/ Crash(r)
  PROVE  ModeKnown' /\ Owned' /\ NoImplicitOverwrite'
<1>1. UNCHANGED database
  BY DEF CreateFails, StartTool, ToolOpens, WorkerOpens, ToolFails, Verify, VerifyFails, Crash
<1>2. \A q \in Restore : InUse(q)' => InUse(q) \/ (pc[q] = "checked" /\ q \notin Creating)
  BY DEF OwnInv, TypeInv, TypeOK, InUse, CreateFails, StartTool, ToolOpens,
         WorkerOpens, ToolFails, Verify, VerifyFails, Crash, Goto
<1>3. \A q \in Restore : pc'[q] = "checked" => pc[q] = "checked"
  BY DEF OwnInv, TypeInv, TypeOK, CreateFails, StartTool, ToolOpens,
         WorkerOpens, ToolFails, Verify, VerifyFails, Crash, Goto
<1>. QED BY <1>1, <1>2, <1>3, RestoreAssumption
  DEF OwnInv, ModeKnown, Owned, NoImplicitOverwrite

LEMMA OthersOwn ==
  ASSUME ~ Droppable, OwnInv, ReplaceArchive \/ OthersCreate \/ OthersDrop
  PROVE  ModeKnown' /\ Owned' /\ NoImplicitOverwrite'
<1>1. UNCHANGED <<pc, tool>>
  BY DEF ReplaceArchive, OthersCreate, OthersDrop
<1>2. CASE ReplaceArchive
  BY <1>1, <1>2 DEF ReplaceArchive, OwnInv, ModeKnown, Owned, InUse, NoImplicitOverwrite
<1>3. CASE OthersCreate
  BY <1>1, <1>3, RestoreAssumption
     DEF OthersCreate, Empty, OwnInv, ModeKnown, Owned, InUse, NoImplicitOverwrite
<1>4. CASE OthersDrop
  BY <1>1, <1>4, RestoreAssumption
     DEF OthersDrop, OwnInv, ModeKnown, Owned, InUse, NoImplicitOverwrite, Busy,
         Active, Executing
<1>. QED BY <1>2, <1>3, <1>4

LEMMA NextOwnInv ==
  ASSUME ~ Droppable
  PROVE  OwnInv /\ [Next]_vars => OwnInv'
<1> SUFFICES ASSUME OwnInv, [Next]_vars PROVE OwnInv'
  OBVIOUS
<1>1. TypeInv'
  BY NextTypeInv DEF OwnInv
<1>2. CASE UNCHANGED vars
  BY <1>1, <1>2 DEF vars, OwnInv, ModeKnown, Owned, InUse, NoImplicitOverwrite
<1>3. CASE \E r \in Restore : Step(r) \/ Crash(r)
  BY <1>1, <1>3, CheckOwn, CreateOwn, ConnectsOwn, SucceedsOwn, QuietOwn
     DEF OwnInv, Step, Execute
<1>4. CASE ReplaceArchive \/ OthersCreate \/ OthersDrop
  BY <1>1, <1>4, OthersOwn DEF OwnInv
<1>. QED BY <1>2, <1>3, <1>4 DEF Next

(***************************************************************************)
(* Unless other clients drop the target during a run: any number of        *)
(* restores, overlapping as they like, write without --clean only to a     *)
(* database they have created (PostgreSQLRestoreAdapter.restore_backup).   *)
(***************************************************************************)
THEOREM NothingOverwritten ==
  ASSUME ~ Droppable
  PROVE  Spec => []NoImplicitOverwrite
<1>1. OwnInv => NoImplicitOverwrite
  BY DEF OwnInv
<1>. QED BY <1>1, InitOwnInv, NextOwnInv, PTL DEF Spec

-----------------------------------------------------------------------------
(***************************************************************************)
(* Success means restored.  A run in use without --clean owns the target,  *)
(* and a run with --clean is, as its operator sees to it, not run beside   *)
(* another: so at most one is in use, its tool writes alone, and nothing   *)
(* writes between the end of the tool and the verification.                *)
(***************************************************************************)
WritesAlone == Connected # {} => ~ database.mixed

HoldsArchive ==
  \A r \in Restore : pc[r] = "restored" =>
    tool[r] = "idle" /\ database # None /\ Whole(r)

\* An exclusive run is busy alone, and so is the tool a crash has left to it.
ExclusiveAlone ==
  \A q, r \in Restore : Busy(q) /\ Busy(r) /\ q # r => q \notin Exclusive

\* Without --jobs a tool opens one archive, once.
OneArchive ==
  \A r \in Restore \ Parallel : tool[r] \in {"opened", "connected"} =>
    \E v \in Version : archive[r] = {v}

WholeInv == OneArchive /\ OwnInv /\ ExclusiveAlone /\ WritesAlone /\ HoldsArchive

LEMMA OneInUse ==
  ASSUME Cleaning \subseteq Exclusive, OwnInv, ExclusiveAlone
  PROVE  \A q, r \in Restore : InUse(q) /\ InUse(r) => q = r
<1> SUFFICES ASSUME NEW q \in Restore, NEW r \in Restore, InUse(q), InUse(r)
             PROVE  q = r
  OBVIOUS
<1>1. Busy(q) /\ Busy(r)
  BY DEF Busy, InUse, Active, Executing
<1>2. CASE q \in Creating /\ r \in Creating
  BY <1>2 DEF OwnInv, Owned
<1>3. CASE q \in Exclusive \/ r \in Exclusive
  BY <1>1, <1>3 DEF ExclusiveAlone
<1>. QED BY <1>2, <1>3 DEF OwnInv, ModeKnown

LEMMA InitWholeInv == Init => WholeInv
BY InitOwnInv
   DEF Init, WholeInv, OneArchive, ExclusiveAlone, Busy, Active, Loaded, Executing, WritesAlone,
       HoldsArchive, Connected

\* No step but the first makes a run busy, and that one only when it may start.
LEMMA NextExclusive ==
  ASSUME TypeOK, ExclusiveAlone, [Next]_vars PROVE ExclusiveAlone'
<1>1. CASE UNCHANGED <<pc, tool>>
  BY <1>1 DEF ExclusiveAlone, Busy
<1>2. ASSUME NEW r \in Restore, Step(r) \/ Crash(r) PROVE ExclusiveAlone'
  <2>1. \A q \in Restore \ {r} : Busy(q)' => Busy(q)
    BY <1>2
       DEF TypeOK, Busy, Step, Check, Execute, Crash, SeeArchive, LoadSidecar,
           ValidateBackup, ValidateRestore, Approve, ChecksFail, CreateTarget,
           CreateFails, StartTool, ToolOpens, ToolConnects, WorkerOpens, ToolSucceeds,
           ToolFails, Verify, VerifyFails, Goto
  <2>2. Busy(r)' => Busy(r) \/ MayStart(r)
    BY <1>2
       DEF TypeOK, Busy, Step, Check, Execute, Crash, SeeArchive, LoadSidecar,
           ValidateBackup, ValidateRestore, Approve, ChecksFail, CreateTarget,
           CreateFails, StartTool, ToolOpens, ToolConnects, WorkerOpens, ToolSucceeds,
           ToolFails, Verify, VerifyFails, Goto, Active, Loaded, Executing
  <2>. QED BY <2>1, <2>2 DEF ExclusiveAlone, MayStart
<1>. QED BY <1>1, <1>2 DEF Next, vars, ReplaceArchive, OthersCreate, OthersDrop

LEMMA NextOneArchive ==
  ASSUME TypeOK, OneArchive, [Next]_vars PROVE OneArchive'
<1> SUFFICES ASSUME NEW r \in Restore \ Parallel, tool'[r] \in {"opened", "connected"}
             PROVE  \E v \in Version : archive'[r] = {v}
  BY DEF OneArchive
<1>1. CASE ToolOpens(r)
  BY <1>1 DEF ToolOpens, TypeOK
<1>2. CASE tool[r] \in {"opened", "connected"} /\ archive'[r] = archive[r]
  BY <1>2 DEF OneArchive
<1>3. \/ ToolOpens(r)
      \/ tool[r] \in {"opened", "connected"} /\ archive'[r] = archive[r]
  BY DEF TypeOK, Next, vars, Step, Check, Execute, SeeArchive, LoadSidecar,
         ValidateBackup, ValidateRestore, Approve, ChecksFail, CreateTarget,
         CreateFails, StartTool, ToolOpens, ToolConnects, WorkerOpens, ToolSucceeds,
         ToolFails, Verify, VerifyFails, Crash, ReplaceArchive, OthersCreate, OthersDrop
<1>. QED BY <1>1, <1>2, <1>3

LEMMA CheckWhole ==
  ASSUME WholeInv, NEW r \in Restore, Check(r) PROVE WritesAlone' /\ HoldsArchive'
<1>1. UNCHANGED <<database, tool, archive>>
  BY DEF Check, SeeArchive, LoadSidecar, ValidateBackup, ValidateRestore,
         Approve, ChecksFail
<1>2. \A q \in Restore : pc'[q] = "restored" => pc[q] = "restored"
  BY DEF WholeInv, OwnInv, TypeInv, TypeOK, Check, SeeArchive, LoadSidecar,
         ValidateBackup, ValidateRestore, Approve, ChecksFail, Goto
<1>. QED BY <1>1, <1>2 DEF WholeInv, WritesAlone, HoldsArchive, Whole, Connected

LEMMA CreateWhole ==
  ASSUME WholeInv, NEW r \in Restore, CreateTarget(r)
  PROVE  WritesAlone' /\ HoldsArchive'
<1>1. /\ database = None /\ UNCHANGED <<tool, archive>>
      /\ \A q \in Restore : pc'[q] = "restored" => pc[q] = "restored"
  BY DEF WholeInv, OwnInv, TypeInv, TypeOK, CreateTarget, Goto
<1>2. Connected = {} /\ \A q \in Restore : pc[q] # "restored"
  BY <1>1 DEF WholeInv, OwnInv, TypeInv, HoldsArchive
<1>. QED BY <1>1, <1>2 DEF WritesAlone, HoldsArchive, Connected

LEMMA ConnectsWhole ==
  ASSUME Cleaning \subseteq Exclusive, WholeInv, NEW r \in Restore, ToolConnects(r)
  PROVE  WritesAlone' /\ HoldsArchive'
<1>1. \A q \in Restore : InUse(q) => q = r
  BY OneInUse DEF WholeInv, ToolConnects, InUse
<1>2. Connected = {}
  BY <1>1 DEF Connected, InUse, ToolConnects
<1>3. database'.mixed = FALSE
  BY <1>2 DEF ToolConnects, WholeInv, OwnInv, TypeInv, TypeOK, Database
<1>4. \A q \in Restore : pc'[q] # "restored"
  BY <1>1 DEF ToolConnects, InUse, WholeInv, HoldsArchive
<1>. QED BY <1>3, <1>4 DEF WritesAlone, HoldsArchive

LEMMA SucceedsWhole ==
  ASSUME Cleaning \subseteq Exclusive, WholeInv, NEW r \in Restore, ToolSucceeds(r)
  PROVE  WritesAlone' /\ HoldsArchive'
<1>1. \A q \in Restore : InUse(q) => q = r
  BY OneInUse DEF WholeInv, ToolSucceeds, InUse
<1>2. /\ r \in Connected /\ database \in Database /\ database # None
      /\ archive[r] \in SUBSET Version /\ archive[r] # {}
  BY DEF ToolSucceeds, Connected, WholeInv, OwnInv, TypeInv, TypeOK
<1>3. database' # None /\ database'.restored = archive[r]
  <2> DEFINE d == [database EXCEPT !.restored = archive[r]]
  <2>1. database' = d
    BY <1>2 DEF ToolSucceeds, WholeInv, WritesAlone
  <2>2. d \in Database /\ d.restored = archive[r]
    BY <1>2 DEF Database
  <2>. QED BY <2>1, <2>2, NoneIsNoDatabase
<1>4. Connected' = {}
  BY <1>1 DEF Connected, InUse, ToolSucceeds, WholeInv, OwnInv, TypeInv, TypeOK
<1>5. \A q \in Restore : pc'[q] = "restored" => q = r
  BY <1>1 DEF InUse, ToolSucceeds, WholeInv, OwnInv, TypeInv, TypeOK
<1>6. tool'[r] = "idle" /\ archive' = archive
  BY DEF ToolSucceeds, WholeInv, OwnInv, TypeInv, TypeOK
<1>7. r \notin Parallel => \E v \in Version : archive[r] = {v}
  BY DEF WholeInv, OneArchive, ToolSucceeds
<1>8. Whole(r)'
  BY <1>2, <1>3, <1>6, <1>7 DEF Whole
<1>. QED BY <1>3, <1>4, <1>5, <1>6, <1>8 DEF WritesAlone, HoldsArchive

LEMMA QuietWhole ==
  ASSUME WholeInv, NEW r \in Restore,
         CreateFails(r) \/ StartTool(r) \/ ToolOpens(r) \/ WorkerOpens(r)
           \/ ToolFails(r) \/ Verify(r) \/ VerifyFails(r) \/ Crash(r)
  PROVE  WritesAlone' /\ HoldsArchive'
<1>1. UNCHANGED database /\ Connected' \subseteq Connected
  BY DEF WholeInv, OwnInv, TypeInv, TypeOK, Connected, CreateFails, StartTool,
         ToolOpens, WorkerOpens, ToolFails, Verify, VerifyFails, Crash
<1>2. \A q \in Restore :
        pc'[q] = "restored" =>
          pc[q] = "restored" /\ tool'[q] = "idle" /\ archive'[q] = archive[q]
  BY DEF WholeInv, OwnInv, TypeInv, TypeOK, HoldsArchive, CreateFails, StartTool,
         ToolOpens, WorkerOpens, ToolFails, Verify, VerifyFails, Crash, Goto
<1>. QED BY <1>1, <1>2 DEF WholeInv, WritesAlone, HoldsArchive, Whole

LEMMA OthersWhole ==
  ASSUME ~ Droppable, WholeInv, ReplaceArchive \/ OthersCreate \/ OthersDrop
  PROVE  WritesAlone' /\ HoldsArchive'
<1>1. UNCHANGED <<pc, tool, archive>>
  BY DEF ReplaceArchive, OthersCreate, OthersDrop
<1>2. CASE ReplaceArchive
  BY <1>1, <1>2 DEF ReplaceArchive, WholeInv, WritesAlone, HoldsArchive, Whole, Connected
<1>3. CASE OthersCreate
  BY <1>1, <1>3
     DEF OthersCreate, WholeInv, OwnInv, TypeInv, WritesAlone, HoldsArchive, Whole,
         Connected
<1>4. CASE OthersDrop
  BY <1>1, <1>4
     DEF OthersDrop, Busy, Active, Executing, WholeInv, WritesAlone, HoldsArchive,
         Whole, Connected
<1>. QED BY <1>2, <1>3, <1>4

LEMMA NextWholeInv ==
  ASSUME ~ Droppable, Cleaning \subseteq Exclusive
  PROVE  WholeInv /\ [Next]_vars => WholeInv'
<1> SUFFICES ASSUME WholeInv, [Next]_vars PROVE WholeInv'
  OBVIOUS
<1>1. OwnInv' /\ ExclusiveAlone' /\ OneArchive'
  BY NextOwnInv, NextExclusive, NextOneArchive DEF WholeInv, OwnInv, TypeInv
<1>2. CASE UNCHANGED vars
  BY <1>1, <1>2 DEF vars, WholeInv, WritesAlone, HoldsArchive, Whole, Connected
<1>3. CASE \E r \in Restore : Step(r) \/ Crash(r)
  BY <1>1, <1>3, CheckWhole, CreateWhole, ConnectsWhole, SucceedsWhole, QuietWhole
     DEF WholeInv, Step, Execute
<1>4. CASE ReplaceArchive \/ OthersCreate \/ OthersDrop
  BY <1>1, <1>4, OthersWhole DEF WholeInv
<1>. QED BY <1>2, <1>3, <1>4 DEF Next

\* Only Verify reports success, and it changes nothing else.
LEMMA OnlyVerifySucceeds ==
  ASSUME TypeOK, [Next]_vars, NEW r \in Restore,
         pc[r] # "succeeded", pc'[r] = "succeeded"
  PROVE  pc[r] = "restored" /\ UNCHANGED <<database, archive>>
BY DEF TypeOK, Next, vars, Step, Check, Execute, SeeArchive, LoadSidecar,
       ValidateBackup, ValidateRestore, Approve, ChecksFail, CreateTarget,
       CreateFails, StartTool, ToolOpens, ToolConnects, WorkerOpens, ToolSucceeds,
       ToolFails, Verify, VerifyFails, Crash, ReplaceArchive, OthersCreate, OthersDrop, Goto

(***************************************************************************)
(* Unless other clients drop the target during a run, and as long as a run *)
(* with --clean is not run beside another: however many of the others      *)
(* overlap, and however often the archive is replaced meanwhile, a restore *)
(* that reports success leaves in the target what its tool has read, which *)
(* without --jobs is one archive, restored from end to end and undisturbed *)
(* (PostgreSQLRestoreAdapter.restore_backup).                              *)
(***************************************************************************)
THEOREM SuccessRestored ==
  ASSUME ~ Droppable, Cleaning \subseteq Exclusive
  PROVE  Spec => SuccessMeansRestored
<1> DEFINE Reports == \A r \in Restore :
             pc[r] # "succeeded" /\ pc'[r] = "succeeded" =>
               database' # None /\ Whole(r)'
<1>1. WholeInv /\ [Next]_vars => Reports
  BY OnlyVerifySucceeds DEF WholeInv, OwnInv, TypeInv, HoldsArchive, Whole
<1>2. Spec => []WholeInv
  BY InitWholeInv, NextWholeInv, PTL DEF Spec
<1>3. Spec => [][Reports]_vars
  <2>1. WholeInv /\ [Next]_vars => [Reports]_vars
    BY <1>1
  <2> HIDE DEF Reports
  <2>. QED BY <1>2, <2>1, PTL DEF Spec
<1>. QED BY <1>3 DEF SuccessMeansRestored

===============================================================================
