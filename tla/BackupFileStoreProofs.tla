------------------------ MODULE BackupFileStoreProofs ------------------------
(***************************************************************************)
(* Theorems about BackupFileStore, for every set of runs.                  *)
(***************************************************************************)
EXTENDS BackupFileStore, TLAPS

(***************************************************************************)
(* TypeOK is not inductive by itself: pg_dump writes to the file it has    *)
(* open, so that file must have a content.                                 *)
(***************************************************************************)
OpenFilesExist == \A a \in Attempt : child[a] # None => dump[child[a]] # None

TypeInv == TypeOK /\ OpenFilesExist

LEMMA InitTypeInv == Init => TypeInv
BY AttemptAssumption
   DEF Init, TypeInv, TypeOK, OpenFilesExist, Location, File

LEMMA GotoType ==
  ASSUME NEW a \in Attempt, NEW from, NEW to \in Location,
         TypeOK, Goto(a, from, to)
  PROVE  pc' \in [Attempt -> Location]
BY DEF Goto, TypeOK

LEMMA FreshContent ==
  ASSUME NEW a \in Attempt
  PROVE  [opened |-> a, whole |-> FALSE, mixed |-> {}] \in Content
BY DEF Content

LEMMA WholeContent ==
  ASSUME NEW c \in Content
  PROVE  LET w == [c EXCEPT !.whole = TRUE]
         IN  /\ w \in Content
             /\ w.opened = c.opened /\ w.mixed = c.mixed /\ w.whole
BY DEF Content

LEMMA ContentIsSome == \A c \in Content : c # None
BY AttemptAssumption

LEMMA WrittenContent ==
  ASSUME NEW c \in Content, NEW a \in Attempt
  PROVE  /\ Mixed(c, a) \in Content
         /\ [c EXCEPT !.whole = TRUE] \in Content
BY DEF Mixed, Content

LEMMA ChildStopsType ==
  ASSUME TypeInv, NEW a \in Attempt, ChildStops(a)
  PROVE  /\ child' \in [Attempt -> File]
         /\ dump' \in [Attempt -> Content \cup {None}]
         /\ OpenFilesExist'
<1>1. CASE UNCHANGED dump
  BY <1>1, AttemptAssumption DEF ChildStops, TypeInv, TypeOK, OpenFilesExist, File
<1>2. CASE child[a] # None /\ dump' = [dump EXCEPT ![child[a]] = Mixed(@, a)]
  <2>1. child[a] \in Attempt /\ Mixed(dump[child[a]], a) \in Content
    BY <1>2, WrittenContent DEF TypeInv, TypeOK, OpenFilesExist, File
  <2>2. child' = [child EXCEPT ![a] = None]
    BY DEF ChildStops
  <2>. QED BY <1>2, <2>1, <2>2, AttemptAssumption
    DEF TypeInv, TypeOK, OpenFilesExist, File
<1>. QED BY <1>1, <1>2 DEF ChildStops

LEMMA PrepareType ==
  ASSUME TypeInv, NEW a \in Attempt, Prepare(a) PROVE TypeInv'
BY DEF TypeInv, TypeOK, OpenFilesExist, Prepare, CheckDestination, CheckTemporaries,
       Goto, Location, Active, Ended, files

LEMMA RunPgDumpType ==
  ASSUME TypeInv, NEW a \in Attempt, RunPgDump(a) PROVE TypeInv'
<1>1. CASE ToolCheckFails(a)
  BY <1>1 DEF TypeInv, TypeOK, OpenFilesExist, ToolCheckFails, Goto, Location,
              Active, Cleaning, files
<1>2. CASE DumpOpens(a)
  <2> DEFINE f == IF dir["tmp"] = None THEN a ELSE dir["tmp"]
             fresh == [opened |-> a, whole |-> FALSE, mixed |-> {}]
  <2>1. f \in Attempt /\ fresh \in Content
    BY DEF TypeInv, TypeOK, Entry, File, Content
  <2>2. /\ dir' = [dir EXCEPT !["tmp"] = f]
        /\ dump' = [dump EXCEPT ![f] = fresh]
        /\ child' = [child EXCEPT ![a] = f]
        /\ pc' = [pc EXCEPT ![a] = "dumping"]
        /\ UNCHANGED <<artRollback, metaRollback, described>>
    BY <1>2 DEF DumpOpens, Goto
  <2>3. fresh # None
    BY <2>1, AttemptAssumption DEF Content
  <2> HIDE DEF f, fresh
  <2>. QED BY <2>1, <2>2, <2>3
    DEF TypeInv, TypeOK, OpenFilesExist, Location, Active, File
<1>3. CASE DumpEnds(a)
  <2> DEFINE f == child[a]
             c == IF dump[f].opened = a THEN [dump[f] EXCEPT !.whole = TRUE]
                  ELSE Mixed(dump[f], a)
  <2>1. f \in Attempt /\ dump[f] \in Content
    BY <1>3 DEF DumpEnds, TypeInv, TypeOK, OpenFilesExist, File
  <2>2. c \in Content
    BY <2>1, WrittenContent
  <2>3. /\ dump' = [dump EXCEPT ![f] = c]
        /\ child' = [child EXCEPT ![a] = None]
        /\ pc' = [pc EXCEPT ![a] = IF pc[a] = "dumping" THEN "dumped" ELSE pc[a]]
        /\ UNCHANGED <<files, described>>
    BY <1>3 DEF DumpEnds
  <2> HIDE DEF f, c
  <2>. QED BY <2>1, <2>2, <2>3, AttemptAssumption
    DEF TypeInv, TypeOK, OpenFilesExist, Location, Active, File, files
<1>4. CASE DumpFails(a)
  BY <1>4, ChildStopsType
     DEF DumpFails, TypeInv, TypeOK, OpenFilesExist, Goto, Location, Active,
         Cleaning, files
<1>. QED BY <1>1, <1>2, <1>3, <1>4 DEF RunPgDump

LEMMA StageType ==
  ASSUME TypeInv, NEW a \in Attempt, Stage(a) PROVE TypeInv'
BY DEF TypeInv, TypeOK, OpenFilesExist, Stage, Describe, DescribeFails,
       WriteMetadata, WriteMetadataFails, Goto, Location, Active, Finalizing,
       Cleaning, File, Entry, files

LEMMA PublishType ==
  ASSUME TypeInv, NEW a \in Attempt, Publish(a) PROVE TypeInv'
BY DEF TypeInv, TypeOK, OpenFilesExist, Publish, LinkArtifact,
       LinkArtifactFails, LinkMetadata, LinkMetadataFails, WithdrawArtifact,
       RemoveTemporary, RemoveMetadataTemporary, RemoveEntry, Goto, Location,
       Active, Ended, Finalizing, Cleaning, File, Entry, files

LEMMA ReplaceType ==
  ASSUME TypeInv, NEW a \in Attempt, Replace(a) PROVE TypeInv'
BY DEF TypeInv, TypeOK, OpenFilesExist, Replace, SeeArtifact, MoveArtifactAside,
       SeeMetadata, MoveMetadataAside, PutArtifact, PutMetadata, LeftBehind, ReplaceFails,
       DiscardRollback, Goto, Location, Active, Ended, Finalizing, Cleaning,
       File, Entry, files

LEMMA RollbackType ==
  ASSUME TypeInv, NEW a \in Attempt, Rollback(a) PROVE TypeInv'
BY DEF TypeInv, TypeOK, OpenFilesExist, Rollback, RollbackUnlinkFinal,
       RollbackUnlinkMetadata, RestoreArtifact, RestoreMetadata, LeftBehind, RollbackFails,
       Goto, Location, Active, Finalizing, Cleaning, File, Entry, files

LEMMA CleanupType ==
  ASSUME TypeInv, NEW a \in Attempt, Cleanup(a) PROVE TypeInv'
BY DEF TypeInv, TypeOK, OpenFilesExist, Cleanup, CleanupTemporary,
       CleanupMetadataTemporary, CleanupEntry, Goto, Location, Active, Ended,
       Cleaning, File, Entry, files

LEMMA CrashType ==
  ASSUME TypeInv, NEW a \in Attempt, Crash(a) PROVE TypeInv'
BY ChildStopsType
   DEF Crash, TypeInv, TypeOK, OpenFilesExist, Location, Ended, files

LEMMA NextTypeInv == TypeInv /\ [Next]_vars => TypeInv'
<1> SUFFICES ASSUME TypeInv, [Next]_vars PROVE TypeInv'
  OBVIOUS
<1>1. ASSUME NEW a \in Attempt, Step(a) PROVE TypeInv'
  BY <1>1, PrepareType, RunPgDumpType, StageType, PublishType, ReplaceType,
     RollbackType, CleanupType DEF Step
<1>2. ASSUME NEW a \in Attempt, Crash(a) PROVE TypeInv'
  BY <1>2, CrashType
<1>3. CASE RemoveStaleTemporaries
  BY <1>3 DEF RemoveStaleTemporaries, TypeInv, TypeOK, OpenFilesExist, Entry, File
<1>4. CASE UNCHANGED vars
  BY <1>4 DEF vars, TypeInv, TypeOK, OpenFilesExist
<1>. QED BY <1>1, <1>2, <1>3, <1>4 DEF Next

(***************************************************************************)
(* Every variable of BackupFileStore keeps its type, and the file an open  *)
(* descriptor writes to has a content.                                     *)
(***************************************************************************)
THEOREM TypeCorrect == Spec => []TypeOK
<1>1. Spec => []TypeInv
  BY InitTypeInv, NextTypeInv, PTL DEF Spec
<1>2. TypeInv => TypeOK
  BY DEF TypeInv
<1>. QED BY <1>1, <1>2, PTL

-----------------------------------------------------------------------------
(***************************************************************************)
(* Concurrent runs without --force.  A run holds the destination from the  *)
(* link of its artifact until it withdraws it; while it has not linked its *)
(* sidecar there is none.  os.link refuses an existing name, so at most    *)
(* one run holds the destination, and no run unlinks an artifact that has  *)
(* its sidecar.                                                            *)
(***************************************************************************)
Linking(a) == pc[a] \in {"artifactLinked", "withdraw"}
Published(a) == pc[a] \in {"metaLinked", "tmpRemoved", "succeeded"}
Holds(a) == Linking(a) \/ Published(a)

RaceInv ==
  /\ \A a \in Attempt : pc[a] \notin
       {"artifactSeen", "artifactMoved", "metaSeen", "metaMoved", "artifactPut",
        "replaced", "rollback", "unlinkMeta", "restoreArtifact", "restoreMeta"}
  /\ \A a \in Attempt : Linking(a) => dir["meta"] = None
  /\ \A a \in Attempt : Published(a) => dir["meta"] # None
  /\ \A a \in Attempt : Holds(a) => dir["final"] # None
  /\ \A a, b \in Attempt : Holds(a) /\ Holds(b) => a = b
  /\ dir["meta"] # None => dir["final"] # None

LEMMA InitRaceInv == Init => RaceInv
BY DEF Init, RaceInv, Linking, Published, Holds, Entry

LEMMA StepRaceInv ==
  ASSUME Forced = {}, TypeOK, RaceInv, NEW a \in Attempt, Step(a) \/ Crash(a)
  PROVE  RaceInv' /\ (dir["final"] # None /\ dir["meta"] # None =>
                        dir'["final"] = dir["final"] /\ dir'["meta"] = dir["meta"])
<1> USE DEF TypeOK, RaceInv, Linking, Published, Holds, Goto, Entry, files
<1>1. CASE Prepare(a)
  BY <1>1 DEF Prepare, CheckDestination, CheckTemporaries
<1>2. CASE RunPgDump(a)
  BY <1>2 DEF RunPgDump, ToolCheckFails, DumpOpens, DumpEnds, DumpFails
<1>3. CASE Stage(a)
  BY <1>3 DEF Stage, Describe, DescribeFails, WriteMetadata, WriteMetadataFails
<1>4. CASE Publish(a)
  <2>1. CASE LinkArtifact(a) \/ LinkArtifactFails(a)
    BY <2>1 DEF LinkArtifact, LinkArtifactFails
  <2>2. CASE LinkMetadata(a) \/ LinkMetadataFails(a)
    BY <2>2 DEF LinkMetadata, LinkMetadataFails
  <2>3. CASE WithdrawArtifact(a)
    BY <2>3 DEF WithdrawArtifact
  <2>4. CASE RemoveTemporary(a) \/ RemoveMetadataTemporary(a)
    BY <2>4 DEF RemoveTemporary, RemoveMetadataTemporary, RemoveEntry
  <2>. QED BY <1>4, <2>1, <2>2, <2>3, <2>4 DEF Publish
<1>5. CASE Replace(a)
  BY <1>5 DEF Replace, SeeArtifact, MoveArtifactAside, SeeMetadata,
              MoveMetadataAside, PutArtifact, PutMetadata, ReplaceFails, DiscardRollback
<1>6. CASE Rollback(a)
  BY <1>6 DEF Rollback, RollbackUnlinkFinal, RollbackUnlinkMetadata,
              RestoreArtifact, RestoreMetadata, RollbackFails
<1>7. CASE Cleanup(a)
  BY <1>7 DEF Cleanup, CleanupTemporary, CleanupMetadataTemporary, CleanupEntry
<1>8. CASE Crash(a)
  BY <1>8 DEF Crash
<1>. QED BY <1>1, <1>2, <1>3, <1>4, <1>5, <1>6, <1>7, <1>8 DEF Step

LEMMA NextRaceInv ==
  ASSUME Forced = {}, TypeOK, RaceInv, [Next]_vars
  PROVE  RaceInv' /\ (dir["final"] # None /\ dir["meta"] # None =>
                        dir'["final"] = dir["final"] /\ dir'["meta"] = dir["meta"])
<1>1. CASE \E a \in Attempt : Step(a) \/ Crash(a)
  BY <1>1, StepRaceInv
<1>2. CASE RemoveStaleTemporaries
  BY <1>2 DEF RemoveStaleTemporaries, TypeOK, RaceInv, Linking, Published, Holds, Entry
<1>3. CASE UNCHANGED vars
  BY <1>3 DEF vars, RaceInv, Linking, Published, Holds
<1>. QED BY <1>1, <1>2, <1>3 DEF Next

(***************************************************************************)
(* Any number of concurrent runs without --force, failing and crashing     *)
(* anywhere: none of them ever disturbs a published pair.                  *)
(***************************************************************************)
THEOREM NeverTouched == Forced = {} => (Spec => PublishedIsNeverTouched)
<1> SUFFICES ASSUME Forced = {} PROVE Spec => PublishedIsNeverTouched
  OBVIOUS
<1>1. TypeOK /\ RaceInv /\ [Next]_vars => RaceInv'
  BY NextRaceInv
<1>2. TypeOK /\ RaceInv /\ [Next]_vars =>
        [dir["final"] # None /\ dir["meta"] # None =>
           dir'["final"] = dir["final"] /\ dir'["meta"] = dir["meta"]]_vars
  BY NextRaceInv
<1>. QED BY <1>1, <1>2, InitRaceInv, TypeCorrect, PTL
  DEF Spec, PublishedIsNeverTouched

(***************************************************************************)
(* Any number of concurrent runs without --force: at most one of them      *)
(* reports success.                                                        *)
(***************************************************************************)
THEOREM OneSuccess == Forced = {} => (Spec => []AtMostOneSuccess)
<1> SUFFICES ASSUME Forced = {} PROVE Spec => []AtMostOneSuccess
  OBVIOUS
<1>1. TypeOK /\ RaceInv /\ [Next]_vars => RaceInv'
  BY NextRaceInv
<1>2. RaceInv => AtMostOneSuccess
  BY DEF RaceInv, Published, Holds, AtMostOneSuccess
<1>. QED BY <1>1, <1>2, InitRaceInv, TypeCorrect, PTL DEF Spec

-----------------------------------------------------------------------------
(***************************************************************************)
(* Runs that follow one another.  What the active run knows at each        *)
(* location of the four shared entries and of its own rollback entries.    *)
(***************************************************************************)
Unstaged == {"new", "destChecked", "prepared", "dumping", "dumped", "described"}
Described == {"staged", "artifactLinked", "withdraw", "artifactSeen",
              "artifactMoved", "metaSeen", "metaMoved"}

OneActive ==
  \A a, b \in Attempt : pc[a] \in Active /\ pc[b] \in Active => a = b

\* A file is written by the pg_dump of the run that created it and no other.
FilesArePrivate ==
  \A a \in Attempt :
    /\ child[a] \in {None, a}
    /\ dump[a] # None => /\ dump[a].opened = a /\ dump[a].mixed = {}
                         /\ dump[a].whole => child[a] = None
    /\ pc[a] \in {"new", "destChecked", "prepared"} => dump[a] = None /\ child[a] = None

ArtifactKept(f) == dir["final"] = f \/ \E a \in Attempt : artRollback[a] = f
SidecarKept(s) == dir["meta"] = s \/ \E a \in Attempt : metaRollback[a] = s

\* A kept artifact is a complete dump, a kept sidecar describes its own run's.
KeptIsSound ==
  \A a \in Attempt :
    /\ pc[a] \in Unstaged => ~ ArtifactKept(a) /\ ~ SidecarKept(a)
    /\ ArtifactKept(a) => Complete(dump[a])
    /\ SidecarKept(a) => Complete(dump[a]) /\ described[a] = dump[a]

Matched(f, s) == f # None /\ s # None => f = s

TemporariesKnown ==
  \A a \in Attempt :
    /\ pc[a] = "prepared" => dir["tmp"] = None /\ dir["metaTmp"] = None
    /\ pc[a] \in {"dumping", "dumped", "described"} =>
         dir["tmp"] = a /\ dir["metaTmp"] = None
    /\ pc[a] = "dumping" => dump[a] # None
    /\ pc[a] = "dumped" => Complete(dump[a])
    /\ pc[a] = "described" => Complete(dump[a]) /\ described[a] = dump[a]
    /\ pc[a] \in Described \cup {"artifactPut"} =>
         /\ dir["metaTmp"] = a
         /\ Complete(dump[a]) /\ described[a] = dump[a]
    /\ pc[a] \in Described => dir["tmp"] = a

DestinationKnown ==
  \A a \in Attempt :
    /\ a \notin Forced /\ pc[a] \in (Unstaged \ {"new"}) \cup {"staged"} =>
         dir["final"] = None /\ dir["meta"] = None
    /\ pc[a] \in {"artifactLinked", "withdraw", "artifactPut"} =>
         dir["final"] = a /\ dir["meta"] = None
    /\ pc[a] \in {"metaLinked", "tmpRemoved", "replaced"} =>
         dir["final"] = a /\ dir["meta"] = a
    /\ pc[a] = "artifactSeen" => dir["final"] # None
    /\ pc[a] = "metaSeen" => dir["meta"] # None
    /\ pc[a] \in {"artifactMoved", "metaSeen", "metaMoved", "unlinkMeta",
                  "restoreArtifact"} => dir["final"] = None
    /\ pc[a] \in {"metaMoved", "restoreArtifact", "restoreMeta"} => dir["meta"] = None

RollbackKnown ==
  \A a \in Attempt :
    /\ pc[a] \in Unstaged \cup {"staged", "artifactSeen"} =>
         artRollback[a] = None /\ metaRollback[a] = None
    /\ pc[a] \in {"artifactMoved", "metaSeen"} =>
         metaRollback[a] = None /\ Matched(artRollback[a], dir["meta"])
    /\ pc[a] \in Active => Matched(artRollback[a], metaRollback[a])
    /\ pc[a] = "restoreMeta" => Matched(dir["final"], metaRollback[a])

SerialInv ==
  /\ OneActive
  /\ FilesArePrivate
  /\ KeptIsSound
  /\ Matched(dir["final"], dir["meta"])
  /\ TemporariesKnown
  /\ DestinationKnown
  /\ RollbackKnown

LEMMA InitSerialInv == Init => SerialInv
BY AttemptAssumption
   DEF Init, SerialInv, OneActive, FilesArePrivate, ArtifactKept, SidecarKept,
       KeptIsSound, Matched, TemporariesKnown, DestinationKnown, RollbackKnown,
       Unstaged, Described, Entry, Active, Finalizing, Cleaning

LEMMA StepSerialInv ==
  ASSUME Overlap = FALSE, TypeInv, SerialInv, NEW a \in Attempt, Step(a) \/ Crash(a)
  PROVE  SerialInv'
<1> USE AttemptAssumption
    DEF TypeInv, TypeOK, SerialInv, OneActive, FilesArePrivate, ArtifactKept,
        SidecarKept, KeptIsSound, Matched, TemporariesKnown, DestinationKnown,
        RollbackKnown, Unstaged, Described, Entry, Active, Finalizing, Cleaning,
        Goto, files, File, Content, Complete
<1>1. CASE Prepare(a)
  BY <1>1 DEF Prepare, CheckDestination, CheckTemporaries
<1>2. CASE RunPgDump(a)
  <2>1. CASE ToolCheckFails(a)
    BY <2>1 DEF ToolCheckFails
  <2>2. CASE DumpOpens(a)
    <3> DEFINE fresh == [opened |-> a, whole |-> FALSE, mixed |-> {}]
    <3>1. dir["tmp"] = None /\ dir["metaTmp"] = None /\ pc[a] = "prepared"
      BY <2>2 DEF DumpOpens
    <3>2. /\ dir' = [dir EXCEPT !["tmp"] = a]
          /\ dump' = [dump EXCEPT ![a] = fresh]
          /\ child' = [child EXCEPT ![a] = a]
          /\ pc' = [pc EXCEPT ![a] = "dumping"]
          /\ UNCHANGED <<artRollback, metaRollback, described>>
      BY <2>2, <3>1 DEF DumpOpens
    <3>3. /\ fresh \in Content /\ fresh # None
          /\ fresh.opened = a /\ fresh.mixed = {} /\ fresh.whole = FALSE
      <4>1. fresh \in Content /\ fresh # None
        BY ONLY a \in Attempt, FreshContent, ContentIsSome
      <4>. QED BY <4>1
    <3> HIDE DEF fresh
    <3>. QED BY <3>1, <3>2, <3>3
  <2>3. CASE DumpEnds(a)
    <3> DEFINE whole == [dump[a] EXCEPT !.whole = TRUE]
    <3>1. child[a] = a /\ dump[a] \in Content /\ dump[a].opened = a
                      /\ dump[a].mixed = {} /\ ~ dump[a].whole
      BY <2>3 DEF DumpEnds, OpenFilesExist
    <3>2. /\ dump' = [dump EXCEPT ![a] = whole]
          /\ child' = [child EXCEPT ![a] = None]
          /\ pc' = [pc EXCEPT ![a] = IF pc[a] = "dumping" THEN "dumped" ELSE pc[a]]
          /\ UNCHANGED <<dir, artRollback, metaRollback, described>>
      BY <2>3, <3>1 DEF DumpEnds
    <3>3. /\ whole \in Content /\ whole # None
          /\ whole.opened = a /\ whole.mixed = {} /\ whole.whole
      BY ONLY <3>1, WholeContent, ContentIsSome
    <3>4. pc[a] # "dumping" => pc[a] \notin Described \cup {"dumped", "described", "artifactPut"}
      BY <3>1
    <3> HIDE DEF whole
    <3>. QED BY <3>1, <3>2, <3>3, <3>4
  <2>4. CASE DumpFails(a)
    BY <2>4 DEF DumpFails, ChildStops, Mixed, OpenFilesExist
  <2>. QED BY <1>2, <2>1, <2>2, <2>3, <2>4 DEF RunPgDump
<1>3. CASE Stage(a)
  <2>1. CASE Describe(a) \/ DescribeFails(a)
    BY <2>1 DEF Describe, DescribeFails
  <2>2. CASE WriteMetadata(a)
    BY <2>2 DEF WriteMetadata
  <2>3. CASE WriteMetadataFails(a)
    BY <2>3 DEF WriteMetadataFails
  <2>. QED BY <1>3, <2>1, <2>2, <2>3 DEF Stage
<1>4. CASE Publish(a)
  <2>1. CASE LinkArtifact(a) \/ LinkArtifactFails(a)
    BY <2>1 DEF LinkArtifact, LinkArtifactFails
  <2>2. CASE LinkMetadata(a) \/ LinkMetadataFails(a)
    BY <2>2 DEF LinkMetadata, LinkMetadataFails
  <2>3. CASE WithdrawArtifact(a)
    BY <2>3 DEF WithdrawArtifact
  <2>4. CASE RemoveTemporary(a) \/ RemoveMetadataTemporary(a)
    BY <2>4 DEF RemoveTemporary, RemoveMetadataTemporary, RemoveEntry
  <2>. QED BY <1>4, <2>1, <2>2, <2>3, <2>4 DEF Publish
<1>5. CASE Replace(a)
  <2>1. CASE SeeArtifact(a) \/ MoveArtifactAside(a)
    BY <2>1 DEF SeeArtifact, MoveArtifactAside
  <2>2. CASE SeeMetadata(a) \/ MoveMetadataAside(a)
    BY <2>2 DEF SeeMetadata, MoveMetadataAside
  <2>3. CASE PutArtifact(a)
    BY <2>3 DEF PutArtifact
  <2>4. CASE PutMetadata(a)
    BY <2>4 DEF PutMetadata
  <2>5. CASE ReplaceFails(a)
    BY <2>5 DEF ReplaceFails
  <2>6. CASE DiscardRollback(a)
    BY <2>6 DEF DiscardRollback
  <2>. QED BY <1>5, <2>1, <2>2, <2>3, <2>4, <2>5, <2>6 DEF Replace
<1>6. CASE Rollback(a)
  <2>1. CASE RollbackUnlinkFinal(a) \/ RollbackUnlinkMetadata(a)
    BY <2>1 DEF RollbackUnlinkFinal, RollbackUnlinkMetadata
  <2>2. CASE RestoreArtifact(a)
    BY <2>2 DEF RestoreArtifact, LeftBehind
  <2>3. CASE RestoreMetadata(a)
    BY <2>3 DEF RestoreMetadata, LeftBehind
  <2>4. CASE RollbackFails(a)
    BY <2>4 DEF RollbackFails
  <2>. QED BY <1>6, <2>1, <2>2, <2>3, <2>4 DEF Rollback
<1>7. CASE Cleanup(a)
  BY <1>7 DEF Cleanup, CleanupTemporary, CleanupMetadataTemporary, CleanupEntry
<1>8. CASE Crash(a)
  BY <1>8 DEF Crash, ChildStops, Mixed, OpenFilesExist
<1>. QED BY <1>1, <1>2, <1>3, <1>4, <1>5, <1>6, <1>7, <1>8 DEF Step

LEMMA NextSerialInv ==
  ASSUME Overlap = FALSE, TypeInv, SerialInv, [Next]_vars
  PROVE  SerialInv'
<1>1. CASE \E a \in Attempt : Step(a) \/ Crash(a)
  BY <1>1, StepSerialInv
<1>2. CASE RemoveStaleTemporaries
  BY <1>2
     DEF RemoveStaleTemporaries, TypeInv, TypeOK, SerialInv, OneActive,
         FilesArePrivate, ArtifactKept, SidecarKept, KeptIsSound, Matched,
         TemporariesKnown, DestinationKnown, RollbackKnown, Unstaged, Described,
         Entry, Active, Finalizing, Cleaning
<1>3. CASE UNCHANGED vars
  BY <1>3
     DEF vars, SerialInv, OneActive, FilesArePrivate, ArtifactKept, SidecarKept,
         KeptIsSound, Matched, TemporariesKnown, DestinationKnown, RollbackKnown
<1>. QED BY <1>1, <1>2, <1>3 DEF Next

(***************************************************************************)
(* Runs that follow one another, forced or not, with any call failing and  *)
(* a crash anywhere: an artifact and a sidecar at the destination are a    *)
(* complete dump and its description.                                      *)
(***************************************************************************)
THEOREM PairIsSound == Overlap = FALSE => (Spec => []PublishedPairIsSound)
<1> SUFFICES ASSUME Overlap = FALSE PROVE Spec => []PublishedPairIsSound
  OBVIOUS
<1>1. TypeInv /\ SerialInv /\ [Next]_vars => SerialInv'
  BY NextSerialInv
<1>2. TypeInv /\ SerialInv => PublishedPairIsSound
  BY DEF TypeInv, TypeOK, Entry, File, SerialInv, KeptIsSound, ArtifactKept,
         SidecarKept, Matched, PublishedPairIsSound, Describes
<1>. QED BY <1>1, <1>2, InitTypeInv, NextTypeInv, InitSerialInv, PTL DEF Spec

-----------------------------------------------------------------------------
(***************************************************************************)
(* What is not lost.  A run's sidecar is nowhere until the run publishes   *)
(* it, and when the moves that set the old pair aside cannot fail, the     *)
(* rollback handler unlinks nothing but what its own run has put there.    *)
(***************************************************************************)
MovesDoNotFail == {"moveArtifact", "moveMetadata"} \cap Failable = {}

Unpublished == Unstaged \cup Described \cup {"artifactPut", "rollback"}

SurvivalInv ==
  /\ \A a \in Attempt : pc[a] \in Unpublished => ~ SidecarKept(a)
  /\ \A a \in Attempt : pc[a] = "rollback" => dir["final"] \in {None, a}
  /\ \A a \in Attempt : pc[a] \in {"rollback", "unlinkMeta"} => dir["meta"] = None
  /\ (\E a \in Attempt : pc[a] = "succeeded") =>
       \E f \in Attempt : ArtifactKept(f) /\ SidecarKept(f)

LEMMA InitSurvivalInv == Init => SurvivalInv
BY AttemptAssumption
   DEF Init, SurvivalInv, SidecarKept, Entry, Unpublished, Unstaged, Described

LEMMA StepSurvivalInv ==
  ASSUME Overlap = FALSE, MovesDoNotFail, TypeInv, SerialInv, SurvivalInv,
         NEW a \in Attempt, Step(a) \/ Crash(a)
  PROVE  SurvivalInv'
<1> USE AttemptAssumption
    DEF TypeInv, TypeOK, SerialInv, OneActive, ArtifactKept, SidecarKept,
        KeptIsSound, DestinationKnown, TemporariesKnown, RollbackKnown,
        SurvivalInv, Unpublished, Unstaged, Described, Entry, Active,
        Finalizing, Cleaning, Goto, files, File
<1>1. CASE Prepare(a)
  BY <1>1 DEF Prepare, CheckDestination, CheckTemporaries
<1>2. CASE RunPgDump(a)
  BY <1>2 DEF RunPgDump, ToolCheckFails, DumpOpens, DumpEnds, DumpFails
<1>3. CASE Stage(a)
  BY <1>3 DEF Stage, Describe, DescribeFails, WriteMetadata, WriteMetadataFails
<1>4. CASE Publish(a)
  <2>1. CASE LinkArtifact(a) \/ LinkArtifactFails(a)
    BY <2>1 DEF LinkArtifact, LinkArtifactFails
  <2>2. CASE LinkMetadata(a) \/ LinkMetadataFails(a)
    BY <2>2 DEF LinkMetadata, LinkMetadataFails
  <2>3. CASE WithdrawArtifact(a)
    BY <2>3 DEF WithdrawArtifact
  <2>4. CASE RemoveTemporary(a) \/ RemoveMetadataTemporary(a)
    BY <2>4 DEF RemoveTemporary, RemoveMetadataTemporary, RemoveEntry
  <2>. QED BY <1>4, <2>1, <2>2, <2>3, <2>4 DEF Publish
<1>5. CASE Replace(a)
  <2>1. CASE SeeArtifact(a) \/ MoveArtifactAside(a)
    BY <2>1 DEF SeeArtifact, MoveArtifactAside
  <2>2. CASE SeeMetadata(a) \/ MoveMetadataAside(a)
    BY <2>2 DEF SeeMetadata, MoveMetadataAside
  <2>3. CASE PutArtifact(a)
    BY <2>3 DEF PutArtifact
  <2>4. CASE PutMetadata(a)
    BY <2>4 DEF PutMetadata
  <2>5. CASE ReplaceFails(a)
    BY <2>5 DEF ReplaceFails, MovesDoNotFail
  <2>6. CASE DiscardRollback(a)
    BY <2>6 DEF DiscardRollback
  <2>. QED BY <1>5, <2>1, <2>2, <2>3, <2>4, <2>5, <2>6 DEF Replace
<1>6. CASE Rollback(a)
  <2>1. CASE RollbackUnlinkFinal(a)
    BY <2>1 DEF RollbackUnlinkFinal
  <2>2. CASE RollbackUnlinkMetadata(a)
    BY <2>2 DEF RollbackUnlinkMetadata
  <2>3. CASE RestoreArtifact(a)
    BY <2>3 DEF RestoreArtifact
  <2>4. CASE RestoreMetadata(a)
    BY <2>4 DEF RestoreMetadata, LeftBehind
  <2>5. CASE RollbackFails(a)
    BY <2>5 DEF RollbackFails
  <2>. QED BY <1>6, <2>1, <2>2, <2>3, <2>4, <2>5 DEF Rollback
<1>7. CASE Cleanup(a)
  BY <1>7 DEF Cleanup, CleanupTemporary, CleanupMetadataTemporary, CleanupEntry
<1>8. CASE Crash(a)
  BY <1>8 DEF Crash
<1>. QED BY <1>1, <1>2, <1>3, <1>4, <1>5, <1>6, <1>7, <1>8 DEF Step

LEMMA NextSurvivalInv ==
  ASSUME Overlap = FALSE, MovesDoNotFail, TypeInv, SerialInv, SurvivalInv, [Next]_vars
  PROVE  SurvivalInv'
<1>1. CASE \E a \in Attempt : Step(a) \/ Crash(a)
  BY <1>1, StepSurvivalInv
<1>2. CASE RemoveStaleTemporaries
  BY <1>2
     DEF RemoveStaleTemporaries, TypeInv, TypeOK, SurvivalInv, ArtifactKept,
         SidecarKept, Entry
<1>3. CASE UNCHANGED vars
  BY <1>3 DEF vars, SurvivalInv, ArtifactKept, SidecarKept
<1>. QED BY <1>1, <1>2, <1>3 DEF Next

(***************************************************************************)
(* Runs that follow one another, forced or not, with a crash anywhere and  *)
(* any call failing but the two moves that set the old pair aside: a       *)
(* backup that was reported stays in the directory until a later one has   *)
(* taken its place.                                                        *)
(***************************************************************************)
THEOREM ReportedBackupSurvives ==
  Overlap = FALSE /\ MovesDoNotFail => (Spec => []BackupSurvives)
<1> SUFFICES ASSUME Overlap = FALSE, MovesDoNotFail PROVE Spec => []BackupSurvives
  OBVIOUS
<1>1. TypeInv /\ SerialInv /\ [Next]_vars => SerialInv'
  BY NextSerialInv
<1>2. TypeInv /\ SerialInv /\ SurvivalInv /\ [Next]_vars => SurvivalInv'
  BY NextSurvivalInv
<1>3. SerialInv /\ SurvivalInv => BackupSurvives
  BY AttemptAssumption
     DEF SerialInv, KeptIsSound, SurvivalInv, ArtifactKept, SidecarKept,
         ArtifactsKept, SidecarsKept, BackupSurvives, Describes
<1>. QED BY <1>1, <1>2, <1>3, InitTypeInv, NextTypeInv, InitSerialInv,
            InitSurvivalInv, PTL DEF Spec

-----------------------------------------------------------------------------
(***************************************************************************)
(* Temporary files.  cleanup_temporary and finalize remove by name, so a   *)
(* file need not be removed by the run that created it: it is enough that  *)
(* each name in use is still ahead of some run, or of one that was killed. *)
(* os.replace leaves the temporary name when the destination is a link to  *)
(* the same file: then the run that linked them is still to remove it.     *)
(***************************************************************************)
RemovesTemporary ==
  {"dumping", "dumped", "described", "staged", "artifactLinked", "withdraw",
   "metaLinked", "artifactSeen", "artifactMoved", "metaSeen", "metaMoved",
   "rollback", "unlinkMeta", "restoreArtifact", "restoreMeta", "cleanup"}

RemovesMetadataTemporary ==
  {"staged", "artifactLinked", "withdraw", "metaLinked", "tmpRemoved",
   "artifactSeen", "artifactMoved", "metaSeen", "metaMoved", "artifactPut",
   "rollback", "unlinkMeta", "restoreArtifact", "restoreMeta"} \cup Cleaning

CleanInv ==
  /\ dir["tmp"] # None =>
       \E a \in Attempt : pc[a] \in RemovesTemporary \cup {"crashed"}
  /\ dir["metaTmp"] # None =>
       \E a \in Attempt : pc[a] \in RemovesMetadataTemporary \cup {"crashed"}

\* A run that has linked the artifact (the sidecar) and not yet removed its
\* temporary name.
LeavesArtifact(a) ==
  pc[a] \in {"artifactLinked", "withdraw", "metaLinked", "cleanup", "crashed"}

LeavesSidecar(a) ==
  pc[a] \in {"metaLinked", "tmpRemoved", "cleanup", "cleanupMeta", "crashed"}

\* A file has no name before its run creates it, and a file that is both
\* temporary and kept was linked by a run that has not removed its old name.
LinkInv ==
  /\ \A a \in Attempt :
       /\ pc[a] \in {"new", "destChecked", "prepared"} =>
            dir["tmp"] # a /\ ~ ArtifactKept(a)
       /\ pc[a] \in Unstaged => dir["metaTmp"] # a /\ ~ SidecarKept(a)
  /\ dir["tmp"] # None /\ ArtifactKept(dir["tmp"]) => \E a \in Attempt : LeavesArtifact(a)
  /\ dir["metaTmp"] # None /\ SidecarKept(dir["metaTmp"]) =>
       \E a \in Attempt : LeavesSidecar(a)

LEMMA InitLink == Init => LinkInv
BY AttemptAssumption DEF Init, LinkInv, ArtifactKept, SidecarKept, Entry

LEMMA StepLink ==
  ASSUME "unlink" \notin Failable, TypeOK, LinkInv,
         NEW a \in Attempt, Step(a) \/ Crash(a)
  PROVE  LinkInv'
<1> USE AttemptAssumption
    DEF TypeOK, LinkInv, ArtifactKept, SidecarKept, LeavesArtifact, LeavesSidecar,
        Unstaged, Goto, Entry, File, files
<1>1. CASE Prepare(a)
  BY <1>1 DEF Prepare, CheckDestination, CheckTemporaries
<1>2. CASE RunPgDump(a)
  <2>1. CASE DumpOpens(a)
    BY <2>1 DEF DumpOpens
  <2>2. CASE ToolCheckFails(a) \/ DumpEnds(a) \/ DumpFails(a)
    BY <2>2 DEF ToolCheckFails, DumpEnds, DumpFails
  <2>. QED BY <1>2, <2>1, <2>2 DEF RunPgDump
<1>3. CASE Stage(a)
  BY <1>3 DEF Stage, Describe, DescribeFails, WriteMetadata, WriteMetadataFails
<1>4. CASE Publish(a)
  <2>1. CASE LinkArtifact(a) \/ LinkArtifactFails(a)
    BY <2>1 DEF LinkArtifact, LinkArtifactFails
  <2>2. CASE LinkMetadata(a) \/ LinkMetadataFails(a)
    BY <2>2 DEF LinkMetadata, LinkMetadataFails
  <2>3. CASE WithdrawArtifact(a)
    BY <2>3 DEF WithdrawArtifact
  <2>4. CASE RemoveTemporary(a)
    BY <2>4 DEF RemoveTemporary, RemoveEntry
  <2>5. CASE RemoveMetadataTemporary(a)
    BY <2>5 DEF RemoveMetadataTemporary, RemoveEntry
  <2>. QED BY <1>4, <2>1, <2>2, <2>3, <2>4, <2>5 DEF Publish
<1>5. CASE Replace(a)
  <2>1. CASE SeeArtifact(a) \/ SeeMetadata(a) \/ ReplaceFails(a)
    BY <2>1 DEF SeeArtifact, SeeMetadata, ReplaceFails
  <2>2. CASE MoveArtifactAside(a)
    BY <2>2 DEF MoveArtifactAside
  <2>3. CASE MoveMetadataAside(a)
    BY <2>3 DEF MoveMetadataAside
  <2>4. CASE PutArtifact(a)
    BY <2>4 DEF PutArtifact, LeftBehind
  <2>5. CASE PutMetadata(a)
    BY <2>5 DEF PutMetadata, LeftBehind
  <2>6. CASE DiscardRollback(a)
    BY <2>6 DEF DiscardRollback
  <2>. QED BY <1>5, <2>1, <2>2, <2>3, <2>4, <2>5, <2>6 DEF Replace
<1>6. CASE Rollback(a)
  <2>1. CASE RollbackUnlinkFinal(a) \/ RollbackUnlinkMetadata(a) \/ RollbackFails(a)
    BY <2>1 DEF RollbackUnlinkFinal, RollbackUnlinkMetadata, RollbackFails
  <2>2. CASE RestoreArtifact(a)
    BY <2>2 DEF RestoreArtifact, LeftBehind
  <2>3. CASE RestoreMetadata(a)
    BY <2>3 DEF RestoreMetadata, LeftBehind
  <2>. QED BY <1>6, <2>1, <2>2, <2>3 DEF Rollback
<1>7. CASE Cleanup(a)
  BY <1>7 DEF Cleanup, CleanupTemporary, CleanupMetadataTemporary, CleanupEntry
<1>8. CASE Crash(a)
  BY <1>8 DEF Crash, Active, Finalizing, Cleaning
<1>. QED BY <1>1, <1>2, <1>3, <1>4, <1>5, <1>6, <1>7, <1>8 DEF Step

LEMMA NextLink ==
  ASSUME "unlink" \notin Failable, TypeOK, LinkInv, [Next]_vars
  PROVE  LinkInv'
<1>1. CASE \E a \in Attempt : Step(a) \/ Crash(a)
  BY <1>1, StepLink
<1>2. CASE RemoveStaleTemporaries
  BY <1>2, AttemptAssumption
     DEF RemoveStaleTemporaries, TypeOK, LinkInv, ArtifactKept, SidecarKept,
         LeavesArtifact, LeavesSidecar, Entry
<1>3. CASE UNCHANGED vars
  BY <1>3 DEF vars, LinkInv, ArtifactKept, SidecarKept, LeavesArtifact, LeavesSidecar
<1>. QED BY <1>1, <1>2, <1>3 DEF Next

LEMMA InitClean == Init => CleanInv
BY DEF Init, CleanInv, Entry

LEMMA StepClean ==
  ASSUME "unlink" \notin Failable, TypeOK, LinkInv, CleanInv,
         NEW a \in Attempt, Step(a) \/ Crash(a)
  PROVE  CleanInv'
<1> USE DEF TypeOK, CleanInv, RemovesTemporary, RemovesMetadataTemporary, Cleaning,
            Goto, Entry, files
<1>1. CASE Prepare(a)
  BY <1>1 DEF Prepare, CheckDestination, CheckTemporaries
<1>2. CASE RunPgDump(a)
  BY <1>2 DEF RunPgDump, ToolCheckFails, DumpOpens, DumpEnds, DumpFails
<1>3. CASE Stage(a)
  BY <1>3 DEF Stage, Describe, DescribeFails, WriteMetadata, WriteMetadataFails
<1>4. CASE Publish(a)
  <2>1. CASE LinkArtifact(a) \/ LinkArtifactFails(a)
    BY <2>1 DEF LinkArtifact, LinkArtifactFails
  <2>2. CASE LinkMetadata(a) \/ LinkMetadataFails(a) \/ WithdrawArtifact(a)
    BY <2>2 DEF LinkMetadata, LinkMetadataFails, WithdrawArtifact
  <2>3. CASE RemoveTemporary(a) \/ RemoveMetadataTemporary(a)
    BY <2>3 DEF RemoveTemporary, RemoveMetadataTemporary, RemoveEntry
  <2>. QED BY <1>4, <2>1, <2>2, <2>3 DEF Publish
<1>5. CASE Replace(a)
  <2>1. CASE SeeArtifact(a) \/ MoveArtifactAside(a) \/ SeeMetadata(a)
               \/ MoveMetadataAside(a)
    BY <2>1 DEF SeeArtifact, MoveArtifactAside, SeeMetadata, MoveMetadataAside
  <2>2. CASE PutArtifact(a) \/ PutMetadata(a)
    BY <2>2 DEF PutArtifact, PutMetadata, LeftBehind, LinkInv, ArtifactKept, SidecarKept,
                LeavesArtifact, LeavesSidecar
  <2>3. CASE ReplaceFails(a) \/ DiscardRollback(a)
    BY <2>3 DEF ReplaceFails, DiscardRollback
  <2>. QED BY <1>5, <2>1, <2>2, <2>3 DEF Replace
<1>6. CASE Rollback(a)
  BY <1>6 DEF Rollback, RollbackUnlinkFinal, RollbackUnlinkMetadata,
              RestoreArtifact, RestoreMetadata, RollbackFails
<1>7. CASE Cleanup(a)
  BY <1>7 DEF Cleanup, CleanupTemporary, CleanupMetadataTemporary, CleanupEntry
<1>8. CASE Crash(a)
  BY <1>8 DEF Crash
<1>. QED BY <1>1, <1>2, <1>3, <1>4, <1>5, <1>6, <1>7, <1>8 DEF Step

LEMMA NextClean ==
  ASSUME "unlink" \notin Failable, TypeOK, LinkInv, CleanInv, [Next]_vars
  PROVE  CleanInv'
<1>1. CASE \E a \in Attempt : Step(a) \/ Crash(a)
  BY <1>1, StepClean
<1>2. CASE RemoveStaleTemporaries
  BY <1>2 DEF RemoveStaleTemporaries, TypeOK, CleanInv, Entry
<1>3. CASE UNCHANGED vars
  BY <1>3 DEF vars, CleanInv
<1>. QED BY <1>1, <1>2, <1>3 DEF Next

(***************************************************************************)
(* Any number of runs, forced and not, overlapping as they like, with any  *)
(* call failing but the unlinks: once all have ended, temporary files are  *)
(* left only if one of the runs was killed.                                *)
(***************************************************************************)
THEOREM TemporariesRemoved ==
  "unlink" \notin Failable => (Spec => []TemporariesAreCleanedUp)
<1> SUFFICES ASSUME "unlink" \notin Failable
             PROVE  Spec => []TemporariesAreCleanedUp
  OBVIOUS
<1>1. TypeOK /\ LinkInv /\ CleanInv /\ [Next]_vars => LinkInv' /\ CleanInv'
  BY NextLink, NextClean
<1>2. CleanInv => TemporariesAreCleanedUp
  BY DEF CleanInv, TemporariesAreCleanedUp, NoneActive, Active, Finalizing, Cleaning,
         RemovesTemporary, RemovesMetadataTemporary
<1>. QED BY <1>1, <1>2, InitLink, InitClean, TypeCorrect, PTL DEF Spec

-----------------------------------------------------------------------------
(***************************************************************************)
(* Refinement of BackupSlot by runs that follow one another.  What is kept *)
(* and what is set aside are sets and a choice over all runs; where one    *)
(* run is active they are read off the directory and that run.             *)
(***************************************************************************)
\* The calls that may fail: those that give the staged pair its names.  After
\* a refused unlink a run fails with its own backup shown, and after a refused
\* move or rollback call (v_rollback) it leaves less shown than it found.
OnlyStagingFails == Failable \subseteq {"link", "put"}

LEMMA KeptExactly ==
  TypeInv /\ SerialInv => Kept = {s \in Attempt : ArtifactKept(s) /\ SidecarKept(s)}
<1> SUFFICES ASSUME TypeInv, SerialInv
             PROVE  Kept = {s \in Attempt : ArtifactKept(s) /\ SidecarKept(s)}
  OBVIOUS
<1>1. \A s \in SidecarsKept : s # None => s \in Attempt /\ SidecarKept(s)
  BY DEF SidecarsKept, SidecarKept, TypeInv, TypeOK, File, Entry
<1>2. \A f \in ArtifactsKept : f # None => f \in Attempt /\ ArtifactKept(f)
  BY DEF ArtifactsKept, ArtifactKept, TypeInv, TypeOK, File, Entry
<1>3. ASSUME NEW s \in Attempt, SidecarKept(s), NEW f \in Attempt, ArtifactKept(f)
      PROVE  Describes(s, f) <=> s = f
  <2>1. /\ Complete(dump[f]) /\ Complete(dump[s]) /\ described[s] = dump[s]
        /\ dump[f].opened = f /\ dump[s].opened = s
    BY <1>3 DEF SerialInv, KeptIsSound, FilesArePrivate, Complete
  <2>. QED BY <2>1, AttemptAssumption DEF Describes
<1>4. ASSUME NEW s \in Kept PROVE s \in Attempt /\ ArtifactKept(s) /\ SidecarKept(s)
  <2>1. PICK f \in ArtifactsKept : Describes(s, f)
    BY DEF Kept
  <2>. QED BY <1>1, <1>2, <1>3, <2>1 DEF Kept, Describes
<1>5. ASSUME NEW s \in Attempt, ArtifactKept(s), SidecarKept(s) PROVE s \in Kept
  BY <1>3, <1>5 DEF Kept, ArtifactsKept, ArtifactKept, SidecarsKept, SidecarKept
<1>. QED BY <1>4, <1>5

LEMMA AsideExactly ==
  OneActive =>
    /\ \A a \in Attempt : Replacing(a) => Aside = SidecarAside(a)
    /\ (\A a \in Attempt : ~Replacing(a)) => Aside = None
<1> SUFFICES ASSUME OneActive
             PROVE  /\ \A a \in Attempt : Replacing(a) => Aside = SidecarAside(a)
                    /\ (\A a \in Attempt : ~Replacing(a)) => Aside = None
  OBVIOUS
<1> DEFINE owners == {a \in Attempt : Replacing(a) /\ SidecarAside(a) # None}
<1>1. Aside = IF owners = {} THEN None ELSE SidecarAside(CHOOSE a \in owners : TRUE)
  BY DEF Aside
<1>2. \A a, b \in Attempt : Replacing(a) /\ Replacing(b) => a = b
  BY DEF OneActive, Replacing, Active, Finalizing
<1>3. ASSUME NEW a \in Attempt, Replacing(a) PROVE Aside = SidecarAside(a)
  <2>1. CASE SidecarAside(a) = None
    <3>1. owners = {}
      BY <1>2, <1>3, <2>1
    <3>. QED BY <1>1, <2>1, <3>1
  <2>2. CASE SidecarAside(a) # None
    <3>1. owners = {a}
      BY <1>2, <1>3, <2>2
    <3> HIDE DEF owners
    <3>2. (CHOOSE b \in owners : TRUE) = a
      BY <3>1
    <3>. QED BY <1>1, <3>1, <3>2
  <2>. QED BY <2>1, <2>2
<1>4. ASSUME \A a \in Attempt : ~Replacing(a) PROVE Aside = None
  <2>1. owners = {}
    BY <1>4
  <2>. QED BY <1>1, <2>1
<1>. QED BY <1>3, <1>4

\* The same of the state after a step.
LEMMA SlotAfter ==
  /\ TypeInv' /\ SerialInv' =>
       Kept' = {s \in Attempt : ArtifactKept(s)' /\ SidecarKept(s)'}
  /\ OneActive' =>
       /\ \A a \in Attempt : Replacing(a)' => Aside' = SidecarAside(a)'
       /\ (\A a \in Attempt : ~Replacing(a)') => Aside' = None
<1>1. (TypeInv /\ SerialInv => Kept = {s \in Attempt : ArtifactKept(s) /\ SidecarKept(s)})'
  BY KeptExactly, PTL
<1>2. (OneActive =>
         /\ \A a \in Attempt : Replacing(a) => Aside = SidecarAside(a)
         /\ (\A a \in Attempt : ~Replacing(a)) => Aside = None)'
  BY AsideExactly, PTL
<1>. QED BY <1>1, <1>2

(***************************************************************************)
(* What the refinement needs beyond SerialInv and SurvivalInv: only forced *)
(* runs replace, a published run still has its temporary names to remove,  *)
(* and a run that fails has left no sidecar.                               *)
(***************************************************************************)
SlotInv ==
  \A a \in Attempt :
    /\ pc[a] = "artifactSeen" \/ Replacing(a) => a \in Forced
    /\ pc[a] = "metaLinked" => dir["tmp"] = a /\ dir["metaTmp"] = a
    /\ pc[a] = "tmpRemoved" => dir["metaTmp"] = a
    /\ pc[a] \in {"unlinkMeta", "restoreArtifact", "restoreMeta"} \cup Cleaning =>
         ~ SidecarKept(a)
    /\ pc[a] = "restoreMeta" => artRollback[a] = None

LEMMA InitSlotInv == Init => SlotInv
BY DEF Init, SlotInv, Replacing, Cleaning

LEMMA StepSlotInv ==
  ASSUME Overlap = FALSE, MovesDoNotFail, OnlyStagingFails,
         TypeInv, SerialInv, SurvivalInv, SlotInv,
         NEW a \in Attempt, Step(a) \/ Crash(a)
  PROVE  SlotInv'
<1> USE AttemptAssumption
    DEF TypeInv, TypeOK, SerialInv, OneActive, SidecarKept, DestinationKnown,
        TemporariesKnown, SurvivalInv, SlotInv, Replacing, OnlyStagingFails,
        MovesDoNotFail, Unpublished, Unstaged, Described, Entry, Active,
        Finalizing, Cleaning, Goto, files, File
<1>1. CASE Prepare(a)
  BY <1>1 DEF Prepare, CheckDestination, CheckTemporaries
<1>2. CASE RunPgDump(a)
  BY <1>2 DEF RunPgDump, ToolCheckFails, DumpOpens, DumpEnds, DumpFails
<1>3. CASE Stage(a)
  BY <1>3 DEF Stage, Describe, DescribeFails, WriteMetadata, WriteMetadataFails
<1>4. CASE Publish(a)
  <2>1. CASE LinkArtifact(a) \/ LinkArtifactFails(a)
    BY <2>1 DEF LinkArtifact, LinkArtifactFails
  <2>2. CASE LinkMetadata(a) \/ LinkMetadataFails(a)
    BY <2>2 DEF LinkMetadata, LinkMetadataFails
  <2>3. CASE WithdrawArtifact(a)
    BY <2>3 DEF WithdrawArtifact
  <2>4. CASE RemoveTemporary(a) \/ RemoveMetadataTemporary(a)
    BY <2>4 DEF RemoveTemporary, RemoveMetadataTemporary, RemoveEntry
  <2>. QED BY <1>4, <2>1, <2>2, <2>3, <2>4 DEF Publish
<1>5. CASE Replace(a)
  <2>1. CASE SeeArtifact(a) \/ MoveArtifactAside(a)
    BY <2>1 DEF SeeArtifact, MoveArtifactAside
  <2>2. CASE SeeMetadata(a) \/ MoveMetadataAside(a)
    BY <2>2 DEF SeeMetadata, MoveMetadataAside
  <2>3. CASE PutArtifact(a) \/ PutMetadata(a)
    BY <2>3 DEF PutArtifact, PutMetadata
  <2>4. CASE ReplaceFails(a)
    BY <2>4 DEF ReplaceFails
  <2>5. CASE DiscardRollback(a)
    BY <2>5 DEF DiscardRollback
  <2>. QED BY <1>5, <2>1, <2>2, <2>3, <2>4, <2>5 DEF Replace
<1>6. CASE Rollback(a)
  <2>1. CASE RollbackUnlinkFinal(a) \/ RollbackUnlinkMetadata(a)
    BY <2>1 DEF RollbackUnlinkFinal, RollbackUnlinkMetadata
  <2>2. CASE RestoreArtifact(a) \/ RestoreMetadata(a)
    BY <2>2 DEF RestoreArtifact, RestoreMetadata, LeftBehind
  <2>3. CASE RollbackFails(a)
    BY <2>3 DEF RollbackFails
  <2>. QED BY <1>6, <2>1, <2>2, <2>3 DEF Rollback
<1>7. CASE Cleanup(a)
  BY <1>7 DEF Cleanup, CleanupTemporary, CleanupMetadataTemporary, CleanupEntry
<1>8. CASE Crash(a)
  BY <1>8 DEF Crash
<1>. QED BY <1>1, <1>2, <1>3, <1>4, <1>5, <1>6, <1>7, <1>8 DEF Step

LEMMA NextSlotInv ==
  ASSUME Overlap = FALSE, MovesDoNotFail, OnlyStagingFails,
         TypeInv, SerialInv, SurvivalInv, SlotInv, [Next]_vars
  PROVE  SlotInv'
<1>1. CASE \E a \in Attempt : Step(a) \/ Crash(a)
  BY <1>1, StepSlotInv
<1>2. CASE RemoveStaleTemporaries
  BY <1>2 DEF RemoveStaleTemporaries, TypeInv, TypeOK, SlotInv, Replacing,
              SidecarKept, Entry, Active, Finalizing, Cleaning
<1>3. CASE UNCHANGED vars
  BY <1>3 DEF vars, SlotInv, Replacing, SidecarKept
<1>. QED BY <1>1, <1>2, <1>3 DEF Next

-----------------------------------------------------------------------------
(* What a step of one run does to the slot.                                 *)

SlotStep == [Slot!Next]_(Slot!vars)

\* All that is known before and after a step.
AroundStep ==
  /\ TypeInv /\ SerialInv /\ SurvivalInv /\ SlotInv
  /\ TypeInv' /\ SerialInv' /\ SlotInv'

\* Where a run is tells what has been set aside.
LEMMA AsideOf ==
  ASSUME SerialInv, NEW a \in Attempt, pc[a] \in Active
  PROVE  Aside = IF Replacing(a) THEN SidecarAside(a) ELSE None
<1>1. \A b \in Attempt : Replacing(b) => b = a
  BY DEF SerialInv, OneActive, Replacing, Active, Finalizing
<1>. QED BY <1>1, AsideExactly DEF SerialInv

LEMMA AsideAfter ==
  ASSUME SerialInv, SerialInv', NEW a \in Attempt, pc[a] \in Active, pc' = [pc EXCEPT ![a] = pc'[a]],
         TypeInv
  PROVE  Aside' = IF Replacing(a)' THEN SidecarAside(a)' ELSE None
<1>1. \A b \in Attempt : b # a => ~Replacing(b)
  BY DEF SerialInv, OneActive, Replacing, Active, Finalizing
<1>2. \A b \in Attempt : b # a => ~Replacing(b)'
  BY <1>1 DEF Replacing, TypeInv, TypeOK
<1>3. OneActive'
  BY DEF SerialInv
<1>4. CASE Replacing(a)'
  BY <1>3, <1>4, SlotAfter
<1>5. CASE ~Replacing(a)'
  BY <1>2, <1>3, <1>5, SlotAfter
<1>. QED BY <1>4, <1>5

\* The outcome of a run changes when the run ends.
LEMMA OutcomeAfter ==
  ASSUME TypeInv, NEW a \in Attempt, NEW to \in Location, pc[a] \notin Ended,
         pc' = [pc EXCEPT ![a] = to]
  PROVE  /\ RunOutcome[a] = "pending"
         /\ RunOutcome' = IF to \in Ended THEN [RunOutcome EXCEPT ![a] = to] ELSE RunOutcome
BY DEF TypeInv, TypeOK, RunOutcome, Ended

\* Nothing that is shown or kept depends on the temporary names.
LEMMA SameDirectory ==
  ASSUME AroundStep, dir'["final"] = dir["final"], dir'["meta"] = dir["meta"],
         UNCHANGED <<artRollback, metaRollback>>
  PROVE  Shown' = Shown /\ Kept' = Kept
<1>1. /\ \A s \in Attempt : ArtifactKept(s)' <=> ArtifactKept(s)
      /\ \A s \in Attempt : SidecarKept(s)' <=> SidecarKept(s)
  BY DEF ArtifactKept, SidecarKept
<1>2. Shown' = Shown
  BY DEF Shown
<1>. QED BY <1>1, <1>2, KeptExactly, SlotAfter DEF AroundStep

\* A step of a run from one of its locations to another that does not end it,
\* changes no more than temporary names and sets nothing aside.
LEMMA IdleStep ==
  ASSUME AroundStep, NEW a \in Attempt, NEW to \in Active,
         pc[a] \in Active \cup {"new"}, pc' = [pc EXCEPT ![a] = to],
         dir'["final"] = dir["final"], dir'["meta"] = dir["meta"],
         UNCHANGED <<artRollback, metaRollback>>,
         Aside' = Aside
  PROVE  SlotStep
<1>1. to \notin Ended /\ to \in Location /\ pc[a] \notin Ended
  BY DEF Active, Finalizing, Cleaning, Ended, Location
<1>2. RunOutcome' = RunOutcome
  BY <1>1, OutcomeAfter DEF AroundStep, TypeInv
<1>. QED BY <1>2, SameDirectory DEF SlotStep, Slot!vars

\* Before a run replaces anything nothing is set aside, and neither is after.
Early ==
  {"destChecked", "prepared", "dumping", "dumped", "described", "staged",
   "artifactLinked", "withdraw", "metaLinked", "tmpRemoved", "artifactSeen"} \cup Cleaning

LEMMA EarlyAside ==
  ASSUME AroundStep, NEW a \in Attempt, NEW to \in Early \cup Ended, pc[a] \in Early,
         pc' = [pc EXCEPT ![a] = to]
  PROVE  Aside = None /\ Aside' = None
<1>1. pc[a] \in Active /\ ~Replacing(a)
  BY DEF Early, Active, Finalizing, Cleaning, Replacing
<1>2. pc'[a] = to
  BY DEF AroundStep, TypeInv, TypeOK
<1>3. ~Replacing(a)'
  BY <1>2 DEF Early, Cleaning, Ended, Replacing
<1>. QED BY <1>1, <1>2, <1>3, AsideOf, AsideAfter DEF AroundStep

LEMMA EarlyStep ==
  ASSUME AroundStep, NEW a \in Attempt, NEW to \in Early, pc[a] \in Early,
         pc' = [pc EXCEPT ![a] = to],
         dir'["final"] = dir["final"], dir'["meta"] = dir["meta"],
         UNCHANGED <<artRollback, metaRollback>>
  PROVE  SlotStep
<1>1. to \in Active /\ pc[a] \in Active
  BY DEF Early, Active, Finalizing, Cleaning
<1>2. Aside = None /\ Aside' = None
  BY EarlyAside
<1>. QED BY <1>1, <1>2, IdleStep

\* The run fails before its backup is shown, or after it has withdrawn it.
LEMMA FailStep ==
  ASSUME AroundStep, NEW a \in Attempt, ~SidecarKept(a),
         pc[a] \notin Ended, pc' = [pc EXCEPT ![a] = "failed"],
         dir'["final"] = dir["final"], dir'["meta"] = dir["meta"],
         UNCHANGED <<artRollback, metaRollback>>,
         Aside = None, Aside' = None
  PROVE  SlotStep
<1>1. /\ RunOutcome[a] = "pending"
      /\ RunOutcome' = [RunOutcome EXCEPT ![a] = "failed"]
  BY OutcomeAfter DEF AroundStep, TypeInv, Location, Ended
<1>2. Shown # a
  BY AttemptAssumption DEF Shown, SidecarKept
<1>3. Shown' = Shown /\ Kept' = Kept
  BY SameDirectory
<1>. QED BY <1>1, <1>2, <1>3
     DEF SlotStep, Slot!Next, Slot!Fail, Slot!Ends

\* A step by which no run starts or goes on.
LEMMA OutsideStep ==
  ASSUME AroundStep, UNCHANGED pc,
         dir'["final"] = dir["final"], dir'["meta"] = dir["meta"],
         UNCHANGED <<artRollback, metaRollback>>
  PROVE  SlotStep
<1>1. \A a \in Attempt : SidecarAside(a)' = SidecarAside(a)
  BY DEF SidecarAside
<1>2. \A a \in Attempt : Replacing(a)' <=> Replacing(a)
  BY DEF Replacing
<1>3. OneActive /\ OneActive'
  BY DEF AroundStep, SerialInv
<1>4. Aside' = Aside
  <2>1. CASE \E a \in Attempt : Replacing(a)
    BY <1>1, <1>2, <1>3, <2>1, AsideExactly, SlotAfter
  <2>2. CASE ~ \E a \in Attempt : Replacing(a)
    BY <1>2, <1>3, <2>2, AsideExactly, SlotAfter
  <2>. QED BY <2>1, <2>2
<1>5. RunOutcome' = RunOutcome
  BY DEF RunOutcome
<1>. QED BY <1>4, <1>5, SameDirectory DEF SlotStep, Slot!vars

LEMMA PrepareSlot == ASSUME AroundStep, Overlap = FALSE, NEW a \in Attempt, Prepare(a) PROVE SlotStep
<1> USE DEF AroundStep, TypeInv, TypeOK, SurvivalInv, Unpublished, Unstaged, Goto, files,
            Prepare
<1>1. CASE CheckTemporaries(a)
  <2>1. PICK to \in {"prepared", "failed"} : pc' = [pc EXCEPT ![a] = to]
    BY <1>1 DEF CheckTemporaries
  <2>2. pc[a] = "destChecked" /\ ~SidecarKept(a) /\ UNCHANGED files
    BY <1>1 DEF CheckTemporaries
  <2>3. Aside = None /\ Aside' = None
    BY <2>1, <2>2, EarlyAside DEF Early, Ended
  <2>. QED BY <2>1, <2>2, <2>3, EarlyStep, FailStep DEF Early, Ended
<1>2. CASE CheckDestination(a)
  <2>1. PICK to \in {"destChecked", "failed"} : pc' = [pc EXCEPT ![a] = to]
    BY <1>2 DEF CheckDestination
  <2>2. /\ pc[a] = "new" /\ ~SidecarKept(a) /\ UNCHANGED files
        /\ \A b \in Attempt : pc[b] \notin Active
    BY <1>2 DEF CheckDestination
  <2>3. \A b \in Attempt : ~Replacing(b) /\ ~Replacing(b)'
    BY <2>1, <2>2 DEF Replacing, Active, Finalizing
  <2>4. Aside = None /\ Aside' = None
    BY <2>3, AsideExactly, SlotAfter DEF SerialInv
  <2>. QED BY <2>1, <2>2, <2>4, IdleStep, FailStep DEF Active, Ended
<1>. QED BY <1>1, <1>2

LEMMA DumpSlot ==
  ASSUME AroundStep, NEW a \in Attempt, RunPgDump(a) \/ Stage(a) PROVE SlotStep
<1> USE DEF AroundStep, TypeInv, TypeOK, Goto, files, Entry
<1>1. CASE UNCHANGED pc
  BY <1>1, OutsideStep
     DEF RunPgDump, ToolCheckFails, DumpOpens, DumpEnds, DumpFails, Stage, Describe,
         DescribeFails, WriteMetadata, WriteMetadataFails
<1>2. CASE pc[a] \in Early /\ \E to \in Early : pc' = [pc EXCEPT ![a] = to]
  BY <1>2, EarlyStep
     DEF RunPgDump, ToolCheckFails, DumpOpens, DumpEnds, DumpFails, Stage, Describe,
         DescribeFails, WriteMetadata, WriteMetadataFails
<1>. QED BY <1>1, <1>2
     DEF RunPgDump, ToolCheckFails, DumpOpens, DumpEnds, DumpFails, Stage, Describe,
         DescribeFails, WriteMetadata, WriteMetadataFails, Early, Cleaning

\* The new pair is complete at the destination with its second half.
LEMMA ShowStep ==
  ASSUME AroundStep, NEW a \in Attempt, NEW to \in Active, pc[a] \in Active,
         pc' = [pc EXCEPT ![a] = to],
         dir["final"] = a, dir["meta"] = None, dir["metaTmp"] = a,
         dir'["final"] = a, dir'["meta"] = a,
         UNCHANGED <<artRollback, metaRollback>>,
         Aside' = Aside
  PROVE  SlotStep
<1>1. RunOutcome[a] = "pending" /\ RunOutcome' = RunOutcome
  BY OutcomeAfter
     DEF AroundStep, TypeInv, Active, Finalizing, Cleaning, Ended, Location
<1>2. Shown = None /\ Shown' = a
  BY AttemptAssumption DEF Shown
<1>3. /\ ArtifactKept(a)' /\ SidecarKept(a)'
      /\ \A s \in Attempt : s # a => (ArtifactKept(s)' <=> ArtifactKept(s))
      /\ \A s \in Attempt : s # a => (SidecarKept(s)' <=> SidecarKept(s))
  BY AttemptAssumption DEF ArtifactKept, SidecarKept
<1>4. Kept' = Kept \cup {a}
  BY <1>3, KeptExactly, SlotAfter DEF AroundStep
<1>. QED BY <1>1, <1>2, <1>4 DEF SlotStep, Slot!Next, Slot!Show

\* The run reports success with its own pair at the destination.
LEMMA SucceedStep ==
  ASSUME AroundStep, NEW a \in Attempt, pc[a] \in Active,
         pc' = [pc EXCEPT ![a] = "succeeded"],
         dir["final"] = a, dir["meta"] = a,
         dir'["final"] = a, dir'["meta"] = a,
         \A b \in Attempt : artRollback'[b] \in {None, artRollback[b]},
         \A b \in Attempt : metaRollback'[b] \in {None, metaRollback[b]}
  PROVE  SlotStep
<1>1. /\ RunOutcome[a] = "pending"
      /\ RunOutcome' = [RunOutcome EXCEPT ![a] = "succeeded"]
  BY OutcomeAfter
     DEF AroundStep, TypeInv, Active, Finalizing, Cleaning, Ended, Location
<1>2. Shown = a /\ Shown' = a
  BY AttemptAssumption DEF Shown
<1>3. /\ ArtifactKept(a)' /\ SidecarKept(a)'
      /\ \A s \in Attempt : ArtifactKept(s)' => ArtifactKept(s)
      /\ \A s \in Attempt : SidecarKept(s)' => SidecarKept(s)
  BY AttemptAssumption DEF ArtifactKept, SidecarKept
<1>4. a \in Kept' /\ Kept' \subseteq Kept
  BY <1>3, KeptExactly, SlotAfter DEF AroundStep
<1>5. pc'[a] = "succeeded"
  BY DEF AroundStep, TypeInv, TypeOK
<1>6. Aside' = None
  BY <1>5, AsideAfter DEF AroundStep, Replacing
<1>. QED BY <1>1, <1>2, <1>4, <1>6 DEF SlotStep, Slot!Next, Slot!Succeed, Slot!Ends

\* An artifact without its sidecar is not kept.
LEMMA KeptWithout ==
  ASSUME AroundStep, NEW a \in Attempt, ~SidecarKept(a),
         \A s \in Attempt : /\ SidecarKept(s)' <=> SidecarKept(s)
                            /\ s # a => (ArtifactKept(s)' <=> ArtifactKept(s))
  PROVE  Kept' = Kept
BY KeptExactly, SlotAfter DEF AroundStep

LEMMA PublishSlot ==
  ASSUME AroundStep, OnlyStagingFails, NEW a \in Attempt, Publish(a) PROVE SlotStep
<1> USE DEF AroundStep, TypeInv, TypeOK, Goto, files, Entry, SerialInv, SlotInv,
            TemporariesKnown, DestinationKnown, OnlyStagingFails, Described
<1>1. CASE LinkArtifact(a)
  <2>1. /\ pc[a] = "staged" /\ pc' = [pc EXCEPT ![a] = "artifactLinked"]
        /\ dir["meta"] = None /\ dir["final"] = None /\ dir["tmp"] = a
        /\ dir' = [dir EXCEPT !["final"] = a]
        /\ UNCHANGED <<artRollback, metaRollback>>
    BY <1>1 DEF LinkArtifact, Unstaged
  <2>2. Aside = None /\ Aside' = None
    BY <2>1, EarlyAside DEF Early
  <2>3. RunOutcome' = RunOutcome
    BY <2>1, OutcomeAfter DEF Location, Active, Finalizing, Ended
  <2>4. Shown = None /\ Shown' = None
    BY <2>1 DEF Shown
  <2>5. ~SidecarKept(a)
    BY <2>1 DEF SurvivalInv, Unpublished
  <2>6. \A s \in Attempt : /\ SidecarKept(s)' <=> SidecarKept(s)
                           /\ s # a => (ArtifactKept(s)' <=> ArtifactKept(s))
    BY <2>1, AttemptAssumption DEF SidecarKept, ArtifactKept
  <2>7. Kept' = Kept
    BY <2>5, <2>6, KeptWithout
  <2>. QED BY <2>2, <2>3, <2>4, <2>7 DEF SlotStep, Slot!vars
<1>2. CASE LinkMetadata(a)
  <2>1. /\ pc[a] = "artifactLinked" /\ pc' = [pc EXCEPT ![a] = "metaLinked"]
        /\ dir["final"] = a /\ dir["meta"] = None /\ dir["metaTmp"] = a
        /\ dir'["final"] = a /\ dir'["meta"] = a
        /\ UNCHANGED <<artRollback, metaRollback>>
    <3>1. pc[a] = "artifactLinked" => dir["metaTmp"] = a
      BY <1>2
    <3>. QED BY <1>2, <3>1 DEF LinkMetadata
  <2>2. Aside = None /\ Aside' = None
    BY <2>1, EarlyAside DEF Early
  <2>. QED BY <2>1, <2>2, ShowStep DEF Active, Finalizing
<1>3. CASE WithdrawArtifact(a)
  <2>1. /\ pc[a] = "withdraw" /\ pc' = [pc EXCEPT ![a] = "cleanup"]
        /\ dir["meta"] = None /\ dir["final"] = a
        /\ dir' = [dir EXCEPT !["final"] = None]
        /\ UNCHANGED <<artRollback, metaRollback>>
    BY <1>3 DEF WithdrawArtifact
  <2>2. Aside = None /\ Aside' = None
    BY <2>1, EarlyAside DEF Early, Cleaning
  <2>3. RunOutcome' = RunOutcome
    BY <2>1, OutcomeAfter DEF Location, Active, Finalizing, Cleaning, Ended
  <2>4. Shown = None /\ Shown' = None
    BY <2>1 DEF Shown
  <2>5. ~SidecarKept(a)
    BY <2>1 DEF SurvivalInv, Unpublished
  <2>6. \A s \in Attempt : /\ SidecarKept(s)' <=> SidecarKept(s)
                           /\ s # a => (ArtifactKept(s)' <=> ArtifactKept(s))
    BY <2>1, AttemptAssumption DEF SidecarKept, ArtifactKept
  <2>7. Kept' = Kept
    BY <2>5, <2>6, KeptWithout
  <2>. QED BY <2>2, <2>3, <2>4, <2>7 DEF SlotStep, Slot!vars
<1>4. CASE LinkArtifactFails(a) \/ LinkMetadataFails(a)
  <2>1. PICK to \in {"cleanup", "withdraw"} : pc' = [pc EXCEPT ![a] = to]
    BY <1>4 DEF LinkArtifactFails, LinkMetadataFails
  <2>2. pc[a] \in {"staged", "artifactLinked"} /\ UNCHANGED files
    BY <1>4 DEF LinkArtifactFails, LinkMetadataFails
  <2>. QED BY <2>1, <2>2, EarlyStep DEF Early, Cleaning
<1>5. CASE RemoveTemporary(a)
  <2>1. /\ pc[a] = "metaLinked" /\ pc' = [pc EXCEPT ![a] = "tmpRemoved"]
        /\ dir' = [dir EXCEPT !["tmp"] = None]
        /\ UNCHANGED <<artRollback, metaRollback>>
    BY <1>5, AttemptAssumption DEF RemoveTemporary, RemoveEntry
  <2>. QED BY <2>1, EarlyStep DEF Early
<1>6. CASE RemoveMetadataTemporary(a)
  <2>1. /\ pc[a] = "tmpRemoved" /\ pc' = [pc EXCEPT ![a] = "succeeded"]
        /\ dir["final"] = a /\ dir["meta"] = a
        /\ dir' = [dir EXCEPT !["metaTmp"] = None]
        /\ UNCHANGED <<artRollback, metaRollback>>
    BY <1>6, AttemptAssumption DEF RemoveMetadataTemporary, RemoveEntry
  <2>. QED BY <2>1, SucceedStep DEF Active, Finalizing
<1>. QED BY <1>1, <1>2, <1>3, <1>4, <1>5, <1>6 DEF Publish

LEMMA StillPending ==
  ASSUME AroundStep, NEW a \in Attempt, NEW to \in Active, pc[a] \in Active,
         pc' = [pc EXCEPT ![a] = to]
  PROVE  RunOutcome[a] = "pending" /\ RunOutcome' = RunOutcome
<1>1. to \notin Ended /\ to \in Location /\ pc[a] \notin Ended
  BY DEF Active, Finalizing, Cleaning, Ended, Location
<1>. QED BY <1>1, OutcomeAfter DEF AroundStep, TypeInv

\* A step of a run that replaces, which moves files between the names that are
\* kept without changing what is shown or set aside.
LEMMA ReplacingStep ==
  ASSUME AroundStep, NEW a \in Attempt, NEW to \in Active, pc[a] \in Active,
         pc' = [pc EXCEPT ![a] = to],
         Shown' = Shown, Kept' = Kept, Aside' = Aside
  PROVE  SlotStep
BY StillPending DEF SlotStep, Slot!vars

\* What is set aside before and after a step within the replacement, by the
\* run's own entries.
LEMMA AsideKnown ==
  ASSUME AroundStep, NEW a \in Attempt, NEW to \in Active, pc[a] \in Active,
         pc' = [pc EXCEPT ![a] = to]
  PROVE  /\ pc'[a] = to
         /\ Aside = IF Replacing(a) THEN SidecarAside(a) ELSE None
         /\ Aside' = IF Replacing(a)' THEN SidecarAside(a)' ELSE None
<1>1. pc'[a] = to
  BY DEF AroundStep, TypeInv, TypeOK
<1>. QED BY <1>1, AsideOf, AsideAfter DEF AroundStep

LEMMA AsideStays ==
  ASSUME AroundStep, NEW a \in Attempt, NEW to \in Active, pc[a] \in Active,
         pc' = [pc EXCEPT ![a] = to],
         Replacing(a)' <=> Replacing(a), SidecarAside(a)' = SidecarAside(a)
  PROVE  Aside' = Aside
<1>1. /\ Aside = IF Replacing(a) THEN SidecarAside(a) ELSE None
      /\ Aside' = IF Replacing(a)' THEN SidecarAside(a)' ELSE None
  BY AsideKnown
<1>. QED BY <1>1

LEMMA KeptMoved ==
  ASSUME AroundStep,
         \A s \in Attempt : /\ SidecarKept(s)' <=> SidecarKept(s)
                            /\ ArtifactKept(s)' <=> ArtifactKept(s)
  PROVE  Kept' = Kept
BY KeptExactly, SlotAfter DEF AroundStep

LEMMA SeeArtifactSlot ==
  ASSUME AroundStep, NEW a \in Attempt, SeeArtifact(a) PROVE SlotStep
<1>1. PICK to \in {"artifactMoved", "artifactSeen"} : pc' = [pc EXCEPT ![a] = to]
  BY DEF SeeArtifact, Goto
<1>2. pc[a] = "staged" /\ UNCHANGED files /\ artRollback[a] = None
  BY DEF SeeArtifact, Goto, AroundStep, SerialInv, RollbackKnown
<1>3. to \in Active /\ pc[a] \in Active
  BY <1>2 DEF Active, Finalizing
<1>4. /\ Aside = IF Replacing(a) THEN SidecarAside(a) ELSE None
      /\ Aside' = IF Replacing(a)' THEN SidecarAside(a)' ELSE None
      /\ pc'[a] = to
  BY <1>1, <1>3, AsideKnown
<1>5. ~Replacing(a)
  BY <1>2 DEF Replacing
<1>6. SidecarAside(a)' = None
  BY <1>2, <1>4 DEF SidecarAside, files
<1>7. Aside' = Aside
  BY <1>4, <1>5, <1>6
<1>. QED BY <1>1, <1>2, <1>3, <1>7, IdleStep DEF files

LEMMA MoveArtifactAsideSlot ==
  ASSUME AroundStep, NEW a \in Attempt, MoveArtifactAside(a) PROVE SlotStep
<1>1. /\ pc[a] = "artifactSeen" /\ pc' = [pc EXCEPT ![a] = "artifactMoved"]
      /\ a \in Forced /\ dir["final"] # None
      /\ artRollback[a] = None
      /\ artRollback' = [artRollback EXCEPT ![a] = dir["final"]]
      /\ dir' = [dir EXCEPT !["final"] = None] /\ UNCHANGED metaRollback
  BY DEF MoveArtifactAside, Goto, AroundStep, SlotInv, SerialInv, RollbackKnown
<1>2. /\ artRollback'[a] = dir["final"]
      /\ dir'["final"] = None /\ dir'["meta"] = dir["meta"]
  BY <1>1 DEF AroundStep, TypeInv, TypeOK, Entry
<1>3. "artifactMoved" \in Active /\ pc[a] \in Active
  BY <1>1 DEF Active, Finalizing
<1>4. /\ Aside = IF Replacing(a) THEN SidecarAside(a) ELSE None
      /\ Aside' = IF Replacing(a)' THEN SidecarAside(a)' ELSE None
      /\ pc'[a] = "artifactMoved"
  BY <1>1, <1>3, AsideKnown
<1>5. ~Replacing(a) /\ Replacing(a)'
  BY <1>1, <1>4 DEF Replacing
<1>6. SidecarAside(a)' = dir["meta"]
  BY <1>1, <1>2, <1>4 DEF SidecarAside
<1>7. Aside = None /\ Aside' = dir["meta"]
  BY <1>4, <1>5, <1>6
<1>8. Shown = dir["meta"] /\ Shown' = None
  BY <1>1, <1>2 DEF Shown
<1>9. \A s \in Attempt : /\ SidecarKept(s)' <=> SidecarKept(s)
                         /\ ArtifactKept(s)' <=> ArtifactKept(s)
  BY <1>1, <1>2, AttemptAssumption
     DEF SidecarKept, ArtifactKept, AroundStep, TypeInv, TypeOK
<1>10. Kept' = Kept
  BY <1>9, KeptMoved
<1>11. RunOutcome[a] = "pending" /\ RunOutcome' = RunOutcome
  BY <1>1, <1>3, StillPending
<1>12. CASE dir["meta"] = None
  BY <1>7, <1>8, <1>10, <1>11, <1>12 DEF SlotStep, Slot!vars
<1>13. CASE dir["meta"] # None
  BY <1>1, <1>7, <1>8, <1>10, <1>11, <1>13 DEF SlotStep, Slot!Next, Slot!Displace
<1>. QED BY <1>12, <1>13

LEMMA SeeMetadataSlot ==
  ASSUME AroundStep, NEW a \in Attempt, SeeMetadata(a) PROVE SlotStep
<1>1. PICK to \in {"metaMoved", "metaSeen"} :
        /\ pc' = [pc EXCEPT ![a] = to]
        /\ to = "metaMoved" => dir["meta"] = None
  BY DEF SeeMetadata, Goto
<1>2. pc[a] = "artifactMoved" /\ UNCHANGED files /\ metaRollback[a] = None
  BY DEF SeeMetadata, Goto, AroundStep, SerialInv, RollbackKnown
<1>3. to \in Active /\ pc[a] \in Active /\ pc'[a] = to
  BY <1>1, <1>2 DEF Active, Finalizing, AroundStep, TypeInv, TypeOK
<1>4. Replacing(a) /\ Replacing(a)'
  BY <1>2, <1>3 DEF Replacing
<1>5. SidecarAside(a)' = SidecarAside(a)
  BY <1>1, <1>2, <1>3 DEF SidecarAside, files
<1>6. Aside' = Aside
  BY <1>1, <1>3, <1>4, <1>5, AsideStays
<1>. QED BY <1>1, <1>2, <1>3, <1>6, IdleStep DEF files

LEMMA MoveMetadataAsideSlot ==
  ASSUME AroundStep, NEW a \in Attempt, MoveMetadataAside(a) PROVE SlotStep
<1>1. /\ pc[a] = "metaSeen" /\ pc' = [pc EXCEPT ![a] = "metaMoved"]
      /\ dir["final"] = None /\ metaRollback[a] = None
      /\ metaRollback' = [metaRollback EXCEPT ![a] = dir["meta"]]
      /\ dir' = [dir EXCEPT !["meta"] = None] /\ UNCHANGED artRollback
  BY DEF MoveMetadataAside, Goto, AroundStep, SerialInv, RollbackKnown, DestinationKnown
<1>2. /\ metaRollback'[a] = dir["meta"] /\ pc'[a] = "metaMoved"
      /\ dir'["final"] = None /\ dir'["meta"] = None
  BY <1>1 DEF AroundStep, TypeInv, TypeOK, Entry
<1>3. "metaMoved" \in Active /\ pc[a] \in Active
  BY <1>1 DEF Active, Finalizing
<1>4. Replacing(a) /\ Replacing(a)'
  BY <1>1, <1>2 DEF Replacing
<1>5. SidecarAside(a)' = SidecarAside(a)
  BY <1>1, <1>2 DEF SidecarAside
<1>6. Aside' = Aside
  BY <1>1, <1>3, <1>4, <1>5, AsideStays
<1>7. Shown' = Shown
  BY <1>1, <1>2 DEF Shown
<1>8. \A s \in Attempt : /\ SidecarKept(s)' <=> SidecarKept(s)
                         /\ ArtifactKept(s)' <=> ArtifactKept(s)
  BY <1>1, <1>2, AttemptAssumption
     DEF SidecarKept, ArtifactKept, AroundStep, TypeInv, TypeOK
<1>9. Kept' = Kept
  BY <1>8, KeptMoved
<1>. QED BY <1>1, <1>3, <1>6, <1>7, <1>9, ReplacingStep

LEMMA PutArtifactSlot ==
  ASSUME AroundStep, NEW a \in Attempt, PutArtifact(a) PROVE SlotStep
<1>1. /\ pc[a] = "metaMoved" /\ pc' = [pc EXCEPT ![a] = "artifactPut"]
      /\ dir["final"] = None /\ dir["meta"] = None /\ dir["tmp"] = a
      /\ UNCHANGED <<artRollback, metaRollback>>
  BY DEF PutArtifact, Goto, AroundStep, SerialInv, DestinationKnown, TemporariesKnown,
         Described
<1>2. dir'["final"] = a /\ dir'["meta"] = None /\ pc'[a] = "artifactPut"
  BY <1>1 DEF PutArtifact, AroundStep, TypeInv, TypeOK, Entry
<1>3. "artifactPut" \in Active /\ pc[a] \in Active
  BY <1>1 DEF Active, Finalizing
<1>4. Replacing(a) /\ Replacing(a)'
  BY <1>1, <1>2 DEF Replacing
<1>5. SidecarAside(a)' = SidecarAside(a)
  BY <1>1, <1>2 DEF SidecarAside
<1>6. Aside' = Aside
  BY <1>1, <1>3, <1>4, <1>5, AsideStays
<1>7. Shown' = Shown
  BY <1>1, <1>2 DEF Shown
<1>8. ~SidecarKept(a)
  BY <1>1 DEF AroundStep, SurvivalInv, Unpublished, Described
<1>9. \A s \in Attempt : /\ SidecarKept(s)' <=> SidecarKept(s)
                         /\ s # a => (ArtifactKept(s)' <=> ArtifactKept(s))
  BY <1>1, <1>2, AttemptAssumption DEF SidecarKept, ArtifactKept
<1>10. Kept' = Kept
  BY <1>8, <1>9, KeptWithout
<1>. QED BY <1>1, <1>3, <1>6, <1>7, <1>10, ReplacingStep

LEMMA PutMetadataSlot ==
  ASSUME AroundStep, NEW a \in Attempt, PutMetadata(a) PROVE SlotStep
<1>1. /\ pc[a] = "artifactPut" /\ pc' = [pc EXCEPT ![a] = "replaced"]
      /\ dir["final"] = a /\ dir["meta"] = None /\ dir["metaTmp"] = a
      /\ UNCHANGED <<artRollback, metaRollback>>
  BY DEF PutMetadata, Goto, AroundStep, SerialInv, DestinationKnown, TemporariesKnown,
         Described
<1>2. dir'["final"] = a /\ dir'["meta"] = a /\ pc'[a] = "replaced"
  BY <1>1 DEF PutMetadata, AroundStep, TypeInv, TypeOK, Entry
<1>3. "replaced" \in Active /\ pc[a] \in Active
  BY <1>1 DEF Active, Finalizing
<1>4. Replacing(a) /\ Replacing(a)'
  BY <1>1, <1>2 DEF Replacing
<1>5. SidecarAside(a)' = SidecarAside(a)
  BY <1>1, <1>2 DEF SidecarAside
<1>6. Aside' = Aside
  BY <1>1, <1>3, <1>4, <1>5, AsideStays
<1>. QED BY <1>1, <1>2, <1>3, <1>6, ShowStep

\* Of the calls of a replacement only the two that put the new pair may fail.
LEMMA ReplaceFailsSlot ==
  ASSUME AroundStep, OnlyStagingFails, NEW a \in Attempt, ReplaceFails(a) PROVE SlotStep
<1>1. /\ pc[a] \in {"metaMoved", "artifactPut"} /\ pc' = [pc EXCEPT ![a] = "rollback"]
      /\ UNCHANGED files
  BY DEF ReplaceFails, Goto, OnlyStagingFails, AroundStep, SerialInv, DestinationKnown
<1>2. pc'[a] = "rollback"
  BY <1>1 DEF AroundStep, TypeInv, TypeOK
<1>3. "rollback" \in Active /\ pc[a] \in Active
  BY <1>1 DEF Active, Finalizing
<1>4. Replacing(a) /\ Replacing(a)'
  BY <1>1, <1>2 DEF Replacing
<1>5. SidecarAside(a)' = SidecarAside(a)
  BY <1>1, <1>2 DEF SidecarAside, files
<1>6. Aside' = Aside
  BY <1>1, <1>3, <1>4, <1>5, AsideStays
<1>. QED BY <1>1, <1>3, <1>6, IdleStep DEF files

LEMMA DiscardSlot ==
  ASSUME AroundStep, OnlyStagingFails, NEW a \in Attempt, DiscardRollback(a) PROVE SlotStep
<1>1. /\ pc[a] = "replaced" /\ pc' = [pc EXCEPT ![a] = "succeeded"]
      /\ dir["final"] = a /\ dir["meta"] = a /\ UNCHANGED dir
      /\ artRollback' = [artRollback EXCEPT ![a] = None]
      /\ metaRollback' = [metaRollback EXCEPT ![a] = None]
  BY DEF DiscardRollback, Goto, OnlyStagingFails, AroundStep, SerialInv, DestinationKnown
<1>2. /\ \A b \in Attempt : artRollback'[b] \in {None, artRollback[b]}
      /\ \A b \in Attempt : metaRollback'[b] \in {None, metaRollback[b]}
  BY <1>1 DEF AroundStep, TypeInv, TypeOK
<1>3. pc[a] \in Active
  BY <1>1 DEF Active, Finalizing
<1>. QED BY <1>1, <1>2, <1>3, SucceedStep

LEMMA ReplaceSlot ==
  ASSUME AroundStep, OnlyStagingFails, NEW a \in Attempt, Replace(a) PROVE SlotStep
BY SeeArtifactSlot, MoveArtifactAsideSlot, SeeMetadataSlot, MoveMetadataAsideSlot,
   PutArtifactSlot, PutMetadataSlot, ReplaceFailsSlot, DiscardSlot DEF Replace

-----------------------------------------------------------------------------
(* The rollback handler, whose own calls do not fail here.                  *)

LEMMA UnlinkFinalSlot ==
  ASSUME AroundStep, NEW a \in Attempt, RollbackUnlinkFinal(a) PROVE SlotStep
<1>1. /\ pc[a] = "rollback" /\ pc' = [pc EXCEPT ![a] = "unlinkMeta"]
      /\ dir["final"] \in {None, a} /\ dir["meta"] = None
      /\ UNCHANGED <<artRollback, metaRollback>>
  BY DEF RollbackUnlinkFinal, Goto, AroundStep, SurvivalInv
<1>2. dir'["final"] = None /\ dir'["meta"] = None /\ pc'[a] = "unlinkMeta"
  BY <1>1 DEF RollbackUnlinkFinal, AroundStep, TypeInv, TypeOK, Entry
<1>3. "unlinkMeta" \in Active /\ pc[a] \in Active
  BY <1>1 DEF Active, Finalizing
<1>4. Replacing(a) /\ Replacing(a)'
  BY <1>1, <1>2 DEF Replacing
<1>5. SidecarAside(a)' = SidecarAside(a)
  BY <1>1, <1>2 DEF SidecarAside
<1>6. Aside' = Aside
  BY <1>1, <1>3, <1>4, <1>5, AsideStays
<1>7. Shown' = Shown
  BY <1>1, <1>2 DEF Shown
<1>8. ~SidecarKept(a)
  BY <1>1 DEF AroundStep, SurvivalInv, Unpublished
<1>9. \A s \in Attempt : /\ SidecarKept(s)' <=> SidecarKept(s)
                         /\ s # a => (ArtifactKept(s)' <=> ArtifactKept(s))
  BY <1>1, <1>2, AttemptAssumption DEF SidecarKept, ArtifactKept
<1>10. Kept' = Kept
  BY <1>8, <1>9, KeptWithout
<1>. QED BY <1>1, <1>3, <1>6, <1>7, <1>10, ReplacingStep

LEMMA UnlinkMetadataSlot ==
  ASSUME AroundStep, NEW a \in Attempt, RollbackUnlinkMetadata(a) PROVE SlotStep
<1>1. /\ pc[a] = "unlinkMeta" /\ pc' = [pc EXCEPT ![a] = "restoreArtifact"]
      /\ dir["meta"] = None /\ UNCHANGED <<artRollback, metaRollback>>
  BY DEF RollbackUnlinkMetadata, Goto, AroundStep, SurvivalInv
<1>2. /\ dir'["final"] = dir["final"] /\ dir'["meta"] = dir["meta"]
      /\ pc'[a] = "restoreArtifact"
  BY <1>1 DEF RollbackUnlinkMetadata, AroundStep, TypeInv, TypeOK, Entry
<1>3. "restoreArtifact" \in Active /\ pc[a] \in Active
  BY <1>1 DEF Active, Finalizing
<1>4. Replacing(a) /\ Replacing(a)'
  BY <1>1, <1>2 DEF Replacing
<1>5. SidecarAside(a)' = SidecarAside(a)
  BY <1>1, <1>2 DEF SidecarAside
<1>6. Aside' = Aside
  BY <1>1, <1>3, <1>4, <1>5, AsideStays
<1>. QED BY <1>1, <1>2, <1>3, <1>6, IdleStep

LEMMA RestoreArtifactSlot ==
  ASSUME AroundStep, NEW a \in Attempt, RestoreArtifact(a) PROVE SlotStep
<1>1. /\ pc[a] = "restoreArtifact" /\ pc' = [pc EXCEPT ![a] = "restoreMeta"]
      /\ dir["final"] = None /\ dir["meta"] = None
      /\ artRollback' = [artRollback EXCEPT ![a] = None]
      /\ UNCHANGED metaRollback
  BY DEF RestoreArtifact, LeftBehind, Goto, AroundStep, SerialInv, DestinationKnown
<1>2. /\ dir'["final"] = artRollback[a] /\ dir'["meta"] = None
      /\ artRollback'[a] = None /\ pc'[a] = "restoreMeta"
  BY <1>1 DEF RestoreArtifact, AroundStep, TypeInv, TypeOK, Entry
<1>3. "restoreMeta" \in Active /\ pc[a] \in Active
  BY <1>1 DEF Active, Finalizing
<1>4. Replacing(a) /\ Replacing(a)'
  BY <1>1, <1>2 DEF Replacing
<1>5. SidecarAside(a)' = SidecarAside(a)
  BY <1>1, <1>2 DEF SidecarAside
<1>6. Aside' = Aside
  BY <1>1, <1>3, <1>4, <1>5, AsideStays
<1>7. Shown' = Shown
  BY <1>1, <1>2 DEF Shown
<1>8. \A s \in Attempt : /\ SidecarKept(s)' <=> SidecarKept(s)
                         /\ ArtifactKept(s)' <=> ArtifactKept(s)
  BY <1>1, <1>2, AttemptAssumption
     DEF SidecarKept, ArtifactKept, AroundStep, TypeInv, TypeOK
<1>9. Kept' = Kept
  BY <1>8, KeptMoved
<1>. QED BY <1>1, <1>3, <1>6, <1>7, <1>9, ReplacingStep

\* The pair set aside is shown again, in one step, with its second half.
LEMMA RestoreMetadataSlot ==
  ASSUME AroundStep, NEW a \in Attempt, RestoreMetadata(a) PROVE SlotStep
<1>1. /\ pc[a] = "restoreMeta" /\ pc' = [pc EXCEPT ![a] = "cleanup"]
      /\ dir["meta"] = None
      /\ metaRollback' = [metaRollback EXCEPT ![a] = None]
      /\ UNCHANGED artRollback
  BY DEF RestoreMetadata, LeftBehind, Goto, AroundStep, SerialInv, DestinationKnown
<1>2. /\ dir'["final"] = dir["final"] /\ dir'["meta"] = metaRollback[a]
      /\ metaRollback'[a] = None /\ pc'[a] = "cleanup"
  BY <1>1 DEF RestoreMetadata, AroundStep, TypeInv, TypeOK, Entry
<1>3. "cleanup" \in Active /\ pc[a] \in Active
  BY <1>1 DEF Active, Finalizing, Cleaning
<1>4. /\ Aside = IF Replacing(a) THEN SidecarAside(a) ELSE None
      /\ Aside' = IF Replacing(a)' THEN SidecarAside(a)' ELSE None
  BY <1>1, <1>3, AsideKnown
<1>5. Replacing(a) /\ ~Replacing(a)'
  BY <1>1, <1>2 DEF Replacing
<1>6. artRollback[a] = None
  BY <1>1 DEF AroundStep, SlotInv
<1>7. SidecarAside(a) = IF dir["final"] # None THEN metaRollback[a] ELSE None
  BY <1>1, <1>6 DEF SidecarAside
<1>8. /\ Aside = IF dir["final"] # None THEN metaRollback[a] ELSE None
      /\ Aside' = None
  BY <1>4, <1>5, <1>7
<1>9. Shown = None /\ Shown' = IF dir["final"] # None THEN metaRollback[a] ELSE None
  BY <1>1, <1>2 DEF Shown
<1>10. \A s \in Attempt : /\ SidecarKept(s)' <=> SidecarKept(s)
                          /\ ArtifactKept(s)' <=> ArtifactKept(s)
  BY <1>1, <1>2, AttemptAssumption
     DEF SidecarKept, ArtifactKept, AroundStep, TypeInv, TypeOK
<1>11. Kept' = Kept
  BY <1>10, KeptMoved
<1>12. RunOutcome' = RunOutcome
  BY <1>1, <1>3, StillPending
<1>13. CASE dir["final"] = None \/ metaRollback[a] = None
  BY <1>8, <1>9, <1>11, <1>12, <1>13 DEF SlotStep, Slot!vars
<1>14. CASE dir["final"] # None /\ metaRollback[a] # None
  BY <1>8, <1>9, <1>11, <1>12, <1>14 DEF SlotStep, Slot!Next, Slot!Reinstate
<1>. QED BY <1>13, <1>14

LEMMA RollbackSlot ==
  ASSUME AroundStep, OnlyStagingFails, NEW a \in Attempt, Rollback(a) PROVE SlotStep
BY UnlinkFinalSlot, UnlinkMetadataSlot, RestoreArtifactSlot, RestoreMetadataSlot
   DEF Rollback, RollbackFails, OnlyStagingFails

LEMMA CleanupSlot ==
  ASSUME AroundStep, OnlyStagingFails, NEW a \in Attempt, Cleanup(a) PROVE SlotStep
<1>1. CASE CleanupTemporary(a)
  <2>1. /\ pc[a] = "cleanup" /\ pc' = [pc EXCEPT ![a] = "cleanupMeta"]
        /\ dir' = [dir EXCEPT !["tmp"] = None] /\ UNCHANGED <<artRollback, metaRollback>>
    BY <1>1 DEF CleanupTemporary, CleanupEntry, Goto, OnlyStagingFails
  <2>2. dir'["final"] = dir["final"] /\ dir'["meta"] = dir["meta"]
    BY <2>1 DEF AroundStep, TypeInv, TypeOK, Entry
  <2>. QED BY <2>1, <2>2, EarlyStep DEF Early, Cleaning
<1>2. CASE CleanupMetadataTemporary(a)
  <2>1. /\ pc[a] = "cleanupMeta" /\ pc' = [pc EXCEPT ![a] = "failed"]
        /\ dir' = [dir EXCEPT !["metaTmp"] = None]
        /\ UNCHANGED <<artRollback, metaRollback>>
    BY <1>2 DEF CleanupMetadataTemporary, CleanupEntry, Goto, OnlyStagingFails
  <2>2. dir'["final"] = dir["final"] /\ dir'["meta"] = dir["meta"]
    BY <2>1 DEF AroundStep, TypeInv, TypeOK, Entry
  <2>3. Aside = None /\ Aside' = None
    BY <2>1, EarlyAside DEF Early, Cleaning, Ended
  <2>4. ~SidecarKept(a)
    BY <2>1 DEF AroundStep, SlotInv, Cleaning
  <2>5. pc[a] \notin Ended
    BY <2>1 DEF Ended
  <2>. QED BY <2>1, <2>2, <2>3, <2>4, <2>5, FailStep
<1>. QED BY <1>1, <1>2 DEF Cleanup

LEMMA CrashSlot ==
  ASSUME AroundStep, NEW a \in Attempt, Crash(a) PROVE SlotStep
<1>1. /\ pc[a] \in Active /\ pc' = [pc EXCEPT ![a] = "crashed"]
      /\ UNCHANGED files
  BY DEF Crash
<1>2. pc'[a] = "crashed"
  BY <1>1 DEF AroundStep, TypeInv, TypeOK
<1>3. Aside' = None
  BY <1>1, <1>2, AsideAfter DEF AroundStep, Replacing
<1>4. /\ RunOutcome[a] = "pending"
      /\ RunOutcome' = [RunOutcome EXCEPT ![a] = "crashed"]
  BY <1>1, OutcomeAfter
     DEF AroundStep, TypeInv, Location, Ended, Active, Finalizing, Cleaning
<1>5. Shown' = Shown /\ Kept' = Kept
  BY <1>1, SameDirectory DEF files
<1>. QED BY <1>3, <1>4, <1>5 DEF SlotStep, Slot!Next, Slot!Crash, Slot!Ends

-----------------------------------------------------------------------------
LEMMA InitSlot == Init => Slot!Init
<1> SUFFICES ASSUME Init PROVE Slot!Init
  OBVIOUS
<1>1. Shown = None
  BY DEF Init, Shown, Entry
<1>2. \A a \in Attempt : ~Replacing(a)
  BY DEF Init, Replacing
<1>3. Aside = None
  BY <1>2, InitSerialInv, AsideExactly DEF SerialInv
<1>4. Kept = {}
  BY AttemptAssumption
     DEF Init, Kept, SidecarsKept, ArtifactsKept, Describes, Entry
<1>5. RunOutcome = [a \in Attempt |-> "pending"]
  BY DEF Init, RunOutcome, Ended
<1>. QED BY <1>1, <1>3, <1>4, <1>5 DEF Slot!Init

LEMMA NextSlot ==
  ASSUME Overlap = FALSE, OnlyStagingFails, AroundStep, [Next]_vars
  PROVE  SlotStep
<1>1. ASSUME NEW a \in Attempt, Step(a) PROVE SlotStep
  BY <1>1, PrepareSlot, DumpSlot, PublishSlot, ReplaceSlot, RollbackSlot, CleanupSlot
     DEF Step
<1>2. ASSUME NEW a \in Attempt, Crash(a) PROVE SlotStep
  BY <1>2, CrashSlot
<1>3. CASE RemoveStaleTemporaries
  <2>1. /\ UNCHANGED <<pc, artRollback, metaRollback>>
        /\ dir'["final"] = dir["final"] /\ dir'["meta"] = dir["meta"]
    BY <1>3 DEF RemoveStaleTemporaries, AroundStep, TypeInv, TypeOK, Entry
  <2>. QED BY <2>1, OutsideStep
<1>4. CASE UNCHANGED vars
  BY <1>4, OutsideStep DEF vars, files
<1>. QED BY <1>1, <1>2, <1>3, <1>4 DEF Next

(***************************************************************************)
(* Runs that follow one another, on a file system that refuses none but    *)
(* the link and put calls, implement BackupSlot: however they fail and     *)
(* wherever they are killed, the destination shows one complete backup or  *)
(* none, a failed run leaves it as it was, and what a success replaced is  *)
(* dropped only after the new backup is shown (infrastructure/             *)
(* backup_files.py, LocalBackupFileStore.finalize).                        *)
(***************************************************************************)
THEOREM SlotImplemented ==
  Overlap = FALSE /\ OnlyStagingFails => (Spec => ImplementsSlot)
<1> SUFFICES ASSUME Overlap = FALSE, OnlyStagingFails PROVE Spec => ImplementsSlot
  OBVIOUS
<1>0. MovesDoNotFail
  BY DEF MovesDoNotFail, OnlyStagingFails
<1> DEFINE Known == TypeInv /\ SerialInv /\ SurvivalInv /\ SlotInv
<1>1. Init => Known
  BY InitTypeInv, InitSerialInv, InitSurvivalInv, InitSlotInv
<1>2. Known /\ [Next]_vars => Known'
  BY <1>0, NextTypeInv, NextSerialInv, NextSurvivalInv, NextSlotInv
<1>3. Known /\ Known' /\ [Next]_vars => [Slot!Next]_(Slot!vars)
  BY NextSlot DEF AroundStep, SlotStep
<1>4. Init => Slot!Init
  BY InitSlot
<1>. QED BY <1>1, <1>2, <1>3, <1>4, PTL DEF Spec, ImplementsSlot, Slot!Spec
===============================================================================
