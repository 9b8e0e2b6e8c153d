------------------------------ MODULE Watching ------------------------------
(* The sensors that are told of changes by the system: ReadDirectoryChangesW *)
(* and inotify for files, ETW for the registry.  The system queues records   *)
(* (and loses some when the queue is full), the sensor reads several at once *)
(* and turns them into events, one or two records at a time.                 *)
EXTENDS SensorFeed, SequencesExt

CONSTANTS
    WatchKinds,     \* the sensors, of WatchingKinds
    Paths,          \* file names, or registry keys
    Initially,      \* the paths that may exist at first
    QueueCap,       \* records the system keeps
    MaxOperations   \* bound: changes to the files

WatchingKinds == {"windowsFile", "linuxFile", "windowsRegistry"}

ASSUME WatchingAssumption ==
    /\ WatchKinds \subseteq WatchingKinds
    /\ Initially \subseteq SUBSET Paths
    /\ QueueCap \in Nat \ {0}
    /\ MaxOperations \in Nat

VARIABLES
    files,          \* what exists in the watched directory
    operations,     \* changes made so far
    raw,            \* the system's queue of records
    overflowed,     \* the system has lost a record
    replaced,       \* something was moved onto a path that existed, on Linux
    batch,          \* records read and still to be turned into events
    first           \* the files when the watch began

watchVars == <<files, operations, raw, overflowed, replaced, batch, first>>

WatchInit ==
    /\ kind \in WatchKinds
    /\ FeedInit
    /\ files \in Initially
    /\ operations = 0
    /\ raw = <<>>
    /\ overflowed = FALSE
    /\ replaced = FALSE
    /\ batch = <<>>
    /\ first = {}

-----------------------------------------------------------------------------
(* The system.                                                               *)

Record(action, path) == [action |-> action, path |-> path]
Overflow == Record("overflow", "")
IsLinux == kind = "linuxFile"
IsRegistry == kind = "windowsRegistry"

(* A full queue is given up as a whole on Windows, where the next read       *)
(* returns nothing; inotify keeps it and appends one mark; ETW keeps it and  *)
(* loses what comes.                                                         *)
Overflown ==
    IF kind = "windowsFile" THEN <<Overflow>>
    ELSE IF IsRegistry THEN raw
    ELSE IF raw # <<>> /\ Last(raw) = Overflow THEN raw
    ELSE Append(raw, Overflow)

Queued(records) ==
    IF phase = "starting" THEN raw
    ELSE IF Len(raw \o records) <= QueueCap THEN raw \o records
    ELSE Overflown

(* Something new takes the name of something there is.                       *)
MovedOnto(records) ==
    \E n \in Range(records) : n.action = "new name" /\ n.path \in files

Operation(records, after) ==
    /\ operations < MaxOperations
    /\ phase # "ended"
    /\ operations' = operations + 1
    /\ files' = after
    /\ raw' = Queued(records)
    /\ overflowed' = (overflowed \/ (phase # "starting" /\ raw' # raw \o records))
    /\ replaced' = (replaced \/ (IsLinux /\ phase # "starting" /\ MovedOnto(records)))
    /\ UNCHANGED <<feedVars, batch, first>>

Create(p) == p \notin files /\ Operation(<<Record("added", p)>>, files \cup {p})
Delete(p) == p \in files /\ Operation(<<Record("removed", p)>>, files \ {p})
Modify(p) == p \in files /\ Operation(<<Record("modified", p)>>, files)

(* Moving onto a path that exists removes what was there: Windows records    *)
(* that, inotify in the same directory does not.                             *)
Displaced(q) == IF ~IsLinux /\ q \in files THEN <<Record("removed", q)>> ELSE <<>>

Rename(p, q) ==
    /\ ~IsRegistry
    /\ p # q /\ p \in files
    /\ Operation(Displaced(q) \o <<Record("old name", p), Record("new name", q)>>,
                 (files \ {p}) \cup {q})

MoveOut(p) ==
    ~IsRegistry /\ p \in files /\ Operation(<<Record("old name", p)>>, files \ {p})
MoveIn(q) ==
    ~IsRegistry /\ Operation(Displaced(q) \o <<Record("new name", q)>>, files \cup {q})

(* Deleting a value of a key, reading one, and opening the key.              *)
RemoveValue(p) ==
    IsRegistry /\ p \in files /\ Operation(<<Record("value removed", p)>>, files)
QueryValue(p) ==
    IsRegistry /\ p \in files /\ Operation(<<Record("queried", p)>>, files)
OpenKey(p) ==
    IsRegistry /\ p \in files /\ Operation(<<Record("opened", p)>>, files)

-----------------------------------------------------------------------------
(* The sensor.                                                               *)

WatchFrom ==
    /\ phase = "starting"
    /\ phase' = "waiting"
    /\ first' = files
    /\ UNCHANGED <<kind, sent, taken, errors, cancelled, files, operations, raw,
                   overflowed, replaced, batch>>

StartWindowsFile == kind = "windowsFile" /\ WatchFrom
StartLinuxFile == kind = "linuxFile" /\ WatchFrom
StartRegistry == kind = "windowsRegistry" /\ WatchFrom

(* inotify_init1 or the ETW session is refused: Start returns its error.     *)
StartFails ==
    /\ phase = "starting"
    /\ kind # "windowsFile"
    /\ phase' = "ended"
    /\ UNCHANGED <<kind, sent, taken, errors, cancelled, watchVars>>

(* As many records as the buffer takes; the two records of one change may be *)
(* read apart.  ETW calls back with one.                                     *)
ReadRecords(n) ==
    /\ phase = "waiting"
    /\ raw # <<>>
    /\ phase' = "sending"
    /\ batch' = SubSeq(raw, 1, n)
    /\ raw' = SubSeq(raw, n + 1, Len(raw))
    /\ UNCHANGED <<kind, sent, taken, errors, cancelled, files, operations,
                   overflowed, replaced, first>>

ReadChanges ==
    /\ kind = "windowsFile"
    /\ raw # <<>> /\ Head(raw) # Overflow
    /\ \E n \in 1..Len(raw) : ReadRecords(n)

(* No bytes returned: an overflow, counted as an error.                      *)
ReadOverflow ==
    /\ phase = "waiting"
    /\ kind = "windowsFile"
    /\ raw # <<>> /\ Head(raw) = Overflow
    /\ raw' = Tail(raw)
    /\ errors' = errors + 1
    /\ UNCHANGED <<kind, phase, sent, taken, cancelled, files, operations,
                   overflowed, replaced, batch, first>>

ReadInotify == kind = "linuxFile" /\ \E n \in 1..Len(raw) : ReadRecords(n)
RegistryCallback == kind = "windowsRegistry" /\ ReadRecords(1)

Event(type, path) == [type |-> type, path |-> path, from |-> <<>>, value |-> FALSE]

(* Mutant: an old name is paired with whatever comes next.                   *)
PairedWithAny == Len(batch) > 1 /\ batch[1].action = "old name"

(* An old name followed at once by a new name is one rename; alone it is a   *)
(* deletion, and a new name alone a creation.                                *)
Paired == Len(batch) > 1 /\ batch[1].action = "old name" /\ batch[2].action = "new name"

WindowsFileEvent ==
    LET n == Head(batch) IN
    CASE n.action \in {"added", "new name"} -> Event("create", n.path)
      [] n.action = "modified"              -> Event("modify", n.path)
      [] Paired -> [Event("rename", batch[2].path) EXCEPT !.from = <<n.path>>]
      [] OTHER                              -> Event("delete", n.path)

WindowsFileUsed == IF Paired THEN 2 ELSE 1

Rest(used) ==
    /\ batch' = SubSeq(batch, used + 1, Len(batch))
    /\ phase' = IF batch' = <<>> THEN "waiting" ELSE "sending"
    /\ UNCHANGED <<kind, taken, cancelled, files, operations, raw, overflowed, replaced,
                   first>>

EmitWindowsFile ==
    /\ phase = "sending"
    /\ kind = "windowsFile"
    /\ Put(WindowsFileEvent)
    /\ Rest(WindowsFileUsed)
    /\ UNCHANGED errors

(* Both halves of a move are a FileRename of the path they name; a mark of   *)
(* an overflow names no watch and is passed over.                            *)
LinuxFileEvent ==
    LET n == Head(batch) IN
    CASE n.action = "added"    -> Event("create", n.path)
      [] n.action = "modified" -> Event("modify", n.path)
      [] n.action = "removed"  -> Event("delete", n.path)
      [] OTHER                 -> Event("rename", n.path)

EmitLinuxFile ==
    /\ phase = "sending"
    /\ kind = "linuxFile"
    /\ Rest(1)
    /\ IF Head(batch) = Overflow
       THEN UNCHANGED <<sent, errors>>
       ELSE \/ Put(LinuxFileEvent) /\ UNCHANGED errors
            \/ ~Room /\ errors' = errors + 1 /\ UNCHANGED sent

RegistryEvent ==
    LET n == Head(batch) IN
    CASE n.action \in {"added", "modified"} -> Event("write", n.path)
      [] n.action = "opened"                -> Event("read", n.path)
      [] OTHER -> [Event("delete", n.path) EXCEPT !.value = n.action = "value removed"]

EmitRegistry ==
    /\ phase = "sending"
    /\ kind = "windowsRegistry"
    /\ Rest(1)
    /\ IF Head(batch).action = "queried" THEN UNCHANGED sent ELSE Put(RegistryEvent)
    /\ UNCHANGED errors

(* A waiting send gives way to the context, and the batch is given up.       *)
GiveUp ==
    /\ phase = "sending"
    /\ kind # "linuxFile"
    /\ cancelled
    /\ Rest(Len(batch))
    /\ UNCHANGED <<sent, errors>>

WatchStep ==
    \/ StartWindowsFile \/ StartLinuxFile \/ StartRegistry \/ StartFails
    \/ ReadChanges \/ ReadOverflow \/ ReadInotify \/ RegistryCallback
    \/ EmitWindowsFile \/ EmitLinuxFile \/ EmitRegistry \/ GiveUp

WatchNext ==
    /\ kind \in WatchKinds
    /\ \/ WatchStep
       \/ \E p \in Paths :
              \/ Create(p) \/ Delete(p) \/ Modify(p) \/ MoveOut(p) \/ MoveIn(p)
              \/ RemoveValue(p) \/ QueryValue(p) \/ OpenKey(p)
              \/ \E q \in Paths : Rename(p, q)
       \/ (Take \/ Cancel \/ End) /\ UNCHANGED watchVars

WatchSpec == WatchInit /\ [][WatchNext]_<<feedVars, watchVars>>

-----------------------------------------------------------------------------
(* What a reader of the events makes of the directory.  A Linux FileRename   *)
(* does not say which half of a move it is: a path that is there has left.   *)
Moved(there, path) == IF path \in there THEN there \ {path} ELSE there \cup {path}

Apply(there, e) ==
    CASE e.type \in {"create", "write"}      -> there \cup {e.path}
      [] e.type = "delete" /\ ~e.value       -> there \ {e.path}
      [] e.type = "rename" /\ e.from # <<>>  -> (there \ Range(e.from)) \cup {e.path}
      [] e.type = "rename" /\ e.from = <<>>  -> Moved(there, e.path)
      [] OTHER                               -> there

Settled == phase = "waiting" /\ ~cancelled /\ raw = <<>> /\ batch = <<>>

(* The directory after replaying events over what was there.                 *)
Replay(there, events) ==
    LET after[n \in 0 .. Len(events)] ==
            IF n = 0 THEN there ELSE Apply(after[n - 1], events[n])
    IN  after[Len(events)]

(* Whoever replays the events over the files there were at the start has the *)
(* files there are, as soon as everything queued has been read: however the  *)
(* records of renames were split over two reads or met by other changes.     *)
(* Dropped events and what Windows loses of a directory show as errors.      *)
(* What inotify and ETW lose is counted nowhere, and a Linux FileRename of   *)
(* the name that something was moved onto looks like its leaving: of these   *)
(* three the events tell nothing.                                            *)
ReportsReplay ==
    /\ kind \in WatchKinds /\ Settled /\ errors = 0
    /\ overflowed => kind = "windowsFile"
    /\ ~replaced
    => Replay(first, sent) = files

=============================================================================
