------------------------------- MODULE Logger -------------------------------
(***************************************************************************)
(* The log file of the process (pkg/logger/logger.go): lines are appended  *)
(* under Logger.mu, and a file that has grown to maxSize is renamed to its *)
(* name and the second it is, and begun anew.  Every call of the file      *)
(* system may fail, and none of the failures stops the line at hand.  The  *)
(* process may end at any moment, also inside a rotation, and be started   *)
(* again on the files it finds.                                            *)
(*                                                                         *)
(* The lines are those that pass the level, numbered in the order in which *)
(* they get the lock.  A file has its lines and their size; the file at    *)
(* logPath has the name 0, a rotated one that of its second.  The clock is *)
(* taken not to go back.                                                   *)
(***************************************************************************)
EXTENDS Integers, Sequences

CONSTANTS
    MaxSize,    \* Logger.maxSize; 0 for no rotation
    LineSizes,  \* the lengths that lines have
    LastSecond, \* bound: the clock stops here
    LastLine    \* bound: the number of lines

ASSUME LoggerAssumption ==
    /\ MaxSize \in Nat /\ LastSecond \in Nat \ {0} /\ LastLine \in Nat
    /\ LineSizes \subseteq Nat /\ LineSizes # {}

VARIABLES
    files,      \* the files of the log on disk
    opened,     \* Logger.file is open, on the file at logPath
    currentSize,
    pc,         \* where the holder of Logger.mu is
    line,       \* the line it has
    now,        \* the second
    shut,       \* Close has been called
    refused     \* the file at logPath could not be renamed when it was due, or its
                \* size not read when it was opened

vars == <<files, opened, currentSize, pc, line, now, shut, refused>>

LogPath == 0
Names == LogPath..LastSecond
Lines == [id : 1..LastLine, size : LineSizes]
Files == [lines : Seq(1..LastLine), size : Nat]
NewFile == [lines |-> <<>>, size |-> 0]

TypeOK ==
    /\ DOMAIN files \subseteq Names
    /\ files \in [DOMAIN files -> Files]
    /\ opened \in BOOLEAN /\ shut \in BOOLEAN /\ refused \in BOOLEAN
    /\ currentSize \in Nat
    /\ pc \in {"down", "idle", "rename", "open", "write"}
    /\ line \in [id : 0..LastLine, size : LineSizes \cup {0}]
    /\ pc \in {"rename", "open", "write"} => line \in Lines
    /\ now \in 1..LastSecond
    /\ opened => LogPath \in DOMAIN files /\ pc \in {"idle", "write"}

Init ==
    /\ files = [n \in {} |-> NewFile]
    /\ opened = FALSE /\ shut = FALSE /\ refused = FALSE
    /\ currentSize = 0
    /\ pc = "down"
    /\ line = [id |-> 0, size |-> 0]
    /\ now = 1

\* OpenFile with O_CREATE and O_APPEND.
WithLog == [n \in DOMAIN files \cup {LogPath} |->
              IF n \in DOMAIN files THEN files[n] ELSE NewFile]

----------------------------------------------------------------------------
\* A New that does not look at what the file holds already (a mutant).
Bug_New ==
    /\ pc = "down"
    /\ files' = WithLog
    /\ opened' = TRUE /\ shut' = FALSE
    /\ currentSize' = 0
    /\ pc' = "idle"
    /\ UNCHANGED <<line, now, refused>>

\* New, at the start of the process.  When it fails the process exits; when only Stat
\* fails the logger takes the file it found for an empty one.
New ==
    /\ pc = "down"
    /\ files' = WithLog
    /\ opened' = TRUE /\ shut' = FALSE
    /\ \/ currentSize' = WithLog[LogPath].size /\ UNCHANGED refused
       \/ currentSize' = 0 /\ refused' = (refused \/ WithLog[LogPath].size > 0)
    /\ pc' = "idle"
    /\ UNCHANGED <<line, now>>

RotationDue == MaxSize > 0 /\ currentSize >= MaxSize

\* log has got the lock; rotate begins by closing the file, open or not.
Log ==
    /\ pc = "idle" /\ line.id < LastLine
    /\ \E size \in LineSizes : line' = [id |-> line.id + 1, size |-> size]
    /\ pc' = IF RotationDue THEN "rename" ELSE "write"
    /\ opened' = (opened /\ ~RotationDue)
    /\ UNCHANGED <<files, currentSize, now, shut, refused>>

\* A name in which the hours go to twelve (a mutant).
Bug_RotatedPath == 1 + (now % 2)

\* The name of a rotated file has a resolution of one second.
RotatedPath == now

\* os.Rename replaces a file of the new name.  That it fails is not noticed.
Rename ==
    /\ pc = "rename"
    /\ \/ /\ LogPath \in DOMAIN files
          /\ files' = [n \in (DOMAIN files \ {LogPath}) \cup {RotatedPath} |->
                         files[IF n = RotatedPath THEN LogPath ELSE n]]
          /\ refused' = FALSE
       \/ UNCHANGED files /\ refused' = (LogPath \in DOMAIN files)
    /\ pc' = "open"
    /\ UNCHANGED <<opened, currentSize, line, now, shut>>

\* A rotation that sets the size to zero before it knows of its success (a mutant).
Bug_Open ==
    /\ pc = "open"
    /\ \/ files' = WithLog /\ opened' = TRUE
       \/ UNCHANGED <<files, opened>>
    /\ currentSize' = 0
    /\ pc' = "write"
    /\ UNCHANGED <<line, now, shut, refused>>

\* The new file is opened, or the closed one stays where it is.
Open ==
    /\ pc = "open"
    /\ \/ files' = WithLog /\ opened' = TRUE /\ currentSize' = 0
       \/ UNCHANGED <<files, opened, currentSize>>
    /\ pc' = "write"
    /\ UNCHANGED <<line, now, shut, refused>>

Extended(file) == [lines |-> Append(file.lines, line.id), size |-> file.size + line.size]

\* The line is counted whether or not it could be written.
Write ==
    /\ pc = "write"
    /\ \/ opened /\ files' = [files EXCEPT ![LogPath] = Extended(@)]
       \/ UNCHANGED files
    /\ currentSize' = currentSize + line.size
    /\ pc' = "idle"
    /\ UNCHANGED <<opened, line, now, shut, refused>>

\* Close leaves Logger.file as it is, and goroutines may go on logging.
Close ==
    /\ pc = "idle"
    /\ opened' = FALSE /\ shut' = TRUE
    /\ UNCHANGED <<files, currentSize, pc, line, now, refused>>

\* The process ends: it exits, or is killed at any moment.
Ends ==
    /\ pc # "down"
    /\ pc' = "down"
    /\ opened' = FALSE
    /\ UNCHANGED <<files, currentSize, line, now, shut, refused>>

Tick ==
    /\ now < LastSecond
    /\ now' = now + 1
    /\ UNCHANGED <<files, opened, currentSize, pc, line, shut, refused>>

Next == New \/ Log \/ Rename \/ Open \/ Write \/ Close \/ Ends \/ Tick

Spec == Init /\ [][Next]_vars

----------------------------------------------------------------------------
\* A running logger whose file is closed, since a rotation failed halfway, tries
\* again with the next line: lines are lost until a rotation succeeds, and not
\* until another maxSize of them has gone by (logger.go:129-131, 156-164).
RetryPending == pc = "idle" /\ ~opened /\ ~shut => RotationDue

\* The file at logPath is larger than maxSize by less than a line, over all restarts,
\* unless it could not be renamed when it was due, or measured when it was opened: it
\* then goes on growing (docs/ARCHITECTURE.md:379, data-model.md:386).
SizeBounded ==
    MaxSize > 0 /\ ~refused /\ LogPath \in DOMAIN files
      => \E l \in LineSizes : files[LogPath].size < MaxSize + l

\* Read in the order of their names, the current one last, the files have the lines
\* in the order in which they were logged, whatever was lost on the way.
Before(m, n) == m # LogPath /\ (n = LogPath \/ m < n)
LogInOrder ==
    \A m, n \in DOMAIN files :
        \A i \in DOMAIN files[m].lines, j \in DOMAIN files[n].lines :
            Before(m, n) \/ (m = n /\ i < j) => files[m].lines[i] < files[n].lines[j]

\* A line on disk vanishes only when two rotations fall into one second: the
\* second one replaces the file of the first (logger.go:151-153).
Contents(n) == {files[n].lines[i] : i \in DOMAIN files[n].lines}
OnDisk == UNION {Contents(n) : n \in DOMAIN files}
LinesKept ==
    [][\A id \in OnDisk : id \in OnDisk' \/ (now \in DOMAIN files /\ id \in Contents(now))]_vars
=============================================================================
