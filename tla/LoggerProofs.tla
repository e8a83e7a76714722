---------------------------- MODULE LoggerProofs ----------------------------
(***************************************************************************)
(* The properties of Logger for every limit, every set of line lengths and *)
(* every number of lines and restarts.  They have one inductive invariant  *)
(* each: the size counter is the larger of the two while the file is open, *)
(* and the holder of the lock has not written its line yet.                *)
(***************************************************************************)
EXTENDS Logger, TLAPS

\* logger.go:129-165: from the check to the reopening a rotation is due, and a file
\* that is closed is one whose rotation is still due.
RetryInv ==
    /\ pc \in {"rename", "open"} => RotationDue
    /\ pc \in {"idle", "write"} /\ ~opened /\ ~shut => RotationDue

\* A line is written into a file that has not reached maxSize, the counter is not
\* behind the file, and a file that a rotation opens is new or was not renamed.
SizeInv ==
    /\ pc = "open" /\ LogPath \in DOMAIN files => refused
    /\ pc = "write" /\ opened /\ MaxSize > 0 => currentSize < MaxSize
    /\ opened /\ ~refused => files[LogPath].size <= currentSize
    /\ SizeBounded

\* The files on disk are of seconds that have come, and their lines earlier than
\* the one the holder of the lock has.
OrderInv ==
    /\ DOMAIN files \subseteq LogPath..now
    /\ \A n \in DOMAIN files : \A i \in DOMAIN files[n].lines :
        /\ files[n].lines[i] <= line.id
        /\ pc \in {"rename", "open", "write"} => files[n].lines[i] < line.id
    /\ LogInOrder

----------------------------------------------------------------------------
\* OpenFile leaves the files that exist alone and adds at most an empty one.
LEMMA WithLogKeeps ==
    ASSUME TypeOK
    PROVE  /\ DOMAIN WithLog = DOMAIN files \cup {LogPath}
           /\ WithLog \in [DOMAIN WithLog -> Files]
           /\ \A n \in DOMAIN files : WithLog[n] = files[n]
           /\ LogPath \notin DOMAIN files => WithLog[LogPath] = NewFile
           /\ DOMAIN NewFile.lines = {}
BY DEF TypeOK, WithLog, NewFile, Files, LogPath

\* A line that is written comes after those the file has.
LEMMA ExtendedAppends ==
    ASSUME NEW file \in Files, line \in Lines
    PROVE  /\ Extended(file) \in Files
           /\ Extended(file).size = file.size + line.size
           /\ DOMAIN Extended(file).lines = 1..(Len(file.lines) + 1)
           /\ DOMAIN file.lines = 1..Len(file.lines) /\ Len(file.lines) \in Nat
           /\ \A i \in DOMAIN file.lines : Extended(file).lines[i] = file.lines[i]
           /\ Extended(file).lines[Len(file.lines) + 1] = line.id
<1> DEFINE s == file.lines
<1>1. s \in Seq(1..LastLine) /\ file.size \in Nat
  BY DEF Files
<1>2. line.id \in 1..LastLine /\ line.size \in Nat
  BY LoggerAssumption DEF Lines
<1>3. /\ Append(s, line.id) \in Seq(1..LastLine)
      /\ DOMAIN s = 1..Len(s) /\ Len(s) \in Nat
      /\ Len(Append(s, line.id)) = Len(s) + 1
      /\ \A i \in 1..Len(s) : Append(s, line.id)[i] = s[i]
      /\ Append(s, line.id)[Len(s) + 1] = line.id
  BY <1>1, <1>2
<1>4. DOMAIN Append(s, line.id) = 1..(Len(s) + 1)
  BY <1>3
<1>5. Extended(file) = [lines |-> Append(s, line.id), size |-> file.size + line.size]
  BY DEF Extended
<1>6. QED
  BY <1>1, <1>2, <1>3, <1>4, <1>5 DEF Files

----------------------------------------------------------------------------
\* The logger keeps its type through rotations, failures and restarts.
LEMMA TypeStep == TypeOK /\ [Next]_vars => TypeOK'
<1> SUFFICES ASSUME TypeOK, [Next]_vars PROVE TypeOK'
  OBVIOUS
<1> USE LoggerAssumption
<1>1. CASE New
  <2>1. WithLog[LogPath] \in Files
    BY WithLogKeeps
  <2>2. currentSize' \in Nat
    BY <1>1, <2>1 DEF New, Files
  <2>3. DOMAIN files' \subseteq Names
    BY <1>1, WithLogKeeps DEF New, TypeOK, Names, LogPath
  <2>4. refused' \in BOOLEAN
    <3>1. (refused \/ WithLog[LogPath].size > 0) \in BOOLEAN
      OBVIOUS
    <3>2. QED
      BY <1>1, <3>1, Zenon DEF New, TypeOK
  <2>5. QED
    BY <1>1, <2>2, <2>3, <2>4, WithLogKeeps DEF New, TypeOK
<1>2. CASE Log
  <2>1. /\ pc = "idle" /\ pc' \in {"rename", "write"} /\ line' \in Lines
        /\ UNCHANGED <<files, currentSize, now, shut, refused>>
    BY <1>2 DEF Log, TypeOK, Lines
  <2>2. opened' \in BOOLEAN /\ (opened' => opened /\ pc' = "write")
    BY <1>2 DEF Log
  <2>3. line' \in [id : 0..LastLine, size : LineSizes \cup {0}]
    BY <2>1 DEF Lines
  <2>4. QED
    BY <2>1, <2>2, <2>3 DEF TypeOK
<1>3. CASE Rename
  <2>0. /\ pc = "rename" /\ pc' = "open"
        /\ UNCHANGED <<opened, currentSize, line, now, shut>>
    BY <1>3 DEF Rename
  <2>5. refused' \in BOOLEAN
    <3>1. refused' = FALSE \/ refused' = (LogPath \in DOMAIN files)
      BY <1>3, Zenon DEF Rename
    <3>2. (LogPath \in DOMAIN files) \in BOOLEAN
      OBVIOUS
    <3>3. QED
      BY <3>1, <3>2, Zenon
  <2>1. CASE UNCHANGED files
    <3>1. DOMAIN files' \subseteq Names /\ files' \in [DOMAIN files' -> Files]
      BY <2>1 DEF TypeOK
    <3>3. QED
      BY <2>0, <2>5, <3>1 DEF TypeOK
  <2>2. CASE ~UNCHANGED files
    <3>1. /\ LogPath \in DOMAIN files
          /\ files' = [n \in (DOMAIN files \ {LogPath}) \cup {RotatedPath} |->
                         files[IF n = RotatedPath THEN LogPath ELSE n]]
      BY <1>3, <2>2 DEF Rename
    <3>2. DOMAIN files' \subseteq Names /\ files' \in [DOMAIN files' -> Files]
      BY <3>1 DEF TypeOK, Names, RotatedPath, LogPath
    <3>3. QED
      BY <2>0, <2>5, <3>2 DEF TypeOK
  <2>3. QED
    BY <2>1, <2>2
<1>4. CASE Open
  <2>1. pc = "open" /\ pc' = "write" /\ UNCHANGED <<line, now, shut, refused>>
    BY <1>4 DEF Open
  <2>2. CASE files' = WithLog /\ opened' = TRUE /\ currentSize' = 0
    <3>1. DOMAIN files' \subseteq Names /\ LogPath \in DOMAIN files'
      BY <2>2, WithLogKeeps DEF TypeOK, Names, LogPath
    <3>2. QED
      BY <2>1, <2>2, <3>1, WithLogKeeps DEF TypeOK
  <2>3. CASE UNCHANGED <<files, opened, currentSize>>
    BY <2>1, <2>3 DEF TypeOK
  <2>4. QED
    BY <1>4, <2>2, <2>3 DEF Open
<1>5. CASE Write
  <2>1. CASE UNCHANGED files
    BY <1>5, <2>1 DEF Write, TypeOK, Lines
  <2>2. CASE opened /\ files' = [files EXCEPT ![LogPath] = Extended(@)]
    <3>1. files' \in [DOMAIN files' -> Files] /\ DOMAIN files' = DOMAIN files
      BY <1>5, <2>2, ExtendedAppends DEF Write, TypeOK
    <3>2. QED
      BY <1>5, <2>2, <3>1 DEF Write, TypeOK, Lines
  <2>3. QED
    BY <1>5, <2>1, <2>2 DEF Write
<1>6. CASE Close
  BY <1>6 DEF Close, TypeOK
<1>7. CASE Ends
  BY <1>7 DEF Ends, TypeOK
<1>8. CASE Tick
  BY <1>8 DEF Tick, TypeOK, Names, Lines
<1>9. CASE UNCHANGED vars
  BY <1>9 DEF vars, TypeOK, Lines, Names
<1>10. QED
  BY <1>1, <1>2, <1>3, <1>4, <1>5, <1>6, <1>7, <1>8, <1>9 DEF Next

\* The logger keeps its type for every limit, line length and sequence of failures.
THEOREM LoggerTypeCorrect == Spec => []TypeOK
<1>1. Init => TypeOK
  <2> SUFFICES ASSUME Init PROVE TypeOK
    OBVIOUS
  <2>1. DOMAIN files = {} /\ files \in [DOMAIN files -> Files]
    BY DEF Init
  <2>2. line \in [id : 0..LastLine, size : LineSizes \cup {0}]
    BY LoggerAssumption DEF Init
  <2>3. /\ opened = FALSE /\ shut = FALSE /\ refused = FALSE
        /\ currentSize = 0 /\ pc = "down" /\ now = 1
    BY DEF Init
  <2>41. DOMAIN files \subseteq Names
    BY <2>1
  <2>42. opened \in BOOLEAN /\ shut \in BOOLEAN /\ refused \in BOOLEAN
    BY <2>3
  <2>43. currentSize \in Nat /\ now \in 1..LastSecond
    BY <2>3, LoggerAssumption
  <2>44. /\ pc \in {"down", "idle", "rename", "open", "write"}
         /\ pc \in {"rename", "open", "write"} => line \in Lines
    BY <2>3
  <2>45. opened => LogPath \in DOMAIN files /\ pc \in {"idle", "write"}
    BY <2>3
  <2>4. QED
    BY <2>1, <2>2, <2>41, <2>42, <2>43, <2>44, <2>45 DEF TypeOK
<1>2. QED
  BY <1>1, TypeStep, PTL DEF Spec

----------------------------------------------------------------------------
\* A rotation stays due until it has succeeded: only Open and New make the counter
\* smaller, and both with an open file.
LEMMA RetryStep == TypeOK /\ RetryInv /\ [Next]_vars => RetryInv'
<1> SUFFICES ASSUME TypeOK, RetryInv, [Next]_vars PROVE RetryInv'
  OBVIOUS
<1> USE LoggerAssumption DEF RetryInv, RotationDue
<1>1. CASE New
  BY <1>1 DEF New
<1>2. CASE Log
  BY <1>2 DEF Log, TypeOK
<1>3. CASE Rename
  BY <1>3 DEF Rename
<1>4. CASE Open
  BY <1>4 DEF Open
<1>5. CASE Write
  <2>1. currentSize \in Nat /\ line.size \in Nat
    BY <1>5 DEF Write, TypeOK, Lines
  <2>2. QED
    BY <1>5, <2>1 DEF Write
<1>6. CASE Close
  BY <1>6 DEF Close
<1>7. CASE Ends
  BY <1>7 DEF Ends
<1>8. CASE Tick
  BY <1>8 DEF Tick
<1>9. CASE UNCHANGED vars
  BY <1>9 DEF vars
<1>10. QED
  BY <1>1, <1>2, <1>3, <1>4, <1>5, <1>6, <1>7, <1>8, <1>9 DEF Next

\* After a rotation that failed halfway each line tries again, for every limit and
\* however long the file system refuses (logger.go:156-164).
THEOREM RotationRetried == Spec => []RetryPending
<1>1. Init => RetryInv
  BY DEF Init, RetryInv
<1>2. RetryInv => RetryPending
  BY DEF RetryInv, RetryPending
<1>3. QED
  BY <1>1, <1>2, RetryStep, LoggerTypeCorrect, PTL DEF Spec

----------------------------------------------------------------------------
\* The file at logPath grows only below maxSize, or begins anew.
LEMMA SizeStep == TypeOK /\ RetryInv /\ SizeInv /\ [Next]_vars => SizeInv'
<1> SUFFICES ASSUME TypeOK, RetryInv, SizeInv, [Next]_vars PROVE SizeInv'
  OBVIOUS
<1> USE LoggerAssumption DEF SizeInv, SizeBounded
<1>0. /\ currentSize \in Nat /\ MaxSize \in Nat
      /\ \A n \in DOMAIN files : files[n].size \in Nat
      /\ \E l \in LineSizes : l \in Nat
  BY DEF TypeOK, Files
<1>1. CASE New
  <2>1. WithLog[LogPath] \in Files
    BY WithLogKeeps
  <2>2. LogPath \in DOMAIN files => WithLog[LogPath] = files[LogPath]
    BY WithLogKeeps
  <2>3. LogPath \notin DOMAIN files => WithLog[LogPath].size = 0
    BY WithLogKeeps DEF NewFile
  <2>4. files' = WithLog /\ pc' = "idle" /\ WithLog[LogPath].size \in Nat
    BY <1>1, <2>1 DEF New, Files
  <2>5. CASE currentSize' = WithLog[LogPath].size /\ UNCHANGED refused
    BY <1>0, <2>2, <2>3, <2>4, <2>5
  <2>6. CASE currentSize' = 0 /\ refused' = (refused \/ WithLog[LogPath].size > 0)
    <3>1. ~refused' => ~refused /\ ~(WithLog[LogPath].size > 0)
      BY <2>6, Zenon
    <3>2. ~refused' => ~refused /\ files'[LogPath].size = 0
      BY <2>4, <3>1
    <3>3. QED
      BY <1>0, <2>4, <2>6, <3>2
  <2>7. QED
    BY <1>1, <2>5, <2>6 DEF New
<1>2. CASE Log
  BY <1>0, <1>2 DEF Log, TypeOK, RotationDue
<1>3. CASE Rename
  <2>1. pc' = "open" /\ ~opened'
    BY <1>3 DEF Rename, TypeOK
  <2>2. CASE /\ files' = [n \in (DOMAIN files \ {LogPath}) \cup {RotatedPath} |->
                           files[IF n = RotatedPath THEN LogPath ELSE n]]
             /\ refused' = FALSE
    <3>1. LogPath \notin DOMAIN files'
      BY <2>2 DEF TypeOK, RotatedPath, LogPath
    <3>2. QED
      BY <2>1, <3>1
  <2>3. CASE UNCHANGED files /\ refused' = (LogPath \in DOMAIN files)
    <3>1. LogPath \in DOMAIN files' => refused'
      BY <2>3
    <3>2. QED
      BY <2>1, <3>1
  <2>4. QED
    BY <1>3, <2>2, <2>3 DEF Rename
<1>4. CASE Open
  <2>1. ~opened
    BY <1>4 DEF Open, TypeOK
  <2>2. CASE files' = WithLog /\ opened' = TRUE /\ currentSize' = 0
    <3>1. refused' = refused /\ pc' = "write"
      BY <1>4 DEF Open
    <3>2. LogPath \in DOMAIN files => refused
      BY <1>4 DEF Open
    <3>3. LogPath \notin DOMAIN files => WithLog[LogPath].size = 0
      BY WithLogKeeps DEF NewFile
    <3>4. QED
      BY <1>0, <2>2, <3>1, <3>2, <3>3
  <2>3. CASE UNCHANGED <<files, opened, currentSize>>
    BY <1>0, <1>4, <2>1, <2>3 DEF Open
  <2>4. QED
    BY <1>4, <2>2, <2>3 DEF Open
<1>5. CASE Write
  <2>1. line.size \in Nat /\ line.size \in LineSizes
    BY <1>5 DEF Write, TypeOK, Lines
  <2>2. CASE UNCHANGED files
    BY <1>0, <1>5, <2>1, <2>2 DEF Write, TypeOK
  <2>3. CASE opened /\ files' = [files EXCEPT ![LogPath] = Extended(@)]
    <3>1. LogPath \in DOMAIN files /\ DOMAIN files' = DOMAIN files
      BY <2>3 DEF TypeOK
    <3>2. files'[LogPath].size = files[LogPath].size + line.size
      BY <1>5, <2>3, <3>1, ExtendedAppends DEF Write, TypeOK
    <3>3. QED
      BY <1>0, <1>5, <2>1, <2>3, <3>1, <3>2 DEF Write
  <2>4. QED
    BY <1>5, <2>2, <2>3 DEF Write
<1>6. CASE Close
  BY <1>6 DEF Close
<1>7. CASE Ends
  BY <1>7 DEF Ends
<1>8. CASE Tick
  BY <1>8 DEF Tick
<1>9. CASE UNCHANGED vars
  BY <1>9 DEF vars
<1>10. QED
  BY <1>1, <1>2, <1>3, <1>4, <1>5, <1>6, <1>7, <1>8, <1>9 DEF Next

\* A file that can be renamed when it is due is never larger than maxSize by a whole
\* line, whatever the lines and the restarts (logger.go:90-93, 129-139).
THEOREM FileSizeBounded == Spec => []SizeBounded
<1>1. Init => RetryInv /\ SizeInv
  BY DEF Init, RetryInv, SizeInv, SizeBounded
<1>2. SizeInv => SizeBounded
  BY DEF SizeInv
<1>3. QED
  BY <1>1, <1>2, RetryStep, SizeStep, LoggerTypeCorrect, PTL DEF Spec

----------------------------------------------------------------------------
\* What Rename does to the files when it succeeds: each has moved or stayed.
LEMMA RenameMoves ==
    ASSUME TypeOK, OrderInv, Rename, ~UNCHANGED files
    PROVE  /\ LogPath \in DOMAIN files /\ LogPath \notin DOMAIN files'
           /\ now \in DOMAIN files' /\ files'[now] = files[LogPath]
           /\ DOMAIN files' \subseteq 1..now
           /\ \A n \in DOMAIN files \ {LogPath, now} : n \in DOMAIN files'
           /\ \A n \in DOMAIN files' \ {now} : n \in DOMAIN files /\ files'[n] = files[n]
<1>1. /\ LogPath \in DOMAIN files
      /\ files' = [n \in (DOMAIN files \ {LogPath}) \cup {now} |->
                     files[IF n = now THEN LogPath ELSE n]]
  BY DEF Rename, RotatedPath
<1>2. now \in Nat \ {0} /\ DOMAIN files \subseteq 0..now
  BY LoggerAssumption DEF TypeOK, OrderInv, LogPath
<1>3. QED
  BY <1>1, <1>2 DEF LogPath

\* The lines of the files stay in order: one that is written is later than all of
\* them, and a file that is renamed is later than those renamed before it.
LEMMA OrderStep == TypeOK /\ OrderInv /\ [Next]_vars => OrderInv'
<1> SUFFICES ASSUME TypeOK, OrderInv, [Next]_vars PROVE OrderInv'
  OBVIOUS
<1> USE LoggerAssumption
<1>a. /\ line.id \in Nat /\ now \in Nat \ {0}
      /\ \A n \in DOMAIN files : \A i \in DOMAIN files[n].lines :
            files[n].lines[i] \in Nat /\ i \in Nat
  BY DEF TypeOK, Files
<1>b. CASE WithLog = files' /\ pc \in {"down", "open"} /\ pc' \in {"idle", "write"}
           /\ UNCHANGED <<line, now>> /\ (pc' = "write" => pc = "open")
  <2>1. /\ DOMAIN files' = DOMAIN files \cup {LogPath}
        /\ \A n \in DOMAIN files : files'[n] = files[n]
        /\ \A n \in DOMAIN files' : n \notin DOMAIN files => DOMAIN files'[n].lines = {}
    BY <1>b, WithLogKeeps
  <2>2. DOMAIN files' \subseteq LogPath..now'
    BY <1>a, <1>b, <2>1 DEF OrderInv, LogPath
  <2>3. ASSUME NEW n \in DOMAIN files', NEW i \in DOMAIN files'[n].lines
        PROVE  n \in DOMAIN files /\ files'[n] = files[n]
    BY <2>1
  <2>4. LogInOrder'
    BY <2>3 DEF OrderInv, LogInOrder, Before
  <2>5. \A n \in DOMAIN files' : \A i \in DOMAIN files'[n].lines :
            /\ files'[n].lines[i] <= line'.id
            /\ pc' \in {"rename", "open", "write"} => files'[n].lines[i] < line'.id
    BY <1>b, <2>3 DEF OrderInv
  <2>6. QED
    BY <2>2, <2>4, <2>5 DEF OrderInv
<1>c. CASE UNCHANGED <<files, line>> /\ now' >= now /\ now' \in Nat
           /\ (pc' \in {"rename", "open", "write"} => pc \in {"rename", "open", "write"})
  BY <1>a, <1>c DEF OrderInv, LogInOrder, Before, LogPath
<1>1. CASE New
  BY <1>1, <1>b DEF New
<1>2. CASE Log
  <2>1. UNCHANGED <<files, now>> /\ line'.id = line.id + 1
    BY <1>2 DEF Log
  <2>2. QED
    BY <1>a, <2>1 DEF OrderInv, LogInOrder, Before
<1>3. CASE Rename
  <2>1. pc = "rename" /\ UNCHANGED <<line, now>>
    BY <1>3 DEF Rename
  <2>2. CASE UNCHANGED files
    BY <1>a, <1>c, <2>1, <2>2
  <2>3. CASE ~UNCHANGED files
    <3> DEFINE src(n) == IF n = now THEN LogPath ELSE n
    <3>1. \A n \in DOMAIN files' : src(n) \in DOMAIN files /\ files'[n] = files[src(n)]
      BY <1>3, <2>3, RenameMoves
    <3>2. DOMAIN files' \subseteq 1..now
      BY <1>3, <2>3, RenameMoves
    <3>3. \A m, n \in DOMAIN files' : Before(m, n) => Before(src(m), src(n))
      <4> SUFFICES ASSUME NEW m \in DOMAIN files', NEW n \in DOMAIN files', Before(m, n)
                   PROVE  Before(src(m), src(n))
        OBVIOUS
      <4>1. m \in 1..now /\ n \in 1..now /\ now \in Nat
        BY <1>a, <3>2
      <4>2. m < n /\ m # now
        BY <4>1 DEF Before, LogPath
      <4>3. QED
        BY <4>1, <4>2 DEF Before, LogPath
    <3>4. LogInOrder'
      <4> HIDE DEF src
      <4>1. \A m, n \in DOMAIN files' : Before(m, n)' <=> Before(m, n)
        BY DEF Before
      <4>2. QED
        BY <3>1, <3>3 DEF OrderInv, LogInOrder, Before
    <3>5. \A n \in DOMAIN files' : \A i \in DOMAIN files'[n].lines :
              files'[n].lines[i] < line.id /\ files'[n].lines[i] <= line.id
      BY <2>1, <3>1 DEF OrderInv
    <3>6. QED
      BY <1>a, <2>1, <3>2, <3>4, <3>5 DEF OrderInv, LogPath
  <2>4. QED
    BY <2>2, <2>3
<1>4. CASE Open
  <2>1. pc = "open" /\ pc' = "write" /\ UNCHANGED <<line, now>>
    BY <1>4 DEF Open
  <2>2. files' = WithLog \/ UNCHANGED files
    BY <1>4 DEF Open
  <2>3. QED
    BY <1>a, <1>b, <1>c, <2>1, <2>2
<1>5. CASE Write
  <2>1. pc = "write" /\ pc' = "idle" /\ UNCHANGED <<line, now>>
    BY <1>5 DEF Write
  <2>2. CASE UNCHANGED files
    BY <1>a, <1>c, <2>1, <2>2
  <2>3. CASE opened /\ files' = [files EXCEPT ![LogPath] = Extended(@)]
    <3> DEFINE k == Len(files[LogPath].lines) + 1
    <3>1. /\ LogPath \in DOMAIN files /\ DOMAIN files' = DOMAIN files
          /\ \A n \in DOMAIN files \ {LogPath} : files'[n] = files[n]
          /\ files'[LogPath] = Extended(files[LogPath])
      BY <2>3 DEF TypeOK
    <3>2. files[LogPath] \in Files /\ line \in Lines
      BY <2>1, <3>1 DEF TypeOK
    <3>3. /\ k \in Nat /\ DOMAIN files'[LogPath].lines = 1..k
          /\ DOMAIN files[LogPath].lines = 1..(k - 1)
          /\ \A i \in 1..(k - 1) : files'[LogPath].lines[i] = files[LogPath].lines[i]
          /\ files'[LogPath].lines[k] = line.id
      BY <3>1, <3>2, ExtendedAppends
    <3>4. \A n \in DOMAIN files' : \A i \in DOMAIN files'[n].lines :
            \/ n = LogPath /\ i = k /\ files'[n].lines[i] = line.id
            \/ /\ n \in DOMAIN files /\ i \in DOMAIN files[n].lines
               /\ files'[n].lines[i] = files[n].lines[i]
               /\ files[n].lines[i] < line.id
               /\ n = LogPath => i < k
      <4> HIDE DEF k
      <4>1. \A n \in DOMAIN files : \A i \in DOMAIN files[n].lines :
                files[n].lines[i] < line.id
        BY <2>1 DEF OrderInv
      <4>2. QED
        BY <3>1, <3>3, <4>1
    <3>5. LogInOrder'
      <4> HIDE DEF k
      <4>1. \A n \in DOMAIN files' : \A i \in DOMAIN files'[n].lines : i \in Nat
        BY <1>a, <3>3, <3>4
      <4>2. ASSUME NEW m \in DOMAIN files', NEW n \in DOMAIN files',
                   NEW i \in DOMAIN files'[m].lines, NEW j \in DOMAIN files'[n].lines,
                   Before(m, n) \/ (m = n /\ i < j)
            PROVE  files'[m].lines[i] < files'[n].lines[j]
        <5>1. CASE n = LogPath /\ j = k
          <6>1. ~(m = LogPath /\ i = k)
            BY <4>1, <4>2, <5>1 DEF Before
          <6>2. files'[n].lines[j] = line.id
            BY <3>3, <5>1
          <6>3. QED
            BY <3>4, <6>1, <6>2
        <5>2. CASE ~(n = LogPath /\ j = k)
          <6>1. /\ n \in DOMAIN files /\ j \in DOMAIN files[n].lines
                /\ files'[n].lines[j] = files[n].lines[j]
                /\ n = LogPath => j < k
            BY <3>4, <5>2
          <6>2. ~(m = LogPath /\ i = k)
            BY <3>3, <4>1, <4>2, <6>1 DEF Before
          <6>3. /\ m \in DOMAIN files /\ i \in DOMAIN files[m].lines
                /\ files'[m].lines[i] = files[m].lines[i]
            BY <3>4, <6>2
          <6>4. QED
            BY <4>2, <6>1, <6>3 DEF OrderInv, LogInOrder
        <5>3. QED
          BY <5>1, <5>2
      <4>3. QED
        BY <4>2 DEF LogInOrder, Before
    <3>6. \A n \in DOMAIN files' : \A i \in DOMAIN files'[n].lines :
              files'[n].lines[i] <= line.id
      BY <1>a, <3>4
    <3>7. QED
      BY <2>1, <3>1, <3>5, <3>6 DEF OrderInv
  <2>4. QED
    BY <1>5, <2>2, <2>3 DEF Write
<1>6. CASE Close
  BY <1>6, <1>a, <1>c DEF Close
<1>7. CASE Ends
  BY <1>7, <1>a, <1>c DEF Ends
<1>8. CASE Tick
  BY <1>8, <1>a, <1>c DEF Tick
<1>9. CASE UNCHANGED vars
  BY <1>9, <1>a, <1>c DEF vars
<1>10. QED
  BY <1>1, <1>2, <1>3, <1>4, <1>5, <1>6, <1>7, <1>8, <1>9 DEF Next

\* Whatever is lost to failures, to the end of the process or to rotations within
\* one second, what is on disk is in the order in which it was logged.
THEOREM FilesInOrder == Spec => []LogInOrder
<1>1. Init => OrderInv
  BY DEF Init, OrderInv, LogInOrder
<1>2. OrderInv => LogInOrder
  BY DEF OrderInv
<1>3. QED
  BY <1>1, <1>2, OrderStep, LoggerTypeCorrect, PTL DEF Spec

\* Only a second rotation within one second takes lines from the disk.
THEOREM OnlyOverwritten == Spec => LinesKept
<1> DEFINE Kept == \A id \in OnDisk : id \in OnDisk' \/ (now \in DOMAIN files /\ id \in Contents(now))
<1>1. TypeOK /\ OrderInv /\ [Next]_vars => [Kept]_vars
  <2> SUFFICES ASSUME TypeOK, OrderInv, Next,
                      NEW id \in OnDisk, id \notin Contents(now) \/ now \notin DOMAIN files
               PROVE  id \in OnDisk'
    OBVIOUS
  <2>1. PICK n \in DOMAIN files : id \in Contents(n)
    BY DEF OnDisk
  <2>2. CASE n \in DOMAIN files' /\ Contents(n) \subseteq Contents(n)'
    BY <2>1, <2>2 DEF OnDisk
  <2>3. CASE UNCHANGED files
    BY <2>1, <2>2, <2>3 DEF Contents
  <2>4. CASE files' = WithLog
    BY <2>1, <2>2, <2>4, WithLogKeeps DEF Contents
  <2>5. CASE Rename /\ ~UNCHANGED files
    <3>1. CASE n = LogPath
      <4>1. now \in DOMAIN files' /\ files'[now] = files[LogPath] /\ UNCHANGED now
        BY <2>5, RenameMoves DEF Rename
      <4>2. QED
        BY <2>1, <3>1, <4>1 DEF OnDisk, Contents
    <3>2. CASE n # LogPath
      <4>1. n \in DOMAIN files' /\ files'[n] = files[n]
        BY <2>1, <2>5, <3>2, RenameMoves
      <4>2. QED
        BY <2>2, <4>1 DEF Contents
    <3>3. QED
      BY <3>1, <3>2
  <2>6. CASE Write /\ files' = [files EXCEPT ![LogPath] = Extended(@)]
    <3>1. line \in Lines /\ n \in DOMAIN files' /\ files[n] \in Files
      BY <2>6 DEF Write, TypeOK
    <3>2. n # LogPath => files'[n] = files[n]
      BY <2>6 DEF TypeOK
    <3>3. n = LogPath => files'[n] = Extended(files[n])
      BY <2>6 DEF TypeOK
    <3>4. /\ DOMAIN files[n].lines \subseteq DOMAIN files'[n].lines
          /\ \A i \in DOMAIN files[n].lines : files'[n].lines[i] = files[n].lines[i]
      BY <3>1, <3>2, <3>3, ExtendedAppends
    <3>5. QED
      BY <2>2, <3>1, <3>4 DEF Contents
  <2>7. QED
    BY <2>3, <2>4, <2>5, <2>6 DEF Next, New, Log, Open, Write, Close, Ends, Tick
<1>2. Init => OrderInv
  BY DEF Init, OrderInv, LogInOrder
<1>3. QED
  BY <1>1, <1>2, OrderStep, LoggerTypeCorrect, PTL DEF Spec, LinesKept
=============================================================================
