----------------------------- MODULE FileProofs -----------------------------
(***************************************************************************)
(* The safety of a pipe, for every capacity and every length of a call, of *)
(* the tables of open files, for any number of tasks and entries, and of   *)
(* the small file system, for any names, data and blocks, as long as one   *)
(* file is open at a time.                                                 *)
(***************************************************************************)
EXTENDS PipeProps, FileTable, Gsffs, SeqLemmas, FiniteSetTheorems, TLAPS

\* The two sides of a pipe (read_pipefs() and write_pipefs()) are each the
\* other's peer.
LEMMA PeerIsOther ==
    ASSUME NEW s \in Sides
    PROVE  /\ Peer(s) \in Sides
           /\ Peer(s) # s
           /\ \A t \in Sides : t = s \/ t = Peer(s)
BY DEF Sides, Peer

\* A step that leaves held, count and left alone, counts nobody in or out, and
\* takes nobody to "lock", "move" or "wakeup" or back before its open keeps
\* the invariant.
LEMMA Bystanding ==
    ASSUME PipeInv,
           UNCHANGED <<held, num, left>>,
           mutex' \in Sides \cup {Nobody},
           count' \in [Sides -> Nat],
           TypeOK',
           \A s \in Sides :
              \/ pc'[s] = pc[s] /\ count'[s] = count[s]
              \/ /\ pc'[s] \in {"idle", "look", "wait", "waiting", "resumed",
                                "peer?", "round"}
                 /\ pc[s] \in {"idle", "look", "wait", "waiting", "resumed",
                               "peer?", "round", "wakeup"}
              \/ pc[s] = "closing" /\ pc'[s] = "ended"
    PROVE  PipeInv'
<1>1. CountedWhileOpen'
  BY DEF PipeInv, CountedWhileOpen, TypeOK
<1>2. SessionsStartEmpty'
  BY DEF PipeInv, SessionsStartEmpty, TypeOK, Sides
<1>3. FoundStaysThere'
  BY DEF PipeInv, FoundStaysThere, TypeOK, Available
<1>4. TransfersAreWhole'
  BY DEF PipeInv, TransfersAreWhole, TypeOK, Available
<1> QED BY <1>1, <1>2, <1>3, <1>4 DEF PipeInv

\* Init of the pipe (mount_pipefs()) satisfies the invariant.
LEMMA PipeInit == Init => PipeInv
BY PipeAssumption
   DEF Init, PipeInv, TypeOK, CountedWhileOpen, SessionsStartEmpty,
       FoundStaysThere, TransfersAreWhole, Available, Sides

-----------------------------------------------------------------------------
(* The steps that matter.                                                  *)

\* open_pipefs(): clearing finds nobody who has counted on what is held,
\* because a reader that is there before the writer holds nothing.
LEMMA OpenStep ==
    ASSUME PipeInv, NEW s \in Sides, Open(s)
    PROVE  PipeInv'
<1> USE DEF Open, Go, call, PipeInv
<1>1. TypeOK'
  BY PipeAssumption DEF TypeOK, CountedWhileOpen
<1>2. CountedWhileOpen'
  BY DEF CountedWhileOpen, TypeOK
<1>3. SessionsStartEmpty'
  BY DEF SessionsStartEmpty, CountedWhileOpen, TypeOK, Sides
<1>4. num["writer"] = 0 => held = 0 \/ pc["reader"] \notin {"lock", "move"}
  BY DEF SessionsStartEmpty, CountedWhileOpen, TypeOK, Sides
<1>5. FoundStaysThere'
  BY <1>4, PipeAssumption
     DEF FoundStaysThere, CountedWhileOpen, TypeOK, Available, Sides
<1>6. TransfersAreWhole'
  BY <1>4, PipeAssumption
     DEF TransfersAreWhole, CountedWhileOpen, TypeOK, Available, Sides
<1> QED BY <1>1, <1>2, <1>3, <1>5, <1>6

\* close_pipefs() counts itself out.
LEMMA CloseStep ==
    ASSUME PipeInv, NEW s \in Sides, Close(s)
    PROVE  PipeInv'
<1> USE DEF Close, Go, call, PipeInv
<1>1. TypeOK' /\ CountedWhileOpen'
  BY DEF TypeOK, CountedWhileOpen
<1>2. SessionsStartEmpty'
  BY DEF SessionsStartEmpty, TypeOK, Sides
<1>3. FoundStaysThere' /\ TransfersAreWhole'
  BY DEF FoundStaysThere, TransfersAreWhole, TypeOK, Available
<1> QED BY <1>1, <1>2, <1>3

\* A session begins when both sides have closed the pipe.
LEMMA NewSessionStep == PipeInv /\ NewSession => PipeInv'
<1> USE DEF NewSession, call, PipeInv
<1>1. ASSUME PipeInv, NewSession
      PROVE  TypeOK' /\ CountedWhileOpen'
  BY <1>1 DEF TypeOK, CountedWhileOpen
<1>2. ASSUME NewSession
      PROVE  SessionsStartEmpty' /\ FoundStaysThere' /\ TransfersAreWhole'
  BY <1>2 DEF SessionsStartEmpty, FoundStaysThere, TransfersAreWhole, Sides
<1> QED BY <1>1, <1>2

\* read_pipefs() and write_pipefs() go on only with what they have found.
LEMMA LookStep ==
    ASSUME PipeInv, NEW s \in Sides, Look(s)
    PROVE  PipeInv'
<1> USE DEF Look, Go, call, PipeInv
<1>1. TypeOK' /\ CountedWhileOpen'
  BY DEF TypeOK, CountedWhileOpen
<1>2. SessionsStartEmpty'
  BY DEF SessionsStartEmpty, TypeOK, Sides
<1>3. FoundStaysThere' /\ TransfersAreWhole'
  BY DEF FoundStaysThere, TransfersAreWhole, TypeOK, Available
<1> QED BY <1>1, <1>2, <1>3

\* With the mutex, or without it after the timeout, the call begins to move
\* what it has found.
LEMMA StartMovingStep ==
    ASSUME PipeInv, NEW s \in Sides, StartMoving(s),
           mutex' \in Sides \cup {Nobody}
    PROVE  PipeInv'
<1> USE DEF StartMoving, Go, PipeInv
<1>1. TypeOK' /\ CountedWhileOpen'
  BY DEF TypeOK, CountedWhileOpen
<1>2. SessionsStartEmpty'
  BY DEF SessionsStartEmpty, TypeOK, Sides
<1>3. FoundStaysThere'
  BY DEF FoundStaysThere, TypeOK, Available
<1>4. TransfersAreWhole'
  BY DEF FoundStaysThere, TransfersAreWhole, TypeOK, Available
<1> QED BY <1>1, <1>2, <1>3, <1>4

\* read_fifo() or write_fifo() moves a byte: less for the one side is more for
\* the other.
LEMMA MoveStep ==
    ASSUME PipeInv, NEW s \in Sides, Move(s)
    PROVE  PipeInv'
<1> USE DEF Move, PipeInv
<1>1. TypeOK'
  BY PipeAssumption DEF TypeOK, Available
<1>2. CountedWhileOpen'
  BY DEF CountedWhileOpen
<1>3. SessionsStartEmpty'
  BY PipeAssumption
     DEF SessionsStartEmpty, TransfersAreWhole, TypeOK, Available, Sides
<1>4. FoundStaysThere' /\ TransfersAreWhole'
  BY PeerIsOther, PipeAssumption
     DEF FoundStaysThere, TransfersAreWhole, TypeOK, Available, Sides
<1> QED BY <1>1, <1>2, <1>3, <1>4

\* The move ends because everything has been moved, never for want of bytes.
LEMMA MutexUnlockStep ==
    ASSUME PipeInv, NEW s \in Sides, MutexUnlock(s)
    PROVE  PipeInv'
<1> USE DEF MutexUnlock, Go, call, PipeInv
<1>1. TypeOK' /\ CountedWhileOpen'
  BY DEF TypeOK, CountedWhileOpen
<1>2. SessionsStartEmpty'
  BY DEF SessionsStartEmpty, TypeOK, Sides
<1>3. left[s] = 0
  BY DEF TransfersAreWhole, TypeOK
<1>4. FoundStaysThere' /\ TransfersAreWhole'
  BY <1>3 DEF FoundStaysThere, TransfersAreWhole, TypeOK, Available
<1> QED BY <1>1, <1>2, <1>4

\* Waking a peer that waits, at the end of a call or of close_pipefs().
LEMMA WakeupStep ==
    ASSUME PipeInv, NEW s \in Sides, NEW from, NEW to,
           WakeupPeer(s, from, to), UNCHANGED mutex,
           \/ from = "wakeup" /\ to = "idle"
           \/ from = "closing" /\ to = "ended"
    PROVE  PipeInv'
<1>1. TypeOK'
  BY PeerIsOther DEF PipeInv, TypeOK, WakeupPeer
<1> QED
  BY <1>1, PeerIsOther, Bystanding DEF PipeInv, TypeOK, WakeupPeer

-----------------------------------------------------------------------------
(* All steps, and the theorems.                                            *)

\* The steps of a call that only wait and decide.
LEMMA WaitingSteps ==
    ASSUME PipeInv, NEW s \in Sides,
           \/ \E n \in Lengths : Call(s, n)
           \/ EventWait(s) \/ WaitTimesOut(s) \/ LookAgain(s)
           \/ PeerIsGone(s) \/ PeerIsThere(s) \/ Round(s)
    PROVE  PipeInv'
<1>1. ASSUME NEW n \in Lengths, Call(s, n) PROVE PipeInv'
  BY <1>1, Bystanding, PipeAssumption DEF PipeInv, TypeOK, Call, Go
<1>2. CASE EventWait(s)
  BY <1>2, Bystanding DEF PipeInv, TypeOK, EventWait, Go, call
<1>3. CASE WaitTimesOut(s)
  BY <1>3, Bystanding DEF PipeInv, TypeOK, WaitTimesOut, Go
<1>4. CASE LookAgain(s)
  BY <1>4, Bystanding DEF PipeInv, TypeOK, LookAgain, Go, call
<1>5. CASE PeerIsGone(s)
  BY <1>5, Bystanding DEF PipeInv, TypeOK, PeerIsGone, Return, Go
<1>6. CASE PeerIsThere(s)
  BY <1>6, Bystanding DEF PipeInv, TypeOK, PeerIsThere, Go, call
<1>7. CASE Round(s)
  BY <1>7, Bystanding DEF PipeInv, TypeOK, Round, Return, Go
<1> QED BY <1>1, <1>2, <1>3, <1>4, <1>5, <1>6, <1>7

\* Every step of the pipe keeps the invariant.
LEMMA PipeStep == PipeInv /\ [Next]_vars => PipeInv'
<1> SUFFICES ASSUME PipeInv, [Next]_vars PROVE PipeInv'
  OBVIOUS
<1>1. CASE UNCHANGED vars
  BY <1>1 DEF vars, call, PipeInv, TypeOK, CountedWhileOpen,
              SessionsStartEmpty, FoundStaysThere, TransfersAreWhole, Available
<1>2. CASE NewSession
  BY <1>2, NewSessionStep
<1>3. ASSUME NEW s \in Sides, Side(s) PROVE PipeInv'
  <2>1. CASE Open(s)
    BY <2>1, OpenStep
  <2>2. CASE Close(s)
    BY <2>2, CloseStep
  <2>3. CASE Closed(s) \/ Returned(s)
    BY <2>3, WakeupStep DEF Closed, Returned
  <2>4. CASE Look(s)
    BY <2>4, LookStep
  <2>5. CASE MutexLock(s) \/ MutexLockTimesOut(s)
    BY <2>5, StartMovingStep DEF MutexLock, MutexLockTimesOut, PipeInv, TypeOK
  <2>6. CASE Move(s)
    BY <2>6, MoveStep
  <2>7. CASE MutexUnlock(s)
    BY <2>7, MutexUnlockStep
  <2>8. CASE \/ \E n \in Lengths : Call(s, n)
             \/ EventWait(s) \/ WaitTimesOut(s) \/ LookAgain(s)
             \/ PeerIsGone(s) \/ PeerIsThere(s) \/ Round(s)
    BY <2>8, WaitingSteps
  <2> QED
    BY <1>3, <2>1, <2>2, <2>3, <2>4, <2>5, <2>6, <2>7, <2>8 DEF Side, Work
<1> QED BY <1>1, <1>2, <1>3 DEF Next

\* The inductive invariant of a pipe (fs/pipefs.c) always holds.
THEOREM PipeIsConsistent == Spec => []PipeInv
BY PipeInit, PipeStep, PTL DEF Spec

\* Reads and writes of a pipe move all that was asked for or nothing, for
\* every capacity and length, whether or not the mutex was got in time.
THEOREM PipeTransfersAreWhole == Spec => []TransfersAreWhole
<1>1. PipeInv => TransfersAreWhole
  BY DEF PipeInv
<1> QED BY <1>1, PipeIsConsistent, PTL

\* No session of a pipe sees what open_pipefs() should have thrown away.
THEOREM PipeSessionsStartEmpty == Spec => []SessionsStartEmpty
<1>1. PipeInv => SessionsStartEmpty
  BY DEF PipeInv
<1> QED BY <1>1, PipeIsConsistent, PTL

-----------------------------------------------------------------------------
(* Open files and directories: the inductive invariant says who has what.  *)

Opens == {"fopen", "fopening"}
Opendirs == {"fopendir", "fopendiring"}
Has == {"open", "fclose", "fclosing"}

FileTypes ==
    /\ file_used \in [Fds -> BOOLEAN] /\ fatfs_used \in [Objects -> BOOLEAN]
    /\ dir_used \in [Dirs -> BOOLEAN]
    /\ fat \in [Objects -> Users \cup {NoUser}] /\ dir \in [Dirs -> Users \cup {NoUser}]
    /\ at \in [Users -> {"idle", "opening", "fopen", "fopening", "open", "fclose",
                          "fclosing", "closed", "fopendir", "fopendiring", "dir"}]
    /\ fsapi_mutex \in Users \cup {NoUser}
    /\ fd \in [Users -> Int] /\ object \in [Users -> Int]
    /\ storage \in [fs : BOOLEAN, device : BOOLEAN]

\* What a task has is in the tables.
InTables ==
    \A u \in Users : /\ at[u] \in Opens \cup Has \cup {"closed"} => fd[u] \in Fds /\ object[u] \in Objects
                     /\ at[u] \in Opendirs \cup {"dir"} => object[u] \in Dirs

MutexIsTheirs == \A u \in Users : fsapi_mutex = u <=> at[u] \in Opens

DescriptorsOwned ==
    /\ \A u \in Users : at[u] \in Has => file_used[fd[u]]
    /\ \A u \in Users : at[u] \in Opens => ~ file_used[fd[u]]
    /\ \A u, v \in Users : at[u] \in Has /\ at[v] \in Has /\ fd[u] = fd[v] => u = v
    /\ \A i \in Fds : file_used[i] => \E u \in Users : at[u] \in Has /\ fd[u] = i

ObjectsOwned ==
    /\ \A u \in Users : at[u] = "open" => fatfs_used[object[u]]
    /\ \A u \in Users : at[u] \in Opens => ~ fatfs_used[object[u]]
    /\ \A u, v \in Users : at[u] = "open" /\ at[v] = "open" /\ object[u] = object[v] => u = v
    /\ \A i \in Objects : fatfs_used[i] => \E u \in Users : at[u] = "open" /\ object[u] = i

\* Two tasks at one object have met there.
FilesMet ==
    \A u, v \in Users : at[u] \in Opens \cup Has /\ at[v] \in Opens \cup Has /\ object[u] = object[v] =>
        u = v \/ u \in met

DirsMet ==
    \A u, v \in Users : at[u] \in Opendirs \cup {"dir"} /\ at[v] \in Opendirs \cup {"dir"}
                            /\ object[u] = object[v] => u = v \/ u \in met

FilesAreTheirs ==
    \A u \in Users \ (met \cup cut) : at[u] \in Has => fat[object[u]] = u

DirsAreTheirs ==
    \A u \in Users \ (met \cup cut) : at[u] = "dir" => dir_used[object[u]] /\ dir[object[u]] = u

\* A valid object is that of a task that has it still, on a disk that FatFs has mounted.
ValidOnDisk ==
    /\ \A i \in Objects : fat[i] # NoUser =>
           volume = "mounted" /\ at[fat[i]] \in Has /\ object[fat[i]] = i
    /\ \A i \in Dirs : dir[i] # NoUser =>
           volume = "mounted" /\ dir_used[i] /\ at[dir[i]] = "dir" /\ object[dir[i]] = i

\* Who opens a file of a disk without a file system began before that, and so did the
\* owner of a valid object.
BeganOnDisk ==
    /\ \A u \in Users : at[u] \in Opens \cup Opendirs \cup {"opening"} => storage.fs \/ u \in crossed
    /\ \A i \in Objects : fat[i] # NoUser => storage.fs \/ fat[i] \in crossed
    /\ \A i \in Dirs : dir[i] # NoUser => storage.fs \/ dir[i] \in crossed

\* The inductive invariant.
FileTableInd ==
    /\ FileTypes /\ InTables /\ MutexIsTheirs /\ DescriptorsOwned /\ ObjectsOwned
    /\ FilesMet /\ DirsMet /\ FilesAreTheirs /\ DirsAreTheirs
    /\ ClosedFilesAreWritten /\ ValidOnDisk /\ BeganOnDisk

\* open_file() of a path has no effect on the tables yet.
LEMMA OpenFileKeepsFiles ==
    ASSUME FileTableAssumption, FileTableInd, NEW u \in Users, OpenFile(u)
    PROVE  FileTableInd'
<1> USE FileTableAssumption DEF FileTableInd, OpenFile,
         fileVars, dirVars, volumeVars, storageVars, Goes, Opens, Opendirs, Has
<1>1. FileTypes'
  BY DEF FileTypes
<1>2. InTables' /\ MutexIsTheirs' /\ DescriptorsOwned' /\ ObjectsOwned' /\ FilesMet'
  BY DEF InTables, MutexIsTheirs, DescriptorsOwned, ObjectsOwned, FilesMet
<1>3. DirsMet' /\ FilesAreTheirs' /\ DirsAreTheirs' /\ ClosedFilesAreWritten'
  BY DEF DirsMet, FilesAreTheirs, DirsAreTheirs, ClosedFilesAreWritten
<1>4. ValidOnDisk'
  BY DEF FileTypes, InTables, ValidOnDisk
<1>5. BeganOnDisk'
  BY DEF FileTypes, InTables, ValidOnDisk, BeganOnDisk
<1> QED
  BY <1>1, <1>2, <1>3, <1>4, <1>5

\* A task takes a descriptor and an object that are free; whoever is still in f_close()
\* with that object has met it there.
LEMMA LooksForDescriptorKeepsFiles ==
    ASSUME FileTableAssumption, FileTableInd, NEW u \in Users, LooksForDescriptor(u)
    PROVE  FileTableInd'
<1> USE FileTableAssumption DEF FileTableInd,
         fileVars, dirVars, volumeVars, storageVars, Goes, Opens, Opendirs, Has
<1>1. /\ at[u] = "opening" /\ fsapi_mutex = NoUser
      /\ UNCHANGED <<file_used, fatfs_used, fat, unwritten, dirVars, volumeVars, storage, shell>>
  BY DEF LooksForDescriptor, MayLook
<1>2. CASE EndsCall(u) /\ UNCHANGED <<fsapi_mutex, fd, object>>
  <2> USE DEF EndsCall
  <2>1. FileTypes'
    BY <1>1, <1>2 DEF FileTypes
  <2>2. InTables' /\ MutexIsTheirs' /\ DescriptorsOwned' /\ ObjectsOwned'
    BY <1>1, <1>2 DEF FileTypes, InTables, MutexIsTheirs, DescriptorsOwned, ObjectsOwned
  <2>3. FilesMet' /\ DirsMet' /\ FilesAreTheirs' /\ DirsAreTheirs' /\ ClosedFilesAreWritten'
    BY <1>1, <1>2 DEF FileTypes, FilesMet, DirsMet, FilesAreTheirs, DirsAreTheirs, ClosedFilesAreWritten
  <2>4. ValidOnDisk' /\ BeganOnDisk'
    BY <1>1, <1>2 DEF FileTypes, ValidOnDisk, BeganOnDisk
  <2> QED
    BY <2>1, <2>2, <2>3, <2>4
<1>3. CASE \E i \in First(file_used), j \in First(fatfs_used) :
             LET others == With(j, {"fclose", "fclosing"}) IN
             /\ fsapi_mutex' = u
             /\ fd' = [fd EXCEPT ![u] = i] /\ object' = [object EXCEPT ![u] = j]
             /\ Goes(u, "fopen")
             /\ met' = IF others = {} THEN met ELSE met \cup others \cup {u}
             /\ UNCHANGED <<cut, crossed>>
  <2>1. PICK i \in First(file_used), j \in First(fatfs_used) :
             LET others == With(j, {"fclose", "fclosing"}) IN
             /\ fsapi_mutex' = u
             /\ fd' = [fd EXCEPT ![u] = i] /\ object' = [object EXCEPT ![u] = j]
             /\ Goes(u, "fopen")
             /\ met' = IF others = {} THEN met ELSE met \cup others \cup {u}
             /\ UNCHANGED <<cut, crossed>>
    BY <1>3
  <2>2. i \in Fds /\ ~ file_used[i] /\ j \in Objects /\ ~ fatfs_used[j]
    BY DEF First, FileTypes
  <2>3. met \subseteq met'
    BY <2>1
  <2>4. \A v \in Users : at[v] \in {"fclose", "fclosing"} /\ object[v] = j => v \in met' /\ u \in met'
    BY <2>1 DEF With
  <2>5. \A v \in Users : at[v] \notin Opens
    BY <1>1 DEF MutexIsTheirs
  <2>6. \A v \in Users : at[v] \in Opens \cup Has /\ object[v] = j => at[v] \in {"fclose", "fclosing"}
    BY <2>2, <2>5 DEF ObjectsOwned
  <2>7. /\ at' = [at EXCEPT ![u] = "fopen"]
        /\ fd' = [fd EXCEPT ![u] = i] /\ object' = [object EXCEPT ![u] = j]
        /\ fsapi_mutex' = u /\ UNCHANGED <<cut, crossed>>
    BY <2>1
  <2>8. FileTypes'
    BY <1>1, <2>2, <2>7 DEF FileTypes, Fds, Objects
  <2>9. InTables' /\ MutexIsTheirs'
    BY <1>1, <2>2, <2>7 DEF FileTypes, InTables, MutexIsTheirs
  <2>10. DescriptorsOwned' /\ ObjectsOwned'
    BY <1>1, <2>2, <2>7 DEF FileTypes, DescriptorsOwned, ObjectsOwned
  <2>11. FilesMet'
    BY <1>1, <2>3, <2>4, <2>6, <2>7 DEF FileTypes, FilesMet
  <2>12. DirsMet' /\ FilesAreTheirs' /\ DirsAreTheirs' /\ ClosedFilesAreWritten'
    BY <1>1, <2>3, <2>7 DEF FileTypes, DirsMet, FilesAreTheirs, DirsAreTheirs, ClosedFilesAreWritten
  <2>13. ValidOnDisk' /\ BeganOnDisk'
    BY <1>1, <2>7 DEF FileTypes, ValidOnDisk, BeganOnDisk
  <2> QED
    BY <2>8, <2>9, <2>10, <2>11, <2>12, <2>13
<1> QED
  BY <1>2, <1>3 DEF LooksForDescriptor

\* ff_req_grant(), with or without the mutex.
LEMMA GrantedKeepsFiles ==
    ASSUME FileTableAssumption, FileTableInd, NEW u \in Users, Granted(u)
    PROVE  FileTableInd'
<1> USE FileTableAssumption DEF FileTableInd, Granted, AfterLock,
         fileVars, dirVars, volumeVars, storageVars, Goes, Opens, Opendirs, Has
<1>1. FileTypes'
  BY DEF FileTypes
<1>2. InTables' /\ MutexIsTheirs' /\ DescriptorsOwned' /\ ObjectsOwned' /\ FilesMet'
  BY DEF InTables, MutexIsTheirs, DescriptorsOwned, ObjectsOwned, FilesMet
<1>3. DirsMet' /\ FilesAreTheirs' /\ DirsAreTheirs' /\ ClosedFilesAreWritten'
  BY DEF DirsMet, FilesAreTheirs, DirsAreTheirs, ClosedFilesAreWritten
<1>4. ValidOnDisk'
  BY DEF FileTypes, InTables, ValidOnDisk
<1>5. BeganOnDisk'
  BY DEF FileTypes, InTables, ValidOnDisk, BeganOnDisk
<1> QED
  BY <1>1, <1>2, <1>3, <1>4, <1>5

\* A task that opens a file has mounted the disk again: no other object is valid.
LEMMA MountsToOpenKeepsFiles ==
    ASSUME FileTableAssumption, FileTableInd, NEW u \in Users, MountsToOpen(u)
    PROVE  FileTableInd'
<1> USE FileTableAssumption DEF FileTableInd, MountsToOpen, Invalidates, Owners,
         fileVars, dirVars, volumeVars, storageVars, Goes, Opens, Opendirs, Has
<1>1. FileTypes'
  BY DEF FileTypes
<1>2. InTables' /\ MutexIsTheirs' /\ DescriptorsOwned' /\ ObjectsOwned' /\ FilesMet' /\ DirsMet'
  BY DEF InTables, MutexIsTheirs, DescriptorsOwned, ObjectsOwned, FilesMet, DirsMet
<1>3. FilesAreTheirs' /\ DirsAreTheirs' /\ ClosedFilesAreWritten'
  BY DEF InTables, FilesAreTheirs, DirsAreTheirs, ClosedFilesAreWritten
<1>4. ValidOnDisk' /\ BeganOnDisk'
  BY DEF FileTypes, ValidOnDisk, BeganOnDisk
<1> QED
  BY <1>1, <1>2, <1>3, <1>4

\* f_open() succeeds: only the task that has fsapi_mutex is at a free descriptor, so
\* nobody's descriptor or object is taken over unseen.
LEMMA FOpensKeepsFiles ==
    ASSUME FileTableAssumption, FileTableInd, NEW u \in Users, FOpens(u)
    PROVE  FileTableInd'
<1> USE FileTableAssumption DEF FileTableInd, FOpens, Owner, Cuts,
         fileVars, dirVars, volumeVars, storageVars, Goes, Opens, Opendirs, Has
<1>1. FileTypes'
  BY DEF FileTypes
<1>2. DescriptorsOwned'
  BY DEF DescriptorsOwned, FileTypes, InTables, MutexIsTheirs
<1>3. ObjectsOwned'
  BY DEF ObjectsOwned, FileTypes, InTables, MutexIsTheirs
<1>4. FilesAreTheirs'
  BY DEF FilesAreTheirs, FileTypes, InTables, FilesMet
<1>5. InTables' /\ MutexIsTheirs' /\ FilesMet' /\ DirsMet'
  BY DEF FileTypes, InTables, MutexIsTheirs, FilesMet, DirsMet
<1>6. DirsAreTheirs' /\ ClosedFilesAreWritten'
  BY DEF FileTypes, DirsAreTheirs, ClosedFilesAreWritten
<1>7. ValidOnDisk'
  BY DEF FileTypes, InTables, ValidOnDisk
<1>8. BeganOnDisk'
  BY DEF FileTypes, InTables, ValidOnDisk, BeganOnDisk
<1> QED
  BY <1>1, <1>2, <1>3, <1>4, <1>5, <1>6, <1>7, <1>8

\* f_open() fails: nothing was marked yet, so nothing leaks.
LEMMA FOpenFailsKeepsFiles ==
    ASSUME FileTableAssumption, FileTableInd, NEW u \in Users, FOpenFails(u)
    PROVE  FileTableInd'
<1> USE FileTableAssumption DEF FileTableInd, FOpenFails, EndsCall,
         fileVars, dirVars, volumeVars, storageVars, Goes, Opens, Opendirs, Has
<1>1. FileTypes'
  BY DEF FileTypes, None
<1>2. InTables' /\ MutexIsTheirs' /\ DescriptorsOwned' /\ ObjectsOwned' /\ FilesMet'
  BY DEF FileTypes, InTables, MutexIsTheirs, DescriptorsOwned, ObjectsOwned, FilesMet
<1>3. DirsMet' /\ FilesAreTheirs' /\ DirsAreTheirs' /\ ClosedFilesAreWritten'
  BY DEF FileTypes, DirsMet, FilesAreTheirs, DirsAreTheirs, ClosedFilesAreWritten
<1>4. ValidOnDisk'
  BY DEF FileTypes, InTables, ValidOnDisk
<1>5. BeganOnDisk'
  BY DEF FileTypes, InTables, ValidOnDisk, BeganOnDisk
<1> QED
  BY <1>1, <1>2, <1>3, <1>4, <1>5

\* Writing leaves the tables alone.
LEMMA WriteFileKeepsFiles ==
    ASSUME FileTableAssumption, FileTableInd, NEW u \in Users, WriteFile(u)
    PROVE  FileTableInd'
<1> USE FileTableAssumption DEF FileTableInd, WriteFile,
         fileVars, dirVars, volumeVars, storageVars, Goes, Opens, Opendirs, Has
<1>1. FileTypes'
  BY DEF FileTypes
<1>2. /\ InTables' /\ MutexIsTheirs' /\ DescriptorsOwned' /\ ObjectsOwned' /\ FilesMet' /\ DirsMet'
      /\ FilesAreTheirs' /\ DirsAreTheirs' /\ ClosedFilesAreWritten'
  BY DEF InTables, MutexIsTheirs, DescriptorsOwned, ObjectsOwned, FilesMet, DirsMet,
         FilesAreTheirs, DirsAreTheirs, ClosedFilesAreWritten
<1>3. ValidOnDisk'
  BY DEF FileTypes, InTables, ValidOnDisk
<1>4. BeganOnDisk'
  BY DEF FileTypes, InTables, ValidOnDisk, BeganOnDisk
<1> QED
  BY <1>1, <1>2, <1>3, <1>4

\* close_fatfs() gives the object back before f_close().
LEMMA CloseFileKeepsFiles ==
    ASSUME FileTableAssumption, FileTableInd, NEW u \in Users, CloseFile(u)
    PROVE  FileTableInd'
<1> USE FileTableAssumption DEF FileTableInd, CloseFile,
         fileVars, dirVars, volumeVars, storageVars, Goes, Opens, Opendirs, Has
<1>1. FileTypes'
  BY DEF FileTypes
<1>2. InTables' /\ MutexIsTheirs' /\ DescriptorsOwned' /\ ObjectsOwned' /\ FilesMet'
  BY DEF FileTypes, InTables, MutexIsTheirs, DescriptorsOwned, ObjectsOwned, FilesMet
<1>3. DirsMet' /\ FilesAreTheirs' /\ DirsAreTheirs' /\ ClosedFilesAreWritten'
  BY DEF FileTypes, DirsMet, FilesAreTheirs, DirsAreTheirs, ClosedFilesAreWritten
<1>4. ValidOnDisk'
  BY DEF FileTypes, InTables, ValidOnDisk
<1>5. BeganOnDisk'
  BY DEF FileTypes, InTables, ValidOnDisk, BeganOnDisk
<1> QED
  BY <1>1, <1>2, <1>3, <1>4, <1>5

\* f_close() of an object: another task's only if the two have met at it.
LEMMA FClosesKeepsFiles ==
    ASSUME FileTableAssumption, FileTableInd, NEW u \in Users, FCloses(u)
    PROVE  FileTableInd'
<1> USE FileTableAssumption DEF FileTableInd, FCloses,
         fileVars, dirVars, volumeVars, storageVars, Goes, Opens, Opendirs, Has
<1>1. FileTypes'
  BY DEF FileTypes
<1>2. FilesAreTheirs'
  BY DEF FilesAreTheirs, FileTypes, FilesMet
<1>3. ClosedFilesAreWritten'
  BY DEF ClosedFilesAreWritten, FilesAreTheirs
<1>4. InTables' /\ MutexIsTheirs' /\ DescriptorsOwned' /\ ObjectsOwned'
  BY DEF FileTypes, InTables, MutexIsTheirs, DescriptorsOwned, ObjectsOwned
<1>5. FilesMet' /\ DirsMet' /\ DirsAreTheirs'
  BY DEF FileTypes, FilesMet, DirsMet, DirsAreTheirs
<1>6. ValidOnDisk'
  BY DEF FileTypes, InTables, ValidOnDisk
<1>7. BeganOnDisk'
  BY DEF FileTypes, InTables, ValidOnDisk, BeganOnDisk
<1> QED
  BY <1>1, <1>2, <1>3, <1>4, <1>5, <1>6, <1>7

\* The descriptor was given back by f_close().
LEMMA FileClosedKeepsFiles ==
    ASSUME FileTableAssumption, FileTableInd, NEW u \in Users, FileClosed(u)
    PROVE  FileTableInd'
<1> USE FileTableAssumption DEF FileTableInd, FileClosed, EndsCall,
         fileVars, dirVars, volumeVars, storageVars, Goes, Opens, Opendirs, Has
<1>1. FileTypes'
  BY DEF FileTypes, None
<1>2. InTables' /\ MutexIsTheirs' /\ DescriptorsOwned' /\ ObjectsOwned' /\ FilesMet'
  BY DEF FileTypes, InTables, MutexIsTheirs, DescriptorsOwned, ObjectsOwned, FilesMet
<1>3. DirsMet' /\ FilesAreTheirs' /\ DirsAreTheirs' /\ ClosedFilesAreWritten'
  BY DEF FileTypes, DirsMet, FilesAreTheirs, DirsAreTheirs, ClosedFilesAreWritten
<1>4. ValidOnDisk'
  BY DEF FileTypes, InTables, ValidOnDisk
<1>5. BeganOnDisk'
  BY DEF FileTypes, InTables, ValidOnDisk, BeganOnDisk
<1> QED
  BY <1>1, <1>2, <1>3, <1>4, <1>5

\* opendir_file() takes a free entry, and meets whoever is opening it as well.
LEMMA OpendirFileKeepsFiles ==
    ASSUME FileTableAssumption, FileTableInd, NEW u \in Users, OpendirFile(u)
    PROVE  FileTableInd'
<1> USE FileTableAssumption DEF FileTableInd, OpendirFile,
         fileVars, dirVars, volumeVars, storageVars, Goes, Opens, Opendirs, Has
<1>1. FileTypes'
  BY DEF FileTypes, Dirs, First
<1>2. InTables'
  BY DEF InTables, FileTypes, First
<1>3. DirsMet'
  BY DEF DirsMet, FileTypes, With
<1>4. MutexIsTheirs' /\ DescriptorsOwned' /\ ObjectsOwned' /\ FilesMet'
  BY DEF MutexIsTheirs, DescriptorsOwned, ObjectsOwned, FilesMet
<1>5. FilesAreTheirs' /\ DirsAreTheirs' /\ ClosedFilesAreWritten'
  BY DEF FilesAreTheirs, DirsAreTheirs, ClosedFilesAreWritten
<1>6. ValidOnDisk'
  BY DEF FileTypes, InTables, ValidOnDisk
<1>7. BeganOnDisk'
  BY DEF FileTypes, InTables, ValidOnDisk, BeganOnDisk
<1> QED
  BY <1>1, <1>2, <1>3, <1>4, <1>5, <1>6, <1>7

\* f_opendir() succeeds.
LEMMA FOpendirsKeepsFiles ==
    ASSUME FileTableAssumption, FileTableInd, NEW u \in Users, FOpendirs(u)
    PROVE  FileTableInd'
<1> USE FileTableAssumption DEF FileTableInd, FOpendirs, Owner, Cuts,
         fileVars, dirVars, volumeVars, storageVars, Goes, Opens, Opendirs, Has
<1>1. FileTypes'
  BY DEF FileTypes
<1>2. DirsAreTheirs'
  BY DEF DirsAreTheirs, FileTypes, InTables, DirsMet
<1>3. InTables' /\ MutexIsTheirs' /\ DescriptorsOwned' /\ ObjectsOwned' /\ FilesMet'
  BY DEF InTables, MutexIsTheirs, DescriptorsOwned, ObjectsOwned, FilesMet
<1>4. DirsMet' /\ FilesAreTheirs' /\ ClosedFilesAreWritten'
  BY DEF DirsMet, FilesAreTheirs, ClosedFilesAreWritten
<1>5. ValidOnDisk'
  BY DEF FileTypes, InTables, ValidOnDisk
<1>6. BeganOnDisk'
  BY DEF FileTypes, InTables, ValidOnDisk, BeganOnDisk
<1> QED
  BY <1>1, <1>2, <1>3, <1>4, <1>5, <1>6

\* f_opendir() fails.
LEMMA FOpendirFailsKeepsFiles ==
    ASSUME FileTableAssumption, FileTableInd, NEW u \in Users, FOpendirFails(u)
    PROVE  FileTableInd'
<1> USE FileTableAssumption DEF FileTableInd, FOpendirFails, EndsCall,
         fileVars, dirVars, volumeVars, storageVars, Goes, Opens, Opendirs, Has
<1>1. FileTypes'
  BY DEF FileTypes, None
<1>2. InTables' /\ MutexIsTheirs' /\ DescriptorsOwned' /\ ObjectsOwned' /\ FilesMet'
  BY DEF FileTypes, InTables, MutexIsTheirs, DescriptorsOwned, ObjectsOwned, FilesMet
<1>3. DirsMet' /\ FilesAreTheirs' /\ DirsAreTheirs' /\ ClosedFilesAreWritten'
  BY DEF FileTypes, DirsMet, FilesAreTheirs, DirsAreTheirs, ClosedFilesAreWritten
<1>4. ValidOnDisk'
  BY DEF FileTypes, InTables, ValidOnDisk
<1>5. BeganOnDisk'
  BY DEF FileTypes, InTables, ValidOnDisk, BeganOnDisk
<1> QED
  BY <1>1, <1>2, <1>3, <1>4, <1>5

\* closedir_file(), of an entry that another task may have given back.
LEMMA ClosedirFileKeepsFiles ==
    ASSUME FileTableAssumption, FileTableInd, NEW u \in Users, ClosedirFile(u)
    PROVE  FileTableInd'
<1> USE FileTableAssumption DEF FileTableInd, ClosedirFile, EndsCall,
         fileVars, dirVars, volumeVars, storageVars, Goes, Opens, Opendirs, Has
<1>1. FileTypes'
  <2>1. CASE UNCHANGED dirVars
    BY <2>1 DEF FileTypes, None
  <2>2. CASE dir' = [dir EXCEPT ![object[u]] = NoUser]
             /\ dir_used' = [dir_used EXCEPT ![object[u]] = FALSE]
    BY <2>2 DEF FileTypes, InTables, None
  <2> QED
    BY <2>1, <2>2
<1>2. DirsAreTheirs'
  BY DEF DirsAreTheirs, FileTypes, InTables, DirsMet
<1>3. InTables' /\ MutexIsTheirs' /\ DescriptorsOwned' /\ ObjectsOwned' /\ FilesMet'
  BY DEF FileTypes, InTables, MutexIsTheirs, DescriptorsOwned, ObjectsOwned, FilesMet
<1>4. DirsMet' /\ FilesAreTheirs' /\ ClosedFilesAreWritten'
  BY DEF FileTypes, DirsMet, FilesAreTheirs, ClosedFilesAreWritten
<1>5. ValidOnDisk'
  BY DEF FileTypes, InTables, ValidOnDisk
<1>6. BeganOnDisk'
  BY DEF FileTypes, InTables, ValidOnDisk, BeganOnDisk
<1> QED
  BY <1>1, <1>2, <1>3, <1>4, <1>5, <1>6

\* The disk gets its file system: nobody is without one.
LEMMA MountStorageKeepsFiles ==
    ASSUME FileTableAssumption, FileTableInd, MountStorage
    PROVE  FileTableInd'
<1> USE FileTableAssumption DEF FileTableInd, MountStorage, ShellLeaves,
         fileVars, dirVars, volumeVars, storageVars, Goes, Opens, Opendirs, Has
<1>1. FileTypes'
  BY DEF FileTypes
<1>2. InTables' /\ MutexIsTheirs' /\ DescriptorsOwned' /\ ObjectsOwned' /\ FilesMet' /\ DirsMet'
  BY DEF InTables, MutexIsTheirs, DescriptorsOwned, ObjectsOwned, FilesMet, DirsMet
<1>3. FilesAreTheirs' /\ DirsAreTheirs' /\ ClosedFilesAreWritten'
  BY DEF InTables, FilesAreTheirs, DirsAreTheirs, ClosedFilesAreWritten
<1>4. ValidOnDisk' /\ BeganOnDisk'
  BY DEF FileTypes, ValidOnDisk, BeganOnDisk
<1> QED
  BY <1>1, <1>2, <1>3, <1>4

\* The disk is registered: no object is valid.
LEMMA OpensDeviceKeepsFiles ==
    ASSUME FileTableAssumption, FileTableInd, OpensDevice
    PROVE  FileTableInd'
<1> USE FileTableAssumption DEF FileTableInd, OpensDevice, ShellLeaves, Invalidates, Owners,
         fileVars, dirVars, volumeVars, storageVars, Goes, Opens, Opendirs, Has
<1>1. FileTypes'
  BY DEF FileTypes
<1>2. InTables' /\ MutexIsTheirs' /\ DescriptorsOwned' /\ ObjectsOwned' /\ FilesMet' /\ DirsMet'
  BY DEF InTables, MutexIsTheirs, DescriptorsOwned, ObjectsOwned, FilesMet, DirsMet
<1>3. ClosedFilesAreWritten'
  BY DEF ClosedFilesAreWritten
<1>4. ValidOnDisk' /\ BeganOnDisk'
  BY DEF FileTypes, ValidOnDisk, BeganOnDisk
<1>5. FilesAreTheirs' /\ DirsAreTheirs'
  <2>1. CASE UNCHANGED <<fat, dir, cut>>
    BY <2>1 DEF FilesAreTheirs, DirsAreTheirs
  <2>2. CASE Invalidates
    BY <2>2 DEF InTables, FilesAreTheirs, DirsAreTheirs
  <2> QED
    BY <2>1, <2>2
<1> QED
  BY <1>1, <1>2, <1>3, <1>4, <1>5

\* Whether the disk is mounted already.
LEMMA LooksToMountKeepsFiles ==
    ASSUME FileTableAssumption, FileTableInd, LooksToMount
    PROVE  FileTableInd'
<1> USE FileTableAssumption DEF FileTableInd, LooksToMount, ShellLeaves,
         fileVars, dirVars, volumeVars, storageVars, Goes, Opens, Opendirs, Has
<1>1. FileTypes'
  BY DEF FileTypes
<1>2. InTables' /\ MutexIsTheirs' /\ DescriptorsOwned' /\ ObjectsOwned' /\ FilesMet' /\ DirsMet'
  BY DEF InTables, MutexIsTheirs, DescriptorsOwned, ObjectsOwned, FilesMet, DirsMet
<1>3. FilesAreTheirs' /\ DirsAreTheirs' /\ ClosedFilesAreWritten'
  BY DEF InTables, FilesAreTheirs, DirsAreTheirs, ClosedFilesAreWritten
<1>4. ValidOnDisk' /\ BeganOnDisk'
  BY DEF FileTypes, ValidOnDisk, BeganOnDisk
<1> QED
  BY <1>1, <1>2, <1>3, <1>4

\* f_mount() has read the disk, or the disk loses its file system again.
LEMMA FMountsKeepsFiles ==
    ASSUME FileTableAssumption, FileTableInd, FMounts
    PROVE  FileTableInd'
<1> USE FileTableAssumption DEF FileTableInd, FMounts, ShellLeaves, Invalidates, Owners, ForgetsDisk,
         fileVars, dirVars, volumeVars, storageVars, Goes, Opens, Opendirs, Has
<1>1. FileTypes'
  <2>1. CASE Invalidates /\ UNCHANGED storage
    BY <2>1 DEF FileTypes
  <2>2. CASE ForgetsDisk /\ UNCHANGED <<fat, dir>>
    BY <2>2 DEF FileTypes
  <2> QED
    BY <2>1, <2>2
<1>2. InTables' /\ MutexIsTheirs' /\ DescriptorsOwned' /\ ObjectsOwned' /\ FilesMet' /\ DirsMet'
  BY DEF InTables, MutexIsTheirs, DescriptorsOwned, ObjectsOwned, FilesMet, DirsMet
<1>3. FilesAreTheirs' /\ DirsAreTheirs' /\ ClosedFilesAreWritten'
  BY DEF InTables, FilesAreTheirs, DirsAreTheirs, ClosedFilesAreWritten
<1>4. ValidOnDisk' /\ BeganOnDisk'
  BY DEF FileTypes, ValidOnDisk, BeganOnDisk
<1> QED
  BY <1>1, <1>2, <1>3, <1>4

\* unmount_storage() cuts off every task with a file or directory.
LEMMA UnmountStorageKeepsFiles ==
    ASSUME FileTableAssumption, FileTableInd, UnmountStorage
    PROVE  FileTableInd'
<1> USE FileTableAssumption DEF FileTableInd, UnmountStorage, ShellLeaves, Invalidates, Owners,
         fileVars, dirVars, volumeVars, storageVars, Goes, Opens, Opendirs, Has
<1>1. FileTypes'
  BY DEF FileTypes
<1>2. InTables' /\ MutexIsTheirs' /\ DescriptorsOwned' /\ ObjectsOwned' /\ FilesMet' /\ DirsMet'
  BY DEF InTables, MutexIsTheirs, DescriptorsOwned, ObjectsOwned, FilesMet, DirsMet
<1>3. FilesAreTheirs' /\ DirsAreTheirs' /\ ClosedFilesAreWritten'
  BY DEF InTables, FilesAreTheirs, DirsAreTheirs, ClosedFilesAreWritten
<1>4. ValidOnDisk' /\ BeganOnDisk'
  BY DEF FileTypes, ValidOnDisk, BeganOnDisk
<1> QED
  BY <1>1, <1>2, <1>3, <1>4

\* The disk loses its file system, whoever is opening files on it.
LEMMA UnmountedKeepsFiles ==
    ASSUME FileTableAssumption, FileTableInd, Unmounted
    PROVE  FileTableInd'
<1> USE FileTableAssumption DEF FileTableInd, Unmounted, ShellLeaves, Owners, ForgetsDisk,
         fileVars, dirVars, volumeVars, storageVars, Goes, Opens, Opendirs, Has
<1>1. FileTypes'
  BY DEF FileTypes
<1>2. InTables' /\ MutexIsTheirs' /\ DescriptorsOwned' /\ ObjectsOwned' /\ FilesMet' /\ DirsMet'
  BY DEF InTables, MutexIsTheirs, DescriptorsOwned, ObjectsOwned, FilesMet, DirsMet
<1>3. FilesAreTheirs' /\ DirsAreTheirs' /\ ClosedFilesAreWritten'
  BY DEF InTables, FilesAreTheirs, DirsAreTheirs, ClosedFilesAreWritten
<1>4. ValidOnDisk' /\ BeganOnDisk'
  BY DEF FileTypes, ValidOnDisk, BeganOnDisk
<1> QED
  BY <1>1, <1>2, <1>3, <1>4

\* Without files nothing is in use.
LEMMA FilesBegin ==
    ASSUME FileTableAssumption, FileTableInit
    PROVE  FileTableInd
<1> USE FileTableAssumption DEF FileTableInit, Opens, Opendirs, Has
<1>1. FileTypes
  BY DEF FileTypes, None
<1>2. InTables /\ MutexIsTheirs /\ DescriptorsOwned /\ ObjectsOwned
  BY DEF InTables, MutexIsTheirs, DescriptorsOwned, ObjectsOwned
<1>3. /\ FilesMet /\ DirsMet /\ FilesAreTheirs /\ DirsAreTheirs /\ ClosedFilesAreWritten
      /\ ValidOnDisk /\ BeganOnDisk
  BY DEF FilesMet, DirsMet, FilesAreTheirs, DirsAreTheirs, ClosedFilesAreWritten, ValidOnDisk, BeganOnDisk
<1> QED
  BY <1>1, <1>2, <1>3 DEF FileTableInd

\* A set of at most one element.
LEMMA OneOrNone ==
    ASSUME NEW S, NEW used \in BOOLEAN, \A u, v \in S : u = v, used <=> S # {}
    PROVE  Cardinality(S) = IF used THEN 1 ELSE 0
<1>1. CASE used
  <2>1. PICK u : u \in S
    BY <1>1
  <2>2. S = {u}
    BY <2>1
  <2> QED
    BY <1>1, <2>2, FS_Singleton
<1>2. CASE ~ used
  <2>1. S = {}
    BY <1>2
  <2> QED
    BY <1>2, <2>1, FS_EmptySet
<1> QED
  BY <1>1, <1>2

\* The inductive invariant names the tasks that NothingLeaks counts.
LEMMA FilesIndImpliesInv == FileTableInd => FileTableInv
<1> SUFFICES ASSUME FileTableInd PROVE FileTableInv
  OBVIOUS
<1> USE DEF FileTableInd
<1>1. FileTableTypeOK
  BY DEF FileTypes, FileTableTypeOK
<1>2. NothingLeaks
  <2>1. ASSUME NEW i \in Fds
        PROVE  LET have == {u \in Users : fd[u] = i /\ at[u] \in {"open", "fclose", "fclosing"}} IN
               Cardinality(have) = IF file_used[i] THEN 1 ELSE 0
    <3> DEFINE have == {u \in Users : fd[u] = i /\ at[u] \in {"open", "fclose", "fclosing"}}
    <3>1. \A u, v \in have : u = v
      BY DEF DescriptorsOwned, Has
    <3>2. file_used[i] <=> have # {}
      BY DEF DescriptorsOwned, Has
    <3>3. file_used[i] \in BOOLEAN
      BY DEF FileTypes
    <3> HIDE DEF have
    <3>4. Cardinality(have) = IF file_used[i] THEN 1 ELSE 0
      BY <3>1, <3>2, <3>3, OneOrNone
    <3> QED
      BY <3>4 DEF have
  <2>2. ASSUME NEW i \in Objects
        PROVE  Cardinality(With(i, {"open"})) = IF fatfs_used[i] THEN 1 ELSE 0
    <3>1. \A u, v \in With(i, {"open"}) : u = v
      BY DEF ObjectsOwned, With
    <3>2. fatfs_used[i] <=> With(i, {"open"}) # {}
      BY DEF ObjectsOwned, With
    <3>3. fatfs_used[i] \in BOOLEAN
      BY DEF FileTypes
    <3> QED
      BY <3>1, <3>2, <3>3, OneOrNone
  <2>3. \A u \in Users : fsapi_mutex = u <=> at[u] \in {"fopen", "fopening"}
    BY DEF MutexIsTheirs, Opens
  <2> QED
    BY <2>1, <2>2, <2>3 DEF NothingLeaks
<1>3. ObjectsAreTheirs
  BY DEF ObjectsAreTheirs, FilesAreTheirs, DirsAreTheirs, Has
<1>4. DiskIsThere
  BY FileTableAssumption DEF DiskIsThere, Owners, ValidOnDisk, BeganOnDisk
<1> QED
  BY <1>1, <1>2, <1>3, <1>4 DEF FileTableInv

\* Every step of tasks, shell and disk.
LEMMA FilesKept ==
    ASSUME FileTableAssumption, FileTableInd, [FileTableNext]_fileTableVars
    PROVE  FileTableInd'
<1>1. ASSUME NEW u \in Users,
             \/ OpenFile(u) \/ LooksForDescriptor(u) \/ Granted(u)
             \/ MountsToOpen(u) \/ FOpens(u) \/ FOpenFails(u)
             \/ WriteFile(u) \/ CloseFile(u) \/ FCloses(u) \/ FileClosed(u)
             \/ OpendirFile(u) \/ FOpendirs(u) \/ FOpendirFails(u) \/ ClosedirFile(u)
      PROVE  FileTableInd'
  BY <1>1, OpenFileKeepsFiles, LooksForDescriptorKeepsFiles, GrantedKeepsFiles,
     MountsToOpenKeepsFiles, FOpensKeepsFiles,
     FOpenFailsKeepsFiles, WriteFileKeepsFiles, CloseFileKeepsFiles, FClosesKeepsFiles,
     FileClosedKeepsFiles, OpendirFileKeepsFiles, FOpendirsKeepsFiles, FOpendirFailsKeepsFiles, ClosedirFileKeepsFiles
<1>2. CASE UNCHANGED fileTableVars
  <2> USE <1>2 DEF fileTableVars
  <2>1. FileTypes' /\ InTables' /\ MutexIsTheirs' /\ DescriptorsOwned' /\ ObjectsOwned'
    BY DEF FileTableInd, FileTypes, InTables, MutexIsTheirs, DescriptorsOwned, ObjectsOwned
  <2>2. FilesMet' /\ DirsMet' /\ FilesAreTheirs' /\ DirsAreTheirs' /\ ClosedFilesAreWritten'
    BY DEF FileTableInd, FilesMet, DirsMet, FilesAreTheirs, DirsAreTheirs, ClosedFilesAreWritten
  <2>3. ValidOnDisk' /\ BeganOnDisk'
    BY DEF FileTableInd, ValidOnDisk, BeganOnDisk
  <2> QED
    BY <2>1, <2>2, <2>3 DEF FileTableInd
<1> QED
  BY <1>1, <1>2, MountStorageKeepsFiles, OpensDeviceKeepsFiles, LooksToMountKeepsFiles, FMountsKeepsFiles,
     UnmountStorageKeepsFiles, UnmountedKeepsFiles DEF FileTableNext

\* fs/file.c above fatfs.c, for every number of tasks, descriptors and objects: no
\* descriptor or object leaks or is shared, whatever fails, except by tasks that met
\* at an object which was given back before it was closed, and whatever was written
\* is on the disk when the file is closed, unless the disk was unmounted.  On a disk
\* whose file system mount_storage() or unmount_storage() has taken away, only a task
\* that was opening a file at that moment has one, on a disk FatFs has mounted again.
THEOREM FileTableInvariant == FileTableSpec => []FileTableInv
<1>1. FileTableInit => FileTableInd
  BY FileTableAssumption, FilesBegin
<1>2. FileTableInd /\ [FileTableNext]_fileTableVars => FileTableInd'
  BY FileTableAssumption, FilesKept
<1> QED
  BY <1>1, <1>2, FilesIndImpliesInv, PTL DEF FileTableSpec

-----------------------------------------------------------------------------
(* The small file system. *)

\* A sector that is not used is blank: nothing is left in it to be programmed
\* over.
UnusedIsBlank == \A s \in Sectors : flash[s].stat = "unused" => flash[s] = BlankImage

\* A file that is known to hold something is found in one sector only, and a
\* file that is known to be absent in none, not even as one to be created.
KeptFits(n) ==
    /\ kept[n] = Absent => Hits(n) = {}
    /\ kept[n] \in Data => \E s \in Sectors :
          Hits(n) = {s} /\ flash[s].stat = "saved" /\ flash[s].data = kept[n]

\* The buffer is that of the file that is open.
BufferIsOf(h, n) ==
    /\ gsffs.buf.name = n
    /\ wrote[h] # Unknown => gsffs.buf.data = wrote[h]

\* A file is open, and no call is under way.
OpenFits(h, n) ==
    /\ BufferIsOf(h, n)
    /\ gsffs.sector \in Hits(n)
    /\ gsffs.new =>
          /\ kept[n] = Unknown
          /\ flash[gsffs.sector].stat = "create"
          /\ wrote[h] # Unknown =>
                Hits(n) = {gsffs.sector} /\ flash[gsffs.sector].data = {}

\* A file is replaced: its old sector is deleted and the new one is blank.
ReplaceFits(h, n) ==
    /\ BufferIsOf(h, n)
    /\ kept[n] \in {Absent, Unknown}
    /\ \/ pending = [at |-> "search", by |-> h, name |-> n]
       \/ /\ pending = [at |-> "save", by |-> h, name |-> n]
          /\ gsffs.sector # NoSector => flash[gsffs.sector] = BlankImage

\* A file is created: its sector is blank.
CreateFits(h) ==
    \E n \in FileNames, s \in Sectors :
        /\ pending = [at |-> "create", by |-> h, name |-> n, sector |-> s]
        /\ gsffs.new /\ gsffs.buf.name = n /\ gsffs.buf.stat = "create"
        /\ flash[s] = BlankImage

CallFits(h) ==
    /\ handle[h] = NoName => pending = NoCall \/ CreateFits(h)
    /\ handle[h] # NoName =>
          \/ pending = NoCall /\ OpenFits(h, handle[h])
          \/ ReplaceFits(h, handle[h])

GsffsInd ==
    /\ GsffsTypeOK
    /\ UnusedIsBlank
    /\ \A n \in FileNames : KeptFits(n)
    /\ \A h \in Handles : CallFits(h)

-----------------------------------------------------------------------------
(* The sectors. *)

\* The sectors are numbers, and each block begins with one of them.
LEMMA SectorNumbers ==
    /\ Sectors \subseteq Nat
    /\ NoSector \notin Sectors
    /\ LastSector \in Sectors
    /\ \A b \in FirstBlock .. FirstBlock + BlockCount - 1 :
          b \in Nat /\ b * BlockSize \in Sectors /\ b * BlockSize \in Block(b)
<1>0. /\ BlockSize \in Nat \ {0} /\ FirstBlock \in Nat /\ BlockCount \in Nat \ {0}
  BY GsffsAssumption
<1>1. FirstBlock * BlockSize \in Nat
  BY <1>0
<1>2. (FirstBlock + BlockCount) * BlockSize \in Nat
  BY <1>0
<1>3. ASSUME NEW a \in Nat, NEW b \in Nat, a <= b
      PROVE  a * BlockSize <= b * BlockSize
  BY <1>0, <1>3
<1>4. ASSUME NEW b \in Nat
      PROVE  /\ b * BlockSize \in Nat
             /\ (b + 1) * BlockSize = b * BlockSize + BlockSize
             /\ (b * BlockSize) \div BlockSize = b
  BY <1>0
<1>5. Sectors \subseteq Nat /\ NoSector \notin Sectors
  BY <1>1, <1>2 DEF Sectors, NoSector
<1>6. ASSUME NEW b \in FirstBlock .. FirstBlock + BlockCount - 1
      PROVE  b \in Nat /\ b * BlockSize \in Sectors /\ b * BlockSize \in Block(b)
  <2>1. b \in Nat /\ FirstBlock <= b /\ b + 1 <= FirstBlock + BlockCount
    BY <1>0
  <2>2. /\ FirstBlock * BlockSize <= b * BlockSize
        /\ (b + 1) * BlockSize <= (FirstBlock + BlockCount) * BlockSize
    BY <1>0, <1>3, <2>1
  <2>3. b * BlockSize \in Sectors
    BY <1>0, <1>1, <1>2, <1>4, <2>1, <2>2 DEF Sectors
  <2> QED
    BY <1>4, <2>1, <2>3 DEF Block
<1>7. LastSector \in Sectors
  <2>1. FirstBlock * BlockSize <= (FirstBlock + BlockCount) * BlockSize - BlockSize
    <3>1. /\ FirstBlock + BlockCount - 1 \in Nat
          /\ FirstBlock <= FirstBlock + BlockCount - 1
      BY <1>0
    <3>2. FirstBlock * BlockSize <= (FirstBlock + BlockCount - 1) * BlockSize
      BY <1>0, <1>3, <3>1
    <3>3. (FirstBlock + BlockCount - 1) * BlockSize + BlockSize
             = (FirstBlock + BlockCount) * BlockSize
      BY <1>0, <1>4, <3>1
    <3>4. (FirstBlock + BlockCount - 1) * BlockSize \in Nat
      BY <1>4, <3>1
    <3> QED
      BY <1>0, <1>1, <1>2, <3>2, <3>3, <3>4
  <2> QED
    BY <1>0, <1>1, <1>2, <2>1 DEF Sectors, LastSector
<1> QED
  BY <1>5, <1>6, <1>7

\* What programming a sector makes of it.
LEMMA ProgrammedImage ==
    ASSUME NEW old \in Images, NEW new \in Images
    PROVE  LET i == Programmed(old, new)
           IN  /\ i \in Images
               /\ new.stat = "deleted" => i.stat = "deleted"
               /\ new.stat # "unused" => i.stat # "unused"
               /\ old = BlankImage /\ new.stat \in {"create", "saved"} =>
                     i.stat = new.stat /\ i.name = new.name /\ i.data = new.data
               /\ old.stat = "create" /\ new.stat = "saved" /\ old.name = new.name =>
                     i.stat = "saved" /\ i.name = new.name /\ i.data = old.data \cup new.data
<1> DEFINE i == Programmed(old, new)
<1>1. /\ old.stat \in {"unused", "create", "saved", "deleted"}
      /\ new.stat \in {"unused", "create", "saved", "deleted"}
      /\ old.name \in FileNames \cup {Erased, Garbled}
      /\ new.name \in FileNames \cup {Erased, Garbled}
      /\ old.data \in Data /\ new.data \in Data
      /\ old.crc \in Data \cup {Erased, Garbled}
      /\ new.crc \in Data \cup {Erased, Garbled}
  BY DEF Images
<1>2. /\ Merged(old.name, new.name) \in FileNames \cup {Erased, Garbled}
      /\ Merged(old.crc, new.crc) \in Data \cup {Erased, Garbled}
      /\ old.data \cup new.data \in Data
      /\ old.name = Erased => Merged(old.name, new.name) = new.name
      /\ old.name = new.name => Merged(old.name, new.name) = new.name
  BY <1>1 DEF Merged, Data
<1>3. /\ i.stat = IF Rank[new.stat] >= Rank[old.stat] THEN new.stat ELSE old.stat
      /\ i.name = IF "deleted" \in {old.stat, new.stat} THEN Erased
                  ELSE Merged(old.name, new.name)
      /\ i.data = old.data \cup new.data
      /\ i.crc = Merged(old.crc, new.crc)
      /\ i = [stat |-> i.stat, name |-> i.name, data |-> i.data, crc |-> i.crc]
  BY DEF Programmed
<1> HIDE DEF i
<1>4. i.stat \in {old.stat, new.stat}
  BY <1>3
<1>5. i \in Images
  <2>1. i.stat \in {"unused", "create", "saved", "deleted"}
    BY <1>1, <1>4
  <2>2. i.name \in FileNames \cup {Erased, Garbled}
    BY <1>2, <1>3
  <2> QED
    BY <1>2, <1>3, <2>1, <2>2 DEF Images
<1>6. new.stat = "deleted" => i.stat = "deleted"
  BY <1>1, <1>3 DEF Rank
<1>7. new.stat # "unused" => i.stat # "unused"
  BY <1>1, <1>3 DEF Rank
<1>8. old = BlankImage /\ new.stat \in {"create", "saved"} =>
         i.stat = new.stat /\ i.name = new.name /\ i.data = new.data
  BY <1>1, <1>2, <1>3 DEF Rank, BlankImage
<1>9. old.stat = "create" /\ new.stat = "saved" /\ old.name = new.name =>
         i.stat = "saved" /\ i.name = new.name /\ i.data = old.data \cup new.data
  BY <1>1, <1>2, <1>3 DEF Rank
<1> QED
  BY <1>5, <1>6, <1>7, <1>8, <1>9 DEF i

\* The image i is found when the file n is searched.
HoldsFile(i, n) == i.stat \in {"create", "saved"} /\ i.name = n

\* One sector is programmed: what is known of the other files stays true.
LEMMA OneSectorChanges ==
    ASSUME flash \in [Sectors -> Images], NEW s \in Sectors, NEW i \in Images,
           flash' = [flash EXCEPT ![s] = i], NEW n \in FileNames
    PROVE  /\ ~ HoldsFile(i, n) => Hits(n)' = Hits(n) \ {s}
           /\ HoldsFile(i, n) => Hits(n)' = Hits(n) \cup {s}
           /\ /\ KeptFits(n) /\ kept'[n] = kept[n]
              /\ ~ HoldsFile(flash[s], n) /\ ~ HoldsFile(i, n)
              => KeptFits(n)'
<1>1. \A r \in Sectors : flash'[r] = IF r = s THEN i ELSE flash[r]
  OBVIOUS
<1>2. ~ HoldsFile(i, n) => Hits(n)' = Hits(n) \ {s}
  BY <1>1 DEF Hits, HoldsFile
<1>3. HoldsFile(i, n) => Hits(n)' = Hits(n) \cup {s}
  BY <1>1 DEF Hits, HoldsFile
<1>4. ASSUME KeptFits(n), kept'[n] = kept[n],
             ~ HoldsFile(flash[s], n), ~ HoldsFile(i, n)
      PROVE  KeptFits(n)'
  <2>1. s \notin Hits(n) /\ Hits(n)' = Hits(n)
    BY <1>2, <1>4 DEF Hits, HoldsFile
  <2> QED
    BY <1>1, <1>4, <2>1 DEF KeptFits
<1> QED
  BY <1>2, <1>3, <1>4

\* The five model values are different: no four are as many as five.
LEMMA AbsentIsKnown == Absent # Unknown
<1> SUFFICES ASSUME Absent = Unknown PROVE FALSE
  OBVIOUS
<1>1. {NoName, Erased, Garbled, Absent, Unknown} = {NoName, Erased, Garbled} \cup {Absent}
  OBVIOUS
<1>2. {NoName, Erased, Garbled} = {NoName, Erased} \cup {Garbled}
  OBVIOUS
<1>3. {NoName, Erased} = {NoName} \cup {Erased}
  OBVIOUS
<1>4. IsFiniteSet({NoName}) /\ Cardinality({NoName}) = 1
  BY FS_Singleton
<1>5. IsFiniteSet({NoName, Erased}) /\ Cardinality({NoName, Erased}) <= 2
  BY <1>3, <1>4, FS_AddElement
<1>6. /\ IsFiniteSet({NoName, Erased, Garbled})
      /\ Cardinality({NoName, Erased, Garbled}) \in Nat
      /\ Cardinality({NoName, Erased, Garbled}) <= 3
  BY <1>2, <1>5, FS_AddElement, FS_CardinalityType
<1>7. Cardinality({NoName, Erased, Garbled} \cup {Absent}) <= 4
  BY <1>6, FS_AddElement
<1> QED
  BY <1>1, <1>7, GsffsAssumption

\* What the searches return.
LEMMA SearchesFind ==
    ASSUME GsffsTypeOK, NEW n \in FileNames
    PROVE  /\ Hits(n) # {} => Min(Hits(n)) \in Hits(n)
           /\ Found(n) => /\ Min(Hits(n)) \in Hits(n)
                          /\ flash[Min(Hits(n))].stat = "saved"
                          /\ flash[Min(Hits(n))].name = n
           /\ LastRead(n) \in Sectors
           /\ flash[LastRead(n)] \in Images
<1>1. Hits(n) \subseteq Sectors /\ Hits(n) \subseteq Nat
  BY SectorNumbers DEF Hits
<1>2. Hits(n) # {} => Min(Hits(n)) \in Hits(n)
  BY <1>1, MinOfNaturals
<1>3. LastRead(n) \in Sectors
  BY <1>1, <1>2, SectorNumbers DEF LastRead
<1> QED
  BY <1>2, <1>3 DEF Found, Hits, GsffsTypeOK

\* The sector that is found for a file is blank, and what is erased for it held
\* no file.
LEMMA BlankIsBlank ==
    ASSUME GsffsTypeOK, UnusedIsBlank, flash' = Blank.flash
    PROVE  /\ Blank.sector \in Sectors \cup {NoSector}
           /\ Blank.sector # NoSector => flash'[Blank.sector] = BlankImage
           /\ flash' \in [Sectors -> Images]
           /\ UnusedIsBlank'
           /\ \A n \in FileNames :
                 /\ Hits(n)' = Hits(n)
                 /\ KeptFits(n) /\ kept'[n] = kept[n] => KeptFits(n)'
           /\ \A s \in Sectors :
                 flash[s].stat \in {"create", "saved"} => flash'[s] = flash[s]
<1> DEFINE b == Min(Erasable)
<1>0. /\ flash \in [Sectors -> Images]
      /\ BlankImage \in Images
      /\ BlankImage.stat = "unused"
  BY DEF GsffsTypeOK, BlankImage, Images, Data
<1>1. Unused # {} => Min(Unused) \in Unused
  <2>1. Unused \subseteq Nat
    BY SectorNumbers DEF Unused
  <2> QED
    BY <2>1, MinOfNaturals
<1>2. Erasable # {} => b \in Erasable /\ b * BlockSize \in Sectors /\ b * BlockSize \in Block(b)
  <2>1. Erasable \subseteq FirstBlock .. FirstBlock + BlockCount - 1 /\ Erasable \subseteq Nat
    BY SectorNumbers DEF Erasable
  <2> QED
    BY <2>1, MinOfNaturals, SectorNumbers
<1> HIDE DEF b
<1>3. \/ Blank.sector = NoSector /\ flash' = flash
      \/ Erasable # {} /\ Blank.sector = b * BlockSize /\ flash' = WithoutBlock(b)
      \/ Unused # {} /\ Blank.sector = Min(Unused) /\ flash' = flash
  BY DEF Blank, b
<1>4. CASE flash' = flash
  <2>1. \A n \in FileNames :
           /\ Hits(n)' = Hits(n)
           /\ KeptFits(n) /\ kept'[n] = kept[n] => KeptFits(n)'
    BY <1>4 DEF Hits, KeptFits
  <2>2. /\ Blank.sector \in Sectors \cup {NoSector}
        /\ Blank.sector # NoSector => flash'[Blank.sector] = BlankImage
    <3>1. CASE Blank.sector = NoSector
      BY <3>1
    <3>2. CASE Unused # {} /\ Blank.sector = Min(Unused)
      BY <1>1, <1>4, <3>2 DEF Unused, UnusedIsBlank
    <3>3. CASE Erasable # {} /\ Blank.sector = b * BlockSize /\ flash' = WithoutBlock(b)
      BY <1>2, <3>3 DEF WithoutBlock
    <3> QED
      BY <1>3, <3>1, <3>2, <3>3
  <2> QED
    BY <1>0, <1>4, <2>1, <2>2 DEF UnusedIsBlank
<1>5. CASE Erasable # {} /\ Blank.sector = b * BlockSize /\ flash' = WithoutBlock(b)
  <2>1. \A s \in Sectors : flash'[s] = IF s \in Block(b) THEN BlankImage ELSE flash[s]
    BY <1>5 DEF WithoutBlock
  <2>2. \A s \in Block(b) : s \in Sectors /\ flash[s].stat = "deleted"
    BY <1>2, <1>5 DEF Erasable, Block
  <2>3. flash' \in [Sectors -> Images]
    BY <1>0, <1>5 DEF WithoutBlock
  <2>4. \A s \in Sectors :
           flash[s].stat \in {"create", "saved"} => flash'[s] = flash[s]
    BY <2>1, <2>2
  <2>5. ASSUME NEW n \in FileNames
        PROVE  /\ Hits(n)' = Hits(n)
               /\ KeptFits(n) /\ kept'[n] = kept[n] => KeptFits(n)'
    <3>1. \A s \in Sectors : s \in Hits(n)' <=> s \in Hits(n)
      BY <1>0, <2>1, <2>2 DEF Hits
    <3>2. Hits(n)' = Hits(n)
      BY <3>1 DEF Hits
    <3> QED
      BY <2>4, <3>2 DEF KeptFits
  <2>6. UnusedIsBlank'
    BY <2>1 DEF UnusedIsBlank
  <2> QED
    BY <1>2, <1>5, <2>1, <2>3, <2>4, <2>5, <2>6
<1> QED
  BY <1>3, <1>4, <1>5

-----------------------------------------------------------------------------
(* The descriptor. *)

Descriptors ==
    [buf : Images, sector : Sectors \cup {NoSector}, new : BOOLEAN, dirty : BOOLEAN]

\* The changes that the calls make to it.
LEMMA DescriptorKept ==
    ASSUME NEW d \in Descriptors
    PROVE  /\ ClosedFd(d.dirty) \in Descriptors /\ ClosedFd(FALSE) \in Descriptors
           /\ d.buf \in Images /\ d.sector \in Sectors \cup {NoSector}
           /\ \A i \in Images : [d EXCEPT !.buf = i] \in Descriptors
           /\ \A s \in Sectors \cup {NoSector} : [d EXCEPT !.sector = s] \in Descriptors
           /\ \A x \in Data : [d EXCEPT !.buf.data = x, !.dirty = TRUE] \in Descriptors
<1>1. /\ d.buf \in Images /\ d.sector \in Sectors \cup {NoSector}
      /\ d.new \in BOOLEAN /\ d.dirty \in BOOLEAN
  BY DEF Descriptors
<1>2. BlankImage \in Images
  BY DEF BlankImage, Images, Data
<1>3. ClosedFd(d.dirty) \in Descriptors /\ ClosedFd(FALSE) \in Descriptors
  BY <1>1, <1>2 DEF ClosedFd, Descriptors
<1>4. \A i \in Images : [d EXCEPT !.buf = i] \in Descriptors
  BY DEF Descriptors
<1>5. \A s \in Sectors \cup {NoSector} : [d EXCEPT !.sector = s] \in Descriptors
  BY DEF Descriptors
<1>6. ASSUME NEW x \in Data
      PROVE  [d EXCEPT !.buf.data = x, !.dirty = TRUE] \in Descriptors
  BY DEF Descriptors, Images
<1> QED
  BY <1>1, <1>3, <1>4, <1>5, <1>6

\* A call ends, and with it the use of the descriptor if no file is open.
LEMMA LeavesDescriptor ==
    ASSUME NEW h, Handles = {h}, NEW d \in Descriptors, Leaves(d)
    PROVE  /\ gsffs' \in Descriptors
           /\ handle'[h] # NoName => gsffs' = d
BY DescriptorKept DEF Leaves

\* The calls whose last part does not touch the flash.
LEMMA FlashStays ==
    ASSUME UNCHANGED <<flash, kept>>
    PROVE  /\ UnusedIsBlank => UnusedIsBlank'
           /\ \A n \in FileNames : Hits(n)' = Hits(n) /\ (KeptFits(n) => KeptFits(n)')
BY DEF UnusedIsBlank, Hits, KeptFits

\* What a step may do to a sector that holds a file.
SavedStay ==
    \A s \in Sectors : flash[s].stat = "saved" =>
        flash'[s] = flash[s] \/ flash'[s].stat = "deleted"

-----------------------------------------------------------------------------
(* The calls that do not touch the flash. *)

LEMMA TypesOf ==
    ASSUME GsffsTypeOK
    PROVE  /\ flash \in [Sectors -> Images] /\ gsffs \in Descriptors
           /\ handle \in [Handles -> FileNames \cup {NoName}]
           /\ wrote \in [Handles -> Data \cup {Unknown}]
           /\ kept \in [FileNames -> Data \cup {Absent, Unknown}]
           /\ NoName \notin FileNames /\ Unknown \notin Data /\ Absent \notin Data
BY GsffsAssumption DEF GsffsTypeOK, Descriptors, Data

\* Such a call keeps the invariant if it leaves the descriptor as it must be.
LEMMA QuietCall ==
    ASSUME NEW h, Handles = {h}, GsffsInd, UNCHANGED <<flash, kept>>,
           gsffs' \in Descriptors,
           handle' \in [Handles -> FileNames \cup {NoName}],
           wrote' \in [Handles -> Data \cup {Unknown}],
           CallFits(h)'
    PROVE  GsffsInd' /\ SavedStay
BY FlashStays DEF GsffsInd, GsffsTypeOK, Descriptors, SavedStay

LEMMA OpenOldKept ==
    ASSUME NEW h, Handles = {h}, GsffsInd, NEW n \in FileNames, NEW truncate \in BOOLEAN,
           OpenOld(h, n, truncate)
    PROVE  GsffsInd' /\ SavedStay
<1> DEFINE s == Min(Hits(n))
           data == IF truncate THEN {} ELSE flash[s].data
           i == [flash[s] EXCEPT !.data = data]
<1>0. GsffsTypeOK /\ pending = NoCall
  BY DEF GsffsInd, OpenOld
<1>1. s \in Hits(n) /\ s \in Sectors /\ flash[s] \in Images /\ flash[s].name = n
  BY <1>0, SearchesFind DEF OpenOld, Hits, GsffsTypeOK
<1>2. data \in Data /\ i \in Images /\ i.name = n /\ i.data = data
  BY <1>1 DEF Images, Data
<1>3. /\ gsffs' = [gsffs EXCEPT !.buf = i, !.sector = s, !.new = FALSE]
      /\ wrote' = [wrote EXCEPT ![h] = data]
      /\ handle' = [handle EXCEPT ![h] = n]
      /\ UNCHANGED <<flash, pending, kept>>
  BY DEF OpenOld
<1> HIDE DEF s, data, i
<1>4. /\ gsffs' \in Descriptors /\ ~ gsffs'.new
      /\ gsffs'.buf = i /\ gsffs'.sector = s
  BY <1>0, <1>1, <1>2, <1>3, TypesOf DEF Descriptors
<1>5. /\ handle' \in [Handles -> FileNames \cup {NoName}] /\ handle'[h] = n
      /\ wrote' \in [Handles -> Data \cup {Unknown}] /\ wrote'[h] = data
  BY <1>0, <1>2, <1>3, TypesOf
<1>6. Hits(n)' = Hits(n)
  BY <1>3, FlashStays
<1>7. CallFits(h)'
  BY <1>0, <1>1, <1>2, <1>3, <1>4, <1>5, <1>6, TypesOf DEF CallFits, OpenFits, BufferIsOf
<1> QED
  BY <1>3, <1>4, <1>5, <1>7, QuietCall

LEMMA WriteKept ==
    ASSUME NEW h, Handles = {h}, GsffsInd, NEW d \in Data, Write(h, d)
    PROVE  GsffsInd' /\ SavedStay
<1>0. GsffsTypeOK /\ pending = NoCall /\ handle[h] # NoName /\ handle[h] \in FileNames
  BY TypesOf DEF GsffsInd, Write
<1>1. OpenFits(h, handle[h])
  BY <1>0 DEF GsffsInd, CallFits, ReplaceFits, NoCall
<1>2. /\ gsffs' = [gsffs EXCEPT !.buf.data = d, !.dirty = TRUE]
      /\ wrote' = [wrote EXCEPT ![h] = IF @ = Unknown THEN @ ELSE d]
      /\ UNCHANGED <<flash, pending, handle, kept>>
  BY DEF Write
<1>3. gsffs' \in Descriptors
  BY <1>0, <1>2, TypesOf, DescriptorKept
<1>4. /\ gsffs'.buf.name = gsffs.buf.name /\ gsffs'.buf.data = d
      /\ gsffs'.sector = gsffs.sector /\ gsffs'.new = gsffs.new
  BY <1>0, <1>2, TypesOf DEF Descriptors, Images
<1>5. /\ wrote' \in [Handles -> Data \cup {Unknown}]
      /\ wrote'[h] = IF wrote[h] = Unknown THEN Unknown ELSE d
      /\ handle' \in [Handles -> FileNames \cup {NoName}]
  BY <1>0, <1>2, TypesOf
<1>6. Hits(handle[h])' = Hits(handle[h])
  BY <1>0, <1>2, FlashStays
<1>7. CallFits(h)'
  BY <1>0, <1>1, <1>2, <1>4, <1>5, <1>6 DEF CallFits, OpenFits, BufferIsOf
<1> QED
  BY <1>2, <1>3, <1>5, <1>7, QuietCall

\* After these calls no file is open and no call under way.
LEMMA EndsOfCalls ==
    ASSUME NEW h, Handles = {h}, GsffsInd,
           \/ CreateFails \/ SaveFails \/ CloseOnly(h) \/ PowerFails
           \/ \E n \in FileNames : OpenFails(n) \/ UnlinkFails(n)
    PROVE  GsffsInd' /\ SavedStay
<1>0. GsffsTypeOK /\ CallFits(h)
  BY DEF GsffsInd
<1>1. gsffs \in Descriptors /\ gsffs.buf \in Images
  BY <1>0, TypesOf, DescriptorKept
<1>2. CASE CreateFails
  <2>1. handle[h] = NoName
    BY <1>0, <1>2 DEF CreateFails, CallFits, NoCall, ReplaceFits
  <2>2. Leaves(gsffs) /\ pending' = NoCall /\ UNCHANGED <<flash, kept, handle, wrote>>
    BY <1>2 DEF CreateFails
  <2>3. gsffs' \in Descriptors
    BY <1>1, <2>2, LeavesDescriptor
  <2> QED
    BY <1>0, <2>1, <2>2, <2>3, QuietCall, TypesOf DEF CallFits
<1>3. CASE SaveFails
  <2>1. pending.by = h
    BY <1>0, <1>3 DEF SaveFails, CallFits, NoCall, ReplaceFits, CreateFits
  <2>2. SavedImage \in Images
    BY <1>1 DEF SavedImage, Images
  <2>3. /\ Leaves([gsffs EXCEPT !.buf = SavedImage]) /\ pending' = NoCall
        /\ handle' = [handle EXCEPT ![h] = NoName]
        /\ UNCHANGED <<flash, kept, wrote>>
    BY <1>3, <2>1 DEF SaveFails, Closes
  <2>4. gsffs' \in Descriptors
    BY <1>1, <2>2, <2>3, LeavesDescriptor, DescriptorKept
  <2>5. handle' \in [Handles -> FileNames \cup {NoName}] /\ handle'[h] = NoName
    BY <1>0, <2>3, TypesOf
  <2> QED
    BY <1>0, <2>3, <2>4, <2>5, QuietCall, TypesOf DEF CallFits
<1>4. CASE CloseOnly(h)
  <2>1. /\ pending' = NoCall
        /\ handle' = [handle EXCEPT ![h] = NoName]
        /\ UNCHANGED <<flash, kept, wrote>>
    BY <1>4 DEF CloseOnly, Closes
  <2>2. handle' \in [Handles -> FileNames \cup {NoName}] /\ handle'[h] = NoName
    BY <1>0, <2>1, TypesOf
  <2>3. gsffs' \in Descriptors
    <3> DEFINE marked == [gsffs EXCEPT !.buf.stat = "deleted"]
               saved == [gsffs EXCEPT !.buf = SavedImage]
    <3>1. SavedImage \in Images
      BY <1>1 DEF SavedImage, Images
    <3>2. saved \in Descriptors
      BY <1>1, <3>1, DescriptorKept
    <3>3. marked \in Descriptors
      BY <1>1 DEF Descriptors, Images
    <3>4. Leaves(gsffs) \/ Leaves(saved) \/ Leaves(marked)
      <4> HIDE DEF marked, saved
      <4> QED
        BY <1>4 DEF CloseOnly, marked, saved
    <3> HIDE DEF marked, saved
    <3> QED
      BY <1>1, <3>2, <3>3, <3>4, LeavesDescriptor
  <2> QED
    BY <1>0, <2>1, <2>2, <2>3, QuietCall, TypesOf DEF CallFits
<1>5. CASE PowerFails
  <2>1. /\ gsffs' = ClosedFd(FALSE) /\ pending' = NoCall
        /\ handle' = [g \in Handles |-> NoName]
        /\ wrote' = [g \in Handles |-> Unknown]
        /\ UNCHANGED <<flash, kept>>
    BY <1>5 DEF PowerFails
  <2>2. gsffs' \in Descriptors
    BY <1>1, <2>1, DescriptorKept
  <2> QED
    BY <2>1, <2>2, QuietCall DEF CallFits
<1>6. ASSUME NEW n \in FileNames, OpenFails(n) \/ UnlinkFails(n)
      PROVE  GsffsInd' /\ SavedStay
  <2>1. handle[h] = NoName
    BY <1>6, FS_Singleton DEF OpenFails, UnlinkFails, Alone, Quiet
  <2>2. pending = NoCall /\ UNCHANGED <<flash, pending, handle, kept, wrote>>
    BY <1>6 DEF OpenFails, UnlinkFails
  <2>3. \E i \in Images : Leaves([gsffs EXCEPT !.buf = i])
    <3>1. flash[LastRead(n)] \in Images
      BY <1>0, SearchesFind
    <3>2. Found(n) => [flash[Min(Hits(n))] EXCEPT !.stat = "deleted"] \in Images
      <4>1. \A i \in Images : [i EXCEPT !.stat = "deleted"] \in Images
        BY DEF Images
      <4>2. Found(n) => flash[Min(Hits(n))] \in Images
        BY <1>0, SearchesFind, TypesOf DEF Hits
      <4> QED
        BY <4>1, <4>2
    <3> QED
      BY <1>6, <3>1, <3>2 DEF OpenFails, UnlinkFails
  <2>4. gsffs' \in Descriptors
    BY <1>1, <2>3, LeavesDescriptor, DescriptorKept
  <2> QED
    BY <1>0, <2>1, <2>2, <2>4, QuietCall, TypesOf DEF CallFits
<1> QED
  BY <1>2, <1>3, <1>4, <1>5, <1>6

-----------------------------------------------------------------------------
(* The calls that do. *)

\* One sector is programmed with the file n, and all that is known of n is told.
LEMMA FileWritten ==
    ASSUME NEW h, Handles = {h}, GsffsInd, NEW n \in FileNames,
           NEW s \in Sectors, NEW i \in Images, i.stat # "unused",
           flash' = [flash EXCEPT ![s] = i],
           \A m \in FileNames \ {n} : ~ HoldsFile(flash[s], m) /\ ~ HoldsFile(i, m),
           flash[s].stat = "saved" => i.stat = "deleted",
           NEW x \in Data \cup {Absent, Unknown}, kept' = [kept EXCEPT ![n] = x],
           KeptFits(n)',
           gsffs' \in Descriptors,
           handle' \in [Handles -> FileNames \cup {NoName}],
           wrote' \in [Handles -> Data \cup {Unknown}],
           CallFits(h)'
    PROVE  GsffsInd' /\ SavedStay
<1>0. /\ flash \in [Sectors -> Images]
      /\ kept \in [FileNames -> Data \cup {Absent, Unknown}]
      /\ \A m \in FileNames : KeptFits(m)
      /\ UnusedIsBlank
  BY TypesOf DEF GsffsInd
<1>1. flash' \in [Sectors -> Images] /\ kept' \in [FileNames -> Data \cup {Absent, Unknown}]
  BY <1>0
<1>2. GsffsTypeOK'
  BY <1>1 DEF GsffsTypeOK, Descriptors
<1>3. \A r \in Sectors : flash'[r] = IF r = s THEN i ELSE flash[r]
  BY <1>0
<1>4. UnusedIsBlank'
  BY <1>0, <1>3 DEF UnusedIsBlank
<1>5. ASSUME NEW m \in FileNames
      PROVE  KeptFits(m)'
  <2>1. CASE m = n
    BY <2>1
  <2>2. CASE m # n
    BY <1>0, <2>2, OneSectorChanges
  <2> QED
    BY <2>1, <2>2
<1>6. SavedStay
  BY <1>3 DEF SavedStay
<1> QED
  BY <1>2, <1>4, <1>5, <1>6 DEF GsffsInd

LEMMA OpenNewKept ==
    ASSUME NEW h, Handles = {h}, GsffsInd, NEW n \in FileNames, OpenNew(h, n)
    PROVE  GsffsInd' /\ SavedStay
<1> DEFINE i == [flash[LastRead(n)] EXCEPT !.stat = "create", !.name = n]
<1>0. /\ GsffsTypeOK /\ UnusedIsBlank /\ \A m \in FileNames : KeptFits(m)
      /\ gsffs \in Descriptors
  BY TypesOf DEF GsffsInd
<1>1. /\ handle[h] = NoName
      /\ Blank.sector # NoSector
      /\ flash' = Blank.flash
      /\ gsffs' = [gsffs EXCEPT !.buf = i, !.new = TRUE]
      /\ pending' = [at |-> "create", by |-> h, name |-> n, sector |-> Blank.sector]
      /\ UNCHANGED <<handle, wrote, kept>>
  BY DEF OpenNew
<1>2. i \in Images /\ i.stat = "create" /\ i.name = n
  <2>1. flash[LastRead(n)] \in Images
    BY <1>0, SearchesFind
  <2> QED
    BY <2>1 DEF Images
<1> HIDE DEF i
<1>3. gsffs' \in Descriptors /\ gsffs'.new /\ gsffs'.buf = i
  BY <1>0, <1>1, <1>2 DEF Descriptors
<1>4. /\ Blank.sector \in Sectors /\ flash'[Blank.sector] = BlankImage
      /\ flash' \in [Sectors -> Images] /\ UnusedIsBlank'
      /\ \A m \in FileNames : KeptFits(m)'
      /\ SavedStay
  BY <1>0, <1>1, BlankIsBlank DEF SavedStay
<1>5. CreateFits(h)'
  BY <1>1, <1>2, <1>3, <1>4 DEF CreateFits
<1> QED
  BY <1>0, <1>1, <1>3, <1>4, <1>5 DEF GsffsInd, GsffsTypeOK, Descriptors, CallFits

LEMMA CreateKept ==
    ASSUME NEW h, Handles = {h}, GsffsInd, Create
    PROVE  GsffsInd' /\ SavedStay
<1>0. /\ GsffsTypeOK /\ \A m \in FileNames : KeptFits(m)
      /\ gsffs \in Descriptors /\ gsffs.buf \in Images
  BY TypesOf, DescriptorKept DEF GsffsInd
<1>1. PICK n \in FileNames, s \in Sectors :
         /\ pending = [at |-> "create", by |-> h, name |-> n, sector |-> s]
         /\ gsffs.new /\ gsffs.buf.name = n /\ gsffs.buf.stat = "create"
         /\ flash[s] = BlankImage
  BY DEF GsffsInd, CallFits, Create, NoCall, ReplaceFits, CreateFits
<1> DEFINE i == Programmed(flash[s], gsffs.buf)
           w == IF kept[n] = Absent /\ gsffs.buf.data = {} /\ gsffs.buf.crc = Erased
                THEN {} ELSE Unknown
<1>2. /\ flash' = [flash EXCEPT ![s] = i]
      /\ gsffs' = [gsffs EXCEPT !.sector = s]
      /\ handle' = [handle EXCEPT ![h] = n]
      /\ wrote' = [wrote EXCEPT ![h] = w]
      /\ kept' = [kept EXCEPT ![n] = Unknown]
      /\ pending' = NoCall
  BY <1>0, <1>1, TypesOf DEF Create
<1>3. i \in Images /\ i.stat = "create" /\ i.name = n /\ i.data = gsffs.buf.data
  <2>1. flash[s] \in Images
    BY <1>0, TypesOf
  <2> QED
    BY <1>0, <1>1, <2>1, ProgrammedImage
<1>4. w \in Data \cup {Unknown} /\ (w # Unknown => w = {} /\ i.data = {} /\ kept[n] = Absent)
  BY <1>3 DEF Data
<1> HIDE DEF i, w
<1>5. /\ gsffs' \in Descriptors
      /\ gsffs'.buf = gsffs.buf /\ gsffs'.sector = s /\ gsffs'.new
  BY <1>0, <1>1, <1>2 DEF Descriptors
<1>6. /\ handle' \in [Handles -> FileNames \cup {NoName}] /\ handle'[h] = n
      /\ wrote' \in [Handles -> Data \cup {Unknown}] /\ wrote'[h] = w
      /\ kept'[n] = Unknown
  BY <1>0, <1>2, <1>4, TypesOf
<1>7. Hits(n)' = Hits(n) \cup {s} /\ flash'[s] = i
  BY <1>0, <1>2, <1>3, OneSectorChanges, TypesOf DEF HoldsFile
<1>8. CallFits(h)'
  <2>1. w # Unknown => Hits(n) = {}
    BY <1>0, <1>4 DEF KeptFits
  <2>2. OpenFits(h, n)'
    BY <1>1, <1>3, <1>4, <1>5, <1>6, <1>7, <2>1 DEF OpenFits, BufferIsOf
  <2> QED
    BY <1>0, <1>2, <1>6, <2>2, TypesOf DEF CallFits
<1>9. KeptFits(n)'
  BY <1>0, <1>6, TypesOf, AbsentIsKnown DEF KeptFits
<1>10. /\ flash[s].stat = "unused" /\ i.stat # "unused"
       /\ \A m \in FileNames \ {n} : ~ HoldsFile(flash[s], m) /\ ~ HoldsFile(i, m)
  BY <1>1, <1>3 DEF HoldsFile, BlankImage
<1>11. Unknown \in Data \cup {Absent, Unknown}
  OBVIOUS
<1> QED
  BY <1>2, <1>3, <1>5, <1>6, <1>8, <1>9, <1>10, <1>11, FileWritten

LEMMA SearchKept ==
    ASSUME NEW h, Handles = {h}, GsffsInd, Search
    PROVE  GsffsInd' /\ SavedStay
<1> DEFINE n == handle[h]
<1>0. /\ GsffsTypeOK /\ UnusedIsBlank /\ \A m \in FileNames : KeptFits(m)
      /\ gsffs \in Descriptors
  BY TypesOf DEF GsffsInd
<1>1. /\ n # NoName /\ BufferIsOf(h, n) /\ kept[n] \in {Absent, Unknown}
      /\ pending = [at |-> "search", by |-> h, name |-> n]
  BY DEF GsffsInd, CallFits, Search, NoCall, ReplaceFits, CreateFits
<1>2. /\ gsffs' = [gsffs EXCEPT !.sector = Blank.sector]
      /\ flash' = Blank.flash
      /\ pending' = [at |-> "save", by |-> h, name |-> n]
      /\ UNCHANGED <<handle, wrote, kept>>
  BY <1>1 DEF Search
<1>3. /\ Blank.sector \in Sectors \cup {NoSector}
      /\ Blank.sector # NoSector => flash'[Blank.sector] = BlankImage
      /\ flash' \in [Sectors -> Images] /\ UnusedIsBlank'
      /\ \A m \in FileNames : KeptFits(m)'
      /\ SavedStay
  BY <1>0, <1>2, BlankIsBlank DEF SavedStay
<1>4. /\ gsffs' \in Descriptors
      /\ gsffs'.buf = gsffs.buf /\ gsffs'.sector = Blank.sector
  BY <1>0, <1>2, <1>3 DEF Descriptors
<1>5. CallFits(h)'
  BY <1>1, <1>2, <1>3, <1>4 DEF CallFits, ReplaceFits, BufferIsOf
<1> QED
  BY <1>0, <1>2, <1>3, <1>4, <1>5 DEF GsffsInd, GsffsTypeOK, Descriptors

\* The value that is settled for a file, and the others' stay.
LEMMA SettlesIt ==
    ASSUME GsffsTypeOK, NEW n \in FileNames, NEW v \in Data \cup {Absent, Unknown},
           kept' = Settles(n, v)
    PROVE  LET x == IF kept[n] = Unknown THEN Unknown ELSE v
           IN  /\ kept' = [kept EXCEPT ![n] = x] /\ kept'[n] = x
               /\ x \in Data \cup {Absent, Unknown}
BY TypesOf DEF Settles

LEMMA CloseOldKept ==
    ASSUME NEW h, Handles = {h}, GsffsInd, CloseOld(h)
    PROVE  GsffsInd' /\ SavedStay
<1>0. handle[h] \in FileNames /\ pending = NoCall
  BY TypesOf DEF GsffsInd, CloseOld
<1>1. PICK n \in FileNames : n = handle[h]
  BY <1>0
<1> DEFINE s == gsffs.sector
           image == [gsffs.buf EXCEPT !.stat = "deleted"]
           i == Programmed(flash[s], image)
<1>2. /\ GsffsTypeOK /\ \A m \in FileNames : KeptFits(m)
      /\ gsffs \in Descriptors /\ gsffs.buf \in Images
      /\ pending = NoCall
  BY <1>0, TypesOf, DescriptorKept DEF GsffsInd
<1>3. OpenFits(h, n)
  BY <1>2, <1>1, TypesOf DEF GsffsInd, CallFits, ReplaceFits, NoCall
<1>4. s \in Sectors /\ flash[s] \in Images /\ HoldsFile(flash[s], n)
  BY <1>2, <1>3, TypesOf DEF OpenFits, Hits, HoldsFile
<1>5. image \in Images /\ image.stat = "deleted"
  BY <1>2 DEF Images
<1>6. /\ flash' = [flash EXCEPT ![s] = i]
      /\ pending' = [at |-> "search", by |-> h, name |-> n]
      /\ kept' = Settles(n, Absent)
      /\ UNCHANGED <<gsffs, handle, wrote>>
  BY <1>1 DEF CloseOld
<1>7. i \in Images /\ i.stat = "deleted"
  <2> HIDE DEF s, image
  <2> QED
    BY <1>4, <1>5, ProgrammedImage
<1> HIDE DEF s, image, i
<1> DEFINE x == IF kept[n] = Unknown THEN Unknown ELSE Absent
<1>8. /\ kept' = [kept EXCEPT ![n] = x] /\ kept'[n] = x
      /\ x \in Data \cup {Absent, Unknown}
  BY <1>2, <1>6, SettlesIt
<1>9. x \in {Absent, Unknown} /\ (x = Absent => kept[n] # Unknown)
  BY AbsentIsKnown
<1> HIDE DEF x
<1>10. Hits(n)' = Hits(n) \ {s}
  BY <1>2, <1>4, <1>6, <1>7, OneSectorChanges, TypesOf DEF HoldsFile
<1>11. KeptFits(n)'
  <2>1. x = Absent => Hits(n) = {s}
    <3>1. s \in Hits(n)
      BY <1>3 DEF OpenFits, s
    <3> QED
      BY <1>2, <1>9, <3>1, TypesOf DEF KeptFits
  <2>2. kept'[n] = Absent => Hits(n)' = {}
    BY <1>8, <1>10, <2>1
  <2>3. kept'[n] \notin Data
    BY <1>2, <1>8, <1>9, TypesOf
  <2> QED
    BY <2>2, <2>3 DEF KeptFits
<1>12. CallFits(h)'
  BY <1>2, <1>3, <1>6, <1>8, <1>9, <1>1, TypesOf DEF CallFits, OpenFits, ReplaceFits, BufferIsOf
<1>13. \A m \in FileNames \ {n} : ~ HoldsFile(flash[s], m) /\ ~ HoldsFile(i, m)
  BY <1>4, <1>7 DEF HoldsFile
<1>14. /\ i.stat # "unused" /\ gsffs' \in Descriptors
       /\ handle' \in [Handles -> FileNames \cup {NoName}]
       /\ wrote' \in [Handles -> Data \cup {Unknown}]
  BY <1>2, <1>6, <1>7, TypesOf
<1> QED
  BY <1>2, <1>4, <1>6, <1>7, <1>8, <1>11, <1>12, <1>13, <1>14, FileWritten

LEMMA SaveKept ==
    ASSUME NEW h, Handles = {h}, GsffsInd, Save
    PROVE  GsffsInd' /\ SavedStay
<1>0. /\ GsffsTypeOK /\ \A m \in FileNames : KeptFits(m)
      /\ gsffs \in Descriptors /\ gsffs.buf \in Images
  BY TypesOf, DescriptorKept DEF GsffsInd
<1>1. PICK n \in FileNames : n = handle[h]
  BY <1>0, TypesOf DEF GsffsInd, CallFits, Save, NoCall, CreateFits
<1> DEFINE s == gsffs.sector
           i == Programmed(flash[s], SavedImage)
           x == IF kept[n] = Unknown THEN Unknown ELSE wrote[h]
<1>2. /\ BufferIsOf(h, n) /\ kept[n] \in {Absent, Unknown}
      /\ pending = [at |-> "save", by |-> h, name |-> n]
      /\ s \in Sectors /\ flash[s] = BlankImage
  <2>1. ReplaceFits(h, n) /\ s # NoSector
    BY <1>0, <1>1, TypesOf DEF GsffsInd, CallFits, Save, NoCall
  <2>2. pending = [at |-> "save", by |-> h, name |-> n]
    BY <2>1 DEF ReplaceFits, Save
  <2>3. flash[s] = BlankImage /\ BufferIsOf(h, n) /\ kept[n] \in {Absent, Unknown}
    BY <2>1, <2>2 DEF ReplaceFits
  <2>4. s \in Sectors
    BY <1>0, <2>1, DescriptorKept
  <2> QED
    BY <2>2, <2>3, <2>4
<1>3. SavedImage \in Images /\ SavedImage.stat = "saved"
      /\ SavedImage.name = n /\ SavedImage.data = gsffs.buf.data
  BY <1>0, <1>2 DEF SavedImage, Images, BufferIsOf
<1>4. /\ flash' = [flash EXCEPT ![s] = i]
      /\ kept' = Settles(n, wrote[h])
      /\ handle' = [handle EXCEPT ![h] = NoName]
      /\ Leaves([gsffs EXCEPT !.buf = SavedImage])
      /\ pending' = NoCall
      /\ UNCHANGED wrote
  BY <1>2 DEF Save, Closes
<1>5. i \in Images /\ i.stat = "saved" /\ i.name = n /\ i.data = gsffs.buf.data
  <2>1. flash[s] \in Images
    BY <1>0, <1>2, TypesOf
  <2> HIDE DEF s
  <2> QED
    BY <1>2, <1>3, <2>1, ProgrammedImage
<1>6. wrote[h] \in Data \cup {Unknown}
  BY <1>0, TypesOf
<1>7. /\ kept' = [kept EXCEPT ![n] = x] /\ kept'[n] = x
      /\ x \in Data \cup {Absent, Unknown}
  <2> HIDE DEF x
  <2> QED
    BY <1>0, <1>4, <1>6, SettlesIt DEF x
<1>8. /\ x \in Data \cup {Unknown}
      /\ x \in Data => x = gsffs.buf.data /\ Hits(n) = {}
  BY <1>0, <1>2, <1>6, TypesOf DEF KeptFits, BufferIsOf
<1> HIDE DEF s, i, x
<1>9. Hits(n)' = Hits(n) \cup {s} /\ flash'[s] = i
  BY <1>0, <1>2, <1>4, <1>5, OneSectorChanges, TypesOf DEF HoldsFile
<1>10. KeptFits(n)'
  <2>1. kept'[n] # Absent
    BY <1>0, <1>7, <1>8, TypesOf, AbsentIsKnown
  <2>2. kept'[n] \in Data => Hits(n)' = {s} /\ flash'[s].stat = "saved" /\ flash'[s].data = kept'[n]
    BY <1>5, <1>7, <1>8, <1>9
  <2> QED
    BY <1>2, <2>1, <2>2 DEF KeptFits
<1>11. /\ gsffs' \in Descriptors
       /\ handle' \in [Handles -> FileNames \cup {NoName}]
       /\ wrote' \in [Handles -> Data \cup {Unknown}]
       /\ CallFits(h)'
  BY <1>0, <1>3, <1>4, TypesOf, LeavesDescriptor, DescriptorKept DEF CallFits
<1>12. /\ flash[s].stat = "unused" /\ i.stat # "unused"
       /\ \A m \in FileNames \ {n} : ~ HoldsFile(flash[s], m) /\ ~ HoldsFile(i, m)
  BY <1>2, <1>5 DEF HoldsFile, BlankImage
<1> QED
  BY <1>2, <1>4, <1>5, <1>7, <1>10, <1>11, <1>12, FileWritten

LEMMA CloseNewKept ==
    ASSUME NEW h, Handles = {h}, GsffsInd, CloseNew(h)
    PROVE  GsffsInd' /\ SavedStay
<1>0. /\ GsffsTypeOK /\ pending = NoCall
      /\ gsffs \in Descriptors /\ gsffs.buf \in Images
  BY TypesOf, DescriptorKept DEF GsffsInd, CloseNew
<1>1. PICK n \in FileNames : n = handle[h]
  BY <1>0, TypesOf DEF CloseNew
<1> DEFINE s == gsffs.sector
           i == Programmed(flash[s], SavedImage)
<1>2. OpenFits(h, n) /\ gsffs.new
  BY <1>0, <1>1, TypesOf DEF GsffsInd, CallFits, ReplaceFits, NoCall, CloseNew
<1>3. /\ s \in Sectors /\ flash[s] \in Images
      /\ flash[s].stat = "create" /\ flash[s].name = n
  BY <1>0, <1>2, TypesOf DEF OpenFits, Hits
<1>4. SavedImage \in Images /\ SavedImage.stat = "saved"
      /\ SavedImage.name = n /\ SavedImage.data = gsffs.buf.data
  BY <1>0, <1>2 DEF SavedImage, Images, OpenFits, BufferIsOf
<1>5. /\ flash' = [flash EXCEPT ![s] = i]
      /\ kept' = [kept EXCEPT ![n] = wrote[h]]
      /\ handle' = [handle EXCEPT ![h] = NoName]
      /\ Leaves([gsffs EXCEPT !.buf = SavedImage])
      /\ UNCHANGED <<pending, wrote>>
  BY <1>1 DEF CloseNew, Closes
<1>6. i \in Images /\ i.stat = "saved" /\ i.name = n
      /\ i.data = flash[s].data \cup gsffs.buf.data
  <2> HIDE DEF s
  <2> QED
    BY <1>3, <1>4, ProgrammedImage
<1>7. wrote[h] \in Data \cup {Unknown} /\ wrote[h] \in Data \cup {Absent, Unknown}
  BY <1>0, TypesOf
<1>8. kept'[n] = wrote[h]
  BY <1>0, <1>5, TypesOf
<1>9. wrote[h] \in Data =>
         Hits(n) = {s} /\ flash[s].data = {} /\ gsffs.buf.data = wrote[h]
  BY <1>0, <1>2, TypesOf DEF OpenFits, BufferIsOf
<1> HIDE DEF s, i
<1>10. Hits(n)' = Hits(n) \cup {s} /\ flash'[s] = i
  BY <1>0, <1>3, <1>5, <1>6, OneSectorChanges, TypesOf DEF HoldsFile
<1>11. KeptFits(n)'
  <2>1. kept'[n] # Absent
    BY <1>0, <1>7, <1>8, TypesOf, AbsentIsKnown
  <2>2. kept'[n] \in Data => Hits(n)' = {s} /\ flash'[s].stat = "saved" /\ flash'[s].data = kept'[n]
    BY <1>6, <1>8, <1>9, <1>10
  <2> QED
    BY <1>3, <2>1, <2>2 DEF KeptFits
<1>12. /\ gsffs' \in Descriptors
       /\ handle' \in [Handles -> FileNames \cup {NoName}]
       /\ wrote' \in [Handles -> Data \cup {Unknown}]
       /\ CallFits(h)'
  BY <1>0, <1>4, <1>5, TypesOf, LeavesDescriptor, DescriptorKept DEF CallFits
<1>13. /\ flash[s].stat # "saved" /\ i.stat # "unused"
       /\ \A m \in FileNames \ {n} : ~ HoldsFile(flash[s], m) /\ ~ HoldsFile(i, m)
  BY <1>3, <1>6 DEF HoldsFile
<1> QED
  BY <1>3, <1>5, <1>6, <1>7, <1>11, <1>12, <1>13, FileWritten

LEMMA UnlinkKept ==
    ASSUME NEW h, Handles = {h}, GsffsInd, NEW n \in FileNames, Unlink(n)
    PROVE  GsffsInd' /\ SavedStay
<1> DEFINE s == Min(Hits(n))
           image == [flash[s] EXCEPT !.stat = "deleted"]
           i == Programmed(flash[s], image)
           x == IF kept[n] = Unknown THEN Unknown ELSE Absent
<1>0. /\ GsffsTypeOK /\ gsffs \in Descriptors /\ KeptFits(n)
      /\ handle[h] = NoName
  BY TypesOf, FS_Singleton DEF GsffsInd, Unlink, Alone, Quiet
<1>1. s \in Hits(n) /\ s \in Sectors /\ flash[s] \in Images /\ HoldsFile(flash[s], n)
  BY <1>0, SearchesFind, TypesOf DEF Unlink, Hits, HoldsFile
<1>2. image \in Images /\ image.stat = "deleted"
  <2> HIDE DEF s
  <2> QED
    BY <1>1 DEF Images
<1>3. /\ flash' = [flash EXCEPT ![s] = i]
      /\ Leaves([gsffs EXCEPT !.buf = image])
      /\ kept' = Settles(n, Absent)
      /\ pending = NoCall
      /\ UNCHANGED <<pending, handle, wrote>>
  BY DEF Unlink
<1>4. i \in Images /\ i.stat = "deleted"
  <2> HIDE DEF s, image
  <2> QED
    BY <1>1, <1>2, ProgrammedImage
<1>5. /\ kept' = [kept EXCEPT ![n] = x] /\ kept'[n] = x
      /\ x \in Data \cup {Absent, Unknown}
  BY <1>0, <1>3, SettlesIt
<1>6. x \in {Absent, Unknown} /\ (x = Absent => kept[n] # Unknown)
  BY AbsentIsKnown
<1> HIDE DEF s, image, i, x
<1>7. Hits(n)' = Hits(n) \ {s}
  BY <1>0, <1>1, <1>3, <1>4, OneSectorChanges, TypesOf DEF HoldsFile
<1>8. KeptFits(n)'
  <2>1. x = Absent => Hits(n) = {s}
    BY <1>0, <1>1, <1>6, TypesOf DEF KeptFits
  <2>2. kept'[n] = Absent => Hits(n)' = {}
    BY <1>5, <1>7, <2>1
  <2>3. kept'[n] \notin Data
    BY <1>0, <1>5, <1>6, TypesOf
  <2> QED
    BY <2>2, <2>3 DEF KeptFits
<1>9. /\ gsffs' \in Descriptors
      /\ handle' \in [Handles -> FileNames \cup {NoName}]
      /\ wrote' \in [Handles -> Data \cup {Unknown}]
      /\ CallFits(h)'
  BY <1>0, <1>2, <1>3, TypesOf, LeavesDescriptor, DescriptorKept DEF CallFits
<1>10. \A m \in FileNames \ {n} : ~ HoldsFile(flash[s], m) /\ ~ HoldsFile(i, m)
  BY <1>1, <1>4 DEF HoldsFile
<1> QED
  BY <1>1, <1>3, <1>4, <1>5, <1>8, <1>9, <1>10, FileWritten

\* A format leaves no file, and no call is under way.
LEMMA BlankFlash ==
    ASSUME flash = [s \in Sectors |-> BlankImage],
           kept = [n \in FileNames |-> Absent]
    PROVE  /\ flash \in [Sectors -> Images]
           /\ kept \in [FileNames -> Data \cup {Absent, Unknown}]
           /\ UnusedIsBlank
           /\ \A n \in FileNames : KeptFits(n)
<1>1. BlankImage \in Images /\ BlankImage.stat = "unused"
  BY DEF BlankImage, Images, Data
<1>2. \A s \in Sectors : flash[s] = BlankImage
  OBVIOUS
<1>3. \A n \in FileNames : Hits(n) = {}
  BY <1>1, <1>2 DEF Hits
<1>4. Absent \notin Data
  BY GsffsAssumption DEF Data
<1> QED
  BY <1>1, <1>2, <1>3, <1>4 DEF UnusedIsBlank, KeptFits

LEMMA GsffsStarts ==
    ASSUME NEW h, Handles = {h}, GsffsInit
    PROVE  GsffsInd
<1>1. BlankImage \in Images
  BY DEF BlankImage, Images, Data
<1>2. gsffs \in [buf : Images, sector : Sectors \cup {NoSector}, new : BOOLEAN, dirty : BOOLEAN]
  BY <1>1 DEF GsffsInit, ClosedFd
<1>3. /\ handle \in [Handles -> FileNames \cup {NoName}]
      /\ wrote \in [Handles -> Data \cup {Unknown}]
      /\ handle[h] = NoName /\ pending = NoCall
  BY DEF GsffsInit
<1> QED
  BY <1>2, <1>3, BlankFlash DEF GsffsInit, GsffsInd, GsffsTypeOK, CallFits

LEMMA FormatKept ==
    ASSUME NEW h, Handles = {h}, GsffsInd, Format
    PROVE  GsffsInd'
<1>0. GsffsTypeOK
  BY DEF GsffsInd
<1>1. /\ flash' = [s \in Sectors |-> BlankImage]
      /\ kept' = [n \in FileNames |-> Absent]
      /\ pending = NoCall /\ handle[h] = NoName
      /\ UNCHANGED <<gsffs, pending, handle, wrote>>
  BY DEF Format, Quiet
<1>2. BlankImage \in Images /\ BlankImage.stat = "unused"
  BY DEF BlankImage, Images, Data
<1>3. \A s \in Sectors : flash'[s] = BlankImage
  BY <1>1
<1>4. \A n \in FileNames : Hits(n)' = {}
  BY <1>2, <1>3 DEF Hits
<1>5. \A n \in FileNames : KeptFits(n)'
  BY <1>0, <1>1, <1>4, TypesOf DEF KeptFits
<1>6. GsffsTypeOK' /\ UnusedIsBlank'
  BY <1>0, <1>1, <1>2, <1>3 DEF GsffsTypeOK, UnusedIsBlank
<1> QED
  BY <1>1, <1>5, <1>6 DEF GsffsInd, CallFits

LEMMA GsffsSteps ==
    ASSUME NEW h, Handles = {h}, GsffsInd, [GsffsNext]_gsffsVars
    PROVE  GsffsInd' /\ (~ Format => SavedStay)
<1>1. CASE GsffsNext
  <2>1. ASSUME NEW n \in FileNames,
               (\E truncate \in BOOLEAN : OpenOld(h, n, truncate)) \/ OpenNew(h, n)
        PROVE  GsffsInd' /\ SavedStay
    BY <2>1, OpenOldKept, OpenNewKept
  <2>2. ASSUME NEW d \in Data, Write(h, d)
        PROVE  GsffsInd' /\ SavedStay
    BY <2>2, WriteKept
  <2>3. ASSUME \/ CreateFails \/ SaveFails \/ CloseOnly(h) \/ PowerFails
               \/ \E n \in FileNames : OpenFails(n) \/ UnlinkFails(n)
        PROVE  GsffsInd' /\ SavedStay
    BY <2>3, EndsOfCalls
  <2>4. ASSUME CloseOld(h) \/ CloseNew(h)
        PROVE  GsffsInd' /\ SavedStay
    BY <2>4, CloseOldKept, CloseNewKept
  <2>5. ASSUME Create \/ Search \/ Save
        PROVE  GsffsInd' /\ SavedStay
    BY <2>5, CreateKept, SearchKept, SaveKept
  <2>6. ASSUME NEW n \in FileNames, Unlink(n)
        PROVE  GsffsInd' /\ SavedStay
    BY <2>6, UnlinkKept
  <2>7. CASE Format
    BY <2>7, FormatKept
  <2> QED
    BY <1>1, <2>1, <2>2, <2>3, <2>4, <2>5, <2>6, <2>7 DEF GsffsNext
<1>2. CASE UNCHANGED gsffsVars
  <2>1. UNCHANGED <<flash, gsffs, pending, handle, wrote, kept>>
    BY <1>2 DEF gsffsVars
  <2>2. CallFits(h)'
    BY <2>1, FlashStays DEF GsffsInd, CallFits, OpenFits, ReplaceFits, CreateFits, BufferIsOf, Hits
  <2> QED
    BY <2>1, <2>2, QuietCall, TypesOf DEF GsffsInd
<1> QED
  BY <1>1, <1>2

\* The invariant that the runs check follows: what is known of a file is found
\* and listed as it is.
LEMMA WhatIsKnownIsFound ==
    ASSUME GsffsInd
    PROVE  GsffsInv
<1>0. GsffsTypeOK
  BY DEF GsffsInd
<1>1. ASSUME NEW n \in FileNames, kept[n] # Unknown
      PROVE  /\ IF kept[n] = Absent THEN ~ Found(n)
                ELSE Found(n) /\ flash[Min(Hits(n))].data = kept[n]
             /\ Cardinality(Listed(n)) = IF kept[n] = Absent THEN 0 ELSE 1
  <2>1. KeptFits(n)
    BY DEF GsffsInd
  <2>2. Listed(n) \subseteq Hits(n)
    BY DEF Listed, Hits
  <2>3. CASE kept[n] = Absent
    <3>1. Hits(n) = {} /\ Listed(n) = {}
      BY <2>1, <2>2, <2>3 DEF KeptFits
    <3> QED
      BY <2>3, <3>1, FS_EmptySet DEF Found
  <2>4. CASE kept[n] # Absent
    <3>1. kept[n] \in Data
      BY <1>0, <1>1, <2>4, TypesOf
    <3>2. PICK s \in Sectors :
             Hits(n) = {s} /\ flash[s].stat = "saved" /\ flash[s].data = kept[n]
      BY <2>1, <3>1 DEF KeptFits
    <3>3. Min(Hits(n)) = s
      BY <1>0, <3>2, SearchesFind
    <3>4. Found(n) /\ flash[Min(Hits(n))].data = kept[n]
      BY <3>2, <3>3 DEF Found
    <3>5. s \in Listed(n)
      BY <3>2 DEF Listed, Hits
    <3>6. Listed(n) = {s}
      BY <2>2, <3>2, <3>5
    <3> QED
      BY <2>4, <3>4, <3>6, FS_Singleton
  <2> QED
    BY <2>3, <2>4
<1> QED
  BY <1>0, <1>1 DEF GsffsInv, FilesAreKept, ListedOnce

\* What is on the flash is what the calls of the small file system have said,
\* at every moment at which the power may fail (GsffsInv), for one open file at
\* a time and whatever the files' names, their data and the sizes of the blocks.
THEOREM GsffsInvariant ==
    ASSUME NEW h, Handles = {h}
    PROVE  GsffsSpec => []GsffsInv
<1>1. GsffsInit => GsffsInd
  BY GsffsStarts
<1>2. GsffsInd /\ [GsffsNext]_gsffsVars => GsffsInd'
  BY GsffsSteps
<1>3. GsffsInd => GsffsInv
  BY WhatIsKnownIsFound
<1> QED
  BY <1>1, <1>2, <1>3, PTL DEF GsffsSpec

\* A sector that holds a file stays as it is until the file is replaced or
\* unlinked, unless the flash is formatted (SavedSectorsStay): a block is never
\* erased under a file, and no call programs over one (search_blank_sector(),
\* close_gsffs()).
THEOREM SavedSectorsAreKept ==
    ASSUME NEW h, Handles = {h}
    PROVE  GsffsSpec => SavedSectorsStay
<1>1. GsffsInit => GsffsInd
  BY GsffsStarts
<1>2. GsffsInd /\ [GsffsNext]_gsffsVars => GsffsInd'
  BY GsffsSteps
<1>3. GsffsInd /\ [GsffsNext]_gsffsVars =>
         [~ Format => \A s \in Sectors : flash[s].stat = "saved" =>
             flash'[s] = flash[s] \/ flash'[s].stat = "deleted"]_gsffsVars
  BY GsffsSteps DEF SavedStay
<1> QED
  BY <1>1, <1>2, <1>3, PTL DEF GsffsSpec, SavedSectorsStay

=============================================================================
