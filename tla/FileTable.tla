----------------------------- MODULE FileTable -----------------------------
(***************************************************************************)
(* Open files and directories (fs/file.c) of several tasks, the table of   *)
(* FatFs's objects below them (extlibs/fatfs/fatfs.c), FatFs's lock        *)
(* (extlibs/fatfs/diskio.c), and the disk that the shell mounts and        *)
(* unmounts meanwhile (fs/storage.c).  Every call of FatFs waits for the   *)
(* disk: another task may run whenever one of them is in progress.         *)
(*                                                                         *)
(* FatFs itself is not in the repository: f_open() makes an object valid,  *)
(* f_close() writes what the object still keeps and makes it invalid, and  *)
(* mounting and unmounting make the objects of the disk invalid.  f_open() *)
(* and f_opendir() mount a disk that is registered and not mounted: an     *)
(* unmounted disk stays registered, and its device answers on.             *)
(***************************************************************************)
EXTENDS Integers, FiniteSets

CONSTANTS
    Users,                  \* the tasks that use files
    GSC_FS_MAX_FILE_NUM, GSC_FATFS_MAX_FILE_NUM, GSC_FATFS_MAX_DIR_NUM,
    NoUser

ASSUME FileTableAssumption ==
    /\ {GSC_FS_MAX_FILE_NUM, GSC_FATFS_MAX_FILE_NUM, GSC_FATFS_MAX_DIR_NUM}
         \subseteq Nat \ {0}
    /\ NoUser \notin Users

Fds == 0..(GSC_FS_MAX_FILE_NUM - 1)
Objects == 0..(GSC_FATFS_MAX_FILE_NUM - 1)
Dirs == 0..(GSC_FATFS_MAX_DIR_NUM - 1)
None == -1

VARIABLES
    file_used,    \* file_desc[i].flg_used
    fatfs_used,   \* fatfs_file_desc[i].flg_used
    dir_used,     \* fatfs_dir_desc[i].fs is set
    fat, dir,     \* whose file or directory each object of FatFs is, if it is valid
    fsapi_mutex,
    at,           \* where each task is
    fd, object,   \* the descriptor and the object it has, or is opening
    unwritten,    \* the tasks with data that FatFs keeps
    mounting,     \* the tasks that found the disk unmounted in FatFs, and mount it
    storage,      \* the disk: its file system and its device are set
    volume,       \* the disk in FatFs: not registered, or registered and mounted or not
    shell,        \* where the shell is
    cut,          \* history: whose file or directory was unmounted
    crossed,      \* history: who opened, or had open, a file when the disk lost its file system
    met           \* history: who took an object that another task was at, and that task

fileTableVars == <<file_used, fatfs_used, dir_used, fat, dir, fsapi_mutex,
                   at, fd, object, unwritten, mounting, storage, volume, shell,
                   cut, crossed, met>>
fileVars == <<file_used, fatfs_used, fat, fsapi_mutex, fd, unwritten>>
dirVars == <<dir_used, dir>>
volumeVars == <<volume, mounting>>
storageVars == <<storage, shell, crossed>>

FileTableInit ==
    /\ file_used = [i \in Fds |-> FALSE] /\ fatfs_used = [i \in Objects |-> FALSE]
    /\ dir_used = [i \in Dirs |-> FALSE]
    /\ fat = [i \in Objects |-> NoUser] /\ dir = [i \in Dirs |-> NoUser]
    /\ fsapi_mutex = NoUser
    /\ at = [u \in Users |-> "idle"]
    /\ fd = [u \in Users |-> None] /\ object = [u \in Users |-> None]
    /\ unwritten = {} /\ mounting = {} /\ cut = {} /\ crossed = {} /\ met = {}
    /\ storage = [fs |-> FALSE, device |-> FALSE]
    /\ volume = "none" /\ shell = "idle"

First(used) == {i \in DOMAIN used : ~ used[i] /\ \A j \in 0..(i - 1) : used[j]}
Goes(u, stage) == at' = [at EXCEPT ![u] = stage]

\* The tasks in one of the stages, with object i.
With(i, stages) == {u \in Users : at[u] \in stages /\ object[u] = i}

\* The tasks that have a valid object.
Owners == {u \in Users : (\E i \in Objects : fat[i] = u) \/ (\E i \in Dirs : dir[i] = u)}

\* The disk is mounted or unmounted in FatFs: no object is valid any more.
Invalidates ==
    /\ cut' = cut \cup Owners
    /\ fat' = [i \in Objects |-> NoUser] /\ dir' = [i \in Dirs |-> NoUser]

\* A call that had a file or directory open, or did not get one, is over.
EndsCall(u) ==
    /\ Goes(u, "idle")
    /\ cut' = cut \ {u} /\ crossed' = crossed \ {u} /\ met' = met \ {u}

-----------------------------------------------------------------------------
(* Files. *)

\* open_file() of a path whose disk has no file system fails at once.  It looks
\* before it waits for anything.
OpenFile(u) ==
    /\ at[u] = "idle" /\ storage.fs
    /\ Goes(u, "opening")
    /\ UNCHANGED <<fileVars, object, dirVars, volumeVars, storageVars, cut, met>>

\* Mistake: a task does not wait for another one's open.
MayLook_AtOnce(u) == TRUE

MayLook(u) == fsapi_mutex = NoUser

\* With fsapi_mutex, which it waits for without end: the first free descriptor
\* and the first free object.
LooksForDescriptor(u) ==
    /\ at[u] = "opening" /\ MayLook(u)
    /\ IF First(file_used) = {} \/ First(fatfs_used) = {}
         THEN /\ EndsCall(u)
              /\ UNCHANGED <<fsapi_mutex, fd, object>>
         ELSE \E i \in First(file_used), j \in First(fatfs_used) :
                LET others == With(j, {"fclose", "fclosing"}) IN
                /\ fsapi_mutex' = u
                /\ fd' = [fd EXCEPT ![u] = i] /\ object' = [object EXCEPT ![u] = j]
                /\ Goes(u, "fopen")
                /\ met' = IF others = {} THEN met ELSE met \cup others \cup {u}
                /\ UNCHANGED <<cut, crossed>>
    /\ UNCHANGED <<file_used, fatfs_used, fat, unwritten, dirVars, volumeVars,
                   storage, shell>>

AfterLock == [fopen |-> "fopening", fopendir |-> "fopendiring", fclose |-> "fclosing"]

\* ff_req_grant() goes on when its wait has timed out, so that FatFs's lock keeps
\* nobody away and is no part of the state.  An open then looks whether the disk is
\* mounted, and mounts it if not: nothing tells it that it was unmounted on purpose.
Granted(u) ==
    /\ at[u] \in DOMAIN AfterLock
    /\ at[u] # "fclose" => volume # "none"
    /\ Goes(u, AfterLock[at[u]])
    /\ mounting' = IF at[u] # "fclose" /\ volume # "mounted" THEN mounting \cup {u} ELSE mounting
    /\ UNCHANGED <<file_used, fatfs_used, fat, fsapi_mutex, fd, object, unwritten,
                   dirVars, volume, storageVars, cut, met>>

\* The disk has been read.
MountsToOpen(u) ==
    /\ u \in mounting /\ mounting' = mounting \ {u}
    /\ volume' = "mounted" /\ Invalidates
    /\ UNCHANGED <<file_used, fatfs_used, fsapi_mutex, fd, object, at, unwritten,
                   dir_used, storageVars, met>>

\* An object of a disk that was unmounted meanwhile is not valid.
Owner(u) == IF volume = "mounted" THEN u ELSE NoUser
Cuts(u) == cut' = IF volume = "mounted" THEN cut ELSE cut \cup {u}

FOpens(u) ==
    /\ at[u] = "fopening" /\ u \notin mounting
    /\ fat' = [fat EXCEPT ![object[u]] = Owner(u)] /\ Cuts(u)
    /\ fatfs_used' = [fatfs_used EXCEPT ![object[u]] = TRUE]
    /\ file_used' = [file_used EXCEPT ![fd[u]] = TRUE]
    /\ fsapi_mutex' = NoUser
    /\ Goes(u, "open")
    /\ UNCHANGED <<fd, object, unwritten, dirVars, volumeVars, storageVars, met>>

\* There is no such file, the disk cannot be read, or it was never registered.
FOpenFails(u) ==
    /\ at[u] = "fopening" \/ (at[u] = "fopen" /\ volume = "none")
    /\ fsapi_mutex' = NoUser
    /\ fd' = [fd EXCEPT ![u] = None] /\ object' = [object EXCEPT ![u] = None]
    /\ mounting' = mounting \ {u} /\ EndsCall(u)
    /\ UNCHANGED <<file_used, fatfs_used, fat, unwritten, dirVars, volume, storage, shell>>

WriteFile(u) ==
    /\ at[u] = "open" /\ fat[object[u]] = u
    /\ unwritten' = unwritten \cup {u}
    /\ UNCHANGED <<file_used, fatfs_used, fat, fsapi_mutex, fd, object, at,
                   dirVars, volumeVars, storageVars, cut, met>>

\* close_fatfs() gives the object back before f_close(), and without a lock.
CloseFile(u) ==
    /\ at[u] = "open"
    /\ fatfs_used' = [fatfs_used EXCEPT ![object[u]] = FALSE]
    /\ Goes(u, "fclose")
    /\ UNCHANGED <<file_used, fat, fsapi_mutex, fd, object, unwritten,
                   dirVars, volumeVars, storageVars, cut, met>>

\* f_close() closes the object, whosever it is, and fails if it is not valid.
FCloses(u) ==
    /\ at[u] = "fclosing"
    /\ unwritten' = unwritten \ {fat[object[u]]}
    /\ fat' = [fat EXCEPT ![object[u]] = NoUser]
    /\ file_used' = [file_used EXCEPT ![fd[u]] = FALSE]
    /\ Goes(u, "closed")
    /\ UNCHANGED <<fatfs_used, fsapi_mutex, fd, object, dirVars, volumeVars, storageVars,
                   cut, met>>

FileClosed(u) ==
    /\ at[u] = "closed"
    /\ fd' = [fd EXCEPT ![u] = None] /\ object' = [object EXCEPT ![u] = None]
    /\ unwritten' = unwritten \ {u} /\ EndsCall(u)
    /\ UNCHANGED <<file_used, fatfs_used, fat, fsapi_mutex, dirVars, volumeVars,
                   storage, shell>>

-----------------------------------------------------------------------------
(* Directories: nothing locks their table. *)

OpendirFile(u) ==
    /\ at[u] = "idle" /\ storage.fs
    /\ \E i \in First(dir_used) :
         LET others == With(i, {"fopendir", "fopendiring", "dir"}) IN
         /\ object' = [object EXCEPT ![u] = i]
         /\ met' = IF others = {} THEN met ELSE met \cup others \cup {u}
    /\ Goes(u, "fopendir")
    /\ UNCHANGED <<fileVars, dirVars, volumeVars, storageVars, cut>>

FOpendirs(u) ==
    /\ at[u] = "fopendiring" /\ u \notin mounting
    /\ dir' = [dir EXCEPT ![object[u]] = Owner(u)] /\ Cuts(u)
    /\ dir_used' = [dir_used EXCEPT ![object[u]] = TRUE]
    /\ Goes(u, "dir")
    /\ UNCHANGED <<file_used, fatfs_used, fat, fsapi_mutex, fd, unwritten, object,
                   volumeVars, storageVars, met>>

FOpendirFails(u) ==
    /\ at[u] = "fopendiring" \/ (at[u] = "fopendir" /\ volume = "none")
    /\ object' = [object EXCEPT ![u] = None]
    /\ mounting' = mounting \ {u} /\ EndsCall(u)
    /\ UNCHANGED <<file_used, fatfs_used, fat, fsapi_mutex, fd, unwritten, dirVars,
                   volume, storage, shell>>

\* closedir_file() of an entry that has been given back does nothing.
ClosedirFile(u) ==
    /\ at[u] = "dir"
    /\ IF dir_used[object[u]]
         THEN /\ dir' = [dir EXCEPT ![object[u]] = NoUser]
              /\ dir_used' = [dir_used EXCEPT ![object[u]] = FALSE]
         ELSE UNCHANGED dirVars
    /\ object' = [object EXCEPT ![u] = None] /\ EndsCall(u)
    /\ UNCHANGED <<fileVars, volumeVars, storage, shell>>

-----------------------------------------------------------------------------
(* The disk. *)

ShellLeaves == UNCHANGED <<file_used, fatfs_used, fsapi_mutex, fd, unwritten, object, at,
                           dir_used, mounting, met>>

\* The file system is set first ...
MountStorage ==
    /\ shell = "idle" /\ ~ storage.device
    /\ storage' = [storage EXCEPT !.fs = TRUE] /\ crossed' = {}
    /\ shell' = "opening"
    /\ ShellLeaves /\ UNCHANGED <<fat, dir, volume, cut>>

\* ... and stays when the device cannot be opened.  Otherwise f_mount() registers
\* the disk.
OpensDevice ==
    /\ shell = "opening"
    /\ \/ /\ shell' = "idle"
          /\ UNCHANGED <<storage, fat, dir, volume, cut>>
       \/ /\ shell' = "mounting" /\ storage' = [storage EXCEPT !.device = TRUE]
          /\ volume' = "unmounted" /\ Invalidates
    /\ ShellLeaves /\ UNCHANGED <<crossed>>

\* The shell has the lock of FatFs, or its wait has timed out; somebody who opens a
\* file may have mounted the disk meanwhile.
LooksToMount ==
    /\ shell = "mounting"
    /\ shell' = IF volume = "mounted" THEN "idle" ELSE "reading"
    /\ ShellLeaves /\ UNCHANGED <<fat, dir, volume, storage, cut, crossed>>

\* The disk has no file system any more, whoever is opening files on it.
ForgetsDisk ==
    /\ storage' = [fs |-> FALSE, device |-> FALSE]
    /\ crossed' = Owners \cup
         {u \in Users : at[u] \in {"opening", "fopen", "fopening", "fopendir", "fopendiring"}}

\* f_mount() has read the disk, or not.
FMounts ==
    /\ shell = "reading" /\ shell' = "idle"
    /\ \/ volume' = "mounted" /\ Invalidates /\ UNCHANGED <<storage, crossed>>
       \/ ForgetsDisk /\ UNCHANGED <<volume, fat, dir, cut>>
    /\ ShellLeaves

\* unmount_fatfs() refuses what has no device, and asks for no open files.  It
\* registers the disk again, unmounted: fatfs[].device stays set.
UnmountStorage ==
    /\ shell = "idle" /\ storage.device
    /\ shell' = "unmounting"
    /\ volume' = "unmounted" /\ Invalidates
    /\ ShellLeaves /\ UNCHANGED <<storage, crossed>>

Unmounted ==
    /\ shell = "unmounting" /\ shell' = "idle"
    /\ ForgetsDisk
    /\ ShellLeaves /\ UNCHANGED <<fat, dir, volume, cut>>

FileTableNext ==
    \/ \E u \in Users :
         \/ OpenFile(u) \/ LooksForDescriptor(u) \/ Granted(u) \/ MountsToOpen(u)
         \/ FOpens(u) \/ FOpenFails(u)
         \/ WriteFile(u) \/ CloseFile(u) \/ FCloses(u) \/ FileClosed(u)
         \/ OpendirFile(u) \/ FOpendirs(u) \/ FOpendirFails(u) \/ ClosedirFile(u)
    \/ MountStorage \/ OpensDevice \/ LooksToMount \/ FMounts
    \/ UnmountStorage \/ Unmounted

FileTableSpec == FileTableInit /\ [][FileTableNext]_fileTableVars

-----------------------------------------------------------------------------
(* Properties. *)

FileTableTypeOK ==
    /\ fat \in [Objects -> Users \cup {NoUser}] /\ dir \in [Dirs -> Users \cup {NoUser}]
    /\ at \in [Users -> {"idle", "opening", "fopen", "fopening", "open", "fclose",
                          "fclosing", "closed", "fopendir", "fopendiring", "dir"}]
    /\ fsapi_mutex \in Users \cup {NoUser}

\* Whatever fails, every descriptor and every object that is in use has the one
\* task that opened it, and is free when that task has closed it.
NothingLeaks ==
    /\ \A i \in Fds :
         LET have == {u \in Users : fd[u] = i /\ at[u] \in {"open", "fclose", "fclosing"}} IN
         Cardinality(have) = IF file_used[i] THEN 1 ELSE 0
    /\ \A i \in Objects : Cardinality(With(i, {"open"})) = IF fatfs_used[i] THEN 1 ELSE 0
    /\ \A u \in Users : fsapi_mutex = u <=> at[u] \in {"fopen", "fopening"}

\* A task that has a file or a directory open has FatFs's object to itself.
\* Excepted are those that met at an object: a task takes the object of another
\* one that is still in f_close(), or two that open directories take the same.
ObjectsAreTheirs ==
    \A u \in Users \ (met \cup cut) :
        /\ at[u] = "open" => fat[object[u]] = u
        /\ at[u] = "dir" => dir_used[object[u]] /\ dir[object[u]] = u

\* What was written is on the disk when the file is closed, with the exceptions
\* of ObjectsAreTheirs, and unless the disk was unmounted.
ClosedFilesAreWritten ==
    \A u \in Users \ (met \cup cut) : at[u] = "closed" => u \notin unwritten

\* A file or directory that is valid is on a disk that FatFs has mounted.  Once
\* mount_storage() or unmount_storage() has taken the file system of the disk
\* away, only those have one there that were opening it at that moment: FatFs has
\* mounted the disk again for them (open_file(), unmount_fatfs()).
DiskIsThere ==
    \A u \in Owners : volume = "mounted" /\ (storage.fs \/ u \in crossed)

\* Open files and directories.
FileTableInv ==
    /\ FileTableTypeOK /\ NothingLeaks /\ ObjectsAreTheirs /\ ClosedFilesAreWritten
    /\ DiskIsThere
=============================================================================
