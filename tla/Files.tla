------------------------------- MODULE Files --------------------------------
(***************************************************************************)
(* File descriptors, open files and the regions of memory that are mapped  *)
(* from files (task/filedesc.cc, vfs/openfile.cc, mem/vmtree.cc and the    *)
(* system calls that use them).  An open file is a slot of the global file *)
(* table with a count of references, one per descriptor and one per        *)
(* region, and a count of usages, one per thread in a system call.         *)
(* Processes share files after clone.                                      *)
(*                                                                         *)
(* What is done under PLOCK_FDS of a process, under the lock of its        *)
(* regions or under the lock of a file is one step.  Left out are the      *)
(* references that no process of the model can take: of mount points       *)
(* (vfs/ms.cc), of the file that a driver gets for a channel               *)
(* (vfs/channel.cc) and of files that the kernel opens for itself.         *)
(***************************************************************************)
EXTENDS Integers, Sequences, FiniteSets

CONSTANTS
  Procs,        \* processes
  First,        \* the process that exists at the beginning
  Threads,      \* their threads
  ProcOf,       \* the process of every thread
  FileSlots,    \* slots of the global file table
  InitFds,      \* INIT_FD_COUNT
  MaxFds,       \* MAX_FD_COUNT
  Addrs,        \* places for a region in every address space
  Calls,        \* the system calls that every thread makes
  Null          \* no file

CallNames == {"open", "use", "truncate", "close", "dup", "redirect", "mmap", "munmap",
              "clone", "exit"}

(***************************************************************************)
(* The sizes that a table takes on its way from InitFds to MaxFds: it is   *)
(* doubled until it has exactly MaxFds entries (8 and 1024 in the code).   *)
(***************************************************************************)
TableSizes(S) == InitFds \in S /\ \A n \in S : n = MaxFds \/ 2 * n \in S

ASSUME FilesAssumption ==
  /\ First \in Procs
  /\ IsFiniteSet(Procs) /\ IsFiniteSet(Threads) /\ IsFiniteSet(Addrs)
  /\ ProcOf \in [Threads -> Procs]
  /\ InitFds \in Nat \ {0} /\ MaxFds \in Nat
  /\ \E S \in SUBSET (1..MaxFds) : TableSizes(S)
  /\ Calls \in [Threads -> SUBSET CallNames]
  /\ Null \notin FileSlots

VARIABLES
  proc,         \* "none", "alive", "exiting" or, without its table, "unmapping"
  fds,          \* fileDescs: the files of the descriptors, counted from 1
  regtree,      \* the files of the regions of every process
  file,         \* the slots: used (flags # 0), refs and uses
  pc,           \* where a thread is
  has,          \* the file that a thread has got
  slot,         \* the descriptor that it closes
  truncated,    \* files whose usage truncate has kept
  torn          \* threads that have lost what they work on to another thread

vars == <<proc, fds, regtree, file, pc, has, slot, truncated, torn>>

NoRegions == [a \in Addrs |-> Null]
Free == [used |-> FALSE, refs |-> 0, uses |-> 0]

Init ==
  /\ proc = [p \in Procs |-> IF p = First THEN "alive" ELSE "none"]
  /\ fds = [p \in Procs |-> IF p = First THEN [i \in 1..InitFds |-> Null] ELSE <<>>]
  /\ regtree = [p \in Procs |-> NoRegions]
  /\ file = [f \in FileSlots |-> Free]
  /\ pc = [t \in Threads |-> IF ProcOf[t] = First THEN "user" ELSE "none"]
  /\ has = [t \in Threads |-> Null]
  /\ slot = [t \in Threads |-> 0]
  /\ truncated = {}
  /\ torn = {}

Valid(p, fd) == fd \in 1..Len(fds[p]) /\ fds[p][fd] # Null
MayCall(t, c) == pc[t] = "user" /\ c \in Calls[t]
Goto(t, l) == pc' = [pc EXCEPT ![t] = l]
Hold(t, f) == has' = [has EXCEPT ![t] = f]

(* The end of a system call, and of one round of FileDesc::destroy. *)
Back(t) == IF proc[ProcOf[t]] = "exiting" THEN "exit" ELSE "user"

(***************************************************************************)
(* OpenFile::doClose: the file is freed with the last reference when there *)
(* is no usage but the one of the caller.                                  *)
(***************************************************************************)
(* Variant: one usage too many is taken for the one of the caller. *)
doClose_early(r) ==
  LET n == IF r.refs > 0 THEN r.refs - 1 ELSE 0
  IN IF n = 0 /\ r.uses <= 2 THEN Free ELSE [r EXCEPT !.refs = n]

doClose(r) ==
  LET n == IF r.refs > 0 THEN r.refs - 1 ELSE 0
  IN IF n = 0 /\ r.uses <= 1 THEN Free ELSE [r EXCEPT !.refs = n]

(* Variant: the last user does not close the file. *)
decUsages_only(r) == [r EXCEPT !.uses = @ - 1]

(* OpenFile::decUsages closes a file that nobody refers to anymore. *)
decUsages(r) ==
  LET d == [r EXCEPT !.uses = @ - 1]
  IN IF d.uses = 0 /\ d.refs = 0 THEN doClose(d) ELSE d

incUsages(f) == file' = [file EXCEPT ![f].uses = @ + 1]

(***************************************************************************)
(* FileDesc::doAssoc: the limit (and a variant off by one), and f in the   *)
(* first free entry of the table of p, which is doubled if there is none.  *)
(***************************************************************************)
hasRoom_over(fd) == (\E i \in DOMAIN fd : fd[i] = Null) \/ Len(fd) <= MaxFds
hasRoom(fd) == (\E i \in DOMAIN fd : fd[i] = Null) \/ Len(fd) < MaxFds

doAssoc(p, f) ==
  /\ hasRoom(fds[p])
  /\ \/ \E i \in DOMAIN fds[p] :
          /\ fds[p][i] = Null /\ \A j \in 1..(i - 1) : fds[p][j] # Null
          /\ fds' = [fds EXCEPT ![p][i] = f]
     \/ LET n == Len(fds[p])
        IN /\ \A i \in DOMAIN fds[p] : fds[p][i] # Null
           /\ fds' = [fds EXCEPT ![p] =
                        [i \in 1..(2 * n) |-> IF i <= n THEN fds[p][i]
                                             ELSE IF i = n + 1 THEN f ELSE Null]]

-----------------------------------------------------------------------------
(* open: OpenFile::getFree and then FileDesc::assoc. *)
open(t) ==
  /\ MayCall(t, "open")
  /\ \E f \in FileSlots :
       /\ ~file[f].used
       /\ file' = [file EXCEPT ![f] = [used |-> TRUE, refs |-> 1, uses |-> 0]]
       /\ Hold(t, f)
       /\ truncated' = truncated \ {f}
  /\ Goto(t, "opened")
  /\ UNCHANGED <<proc, fds, regtree, slot, torn>>

assoc(t) ==
  /\ pc[t] = "opened"
  /\ \/ /\ doAssoc(ProcOf[t], has[t])
        /\ Hold(t, Null)
        /\ Goto(t, "user")
     \/ /\ ~hasRoom(fds[ProcOf[t]])
        /\ Goto(t, "openFailed")
        /\ UNCHANGED <<fds, has>>
  /\ UNCHANGED <<proc, regtree, file, slot, truncated, torn>>

openFailed(t) ==
  /\ pc[t] = "openFailed"
  /\ file' = [file EXCEPT ![has[t]] = doClose(@)]
  /\ Hold(t, Null)
  /\ Goto(t, "user")
  /\ UNCHANGED <<proc, fds, regtree, slot, truncated, torn>>

(***************************************************************************)
(* FileDesc::request, for a call that uses the file and releases it, for   *)
(* truncate, which does not release it, and for close.                     *)
(***************************************************************************)
request(t, fd, l) ==
  /\ Valid(ProcOf[t], fd)
  /\ incUsages(fds[ProcOf[t]][fd])
  /\ Hold(t, fds[ProcOf[t]][fd])
  /\ Goto(t, l)
  /\ UNCHANGED <<proc, fds, regtree>>

use(t, fd) ==
  /\ MayCall(t, "use")
  /\ request(t, fd, "release")
  /\ UNCHANGED <<slot, truncated, torn>>

release(t) ==
  /\ pc[t] = "release"
  /\ file' = [file EXCEPT ![has[t]] = decUsages(@)]
  /\ Hold(t, Null)
  /\ Goto(t, Back(t))
  /\ UNCHANGED <<proc, fds, regtree, slot, truncated, torn>>

truncate(t, fd) ==
  /\ MayCall(t, "truncate")
  /\ Valid(ProcOf[t], fd) /\ fds[ProcOf[t]][fd] \notin truncated      \* a bound
  /\ request(t, fd, "truncate")
  /\ UNCHANGED <<slot, truncated, torn>>

truncateEnd(t) ==
  /\ pc[t] = "truncate"
  /\ truncated' = truncated \cup {has[t]}
  /\ Hold(t, Null)
  /\ Goto(t, "user")
  /\ UNCHANGED <<proc, fds, regtree, file, slot, torn>>

close(t, fd) ==
  /\ MayCall(t, "close")
  /\ request(t, fd, "unassoc")
  /\ slot' = [slot EXCEPT ![t] = fd]
  /\ UNCHANGED <<truncated, torn>>

(* Another thread may have closed or redirected the descriptor meanwhile. *)
unassoc(t) ==
  /\ pc[t] = "unassoc"
  /\ fds' = [fds EXCEPT ![ProcOf[t]][slot[t]] = Null]
  /\ slot' = [slot EXCEPT ![t] = 0]
  /\ Goto(t, "close")
  /\ torn' = IF fds[ProcOf[t]][slot[t]] = has[t] THEN torn ELSE torn \cup {t}
  /\ UNCHANGED <<proc, regtree, file, has, truncated>>

closeFile(t) ==
  /\ pc[t] = "close"
  /\ file' = [file EXCEPT ![has[t]] = doClose(@)]
  /\ IF file'[has[t]].used
     THEN Goto(t, "release") /\ UNCHANGED has
     ELSE Goto(t, Back(t)) /\ Hold(t, Null)
  /\ UNCHANGED <<proc, fds, regtree, slot, truncated, torn>>

(***************************************************************************)
(* Descriptors and regions that are given away with a reference, and those *)
(* that are dropped without a usage: FileDesc::redirect and VMTree::remove *)
(* close a file that they have not requested.  doClose takes for granted   *)
(* that such a file is in no use anymore when its last reference goes:     *)
(* "otherwise it is 0, because it is used kernel-intern only and not       *)
(* passed to other users".  Bereft are the threads that do use it then.    *)
(***************************************************************************)
Bereft(files, f) == IF files[f].refs = 1 THEN {s \in Threads : has[s] = f} ELSE {}

(* Variant: the new descriptor does not count. *)
dup_noRef(t, fd) ==
  LET p == ProcOf[t]
  IN /\ MayCall(t, "dup")
     /\ Valid(p, fd)
     /\ doAssoc(p, fds[p][fd])
     /\ UNCHANGED <<proc, regtree, file, pc, has, slot, truncated, torn>>

dup(t, fd) ==
  LET p == ProcOf[t]
  IN /\ MayCall(t, "dup")
     /\ Valid(p, fd)
     /\ doAssoc(p, fds[p][fd])
     /\ file' = [file EXCEPT ![fds[p][fd]].refs = @ + 1]
     /\ UNCHANGED <<proc, regtree, pc, has, slot, truncated, torn>>

redirect(t, src, dst) ==
  LET p == ProcOf[t]
      more == [file EXCEPT ![fds[p][dst]].refs = @ + 1]
  IN /\ MayCall(t, "redirect")
     /\ Valid(p, src) /\ Valid(p, dst)
     /\ file' = [more EXCEPT ![fds[p][src]] = doClose(@)]
     /\ fds' = [fds EXCEPT ![p][src] = fds[p][dst]]
     /\ torn' = torn \cup Bereft(more, fds[p][src])
     /\ UNCHANGED <<proc, regtree, pc, has, slot, truncated>>

(***************************************************************************)
(* mmap: VirtMem::map gives the region a reference, before the file is     *)
(* released.  It may fail before that, for want of memory or of a place,   *)
(* or after that, and then removes the region again.  munmap and           *)
(* VMTree::remove, which closes the file.                                  *)
(***************************************************************************)
mmap(t, fd) ==
  /\ MayCall(t, "mmap")
  /\ request(t, fd, "map")
  /\ UNCHANGED <<slot, truncated, torn>>

map(t) ==
  LET p == ProcOf[t]
      more == [file EXCEPT ![has[t]].refs = @ + 1]
  IN /\ pc[t] = "map"
     /\ \/ \E a \in Addrs :
             /\ regtree[p][a] = Null
             /\ \/ /\ regtree' = [regtree EXCEPT ![p][a] = has[t]]
                   /\ file' = more
                   /\ UNCHANGED torn
                \/ /\ file' = [more EXCEPT ![has[t]] = doClose(@)]
                   /\ torn' = torn \cup Bereft(more, has[t])
                   /\ UNCHANGED regtree
        \/ UNCHANGED <<regtree, file, torn>>
     /\ Goto(t, "release")
     /\ UNCHANGED <<proc, fds, has, slot, truncated>>

remove(p, a) ==
  LET f == regtree[p][a]
  IN /\ f # Null
     /\ file' = [file EXCEPT ![f] = doClose(@)]
     /\ regtree' = [regtree EXCEPT ![p][a] = Null]
     /\ torn' = torn \cup Bereft(file, f)

munmap(t, a) ==
  /\ MayCall(t, "munmap")
  /\ remove(ProcOf[t], a)
  /\ UNCHANGED <<proc, fds, pc, has, slot, truncated>>

(* The number of entries of a table that refer to f. *)
Entries(fd, f) == Cardinality({i \in DOMAIN fd : fd[i] = f})

(* VirtMem::cloneAll and FileDesc::clone for a new process with one thread. *)
clone(t) ==
  /\ MayCall(t, "clone")
  /\ \E p \in Procs, n \in Threads :
       /\ proc[p] = "none" /\ ProcOf[n] = p
       /\ proc' = [proc EXCEPT ![p] = "alive"]
       /\ fds' = [fds EXCEPT ![p] = fds[ProcOf[t]]]
       /\ regtree' = [regtree EXCEPT ![p] = regtree[ProcOf[t]]]
       /\ file' = [f \in FileSlots |->
                     [file[f] EXCEPT !.refs = @ + Entries(fds[ProcOf[t]], f)
                                                + Entries(regtree[ProcOf[t]], f)]]
       /\ Goto(n, "user")
  /\ UNCHANGED <<has, slot, truncated, torn>>

(***************************************************************************)
(* The last thread of a process in ProcBase::terminate: FileDesc::destroy  *)
(* closes one descriptor after the other like close does, and then         *)
(* doRemoveRegions removes the regions.                                    *)
(***************************************************************************)
exit(t) ==
  /\ MayCall(t, "exit")
  /\ \A s \in Threads \ {t} : ProcOf[s] = ProcOf[t] => pc[s] = "none"
  /\ proc' = [proc EXCEPT ![ProcOf[t]] = "exiting"]
  /\ Goto(t, "exit")
  /\ UNCHANGED <<fds, regtree, file, has, slot, truncated, torn>>

destroy(t) ==
  LET p == ProcOf[t]
  IN /\ pc[t] = "exit" /\ proc[p] = "exiting"
     /\ \/ \E i \in DOMAIN fds[p] :
             /\ fds[p][i] # Null /\ \A j \in 1..(i - 1) : fds[p][j] = Null
             /\ incUsages(fds[p][i])
             /\ Hold(t, fds[p][i])
             /\ fds' = [fds EXCEPT ![p][i] = Null]
             /\ Goto(t, "close")
             /\ UNCHANGED proc
        \/ /\ \A i \in DOMAIN fds[p] : fds[p][i] = Null
           /\ fds' = [fds EXCEPT ![p] = <<>>]
           /\ proc' = [proc EXCEPT ![p] = "unmapping"]
           /\ UNCHANGED <<file, has, pc>>
     /\ UNCHANGED <<regtree, slot, truncated, torn>>

doRemoveRegions(t) ==
  LET p == ProcOf[t]
  IN /\ pc[t] = "exit" /\ proc[p] = "unmapping"
     /\ \/ /\ \E a \in Addrs : remove(p, a)
           /\ UNCHANGED <<proc, pc>>
        \/ /\ regtree[p] = NoRegions
           /\ proc' = [proc EXCEPT ![p] = "none"]
           /\ Goto(t, "none")
           /\ UNCHANGED <<regtree, file, torn>>
     /\ UNCHANGED <<fds, has, slot, truncated>>

Kernel(t) ==
  \/ assoc(t) \/ openFailed(t) \/ release(t) \/ truncateEnd(t)
  \/ unassoc(t) \/ closeFile(t) \/ map(t) \/ destroy(t) \/ doRemoveRegions(t)

Call(t) ==
  \/ open(t) \/ clone(t) \/ exit(t)
  \/ \E fd \in 1..MaxFds : \/ use(t, fd) \/ truncate(t, fd) \/ close(t, fd)
                           \/ dup(t, fd) \/ mmap(t, fd)
  \/ \E a \in Addrs : munmap(t, a)
  \/ \E src, dst \in 1..MaxFds : redirect(t, src, dst)

Next == \E t \in Threads : Call(t) \/ Kernel(t)

(* The scheduler runs every thread, and a usage of a file ends. *)
Fairness == \A t \in Threads : WF_vars(Kernel(t))

Spec == Init /\ [][Next]_vars /\ Fairness

-----------------------------------------------------------------------------
(* Every variable has its type, and no table has more than MaxFds entries. *)
TypeOK ==
  /\ proc \in [Procs -> {"none", "alive", "exiting", "unmapping"}]
  /\ fds \in [Procs -> Seq(FileSlots \cup {Null})]
  /\ \A p \in Procs : Len(fds[p]) <= MaxFds
  /\ regtree \in [Procs -> [Addrs -> FileSlots \cup {Null}]]
  /\ file \in [FileSlots -> [used : BOOLEAN, refs : Nat, uses : Nat]]
  /\ pc \in [Threads -> {"none", "user", "opened", "openFailed", "release",
                         "truncate", "unassoc", "close", "map", "exit"}]
  /\ has \in [Threads -> FileSlots \cup {Null}]
  /\ slot \in [Threads -> 0..MaxFds]
  /\ truncated \in SUBSET FileSlots
  /\ torn \in SUBSET Threads

(***************************************************************************)
(* No thread is bereft of its file, and no thread has lost its descriptor  *)
(* to another one between the two steps of close.  The code rules out      *)
(* neither, and nothing is explored after it.                              *)
(***************************************************************************)
NothingTorn == torn = {}

(* Threads that have got f and are at one of the labels L. *)
At(f, L) == {t \in Threads : has[t] = f /\ pc[t] \in L}

(* The descriptors of all processes that refer to f. *)
Descs(f) ==
  {d \in Procs \X (1..MaxFds) : d[2] \in DOMAIN fds[d[1]] /\ fds[d[1]][d[2]] = f}

(* The regions of all processes that refer to f. *)
Regions(f) == {r \in Procs \X Addrs : regtree[r[1]][r[2]] = f}

(***************************************************************************)
(* The references of a file are the descriptors and the regions of all     *)
(* processes that refer to it and the threads that have opened it or are   *)
(* about to close it, through any sequence of dup, redirect, mmap, munmap, *)
(* clone, close and exit in which no thread loses its file or its          *)
(* descriptor to another one.                                              *)
(***************************************************************************)
RefsCounted ==
  NothingTorn => \A f \in FileSlots :
    file[f].refs = Cardinality(Descs(f)) + Cardinality(Regions(f))
                   + Cardinality(At(f, {"opened", "openFailed", "close"}))

(***************************************************************************)
(* A file is not freed while a descriptor or a region refers to it or a    *)
(* thread works on it, although other threads may close all descriptors    *)
(* meanwhile (usageCount: "number of threads that are currently using this *)
(* file"), provided that what doClose takes for granted holds: redirect    *)
(* and VMTree::remove never drop the last reference of a file that some    *)
(* thread uses, and no two threads close the same descriptor at once.      *)
(* Without this proviso the file is freed under the thread that uses it.   *)
(***************************************************************************)
NotFreedInUse ==
  NothingTorn =>
    /\ \A p \in Procs, i \in 1..MaxFds : Valid(p, i) => file[fds[p][i]].used
    /\ \A p \in Procs, a \in Addrs : regtree[p][a] # Null => file[regtree[p][a]].used
    /\ \A t \in Threads : has[t] # Null => file[has[t]].used

(***************************************************************************)
(* A file that has been closed is freed in the end, when the threads that  *)
(* used it are done, unless it has been truncated or one of them has       *)
(* mapped it.                                                              *)
(***************************************************************************)
ClosedIsFreed ==
  \A f \in FileSlots :
    (file[f].used /\ file[f].refs = 0)
      ~> (~file[f].used \/ f \in truncated \/ Regions(f) # {})
=============================================================================
