--------------------------- MODULE MemoryManagement ---------------------------
(***************************************************************************)
(* memory_management.c: a program that takes blocks from the heap, maps a  *)
(* file, changes it through the mapping and reads it back.  Any call may   *)
(* fail and a run may be killed between any two of them, or in the middle  *)
(* of the change, and be started again; the file stays.                    *)
(*                                                                         *)
(* Of the file only the length is kept, and how much of the change at      *)
(* offset 20 is made (the comment in the code means offset 19).  What is   *)
(* printed of verify_buffer is left out: read() puts no NUL there, and     *)
(* what follows the content of the file is anything.                       *)
(***************************************************************************)
EXTENDS Naturals

CONSTANT
    MaxCrashes  \* bound: how often a run is killed

VARIABLES
    pc,         \* the call the program makes next
    live,       \* the blocks, descriptors and mappings that are not given back
    length,     \* of test_mmap.txt: "none", "short" or "full"
    copied,     \* how much of the change at offset 20 is made: 0, 1 (a part) or 2
    failed,     \* did a call of this run fail?
    crashes

disk == <<length, copied>>
vars == <<pc, live, disk, failed, crashes>>

Resources == {"arr", "buffer", "heap_ptr", "fd", "addr", "aligned_ptr"}

TypeOK ==
    /\ pc \in {"malloc", "realloc", "free_arr", "calloc", "free_buffer", "stack",
               "store", "free_heap_ptr", "open", "write", "mmap", "print",
               "memcpy", "msync", "munmap", "close", "verify", "read",
               "close_verify", "memalign", "free_aligned", "realloc_failed",
               "mmap_failed", "ended", "exit", "killed"}
    /\ live \in SUBSET Resources
    /\ length \in {"none", "short", "full"}
    /\ copied \in 0..2
    /\ failed \in BOOLEAN
    /\ crashes \in 0..MaxCrashes

Init ==
    /\ pc = "malloc"
    /\ live = {}
    /\ length = "none"
    /\ copied = 0
    /\ failed = FALSE
    /\ crashes = 0

Step(from, to) == pc = from /\ pc' = to

\* A call that takes r; where the program goes if it fails.
Take(from, r, to, else) ==
    \/ Step(from, to) /\ live' = live \cup {r} /\ UNCHANGED failed
    \/ Step(from, else) /\ UNCHANGED live /\ failed' = TRUE

Give(from, r, to) == Step(from, to) /\ live' = live \ {r} /\ UNCHANGED failed

\* free(NULL) and close(-1) are harmless.
Heap ==
    /\ \/ Take("malloc", "arr", "realloc", "exit")
       \/ Take("realloc", "arr", "free_arr", "realloc_failed")
       \/ Give("free_arr", "arr", "calloc")
       \/ Take("calloc", "buffer", "free_buffer", "exit")
       \/ Give("free_buffer", "buffer", "stack")
       \/ Take("stack", "heap_ptr", "store", "store")
       \/ Give("free_heap_ptr", "heap_ptr", "open")
    /\ UNCHANGED <<disk, crashes>>

\* Seeded fault: the array that realloc() left alone is forgotten.
ReallocFailedLeaks ==
    /\ Step("realloc_failed", "exit")
    /\ UNCHANGED <<live, disk, failed, crashes>>

ReallocFailed ==
    /\ Give("realloc_failed", "arr", "exit")
    /\ UNCHANGED <<disk, crashes>>

\* "*heap_ptr = 100", whether malloc() succeeded or not.
Store ==
    /\ Step("store", IF "heap_ptr" \in live THEN "free_heap_ptr" ELSE "killed")
    /\ UNCHANGED <<live, disk, failed, crashes>>

OpenFile ==
    /\ Take("open", "fd", "write", "exit")
    /\ length' = IF "fd" \in live' THEN "none" ELSE length
    /\ copied' = IF "fd" \in live' THEN 0 ELSE copied
    /\ UNCHANGED crashes

\* The result of write() is not looked at.
WriteFile ==
    /\ Step("write", "mmap")
    /\ length' \in {"none", "short", "full"}
    /\ failed' = (failed \/ length' # "full")
    /\ UNCHANGED <<live, copied, crashes>>

Map ==
    /\ Take("mmap", "addr", "print", "mmap_failed")
    /\ UNCHANGED <<disk, crashes>>

MapFailed ==
    /\ Give("mmap_failed", "fd", "exit")
    /\ UNCHANGED <<disk, crashes>>

\* A mapping of nothing: SIGBUS.
PrintMapped ==
    /\ Step("print", IF length = "none" THEN "killed" ELSE "memcpy")
    /\ UNCHANGED <<live, disk, failed, crashes>>

\* What lies behind the end of the file is not part of it.
CopyInto ==
    /\ \/ copied = 0 /\ length = "full" /\ Step("memcpy", "memcpy") /\ copied' = 1
       \/ copied = 1 /\ Step("memcpy", "msync") /\ copied' = 2
       \/ length = "short" /\ Step("memcpy", "msync") /\ copied' \in 0..2
    /\ UNCHANGED <<live, length, failed, crashes>>

\* The mapping is shared: msync() may fail, the next read() sees the change.
Unmap ==
    /\ \/ Step("msync", "munmap") /\ UNCHANGED live /\ failed' \in {failed, TRUE}
       \/ Give("munmap", "addr", "close")
       \/ Give("close", "fd", "verify")
    /\ UNCHANGED <<disk, crashes>>

\* Neither result is looked at.
Verify ==
    /\ \/ Take("verify", "fd", "read", "read")
       \/ /\ Step("read", "close_verify")
          /\ UNCHANGED live /\ failed' \in {failed, TRUE}
       \/ Give("close_verify", "fd", "memalign")
    /\ UNCHANGED <<disk, crashes>>

\* A failure of posix_memalign() is printed, and the run goes on to its end.
Aligned ==
    /\ \/ Take("memalign", "aligned_ptr", "free_aligned", "ended")
       \/ Give("free_aligned", "aligned_ptr", "ended")
    /\ UNCHANGED <<disk, crashes>>

\* The run is killed, or has ended, and the program is started once more.
Crash ==
    /\ crashes < MaxCrashes
    /\ crashes' = crashes + 1
    /\ pc' = "malloc" /\ live' = {} /\ failed' = FALSE
    /\ UNCHANGED disk

Next ==
    \/ Heap
    \/ ReallocFailed
    \/ Store
    \/ OpenFile
    \/ WriteFile
    \/ Map
    \/ MapFailed
    \/ PrintMapped
    \/ CopyInto
    \/ Unmap
    \/ Verify
    \/ Aligned
    \/ Crash

Spec == Init /\ [][Next]_vars

-----------------------------------------------------------------------------
(* Properties.                                                             *)

\* Whichever call fails, a run that comes to an end has given back all it took:
\* no block, descriptor or mapping is left at "return 0" or exit(1); and it is
\* only after a failure nobody looked at that a signal ends it
\* (lines 13-86, 100-108, 139-153).
HeapDiscipline ==
    /\ pc \in {"ended", "exit"} => live = {}
    /\ pc = "killed" => failed

\* What is read back is the file with all of the change in it, unless a call
\* failed, also if the run before was killed half-way (lines 67-106).
MappedPersists ==
    pc = "read" /\ ~failed => length = "full" /\ copied = 2
=============================================================================
