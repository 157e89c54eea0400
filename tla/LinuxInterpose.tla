--------------------------- MODULE LinuxInterpose ---------------------------
(***************************************************************************)
(* memory_tools/impl/linux.cpp: malloc, realloc, calloc and free of a      *)
(* program, from before the library's constructor runs until after it has  *)
(* found the C library's functions.  Until then they are served by the     *)
(* pool of StaticAllocator; a block may well outlive that time, and a call *)
(* has to reach whoever handed its block out.                              *)
(*                                                                         *)
(* The C library also hands out blocks by functions nobody replaces        *)
(* (posix_memalign, strdup within the library, ...).                       *)
(***************************************************************************)
EXTENDS StaticAllocator

CONSTANTS
  MutexSize,  \* sizeof(std::recursive_mutex)
  MaxHeap     \* bound on the blocks of the C library's held at once

ASSUME MutexSizeAssumption == MutexSize \in Sizes
ASSUME MaxHeapAssumption == MaxHeap \in Nat

(* In the order in which __linux_memory_tools_init looks for them.          *)
Originals == <<"malloc", "realloc", "calloc", "free">>

VARIABLES
  found,  \* how many of the originals are found
  mutex,  \* the block of g_memory_function_recursive_mutex, once allocated
  flag,   \* g_static_initialization_complete
  heap,   \* how many blocks of the C library's the program holds
  end     \* how the program ended, if it did

startVars == <<found, mutex, flag, heap, end>>
linuxVars == <<poolVars, startVars>>

Running == [how |-> "running"]
Exited  == [how |-> "exited"]

(* A call through a null pointer, or with memory of the other allocator:    *)
(* undefined, and followed no further.                                      *)
NullCall(fn)        == [how |-> "null call", fn |-> fn]
ForeignBlock(fn, b) == [how |-> "foreign block", fn |-> fn, block |-> b]

LinuxTypeOK ==
  /\ TypeOK
  /\ found \in 0 .. 4
  /\ mutex \subseteq live /\ Cardinality(mutex) <= 1
  /\ flag \in BOOLEAN
  /\ heap \in 0 .. MaxHeap
  /\ end.how \in {"running", "exited", "null call", "foreign block"}

LinuxInit ==
  /\ Init
  /\ found = 0
  /\ mutex = {}
  /\ flag = FALSE
  /\ heap = 0
  /\ end = Running

Found(fn) == \E i \in 1 .. found : Originals[i] = fn

-----------------------------------------------------------------------------
(* The constructor.  Its calls of dlsym() may allocate, like any code that  *)
(* runs before or beside it.                                                *)
FindOriginal ==
  /\ end = Running
  /\ found < 4
  /\ found' = found + 1
  /\ UNCHANGED <<poolVars, mutex, flag, heap, end>>

(* dlsym() or dladdr() fails; so does new std::recursive_mutex, with a      *)
(* std::bad_alloc nobody catches.                                           *)
StartFails ==
  /\ end = Running
  /\ mutex = {}
  /\ end' = Exited
  /\ UNCHANGED <<poolVars, found, mutex, flag, heap>>

(* new std::recursive_mutex gets its memory from malloc, that is, the pool. *)
AllocateMutex ==
  /\ end = Running
  /\ found = 4
  /\ mutex = {}
  /\ Malloc(MutexSize)
  /\ mutex' = {NewBlock(MutexSize)}
  /\ UNCHANGED <<found, flag, heap, end>>

(* Mutant: the flag is set as soon as malloc is found.                      *)
SetFlagEarly ==
  /\ end = Running
  /\ found > 0
  /\ ~flag
  /\ flag' = TRUE
  /\ UNCHANGED <<poolVars, found, mutex, heap, end>>

SetFlag ==
  /\ end = Running
  /\ mutex # {}
  /\ ~flag
  /\ flag' = TRUE
  /\ UNCHANGED <<poolVars, found, mutex, heap, end>>

-----------------------------------------------------------------------------
(* The original function is called: it is null unless it was found.         *)
CallsOriginal(fn, heapChange) ==
  /\ heap' = IF Found(fn) THEN heap + heapChange ELSE heap
  /\ end' = IF Found(fn) THEN end ELSE NullCall(fn)
  /\ UNCHANGED <<poolVars, found, mutex, flag>>

(* The same, with a block the original did not hand out.                    *)
MisdirectsTo(fn, b) ==
  /\ end' = IF Found(fn) THEN ForeignBlock(fn, b) ELSE NullCall(fn)
  /\ UNCHANGED <<poolVars, found, mutex, flag, heap>>

(* malloc, calloc and realloc before static initialization.                 *)
EarlyRequest ==
  /\ end = Running
  /\ ~flag
  /\ \/ \E size \in Sizes : Malloc(size)
     \/ \E n, size \in Sizes : Calloc(n, size)
     \/ \E b \in live \ mutex, size \in Sizes : Realloc(b, size)
     \/ ReturnNull
  /\ UNCHANGED startVars

(* malloc, calloc and realloc(nullptr) after it.                            *)
LateRequest(fn) ==
  /\ end = Running
  /\ flag
  /\ heap < MaxHeap
  /\ CallsOriginal(fn, 1)

(* realloc after it, of a block the C library handed out, and of one of the *)
(* pool's, which realloc, other than free, does not tell apart.             *)
LateRealloc ==
  /\ end = Running
  /\ flag
  /\ heap > 0
  /\ CallsOriginal("realloc", 0)

LateReallocOfPool(b) ==
  /\ end = Running
  /\ flag
  /\ MisdirectsTo("realloc", b)

(* free of what the pool recognises, at any time, which does nothing; of    *)
(* what it handed out beyond its end; and of a block of the C library's.    *)
FreeOfPool(b) ==
  /\ end = Running
  /\ IF Belongs(b) THEN Free(b) /\ UNCHANGED startVars ELSE MisdirectsTo("free", b)

FreeOfHeap ==
  /\ end = Running
  /\ heap > 0
  /\ CallsOriginal("free", -1)

(* A block from a function of the C library that is not replaced.           *)
OtherRequest ==
  /\ end = Running
  /\ heap < MaxHeap
  /\ heap' = heap + 1
  /\ UNCHANGED <<poolVars, found, mutex, flag, end>>

LinuxNext ==
  \/ FindOriginal
  \/ StartFails
  \/ AllocateMutex
  \/ SetFlag
  \/ EarlyRequest
  \/ \E fn \in {"malloc", "calloc", "realloc"} : LateRequest(fn)
  \/ LateRealloc
  \/ \E b \in live \ mutex : LateReallocOfPool(b) \/ FreeOfPool(b)
  \/ FreeOfHeap
  \/ OtherRequest

LinuxSpec == LinuxInit /\ [][LinuxNext]_linuxVars

-----------------------------------------------------------------------------
(* A null original is called by nobody but a free() that comes before the   *)
(* constructor is done, of memory that is not the pool's (linux.cpp:77-82,  *)
(* 122); malloc, realloc and calloc wait for the flag, which comes last.    *)
NullCallsAreEarlyFrees ==
  end.how = "null call" => end.fn = "free" /\ ~flag /\ found < 4
=============================================================================
