-------------------------- MODULE StaticAllocator --------------------------
(***************************************************************************)
(* The pool that serves malloc, realloc and calloc until the real ones are *)
(* found: memory_tools/impl/static_allocator.hpp.  It is a stack pointer   *)
(* that only moves up; freeing a block does nothing.  Addresses are        *)
(* offsets from the pool's begin_; sizes and distances are size_t, that    *)
(* is, modulo Word.                                                        *)
(***************************************************************************)
EXTENDS Integers, FiniteSets

CONSTANTS
  PoolSize,    \* MemoryPoolSize
  MaxAlign,    \* MAX_ALIGN, alignof(std::max_align_t)
  Word,        \* the number of values of size_t
  Sizes,       \* what the program asks for
  MaxRequests  \* bound on how many requests are followed

ASSUME MaxAlignAssumption == MaxAlign \in Nat \ {0}
ASSUME WordAssumption ==
  /\ Word \in Nat \ {0}
  /\ Word % MaxAlign = 0
  /\ PoolSize \in 0 .. Word - 1
ASSUME SizesAssumption == Sizes \subseteq 0 .. Word - 1
ASSUME MaxRequestsAssumption == MaxRequests \in Nat

VARIABLES
  top,      \* stack_pointer_ - begin_
  live,     \* the blocks the program holds: where they are, what it asked for
  requests  \* how many requests were made

poolVars == <<top, live, requests>>

Block == [at : Nat, size : Nat]

TypeOK ==
  /\ top \in Nat
  /\ live \subseteq Block
  /\ requests \in 0 .. MaxRequests

Init ==
  /\ top = 0
  /\ live = {}
  /\ requests = 0

-----------------------------------------------------------------------------
(* Mutants: sizes are not rounded; they are rounded down.                   *)
AlignUpNot(value)  == value
AlignUpDown(value) == MaxAlign * (value \div MaxAlign)

(* (value + alignment - 1) & ~(alignment - 1), alignment a power of two.    *)
AlignUp(value) == MaxAlign * (((value + MaxAlign - 1) % Word) \div MaxAlign)

(* aligned_size <= static_cast<size_t>(std::distance(end_, stack_pointer_)) *)
Fits(size) == AlignUp(size) <= (top - PoolSize) % Word

(* pointer_belongs_to_allocator(), which is also what deallocate() returns. *)
Belongs(b) == b.at < PoolSize

(* Mutant: the pointer is moved before it is returned.                      *)
NewBlockBehind(asked) == [at |-> top - asked, size |-> asked]

(* allocate(size), for a program that asked for that much or, when a        *)
(* product wrapped, for more.                                               *)
NewBlock(asked) == [at |-> top, size |-> asked]

Count == requests < MaxRequests /\ requests' = requests + 1

Malloc(size) ==
  /\ Count
  /\ Fits(size)
  /\ top' = top + AlignUp(size)
  /\ live' = live \union {NewBlock(size)}

(* zero_allocate(count, size), whose product is not checked.                *)
Calloc(n, size) ==
  LET total == (n * size) % Word IN
  /\ Count
  /\ Fits(total)
  /\ top' = top + AlignUp(total)
  /\ live' = live \union {NewBlock(n * size)}

(* reallocate(memory_in, size): a new block, into which size bytes are      *)
(* copied from where the old one starts.                                    *)
Realloc(b, size) ==
  /\ Count
  /\ b \in live
  /\ Belongs(b)
  /\ Fits(size)
  /\ top' = top + AlignUp(size)
  /\ live' = (live \ {b}) \union {NewBlock(size)}

(* Out of room, or asked to reallocate memory that is not the pool's, as    *)
(* nullptr never is: nullptr is returned.                                   *)
ReturnNull ==
  /\ Count
  /\ UNCHANGED <<top, live>>

(* Mutant: a block that is freed is taken back off the stack.               *)
FreeRewinds(b) ==
  /\ b \in live
  /\ Belongs(b)
  /\ live' = live \ {b}
  /\ top' = b.at
  /\ UNCHANGED requests

Free(b) ==
  /\ b \in live
  /\ Belongs(b)
  /\ live' = live \ {b}
  /\ UNCHANGED <<top, requests>>

Next ==
  \/ \E size \in Sizes : Malloc(size)
  \/ \E n, size \in Sizes : Calloc(n, size)
  \/ \E b \in live, size \in Sizes : Realloc(b, size)
  \/ ReturnNull
  \/ \E b \in live : Free(b)

Spec == Init /\ [][Next]_poolVars

-----------------------------------------------------------------------------
(* Every block starts at a multiple of the largest alignment, as the test   *)
(* of the allocator expects (test/memory_tools/test_memory_tools.cpp:254),  *)
(* whatever sizes came before it.                                           *)
Aligned == top % MaxAlign = 0 /\ \A b \in live : b.at % MaxAlign = 0

(* No two blocks the program holds overlap, and none reaches past the stack *)
(* pointer, so the next one will not either (static_allocator.hpp:64-66).   *)
Disjoint ==
  /\ \A b \in live : b.at + b.size <= top
  /\ \A b, c \in live : b # c => b.at + b.size <= c.at \/ c.at + c.size <= b.at

(* What Disjoint needs: no size is so close to the end of size_t, and no    *)
(* product so large, that it wraps when it is rounded up.                   *)
NoWrap ==
  /\ \A size \in Sizes : size + MaxAlign - 1 < Word
  /\ \A n, size \in Sizes : n * size + MaxAlign - 1 < Word

(* static_allocator.hpp:83-88: the copy of a block that grows, of size bytes *)
(* from its start, is "safe to read" because "we were able to allocate more *)
(* memory after memory_in" -- all it reads the pool has handed out before,  *)
(* whatever was freed in between, or hands out with this very request.      *)
CopyReadsHandedOut ==
  [][\A b \in live, size \in Sizes :
       Realloc(b, size) => b.at + size <= top']_poolVars

(* linux.cpp:119: "memory was originally allocated by static allocator, no  *)
(* need to pass to "real" free" -- what the pool handed out it recognises.  *)
Recognised == \A b \in live : Belongs(b) \/ b.size = 0

=============================================================================
