----------------------- MODULE StaticAllocatorProofs -----------------------
(* For every pool, alignment and width of size_t: blocks are aligned, and   *)
(* while no size wraps, disjoint.  For every order of start-up and calls:   *)
(* who is called, with whose block.                                         *)
EXTENDS LinuxInterpose, FiniteSetTheorems, TLAPS

Known(e) == e.how \in {"running", "exited", "null call", "foreign block"}

(* However a program ends, it is a way of ending.                           *)
LEMMA EndsKnown ==
  /\ Known(Running) /\ Known(Exited)
  /\ \A fn, b : Known(NullCall(fn)) /\ Known(ForeignBlock(fn, b))
BY DEF Known, Running, Exited, NullCall, ForeignBlock

(* The types of start-up: the block of the mutex stays the pool's, for no   *)
(* program reallocates or frees it.                                         *)
StartTypes ==
  /\ found \in 0 .. 4
  /\ mutex = {} \/ \E b \in live : mutex = {b}
  /\ flag \in BOOLEAN
  /\ heap \in 0 .. MaxHeap
  /\ Known(end)

(* Calling an original keeps them, if its block is accounted for.           *)
LEMMA CallTypes ==
  ASSUME StartTypes, NEW fn, NEW change \in {-1, 0, 1},
         heap + change \in 0 .. MaxHeap, CallsOriginal(fn, change)
  PROVE  StartTypes'
BY MaxHeapAssumption, EndsKnown DEF StartTypes, CallsOriginal, poolVars

(* Every step keeps them.                                                   *)
LEMMA StepStartTypes == StartTypes /\ [LinuxNext]_linuxVars => StartTypes'
<1> SUFFICES ASSUME StartTypes, [LinuxNext]_linuxVars
             PROVE  StartTypes'
  OBVIOUS
<1>1. CASE FindOriginal \/ StartFails \/ SetFlag \/ OtherRequest
  <2>1. Known(end')
    BY <1>1, EndsKnown DEF FindOriginal, StartFails, SetFlag, OtherRequest, StartTypes
  <2>2. found' \in 0 .. 4
    BY <1>1 DEF FindOriginal, StartFails, SetFlag, OtherRequest, StartTypes
  <2>3. heap' \in 0 .. MaxHeap
    BY <1>1, MaxHeapAssumption
    DEF FindOriginal, StartFails, SetFlag, OtherRequest, StartTypes
  <2>4. flag' \in BOOLEAN
    BY <1>1 DEF FindOriginal, StartFails, SetFlag, OtherRequest, StartTypes
  <2>5. mutex' = mutex /\ live' = live
    BY <1>1 DEF FindOriginal, StartFails, SetFlag, OtherRequest, poolVars
  <2> QED
    BY <2>1, <2>2, <2>3, <2>4, <2>5 DEF StartTypes
<1>2. CASE AllocateMutex
  BY <1>2 DEF AllocateMutex, Malloc, StartTypes
<1>3. CASE EarlyRequest
  <2>1. mutex = {} \/ \E b \in live' : mutex = {b}
    BY <1>3 DEF EarlyRequest, Malloc, Calloc, Realloc, ReturnNull, StartTypes
  <2> QED
    BY <1>3, <2>1 DEF EarlyRequest, startVars, StartTypes
<1>4. ASSUME NEW fn \in {"malloc", "calloc", "realloc"}, LateRequest(fn)
      PROVE  StartTypes'
  <2>1. heap + 1 \in 0 .. MaxHeap
    BY <1>4, MaxHeapAssumption DEF LateRequest, StartTypes
  <2>2. CallsOriginal(fn, 1)
    BY <1>4 DEF LateRequest
  <2> QED
    BY <2>1, <2>2, CallTypes
<1>5. CASE LateRealloc
  <2>1. heap + 0 \in 0 .. MaxHeap
    BY MaxHeapAssumption DEF StartTypes
  <2>2. CallsOriginal("realloc", 0)
    BY <1>5 DEF LateRealloc
  <2> QED
    BY <2>1, <2>2, CallTypes
<1>6. CASE FreeOfHeap
  <2>1. heap + (-1) \in 0 .. MaxHeap
    BY <1>6, MaxHeapAssumption DEF FreeOfHeap, StartTypes
  <2>2. CallsOriginal("free", -1)
    BY <1>6 DEF FreeOfHeap
  <2> QED
    BY <2>1, <2>2, CallTypes
<1>7. ASSUME NEW b \in live \ mutex, NEW fn, MisdirectsTo(fn, b)
      PROVE  StartTypes'
  BY <1>7, EndsKnown DEF MisdirectsTo, StartTypes, poolVars
<1>8. ASSUME NEW b \in live \ mutex, LateReallocOfPool(b) \/ FreeOfPool(b)
      PROVE  StartTypes'
  <2>1. CASE Free(b) /\ UNCHANGED startVars
    BY <2>1 DEF Free, startVars, StartTypes
  <2> QED
    BY <1>7, <1>8, <2>1 DEF LateReallocOfPool, FreeOfPool
<1>9. CASE UNCHANGED linuxVars
  BY <1>9 DEF linuxVars, poolVars, startVars, StartTypes
<1> QED
  BY <1>1, <1>2, <1>3, <1>4, <1>5, <1>6, <1>8, <1>9 DEF LinuxNext

-----------------------------------------------------------------------------
USE MaxAlignAssumption, WordAssumption, SizesAssumption,
    MaxRequestsAssumption, MutexSizeAssumption

(* A multiple of the alignment stays one when another is added to it.       *)
LEMMA MultiplePlus ==
  ASSUME NEW n \in Nat, NEW q \in Nat, n % MaxAlign = 0
  PROVE  (n + MaxAlign * q) % MaxAlign = 0
<1>1. n = MaxAlign * (n \div MaxAlign) + (n % MaxAlign)
  OBVIOUS
<1>2. n + MaxAlign * q = MaxAlign * ((n \div MaxAlign) + q)
  BY <1>1
<1>3. \A k \in Nat : (MaxAlign * k) % MaxAlign = 0
  OBVIOUS
<1>4. (n \div MaxAlign) + q \in Nat
  <2>1. n \div MaxAlign \in Nat
    OBVIOUS
  <2> QED
    BY <2>1
<1> DEFINE k == (n \div MaxAlign) + q
<1>5. n + MaxAlign * q = MaxAlign * k /\ k \in Nat
  BY <1>2, <1>4
<1> HIDE DEF k
<1> QED
  BY <1>3, <1>5

(* align_up() returns a multiple of the alignment.                          *)
LEMMA AlignUpMultiple ==
  ASSUME NEW v \in Nat
  PROVE  \E q \in Nat : AlignUp(v) = MaxAlign * q
BY DEF AlignUp

(* align_up() of a size that does not wrap is at least that size.           *)
LEMMA AlignUpCovers ==
  ASSUME NEW v \in Nat, v + MaxAlign - 1 < Word
  PROVE  AlignUp(v) \in Nat /\ AlignUp(v) >= v
<1> DEFINE w == v + MaxAlign - 1
<1>1. w \in Nat /\ w % Word = w
  OBVIOUS
<1>2. /\ w = MaxAlign * (w \div MaxAlign) + (w % MaxAlign)
      /\ w % MaxAlign <= MaxAlign - 1
  BY <1>1
<1>3. AlignUp(v) = MaxAlign * (w \div MaxAlign)
  BY <1>1 DEF AlignUp
<1> QED
  BY <1>1, <1>2, <1>3

-----------------------------------------------------------------------------
(* What a request does, whichever function makes it: it takes the rounded   *)
(* size off the pool and adds one block where the stack pointer was.        *)
Takes(total, asked) ==
  /\ top' = top + AlignUp(total)
  /\ \A b \in live' : b \in live \/ b = NewBlock(asked)
  /\ requests' \in 0 .. MaxRequests

Keeps ==
  /\ top' = top
  /\ live' \subseteq live
  /\ requests' \in 0 .. MaxRequests

(* Every step of the allocator is one or the other.                         *)
LEMMA Moves ==
  ASSUME TypeOK, Next
  PROVE  \/ \E size \in Sizes : Takes(size, size)
         \/ \E n, size \in Sizes : Takes((n * size) % Word, n * size)
         \/ Keeps
<1> USE DEF TypeOK, Count, Takes, Keeps
<1>1. ASSUME NEW size \in Sizes, Malloc(size)
      PROVE  Takes(size, size)
  BY <1>1 DEF Malloc
<1>2. ASSUME NEW n \in Sizes, NEW size \in Sizes, Calloc(n, size)
      PROVE  Takes((n * size) % Word, n * size)
  BY <1>2 DEF Calloc
<1>3. ASSUME NEW b \in live, NEW size \in Sizes, Realloc(b, size)
      PROVE  Takes(size, size)
  BY <1>3 DEF Realloc
<1>4. ASSUME ReturnNull
      PROVE  Keeps
  BY <1>4 DEF ReturnNull
<1>5. ASSUME NEW b \in live, Free(b)
      PROVE  Keeps
  BY <1>5 DEF Free
<1> QED
  BY <1>1, <1>2, <1>3, <1>4, <1>5 DEF Next

PoolInv == TypeOK /\ Aligned

(* A request keeps the types and the alignment, whatever its size, zero and *)
(* wrapping sizes included.                                                 *)
LEMMA TakesPoolInv ==
  ASSUME PoolInv, NEW total \in Nat, NEW asked \in Nat, Takes(total, asked)
  PROVE  PoolInv'
<1> USE DEF PoolInv, TypeOK, Aligned, Block, Takes
<1>1. PICK q \in Nat : AlignUp(total) = MaxAlign * q
  BY AlignUpMultiple
<1>2. MaxAlign * q \in Nat
  OBVIOUS
<1>3. (top + MaxAlign * q) % MaxAlign = 0
  BY MultiplePlus
<1>4. top' = top + MaxAlign * q
  BY <1>1
<1>5. top' \in Nat /\ top' % MaxAlign = 0
  <2> DEFINE m == MaxAlign * q
  <2>1. m \in Nat /\ top' = top + m /\ (top + m) % MaxAlign = 0
    BY <1>2, <1>3, <1>4
  <2> HIDE DEF m
  <2> QED
    BY <2>1
<1>6. \A b \in live' : b \in Block /\ b.at % MaxAlign = 0
  BY DEF NewBlock
<1> QED
  BY <1>5, <1>6

(* The types and the alignment are inductive.                               *)
LEMMA StepPoolInv == PoolInv /\ [Next]_poolVars => PoolInv'
<1> SUFFICES ASSUME PoolInv, [Next]_poolVars
             PROVE  PoolInv'
  OBVIOUS
<1>1. ASSUME NEW size \in Sizes, Takes(size, size)
      PROVE  PoolInv'
  <2>1. size \in Nat
    OBVIOUS
  <2> QED
    BY <1>1, <2>1, TakesPoolInv
<1>2. ASSUME NEW n \in Sizes, NEW size \in Sizes, Takes((n * size) % Word, n * size)
      PROVE  PoolInv'
  <2>1. n \in Nat /\ size \in Nat
    OBVIOUS
  <2>2. n * size \in Nat
    BY <2>1
  <2>3. (n * size) % Word \in Nat
    BY <2>2
  <2> QED
    BY <1>2, <2>2, <2>3, TakesPoolInv
<1>3. CASE Keeps
  BY <1>3 DEF Keeps, PoolInv, TypeOK, Aligned
<1>4. CASE UNCHANGED poolVars
  BY <1>4 DEF poolVars, PoolInv, TypeOK, Aligned
<1> QED
  BY <1>1, <1>2, <1>3, <1>4, Moves DEF PoolInv

(* The types and the alignment hold in every reachable state.               *)
LEMMA PoolInvariant == Spec => []PoolInv
<1>1. Init => PoolInv
  <2>1. 0 % MaxAlign = 0
    OBVIOUS
  <2> QED
    BY <2>1 DEF Init, PoolInv, TypeOK, Aligned
<1> QED
  BY <1>1, StepPoolInv, PTL DEF Spec

(* Every address the static allocator returns has the strictest alignment   *)
(* of the platform (static_allocator.hpp:62), as its test expects.          *)
THEOREM AlwaysAligned == Spec => []Aligned
<1>1. PoolInv => Aligned
  BY DEF PoolInv
<1> QED
  BY <1>1, PoolInvariant, PTL

-----------------------------------------------------------------------------
(* A request that does not wrap takes room nobody has.                      *)
LEMMA TakesDisjoint ==
  ASSUME PoolInv, Disjoint, NEW total \in Nat, total + MaxAlign - 1 < Word,
         Takes(total, total)
  PROVE  Disjoint'
<1> USE DEF PoolInv, TypeOK, Disjoint, Block, Takes
<1>1. AlignUp(total) \in Nat /\ AlignUp(total) >= total
  BY AlignUpCovers
<1>2. \A b \in live : b.at \in Nat /\ b.size \in Nat /\ b.at + b.size <= top
  OBVIOUS
<1>3. top' \in Nat /\ top' >= top + total
  BY <1>1
<1>4. NewBlock(total).at = top /\ NewBlock(total).size = total
  BY DEF NewBlock
<1>5. \A b \in live' : b.at + b.size <= top'
  BY <1>2, <1>3, <1>4
<1>6. \A b, c \in live' :
        b # c => b.at + b.size <= c.at \/ c.at + c.size <= b.at
  BY <1>2, <1>4
<1> QED
  BY <1>5, <1>6

(* While sizes do not wrap, no two blocks overlap, although nothing ever    *)
(* keeps them inside the pool (static_allocator.hpp:63-66).                 *)
THEOREM BlocksDisjoint == ASSUME NoWrap PROVE Spec => []Disjoint
<1>1. Init => Disjoint
  BY DEF Init, Disjoint
<1>2. PoolInv /\ Disjoint /\ [Next]_poolVars => Disjoint'
  <2> SUFFICES ASSUME PoolInv, Disjoint, [Next]_poolVars
               PROVE  Disjoint'
    OBVIOUS
  <2>1. ASSUME NEW size \in Sizes, Takes(size, size)
        PROVE  Disjoint'
    <3>1. size \in Nat /\ size + MaxAlign - 1 < Word
      BY NoWrap DEF NoWrap
    <3> QED
      BY <2>1, <3>1, TakesDisjoint
  <2>2. ASSUME NEW n \in Sizes, NEW size \in Sizes,
               Takes((n * size) % Word, n * size)
        PROVE  Disjoint'
    <3> DEFINE total == n * size
    <3>1. n \in Nat /\ size \in Nat
      OBVIOUS
    <3>2. total \in Nat
      BY <3>1
    <3>3. total + MaxAlign - 1 < Word
      BY NoWrap DEF NoWrap
    <3>4. Takes(total % Word, total)
      BY <2>2
    <3> HIDE DEF total
    <3>5. total % Word = total
      BY <3>2, <3>3
    <3> QED
      BY <3>2, <3>3, <3>4, <3>5, TakesDisjoint
  <2>3. CASE Keeps
    BY <2>3 DEF Keeps, Disjoint
  <2>4. CASE UNCHANGED poolVars
    BY <2>4 DEF poolVars, Disjoint
  <2> QED
    BY <2>1, <2>2, <2>3, <2>4, Moves DEF PoolInv
<1> QED
  BY <1>1, <1>2, PoolInvariant, PTL DEF Spec

(* The stack pointer is never moved back, so that a copy of reallocate()    *)
(* stays on this side of it while sizes do not wrap, whatever was freed     *)
(* before (static_allocator.hpp:81-89).                                     *)
THEOREM CopiesReadHandedOut == ASSUME NoWrap PROVE Spec => CopyReadsHandedOut
<1>1. PoolInv /\ Disjoint /\ [Next]_poolVars =>
        [\A b \in live, size \in Sizes :
           Realloc(b, size) => b.at + size <= top']_poolVars
  <2> SUFFICES ASSUME PoolInv, Disjoint, NEW b \in live, NEW size \in Sizes,
                      Realloc(b, size)
               PROVE  b.at + size <= top'
    OBVIOUS
  <2>1. b.at \in Nat /\ b.size \in Nat /\ top \in Nat /\ b.at + b.size <= top
    BY DEF PoolInv, TypeOK, Disjoint, Block
  <2>2. size \in Nat /\ size + MaxAlign - 1 < Word
    BY NoWrap DEF NoWrap
  <2>3. AlignUp(size) \in Nat /\ AlignUp(size) >= size
    BY <2>2, AlignUpCovers
  <2>4. top' = top + AlignUp(size)
    BY DEF Realloc
  <2> QED
    BY <2>1, <2>2, <2>3, <2>4
<1> QED
  BY <1>1, BlocksDisjoint, PoolInvariant, NoWrap, PTL DEF Spec, CopyReadsHandedOut

-----------------------------------------------------------------------------
(* The order of start-up: the flag comes after the mutex, the mutex after   *)
(* all four functions.                                                      *)
StartInv ==
  /\ found \in 0 .. 4
  /\ flag => mutex # {}
  /\ mutex # {} => found = 4
  /\ NullCallsAreEarlyFrees

(* What is found, when all are.                                             *)
LEMMA AllFound ==
  ASSUME found = 4
  PROVE  \A fn \in {"malloc", "realloc", "calloc", "free"} : Found(fn)
<1>1. \A i \in 1 .. 4 : i \in 1 .. found
  OBVIOUS
<1>2. 1 \in 1 .. found /\ 2 \in 1 .. found /\ 3 \in 1 .. found /\ 4 \in 1 .. found
  BY <1>1
<1>3. /\ Originals[1] = "malloc" /\ Originals[2] = "realloc"
      /\ Originals[3] = "calloc" /\ Originals[4] = "free"
  BY DEF Originals
<1> QED
  BY <1>2, <1>3 DEF Found

(* A free() that comes before its original is found keeps the order.        *)
LEMMA NullCallInv ==
  ASSUME StartInv, ~Found("free"), end' = NullCall("free"),
         UNCHANGED <<found, mutex, flag>>
  PROVE  StartInv'
<1>1. found # 4
  BY AllFound
<1>2. found < 4 /\ ~flag
  BY <1>1 DEF StartInv
<1>3. end'.how = "null call" /\ end'.fn = "free"
  BY DEF NullCall
<1> QED
  BY <1>2, <1>3 DEF StartInv, NullCallsAreEarlyFrees

(* Every step keeps the order of start-up, and who is called in it.         *)
LEMMA StepStartInv == StartInv /\ [LinuxNext]_linuxVars => StartInv'
<1> SUFFICES ASSUME StartInv, [LinuxNext]_linuxVars
             PROVE  StartInv'
  OBVIOUS
<1> USE DEF StartInv, NullCallsAreEarlyFrees, Running, Exited,
            startVars, Belongs
<1>1. CASE FindOriginal
  BY <1>1 DEF FindOriginal
<1>2. CASE StartFails
  BY <1>2 DEF StartFails
<1>3. CASE AllocateMutex
  BY <1>3 DEF AllocateMutex
<1>4. CASE SetFlag
  BY <1>4 DEF SetFlag
<1>5. CASE EarlyRequest
  BY <1>5 DEF EarlyRequest
<1>6. ASSUME NEW fn \in {"malloc", "calloc", "realloc"}, LateRequest(fn)
      PROVE  StartInv'
  BY <1>6, AllFound DEF LateRequest, CallsOriginal
<1>7. CASE LateRealloc
  BY <1>7, AllFound DEF LateRealloc, CallsOriginal
<1>8. ASSUME NEW b \in live, LateReallocOfPool(b)
      PROVE  StartInv'
  BY <1>8, AllFound DEF LateReallocOfPool, MisdirectsTo, ForeignBlock
<1>9. ASSUME NEW b \in live, FreeOfPool(b)
      PROVE  StartInv'
  <2>1. CASE Belongs(b)
    BY <1>9, <2>1 DEF FreeOfPool
  <2>2. CASE ~Belongs(b) /\ Found("free")
    <3>1. end' = ForeignBlock("free", b) /\ UNCHANGED <<found, mutex, flag>>
      BY <1>9, <2>2 DEF FreeOfPool, MisdirectsTo
    <3>2. end'.how = "foreign block" /\ end'.block = b
      BY <3>1 DEF ForeignBlock
    <3> QED
      BY <2>2, <3>1, <3>2
  <2>3. CASE ~Belongs(b) /\ ~Found("free")
    <3>1. end' = NullCall("free") /\ UNCHANGED <<found, mutex, flag>>
      BY <1>9, <2>3 DEF FreeOfPool, MisdirectsTo
    <3> QED
      BY <2>3, <3>1, NullCallInv
  <2> QED
    BY <2>1, <2>2, <2>3
<1>10. CASE FreeOfHeap
  <2>1. CASE Found("free")
    BY <1>10, <2>1 DEF FreeOfHeap, CallsOriginal
  <2>2. CASE ~Found("free")
    <3>1. end' = NullCall("free") /\ UNCHANGED <<found, mutex, flag>>
      BY <1>10, <2>2 DEF FreeOfHeap, CallsOriginal
    <3> QED
      BY <2>2, <3>1, NullCallInv
  <2> QED
    BY <2>1, <2>2
<1>11. CASE OtherRequest
  BY <1>11 DEF OtherRequest
<1>12. CASE UNCHANGED linuxVars
  BY <1>12 DEF linuxVars
<1> QED
  BY <1>1, <1>2, <1>3, <1>4, <1>5, <1>6, <1>7, <1>8, <1>9, <1>10, <1>11, <1>12
  DEF LinuxNext

(* The order of start-up holds in every reachable state.                    *)
LEMMA StartInvariant == LinuxSpec => []StartInv
<1>1. LinuxInit => StartInv
  BY DEF LinuxInit, StartInv, NullCallsAreEarlyFrees, Running
<1> QED
  BY <1>1, StepStartInv, PTL DEF LinuxSpec

(* malloc, realloc and calloc never call a null original, at whatever point *)
(* of start-up they are called (linux.cpp:77-82).                           *)
THEOREM OnlyEarlyFreesCallNull == LinuxSpec => []NullCallsAreEarlyFrees
<1>1. StartInv => NullCallsAreEarlyFrees
  BY DEF StartInv
<1> QED
  BY <1>1, StartInvariant, PTL

(* Whatever becomes of start-up, the pool takes its own steps only: what is *)
(* proved of its blocks holds in linux.cpp.                                 *)
THEOREM LinuxUsesPool == LinuxSpec => Spec
<1>1. LinuxInit => Init
  BY DEF LinuxInit
<1>2. [LinuxNext]_linuxVars => [Next]_poolVars
  <2> SUFFICES ASSUME [LinuxNext]_linuxVars PROVE [Next]_poolVars
    OBVIOUS
  <2>1. CASE FindOriginal \/ StartFails \/ SetFlag \/ OtherRequest
    BY <2>1 DEF FindOriginal, StartFails, SetFlag, OtherRequest
  <2>2. CASE AllocateMutex
    BY <2>2 DEF AllocateMutex, Next
  <2>3. CASE EarlyRequest
    BY <2>3 DEF EarlyRequest, Next
  <2>4. ASSUME NEW fn \in {"malloc", "calloc", "realloc"}, LateRequest(fn)
        PROVE  UNCHANGED poolVars
    BY <2>4 DEF LateRequest, CallsOriginal
  <2>5. CASE LateRealloc \/ FreeOfHeap
    BY <2>5 DEF LateRealloc, FreeOfHeap, CallsOriginal
  <2>6. ASSUME NEW b \in live \ mutex, LateReallocOfPool(b) \/ FreeOfPool(b)
        PROVE  [Next]_poolVars
    BY <2>6 DEF LateReallocOfPool, FreeOfPool, MisdirectsTo, Next
  <2>7. CASE UNCHANGED linuxVars
    BY <2>7 DEF linuxVars
  <2> QED
    BY <2>1, <2>2, <2>3, <2>4, <2>5, <2>6, <2>7 DEF LinuxNext
<1> QED
  BY <1>1, <1>2, PTL DEF LinuxSpec, Spec

(* The types of the pool and of start-up.                                   *)
THEOREM LinuxTypeCorrect == LinuxSpec => []LinuxTypeOK
<1>1. LinuxInit => StartTypes
  <2> SUFFICES ASSUME LinuxInit PROVE StartTypes
    OBVIOUS
  <2>1. Known(end) /\ flag \in BOOLEAN /\ mutex = {}
    BY EndsKnown DEF LinuxInit
  <2>2. found \in 0 .. 4 /\ heap \in 0 .. MaxHeap
    BY MaxHeapAssumption DEF LinuxInit
  <2> QED
    BY <2>1, <2>2 DEF StartTypes
<1>2. PoolInv /\ StartTypes => LinuxTypeOK
  <2> SUFFICES ASSUME PoolInv, StartTypes
               PROVE  LinuxTypeOK
    OBVIOUS
  <2>1. mutex \subseteq live
    BY DEF StartTypes
  <2>2. Cardinality(mutex) = 0 \/ Cardinality(mutex) = 1
    BY FS_EmptySet, FS_Singleton DEF StartTypes
  <2>3. Cardinality(mutex) <= 1
    BY <2>2
  <2>4. end.how \in {"running", "exited", "null call", "foreign block"}
    BY DEF StartTypes, Known
  <2>5. TypeOK /\ found \in 0 .. 4 /\ flag \in BOOLEAN /\ heap \in 0 .. MaxHeap
    BY DEF PoolInv, StartTypes
  <2> QED
    BY <2>1, <2>3, <2>4, <2>5 DEF LinuxTypeOK
<1>3. LinuxSpec => []StartTypes
  BY <1>1, StepStartTypes, PTL DEF LinuxSpec
<1> QED
  BY <1>2, <1>3, LinuxUsesPool, PoolInvariant, PTL
=============================================================================
