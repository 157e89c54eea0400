--------------------------- MODULE RegisterHooks ---------------------------
(***************************************************************************)
(* The registered hooks of memory_tools/register_hooks.cpp.  Each of       *)
(* on_malloc, on_realloc, on_calloc, on_free and its get_ and dispatch_    *)
(* companions works on one atomic pointer to a heap-allocated variant:     *)
(*                                                                         *)
(*   on_f(callback):  old = cell.exchange(new AnyCallback(callback));      *)
(*                    if (nullptr != old) delete old;                      *)
(*   get_on_f():      current = cell.load();  return *current;             *)
(*   dispatch_f():    user_callback = cell.load();  ... call through it    *)
(*                                                                         *)
(* The pointer is atomic; what it points to is not counted, locked or      *)
(* copied before it is used.                                               *)
(***************************************************************************)
CONSTANTS
  Thread,     \* the threads of the program
  MemFn,      \* the memory functions, each with its hook
  Callback,   \* the callbacks the program registers
  Null,       \* the variant that holds nullptr, which "unregisters"
  Obj,        \* the addresses a variant can be allocated at
  NoObj,      \* nullptr
  Dead,       \* the content of an address where no variant lives
  Unset,      \* (refinement) the hook of a memory function never registered
  NoRequest   \* the request of a thread that is not registering

Value == Callback \union {Null}

ASSUME NoObjAssumption == NoObj \notin Obj
ASSUME DeadAssumption == Dead \notin Value
ASSUME NoRequestAssumption == NoRequest \notin MemFn \X Value

VARIABLES
  cell,     \* g_on_malloc_callback and the other three atomic pointers
  content,  \* the variant at each address
  at,       \* where each thread is in on_f
  request,  \* the arguments of that on_f: which function, which callback
  held,     \* the variant on_f owns: its new one, after the exchange the old one
  using     \* the pointer a dispatch_f or get_on_f loaded and still uses

hookVars == <<cell, content, at, request, held, using>>

OnPlace == {"idle", "construct", "exchange", "destroy", "finish", "unwind"}

TypeOK ==
  /\ cell \in [MemFn -> Obj \union {NoObj}]
  /\ content \in [Obj -> Value \union {Dead}]
  /\ at \in [Thread -> OnPlace]
  /\ request \in [Thread -> (MemFn \X Value) \union {NoRequest}]
  /\ held \in [Thread -> Obj \union {NoObj}]
  /\ using \in [Thread -> Obj \union {NoObj}]

Init ==
  /\ cell = [f \in MemFn |-> NoObj]
  /\ content = [o \in Obj |-> Dead]
  /\ at = [t \in Thread |-> "idle"]
  /\ request = [t \in Thread |-> NoRequest]
  /\ held = [t \in Thread |-> NoObj]
  /\ using = [t \in Thread |-> NoObj]

-----------------------------------------------------------------------------
BeginOn(t, f, v) ==
  /\ at[t] = "idle"
  /\ at' = [at EXCEPT ![t] = "construct"]
  /\ request' = [request EXCEPT ![t] = <<f, v>>]
  /\ UNCHANGED <<cell, content, held, using>>

(* new AnyMemoryToolsCallback(callback): any free address, one that was     *)
(* just freed included.                                                     *)
Construct(t) ==
  /\ at[t] = "construct"
  /\ \E o \in Obj :
       /\ content[o] = Dead
       /\ content' = [content EXCEPT ![o] = request[t][2]]
       /\ held' = [held EXCEPT ![t] = o]
  /\ at' = [at EXCEPT ![t] = "exchange"]
  /\ UNCHANGED <<cell, request, using>>

(* new, or the copy of the callback, throws: nothing is registered.         *)
ConstructThrows(t) ==
  /\ at[t] = "construct"
  /\ at' = [at EXCEPT ![t] = "unwind"]
  /\ UNCHANGED <<cell, content, request, held, using>>

(* Mutant: the old variant is not looked at, nor deleted.                   *)
ExchangeLeaks(t) ==
  /\ at[t] = "exchange"
  /\ cell' = [cell EXCEPT ![request[t][1]] = held[t]]
  /\ held' = [held EXCEPT ![t] = NoObj]
  /\ at' = [at EXCEPT ![t] = "finish"]
  /\ UNCHANGED <<content, request, using>>

(* Mutant: a compare-and-swap against nullptr, whose failure is not retried. *)
ExchangeOnce(t) ==
  LET f == request[t][1] IN
  /\ at[t] = "exchange"
  /\ \/ /\ cell[f] = NoObj
        /\ cell' = [cell EXCEPT ![f] = held[t]]
        /\ held' = [held EXCEPT ![t] = NoObj]
        /\ at' = [at EXCEPT ![t] = "finish"]
     \/ /\ cell[f] # NoObj
        /\ at' = [at EXCEPT ![t] = "destroy"]
        /\ UNCHANGED <<cell, held>>
  /\ UNCHANGED <<content, request, using>>

Exchange(t) ==
  LET f == request[t][1] IN
  /\ at[t] = "exchange"
  /\ cell' = [cell EXCEPT ![f] = held[t]]
  /\ held' = [held EXCEPT ![t] = cell[f]]
  /\ at' = [at EXCEPT ![t] = IF cell[f] = NoObj THEN "finish" ELSE "destroy"]
  /\ UNCHANGED <<content, request, using>>

Destroy(t) ==
  /\ at[t] = "destroy"
  /\ content' = [content EXCEPT ![held[t]] = Dead]
  /\ held' = [held EXCEPT ![t] = NoObj]
  /\ at' = [at EXCEPT ![t] = "finish"]
  /\ UNCHANGED <<cell, request, using>>

EndOn(t) ==
  /\ at[t] \in {"finish", "unwind"}
  /\ at' = [at EXCEPT ![t] = "idle"]
  /\ request' = [request EXCEPT ![t] = NoRequest]
  /\ UNCHANGED <<cell, content, held, using>>

(* dispatch_f and get_on_f: load the pointer, use what it points to (run it *)
(* or copy it), and be done with it.  A null pointer is not used at all.    *)
Load(t, f) ==
  /\ using[t] = NoObj
  /\ using' = [using EXCEPT ![t] = cell[f]]
  /\ UNCHANGED <<cell, content, at, request, held>>

Release(t) ==
  /\ using[t] # NoObj
  /\ using' = [using EXCEPT ![t] = NoObj]
  /\ UNCHANGED <<cell, content, at, request, held>>

Step(t) ==
  \/ \E f \in MemFn, v \in Value : BeginOn(t, f, v)
  \/ Construct(t)
  \/ ConstructThrows(t)
  \/ Exchange(t)
  \/ Destroy(t)
  \/ EndOn(t)
  \/ \E f \in MemFn : Load(t, f)
  \/ Release(t)

Next == \E t \in Thread : Step(t)

Spec == Init /\ [][Next]_hookVars

-----------------------------------------------------------------------------
(* Every live variant has exactly one owner, a cell or a thread inside on_f *)
(* that will delete or install it, however registrations of the same hook   *)
(* interleave: none is leaked and none is deleted twice                     *)
(* (register_hooks.cpp:35-38).                                              *)
InCell(o) == \E f \in MemFn : cell[f] = o
InHand(o) == \E t \in Thread : held[t] = o

Ownership ==
  /\ \A o \in Obj : content[o] # Dead <=> InCell(o) \/ InHand(o)
  /\ \A o \in Obj : ~(InCell(o) /\ InHand(o))
  /\ \A f, g \in MemFn : cell[f] = cell[g] /\ cell[f] # NoObj => f = g
  /\ \A t, u \in Thread : held[t] = held[u] /\ held[t] # NoObj => t = u

(* Where a thread is in on_f says what it owns.                             *)
Registering ==
  \A t \in Thread :
    /\ held[t] # NoObj <=> at[t] \in {"exchange", "destroy"}
    /\ request[t] = NoRequest <=> at[t] = "idle"
    /\ at[t] = "exchange" => content[held[t]] = request[t][2]

HooksInv == TypeOK /\ Ownership /\ Registering

(* Registration implements the atomic cells of HookCells: on_f takes effect *)
(* once, as a whole, or, when it throws, not at all.                        *)
Outcome ==
  [t \in Thread |-> IF at[t] \in {"destroy", "finish"} THEN "done"
                    ELSE IF at[t] = "unwind" THEN "failed" ELSE "pending"]

Current == [f \in MemFn |-> IF cell[f] = NoObj THEN Unset ELSE content[cell[f]]]

Cells == INSTANCE HookCells WITH
  hook <- Current, request <- request, outcome <- Outcome

AtomicCells == Cells!Spec

(* register_hooks.hpp:53: get_on_f is to "Get the current on_malloc         *)
(* callback if set, otherwise null" (and line 58: dispatch_f to "Call the   *)
(* registered callback"): what they read is a callback, not a deleted one.  *)
UsedHookAlive ==
  \A t \in Thread : using[t] # NoObj => content[using[t]] # Dead
=============================================================================
