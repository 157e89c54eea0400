----------------------------- MODULE Monitoring -----------------------------
(***************************************************************************)
(* The switches that decide whether a memory function is monitored:        *)
(* memory_tools/initialize.cpp (the flag), monitoring.cpp, and             *)
(* implementation_monitoring_override.cpp.  The switches of a thread are   *)
(* thread_local; the implementation section, whatever its documentation    *)
(* says, is one flag for the whole process, which nested sections share.   *)
(***************************************************************************)
CONSTANTS
  Thread       \* the threads of the program

VARIABLES
  initialized, \* g_initialized
  enabled,     \* g_enabled
  tlsSet,      \* g_tls_thread_specific_enable_set of each thread
  tlsEnabled,  \* g_tls_enabled of each thread
  insideImpl   \* g_inside_implementation

monitoringVars == <<initialized, enabled, tlsSet, tlsEnabled, insideImpl>>

TypeOK ==
  /\ initialized \in BOOLEAN
  /\ enabled \in BOOLEAN
  /\ tlsSet \in [Thread -> BOOLEAN]
  /\ tlsEnabled \in [Thread -> BOOLEAN]
  /\ insideImpl \in BOOLEAN

Init ==
  /\ initialized = FALSE
  /\ enabled = FALSE
  /\ tlsSet = [t \in Thread |-> FALSE]
  /\ tlsEnabled = [t \in Thread |-> FALSE]
  /\ insideImpl = FALSE

SetThread(t, set, on) ==
  /\ tlsSet' = [tlsSet EXCEPT ![t] = set]
  /\ tlsEnabled' = [tlsEnabled EXCEPT ![t] = on]
  /\ UNCHANGED <<initialized, enabled, insideImpl>>

EnableMonitoring(t)  == SetThread(t, TRUE, TRUE)
DisableMonitoring(t) == SetThread(t, TRUE, FALSE)
UnsetMonitoring(t)   == SetThread(t, FALSE, FALSE)

SetAll(on) ==
  /\ enabled' = on
  /\ UNCHANGED <<initialized, tlsSet, tlsEnabled, insideImpl>>

EnableInAllThreads  == SetAll(TRUE)
DisableInAllThreads == SetAll(FALSE)

Initialize ==
  /\ initialized' = TRUE
  /\ UNCHANGED <<enabled, tlsSet, tlsEnabled, insideImpl>>

(* The last statement of uninitialize() is g_initialized.exchange(true).    *)
EndUninitialize ==
  /\ initialized' = TRUE
  /\ UNCHANGED <<enabled, tlsSet, tlsEnabled, insideImpl>>

(* Mutant: the section does not say that it began.                          *)
BeginSectionForgotten ==
  UNCHANGED <<initialized, enabled, tlsSet, tlsEnabled, insideImpl>>

(* The constructor and the destructor of ScopedImplementationSection.       *)
BeginSection ==
  /\ insideImpl' = TRUE
  /\ UNCHANGED <<initialized, enabled, tlsSet, tlsEnabled>>

EndSection ==
  /\ insideImpl' = FALSE
  /\ UNCHANGED <<initialized, enabled, tlsSet, tlsEnabled>>

(* monitoring_enabled(), whose first half is read before the second.        *)
Applicable == initialized /\ ~insideImpl

(* Mutant: a thread that switched itself off still follows the others.      *)
SwitchedOnByAny(t) == tlsEnabled[t] \/ enabled

SwitchedOn(t) == IF tlsSet[t] THEN tlsEnabled[t] ELSE enabled
=============================================================================
