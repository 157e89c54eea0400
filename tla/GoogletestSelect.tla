-------------------------- MODULE GoogletestSelect --------------------------
(***************************************************************************)
(* What a package's configuration does when it calls                       *)
(* osrf_testing_tools_cpp_require_googletest(): the versions that come     *)
(* with this repository are filtered by the bounds that were given, the    *)
(* newest of those that are left is selected, extracted and made part of   *)
(* the package's build.                                                    *)
(*                                                                         *)
(* A version is its four numbers, those not written being zero.            *)
(***************************************************************************)
EXTENDS Integers, Sequences

CONSTANTS
  Versions,  \* the versions provided, in the order of their list
  Requests,  \* the bounds a package may ask for
  Absent,    \* a bound that is not given
  MaxCalls   \* bound on the calls of one package

Version == [1 .. 4 -> Nat]
Bound   == {"eq", "lt", "lte", "gt", "gte"}

(* VERSION_LESS.                                                            *)
Older(v, w) ==
  \E i \in 1 .. 4 : v[i] < w[i] /\ \A j \in 1 .. i - 1 : v[j] = w[j]

(* EQUAL, which is not VERSION_EQUAL, compares numbers: of a version it     *)
(* reads "major.minor", and 1.10 is 1.1.                                    *)
SameNumber(v, w) ==
  /\ v[1] = w[1]
  /\ \E z \in {1, 10, 100} : v[2] = z * w[2] \/ w[2] = z * v[2]

ASSUME VersionsAssumption == Versions \in Seq(Version) /\ Len(Versions) > 0
ASSUME OldestAssumption == \A i \in 1 .. Len(Versions) : ~Older(Versions[i], Versions[1])
ASSUME MaxCallsAssumption == MaxCalls \in Nat
ASSUME RequestsAssumption == Requests \subseteq [Bound -> Version \union {Absent}]

VARIABLES
  place,    \* where the configuration is
  calls,    \* the calls so far
  request,  \* the bounds of this call
  current,  \* the next iteration of the loop that is being run
  valid,    \* valid_version_indexes
  index,    \* newest_valid_version_index, counted from one
  newest,   \* newest_valid_version
  built     \* the index of the googletest that is part of the build, or 0

selectVars == <<place, calls, request, current, valid, index, newest, built>>

Unbounded == [b \in Bound |-> Absent]

SelectTypeOK ==
  /\ place \in {"package", "check", "filter", "select", "extract", "add",
                "failed", "configured"}
  /\ calls \in 0 .. MaxCalls
  /\ request \in Requests \union {Unbounded}
  /\ current \in 1 .. Len(Versions) + 1
  /\ valid \in Seq(1 .. Len(Versions))
  /\ index \in 0 .. Len(Versions)
  /\ newest \in Version \union {Absent}
  /\ built \in 0 .. Len(Versions)

NoLocals ==
  /\ request = Unbounded
  /\ current = 1
  /\ valid = <<>>
  /\ index = 0
  /\ newest = Absent

RequireInit == place = "package" /\ calls = 0 /\ built = 0 /\ NoLocals

Goes(from, to) == place = from /\ place' = to

-----------------------------------------------------------------------------
(* The guard at the top of the macro reads a variable that only the function *)
(* below sets, in a scope that ends with it: it never fires.                *)
CallRequire ==
  /\ Goes("package", "check")
  /\ calls < MaxCalls
  /\ calls' = calls + 1
  /\ request' \in Requests
  /\ UNCHANGED <<current, valid, index, newest, built>>

Has(r, b) == r[b] # Absent

Contradictory(r) ==
  \/ Has(r, "eq") /\ \E b \in Bound \ {"eq"} : Has(r, b)
  \/ Has(r, "gt") /\ Has(r, "gte")
  \/ Has(r, "lt") /\ Has(r, "lte")

CheckOptions ==
  /\ Goes("check", IF Contradictory(request) THEN "failed" ELSE "filter")
  /\ UNCHANGED <<calls, request, current, valid, index, newest, built>>

(* A lower and an upper bound: a version that satisfies one of them is      *)
(* valid.                                                                   *)
Accepts(r, v) ==
  \/ Has(r, "eq") /\ v = r["eq"]
  \/ /\ ~Has(r, "eq")
     /\ \/ Has(r, "lt")  /\ Older(v, r["lt"])
        \/ Has(r, "lte") /\ (Older(v, r["lte"]) \/ SameNumber(v, r["lte"]))
        \/ Has(r, "gt")  /\ Older(r["gt"], v)
        \/ Has(r, "gte") /\ (Older(r["gte"], v) \/ SameNumber(v, r["gte"]))

(* _osrf_testing_tools_cpp_filter_versions().                               *)
FilterVersion ==
  /\ Goes("filter", "filter")
  /\ current <= Len(Versions)
  /\ valid' = IF Accepts(request, Versions[current]) THEN Append(valid, current) ELSE valid
  /\ current' = current + 1
  /\ UNCHANGED <<calls, request, index, newest, built>>

NoneIsValid ==
  /\ Goes("filter", "failed")
  /\ current > Len(Versions)
  /\ valid = <<>>
  /\ UNCHANGED <<calls, request, current, valid, index, newest, built>>

(* The search starts from the first version, whether it is valid or not.    *)
BeginSelect ==
  /\ Goes("filter", "select")
  /\ current > Len(Versions)
  /\ valid # <<>>
  /\ current' = 1
  /\ index' = 1
  /\ newest' = Versions[1]
  /\ UNCHANGED <<calls, request, valid, built>>

(* Mutant: what is compared with stays the first version.                   *)
SelectLast ==
  LET i == valid[current] IN
  /\ Goes("select", "select")
  /\ current <= Len(valid)
  /\ IF Older(newest, Versions[i])
       THEN index' = i
       ELSE UNCHANGED index
  /\ current' = current + 1
  /\ UNCHANGED <<calls, request, valid, newest, built>>

SelectVersion ==
  LET i == valid[current] IN
  /\ Goes("select", "select")
  /\ current <= Len(valid)
  /\ IF Older(newest, Versions[i])
       THEN index' = i /\ newest' = Versions[i]
       ELSE UNCHANGED <<index, newest>>
  /\ current' = current + 1
  /\ UNCHANGED <<calls, request, valid, built>>

(* The vendor directory is found, or it is not.                             *)
Locate ==
  /\ Goes("select", "extract") \/ Goes("select", "failed")
  /\ current > Len(valid)
  /\ UNCHANGED <<calls, request, current, valid, index, newest, built>>

(* CMake and the build of the external project run at once, or fail.  The   *)
(* guard before them never fires either.                                    *)
Extract ==
  /\ Goes("extract", "add") \/ Goes("extract", "failed")
  /\ UNCHANGED <<calls, request, current, valid, index, newest, built>>

(* Mutant: a googletest that is part of the build already will do.          *)
AddUnlessThere ==
  /\ Goes("add", "package")
  /\ built' = IF built = 0 THEN index ELSE built
  /\ request' = Unbounded /\ current' = 1 /\ valid' = <<>> /\ index' = 0 /\ newest' = Absent
  /\ UNCHANGED calls

(* add_subdirectory() makes it part of the build.  CMake refuses a second   *)
(* one, whose targets have the same names.  The locals are gone after that. *)
AddSubdirectory ==
  \/ /\ built = 0
     /\ Goes("add", "package")
     /\ built' = index
     /\ request' = Unbounded /\ current' = 1 /\ valid' = <<>> /\ index' = 0 /\ newest' = Absent
     /\ UNCHANGED calls
  \/ /\ built # 0
     /\ Goes("add", "failed")
     /\ UNCHANGED <<calls, request, current, valid, index, newest, built>>

(* The package's own code ends, or fails.                                   *)
ConfigureEnds ==
  /\ Goes("package", "configured")
  /\ UNCHANGED <<calls, request, current, valid, index, newest, built>>

ConfigureFails ==
  /\ Goes("package", "failed")
  /\ UNCHANGED <<calls, request, current, valid, index, newest, built>>

Requires ==
  \/ CallRequire
  \/ CheckOptions
  \/ FilterVersion
  \/ NoneIsValid
  \/ BeginSelect
  \/ SelectVersion
  \/ Locate
  \/ Extract
  \/ AddSubdirectory

RequireNext == Requires \/ ConfigureEnds \/ ConfigureFails

RequireSpec == RequireInit /\ [][RequireNext]_selectVars

-----------------------------------------------------------------------------
(* require_googletest.cmake:32-41: a version "must be less than" the one    *)
(* given as VERSION_LT, and so on for each of the bounds.                   *)
Meets(r, v) ==
  /\ Has(r, "eq")  => v = r["eq"]
  /\ Has(r, "lt")  => Older(v, r["lt"])
  /\ Has(r, "lte") => ~Older(r["lte"], v)
  /\ Has(r, "gt")  => Older(r["gt"], v)
  /\ Has(r, "gte") => ~Older(v, r["gte"])

(* The requests the filter reads as these lines have it: one bound, and no  *)
(* version provided that only looks equal to it.                            *)
ReadAsMeant(r) ==
  /\ \A a, b \in Bound : Has(r, a) /\ Has(r, b) => a = b
  /\ \A b \in {"lte", "gte"}, i \in 1 .. Len(Versions) :
       Has(r, b) /\ SameNumber(Versions[i], r[b]) => Versions[i] = r[b]

(* require_googletest.cmake:27,143: "the best of which will be selected",   *)
(* "the newest version available, of the valid versions" -- what is         *)
(* extracted is what was announced, no version that passed the filter is    *)
(* newer, and for a request that is read as it was meant it meets the bound *)
(* and no version that does is newer; although the search starts from one   *)
(* that need not be valid.  (Other requests: BoundsMet.)                    *)
NewestSelected ==
  place \in {"extract", "add"} =>
    /\ newest = Versions[index]
    /\ \A i \in 1 .. Len(Versions) :
         Accepts(request, Versions[i]) => ~Older(newest, Versions[i])
    /\ ReadAsMeant(request) =>
         /\ Meets(request, newest)
         /\ \A i \in 1 .. Len(Versions) :
              Meets(request, Versions[i]) => ~Older(newest, Versions[i])

(* require_googletest.cmake:34: "version must be less than", and lines 36-40 *)
(* of the other bounds -- what is built meets every bound that was given.   *)
BoundsMet == place \in {"extract", "add"} => Meets(request, newest)

(* require_googletest.cmake:29: "This macro should only be called once, as  *)
(* two googletests being built simultaneously is not supported" -- a        *)
(* package that calls it twice is not configured, whatever it asks for.     *)
OneGoogletest == place = "configured" => calls <= 1 /\ (built # 0 <=> calls = 1)
=============================================================================
