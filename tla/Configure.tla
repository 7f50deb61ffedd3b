----------------------------- MODULE Configure -----------------------------
(***************************************************************************)
(* scripts/wasi-configure.sh as a whole: the patch series, and after it    *)
(* scripts/build-eh-runtimes.sh, the C++ runtimes with exceptions, built   *)
(* from the LLVM release of the wasi-sdk in use and installed under        *)
(* deps/wasi-eh, with a stamp that lets the next run return at once.  A    *)
(* run may be killed anywhere or fail (the network, the compiler), and the *)
(* next one starts from what is on disk.                                   *)
(*                                                                         *)
(* curl, tar, cmake and ninja are external: each writes its files one      *)
(* after the other and may be stopped in between.                          *)
(***************************************************************************)
EXTENDS PatchSeries

CONSTANTS Versions,        \* LLVM releases
          Members,         \* what tar takes out of a release's archive
          Parts,           \* what ninja install writes
          SwitchAnytime    \* whether another release may follow a failed run

ASSUME RuntimesAssumption == /\ {"runtimes", "libcxx"} \subseteq Members
                             /\ {"none", "part"} \cap Versions = {}
                             /\ SwitchAnytime \in BOOLEAN

VARIABLES want,       \* LLVM_VERSION of the run
          at,         \* the command build-eh-runtimes.sh is at, or "idle"
          result,     \* of its last run
          tarball,    \* per release: "none", "part" or "whole"
          source,     \* per release and member of its archive: the same, or
                      \* "narrowed" for libcxx with its guard narrowed
          installed,  \* per part: the release it is from, "none" or "part"
          tag         \* contents of the stamp

runtimes == <<want, at, result, tarball, source, installed, tag>>
disk == <<tarball, source, installed, tag>>

ConfInit == /\ Init
            /\ want \in Versions
            /\ at = "idle" /\ result = "none"
            /\ tarball = [v \in Versions |-> "none"]
            /\ source = [v \in Versions |-> [m \in Members |-> "none"]]
            /\ installed = [l \in Parts |-> "none"]
            /\ tag = "none"

GoTo(place) == at' = place /\ UNCHANGED <<want, result>>
End(how) == at' = "idle" /\ result' = how /\ UNCHANGED want

-----------------------------------------------------------------------------
Stamped == tag = want

(* wasi-configure.sh calls the script when the series is applied.          *)
Call == result' = "running" /\ at' = "check" /\ UNCHANGED <<want, disk>>

CheckTag == /\ at = "check"
            /\ IF Stamped THEN End("already") ELSE GoTo("fetch")
            /\ UNCHANGED disk

(* The directory of the runtimes stands for the archive having been        *)
(* unpacked, the file for its having been fetched.                         *)
HaveSource == source[want]["runtimes"] # "none"

Complete(m) == source[want][m] \in {"whole", "narrowed"}

Fetch == /\ at = "fetch"
         /\ IF HaveSource
            THEN GoTo("guard") /\ UNCHANGED tarball
            ELSE /\ GoTo("unpack")
                 /\ tarball' = [tarball EXCEPT ![want] = IF @ = "none" THEN "whole" ELSE @]
         /\ UNCHANGED <<source, installed, tag>>

(* tar takes the members in whatever order the archive has them; of one    *)
(* that is cut short it takes some and fails.                              *)
Unpack == /\ at = "unpack" /\ tarball[want] = "whole"
          /\ \E m \in Members : /\ ~Complete(m)
                                /\ source' = [source EXCEPT ![want][m] = "whole"]
          /\ UNCHANGED <<want, at, result, tarball, installed, tag>>

Unpacked == /\ at = "unpack" /\ \A m \in Members : Complete(m)
            /\ GoTo("guard") /\ UNCHANGED disk

UnpackFails == /\ at = "unpack" /\ tarball[want] # "whole"
               /\ \E got \in [Members -> {"none", "part", "whole"}] :
                     /\ \E m \in Members : got[m] # "whole"
                     /\ source' = [source EXCEPT ![want] = got]
               /\ End("failed") /\ UNCHANGED <<tarball, installed, tag>>

(* The guard around copy_file_range is narrowed in place, once; without    *)
(* its line in operations.cpp the script ends.                             *)
NarrowGuard ==
    /\ at = "guard"
    /\ IF Complete("libcxx")
       THEN GoTo("build") /\ source' = [source EXCEPT ![want]["libcxx"] = "narrowed"]
       ELSE End("failed") /\ UNCHANGED source
    /\ UNCHANGED <<tarball, installed, tag>>

(* The build directory is made from nothing each time.                     *)
Build == /\ at = "build"
         /\ IF \A m \in Members : Complete(m) THEN GoTo("install")
            ELSE End("failed")
         /\ UNCHANGED disk

Install == /\ at = "install"
           /\ \E l \in Parts : /\ installed[l] # want
                               /\ installed' = [installed EXCEPT ![l] = want]
           /\ UNCHANGED <<want, at, result, tarball, source, tag>>

AllInstalled == \A l \in Parts : installed[l] = want

(* Mutant: the stamp is written before the files.                          *)
ReadyToStamp_Early == at = "install"

ReadyToStamp == at = "install" /\ AllInstalled

Stamp == /\ ReadyToStamp
         /\ tag' = want
         /\ IF AllInstalled THEN End("installed") ELSE GoTo(at)
         /\ UNCHANGED <<tarball, source, installed>>

(* A run is stopped: the file in the making is there in part.              *)
HalfDone ==
    \/ UNCHANGED disk
    \/ /\ at = "fetch" /\ ~HaveSource /\ tarball[want] = "none"
       /\ tarball' = [tarball EXCEPT ![want] = "part"]
       /\ UNCHANGED <<source, installed, tag>>
    \/ /\ at = "unpack" /\ tarball[want] = "whole"
       /\ \E m \in Members : /\ source[want][m] = "none"
                             /\ source' = [source EXCEPT ![want][m] = "part"]
       /\ UNCHANGED <<tarball, installed, tag>>
    \/ /\ at = "guard" /\ source[want]["libcxx"] = "whole"
       /\ source' = [source EXCEPT ![want]["libcxx"] = "part"]
       /\ UNCHANGED <<tarball, installed, tag>>
    \/ /\ at = "install"
       /\ \E l \in Parts : /\ installed[l] # want
                           /\ installed' = [installed EXCEPT ![l] = "part"]
       /\ UNCHANGED <<tarball, source, tag>>
    \/ /\ at = "install" /\ AllInstalled
       /\ tag' = "part"
       /\ UNCHANGED <<tarball, source, installed>>

Stopped == /\ at # "idle" /\ crashes < MaxCrashes
           /\ HalfDone
           /\ at' = "idle" /\ result' = "failed" /\ crashes' = crashes + 1
           /\ UNCHANGED <<want, tree, index, pc, dirty, next, outcome, edited, edits>>

(* Another wasi-sdk, or another LLVM_VERSION in the environment.           *)
Switch == /\ pc = "idle" /\ at = "idle"
          /\ SwitchAnytime \/ result \in {"none", "already", "installed"}
          /\ want' \in Versions \ {want}
          /\ result' = "none"
          /\ UNCHANGED <<at, disk>>

Build_eh == \/ CheckTag \/ Fetch \/ Unpack \/ Unpacked \/ UnpackFails
            \/ NarrowGuard \/ Build \/ Install \/ Stamp

(* The series: no other run begins while this one builds the runtimes.     *)
Series_ == at = "idle" /\ Run /\ IF outcome' = "applied" THEN Call ELSE UNCHANGED runtimes

ConfRun == Series_ \/ (Build_eh /\ UNCHANGED vars)

ConfNext == \/ ConfRun
            \/ Stopped
            \/ Switch /\ UNCHANGED vars
            \/ (KilledInReset \/ KilledInApply \/ Edit) /\ UNCHANGED runtimes
            \/ at = "idle" /\ Stage /\ UNCHANGED runtimes

ConfSpec == ConfInit /\ [][ConfNext]_<<vars, runtimes>>

(* Builds go on being run, and a run that is not stopped gets on.          *)
FairConfSpec == ConfSpec /\ WF_<<vars, runtimes>>(ConfRun)

-----------------------------------------------------------------------------
(* Properties.                                                             *)

(* "EH runtimes already built for LLVM v" (build-eh-runtimes.sh:36), and   *)
(* "installed" at the end: every installed part is from the release the    *)
(* run was for, whatever earlier runs left in the directory.               *)
RuntimesAreBuilt == result \in {"already", "installed"} => AllInstalled

(* A run that is stopped is made good by running the script again.         *)
RerunInstalls ==
    <>[][want' = want]_want => <>(result \in {"already", "installed"})
=============================================================================
