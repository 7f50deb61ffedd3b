-------------------------- MODULE ConfigureProofs --------------------------
(***************************************************************************)
(* Proofs about PatchSeries, for every working tree and series, and about  *)
(* Configure, for all releases, members and parts besides.                 *)
(*                                                                         *)
(* The series: what git's status did not list was as the commit has it, what *)
(* it listed is put back before the first patch, and from then on a file   *)
(* that nobody edits is the pinned one with the patches so far.  So each   *)
(* patch that is taken brings every file it touches one step on.           *)
(*                                                                         *)
(* The runtimes: past the look at the stamp a run works with a stamp that is *)
(* not the one wanted, so wherever it ends no later run returns at once    *)
(* before all of it is installed; and if the release only changes after a  *)
(* run that ended well, the stamp seen at the change tells the truth about *)
(* what is installed.                                                      *)
(***************************************************************************)
EXTENDS Configure, TLAPS

PatchTypes ==
    /\ tree \in [Paths -> File] /\ index \in [Paths -> File]
    /\ pc \in {"idle", "reset", "apply"}
    /\ dirty \subseteq touched
    /\ next \in Nat \ {0} /\ edits \in Nat
    /\ pc \in {"reset", "apply"} <=> outcome = "running"

(* Not yet put back, or as the commit has it.                              *)
PutBack ==
    pc = "reset" =>
        /\ next = 1
        /\ \A p \in Paths \ (edited \cup dirty) : Unstaged(p) => tree[p] = Pinned(p)

(* A patch that was taken shows in the file, staged or not: so what a run  *)
(* leaves cannot be the pinned file, which git add would make unstaged.    *)
Carried(p, n) == \A m \in 1 .. n - 1 : p \in Series[m] => m \in tree[p].patches

Stacked ==
    pc = "apply" =>
        /\ next <= Len(Series) + 1
        /\ \A p \in Paths \ edited : /\ Unstaged(p) => tree[p] = Before(next, p)
                                     /\ Carried(p, next)

Applied ==
    outcome = "applied" =>
        \A p \in Paths \ edited : /\ Unstaged(p) => tree[p] = Full(p)
                                  /\ Carried(p, Len(Series) + 1)

IInv == PatchTypes /\ PutBack /\ Stacked /\ Applied

-----------------------------------------------------------------------------
LEMMA TouchedByOne == \A n \in 1 .. Len(Series) : Series[n] \subseteq touched /\ Series[n] \subseteq Paths
BY SeriesAssumption DEF touched

LEMMA TouchedInPaths == touched \subseteq Paths
BY SeriesAssumption DEF touched

LEMMA PinnedIsFile == \A p \in Paths : Pinned(p) \in File
BY DEF Pinned, Absent, File

(* Before patch 1 a file is the pinned one.                                *)
LEMMA BeforeFirst == \A p \in Paths : Before(1, p) = Pinned(p)
BY DEF Before, Pinned, Absent

(* A patch adds its number to the files it touches, and to no other.       *)
LEMMA BeforeStep ==
    ASSUME NEW p \in Paths, NEW n \in Nat \ {0}
    PROVE  Before(n + 1, p) = IF p \in Series[n]
                              THEN [Before(n, p) EXCEPT !.patches = @ \cup {n}]
                              ELSE Before(n, p)
<1>1. {m \in 1 .. (n + 1) - 1 : p \in Series[m]}
        = {m \in 1 .. n - 1 : p \in Series[m]} \cup (IF p \in Series[n] THEN {n} ELSE {})
  OBVIOUS
<1> QED
  BY <1>1 DEF Before, Pinned, Absent

-----------------------------------------------------------------------------
LEMMA IInvInit == Init => IInv
<1> SUFFICES ASSUME Init PROVE IInv
  OBVIOUS
<1> QED
  BY PinnedIsFile DEF Init, IInv, PatchTypes, PutBack, Stacked, Applied

LEMMA StartKeeps == IInv /\ Start => IInv'
<1> SUFFICES ASSUME IInv, Start PROVE IInv'
  OBVIOUS
<1>1. PatchTypes'
  BY DEF IInv, PatchTypes, Start, foreign, status
<1>2. PutBack'
  BY DEF IInv, PatchTypes, Start, PutBack, status, Unstaged
<1> QED
  BY <1>1, <1>2 DEF Start, IInv, Stacked, Applied

LEMMA ResetKeeps == IInv /\ ResetPath => IInv'
<1> SUFFICES ASSUME IInv, ResetPath PROVE IInv'
  OBVIOUS
<1>1. PICK p \in dirty : tree' = [tree EXCEPT ![p] = index[p]] /\ dirty' = dirty \ {p}
  BY DEF ResetPath, Restored
<1>2. p \in Paths
  BY TouchedInPaths DEF IInv, PatchTypes
<1>3. PatchTypes'
  BY <1>1, <1>2 DEF IInv, PatchTypes, ResetPath
<1>4. PutBack'
  BY <1>1, <1>2 DEF IInv, PatchTypes, ResetPath, PutBack, Unstaged, Pinned
<1> QED
  BY <1>3, <1>4 DEF ResetPath, IInv, PatchTypes, Stacked, Applied

LEMMA ResetDoneKeeps == IInv /\ ResetDone => IInv'
<1> SUFFICES ASSUME IInv, ResetDone PROVE IInv'
  OBVIOUS
<1>1. PatchTypes'
  BY DEF IInv, PatchTypes, ResetDone
<1>2. next = 1 /\ \A p \in Paths \ edited : Unstaged(p) => tree[p] = Pinned(p)
  BY DEF IInv, PutBack, ResetDone
<1>3. Stacked'
  BY <1>2, BeforeFirst, SeriesAssumption DEF ResetDone, Stacked, Unstaged, Carried
<1> QED
  BY <1>1, <1>3 DEF ResetDone, IInv, PatchTypes, PutBack, Applied

LEMMA ApplyKeeps == IInv /\ ApplyPatch => IInv'
<1> SUFFICES ASSUME IInv, ApplyPatch PROVE IInv'
  OBVIOUS
<1>1. CASE Refused
  BY <1>1 DEF ApplyPatch, Refused, IInv, PatchTypes, PutBack, Stacked, Applied
<1>2. CASE /\ \E merges \in BOOLEAN :
                 \A p \in Series[next] : Applies(next, p, tree[p], merges)
           /\ tree' = Patched(next, Series[next]) /\ next' = next + 1
           /\ UNCHANGED <<pc, outcome>>
  <2>1. next \in 1 .. Len(Series) /\ Len(Series) \in Nat
    BY SeriesAssumption DEF ApplyPatch, IInv, PatchTypes
  <2>2. \A p \in Paths : Patched(next, Series[next])[p] \in File
    BY <2>1 DEF Patched, IInv, PatchTypes, File
  <2>3. PatchTypes'
    BY <1>2, <2>1, <2>2 DEF Patched, IInv, PatchTypes, ApplyPatch
  <2>4. ASSUME NEW p \in Paths \ edited
        PROVE  /\ (Unstaged(p) => tree[p] = Before(next, p))'
               /\ Carried(p, next)'
    <3>1. (Unstaged(p) => tree[p] = Before(next, p)) /\ Carried(p, next)
      BY <2>4 DEF IInv, Stacked, ApplyPatch
    <3>2. tree'[p] = IF p \in Series[next] THEN [tree[p] EXCEPT !.patches = @ \cup {next}]
                     ELSE tree[p]
      BY <1>2 DEF Patched
    <3>3. Unstaged(p)' <=> Unstaged(p)
      BY DEF ApplyPatch, Unstaged
    <3>4. (Unstaged(p) => tree[p] = Before(next, p))'
      BY <1>2, <2>1, <3>1, <3>2, <3>3, BeforeStep
    <3>5. tree[p] \in File
      BY DEF IInv, PatchTypes
    <3>6. Carried(p, next)'
      BY <1>2, <2>1, <3>1, <3>2, <3>5 DEF Carried, File
    <3> QED
      BY <3>4, <3>6
  <2>5. Stacked'
    BY <1>2, <2>1, <2>4 DEF Stacked, ApplyPatch
  <2> QED
    BY <1>2, <2>3, <2>5 DEF ApplyPatch, IInv, PatchTypes, PutBack, Applied
<1> QED
  BY <1>1, <1>2 DEF ApplyPatch

LEMMA AppliedKeeps == IInv /\ SeriesApplied => IInv'
<1> SUFFICES ASSUME IInv, SeriesApplied PROVE IInv'
  OBVIOUS
<1>1. next = Len(Series) + 1
  BY SeriesAssumption DEF IInv, Stacked, PatchTypes, SeriesApplied
<1>2. Applied'
  BY <1>1 DEF IInv, Stacked, Applied, SeriesApplied, Full, Unstaged, Carried
<1> QED
  BY <1>2 DEF SeriesApplied, IInv, PatchTypes, PutBack, Stacked

(* Whatever a kill leaves is a file, and the run is over.                  *)
LEMMA KilledKeeps == IInv /\ (KilledInReset \/ KilledInApply) => IInv'
<1> SUFFICES ASSUME IInv, KilledInReset \/ KilledInApply PROVE IInv'
  OBVIOUS
<1>1. Absent \in File /\ Torn \in File
  BY DEF Absent, Torn, File
<1>2. \A W \in SUBSET Paths : Patched(next, W) \in [Paths -> File]
  BY DEF Patched, IInv, PatchTypes, File
<1>3. tree' \in [Paths -> File]
  <2>1. CASE KilledInReset
    BY <2>1, <1>1 DEF KilledInReset, IInv, PatchTypes
  <2>2. CASE KilledInApply
    <3>1. CASE tree' = tree
      BY <3>1 DEF IInv, PatchTypes
    <3>2. CASE tree' # tree
      <4>1. next <= Len(Series)
        BY <2>2, <3>2 DEF KilledInApply
      <4>2. Series[next] \subseteq Paths
        BY <4>1, TouchedByOne, SeriesAssumption DEF IInv, PatchTypes
      <4>3. PICK W \in SUBSET Series[next] :
                \/ tree' = Patched(next, W)
                \/ \E p \in Series[next] \ W, f \in {Absent, Torn} :
                      tree' = [Patched(next, W) EXCEPT ![p] = f]
        BY <2>2, <3>2 DEF KilledInApply
      <4>4. Patched(next, W) \in [Paths -> File]
        BY <4>2, <1>2
      <4>5. \A p \in Paths, f \in File : [Patched(next, W) EXCEPT ![p] = f] \in [Paths -> File]
        BY <4>4
      <4> QED
        BY <4>2, <4>3, <4>4, <4>5, <1>1
    <3> QED
      BY <3>1, <3>2
  <2> QED
    BY <2>1, <2>2
<1> QED
  BY <1>3 DEF KilledInReset, KilledInApply, Killed, IInv, PatchTypes, PutBack, Stacked,
              Applied

LEMMA EditKeeps == IInv /\ Edit => IInv'
<1> SUFFICES ASSUME IInv, Edit PROVE IInv'
  OBVIOUS
<1>1. PICK q \in Paths : /\ \E f \in File : tree' = [tree EXCEPT ![q] = f]
                         /\ edited' = edited \cup {q}
  <2>1. Absent \in File
    BY DEF Absent, File
  <2>2. ASSUME NEW q \in Paths PROVE [tree[q] EXCEPT !.own = TRUE] \in File
    <3>1. tree[q] \in File
      BY DEF IInv, PatchTypes
    <3> QED
      BY <3>1 DEF File
  <2> QED
    BY <2>1, <2>2 DEF Edit
<1>2. \A p \in Paths \ edited' : p \notin edited /\ tree'[p] = tree[p]
                                 /\ (Unstaged(p)' <=> Unstaged(p))
  BY <1>1 DEF Edit, IInv, PatchTypes, Unstaged
<1>3. PatchTypes'
  BY <1>1 DEF Edit, IInv, PatchTypes
<1>4. PutBack' /\ Stacked' /\ Applied'
  BY <1>2 DEF Edit, IInv, PutBack, Stacked, Applied, Carried
<1> QED
  BY <1>3, <1>4 DEF IInv

LEMMA StageKeeps == IInv /\ Stage => IInv'
<1> SUFFICES ASSUME IInv, Stage PROVE IInv'
  OBVIOUS
<1>1. PICK q \in Paths : index' = [index EXCEPT ![q] = tree[q]]
  BY DEF Stage
<1>2. PatchTypes'
  BY <1>1 DEF Stage, IInv, PatchTypes
<1>3. ASSUME outcome = "applied", NEW p \in Paths \ edited, Unstaged(p)'
      PROVE  tree[p] = Full(p)
  <2>1. CASE p # q
    BY <1>1, <1>3, <2>1 DEF IInv, PatchTypes, Applied, Unstaged
  <2>2. CASE p = q
    <3>1. tree[p] = Pinned(p)
      BY <1>1, <1>3, <2>2 DEF IInv, PatchTypes, Unstaged
    <3>2. \A m \in 1 .. Len(Series) : p \notin Series[m]
      <4>1. tree[p].patches = {}
        BY <3>1 DEF Pinned, Absent
      <4>2. Carried(p, Len(Series) + 1)
        BY <1>3 DEF IInv, Applied
      <4>3. 1 .. (Len(Series) + 1) - 1 = 1 .. Len(Series)
        BY SeriesAssumption
      <4> QED
        BY <4>1, <4>2, <4>3 DEF Carried
    <3>3. {m \in 1 .. (Len(Series) + 1) - 1 : p \in Series[m]} = {}
      BY <3>2, SeriesAssumption
    <3>4. Full(p) = [Pinned(p) EXCEPT !.patches = {}]
      BY <3>3 DEF Full, Before
    <3> QED
      BY <3>1, <3>4 DEF Pinned, Absent
  <2> QED
    BY <2>1, <2>2
<1>4. Applied'
  BY <1>3 DEF Stage, IInv, Applied, Carried
<1> QED
  BY <1>2, <1>4 DEF Stage, IInv, PutBack, Stacked

LEMMA IInvStep == IInv /\ [Next]_vars => IInv'
<1> SUFFICES ASSUME IInv, [Next]_vars PROVE IInv'
  OBVIOUS
<1>1. CASE Refuse
  BY <1>1 DEF Refuse, IInv, PatchTypes, PutBack, Stacked, Applied
<1>2. CASE UNCHANGED vars
  BY <1>2 DEF vars, IInv, PatchTypes, PutBack, Stacked, Applied, Unstaged, Carried
<1> QED
  BY <1>1, <1>2, StartKeeps, ResetKeeps, ResetDoneKeeps, ApplyKeeps, AppliedKeeps,
     KilledKeeps, EditKeeps, StageKeeps DEF Next, Run

(* A run that applied the series left the pinned commit plus the series,   *)
(* whatever was killed, edited or staged before it.                        *)
THEOREM AppliedMeansApplied == Spec => []TreeIsSeries
<1>1. IInv => TreeIsSeries
  BY DEF IInv, Applied, TreeIsSeries
<1> QED
  BY <1>1, IInvInit, IInvStep, PTL DEF Spec

-----------------------------------------------------------------------------
(* What a run writes is a path of the series.                              *)
LEMMA WritesOnlyTouched ==
    IInv /\ [Next]_vars =>
        \A p \in Paths \ touched : tree'[p] # tree[p] => edits' = edits + 1
<1> SUFFICES ASSUME IInv, [Next]_vars, NEW p \in Paths \ touched
             PROVE  tree'[p] # tree[p] => edits' = edits + 1
  OBVIOUS
<1>1. next <= Len(Series) => Series[next] \subseteq touched
  BY TouchedByOne, SeriesAssumption DEF IInv, PatchTypes
<1>2. CASE ResetPath
  BY <1>2 DEF ResetPath, IInv, PatchTypes
<1>3. CASE ApplyPatch
  BY <1>1, <1>3 DEF ApplyPatch, Refused, Patched
<1>4. CASE KilledInReset
  BY <1>4 DEF KilledInReset, IInv, PatchTypes
<1>5. CASE KilledInApply
  <2>1. CASE tree' = tree
    BY <2>1
  <2>2. CASE tree' # tree
    <3>1. PICK W \in SUBSET Series[next] :
              \/ tree' = Patched(next, W)
              \/ \E q \in Series[next] \ W, f \in {Absent, Torn} :
                    tree' = [Patched(next, W) EXCEPT ![q] = f]
      BY <1>5, <2>2 DEF KilledInApply
    <3>2. p \notin Series[next]
      BY <1>1, <1>5, <2>2 DEF KilledInApply
    <3>3. p \notin W /\ Patched(next, W)[p] = tree[p]
      BY <3>1, <3>2 DEF Patched
    <3>4. \A q \in Series[next], f \in {Absent, Torn} :
              [Patched(next, W) EXCEPT ![q] = f][p] = tree[p]
      BY <3>2, <3>3 DEF Patched
    <3> QED
      BY <3>1, <3>3, <3>4
  <2> QED
    BY <2>1, <2>2
<1>6. CASE Edit
  BY <1>6 DEF Edit
<1>7. CASE UNCHANGED tree
  BY <1>7
<1>8. CASE Refuse \/ Start \/ ResetDone \/ SeriesApplied \/ Stage \/ UNCHANGED vars
  BY <1>7, <1>8 DEF Refuse, Start, ResetDone, SeriesApplied, Stage, vars
<1> QED
  BY <1>2, <1>3, <1>4, <1>5, <1>6, <1>8 DEF Next, Run

(* Only the developer changes a file outside the series' paths.            *)
THEOREM OthersAreSafe == Spec => ForeignUntouched
<1>1. IInv /\ [Next]_vars =>
          [\A p \in Paths \ touched : tree'[p] # tree[p] => edits' = edits + 1]_vars
  BY WritesOnlyTouched
<1> QED
  BY <1>1, IInvInit, IInvStep, PTL DEF Spec, ForeignUntouched

-----------------------------------------------------------------------------
Good == {"none", "already", "installed"}

Built == /\ want \in Versions
         /\ at # "idle" => result = "running"
         /\ at \notin {"idle", "check"} => tag # want
         /\ result \in {"already", "installed"} => tag = want
         /\ tag = want => AllInstalled
         /\ result \in Good /\ tag \in Versions => \A l \in Parts : installed[l] = tag

LEMMA BuiltInit == ConfInit => Built
BY RuntimesAssumption DEF ConfInit, Built, Good

(* The series leaves the runtimes alone, except that it calls the script.  *)
LEMMA BuiltSeries == Built /\ (UNCHANGED runtimes \/ (at = "idle" /\ Call)) => Built'
BY DEF Built, Good, AllInstalled, runtimes, Call, disk

LEMMA BuiltStopped == Built /\ Stopped => Built'
<1> SUFFICES ASSUME Built, Stopped PROVE Built'
  OBVIOUS
<1> USE DEF Built, Good, AllInstalled
<1>1. at' = "idle" /\ result' = "failed" /\ want' = want
  BY DEF Stopped
<1>2. CASE UNCHANGED <<installed, tag>>
  BY <1>1, <1>2
<1>3. CASE at = "install" /\ tag' \in {tag, "part"}
  BY <1>1, <1>3, RuntimesAssumption
<1> QED
  BY <1>2, <1>3 DEF Stopped, HalfDone, disk

LEMMA BuiltBuild == Built /\ Build_eh => Built'
<1> SUFFICES ASSUME Built, Build_eh PROVE Built'
  OBVIOUS
<1> USE DEF Built, Good, AllInstalled
<1>1. CASE CheckTag
  BY <1>1 DEF CheckTag, Stamped, GoTo, End, disk
<1>2. CASE Fetch
  BY <1>2 DEF Fetch, GoTo
<1>3. CASE Unpack
  BY <1>3 DEF Unpack
<1>4. CASE Unpacked
  BY <1>4 DEF Unpacked, GoTo, disk
<1>5. CASE UnpackFails
  BY <1>5 DEF UnpackFails, End
<1>6. CASE NarrowGuard
  BY <1>6 DEF NarrowGuard, GoTo, End
<1>7. CASE Build
  BY <1>7 DEF Build, GoTo, End, disk
<1>8. CASE Install
  BY <1>8 DEF Install
<1>9. CASE Stamp
  BY <1>9 DEF Stamp, ReadyToStamp, GoTo, End
<1> QED
  BY <1>1, <1>2, <1>3, <1>4, <1>5, <1>6, <1>7, <1>8, <1>9 DEF Build_eh

LEMMA BuiltStep == ~SwitchAnytime /\ Built /\ [ConfNext]_<<vars, runtimes>> => Built'
<1> SUFFICES ASSUME ~SwitchAnytime, Built, [ConfNext]_<<vars, runtimes>> PROVE Built'
  OBVIOUS
<1>1. CASE ConfRun
  BY <1>1, BuiltSeries, BuiltBuild DEF ConfRun, Series_
<1>2. CASE Stopped
  BY <1>2, BuiltStopped
<1>3. CASE Switch
  BY <1>3 DEF Switch, Built, Good, AllInstalled, disk
<1>4. CASE UNCHANGED runtimes
  BY <1>4, BuiltSeries
<1> QED
  BY <1>1, <1>2, <1>3, <1>4 DEF ConfNext

(* RuntimesAreBuilt holds if another release is only asked for after a run *)
(* that ended well: the stamp alone is then enough to skip the build.      *)
THEOREM StampIsEnough == ~SwitchAnytime => (ConfSpec => []RuntimesAreBuilt)
<1> SUFFICES ASSUME ~SwitchAnytime PROVE ConfSpec => []RuntimesAreBuilt
  OBVIOUS
<1>1. Built => RuntimesAreBuilt
  BY DEF Built, RuntimesAreBuilt
<1>2. Built /\ [ConfNext]_<<vars, runtimes>> => Built'
  BY BuiltStep
<1> QED
  BY <1>1, <1>2, BuiltInit, PTL DEF ConfSpec

-----------------------------------------------------------------------------
(* What follows the series leaves the working tree alone.                  *)
LEMMA SeriesKeeps == IInv /\ [ConfNext]_<<vars, runtimes>> => IInv'
<1> SUFFICES ASSUME IInv, [ConfNext]_<<vars, runtimes>> PROVE IInv'
  OBVIOUS
<1>1. CASE [Next]_vars
  BY <1>1, IInvStep
<1>2. CASE Stopped
  BY <1>2 DEF Stopped, IInv, PatchTypes, PutBack, Stacked, Applied, Carried, Unstaged
<1> QED
  BY <1>1, <1>2 DEF ConfNext, ConfRun, Series_, Next, vars

(* TreeIsSeries holds of the whole script: also a run that was stopped     *)
(* while it built the runtimes has left the series applied.                *)
THEOREM ConfiguredIsSeries == ConfSpec => []TreeIsSeries
<1>1. ConfInit => IInv
  BY IInvInit DEF ConfInit
<1>2. IInv => TreeIsSeries
  BY DEF IInv, Applied, TreeIsSeries
<1> QED
  BY <1>1, <1>2, SeriesKeeps, PTL DEF ConfSpec

(* ForeignUntouched holds of the whole script.                             *)
THEOREM ConfigureLeavesOthers == ConfSpec => ForeignUntouched
<1>1. IInv /\ [ConfNext]_<<vars, runtimes>> =>
          [\A p \in Paths \ touched : tree'[p] # tree[p] => edits' = edits + 1]_vars
  <2>1. Stopped => UNCHANGED tree
    BY DEF Stopped
  <2> QED
    BY <2>1, WritesOnlyTouched DEF ConfNext, ConfRun, Series_, Next, vars
<1>2. ConfInit => IInv
  BY IInvInit DEF ConfInit
<1> QED
  BY <1>1, <1>2, SeriesKeeps, PTL DEF ConfSpec, ForeignUntouched
=============================================================================
