---------------------------- MODULE PatchSeries ----------------------------
(***************************************************************************)
(* scripts/wasi-configure.sh: the stacked series of patches is put on the  *)
(* llama.cpp working tree by every build.  A run looks at git's status     *)
(* once, puts the paths it listed back, and applies the patches one by     *)
(* one.  It may be killed anywhere, and the developer's editor does not    *)
(* wait for it.                                                            *)
(*                                                                         *)
(* A file is what it started from, the patches it carries and whether the  *)
(* developer edited it.  git itself is external: apply takes a patch whole *)
(* or fails, but when killed it leaves some of the files written.          *)
(***************************************************************************)
EXTENDS Naturals, Sequences, FiniteSets

CONSTANTS Paths,       \* files of the working tree
          Tracked,     \* those of the pinned commit
          Series,      \* the patches in order, each the set of paths it touches
          MaxEdits,    \* bound: edits and git adds by the developer
          MaxCrashes   \* bound: runs killed half-way

ASSUME SeriesAssumption == /\ Tracked \subseteq Paths
                           /\ Series \in Seq(SUBSET Paths)
                           /\ MaxEdits \in Nat /\ MaxCrashes \in Nat

VARIABLES tree,      \* the files of the working tree
          index,     \* the files as git's index has them
          pc,        \* "idle", "reset", "apply"
          dirty,     \* the listed paths the reset loop has not come to
          next,      \* number of the patch to apply
          outcome,   \* of the last run; "running" while one runs
          edited,    \* ghost: paths the developer changed since git's status
          edits, crashes

vars == <<tree, index, pc, dirty, next, outcome, edited, edits, crashes>>

-----------------------------------------------------------------------------
File == [base : {"none", "pinned", "torn"}, patches : SUBSET Nat, own : BOOLEAN]

Absent == [base |-> "none", patches |-> {}, own |-> FALSE]
Torn   == [base |-> "torn", patches |-> {}, own |-> FALSE]

Pinned(p) == IF p \in Tracked THEN [Absent EXCEPT !.base = "pinned"] ELSE Absent

(* A file of the pinned commit with the patches before patch n.            *)
Before(n, p) == [Pinned(p) EXCEPT !.patches = {m \in 1 .. n - 1 : p \in Series[m]}]

Full(p) == Before(Len(Series) + 1, p)

(* git apply --numstat of the whole series.                                *)
touched == UNION {Series[n] : n \in 1 .. Len(Series)}

(* git status --porcelain --untracked-files=all: what differs from the     *)
(* index or, staged, from the commit.                                      *)
status == {p \in Paths : tree[p] # index[p] \/ index[p] # Pinned(p)}

(* Mutant: the reset takes every path the status lists.                    *)
foreign_None == {}

foreign == status \ touched

-----------------------------------------------------------------------------
Init == /\ tree = [p \in Paths |-> Pinned(p)]
        /\ index = [p \in Paths |-> Pinned(p)]
        /\ pc = "idle" /\ dirty = {} /\ next = 1
        /\ outcome = "none"
        /\ edited = {} /\ edits = 0 /\ crashes = 0

(* A change outside the series' paths ends the run before it did anything. *)
Refuse == /\ pc = "idle" /\ foreign # {}
          /\ outcome' = "refused" /\ edited' = {}
          /\ UNCHANGED <<tree, index, pc, dirty, next, edits, crashes>>

Start == /\ pc = "idle" /\ foreign = {}
         /\ pc' = "reset" /\ dirty' = status /\ next' = 1
         /\ outcome' = "running" /\ edited' = {}
         /\ UNCHANGED <<tree, index, edits, crashes>>

(* Mutant: a file the series created stays.                                *)
Restored_Tracked(p) == IF index[p] # Absent THEN index[p] ELSE tree[p]

(* git checkout of a file the index has, rm -f of another.                 *)
Restored(p) == IF index[p] # Absent THEN index[p] ELSE Absent

ResetPath == /\ pc = "reset"
             /\ \E p \in dirty : /\ tree' = [tree EXCEPT ![p] = Restored(p)]
                                 /\ dirty' = dirty \ {p}
             /\ UNCHANGED <<index, pc, next, outcome, edited, edits, crashes>>

ResetDone == /\ pc = "reset" /\ dirty = {}
             /\ pc' = "apply"
             /\ UNCHANGED <<tree, index, dirty, next, outcome, edited, edits, crashes>>

(* Patch n finds its context in f.  Among the developer's own lines it may *)
(* or may not; a file it creates must not exist.                           *)
Applies(n, p, f, merges) ==
    LET before == Before(n, p)
    IN  \/ f = before
        \/ /\ before # Absent /\ merges
           /\ f = [before EXCEPT !.own = TRUE]

Patched(n, W) == [p \in Paths |-> IF p \in W THEN [tree[p] EXCEPT !.patches = @ \cup {n}]
                                  ELSE tree[p]]

(* Mutant: without `set -e` a patch that fails is passed over.             *)
Refused_GoesOn == next' = next + 1 /\ UNCHANGED <<tree, pc, outcome>>

(* A patch that does not apply ends the run.                               *)
Refused == pc' = "idle" /\ outcome' = "failed" /\ UNCHANGED <<tree, next>>

ApplyPatch ==
    /\ pc = "apply" /\ next <= Len(Series)
    /\ \E merges \in BOOLEAN :
          IF \A p \in Series[next] : Applies(next, p, tree[p], merges)
          THEN /\ tree' = Patched(next, Series[next]) /\ next' = next + 1
               /\ UNCHANGED <<pc, outcome>>
          ELSE Refused
    /\ UNCHANGED <<index, dirty, edited, edits, crashes>>

SeriesApplied == /\ pc = "apply" /\ next > Len(Series)
                 /\ pc' = "idle" /\ outcome' = "applied"
                 /\ UNCHANGED <<tree, index, dirty, next, edited, edits, crashes>>

(* The run is killed: between two commands, in a checkout, which takes the *)
(* old file away first, or in an apply, which writes file after file.      *)
Killed == /\ crashes < MaxCrashes
          /\ pc' = "idle" /\ outcome' = "killed" /\ crashes' = crashes + 1
          /\ UNCHANGED <<index, dirty, next, edited, edits>>

KilledInReset ==
    /\ pc = "reset"
    /\ \/ tree' = tree
       \/ \E p \in dirty, f \in {Absent, Torn} : tree' = [tree EXCEPT ![p] = f]
    /\ Killed

KilledInApply ==
    /\ pc = "apply"
    /\ \/ tree' = tree
       \/ /\ next <= Len(Series)
          /\ \A p \in Series[next] : Applies(next, p, tree[p], TRUE)
          /\ \E W \in SUBSET Series[next] :
                \/ tree' = Patched(next, W)
                \/ \E p \in Series[next] \ W, f \in {Absent, Torn} :
                      tree' = [Patched(next, W) EXCEPT ![p] = f]
    /\ Killed

(* The developer edits, creates or deletes a file, at any time.            *)
Edit == /\ edits < MaxEdits
        /\ \E p \in Paths : /\ \E f \in {[tree[p] EXCEPT !.own = TRUE], Absent} :
                                  tree' = [tree EXCEPT ![p] = f]
                            /\ edited' = edited \cup {p}
        /\ edits' = edits + 1
        /\ UNCHANGED <<index, pc, dirty, next, outcome, crashes>>

(* git add between two runs, of a change or of what a run has applied.     *)
Stage == /\ pc = "idle" /\ edits < MaxEdits
         /\ \E p \in Paths : /\ tree[p] # index[p]
                             /\ index' = [index EXCEPT ![p] = tree[p]]
         /\ edits' = edits + 1
         /\ UNCHANGED <<tree, pc, dirty, next, outcome, edited, crashes>>

Run == Refuse \/ Start \/ ResetPath \/ ResetDone \/ ApplyPatch \/ SeriesApplied

Next == Run \/ KilledInReset \/ KilledInApply \/ Edit \/ Stage

Spec == Init /\ [][Next]_vars

(* Builds go on being run, and a run that is not killed gets on.           *)
FairSpec == Spec /\ WF_vars(Run)

-----------------------------------------------------------------------------
(* Properties.                                                             *)

Unstaged(p) == index[p] = Pinned(p)

(* A run that says it applied the series left every file that was neither  *)
(* edited meanwhile nor staged as the pinned commit plus the whole series, *)
(* whatever earlier runs left behind when they were killed or failed.  A   *)
(* path that keeps a patch, or half of one, need not fail the build: the   *)
(* object would be compiled from it.                                       *)
TreeIsSeries ==
    outcome = "applied" => \A p \in Paths \ edited : Unstaged(p) => tree[p] = Full(p)

(* Only the developer changes a file outside the series' paths: a run      *)
(* that met one leaves it alone, also when it was edited between git's     *)
(* status and the loops that use what the status said.                     *)
ForeignUntouched ==
    [][\A p \in Paths \ touched : tree'[p] # tree[p] => edits' = edits + 1]_vars

(* Once the developer has no change left outside the series and nothing    *)
(* staged, runs succeed again and again: nothing a killed or failed run    *)
(* leaves needs a hand.                                                    *)
Recovers ==
    <>[](foreign = {} /\ \A p \in Paths : Unstaged(p)) => []<>(outcome = "applied")

(* "A tree that already carries it is put back to the pinned commit first" *)
(* (wasi-configure.sh:43-44): when the first patch is applied, every path  *)
(* of the series is as the commit has it.                                  *)
ResetIsPinned ==
    pc = "apply" /\ next = 1 => \A p \in touched \ edited : tree[p] = Pinned(p)

=============================================================================
