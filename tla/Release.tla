------------------------------ MODULE Release ------------------------------
(***************************************************************************)
(* scripts/release.py: how a release of gwz-py is cut from main and        *)
(* pushed, by maintainers who each run the script in a clone of their own, *)
(* while commands fail, the script is killed and main moves on.            *)
(*                                                                         *)
(* An action is a part of the script between two of its effects on the     *)
(* clone or on origin: a branch, the worktree, the commit, the tag, the    *)
(* push.  Tests that fail before the first effect leave nothing behind and *)
(* are not steps.                                                          *)
(*                                                                         *)
(* A commit of the release branch is the branch's own history: the commit  *)
(* of main it was made from and then its release commits, each with the    *)
(* commit of main it contains, the version it sets, the clone it was made  *)
(* in and whether its tree passed run_release_checks.  Main is one line of *)
(* commits, 1, 2, ...                                                      *)
(***************************************************************************)
EXTENDS Naturals, Sequences, SequencesExt

CONSTANTS
  Clones,      \* the maintainers' clones
  Versions,    \* X.Y.Z, and so the tag vX.Y.Z
  MaxMain,     \* bound: commits of main
  MaxFailures, \* bound: commands that fail and runs that are killed
  None

ASSUME ReleaseAssumption == MaxMain \in Nat \ {0} /\ MaxFailures \in Nat

VARIABLES
  main,     \* main[c]: the last commit of main in c
  release,  \* release[c]: the release branch of c, None while there is none
  tags,     \* tags[c][v]: the commit of c's tag v
  held,     \* held[c]: release is checked out in a temporary worktree
  run,      \* run[c]: the script's locals
  pc,
  origin,   \* [release, tags] of the remote
  alone,    \* history: the versions whose tag a push by hand brought to origin
            \* where it could not bring the branch
  failures

clone == <<main, release, tags, held>>
vars == <<clone, run, pc, origin, alone, failures>>

ReleaseCommit == [main : Nat, version : Versions \cup {None},
                  by : Clones \cup {None}, passed : BOOLEAN]

History == Seq(ReleaseCommit) \ {<<>>}

ASSUME NoneAssumption == None \notin Versions \cup History

\* No version: main's own Cargo.toml, whose gwz-core is the sibling path.
FromMain(n) ==
  <<[main |-> n, version |-> None, by |-> None, passed |-> FALSE]>>

\* Runs of git that the script reads: is_ancestor(main, release).
is_ancestor(n, commit) == n <= Last(commit).main

\* A branch at the one commit, or not made yet, can move on to the other.
leadsTo(from, to) == from # None => IsPrefix(from, to)

\* Between two runs nothing is kept.
Idle == [version |-> None, bootstrap |-> FALSE, found |-> None, target |-> None,
         committed |-> FALSE]

Init ==
  /\ main = [c \in Clones |-> 1]
  /\ release = [c \in Clones |-> None]
  /\ tags = [c \in Clones |-> [v \in Versions |-> None]]
  /\ held = [c \in Clones |-> FALSE]
  /\ run = [c \in Clones |-> Idle]
  /\ pc = [c \in Clones |-> "idle"]
  /\ origin = [release |-> None, tags |-> [v \in Versions |-> None]]
  /\ alone = {}
  /\ failures = 0

Goto(c, from, to) == pc[c] = from /\ pc' = [pc EXCEPT ![c] = to]

-----------------------------------------------------------------------------
(* The start of main() and of bootstrap_release().                          *)

\* The locals of a run that has passed its first tests: the branch is free.
Begin(c, v, bootstrap, to) ==
  /\ Goto(c, "idle", to)
  /\ ~held[c]
  /\ run' = [run EXCEPT ![c] = [Idle EXCEPT !.version = v, !.bootstrap = bootstrap,
                                            !.found = release[c]]]

Bootstrap(c, v) ==
  /\ Begin(c, v, TRUE, "add")
  /\ release[c] = None /\ tags[c][v] = None
  /\ release' = [release EXCEPT ![c] = FromMain(main[c])]
  /\ UNCHANGED <<main, tags, held, origin, alone, failures>>

\* Mutated mayRelease: a tag that exists is not looked for.
mayRelease_Again(c, v) == release[c] # None

\* Mutated mayRelease: nor is the branch.
mayRelease_NoBranch(c, v) == tags[c][v] = None

mayRelease(c, v) == release[c] # None /\ tags[c][v] = None

Release(c, v) ==
  /\ Begin(c, v, FALSE, "add")
  /\ mayRelease(c, v)
  /\ UNCHANGED <<clone, origin, alone, failures>>

\* "release already cut": the tag is at the head of release, and --push pushes
\* it.
PushAgain(c, v) ==
  /\ Begin(c, v, FALSE, "push")
  /\ release[c] # None /\ tags[c][v] = release[c]
  /\ UNCHANGED <<clone, origin, alone, failures>>

AddWorktree(c) ==
  /\ Goto(c, "add", "reconcile")
  /\ held' = [held EXCEPT ![c] = TRUE]
  /\ UNCHANGED <<main, release, tags, run, origin, alone, failures>>

-----------------------------------------------------------------------------
(* In the worktree.                                                         *)

\* Mutated needsCommit: only a merge is committed.
needsCommit_Merged(merged, changed) == merged

needsCommit(merged, changed) == merged \/ changed

\* do_merge, reconcile_cargo_toml and resolve_release_lock, which may refresh
\* the lock of a branch that already has its version: what the tree in the
\* worktree is, or becomes when it is committed.
Reconcile(c) ==
  LET head   == release[c]
      merged == ~run[c].bootstrap /\ ~is_ancestor(main[c], head)
      commit == Append(head, [main |-> IF merged THEN main[c] ELSE Last(head).main,
                              version |-> run[c].version, by |-> c,
                              passed |-> FALSE])
  IN
  /\ Goto(c, "reconcile", "check")
  /\ \E changed \in {Last(head).version # run[c].version, TRUE} :
       run' = [run EXCEPT ![c].target =
                 IF needsCommit(merged, changed) THEN commit ELSE head]
  /\ UNCHANGED <<clone, origin, alone, failures>>

\* run_release_checks on that tree.
Check(c) ==
  LET target == run[c].target IN
  /\ Goto(c, "check", IF target = release[c] THEN "tag" ELSE "commit")
  /\ run' = [run EXCEPT ![c].target[Len(target)].passed = TRUE]
  /\ UNCHANGED <<clone, origin, alone, failures>>

Commit(c) ==
  /\ Goto(c, "commit", "tag")
  /\ release' = [release EXCEPT ![c] = run[c].target]
  /\ run' = [run EXCEPT ![c].committed = TRUE]
  /\ UNCHANGED <<main, tags, held, origin, alone, failures>>

\* Mutated mayTag: git tag -f.
mayTag_Force(existing, commit) == TRUE

\* ensure_tag leaves a tag that is right and refuses to move another.
mayTag(existing, commit) == existing \in {None, commit}

\* --push, which nothing reads before, goes on to the push.
Tag(c, push) ==
  /\ Goto(c, "tag", IF push THEN "push" ELSE "cleanup")
  /\ mayTag(tags[c][run[c].version], run[c].target)
  /\ tags' = [tags EXCEPT ![c][run[c].version] = run[c].target]
  /\ UNCHANGED <<main, release, held, run, origin, alone, failures>>

-----------------------------------------------------------------------------
(* push_release: git push --atomic origin release tag.  A push that origin  *)
(* accepted may still be reported as failed; the script then fails, and     *)
(* leaves the same state.                                                   *)

fastForward(c) == leadsTo(origin.release, release[c])
sameTag(c, v) == origin.tags[v] \in {None, tags[c][v]}

\* What origin holds after a push without --atomic: each ref moves that can.
pushedEach(c, v) ==
  [release |-> IF fastForward(c) THEN release[c] ELSE origin.release,
   tags    |-> IF sameTag(c, v) THEN [origin.tags EXCEPT ![v] = tags[c][v]]
                                ELSE origin.tags]

\* Mutated pushed: a push without --atomic.
pushed_Each(c, v) == pushedEach(c, v)

\* What origin holds after the push: both refs move, or neither.
pushed(c, v) ==
  IF fastForward(c) /\ sameTag(c, v)
  THEN [release |-> release[c], tags |-> [origin.tags EXCEPT ![v] = tags[c][v]]]
  ELSE origin

Push(c) ==
  /\ Goto(c, "push", "cleanup")
  /\ origin' = pushed(c, run[c].version)
  /\ UNCHANGED <<clone, run, alone, failures>>

-----------------------------------------------------------------------------
(* The end of a run.                                                        *)

\* Mutated dropsBranch: a bootstrap that fails leaves its branch.
dropsBranch_Never(c, keep) == FALSE

\* A bootstrap without a commit takes its branch away again.
dropsBranch(c, keep) == run[c].bootstrap /\ ~keep /\ ~run[c].committed

\* The finally blocks.  With --keep-worktree, which nothing reads before, they
\* leave all as it is.
Cleanup(c, keep) ==
  /\ Goto(c, "cleanup", "idle")
  /\ held' = [held EXCEPT ![c] = @ /\ keep]
  /\ release' = [release EXCEPT ![c] = IF dropsBranch(c, keep) THEN None ELSE @]
  /\ run' = [run EXCEPT ![c] = Idle]
  /\ UNCHANGED <<main, tags, origin, alone, failures>>

\* A command fails: merge conflicts, an unpublished gwz-core, a check, a hook,
\* the network.  What is in the worktree is lost with it.
Fail(c) ==
  /\ failures < MaxFailures
  /\ failures' = failures + 1
  /\ pc[c] \notin {"idle", "cleanup"} /\ Goto(c, pc[c], "cleanup")
  /\ run' = [run EXCEPT ![c].target = None]
  /\ UNCHANGED <<clone, origin, alone>>

\* The tag has become another commit's since the run looked for it.
Refuse(c) ==
  /\ Goto(c, "tag", "cleanup")
  /\ ~mayTag(tags[c][run[c].version], run[c].target)
  /\ UNCHANGED <<clone, run, origin, alone, failures>>

\* The process is killed: no finally runs, and the worktree stays.
Killed(c) ==
  /\ failures < MaxFailures
  /\ failures' = failures + 1
  /\ pc[c] # "idle" /\ Goto(c, pc[c], "idle")
  /\ run' = [run EXCEPT ![c] = Idle]
  /\ UNCHANGED <<clone, origin, alone>>

-----------------------------------------------------------------------------
(* What maintainers do beside the script.                                   *)

\* main moves on, in a run or between two.
Pull(c) ==
  /\ main[c] < MaxMain
  /\ main' = [main EXCEPT ![c] = @ + 1]
  /\ UNCHANGED <<release, tags, held, run, pc, origin, alone, failures>>

\* A worktree that a run left is removed, as "free it before running" asks.
FreeBranch(c) ==
  /\ pc[c] = "idle" /\ held[c]
  /\ held' = [held EXCEPT ![c] = FALSE]
  /\ UNCHANGED <<main, release, tags, run, pc, origin, alone, failures>>

\* git fetch, at any time: it brings the tags that the clone has not, and no
\* other.
FetchTags(c) ==
  /\ tags' = [tags EXCEPT ![c] = [v \in Versions |->
                IF tags[c][v] = None THEN origin.tags[v] ELSE tags[c][v]]]
  /\ UNCHANGED <<main, release, held, run, pc, origin, alone, failures>>

\* Between two runs, release is brought up to origin's.
FetchRelease(c) ==
  /\ pc[c] = "idle" /\ ~held[c]
  /\ origin.release # None
  /\ leadsTo(release[c], origin.release)
  /\ release' = [release EXCEPT ![c] = origin.release]
  /\ UNCHANGED <<main, tags, held, run, pc, origin, alone, failures>>

\* "push exactly what it reports": after a run without --push, the release
\* branch and a tag that is on it, and without --atomic.
PushByHand(c, v) ==
  /\ pc[c] = "idle"
  /\ release[c] # None /\ tags[c][v] # None /\ IsPrefix(tags[c][v], release[c])
  /\ origin' = pushedEach(c, v)
  /\ alone' = IF origin.tags[v] = None /\ ~fastForward(c) THEN alone \cup {v}
                                                           ELSE alone
  /\ UNCHANGED <<clone, run, pc, failures>>

-----------------------------------------------------------------------------
Start(c, v) == Bootstrap(c, v) \/ Release(c, v) \/ PushAgain(c, v)

Go(c) ==
  \/ AddWorktree(c) \/ Reconcile(c) \/ Check(c) \/ Commit(c)
  \/ \E push \in BOOLEAN : Tag(c, push)
  \/ Push(c) \/ Refuse(c)
  \/ \E keep \in BOOLEAN : Cleanup(c, keep)

Maintain(c) ==
  \/ Pull(c) \/ FreeBranch(c) \/ FetchTags(c) \/ FetchRelease(c)
  \/ \E v \in Versions : PushByHand(c, v)

Next ==
  \E c \in Clones :
    \/ \E v \in Versions : Start(c, v)
    \/ Go(c) \/ Fail(c) \/ Killed(c) \/ Maintain(c)

Spec == Init /\ [][Next]_vars

\* A run goes on, and a maintainer frees the branch and runs the script again
\* until the release is out.
Fairness ==
  \A c \in Clones :
    /\ WF_vars(Go(c))
    /\ WF_vars(FreeBranch(c))
    /\ \A v \in Versions :
         WF_vars(origin.tags[v] = None /\ Start(c, v))

FairSpec == Spec /\ Fairness
=============================================================================
