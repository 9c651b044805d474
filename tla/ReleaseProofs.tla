--------------------------- MODULE ReleaseProofs ----------------------------
(***************************************************************************)
(* Proofs about Release, for any number of clones, versions, failures and  *)
(* commits of main: release tags are checked, never move, and reach origin *)
(* with the branch they are on.                                            *)
(***************************************************************************)
EXTENDS ReleaseProps, TLAPS

USE ReleaseAssumption, NoneAssumption

\* A branch that sets a version got there by a commit whose tree was checked.
CheckedBranch(branch) ==
  branch # None /\ Last(branch).version # None => Last(branch).passed

BranchesAreChecked ==
  CheckedBranch(origin.release) /\ \A c \in Clones : CheckedBranch(release[c])

\* What a run holds in its locals, by how far it has come.
RunIsOn(c) ==
  LET v      == run[c].version
      target == run[c].target
  IN
  /\ pc[c] \in {"check", "commit", "tag"} =>
       target # None /\ Last(target).version = v
  /\ pc[c] \in {"check", "commit"} =>
       \/ target = release[c]
       \/ Len(target) = Len(release[c]) + 1 /\ IsPrefix(release[c], target)
  /\ pc[c] \in {"commit", "tag"} => Last(target).passed
  /\ pc[c] = "tag" => release[c] = target
  /\ pc[c] = "push" => tags[c][v] # None /\ IsPrefix(tags[c][v], release[c])

IInv == /\ TypeOK
        /\ BranchesAreChecked
        /\ \A c \in Clones : RunIsOn(c)
        /\ TagsAreChecked
        /\ TagsAreOnRelease

-----------------------------------------------------------------------------
(* Prefixes.                                                                *)

LEMMA PrefixReflexive ==
  ASSUME NEW s \in History
  PROVE  IsPrefix(s, s)
  BY DEF History, IsPrefix

LEMMA PrefixTransitive ==
  ASSUME NEW s \in History, NEW t \in History, NEW u \in History,
         IsPrefix(s, t), IsPrefix(t, u)
  PROVE  IsPrefix(s, u)
<1>1. /\ Len(s) \in Nat /\ Len(t) \in Nat /\ Len(u) \in Nat
      /\ Len(s) <= Len(t) /\ Len(t) <= Len(u)
  BY DEF History, IsPrefix
<1>2. \A i \in 1..Len(s) : s[i] = t[i]
  <2>1. SubSeq(s, 1, Len(s)) = SubSeq(t, 1, Len(s))
    BY DEF IsPrefix
  <2> QED
    BY <2>1, <1>1 DEF History
<1>3. \A i \in 1..Len(t) : t[i] = u[i]
  <2>1. SubSeq(t, 1, Len(t)) = SubSeq(u, 1, Len(t))
    BY DEF IsPrefix
  <2> QED
    BY <2>1, <1>1 DEF History
<1>4. \A i \in 1..Len(s) : s[i] = u[i]
  BY <1>1, <1>2, <1>3
<1>5. SubSeq(s, 1, Len(s)) = SubSeq(u, 1, Len(s))
  BY <1>1, <1>4 DEF History
<1> QED
  BY <1>1, <1>5 DEF IsPrefix

LEMMA PrefixOfAppend ==
  ASSUME NEW s \in History, NEW e \in ReleaseCommit
  PROVE  /\ Append(s, e) \in History
         /\ Len(Append(s, e)) = Len(s) + 1
         /\ Last(Append(s, e)) = e
         /\ IsPrefix(s, Append(s, e))
<1>1. Append(s, e) \in Seq(ReleaseCommit) /\ Len(Append(s, e)) = Len(s) + 1
      /\ Len(s) \in Nat
  BY DEF History
<1>2. Append(s, e) # <<>>
  BY <1>1
<1>3. Last(Append(s, e)) = e
  BY <1>1 DEF Last, History
<1>4. IsPrefix(s, Append(s, e))
  BY <1>1 DEF IsPrefix, History
<1> QED
  BY <1>1, <1>2, <1>3, <1>4 DEF History

LEMMA LastIsCommit ==
  ASSUME NEW s \in History
  PROVE  Last(s) \in ReleaseCommit /\ Len(s) \in DOMAIN s /\ Len(s) \in Nat
  BY DEF History, Last

\* Marking the last commit checked keeps the history it ends.
LEMMA MarkChecked ==
  ASSUME NEW s \in History
  PROVE  LET t == [s EXCEPT ![Len(s)].passed = TRUE] IN
         /\ t \in History
         /\ Len(t) = Len(s)
         /\ Last(t).version = Last(s).version
         /\ Last(t).passed
         /\ Last(s).passed => t = s
         /\ \A h \in History : IsPrefix(h, s) /\ Len(s) = Len(h) + 1 => IsPrefix(h, t)
<1> DEFINE e == [s[Len(s)] EXCEPT !.passed = TRUE]
           t == [s EXCEPT ![Len(s)] = e]
<1>1. s[Len(s)] \in ReleaseCommit /\ Len(s) \in 1..Len(s) /\ Len(s) \in Nat
  BY DEF History
<1>2. e \in ReleaseCommit /\ e.passed /\ e.version = s[Len(s)].version
      /\ (s[Len(s)].passed => e = s[Len(s)])
  BY <1>1 DEF ReleaseCommit
<1> HIDE DEF e
<1>3. t \in Seq(ReleaseCommit) /\ Len(t) = Len(s) /\ t[Len(s)] = e
      /\ \A i \in 1..Len(s) : i # Len(s) => t[i] = s[i]
  BY <1>1, <1>2 DEF History
<1>4. e = s[Len(s)] => t = s
  BY <1>1 DEF History
<1>5. ASSUME NEW h \in History, IsPrefix(h, s), Len(s) = Len(h) + 1
      PROVE  IsPrefix(h, t)
  <2>1. Len(h) \in Nat /\ SubSeq(h, 1, Len(h)) = SubSeq(s, 1, Len(h))
    BY <1>5 DEF IsPrefix, History
  <2>2. SubSeq(t, 1, Len(h)) = SubSeq(s, 1, Len(h))
    BY <2>1, <1>1, <1>3, <1>5 DEF History
  <2> QED
    BY <2>1, <2>2, <1>3, <1>5 DEF IsPrefix
<1> HIDE DEF t
<1>6. t \in History
  BY <1>1, <1>3 DEF History
<1> QED
  BY <1>1, <1>2, <1>3, <1>4, <1>5, <1>6 DEF Last, e, t

LEMMA FromMainType ==
  ASSUME NEW n \in Nat
  PROVE  FromMain(n) \in History /\ Last(FromMain(n)).version = None
  BY DEF FromMain, History, ReleaseCommit, Last

LEMMA LocalsTypes ==
  ASSUME NEW r \in Locals, NEW b \in Branch
  PROVE  /\ [r EXCEPT !.target = b] \in Locals
         /\ [r EXCEPT !.committed = TRUE] \in Locals
  BY DEF Locals

\* The locals of a run that begins.
LEMMA BeginTypes ==
  ASSUME TypeOK, NEW c \in Clones, NEW v \in Versions, NEW to \in Working,
         \E bootstrap \in BOOLEAN : Begin(c, v, bootstrap, to)
  PROVE  /\ run' \in [Clones -> Locals] /\ run'[c].version = v
         /\ pc' \in [Clones -> Working \cup {"idle", "cleanup"}] /\ pc'[c] = to
         /\ \A d \in Clones : d # c => run'[d] = run[d] /\ pc'[d] = pc[d]
<1> PICK bootstrap \in BOOLEAN : Begin(c, v, bootstrap, to)
  OBVIOUS
<1> DEFINE locals == [Idle EXCEPT !.version = v, !.bootstrap = bootstrap,
                                  !.found = release[c]]
<1>1. locals \in Locals /\ locals.version = v
  BY DEF TypeOK, Idle, Locals, Branch
<1>2. run' = [run EXCEPT ![c] = locals] /\ pc' = [pc EXCEPT ![c] = to]
  BY DEF Begin, Goto
<1> HIDE DEF locals
<1> QED
  BY <1>1, <1>2 DEF TypeOK

\* The conjuncts of IInv that only read a clone's branch, tags, locals and
\* program counter stand for a clone in which none of them moves.
LEMMA RunStands ==
  ASSUME NEW c \in Clones, RunIsOn(c),
         release'[c] = release[c], tags'[c] = tags[c], run'[c] = run[c],
         pc'[c] = pc[c]
  PROVE  RunIsOn(c)'
  BY DEF RunIsOn

LEMMA InitInvariant == Init => IInv
<1> SUFFICES ASSUME Init
             PROVE  IInv
  OBVIOUS
<1>1. TypeOK
  BY DEF Init, TypeOK, Branch, Locals, Working, Idle
<1>2. BranchesAreChecked
  BY DEF Init, BranchesAreChecked, CheckedBranch
<1>3. \A c \in Clones : RunIsOn(c)
  BY DEF Init, RunIsOn
<1>4. TagsAreChecked /\ TagsAreOnRelease
  BY DEF Init, TagsAreChecked, TagsAreOnRelease, Checked
<1> QED
  BY <1>1, <1>2, <1>3, <1>4 DEF IInv

-----------------------------------------------------------------------------
(* One lemma per action.                                                    *)

LEMMA BootstrapStep ==
  ASSUME IInv, NEW c \in Clones, NEW v \in Versions, Bootstrap(c, v)
  PROVE  IInv'
<1>a. \E bootstrap \in BOOLEAN : Begin(c, v, bootstrap, "add")
  BY DEF Bootstrap
<1>w. "add" \in Working
  BY DEF Working
<1>b. /\ run' \in [Clones -> Locals] /\ run'[c].version = v
      /\ pc' \in [Clones -> Working \cup {"idle", "cleanup"}] /\ pc'[c] = "add"
      /\ \A d \in Clones : d # c => run'[d] = run[d] /\ pc'[d] = pc[d]
  BY <1>a, <1>w, BeginTypes DEF IInv
<1> USE DEF Bootstrap
<1>1. FromMain(main[c]) \in History /\ Last(FromMain(main[c])).version = None
  BY FromMainType DEF IInv, TypeOK
<1>2. TypeOK'
  BY <1>1, <1>b DEF IInv, TypeOK, Branch, Working
<1>3. BranchesAreChecked'
  BY <1>1 DEF IInv, TypeOK, BranchesAreChecked, CheckedBranch
<1>4. \A d \in Clones : RunIsOn(d)'
  <2>1. ASSUME NEW d \in Clones, d # c PROVE RunIsOn(d)'
    BY <2>1, <1>b, RunStands DEF IInv, TypeOK
  <2>2. RunIsOn(c)'
    BY <1>b DEF IInv, TypeOK, RunIsOn
  <2> QED
    BY <2>1, <2>2
<1>5. TagsAreChecked' /\ TagsAreOnRelease'
  BY DEF IInv, TagsAreChecked, TagsAreOnRelease, Checked
<1> QED
  BY <1>2, <1>3, <1>4, <1>5 DEF IInv

LEMMA ReleaseStep ==
  ASSUME IInv, NEW c \in Clones, NEW v \in Versions, Release(c, v)
  PROVE  IInv'
<1>a. \E bootstrap \in BOOLEAN : Begin(c, v, bootstrap, "add")
  BY DEF Release
<1>w. "add" \in Working
  BY DEF Working
<1>b. /\ run' \in [Clones -> Locals] /\ run'[c].version = v
      /\ pc' \in [Clones -> Working \cup {"idle", "cleanup"}] /\ pc'[c] = "add"
      /\ \A d \in Clones : d # c => run'[d] = run[d] /\ pc'[d] = pc[d]
  BY <1>a, <1>w, BeginTypes DEF IInv
<1> USE DEF Release, mayRelease, clone
<1>1. TypeOK'
  BY <1>b DEF IInv, TypeOK, Working
<1>2. \A d \in Clones : RunIsOn(d)'
  <2>1. ASSUME NEW d \in Clones, d # c PROVE RunIsOn(d)'
    BY <2>1, <1>b, RunStands DEF IInv, TypeOK
  <2>2. RunIsOn(c)'
    BY <1>b DEF IInv, TypeOK, RunIsOn
  <2> QED
    BY <2>1, <2>2
<1>3. BranchesAreChecked' /\ TagsAreChecked' /\ TagsAreOnRelease'
  BY DEF IInv, BranchesAreChecked, CheckedBranch, TagsAreChecked,
         TagsAreOnRelease, Checked
<1> QED
  BY <1>1, <1>2, <1>3 DEF IInv

\* The tag that is pushed again is at the head of the branch.
LEMMA PushAgainStep ==
  ASSUME IInv, NEW c \in Clones, NEW v \in Versions, PushAgain(c, v)
  PROVE  IInv'
<1>a. \E bootstrap \in BOOLEAN : Begin(c, v, bootstrap, "push")
  BY DEF PushAgain
<1>w. "push" \in Working
  BY DEF Working
<1>b. /\ run' \in [Clones -> Locals] /\ run'[c].version = v
      /\ pc' \in [Clones -> Working \cup {"idle", "cleanup"}] /\ pc'[c] = "push"
      /\ \A d \in Clones : d # c => run'[d] = run[d] /\ pc'[d] = pc[d]
  BY <1>a, <1>w, BeginTypes DEF IInv
<1> USE DEF PushAgain, clone
<1>1. TypeOK'
  BY <1>b DEF IInv, TypeOK, Working
<1>2. \A d \in Clones : RunIsOn(d)'
  <2>1. ASSUME NEW d \in Clones, d # c PROVE RunIsOn(d)'
    BY <2>1, <1>b, RunStands DEF IInv, TypeOK
  <2>3. release[c] \in History
    BY DEF IInv, TypeOK, Branch
  <2>4. RunIsOn(c)'
    BY <1>b, <2>3, PrefixReflexive DEF IInv, TypeOK, RunIsOn
  <2> QED
    BY <2>1, <2>4
<1>3. BranchesAreChecked' /\ TagsAreChecked' /\ TagsAreOnRelease'
  BY DEF IInv, BranchesAreChecked, CheckedBranch, TagsAreChecked,
         TagsAreOnRelease, Checked
<1> QED
  BY <1>1, <1>2, <1>3 DEF IInv

LEMMA AddWorktreeStep ==
  ASSUME IInv, NEW c \in Clones, AddWorktree(c)
  PROVE  IInv'
<1> USE DEF AddWorktree, Goto
<1>1. TypeOK'
  BY DEF IInv, TypeOK, Working
<1>2. \A d \in Clones : RunIsOn(d)'
  <2>1. ASSUME NEW d \in Clones, d # c PROVE RunIsOn(d)'
    BY <2>1, RunStands DEF IInv, TypeOK
  <2>2. RunIsOn(c)'
    BY DEF IInv, TypeOK, Locals, RunIsOn, Working
  <2> QED
    BY <2>1, <2>2
<1>3. BranchesAreChecked' /\ TagsAreChecked' /\ TagsAreOnRelease'
  BY DEF IInv, BranchesAreChecked, CheckedBranch, TagsAreChecked,
         TagsAreOnRelease, Checked
<1> QED
  BY <1>1, <1>2, <1>3 DEF IInv

\* What is committed sets the version of the run, whether it follows the head
\* of the branch or is that head.
LEMMA ReconcileStep ==
  ASSUME IInv, NEW c \in Clones, Reconcile(c)
  PROVE  IInv'
<1> DEFINE head   == release[c]
           v      == run[c].version
           merged == ~run[c].bootstrap /\ ~is_ancestor(main[c], head)
           entry  == [main |-> IF merged THEN main[c] ELSE Last(head).main,
                      version |-> v, by |-> c, passed |-> FALSE]
           target == run'[c].target
<1>1. head \in History /\ v \in Versions /\ head = release[c] /\ pc[c] = "reconcile"
  BY DEF IInv, TypeOK, RunIsOn, Reconcile, Goto, Branch, Working, Locals
<1>2. entry \in ReleaseCommit /\ entry.version = v
  BY <1>1, LastIsCommit DEF ReleaseCommit, IInv, TypeOK
<1>3. PICK changed \in {Last(head).version # v, TRUE} :
        run' = [run EXCEPT ![c].target =
                  IF needsCommit(merged, changed) THEN Append(head, entry) ELSE head]
  BY DEF Reconcile
<1>4. /\ target \in History /\ Last(target).version = v
      /\ \/ target = head
         \/ Len(target) = Len(head) + 1 /\ IsPrefix(head, target)
      /\ run' = [run EXCEPT ![c].target = target]
  <2>1. run' = [run EXCEPT ![c].target = target]
        /\ target = IF needsCommit(merged, changed) THEN Append(head, entry) ELSE head
    BY <1>3 DEF IInv, TypeOK, Locals
  <2> HIDE DEF entry, target, merged
  <2>2. CASE needsCommit(merged, changed)
    BY <2>1, <2>2, <1>1, <1>2, PrefixOfAppend
  <2>3. CASE ~needsCommit(merged, changed)
    BY <2>1, <2>3, <1>1, <1>3 DEF needsCommit
  <2> QED
    BY <2>2, <2>3
<1> HIDE DEF target
<1>5. /\ pc' = [pc EXCEPT ![c] = "check"]
      /\ UNCHANGED <<main, release, tags, held, origin, alone, failures>>
  BY DEF Reconcile, Goto, clone
<1>6. TypeOK'
  <2>1. [run[c] EXCEPT !.target = target] \in Locals
    BY <1>4, LocalsTypes DEF IInv, TypeOK, Branch
  <2>2. run' \in [Clones -> Locals]
    BY <2>1, <1>4 DEF IInv, TypeOK
  <2>3. run'[c].version = v
    BY <1>4 DEF IInv, TypeOK, Locals
  <2>4. \A d \in Clones : pc'[d] \in Working => run'[d].version \in Versions
    BY <2>3, <1>1, <1>4, <1>5 DEF IInv, TypeOK
  <2> QED
    BY <2>2, <2>4, <1>1, <1>5 DEF IInv, TypeOK, Working
<1>7. \A d \in Clones : RunIsOn(d)'
  <2>1. ASSUME NEW d \in Clones, d # c PROVE RunIsOn(d)'
    BY <2>1, <1>4, <1>5, RunStands DEF IInv, TypeOK
  <2>2. /\ pc'[c] = "check" /\ run'[c].target = target
        /\ run'[c].version = v /\ release'[c] = release[c]
    BY <1>4, <1>5 DEF IInv, TypeOK, Locals
  <2>3. RunIsOn(c)'
    BY <2>2, <1>1, <1>4 DEF RunIsOn
  <2> QED
    BY <2>1, <2>3
<1>8. BranchesAreChecked' /\ TagsAreChecked' /\ TagsAreOnRelease'
  BY <1>5 DEF IInv, BranchesAreChecked, CheckedBranch, TagsAreChecked,
              TagsAreOnRelease, Checked
<1> QED
  BY <1>6, <1>7, <1>8 DEF IInv

\* The tree that passed is the commit it becomes, or the checked one it is.
LEMMA CheckStep ==
  ASSUME IInv, NEW c \in Clones, Check(c)
  PROVE  IInv'
<1> DEFINE head   == release[c]
           v      == run[c].version
           target == run[c].target
           after  == [target EXCEPT ![Len(target)].passed = TRUE]
           to     == IF target = head THEN "tag" ELSE "commit"
<1>1. /\ head \in History /\ head = release[c] /\ v \in Versions
      /\ target \in History /\ Last(target).version = v
      /\ \/ target = head
         \/ Len(target) = Len(head) + 1 /\ IsPrefix(head, target)
  BY DEF IInv, TypeOK, RunIsOn, Check, Goto, Branch, Working, Locals
<1>2. /\ after \in History /\ Last(after).version = v /\ Last(after).passed
      /\ Len(after) = Len(target)
      /\ Last(target).passed => after = target
      /\ IsPrefix(head, target) /\ Len(target) = Len(head) + 1 => IsPrefix(head, after)
  BY <1>1, MarkChecked
<1>3. target = head => after = head
  BY <1>1, <1>2 DEF IInv, BranchesAreChecked, CheckedBranch
<1>4. run' = [run EXCEPT ![c] = [run[c] EXCEPT !.target = after]]
  BY DEF Check, IInv, TypeOK, Locals
<1> HIDE DEF after
<1>5. /\ pc' = [pc EXCEPT ![c] = to]
      /\ UNCHANGED <<main, release, tags, held, origin, alone, failures>>
  BY DEF Check, Goto, clone
<1>6. /\ [run[c] EXCEPT !.target = after] \in Locals
      /\ run'[c].target = after /\ run'[c].version = v
      /\ pc'[c] = to
  <2>1. [run[c] EXCEPT !.target = after] \in Locals
    BY <1>2, LocalsTypes DEF IInv, TypeOK, Branch
  <2> QED
    BY <2>1, <1>4, <1>5 DEF IInv, TypeOK, Locals
<1>7. TypeOK'
  <2>1. run' \in [Clones -> Locals]
    BY <1>4, <1>6 DEF IInv, TypeOK
  <2>2. \A d \in Clones : pc'[d] \in Working => run'[d].version \in Versions
    BY <1>1, <1>4, <1>5, <1>6 DEF IInv, TypeOK
  <2> QED
    BY <2>1, <2>2, <1>1, <1>5 DEF IInv, TypeOK, Working
<1>8. \A d \in Clones : RunIsOn(d)'
  <2>1. ASSUME NEW d \in Clones, d # c PROVE RunIsOn(d)'
    BY <2>1, <1>4, <1>5, RunStands DEF IInv, TypeOK
  <2>2. target = head => RunIsOn(c)'
    BY <1>1, <1>2, <1>3, <1>5, <1>6 DEF RunIsOn
  <2>3. target # head => RunIsOn(c)'
    BY <1>1, <1>2, <1>5, <1>6 DEF RunIsOn
  <2> QED
    BY <2>1, <2>2, <2>3
<1>9. BranchesAreChecked' /\ TagsAreChecked' /\ TagsAreOnRelease'
  BY <1>5 DEF IInv, BranchesAreChecked, CheckedBranch, TagsAreChecked,
              TagsAreOnRelease, Checked
<1> QED
  BY <1>7, <1>8, <1>9 DEF IInv

LEMMA CommitStep ==
  ASSUME IInv, NEW c \in Clones, Commit(c)
  PROVE  IInv'
<1> USE DEF Commit, Goto
<1>1. /\ run[c].target \in History /\ Last(run[c].target).passed
      /\ Last(run[c].target).version = run[c].version
  BY DEF IInv, TypeOK, RunIsOn, Branch, Locals
<1>2. [run[c] EXCEPT !.committed = TRUE] \in Locals
  BY LocalsTypes DEF IInv, TypeOK, Branch
<1>3. /\ run' \in [Clones -> Locals]
      /\ \A d \in Clones : /\ run'[d].version = run[d].version
                           /\ run'[d].target = run[d].target
  BY <1>2 DEF IInv, TypeOK, Locals
<1>4. TypeOK'
  BY <1>1, <1>3 DEF IInv, TypeOK, Branch, Working
<1>5. BranchesAreChecked'
  BY <1>1 DEF IInv, TypeOK, BranchesAreChecked, CheckedBranch
<1>6. \A d \in Clones : RunIsOn(d)'
  <2>1. ASSUME NEW d \in Clones, d # c PROVE RunIsOn(d)'
    BY <2>1, RunStands DEF IInv, TypeOK
  <2>2. RunIsOn(c)'
    BY <1>1, <1>3 DEF IInv, TypeOK, RunIsOn
  <2> QED
    BY <2>1, <2>2
<1>7. TagsAreChecked' /\ TagsAreOnRelease'
  BY DEF IInv, TagsAreChecked, TagsAreOnRelease, Checked
<1> QED
  BY <1>4, <1>5, <1>6, <1>7 DEF IInv

\* The tag that is set is of the checked head of the branch.
LEMMA TagStep ==
  ASSUME IInv, NEW c \in Clones, NEW push \in BOOLEAN, Tag(c, push)
  PROVE  IInv'
<1> USE DEF Tag
<1> DEFINE v      == run[c].version
           target == run[c].target
           to     == IF push THEN "push" ELSE "cleanup"
<1>1. /\ target \in History /\ Checked(v, target) /\ v \in Versions
      /\ release[c] = target /\ pc' = [pc EXCEPT ![c] = to]
  BY DEF IInv, TypeOK, RunIsOn, Branch, Locals, Checked, Working, Goto
<1>2. tags'[c] = [tags[c] EXCEPT ![v] = target]
      /\ \A d \in Clones : d # c => tags'[d] = tags[d]
  BY DEF IInv, TypeOK
<1>3. tags' \in [Clones -> [Versions -> Branch]]
  BY <1>1 DEF IInv, TypeOK, Branch
<1>4. TypeOK'
  BY <1>1, <1>3 DEF IInv, TypeOK, Working
<1>5. \A d \in Clones : RunIsOn(d)'
  <2>1. ASSUME NEW d \in Clones, d # c PROVE RunIsOn(d)'
    BY <2>1, <1>1, <1>2, RunStands DEF IInv, TypeOK
  <2>2. tags'[c][v] = target /\ target # None /\ IsPrefix(target, target)
    BY <1>1, <1>2, PrefixReflexive DEF IInv, TypeOK
  <2>3. RunIsOn(c)'
    BY <2>2, <1>1 DEF IInv, TypeOK, RunIsOn
  <2> QED
    BY <2>1, <2>3
<1>6. TagsAreChecked'
  BY <1>1, <1>2 DEF IInv, TypeOK, TagsAreChecked, Checked
<1>7. BranchesAreChecked' /\ TagsAreOnRelease'
  BY DEF IInv, BranchesAreChecked, CheckedBranch, TagsAreOnRelease
<1> QED
  BY <1>4, <1>5, <1>6, <1>7 DEF IInv

\* What reaches origin is the branch with the tag that is on it; the tags that
\* origin had are on the branch it had, of which the new one is a continuation.
LEMMA PushStep ==
  ASSUME IInv, NEW c \in Clones, Push(c)
  PROVE  IInv'
<1> USE DEF Push, clone
<1> DEFINE v == run[c].version
<1>1. /\ v \in Versions /\ release[c] \in History /\ tags[c][v] \in History
      /\ IsPrefix(tags[c][v], release[c])
      /\ pc[c] = "push" /\ pc' = [pc EXCEPT ![c] = "cleanup"]
  BY DEF IInv, TypeOK, RunIsOn, Branch, Working, Goto
<1>2. \A d \in Clones : RunIsOn(d)'
  <2>1. ASSUME NEW d \in Clones, d # c PROVE RunIsOn(d)'
    BY <2>1, <1>1, RunStands DEF IInv, TypeOK
  <2>2. RunIsOn(c)'
    BY <1>1 DEF IInv, TypeOK, RunIsOn
  <2> QED
    BY <2>1, <2>2
<1>3. CASE ~(fastForward(c) /\ sameTag(c, v))
  <2>1. UNCHANGED origin
    BY <1>3 DEF pushed
  <2> QED
    BY <2>1, <1>1, <1>2 DEF IInv, TypeOK, BranchesAreChecked, CheckedBranch,
       TagsAreChecked, TagsAreOnRelease, Checked, Working
<1>4. CASE fastForward(c) /\ sameTag(c, v)
  <2>1. /\ origin'.release = release[c]
        /\ origin'.tags = [origin.tags EXCEPT ![v] = tags[c][v]]
        /\ origin' \in [release : Branch, tags : [Versions -> Branch]]
    <3>1. origin' = [release |-> release[c],
                     tags |-> [origin.tags EXCEPT ![v] = tags[c][v]]]
      BY <1>4 DEF pushed
    <3>2. [origin.tags EXCEPT ![v] = tags[c][v]] \in [Versions -> Branch]
      BY <1>1 DEF IInv, TypeOK, Branch
    <3> QED
      BY <3>1, <3>2, <1>1 DEF Branch
  <2>2. TypeOK'
    BY <2>1, <1>1 DEF IInv, TypeOK, Working
  <2>3. BranchesAreChecked'
    BY <2>1 DEF IInv, TypeOK, BranchesAreChecked, CheckedBranch
  <2>4. TagsAreChecked'
    BY <2>1, <1>1 DEF IInv, TypeOK, TagsAreChecked, Checked
  <2>5. TagsAreOnRelease'
    <3> SUFFICES ASSUME NEW w \in Versions, origin'.tags[w] # None,
                        w \notin alone
                 PROVE  IsPrefix(origin'.tags[w], release[c])
      BY <2>1, <1>1 DEF TagsAreOnRelease
    <3>1. CASE w = v
      BY <3>1, <2>1, <1>1 DEF IInv, TypeOK
    <3>2. CASE w # v
      <4>1. origin'.tags[w] = origin.tags[w] /\ origin.tags[w] \in History
        BY <3>2, <2>1 DEF IInv, TypeOK, Branch
      <4>2. /\ origin.release \in History
            /\ IsPrefix(origin.tags[w], origin.release)
        BY <4>1 DEF IInv, TypeOK, TagsAreOnRelease, Branch
      <4>3. IsPrefix(origin.release, release[c])
        BY <4>2, <1>4 DEF fastForward, leadsTo
      <4> QED
        BY <4>1, <4>2, <4>3, <1>1, PrefixTransitive
    <3> QED
      BY <3>1, <3>2
  <2> QED
    BY <1>2, <2>2, <2>3, <2>4, <2>5 DEF IInv
<1> QED
  BY <1>3, <1>4

\* A run that does not touch its branch and tags ends, or is cut short: what
\* it held in its locals no longer matters.
LEMMA EndStep ==
  ASSUME IInv, NEW c \in Clones, Fail(c) \/ Refuse(c) \/ Killed(c)
  PROVE  IInv'
<1> USE DEF Fail, Refuse, Killed, Goto, clone
<1>1. /\ UNCHANGED <<main, release, tags, held, origin, alone>>
      /\ failures' \in Nat
      /\ \E to \in {"idle", "cleanup"} : pc' = [pc EXCEPT ![c] = to]
  BY DEF IInv, TypeOK
<1>2. run' \in [Clones -> Locals] /\ \A d \in Clones : d # c => run'[d] = run[d]
  <2>1. \/ run' = run \/ run' = [run EXCEPT ![c] = Idle]
        \/ run' = [run EXCEPT ![c].target = None]
    OBVIOUS
  <2> HIDE DEF Fail, Refuse, Killed, Goto, clone
  <2>2. run \in [Clones -> Locals] /\ None \in Branch
    BY DEF IInv, TypeOK, Branch
  <2>3. Idle \in Locals
    BY DEF Idle, Locals, Branch
  <2>4. [run[c] EXCEPT !.target = None] \in Locals
    BY <2>2, LocalsTypes
  <2> QED
    BY <2>2, <2>3, <2>4, <2>1
<1>3. TypeOK'
  BY <1>1, <1>2 DEF IInv, TypeOK, Working
<1>4. \A d \in Clones : RunIsOn(d)'
  <2>1. ASSUME NEW d \in Clones, d # c PROVE RunIsOn(d)'
    BY <2>1, <1>1, <1>2, RunStands DEF IInv, TypeOK
  <2>2. RunIsOn(c)'
    BY <1>1 DEF IInv, TypeOK, RunIsOn
  <2> QED
    BY <2>1, <2>2
<1>5. BranchesAreChecked' /\ TagsAreChecked' /\ TagsAreOnRelease'
  BY <1>1 DEF IInv, BranchesAreChecked, CheckedBranch, TagsAreChecked,
              TagsAreOnRelease, Checked
<1> QED
  BY <1>3, <1>4, <1>5 DEF IInv

LEMMA CleanupStep ==
  ASSUME IInv, NEW c \in Clones, NEW keep \in BOOLEAN, Cleanup(c, keep)
  PROVE  IInv'
<1> USE DEF Cleanup, Goto
<1>1. run' \in [Clones -> Locals] /\ \A d \in Clones : d # c => run'[d] = run[d]
  <2>1. Idle \in Locals
    BY DEF Idle, Locals, Branch
  <2> QED
    BY <2>1 DEF IInv, TypeOK
<1>2. release' \in [Clones -> Branch] /\ held' \in [Clones -> BOOLEAN]
      /\ pc' = [pc EXCEPT ![c] = "idle"]
  BY DEF IInv, TypeOK, Branch
<1>3. TypeOK'
  BY <1>1, <1>2 DEF IInv, TypeOK, Working
<1>4. \A d \in Clones : RunIsOn(d)'
  <2>1. ASSUME NEW d \in Clones, d # c PROVE RunIsOn(d)'
    BY <2>1, <1>1, <1>2, RunStands DEF IInv, TypeOK
  <2>2. RunIsOn(c)'
    BY <1>2 DEF IInv, TypeOK, RunIsOn
  <2> QED
    BY <2>1, <2>2
<1>5. BranchesAreChecked' /\ TagsAreChecked' /\ TagsAreOnRelease'
  BY DEF IInv, TypeOK, BranchesAreChecked, CheckedBranch, TagsAreChecked,
         TagsAreOnRelease, Checked
<1> QED
  BY <1>3, <1>4, <1>5 DEF IInv

-----------------------------------------------------------------------------
(* What maintainers do beside the script.                                   *)

LEMMA PullOrFreeStep ==
  ASSUME IInv, NEW c \in Clones, Pull(c) \/ FreeBranch(c)
  PROVE  IInv'
<1> USE DEF Pull, FreeBranch
<1>1. UNCHANGED <<release, tags, run, pc, origin, alone, failures>>
  OBVIOUS
<1>2. TypeOK'
  <2>1. CASE Pull(c)
    BY <2>1 DEF IInv, TypeOK
  <2>2. CASE FreeBranch(c)
    BY <2>2 DEF IInv, TypeOK
  <2> QED
    BY <2>1, <2>2
<1>3. \A d \in Clones : RunIsOn(d)'
  BY <1>1, RunStands DEF IInv
<1>4. BranchesAreChecked' /\ TagsAreChecked' /\ TagsAreOnRelease'
  BY <1>1 DEF IInv, BranchesAreChecked, CheckedBranch, TagsAreChecked,
              TagsAreOnRelease, Checked
<1> QED
  BY <1>2, <1>3, <1>4 DEF IInv

\* A fetch leaves the tags that a clone has.
LEMMA FetchTagsStep ==
  ASSUME IInv, NEW c \in Clones, FetchTags(c)
  PROVE  IInv'
<1> USE DEF FetchTags
<1>1. \A d \in Clones : d # c => tags'[d] = tags[d]
  BY DEF IInv, TypeOK
<1>2. \A v \in Versions :
        tags'[c][v] = IF tags[c][v] = None THEN origin.tags[v] ELSE tags[c][v]
  BY DEF IInv, TypeOK
<1>3. TypeOK'
  BY DEF IInv, TypeOK
<1>4. \A d \in Clones : RunIsOn(d)'
  <2>1. ASSUME NEW d \in Clones, d # c PROVE RunIsOn(d)'
    BY <2>1, <1>1, RunStands DEF IInv, TypeOK
  <2>2. pc[c] = "push" => tags'[c][run[c].version] = tags[c][run[c].version]
    BY <1>2 DEF IInv, TypeOK, RunIsOn, Working
  <2>3. RunIsOn(c)'
    BY <2>2 DEF IInv, RunIsOn
  <2> QED
    BY <2>1, <2>3
<1>5. TagsAreChecked'
  BY <1>1, <1>2 DEF IInv, TagsAreChecked, Checked
<1>6. BranchesAreChecked' /\ TagsAreOnRelease'
  BY DEF IInv, BranchesAreChecked, CheckedBranch, TagsAreOnRelease
<1> QED
  BY <1>3, <1>4, <1>5, <1>6 DEF IInv

LEMMA FetchReleaseStep ==
  ASSUME IInv, NEW c \in Clones, FetchRelease(c)
  PROVE  IInv'
<1> USE DEF FetchRelease
<1>1. TypeOK'
  BY DEF IInv, TypeOK, Working
<1>2. \A d \in Clones : RunIsOn(d)'
  <2>1. ASSUME NEW d \in Clones, d # c PROVE RunIsOn(d)'
    BY <2>1, RunStands DEF IInv, TypeOK
  <2>2. RunIsOn(c)'
    BY DEF IInv, RunIsOn
  <2> QED
    BY <2>1, <2>2
<1>3. BranchesAreChecked' /\ TagsAreChecked' /\ TagsAreOnRelease'
  BY DEF IInv, TypeOK, BranchesAreChecked, CheckedBranch, TagsAreChecked,
         TagsAreOnRelease, Checked
<1> QED
  BY <1>1, <1>2, <1>3 DEF IInv

\* Each ref that the push may move is what the tag or the branch of the clone
\* is; a tag comes without the branch only where it is noted.
LEMMA PushByHandStep ==
  ASSUME IInv, NEW c \in Clones, NEW v \in Versions, PushByHand(c, v)
  PROVE  IInv'
<1> USE DEF PushByHand, clone
<1>1. /\ release[c] \in History /\ tags[c][v] \in History
      /\ IsPrefix(tags[c][v], release[c])
  BY DEF IInv, TypeOK, Branch
<1>2. /\ origin'.release = IF fastForward(c) THEN release[c] ELSE origin.release
      /\ origin'.tags = IF sameTag(c, v) THEN [origin.tags EXCEPT ![v] = tags[c][v]]
                                         ELSE origin.tags
      /\ origin' \in [release : Branch, tags : [Versions -> Branch]]
  <2>1. [origin.tags EXCEPT ![v] = tags[c][v]] \in [Versions -> Branch]
    BY <1>1 DEF IInv, TypeOK, Branch
  <2>2. origin' = pushedEach(c, v)
    OBVIOUS
  <2> QED
    BY <2>1, <2>2, <1>1 DEF pushedEach, IInv, TypeOK, Branch
<1>3. \A w \in Versions :
        origin'.tags[w] = IF w = v /\ sameTag(c, v) THEN tags[c][v]
                                                    ELSE origin.tags[w]
  BY <1>2 DEF IInv, TypeOK
<1>4. /\ origin'.release \in History
      /\ origin.release # None =>
           origin.release \in History /\ IsPrefix(origin.release, origin'.release)
  <2>1. CASE fastForward(c)
    BY <2>1, <1>1, <1>2 DEF fastForward, leadsTo, IInv, TypeOK, Branch
  <2>2. CASE ~fastForward(c)
    <3>1. origin.release \in History /\ origin'.release = origin.release
      BY <2>2, <1>2 DEF fastForward, leadsTo, IInv, TypeOK, Branch
    <3> QED
      BY <3>1, PrefixReflexive
  <2> QED
    BY <2>1, <2>2
<1>5. TypeOK'
  BY <1>2 DEF IInv, TypeOK, Working
<1>6. BranchesAreChecked'
  BY <1>2 DEF IInv, TypeOK, BranchesAreChecked, CheckedBranch
<1>7. \A d \in Clones : RunIsOn(d)'
  BY RunStands DEF IInv
<1>8. TagsAreChecked'
  BY <1>3 DEF IInv, TagsAreChecked, Checked
<1>9. TagsAreOnRelease'
  <2> SUFFICES ASSUME NEW w \in Versions, origin'.tags[w] # None, w \notin alone'
               PROVE  IsPrefix(origin'.tags[w], origin'.release)
    BY <1>4 DEF TagsAreOnRelease, History
  <2>1. w \notin alone
    OBVIOUS
  <2>2. CASE origin.tags[w] # None
    <3>1. origin'.tags[w] = origin.tags[w]
      BY <2>2, <1>3 DEF sameTag
    <3>2. /\ origin.tags[w] \in History /\ origin.release \in History
          /\ IsPrefix(origin.tags[w], origin.release)
      BY <2>1, <2>2 DEF IInv, TypeOK, TagsAreOnRelease, Branch
    <3> QED
      BY <3>1, <3>2, <1>4, PrefixTransitive
  <2>3. CASE origin.tags[w] = None
    <3>1. w = v /\ origin'.tags[w] = tags[c][v]
      BY <2>3, <1>3
    <3>2. fastForward(c)
      BY <3>1, <2>3
    <3> QED
      BY <3>1, <3>2, <1>1, <1>2
  <2> QED
    BY <2>2, <2>3
<1> QED
  BY <1>5, <1>6, <1>7, <1>8, <1>9 DEF IInv

-----------------------------------------------------------------------------
\* The inductive invariant: what a run has in its locals agrees with its branch
\* and its tag at each of its steps, so that what it tags is checked and what
\* it pushes belongs together.
THEOREM Invariance == Spec => []IInv
<1>1. IInv /\ [Next]_vars => IInv'
  <2> SUFFICES ASSUME IInv, [Next]_vars
               PROVE  IInv'
    OBVIOUS
  <2>1. ASSUME NEW c \in Clones, NEW v \in Versions, Start(c, v)
        PROVE  IInv'
    BY <2>1, BootstrapStep, ReleaseStep, PushAgainStep DEF Start
  <2>2. ASSUME NEW c \in Clones, Go(c)
        PROVE  IInv'
    BY <2>2, AddWorktreeStep, ReconcileStep, CheckStep, CommitStep, TagStep,
       PushStep, EndStep, CleanupStep DEF Go
  <2>3. ASSUME NEW c \in Clones, Fail(c) \/ Killed(c)
        PROVE  IInv'
    BY <2>3, EndStep
  <2>4. ASSUME NEW c \in Clones, Maintain(c)
        PROVE  IInv'
    BY <2>4, PullOrFreeStep, FetchTagsStep, FetchReleaseStep, PushByHandStep
       DEF Maintain
  <2>5. CASE UNCHANGED vars
    <3> USE <2>5 DEF vars, clone
    <3>1. \A d \in Clones : RunIsOn(d)'
      BY RunStands DEF IInv
    <3> QED
      BY <3>1 DEF IInv, TypeOK, BranchesAreChecked, CheckedBranch,
         TagsAreChecked, TagsAreOnRelease, Checked
  <2> QED
    BY <2>1, <2>2, <2>3, <2>4, <2>5 DEF Next
<1> QED
  BY InitInvariant, <1>1, PTL DEF Spec

\* Every variable keeps its type, and a run past its first tests has a branch.
THEOREM TypeCorrectness == Spec => []TypeOK
  BY Invariance, PTL DEF IInv

\* No release tag, in a clone or on origin, is ever on a commit that was not
\* checked or is another version's, whatever failed before it was made.
THEOREM ReleasesAreChecked == Spec => []TagsAreChecked
  BY Invariance, PTL DEF IInv

\* A release tag on origin is always on its release branch, unless a push by
\* hand, which is not atomic, brought it there without the branch.
THEOREM OriginIsWhole == Spec => []TagsAreOnRelease
  BY Invariance, PTL DEF IInv

\* No step of any run, fetch or push moves a tag that exists.
THEOREM TagsNeverMove == Spec => TagsStay
<1> DEFINE Stay == \A v \in Versions :
              /\ origin.tags[v] # None => origin'.tags[v] = origin.tags[v]
              /\ \A c \in Clones : tags[c][v] # None => tags'[c][v] = tags[c][v]
<1>1. TypeOK /\ Next => Stay
  <2> SUFFICES ASSUME TypeOK, Next
               PROVE  Stay
    OBVIOUS
  <2>1. CASE UNCHANGED <<tags, origin>>
    BY <2>1
  <2>2. ASSUME NEW c \in Clones, NEW push \in BOOLEAN, Tag(c, push)
        PROVE  Stay
    <3>1. /\ UNCHANGED origin
          /\ mayTag(tags[c][run[c].version], run[c].target)
          /\ tags' = [tags EXCEPT ![c][run[c].version] = run[c].target]
      BY <2>2 DEF Tag
    <3> QED
      BY <3>1 DEF TypeOK, mayTag
  <2>3. ASSUME NEW c \in Clones, FetchTags(c)
        PROVE  Stay
    BY <2>3 DEF FetchTags, TypeOK
  <2>4. ASSUME NEW c \in Clones, Push(c)
        PROVE  Stay
    <3>1. UNCHANGED tags /\ origin' = pushed(c, run[c].version)
      BY <2>4 DEF Push, clone
    <3> QED
      BY <3>1 DEF TypeOK, pushed, sameTag
  <2>9. ASSUME NEW c \in Clones, NEW v \in Versions, PushByHand(c, v)
        PROVE  Stay
    <3>1. UNCHANGED tags /\ origin' = pushedEach(c, v)
      BY <2>9 DEF PushByHand, clone
    <3> QED
      BY <3>1 DEF TypeOK, pushedEach, sameTag
  <2>5. ASSUME NEW c \in Clones, NEW v \in Versions, Start(c, v)
        PROVE  UNCHANGED <<tags, origin>>
    BY <2>5 DEF Start, Bootstrap, Release, PushAgain, clone
  <2>6. ASSUME NEW c \in Clones, Go(c), ~Push(c),
               \A push \in BOOLEAN : ~Tag(c, push)
        PROVE  UNCHANGED <<tags, origin>>
    BY <2>6 DEF Go, AddWorktree, Reconcile, Check, Commit, Refuse, Cleanup, clone
  <2>7. ASSUME NEW c \in Clones, Fail(c) \/ Killed(c)
        PROVE  UNCHANGED <<tags, origin>>
    BY <2>7 DEF Fail, Killed, clone
  <2>8. ASSUME NEW c \in Clones, Maintain(c), ~FetchTags(c),
               \A v \in Versions : ~PushByHand(c, v)
        PROVE  UNCHANGED <<tags, origin>>
    BY <2>8 DEF Maintain, Pull, FreeBranch, FetchRelease
  <2> QED
    BY <2>1, <2>2, <2>3, <2>4, <2>5, <2>6, <2>7, <2>8, <2>9 DEF Next
<1>2. TypeOK /\ [Next]_vars => [Stay]_vars
  BY <1>1
<1> QED
  BY TypeCorrectness, <1>2, PTL DEF Spec, TagsStay
-----------------------------------------------------------------------------
(* How a run leaves the release branch.                                     *)

Passed(branch) == branch # None /\ Last(branch).passed

\* A run moves the branch when it commits what passed, and a bootstrap when it
\* creates it where there was none.
RunKeepsBranch(c) ==
  pc[c] # "idle" =>
    /\ run[c].bootstrap => run[c].found = None
    /\ IF run[c].committed THEN Passed(release[c])
       ELSE run[c].bootstrap \/ release[c] = run[c].found

BranchInv == \A c \in Clones : RunKeepsBranch(c)

\* A step of one clone's run leaves the other clones' as they are.
LEMMA OthersKeepBranch ==
  ASSUME BranchInv, NEW c \in Clones,
         \A d \in Clones \ {c} :
           release'[d] = release[d] /\ run'[d] = run[d] /\ pc'[d] = pc[d],
         RunKeepsBranch(c)'
  PROVE  BranchInv'
<1>1. ASSUME NEW d \in Clones \ {c} PROVE RunKeepsBranch(d)'
  <2>1. /\ release'[d] = release[d] /\ run'[d] = run[d] /\ pc'[d] = pc[d]
        /\ RunKeepsBranch(d)
    BY DEF BranchInv
  <2> QED
    BY <2>1 DEF RunKeepsBranch
<1> QED
  BY <1>1 DEF BranchInv

LEMMA StartKeepsBranch ==
  ASSUME IInv, BranchInv, NEW c \in Clones, NEW v \in Versions, Start(c, v)
  PROVE  BranchInv'
<1>0. TypeOK
  BY DEF IInv
<1>1. CASE Bootstrap(c, v)
  <2>1. /\ ~run'[c].committed /\ run'[c].bootstrap /\ run'[c].found = None
        /\ \A d \in Clones \ {c} :
             release'[d] = release[d] /\ run'[d] = run[d] /\ pc'[d] = pc[d]
    BY <1>0, <1>1 DEF Bootstrap, Begin, Goto, TypeOK, Idle
  <2> QED
    BY <2>1, OthersKeepBranch DEF RunKeepsBranch
<1>2. CASE Release(c, v) \/ PushAgain(c, v)
  <2>1. release' = release /\ \E to \in Working : Begin(c, v, FALSE, to)
    BY <1>2 DEF Release, PushAgain, clone, Working
  <2>2. /\ ~run'[c].committed /\ run'[c].bootstrap = FALSE
        /\ run'[c].found = release[c]
        /\ \A d \in Clones \ {c} : run'[d] = run[d] /\ pc'[d] = pc[d]
    BY <1>0, <2>1 DEF Begin, Goto, TypeOK, Idle
  <2> QED
    BY <2>1, <2>2, OthersKeepBranch DEF RunKeepsBranch
<1> QED
  BY <1>1, <1>2 DEF Start

\* A step in the middle of a run that does not move the branch.
LEMMA MiddleKeepsBranch ==
  ASSUME TypeOK, BranchInv, NEW c \in Clones, NEW to, pc[c] # "idle",
         pc' = [pc EXCEPT ![c] = to], release' = release,
         \A d \in Clones \ {c} : run'[d] = run[d],
         /\ run'[c].bootstrap = run[c].bootstrap /\ run'[c].found = run[c].found
         /\ run'[c].committed = run[c].committed
  PROVE  BranchInv'
<1>1. RunKeepsBranch(c)'
  BY DEF BranchInv, RunKeepsBranch
<1>2. \A d \in Clones \ {c} : pc'[d] = pc[d]
  BY DEF TypeOK
<1> QED
  BY <1>1, <1>2, OthersKeepBranch

LEMMA GoKeepsBranch ==
  ASSUME IInv, BranchInv, NEW c \in Clones, Go(c)
  PROVE  BranchInv'
<1>0. /\ TypeOK /\ run \in [Clones -> Locals]
      /\ pc \in [Clones -> Working \cup {"idle", "cleanup"}]
      /\ RunIsOn(c) /\ RunKeepsBranch(c)
  BY DEF IInv, TypeOK, BranchInv
<1>1. CASE AddWorktree(c) \/ Refuse(c) \/ Push(c) \/ \E push \in BOOLEAN : Tag(c, push)
  <2>1. /\ pc[c] # "idle" /\ release' = release /\ run' = run
        /\ \E to : pc' = [pc EXCEPT ![c] = to]
    BY <1>1 DEF AddWorktree, Refuse, Push, Tag, Goto, clone
  <2> QED
    BY <1>0, <2>1, MiddleKeepsBranch
<1>2. CASE Reconcile(c) \/ Check(c)
  <2>1. /\ pc[c] # "idle" /\ release' = release
        /\ \E to : pc' = [pc EXCEPT ![c] = to]
        /\ \E target : run' = [run EXCEPT ![c].target = target]
    BY <1>2 DEF Reconcile, Check, Goto, clone
  <2>2. /\ run'[c].bootstrap = run[c].bootstrap /\ run'[c].found = run[c].found
        /\ run'[c].committed = run[c].committed
        /\ \A d \in Clones \ {c} : run'[d] = run[d]
    BY <1>0, <2>1 DEF Locals
  <2> QED
    BY <1>0, <2>1, <2>2, MiddleKeepsBranch
<1>3. CASE Commit(c)
  <2>1. /\ release'[c] = run[c].target /\ run'[c].committed
        /\ run'[c].bootstrap = run[c].bootstrap /\ run'[c].found = run[c].found
        /\ pc[c] = "commit"
        /\ \A d \in Clones \ {c} :
             release'[d] = release[d] /\ run'[d] = run[d] /\ pc'[d] = pc[d]
    BY <1>0, <1>3 DEF Commit, Goto, Locals, TypeOK
  <2>2. RunKeepsBranch(c)'
    BY <1>0, <2>1 DEF RunIsOn, RunKeepsBranch, Passed
  <2> QED
    BY <2>1, <2>2, OthersKeepBranch
<1>4. ASSUME NEW keep \in BOOLEAN, Cleanup(c, keep)
      PROVE  BranchInv'
  <2>1. /\ pc'[c] = "idle"
        /\ \A d \in Clones \ {c} :
             release'[d] = release[d] /\ run'[d] = run[d] /\ pc'[d] = pc[d]
    BY <1>0, <1>4 DEF Cleanup, Goto, TypeOK
  <2> QED
    BY <2>1, OthersKeepBranch DEF RunKeepsBranch
<1> QED
  BY <1>1, <1>2, <1>3, <1>4 DEF Go

\* A run that fails goes on to its cleanup; one that is killed has no locals.
LEMMA BreakKeepsBranch ==
  ASSUME IInv, BranchInv, NEW c \in Clones, Fail(c) \/ Killed(c)
  PROVE  BranchInv'
<1>0. TypeOK /\ run \in [Clones -> Locals]
  BY DEF IInv, TypeOK
<1>1. CASE Fail(c)
  <2>1. /\ pc[c] # "idle" /\ release' = release
        /\ pc' = [pc EXCEPT ![c] = "cleanup"]
        /\ run' = [run EXCEPT ![c].target = None]
    BY <1>1 DEF Fail, Goto, clone
  <2>2. /\ run'[c].bootstrap = run[c].bootstrap /\ run'[c].found = run[c].found
        /\ run'[c].committed = run[c].committed
        /\ \A d \in Clones \ {c} : run'[d] = run[d]
    BY <1>0, <2>1 DEF Locals
  <2> QED
    BY <1>0, <2>1, <2>2, MiddleKeepsBranch
<1>2. CASE Killed(c)
  <2>1. /\ pc'[c] = "idle" /\ release' = release
        /\ \A d \in Clones \ {c} : run'[d] = run[d] /\ pc'[d] = pc[d]
    BY <1>0, <1>2 DEF Killed, Goto, clone, TypeOK
  <2> QED
    BY <2>1, OthersKeepBranch DEF RunKeepsBranch
<1> QED
  BY <1>1, <1>2

LEMMA MaintainKeepsBranch ==
  ASSUME IInv, BranchInv, NEW c \in Clones, Maintain(c)
  PROVE  BranchInv'
<1>1. CASE ~FetchRelease(c)
  <2>1. UNCHANGED <<release, run, pc>>
    BY <1>1 DEF Maintain, Pull, FreeBranch, FetchTags, PushByHand, clone
  <2> QED
    BY <2>1 DEF BranchInv, RunKeepsBranch
<1>2. CASE FetchRelease(c)
  <2>1. /\ pc[c] = "idle" /\ UNCHANGED <<run, pc>>
        /\ \A d \in Clones \ {c} : release'[d] = release[d]
    BY <1>2 DEF FetchRelease, IInv, TypeOK
  <2> QED
    BY <2>1, OthersKeepBranch DEF RunKeepsBranch
<1> QED
  BY <1>1, <1>2

\* A run that comes to its end leaves the release branch where it found it or
\* on a commit that passed, whatever failed in it.
THEOREM BranchIsSafe == Spec => BranchIsFoundOrChecked
<1> DEFINE Left == \A c \in Clones :
             Cleanup(c, FALSE) =>
               \/ release'[c] = run[c].found
               \/ release'[c] # None /\ Last(release'[c]).passed
<1>1. Init => BranchInv
  BY DEF Init, BranchInv, RunKeepsBranch
<1>2. IInv /\ BranchInv /\ [Next]_vars => BranchInv'
  <2> SUFFICES ASSUME IInv, BranchInv, [Next]_vars
               PROVE  BranchInv'
    OBVIOUS
  <2>1. CASE UNCHANGED vars
    BY <2>1 DEF vars, clone, BranchInv, RunKeepsBranch
  <2>2. CASE Next
    BY <2>2, StartKeepsBranch, GoKeepsBranch, BreakKeepsBranch,
       MaintainKeepsBranch DEF Next
  <2> QED
    BY <2>1, <2>2
<1>3. IInv /\ BranchInv => Left
  <2> SUFFICES ASSUME IInv, BranchInv, NEW c \in Clones, Cleanup(c, FALSE)
               PROVE  \/ release'[c] = run[c].found
                      \/ release'[c] # None /\ Last(release'[c]).passed
    OBVIOUS
  <2>1. /\ pc[c] = "cleanup"
        /\ release'[c] = IF dropsBranch(c, FALSE) THEN None ELSE release[c]
    BY DEF Cleanup, Goto, IInv, TypeOK
  <2> QED
    BY <2>1 DEF BranchInv, RunKeepsBranch, dropsBranch, Passed
<1>4. IInv /\ BranchInv /\ [Next]_vars => [Left]_vars
  BY <1>3
<1> QED
  BY <1>1, <1>2, <1>4, Invariance, PTL DEF Spec, BranchIsFoundOrChecked
=============================================================================
