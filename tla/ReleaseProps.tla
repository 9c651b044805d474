---------------------------- MODULE ReleaseProps ----------------------------
(***************************************************************************)
(* What scripts/release.py promises: tags that were checked and never      *)
(* move, pushes that take branch and tag together, and runs that can be    *)
(* made again wherever one broke off.                                      *)
(***************************************************************************)
EXTENDS Release

Branch == History \cup {None}
Working == {"add", "reconcile", "check", "commit", "tag", "push"}

Locals == [version : Versions \cup {None}, bootstrap : BOOLEAN, found : Branch,
           target : Branch, committed : BOOLEAN]

\* Every variable has its type, and a run past its first tests of main() has a
\* version and the release branch.
TypeOK ==
  /\ main \in [Clones -> Nat]
  /\ release \in [Clones -> Branch]
  /\ tags \in [Clones -> [Versions -> Branch]]
  /\ held \in [Clones -> BOOLEAN]
  /\ run \in [Clones -> Locals]
  /\ pc \in [Clones -> Working \cup {"idle", "cleanup"}]
  /\ origin \in [release : Branch, tags : [Versions -> Branch]]
  /\ alone \subseteq Versions
  /\ failures \in Nat
  /\ \A c \in Clones :
       pc[c] \in Working => run[c].version \in Versions /\ release[c] # None

Checked(v, commit) ==
  commit # None => Last(commit).version = v /\ Last(commit).passed

\* Whatever failed, was killed or was run again before it was made, a release
\* tag is never on a commit that was not checked, or is another version's.
TagsAreChecked ==
  \A v \in Versions :
    /\ Checked(v, origin.tags[v])
    /\ \A c \in Clones : Checked(v, tags[c][v])

\* "without ever moving an existing tag": not in a clone, though a fetch brings
\* the tag in between the script's two looks at it, and not on origin.
TagsStay ==
  [][\A v \in Versions :
       /\ origin.tags[v] # None => origin'.tags[v] = origin.tags[v]
       /\ \A c \in Clones : tags[c][v] # None => tags'[c][v] = tags[c][v]]_vars

\* A release tag that the script pushed is on origin's release branch and stays
\* on it: of maintainers who cut releases at the same time, one pushes both and
\* the others neither, whatever else reaches origin by hand.  The push that a
\* run without --push tells its maintainer to make is not atomic, and is the one
\* way for a tag to be beside the branch: it is refused the branch where
\* origin's has gone another way, and brings the tag alone.
TagsAreOnRelease ==
  \A v \in Versions :
    origin.tags[v] # None =>
      /\ origin.release # None
      /\ v \notin alone => IsPrefix(origin.tags[v], origin.release)

\* "The release branch advances only after all checks pass": a run that comes
\* to its end, wherever it failed, leaves the branch where it found it or on a
\* commit that passed.  With --keep-worktree, or killed, it may leave the
\* branch of a bootstrap.
BranchIsFoundOrChecked ==
  [][\A c \in Clones :
       Cleanup(c, FALSE) =>
         \/ release'[c] = run[c].found
         \/ release'[c] # None /\ Last(release'[c]).passed]_vars

\* A release gets out: wherever failures and kills break its runs off, and
\* however main moves on between them, running the script again, without
\* moving a tag or a branch by hand, gets the tag to origin.
ReleaseGetsOut == \A v \in Versions : <>(origin.tags[v] # None)
=============================================================================
