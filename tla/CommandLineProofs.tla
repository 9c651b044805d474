-------------------------- MODULE CommandLineProofs -------------------------
(* Proofs about CommandLine, for any offered options and any bounds: what the
   process asks of core and in which order, what it gives back, and what its
   exit status says. *)
EXTENDS CommandLineProps, FiniteSetTheorems, TLAPS

-----------------------------------------------------------------------------
(* The request. *)

LEMMA SentPath ==
    \A via, method, keys, fields :
        /\ Sent(via, method, keys, fields).via = via
        /\ Sent(via, method, keys, fields).method = method
        /\ MergeRequest(via, keys, fields).via = via
        /\ MergeRequest(via, keys, fields).method = "merge"
  BY DEF Sent, MergeRequest

\* The path of the request and its method, as far as the process tells them apart.
LEMMA RequestPaths ==
    ASSUME NEW c \in Commands, NEW o
    PROVE  LET r == HandlerRequest(c, o)
           IN  /\ r.via \in {"call", "stream", "merge_stream", "log"}
               /\ r.via = "log" <=> c = "log"
               /\ c = "diff" => r.via = "call"
               /\ c \in {"diff", "log"} => r.method \notin {"merge", "push"}
<1> USE DEF Called, Streamed
<1>1. CASE c \in RepoCommands
  <2>1. HandlerRequest(c, o) = HandleRepo(c, o)
    BY <1>1 DEF HandlerRequest, RepoCommands, StashCommands
  <2>2. HandleRepo(c, o).via \in {"call", "stream"}
    <3>1. HandleRepoClone(o).via \in {"call", "stream"}
      BY SentPath DEF HandleRepoClone, CloneRepoMember, CloneRepoMemberStream
    <3>2. /\ AddExistingRepo(Keys(o), o \cap RepoOptions.add).via = "call"
          /\ CreateRepo(Keys(o), o \cap RepoOptions.create).via = "call"
          /\ DetachRepoMember(Keys(o)).via = "call"
          /\ AttachRepoMember(Keys(o)).via = "call"
          /\ RepoSync(Keys(o), o \cap RepoOptions.sync).via = "call"
      BY SentPath DEF AddExistingRepo, CreateRepo, DetachRepoMember, AttachRepoMember,
         SingleRepo, RepoSync
    <3> QED
      BY <1>1, <3>1, <3>2 DEF HandleRepo, RepoCommands
  <2> QED
    BY <1>1, <2>1, <2>2 DEF RepoCommands
<1>2. CASE c \in {"merge", "branch"}
  <2>1. WrapMerge(o).via \in {"call", "merge_stream"}
    BY SentPath DEF WrapMerge, HandleMerge, MergeIn, Merge, MergeStream
  <2>2. HandleBranch(o).via = "call"
    BY SentPath DEF HandleBranch, Branch, Merge
  <2> QED
    BY <1>2, <2>1, <2>2 DEF HandlerRequest, RepoCommands, StashCommands
<1>3. CASE c \in StashCommands
  <2>1. HandleStash(c, o).via = "call"
    BY SentPath DEF HandleStash, Stash
  <2> QED
    BY <1>3, <2>1 DEF HandlerRequest, RepoCommands, StashCommands
<1>4. CASE c \in MutationCommands
  <2>1. /\ HandleMaterialize(o).via = "call" /\ HandleSnapshot(o).via = "call"
        /\ HandleTag(o).via = "call" /\ HandleStage(o).via = "call"
        /\ HandleCommit(o).via = "call" /\ HandlePull(o).via = "call"
        /\ HandlePush(o).via = "call" /\ Fetch(Keys(o)).via = "call"
        /\ Capture(Keys(o)).via = "call"
    BY SentPath DEF HandleMaterialize, Materialize, HandleSnapshot, Snapshot, ListSnapshots,
       HandleTag, Tag, Capture, HandleStage, Stage, HandleCommit, Commit, HandlePull, PullHead,
       PullSnapshot, HandlePush, Push, Fetch
  <2>2. HandlerRequest(c, o).via = "call"
    BY <1>4, <2>1, SentPath DEF HandlerRequest, RepoCommands, StashCommands, MutationCommands
  <2> QED
    BY <1>4, <2>2 DEF MutationCommands
<1>5. CASE c \in {"auth identity", "status", "ls", "init"}
  <2>1. /\ HandleInit(o).via = "call"
        /\ RemoteIdentity(Keys(o), o \cap AuthOptions).via = "call"
        /\ Status(Keys(o), o \cap (StatusOptions \ {"porcelain"})).via = "call"
        /\ Ls(Keys(o), o \cap (LsOptions \ {"local"})).via = "call"
    BY SentPath DEF HandleInit, InitFromSources, CreateWorkspace, RemoteIdentity, Status, Ls
  <2> QED
    BY <1>5, <2>1 DEF HandlerRequest, RepoCommands, StashCommands
<1>6. CASE c \in {"diff", "log"}
  <2>1. HandleDiff(o).via = "call" /\ HandleDiff(o).method = "diff"
    BY SentPath DEF HandleDiff, Diff
  <2>2. HandleLog(o).via = "log" /\ HandleLog(o).method = "log"
    BY SentPath DEF HandleLog, Log
  <2> QED
    BY <1>6, <2>1, <2>2 DEF HandlerRequest, RepoCommands, StashCommands
<1>7. CASE c \in LocalCommands \cup FamilyCommands
  <2>1. /\ HandleForall(o).via = "call"
        /\ HandleClone(o).via \in {"call", "stream"}
        /\ HandleLocal(c, o).via = "call"
    <3>1. HandleForall(o).via = "call"
      BY SentPath DEF HandleForall, ResolveForallTargets
    <3>2. HandleClone(o).via \in {"call", "stream"}
      BY SentPath DEF HandleClone, CloneWorkspace, CloneWorkspaceStream
    <3>3. HandleLocal(c, o).via = "call"
      <4>1. HandleLocalClone(o).via = "call"
        BY SentPath DEF HandleLocalClone, CloneLocalWorkspace
      <4>2. LocalFamily(Keys(o), o \cap CommandOptionsOf(c)).via = "call"
        BY SentPath DEF LocalFamily
      <4> QED
        BY <4>1, <4>2 DEF HandleLocal
    <3> QED
      BY <3>1, <3>2, <3>3
  <2>2. CASE c \in LocalCommands
    <3>1. HandlerRequest("forall", o) = HandleForall(o)
      BY DEF HandlerRequest, RepoCommands, StashCommands
    <3>2. HandlerRequest("clone", o) = HandleClone(o)
      BY DEF HandlerRequest, RepoCommands, StashCommands
    <3> QED
      BY <2>1, <2>2, <3>1, <3>2 DEF LocalCommands
  <2>3. CASE c \in FamilyCommands
    <3>1. HandlerRequest(c, o) = HandleLocal(c, o)
      BY <2>3 DEF HandlerRequest, RepoCommands, StashCommands, FamilyCommands
    <3> QED
      BY <2>1, <2>3, <3>1 DEF FamilyCommands
  <2> QED
    BY <1>7, <2>2, <2>3
<1> QED
  BY <1>1, <1>2, <1>3, <1>4, <1>5, <1>6, <1>7 DEF Commands, ReadCommands

\* What one command line asks for never changes.
LEMMA WantedStays == UNCHANGED invocation => Wanted' = Wanted
  BY DEF invocation, Wanted

LEMMA ControlIsPlain ==
    ASSUME NEW method
    PROVE  /\ Control(method).via = "control" /\ Control(method).method = method
           /\ ~WantsIdentity(Control(method))
  BY DEF Control, Sent, RequestMeta, WantsIdentity

\* Whatever a client method would refuse has been refused before, but for an empty
\* operand of sync.
LEMMA ChecksCover ==
    ASSUME NEW c \in Commands, NEW o,
           ~ParserRefuses(c, o), ~ValidateArgsRefuses(c, o), ~HandlerRefuses(c, o),
           ClientRefuses(c, o)
    PROVE  /\ c = "repo sync" /\ "empty_member_path" \in o
           /\ o \cap SelectionOptions # {}
<1>1. CASE c = "auth identity"
  <2>1. {"key_path", "unset"} \subseteq o
    BY <1>1 DEF ClientRefuses, RemoteIdentityRefuses
  <2>2. o \cap AuthOptions = {"key_path", "unset"}
    BY <2>1 DEF AuthOptions
  <2>3. Cardinality({"key_path"}) = 1 /\ IsFiniteSet({"key_path"})
    BY FS_Singleton
  <2>4. Cardinality({"key_path"} \cup {"unset"}) = 2
    BY <2>3, FS_AddElement
  <2>5. {"key_path"} \cup {"unset"} = {"key_path", "unset"}
    OBVIOUS
  <2>6. Both(o, AuthOptions)
    BY <2>2, <2>4, <2>5 DEF Both
  <2> QED
    BY <1>1, <2>6 DEF ParserRefuses, ExclusiveGroups
<1>2. CASE c \in {"repo detach", "repo attach"}
  <2>1. ~RepoOperandRefused(o) /\ (c = "repo attach" => "bad_member_id" \notin o)
    BY <1>2 DEF HandlerRefuses, RepoRefused
  <2>2. ~SingleRepoRefuses(Keys(o))
    BY <2>1 DEF RepoOperandRefused, SingleRepoRefuses, RequestMeta, Keys, MetaKwargs,
       SelectionOptions, PolicyOptions, IdentityOptions
  <2> QED
    BY <1>2, <2>1, <2>2 DEF ClientRefuses, AttachRefuses
<1>3. CASE c = "repo sync"
  <2>1. ~("member_path" \in o /\ o \cap SelectionOptions # {})
    BY <1>3 DEF ValidateArgsRefuses
  <2>2. o \cap SyncOperands # {} /\ Keys(o) \cap SelectionOptions # {}
    BY <1>3 DEF ClientRefuses, RepoSyncRefuses
  <2>3. Keys(o) \cap SelectionOptions \subseteq o
    BY DEF Keys, MetaKwargs, SelectionOptions
  <2> QED
    BY <1>3, <2>1, <2>2, <2>3 DEF SyncOperands
<1> QED
  BY <1>1, <1>2, <1>3 DEF ClientRefuses

-----------------------------------------------------------------------------
(* What the request carries. *)

\* What is asked of one request, beside the run of forall.
Faithful(r) ==
    /\ on \ (Consumed \cup Overridden \cup EmptyValues) \subseteq Carried(r)
    /\ \/ r.method \in {"detach_repo_member", "attach_repo_member"}
       \/ r.method = "repo_sync" /\ r.fields \cap SyncOperands # {}
       => r.meta.selection = {"operand"}
    /\ ~ ("remote" \in r.meta.policy /\ "remote" \in r.fields)
    /\ command = "merge" => "remote" \notin r.meta.policy
    /\ r.method = "merge" => r.meta.policy \subseteq on
    /\ "dry_run" \in on => r.meta.dry_run

\* The options a command line can hold, and the checks it has passed.
Accepted ==
    /\ ~UrlSchemeRefused(on)
    /\ ~ParserRefuses(command, on) /\ ~ValidateArgsRefuses(command, on)
    /\ ~HandlerRefuses(command, on) /\ ~ClientRefuses(command, on)
OnOptions == on \subseteq CommandOptionsOf(command) \cup GlobalOptions

\* A request is the handler's of its command.
LEMMA HandlerOf ==
    ASSUME NEW c, NEW o
    PROVE  /\ c = "auth identity" =>
                 HandlerRequest(c, o) = RemoteIdentity(Keys(o), o \cap AuthOptions)
           /\ c = "status" =>
                 HandlerRequest(c, o) = Status(Keys(o), o \cap (StatusOptions \ {"porcelain"}))
           /\ c = "ls" => HandlerRequest(c, o) = Ls(Keys(o), o \cap (LsOptions \ {"local"}))
           /\ c = "init" => HandlerRequest(c, o) = HandleInit(o)
           /\ c \in RepoCommands => HandlerRequest(c, o) = HandleRepo(c, o)
           /\ c = "diff" => HandlerRequest(c, o) = HandleDiff(o)
           /\ c = "log" => HandlerRequest(c, o) = HandleLog(o)
           /\ c = "materialize" => HandlerRequest(c, o) = HandleMaterialize(o)
           /\ c = "snapshot" => HandlerRequest(c, o) = HandleSnapshot(o)
           /\ c = "tag" => HandlerRequest(c, o) = HandleTag(o)
           /\ c = "capture" => HandlerRequest(c, o) = Capture(Keys(o))
           /\ c = "add" => HandlerRequest(c, o) = HandleStage(o)
           /\ c = "commit" => HandlerRequest(c, o) = HandleCommit(o)
           /\ c = "pull" => HandlerRequest(c, o) = HandlePull(o)
           /\ c = "push" => HandlerRequest(c, o) = HandlePush(o)
           /\ c = "fetch" => HandlerRequest(c, o) = Fetch(Keys(o))
           /\ c = "branch" => HandlerRequest(c, o) = HandleBranch(o)
           /\ c \in StashCommands => HandlerRequest(c, o) = HandleStash(c, o)
           /\ c = "merge" => HandlerRequest(c, o) = WrapMerge(o)
           /\ c = "forall" => HandlerRequest(c, o) = HandleForall(o)
           /\ c = "clone" => HandlerRequest(c, o) = HandleClone(o)
           /\ c \in FamilyCommands => HandlerRequest(c, o) = HandleLocal(c, o)
<1>1. ASSUME c = "auth identity"
      PROVE  HandlerRequest(c, o) = RemoteIdentity(Keys(o), o \cap AuthOptions)
  BY <1>1 DEF HandlerRequest, RepoCommands, StashCommands, FamilyCommands
<1>2. ASSUME c = "status"
      PROVE  HandlerRequest(c, o) = Status(Keys(o), o \cap (StatusOptions \ {"porcelain"}))
  BY <1>2 DEF HandlerRequest, RepoCommands, StashCommands, FamilyCommands
<1>3. ASSUME c = "ls" PROVE HandlerRequest(c, o) = Ls(Keys(o), o \cap (LsOptions \ {"local"}))
  BY <1>3 DEF HandlerRequest, RepoCommands, StashCommands, FamilyCommands
<1>4. ASSUME c = "init" PROVE HandlerRequest(c, o) = HandleInit(o)
  BY <1>4 DEF HandlerRequest, RepoCommands, StashCommands, FamilyCommands
<1>5. ASSUME c \in RepoCommands PROVE HandlerRequest(c, o) = HandleRepo(c, o)
  BY <1>5 DEF HandlerRequest, RepoCommands, StashCommands, FamilyCommands
<1>6. ASSUME c = "diff" PROVE HandlerRequest(c, o) = HandleDiff(o)
  BY <1>6 DEF HandlerRequest, RepoCommands, StashCommands, FamilyCommands
<1>7. ASSUME c = "log" PROVE HandlerRequest(c, o) = HandleLog(o)
  BY <1>7 DEF HandlerRequest, RepoCommands, StashCommands, FamilyCommands
<1>8. ASSUME c = "materialize" PROVE HandlerRequest(c, o) = HandleMaterialize(o)
  BY <1>8 DEF HandlerRequest, RepoCommands, StashCommands, FamilyCommands
<1>9. ASSUME c = "snapshot" PROVE HandlerRequest(c, o) = HandleSnapshot(o)
  BY <1>9 DEF HandlerRequest, RepoCommands, StashCommands, FamilyCommands
<1>10. ASSUME c = "tag" PROVE HandlerRequest(c, o) = HandleTag(o)
  BY <1>10 DEF HandlerRequest, RepoCommands, StashCommands, FamilyCommands
<1>11. ASSUME c = "capture" PROVE HandlerRequest(c, o) = Capture(Keys(o))
  BY <1>11 DEF HandlerRequest, RepoCommands, StashCommands, FamilyCommands
<1>12. ASSUME c = "add" PROVE HandlerRequest(c, o) = HandleStage(o)
  BY <1>12 DEF HandlerRequest, RepoCommands, StashCommands, FamilyCommands
<1>13. ASSUME c = "commit" PROVE HandlerRequest(c, o) = HandleCommit(o)
  BY <1>13 DEF HandlerRequest, RepoCommands, StashCommands, FamilyCommands
<1>14. ASSUME c = "pull" PROVE HandlerRequest(c, o) = HandlePull(o)
  BY <1>14 DEF HandlerRequest, RepoCommands, StashCommands, FamilyCommands
<1>15. ASSUME c = "push" PROVE HandlerRequest(c, o) = HandlePush(o)
  BY <1>15 DEF HandlerRequest, RepoCommands, StashCommands, FamilyCommands
<1>16. ASSUME c = "fetch" PROVE HandlerRequest(c, o) = Fetch(Keys(o))
  BY <1>16 DEF HandlerRequest, RepoCommands, StashCommands, FamilyCommands
<1>17. ASSUME c = "branch" PROVE HandlerRequest(c, o) = HandleBranch(o)
  BY <1>17 DEF HandlerRequest, RepoCommands, StashCommands, FamilyCommands
<1>18. ASSUME c \in StashCommands PROVE HandlerRequest(c, o) = HandleStash(c, o)
  BY <1>18 DEF HandlerRequest, RepoCommands, StashCommands, FamilyCommands
<1>19. ASSUME c = "merge" PROVE HandlerRequest(c, o) = WrapMerge(o)
  BY <1>19 DEF HandlerRequest, RepoCommands, StashCommands, FamilyCommands
<1>20. ASSUME c = "forall" PROVE HandlerRequest(c, o) = HandleForall(o)
  BY <1>20 DEF HandlerRequest, RepoCommands, StashCommands, FamilyCommands
<1>21. ASSUME c = "clone" PROVE HandlerRequest(c, o) = HandleClone(o)
  BY <1>21 DEF HandlerRequest, RepoCommands, StashCommands, FamilyCommands
<1>22. ASSUME c \in FamilyCommands PROVE HandlerRequest(c, o) = HandleLocal(c, o)
  BY <1>22 DEF HandlerRequest, RepoCommands, StashCommands, FamilyCommands
<1> QED
  BY <1>1, <1>2, <1>3, <1>4, <1>5, <1>6, <1>7, <1>8, <1>9, <1>10, <1>11, <1>12,
     <1>13, <1>14, <1>15, <1>16, <1>17, <1>18, <1>19, <1>20, <1>21, <1>22

\* A request carries all that its keys and fields say.
LEMMA CarriedAll ==
    ASSUME NEW via, NEW method, NEW keys, NEW fields
    PROVE  LET r == Sent(via, method, keys, fields)
           IN  /\ fields \subseteq Carried(r)
               /\ keys \cap (SelectionOptions \cup PolicyOptions \cup IdentityOptions
                             \cup {"url_scheme", "root", "path", "urls"}) \subseteq Carried(r)
               /\ "dry_run" \in keys => "dry_run" \in Carried(r)
  BY DEF Sent, RequestMeta, Carried

\* Nothing is dropped when the keys are those of the command line and the fields
\* are its own options.
LEMMA NothingDropped ==
    ASSUME OnOptions, ~UrlSchemeRefused(on),
           NEW via, NEW method, NEW keys, NEW fields,
           Keys(on) \ {"remote", "root"} \subseteq keys,
           "remote" \in on => "remote" \in keys \cup fields,
           "root" \in on => "root" \in keys \cup Overridden,
           (on \cap CommandOptionsOf(command))
               \ (Consumed \cup Overridden \cup EmptyValues \cup UrlSchemeOptions)
               \subseteq fields \cup (keys \cap {"path"})
    PROVE  on \ (Consumed \cup Overridden \cup EmptyValues)
               \subseteq Carried(Sent(via, method, keys, fields))
<1> DEFINE r == Sent(via, method, keys, fields)
<1>1. SUFFICES ASSUME NEW x \in on, x \notin Consumed, x \notin Overridden,
                      x \notin EmptyValues
               PROVE  x \in Carried(r)
  OBVIOUS
<1> HIDE DEF r
<1>2. /\ fields \subseteq Carried(r)
      /\ keys \cap (SelectionOptions \cup PolicyOptions \cup IdentityOptions
                    \cup {"url_scheme", "root", "path", "urls"}) \subseteq Carried(r)
      /\ "dry_run" \in keys => "dry_run" \in Carried(r)
  BY CarriedAll DEF r
<1>3. {"json", "jsonl", "verbose", "ssh_timeout", "repeated"} \subseteq Consumed
  BY DEF Consumed
<1>4. CASE x \in CommandOptionsOf(command) \ UrlSchemeOptions
  BY <1>1, <1>2, <1>4
<1>5. CASE x \in UrlSchemeOptions
  <2>1. CASE x = "url_scheme"
    BY <1>2, <2>1 DEF Keys, MetaKwargs, RequestedUrlScheme
  <2>2. CASE x = "env_scheme"
    BY <1>1, <2>2 DEF Overridden
  <2>3. CASE x = "bad_env_scheme"
    BY <1>1, <2>3 DEF Overridden, UrlSchemeRefused
  <2> QED
    BY <1>5, <2>1, <2>2, <2>3 DEF UrlSchemeOptions
<1>6. CASE x \in SelectionOptions \cup IdentityOptions \cup (PolicyOptions \ {"remote"})
  <2>1. x \in Keys(on) \ {"remote", "root"}
    BY <1>6 DEF Keys, MetaKwargs, SelectionOptions, PolicyOptions, IdentityOptions
  <2> QED
    BY <1>2, <1>6, <2>1
<1>7. CASE x = "remote"
  BY <1>1, <1>2, <1>7 DEF PolicyOptions
<1>8. CASE x = "root"
  BY <1>1, <1>2, <1>8
<1>9. CASE x = "dry_run"
  BY <1>2, <1>9 DEF Keys, MetaKwargs
<1> QED
  BY <1>1, <1>3, <1>4, <1>5, <1>6, <1>7, <1>8, <1>9 DEF OnOptions, GlobalOptions, r

\* The command's own options that are still to be carried.
Own == (on \cap CommandOptionsOf(command))
           \ (Consumed \cup Overridden \cup EmptyValues \cup UrlSchemeOptions)

\* Methods of which more is asked, or whose policy is a merge's.
SpecialMethods == {"detach_repo_member", "attach_repo_member", "repo_sync", "merge"}

LEMMA PlainRequest ==
    ASSUME OnOptions, Accepted, command # "merge",
           NEW via, NEW method, method \notin SpecialMethods, NEW keys, NEW fields,
           Keys(on) \ {"remote", "root"} \subseteq keys,
           "remote" \in on => "remote" \in keys \cup fields,
           ~ ("remote" \in keys /\ "remote" \in fields),
           "root" \in on => "root" \in keys \cup Overridden,
           Own \subseteq fields \cup (keys \cap {"path"})
    PROVE  Faithful(Sent(via, method, keys, fields))
<1> DEFINE r == Sent(via, method, keys, fields)
<1>1. on \ (Consumed \cup Overridden \cup EmptyValues) \subseteq Carried(r)
  BY NothingDropped DEF Own, Accepted
<1>2. r.method = method /\ r.fields = fields
  BY DEF Sent
<1>3. "remote" \in r.meta.policy => "remote" \in keys
  BY DEF Sent, RequestMeta
<1>4. "dry_run" \in on => r.meta.dry_run
  BY DEF Sent, RequestMeta, Keys, MetaKwargs
<1> HIDE DEF r
<1>5. Faithful(r)
  BY <1>1, <1>2, <1>3, <1>4 DEF Faithful, SpecialMethods
<1> QED
  BY <1>5 DEF r

LEMMA PlainKeys ==
    ASSUME OnOptions, Accepted, command # "merge",
           NEW via, NEW method, method \notin SpecialMethods, NEW fields,
           "remote" \notin fields, Own \subseteq fields
    PROVE  Faithful(Sent(via, method, Keys(on), fields))
<1>1. /\ "remote" \in on => "remote" \in Keys(on)
      /\ "root" \in on => "root" \in Keys(on)
  BY DEF Keys, MetaKwargs, PolicyOptions
<1> QED
  BY <1>1, PlainRequest

\* The requests whose keys are those of the command line.
LEMMA PlainFaithful ==
    ASSUME OnOptions, Accepted,
           command \in {"auth identity", "status", "ls", "repo add", "repo create", "log",
                       "materialize", "capture", "fetch", "add", "commit"}
    PROVE  Faithful(Wanted)
<1> USE DEF Called, Streamed
<1>1. CASE command = "auth identity"
  <2>1. Wanted = Sent("call", "remote_identity", Keys(on), on \cap AuthOptions)
    BY <1>1, HandlerOf DEF Wanted, RemoteIdentity
  <2>2. "remote" \notin (on \cap AuthOptions)
    BY DEF PolicyOptions, AuthOptions
  <2>3. Own \subseteq on \cap AuthOptions
    BY <1>1 DEF Own, CommandOptionsOf, Consumed, AuthOptions
  <2> QED
    BY <1>1, <2>1, <2>2, <2>3, PlainKeys DEF SpecialMethods
<1>2. CASE command = "status"
  <2>1. Wanted = Sent("call", "status", Keys(on), on \cap (StatusOptions \ {"porcelain"}))
    BY <1>2, HandlerOf DEF Wanted, Status
  <2>2. "remote" \notin (on \cap (StatusOptions \ {"porcelain"}))
    BY DEF PolicyOptions, StatusOptions
  <2>3. Own \subseteq on \cap (StatusOptions \ {"porcelain"})
    BY <1>2 DEF Own, CommandOptionsOf, Consumed, StatusOptions
  <2> QED
    BY <1>2, <2>1, <2>2, <2>3, PlainKeys DEF SpecialMethods
<1>3. CASE command = "ls"
  <2>1. Wanted = Sent("call", "ls", Keys(on), on \cap (LsOptions \ {"local"}))
    BY <1>3, HandlerOf DEF Wanted, Ls
  <2>2. "remote" \notin (on \cap (LsOptions \ {"local"}))
    BY DEF PolicyOptions, LsOptions
  <2>3. Own \subseteq on \cap (LsOptions \ {"local"})
    BY <1>3 DEF Own, CommandOptionsOf, Consumed, LsOptions
  <2> QED
    BY <1>3, <2>1, <2>2, <2>3, PlainKeys DEF SpecialMethods
<1>4. CASE command = "repo add"
  <2>1. Wanted = Sent("call", "add_existing_repo", Keys(on), on \cap RepoOptions.add)
    BY <1>4, HandlerOf DEF Wanted, HandleRepo, AddExistingRepo, RepoCommands
  <2>2. "remote" \notin (on \cap RepoOptions.add)
    BY DEF PolicyOptions, RepoOptions, DesignationOptions
  <2>3. Own \subseteq on \cap RepoOptions.add
    BY <1>4 DEF Own, CommandOptionsOf, Consumed, RepoOptions, DesignationOptions
  <2> QED
    BY <1>4, <2>1, <2>2, <2>3, PlainKeys DEF SpecialMethods
<1>5. CASE command = "repo create"
  <2>1. Wanted = Sent("call", "create_repo", Keys(on), on \cap RepoOptions.create)
    BY <1>5, HandlerOf DEF Wanted, HandleRepo, CreateRepo, RepoCommands
  <2>2. "remote" \notin (on \cap RepoOptions.create)
    BY DEF PolicyOptions, RepoOptions, DesignationOptions
  <2>3. Own \subseteq on \cap RepoOptions.create
    BY <1>5 DEF Own, CommandOptionsOf, Consumed, RepoOptions, DesignationOptions
  <2> QED
    BY <1>5, <2>1, <2>2, <2>3, PlainKeys DEF SpecialMethods
<1>6. CASE command = "log"
  <2>1. Wanted = Sent("log", "log", Keys(on), on \cap (LogOptions \ {"full", "color"}))
    BY <1>6, HandlerOf DEF Wanted, HandleLog, Log
  <2>2. "remote" \notin (on \cap (LogOptions \ {"full", "color"}))
    BY DEF PolicyOptions, LogOptions
  <2>3. Own \subseteq on \cap (LogOptions \ {"full", "color"})
    BY <1>6 DEF Own, CommandOptionsOf, Consumed, LogOptions
  <2> QED
    BY <1>6, <2>1, <2>2, <2>3, PlainKeys DEF SpecialMethods
<1>7. CASE command = "materialize"
  <2>1. Wanted = Sent("call", "materialize", Keys(on),
                     on \cap (MaterializeTargets \ EmptyValues))
    BY <1>7, HandlerOf DEF Wanted, HandleMaterialize, Materialize
  <2>2. "remote" \notin (on \cap (MaterializeTargets \ EmptyValues))
    BY DEF PolicyOptions, MaterializeTargets
  <2>3. Own \subseteq on \cap (MaterializeTargets \ EmptyValues)
    BY <1>7 DEF Own, CommandOptionsOf, Consumed, MaterializeTargets
  <2> QED
    BY <1>7, <2>1, <2>2, <2>3, PlainKeys DEF SpecialMethods
<1>8. CASE command = "capture"
  <2>1. Wanted = Sent("call", "capture", Keys(on), {})
    BY <1>8, HandlerOf DEF Wanted, Capture
  <2>2. "remote" \notin {}
    BY DEF PolicyOptions
  <2>3. Own \subseteq {}
    BY <1>8 DEF Own, CommandOptionsOf, Consumed
  <2> QED
    BY <1>8, <2>1, <2>2, <2>3, PlainKeys DEF SpecialMethods
<1>9. CASE command = "fetch"
  <2>1. Wanted = Sent("call", "fetch", Keys(on), {})
    BY <1>9, HandlerOf DEF Wanted, Fetch
  <2>2. "remote" \notin {}
    BY DEF PolicyOptions
  <2>3. Own \subseteq {}
    BY <1>9 DEF Own, CommandOptionsOf, Consumed
  <2> QED
    BY <1>9, <2>1, <2>2, <2>3, PlainKeys DEF SpecialMethods
<1>10. CASE command = "add"
  <2>1. Wanted = Sent("call", "stage", Keys(on), on \cap StageOptions)
    BY <1>10, HandlerOf DEF Wanted, HandleStage, Stage
  <2>2. "remote" \notin (on \cap StageOptions)
    BY DEF PolicyOptions, StageOptions
  <2>3. Own \subseteq on \cap StageOptions
    BY <1>10 DEF Own, CommandOptionsOf, Consumed, StageOptions
  <2> QED
    BY <1>10, <2>1, <2>2, <2>3, PlainKeys DEF SpecialMethods
<1>11. CASE command = "commit"
  <2>1. Wanted = Sent("call", "commit", Keys(on), on \cap CommitOptions)
    BY <1>11, HandlerOf DEF Wanted, HandleCommit, Commit
  <2>2. "remote" \notin (on \cap CommitOptions)
    BY DEF PolicyOptions, CommitOptions
  <2>3. Own \subseteq on \cap CommitOptions
    BY <1>11 DEF Own, CommandOptionsOf, Consumed, CommitOptions
  <2> QED
    BY <1>11, <2>1, <2>2, <2>3, PlainKeys DEF SpecialMethods
<1> QED
  BY <1>1, <1>2, <1>3, <1>4, <1>5, <1>6, <1>7, <1>8, <1>9, <1>10, <1>11

\* Two different options of a group are both of it.
LEMMA TwoAreBoth ==
    ASSUME NEW group, IsFiniteSet(group), NEW x \in group, NEW y \in group, x # y,
           x \in on, y \in on
    PROVE  Both(on, group)
<1>1. IsFiniteSet(on \cap group)
  BY FS_Intersection
<1>2. Cardinality({x} \cup {y}) = 2 /\ IsFiniteSet({x} \cup {y})
  <2>1. IsFiniteSet({x}) /\ Cardinality({x}) = 1
    BY FS_Singleton
  <2>2. y \notin {x}
    OBVIOUS
  <2>3. Cardinality({x} \cup {y}) = Cardinality({x}) + 1 /\ IsFiniteSet({x} \cup {y})
    BY <2>1, <2>2, FS_AddElement
  <2> QED
    BY <2>1, <2>3
<1>3. {x} \cup {y} \subseteq on \cap group
  OBVIOUS
<1>4. Cardinality({x} \cup {y}) <= Cardinality(on \cap group) /\ Cardinality(on \cap group) \in Nat
  BY <1>1, <1>3, FS_Subset, FS_CardinalityType
<1> QED
  BY <1>2, <1>4 DEF Both

LEMMA GroupsAreFinite ==
    IsFiniteSet(PullTargets) /\ IsFiniteSet({"list", "create", "delete", "merge"})
<1>1. \A a : IsFiniteSet({a})
  BY FS_Singleton
<1>2. \A a, b : IsFiniteSet({a} \cup {b})
  BY <1>1, FS_Union
<1>3. {"list", "create", "delete", "merge"} =
          ({"list"} \cup {"create"}) \cup ({"delete"} \cup {"merge"})
  OBVIOUS
<1>4. PullTargets = ({"head"} \cup {"snapshot"}) \cup {"empty_snapshot"}
  BY DEF PullTargets
<1>5. /\ IsFiniteSet(({"list"} \cup {"create"}) \cup ({"delete"} \cup {"merge"}))
      /\ IsFiniteSet(({"head"} \cup {"snapshot"}) \cup {"empty_snapshot"})
  BY <1>1, <1>2, FS_Union
<1> QED
  BY <1>2, <1>3, <1>4, <1>5

\* ... and those that are sent on one of two paths, or whose fields depend on
\* the options.
LEMMA ChosenFaithful ==
    ASSUME OnOptions, Accepted,
           command \in {"repo clone", "diff", "clone", "snapshot", "pull", "forall"}
                       \cup StashCommands \cup FamilyCommands
    PROVE  Faithful(Wanted)
<1> USE DEF Called, Streamed
<1>1. CASE command = "repo clone"
  <2>1. PICK via : Wanted = Sent(via, "clone_repo_member", Keys(on), on \cap RepoOptions.clone)
    <3>1. Wanted = HandleRepo(command, on)
      BY <1>1, HandlerOf DEF Wanted, RepoCommands
    <3>2. Wanted = HandleRepoClone(on)
      BY <1>1, <3>1 DEF HandleRepo
    <3> QED
      BY <3>2 DEF HandleRepoClone, CloneRepoMember, CloneRepoMemberStream
  <2>2. "remote" \notin (on \cap RepoOptions.clone)
    BY DEF RepoOptions, DesignationOptions
  <2>3. Own \subseteq on \cap RepoOptions.clone
    BY <1>1 DEF Own, CommandOptionsOf
  <2> QED
    BY <1>1, <2>1, <2>2, <2>3, PlainKeys DEF SpecialMethods
<1>2. CASE command = "diff"
  <2> DEFINE fields == (on \cap DiffOptions)
                       \ ({"exit_code", "no_pager"}
                          \cup (IF "quiet" \in on THEN FormatOptions ELSE {}))
  <2>1. Wanted = Sent("call", "diff", Keys(on), fields)
    <3>1. Wanted = HandleDiff(on)
      BY <1>2, HandlerOf DEF Wanted
    <3> QED
      BY <3>1 DEF HandleDiff, Diff
  <2>2. "remote" \notin fields
    BY DEF DiffOptions, FormatOptions, WhitespaceOptions
  <2>3. Own \subseteq fields
    BY <1>2 DEF Own, CommandOptionsOf, Consumed, Overridden
  <2> QED
    BY <1>2, <2>1, <2>2, <2>3, PlainKeys DEF SpecialMethods
<1>3. CASE command = "clone"
  <2>1. PICK via : Wanted = Sent(via, "clone_workspace", Keys(on), on \cap {"directory"})
    <3>1. Wanted = HandleClone(on)
      BY <1>3, HandlerOf DEF Wanted
    <3>2. CASE Machine(on)
      BY <3>1, <3>2 DEF HandleClone, CloneWorkspace
    <3>3. CASE ~Machine(on)
      BY <3>1, <3>3 DEF HandleClone, CloneWorkspaceStream
    <3> QED
      BY <3>2, <3>3
  <2>2. "remote" \notin (on \cap {"directory"})
    OBVIOUS
  <2>3. Own \subseteq on \cap {"directory"}
    BY <1>3 DEF Own, CommandOptionsOf, Consumed, CloneOptions, EmptyValues
  <2> QED
    BY <1>3, <2>1, <2>2, <2>3, PlainKeys DEF SpecialMethods
<1>4. CASE command = "snapshot"
  <2>1. CASE ListsSnapshots(on)
    <3>1. Wanted = Sent("call", "list_snapshots", Keys(on), {})
      BY <1>4, <2>1, HandlerOf DEF Wanted, HandleSnapshot, ListSnapshots
    <3>2. "branch" \notin on
      BY <1>4, <2>1 DEF Accepted, HandlerRefuses, SnapshotRefused
    <3>3. Own \subseteq {}
      BY <1>4, <2>1, <3>2 DEF Own, CommandOptionsOf, SnapshotOptions, Overridden, ListsSnapshots
    <3> QED
      BY <1>4, <3>1, <3>3, PlainKeys DEF SpecialMethods
  <2>2. CASE ~ListsSnapshots(on)
    <3>1. Wanted = Sent("call", "snapshot", Keys(on), on \cap {"name", "branch"})
      BY <1>4, <2>2, HandlerOf DEF Wanted, HandleSnapshot, Snapshot
    <3>2. "remote" \notin (on \cap {"name", "branch"})
      OBVIOUS
    <3>3. Own \subseteq on \cap {"name", "branch"}
      BY <1>4, <2>2 DEF Own, CommandOptionsOf, SnapshotOptions, ListsSnapshots
    <3> QED
      BY <1>4, <3>1, <3>2, <3>3, PlainKeys DEF SpecialMethods
  <2> QED
    BY <2>1, <2>2
<1>5. CASE command = "pull"
  <2>0. Wanted = HandlePull(on)
    BY <1>5, HandlerOf DEF Wanted
  <2>1. ~("head" \in on /\ "snapshot" \in on)
    BY <1>5, TwoAreBoth, GroupsAreFinite
       DEF Accepted, ParserRefuses, ExclusiveGroups, PullTargets
  <2>2. CASE "snapshot" \in on
    <3>1. Wanted = Sent("call", "pull_snapshot", Keys(on), {"snapshot"})
      BY <2>0, <2>2 DEF HandlePull, PullSnapshot
    <3>2. Own \subseteq {"snapshot"}
      BY <1>5, <2>1, <2>2 DEF Own, CommandOptionsOf, PullTargets, EmptyValues
    <3> QED
      BY <1>5, <3>1, <3>2, PlainKeys DEF SpecialMethods
  <2>3. CASE "snapshot" \notin on
    <3>1. Wanted = Sent("call", "pull_head", Keys(on), on \cap {"head"})
      BY <2>0, <2>3 DEF HandlePull, PullHead
    <3>2. Own \subseteq on \cap {"head"} /\ "remote" \notin (on \cap {"head"})
      BY <1>5, <2>3 DEF Own, CommandOptionsOf, PullTargets, EmptyValues
    <3> QED
      BY <1>5, <3>1, <3>2, PlainKeys DEF SpecialMethods
  <2> QED
    BY <2>2, <2>3
<1>6. CASE command = "forall"
  <2>1. PICK named : named \subseteq {"targets"} /\
                     Wanted = Sent("call", "resolve_forall_targets", Keys(on) \cup named, {})
    BY <1>6, HandlerOf DEF Wanted, HandleForall, ResolveForallTargets
  <2>2. Own \subseteq {}
    BY <1>6 DEF Own, CommandOptionsOf, Consumed
  <2>3. /\ "remote" \in on => "remote" \in Keys(on)
        /\ "root" \in on => "root" \in Keys(on)
    BY DEF Keys, MetaKwargs, PolicyOptions
  <2> QED
    BY <1>6, <2>1, <2>2, <2>3, PlainRequest DEF SpecialMethods
<1>7. CASE command \in StashCommands
  <2>1. Wanted = Sent("call", "stash", Keys(on), on \cap CommandOptionsOf(command))
    BY <1>7, HandlerOf DEF Wanted, HandleStash, Stash
  <2>2. "remote" \notin CommandOptionsOf(command)
    BY <1>7 DEF StashCommands, CommandOptionsOf, StashOptions
  <2>3. Own \subseteq on \cap CommandOptionsOf(command) /\ command # "merge"
    BY <1>7 DEF Own, StashCommands
  <2> QED
    BY <2>1, <2>2, <2>3, PlainKeys DEF SpecialMethods
<1>8. CASE command \in FamilyCommands
  <2>1. PICK method, fields :
            /\ Wanted = Sent("call", method, Keys(on), fields)
            /\ method \in {"clone_local_workspace", "local_family"}
            /\ fields = on \cap CommandOptionsOf(command)
    <3>1. CASE command = "local clone"
      <4>1. CommandOptionsOf(command) = LocalCloneOptions
        BY <3>1 DEF CommandOptionsOf
      <4> QED
        BY <1>8, <3>1, <4>1, HandlerOf DEF Wanted, HandleLocal, HandleLocalClone,
           CloneLocalWorkspace
    <3>2. CASE command # "local clone"
      BY <1>8, <3>2, HandlerOf DEF Wanted, HandleLocal, LocalFamily
    <3> QED
      BY <3>1, <3>2
  <2>2. "remote" \notin CommandOptionsOf(command)
    BY <1>8 DEF FamilyCommands, CommandOptionsOf, LocalCloneOptions, DisposeOptions
  <2>3. Own \subseteq on \cap CommandOptionsOf(command) /\ command # "merge"
    BY <1>8 DEF Own, FamilyCommands
  <2> QED
    BY <2>1, <2>2, <2>3, PlainKeys DEF SpecialMethods
<1> QED
  BY <1>1, <1>2, <1>3, <1>4, <1>5, <1>6, <1>7, <1>8

\* A tag or a push has its remote as a field; `init` has no root beside a path
\* or sources.
LEMMA RemoteFaithful ==
    ASSUME OnOptions, Accepted, command \in {"tag", "push", "init"}
    PROVE  Faithful(Wanted)
<1> USE DEF Called
<1>1. CASE command \in {"tag", "push"}
  <2>1. PICK method, options :
            /\ Wanted = Sent("call", method, Keys(on) \ {"remote"},
                             (on \cap options) \cup (on \cap {"remote"}))
            /\ method \in {"tag", "push"}
            /\ options = CommandOptionsOf(command)
    <3>1. CASE command = "tag"
      <4>1. CommandOptionsOf(command) = TagOptions
        BY <3>1 DEF CommandOptionsOf
      <4> QED
        BY <3>1, <4>1, HandlerOf DEF Wanted, HandleTag, Tag, RemoteField
    <3>2. CASE command = "push"
      <4>1. CommandOptionsOf(command) = PushOptions
        BY <3>2 DEF CommandOptionsOf
      <4> QED
        BY <3>2, <4>1, HandlerOf DEF Wanted, HandlePush, Push, RemoteField
    <3> QED
      BY <1>1, <3>1, <3>2
  <2> DEFINE fields == (on \cap options) \cup (on \cap {"remote"})
             keys == Keys(on) \ {"remote"}
  <2>2. /\ Own \subseteq fields
        /\ Keys(on) \ {"remote", "root"} \subseteq keys
        /\ "remote" \in on => "remote" \in fields
        /\ "remote" \notin keys
    BY <2>1 DEF Own
  <2>3. "root" \in on => "root" \in keys
    BY DEF Keys
  <2>4. method \notin SpecialMethods /\ command # "merge"
    BY <1>1, <2>1 DEF SpecialMethods
  <2> HIDE DEF fields, keys
  <2>5. Faithful(Sent("call", method, keys, fields))
    BY <2>2, <2>3, <2>4, PlainRequest
  <2> QED
    BY <2>1, <2>5 DEF fields, keys
<1>2. CASE command = "init"
  <2>0. Wanted = HandleInit(on)
    BY <1>2, HandlerOf DEF Wanted
  <2>1. /\ "remote" \in on => "remote" \in Keys(on)
        /\ "root" \in on => "root" \in Keys(on)
    BY DEF Keys, MetaKwargs, PolicyOptions
  <2>2. Own \subseteq {"urls", "path"} /\ Own \subseteq on
    BY <1>2 DEF Own, CommandOptionsOf, InitOptions
  <2>3. CASE "urls" \in on
    <3> DEFINE keys == (Keys(on) \cup (on \cap {"path"})) \ {"root"}
    <3>1. Wanted = Sent("call", "init_from_sources", keys, {"urls"})
      BY <2>0, <2>3 DEF HandleInit, InitFromSources
    <3>2. "root" \in Overridden
      BY <1>2, <2>3 DEF Overridden
    <3>3. /\ Own \subseteq {"urls"} \cup (keys \cap {"path"})
          /\ Keys(on) \ {"remote", "root"} \subseteq keys
          /\ "remote" \in on => "remote" \in keys
      BY <2>1, <2>2
    <3> HIDE DEF keys
    <3> QED
      BY <1>2, <3>1, <3>2, <3>3, PlainRequest DEF SpecialMethods
  <2>4. CASE "urls" \notin on
    <3> DEFINE all == Keys(on) \cup (on \cap {"path"})
               keys == IF "path" \in all THEN all \ {"root"} ELSE all
    <3>1. Wanted = Sent("call", "create_workspace", keys, {})
      <4>1. Wanted = CreateWorkspace(all, {})
        BY <2>0, <2>4 DEF HandleInit
      <4> HIDE DEF all
      <4> QED
        BY <4>1 DEF CreateWorkspace
    <3>2. "path" \in all => "path" \in on
      BY DEF Keys, MetaKwargs, SelectionOptions, PolicyOptions, IdentityOptions
    <3>3. "root" \in on => "root" \in keys \cup Overridden
      BY <1>2, <2>1, <3>2 DEF Overridden
    <3>4. /\ Own \subseteq keys \cap {"path"}
          /\ Keys(on) \ {"remote", "root"} \subseteq keys
          /\ "remote" \in on => "remote" \in keys
      BY <2>1, <2>2, <2>4
    <3> HIDE DEF all, keys
    <3> QED
      BY <1>2, <3>1, <3>3, <3>4, PlainRequest DEF SpecialMethods
  <2> QED
    BY <2>3, <2>4
<1> QED
  BY <1>1, <1>2

\* The options of the command line name no operand.
LEMMA NoOperand ==
    ASSUME OnOptions, on \cap SelectionOptions = {}, NEW method, NEW fields
    PROVE  Sent("call", method, Keys(on) \cup {"operand"}, fields).meta.selection = {"operand"}
  BY DEF Sent, RequestMeta, Keys, MetaKwargs, SelectionOptions

\* The requests of one repository select their operand and nothing else.
LEMMA OperandFaithful ==
    ASSUME OnOptions, Accepted, command \in {"repo detach", "repo attach", "repo sync"}
    PROVE  Faithful(Wanted)
<1> USE DEF Called
<1>1. /\ "remote" \in on => "remote" \in Keys(on)
      /\ "root" \in on => "root" \in Keys(on)
  BY DEF Keys, MetaKwargs, PolicyOptions
<1>2. SUFFICES \E keys, method, fields :
          /\ Wanted = Sent("call", method, keys, fields)
          /\ method # "merge"
          /\ Keys(on) \subseteq keys
          /\ "remote" \notin fields
          /\ Own \subseteq fields
          /\ \/ method \in {"detach_repo_member", "attach_repo_member"}
             \/ method = "repo_sync" /\ fields \cap SyncOperands # {}
             => Wanted.meta.selection = {"operand"}
  <2>1. PICK keys, method, fields :
          /\ Wanted = Sent("call", method, keys, fields)
          /\ method # "merge"
          /\ Keys(on) \subseteq keys
          /\ "remote" \notin fields
          /\ Own \subseteq fields
          /\ \/ method \in {"detach_repo_member", "attach_repo_member"}
             \/ method = "repo_sync" /\ fields \cap SyncOperands # {}
             => Wanted.meta.selection = {"operand"}
    BY <1>2
  <2>2. on \ (Consumed \cup Overridden \cup EmptyValues) \subseteq Carried(Wanted)
    BY <1>1, <2>1, NothingDropped DEF Own, Accepted
  <2>3. Wanted.method = method /\ Wanted.fields = fields
    BY <2>1 DEF Sent
  <2>4. "dry_run" \in on => Wanted.meta.dry_run
    BY <2>1 DEF Sent, RequestMeta, Keys, MetaKwargs
  <2> QED
    BY <2>1, <2>2, <2>3, <2>4 DEF Faithful
<1>3. CASE command \in {"repo detach", "repo attach"}
  <2>1. PICK method : /\ Wanted = Sent("call", method, Keys(on) \cup {"operand"}, {})
                      /\ method \in {"detach_repo_member", "attach_repo_member"}
    BY <1>3, HandlerOf DEF Wanted, HandleRepo, RepoCommands, DetachRepoMember,
       AttachRepoMember, SingleRepo
  <2>2. "bad_member_id" \notin on \/ command = "repo detach"
    BY <1>3 DEF Accepted, HandlerRefuses, RepoRefused
  <2>3. on \cap SelectionOptions = {}
    BY <1>3 DEF Accepted, HandlerRefuses, RepoRefused, RepoOperandRefused, MetaKwargs
  <2>4. Own \subseteq {}
    BY <1>3, <2>2 DEF Own, CommandOptionsOf, RepoOptions
  <2>5. Wanted.meta.selection = {"operand"}
    BY <2>1, <2>3, NoOperand
  <2> QED
    BY <2>1, <2>4, <2>5
<1>4. CASE command = "repo sync"
  <2> DEFINE fields == on \cap RepoOptions.sync
             keys == Keys(on) \cup (IF fields \cap SyncOperands # {} THEN {"operand"} ELSE {})
  <2>1. Wanted = Sent("call", "repo_sync", keys, fields)
    <3>1. Wanted = HandleRepo(command, on)
      BY <1>4, HandlerOf DEF Wanted, RepoCommands
    <3> QED
      BY <1>4, <3>1 DEF HandleRepo, RepoSync
  <2>2. "remote" \notin fields
    BY DEF RepoOptions
  <2>3. Own \subseteq fields
    BY <1>4 DEF Own, CommandOptionsOf
  <2>4. fields \cap SyncOperands # {} => on \cap SelectionOptions = {}
    <3>1. ~RepoSyncRefuses(Keys(on), on)
      BY <1>4 DEF Accepted, ClientRefuses
    <3>2. on \cap SelectionOptions \subseteq Keys(on)
      BY DEF Keys, MetaKwargs
    <3> QED
      BY <3>1, <3>2 DEF RepoSyncRefuses
  <2>5. fields \cap SyncOperands # {} => Wanted.meta.selection = {"operand"}
    BY <2>1, <2>4, NoOperand
  <2>6. Keys(on) \subseteq keys
    OBVIOUS
  <2> HIDE DEF fields, keys
  <2> WITNESS keys, "repo_sync", fields
  <2> QED
    BY <2>1, <2>2, <2>3, <2>5, <2>6
<1> QED
  BY <1>3, <1>4

\* A merge's policy is what the caller chose, and the rest of its request that of
\* any other.
LEMMA MergeCarries ==
    ASSUME OnOptions, NEW via, NEW keys \in SUBSET Keys(on), NEW fields
    PROVE  LET m == MergeRequest(via, keys, fields)
               r == Sent(via, "merge", keys, fields)
           IN  /\ m.method = "merge" /\ m.fields = fields
               /\ m.meta.policy = keys \cap PolicyOptions
               /\ m.meta.policy \subseteq on
               /\ m.meta.dry_run = ("dry_run" \in keys)
               /\ Carried(r) \subseteq Carried(m) \cup {"default_interval"}
<1> DEFINE m == MergeRequest(via, keys, fields)
           r == Sent(via, "merge", keys, fields)
<1>1. /\ m.method = "merge" /\ m.fields = fields /\ r.fields = fields
      /\ m.meta.policy = r.meta.policy \ {"default_interval"}
      /\ m.meta.selection = r.meta.selection /\ m.meta.transport = r.meta.transport
      /\ m.meta.root = r.meta.root /\ m.meta.dry_run = r.meta.dry_run
  BY DEF MergeRequest, MergePolicy, Sent, RequestMeta
<1>2. /\ r.meta.policy = (keys \cap PolicyOptions)
                         \cup (IF "progress_min_interval_ms" \in keys THEN {}
                               ELSE {"default_interval"})
      /\ r.meta.dry_run = ("dry_run" \in keys)
  BY DEF Sent, RequestMeta
<1>3. "default_interval" \notin PolicyOptions
  BY DEF PolicyOptions
<1>4. keys \cap PolicyOptions \subseteq on
  BY DEF Keys, MetaKwargs, SelectionOptions, PolicyOptions, IdentityOptions
<1> HIDE DEF m, r
<1>5. /\ m.method = "merge" /\ m.fields = fields
      /\ m.meta.policy = keys \cap PolicyOptions
      /\ m.meta.policy \subseteq on
      /\ m.meta.dry_run = ("dry_run" \in keys)
  BY <1>1, <1>2, <1>3, <1>4
<1>6. Carried(r) \subseteq Carried(m) \cup {"default_interval"}
  BY <1>1 DEF Carried
<1> QED
  BY <1>5, <1>6 DEF m, r

LEMMA MergeFaithful ==
    ASSUME OnOptions, Accepted, command \in {"merge", "branch"}
    PROVE  Faithful(Wanted)
<1>1. "default_interval" \notin on
  <2>1. "default_interval" \notin CommandOptionsOf(command)
    BY DEF CommandOptionsOf, MergeOptions, LifecycleOptions, BranchOptions
  <2>2. "default_interval" \notin GlobalOptions
    BY DEF GlobalOptions, SelectionOptions, PolicyOptions, IdentityOptions
  <2> QED
    BY <2>1, <2>2 DEF OnOptions
<1>2. /\ "remote" \in on => "remote" \in Keys(on)
      /\ "root" \in on => "root" \in Keys(on)
      /\ "dry_run" \in on => "dry_run" \in Keys(on)
  BY DEF Keys, MetaKwargs, PolicyOptions
<1>3. ASSUME NEW via, NEW keys \in SUBSET Keys(on), NEW fields,
             Wanted = MergeRequest(via, keys, fields),
             Keys(on) \ {"remote"} \subseteq keys,
             "remote" \in on => "remote" \in keys \cup fields,
             ~ ("remote" \in keys /\ "remote" \in fields),
             command = "merge" => "remote" \notin keys,
             Own \subseteq fields
      PROVE  Faithful(Wanted)
  <2> DEFINE r == Sent(via, "merge", keys, fields)
  <2>1. /\ Wanted.method = "merge" /\ Wanted.fields = fields
        /\ Wanted.meta.policy = keys \cap PolicyOptions
        /\ Wanted.meta.policy \subseteq on
        /\ Wanted.meta.dry_run = ("dry_run" \in keys)
        /\ Carried(r) \subseteq Carried(Wanted) \cup {"default_interval"}
    <3> DEFINE m == MergeRequest(via, keys, fields)
    <3>1. /\ m.method = "merge" /\ m.fields = fields
          /\ m.meta.policy = keys \cap PolicyOptions
          /\ m.meta.policy \subseteq on
          /\ m.meta.dry_run = ("dry_run" \in keys)
          /\ Carried(r) \subseteq Carried(m) \cup {"default_interval"}
      BY <1>3, MergeCarries
    <3> HIDE DEF r
    <3> QED
      BY <1>3, <3>1
  <2>2. on \ (Consumed \cup Overridden \cup EmptyValues) \subseteq Carried(r)
    BY <1>2, <1>3, NothingDropped DEF Own, Accepted
  <2>3. on \ (Consumed \cup Overridden \cup EmptyValues) \subseteq Carried(Wanted)
    BY <1>1, <2>1, <2>2
  <2>4. "dry_run" \in on => Wanted.meta.dry_run
    BY <1>2, <1>3, <2>1
  <2> QED
    BY <1>3, <2>1, <2>3, <2>4 DEF Faithful
<1>4. CASE command = "merge"
  <2> DEFINE keys == Keys(on) \ {"remote"}
             fields == (on \cap MergeOptions) \cup (on \cap {"remote"})
  <2>1. PICK via : Wanted = MergeRequest(via, keys, fields)
    <3>1. Wanted = MergeIn(keys, fields, on)
      BY <1>4, HandlerOf DEF Wanted, WrapMerge, HandleMerge, RemoteField
    <3> HIDE DEF keys, fields
    <3>2. CASE "json" \in on
      BY <3>1, <3>2 DEF MergeIn, Merge
    <3>3. CASE "json" \notin on
      BY <3>1, <3>3 DEF MergeIn, MergeStream
    <3> QED
      BY <3>2, <3>3
  <2>2. Own \subseteq fields
    BY <1>4 DEF Own, CommandOptionsOf
  <2>3. /\ keys \in SUBSET Keys(on)
        /\ Keys(on) \ {"remote"} \subseteq keys
        /\ "remote" \in on => "remote" \in keys \cup fields
        /\ "remote" \notin keys
    OBVIOUS
  <2> HIDE DEF keys, fields
  <2> QED
    BY <1>3, <2>1, <2>2, <2>3
<1>5. CASE command = "branch"
  <2>0. Wanted = HandleBranch(on)
    BY <1>5, HandlerOf DEF Wanted
  <2>1. "remote" \notin BranchOptions
    BY DEF BranchOptions
  <2>2. CASE "merge" \in on
    <3>1. Wanted = MergeRequest("call", Keys(on), {"merge"})
      BY <2>0, <2>2 DEF HandleBranch, Merge
    <3>2. ~BranchRefused(on)
      BY <1>5 DEF Accepted, HandlerRefuses
    <3>3. \A x \in {"list", "create", "delete"} : x \notin on
      <4>1. ~Both(on, {"list", "create", "delete", "merge"})
        BY <3>2 DEF BranchRefused
      <4> QED
        BY <2>2, <4>1, TwoAreBoth, GroupsAreFinite
    <3>4. \A x \in {"switch", "start_ref", "empty_start_ref"} : x \notin on
      BY <3>2, <3>3 DEF BranchRefused
    <3>5. Own \subseteq {"merge"}
      BY <1>5, <3>3, <3>4 DEF Own, CommandOptionsOf, BranchOptions
    <3> QED
      BY <1>2, <1>3, <1>5, <3>1, <3>5
  <2>3. CASE "merge" \notin on
    <3>1. Wanted = Sent("call", "branch", Keys(on), on \cap (BranchOptions \ EmptyValues))
      BY <2>0, <2>3 DEF HandleBranch, Branch, Called
    <3>2. Own \subseteq on \cap (BranchOptions \ EmptyValues)
      BY <1>5 DEF Own, CommandOptionsOf
    <3> QED
      BY <1>5, <2>1, <3>1, <3>2, PlainKeys DEF SpecialMethods
  <2> QED
    BY <2>2, <2>3
<1> QED
  BY <1>4, <1>5

\* Every request that a command line can reach is faithful to it.
LEMMA WantedIsFaithful ==
    ASSUME OnOptions, Accepted, command \in Commands
    PROVE  Faithful(Wanted)
  BY PlainFaithful, ChosenFaithful, RemoteFaithful, OperandFaithful, MergeFaithful
     DEF Commands, ReadCommands, RepoCommands, MutationCommands, StashCommands,
         LocalCommands, FamilyCommands

\* What the handlers read of the options is the same without the empty values.
LEMMA EmptyIgnored ==
    ASSUME command \in Commands
    PROVE  HandlerRequest(command, on) = HandlerRequest(command, on \ EmptyValues)
<1> DEFINE o == on \ EmptyValues
<1>0. SUFFICES HandlerRequest(command, on) = HandlerRequest(command, o)
  OBVIOUS
<1>1. /\ \A x : x \notin EmptyValues => (x \in o <=> x \in on)
      /\ \A S : o \cap (S \ EmptyValues) = on \cap (S \ EmptyValues)
      /\ \A S : S \cap EmptyValues = {} => o \cap S = on \cap S
  OBVIOUS
<1> HIDE DEF o
<1>2. /\ Keys(o) = Keys(on) /\ (Machine(o) <=> Machine(on))
      /\ RemoteField(o) = RemoteField(on)
  <2>1. MetaKwargs(o) = MetaKwargs(on)
    BY <1>1 DEF MetaKwargs, RequestedUrlScheme, EmptyValues, SelectionOptions, PolicyOptions,
       IdentityOptions
  <2> QED
    BY <1>1, <2>1 DEF Keys, Machine, RemoteField, EmptyValues
<1>3. CASE command \in {"auth identity", "status", "ls", "init"}
  <2>1. /\ o \cap AuthOptions = on \cap AuthOptions
        /\ o \cap (StatusOptions \ {"porcelain"}) = on \cap (StatusOptions \ {"porcelain"})
        /\ o \cap (LsOptions \ {"local"}) = on \cap (LsOptions \ {"local"})
        /\ o \cap {"path"} = on \cap {"path"} /\ ("urls" \in o <=> "urls" \in on)
    BY <1>1 DEF EmptyValues, AuthOptions, StatusOptions, LsOptions
  <2>2. HandleInit(o) = HandleInit(on)
    BY <1>2, <2>1 DEF HandleInit
  <2>3. CASE command = "auth identity"
    <3>1. \A q : HandlerRequest(command, q) = RemoteIdentity(Keys(q), q \cap AuthOptions)
      BY <2>3, HandlerOf, Zenon
    <3> QED
      BY <1>2, <2>1, <3>1, Zenon
  <2>4. CASE command = "status"
    <3>1. \A q : HandlerRequest(command, q) =
                    Status(Keys(q), q \cap (StatusOptions \ {"porcelain"}))
      BY <2>4, HandlerOf, Zenon
    <3> QED
      BY <1>2, <2>1, <3>1, Zenon
  <2>5. CASE command = "ls"
    <3>1. \A q : HandlerRequest(command, q) = Ls(Keys(q), q \cap (LsOptions \ {"local"}))
      BY <2>5, HandlerOf, Zenon
    <3> QED
      BY <1>2, <2>1, <3>1, Zenon
  <2>6. CASE command = "init"
    <3>1. \A q : HandlerRequest(command, q) = HandleInit(q)
      BY <2>6, HandlerOf, Zenon
    <3> QED
      BY <2>2, <3>1, Zenon
  <2> QED
    BY <1>3, <2>3, <2>4, <2>5, <2>6, Zenon
<1>4. CASE command \in RepoCommands
  <2>1. \A c : HandleRepo(c, o) = HandleRepo(c, on)
    <3>1. /\ o \cap RepoOptions.add = on \cap RepoOptions.add
          /\ o \cap RepoOptions.clone = on \cap RepoOptions.clone
          /\ o \cap RepoOptions.create = on \cap RepoOptions.create
          /\ o \cap RepoOptions.sync = on \cap RepoOptions.sync
      BY <1>1 DEF EmptyValues, RepoOptions, DesignationOptions
    <3>2. "dry_run" \in o <=> "dry_run" \in on
      BY <1>1 DEF EmptyValues
    <3> QED
      BY <1>2, <3>1, <3>2 DEF HandleRepo, HandleRepoClone
  <2>2. \A q : HandlerRequest(command, q) = HandleRepo(command, q)
    BY <1>4, HandlerOf, Zenon
  <2> QED
    BY <2>1, <2>2, Zenon
<1>5. CASE command \in {"diff", "log"}
  <2>1. /\ o \cap DiffOptions = on \cap DiffOptions
        /\ o \cap (LogOptions \ {"full", "color"}) = on \cap (LogOptions \ {"full", "color"})
        /\ "quiet" \in o <=> "quiet" \in on
    BY <1>1 DEF EmptyValues, DiffOptions, FormatOptions, WhitespaceOptions, LogOptions
  <2>2. HandleDiff(o) = HandleDiff(on) /\ HandleLog(o) = HandleLog(on)
    BY <1>2, <2>1 DEF HandleDiff, HandleLog
  <2>3. \A q : /\ command = "diff" => HandlerRequest(command, q) = HandleDiff(q)
               /\ command = "log" => HandlerRequest(command, q) = HandleLog(q)
    BY HandlerOf, Zenon
  <2> QED
    BY <1>5, <2>2, <2>3, Zenon
<1>6. CASE command \in MutationCommands \cup {"branch"}
  <2>1. /\ o \cap (MaterializeTargets \ EmptyValues) = on \cap (MaterializeTargets \ EmptyValues)
        /\ o \cap (BranchOptions \ EmptyValues) = on \cap (BranchOptions \ EmptyValues)
    BY <1>1
  <2>2. /\ o \cap {"name", "branch"} = on \cap {"name", "branch"}
        /\ o \cap TagOptions = on \cap TagOptions
        /\ o \cap PushOptions = on \cap PushOptions
        /\ o \cap StageOptions = on \cap StageOptions
        /\ o \cap CommitOptions = on \cap CommitOptions
        /\ o \cap {"head"} = on \cap {"head"}
    BY <1>1 DEF EmptyValues, TagOptions, TagActions, PushOptions, StageOptions, CommitOptions
  <2>3. /\ "list" \in o <=> "list" \in on
        /\ "name" \in o <=> "name" \in on
        /\ "snapshot" \in o <=> "snapshot" \in on
        /\ "merge" \in o <=> "merge" \in on
    BY <1>1 DEF EmptyValues
  <2>4. /\ HandleMaterialize(o) = HandleMaterialize(on) /\ HandleBranch(o) = HandleBranch(on)
        /\ HandleTag(o) = HandleTag(on) /\ HandlePush(o) = HandlePush(on)
        /\ HandleStage(o) = HandleStage(on) /\ HandleCommit(o) = HandleCommit(on)
        /\ HandlePull(o) = HandlePull(on) /\ HandleSnapshot(o) = HandleSnapshot(on)
    BY <1>2, <2>1, <2>2, <2>3 DEF HandleMaterialize, HandleBranch, HandleTag, HandlePush,
       HandleStage, HandleCommit, HandlePull, HandleSnapshot, ListsSnapshots
  <2>5. \A q : /\ command = "materialize" => HandlerRequest(command, q) = HandleMaterialize(q)
               /\ command = "branch" => HandlerRequest(command, q) = HandleBranch(q)
               /\ command = "tag" => HandlerRequest(command, q) = HandleTag(q)
               /\ command = "push" => HandlerRequest(command, q) = HandlePush(q)
               /\ command = "add" => HandlerRequest(command, q) = HandleStage(q)
               /\ command = "commit" => HandlerRequest(command, q) = HandleCommit(q)
               /\ command = "pull" => HandlerRequest(command, q) = HandlePull(q)
               /\ command = "snapshot" => HandlerRequest(command, q) = HandleSnapshot(q)
               /\ command = "capture" => HandlerRequest(command, q) = Capture(Keys(q))
               /\ command = "fetch" => HandlerRequest(command, q) = Fetch(Keys(q))
    BY HandlerOf, Zenon
  <2> QED
    BY <1>2, <1>6, <2>4, <2>5, Zenon DEF MutationCommands
<1>7. CASE command \in StashCommands
  <2>1. o \cap CommandOptionsOf(command) = on \cap CommandOptionsOf(command)
    <3>1. /\ o \cap StashOptions.push = on \cap StashOptions.push
          /\ o \cap StashOptions.list = on \cap StashOptions.list
          /\ o \cap StashOptions.apply = on \cap StashOptions.apply
          /\ o \cap {} = on \cap {}
      BY <1>1 DEF EmptyValues, StashOptions
    <3>2. CommandOptionsOf(command) \in {StashOptions.push, StashOptions.list,
                                         StashOptions.apply, {}}
      BY <1>7, Zenon DEF StashCommands, CommandOptionsOf
    <3> QED
      BY <3>1, <3>2, Zenon
  <2>2. HandleStash(command, o) = HandleStash(command, on)
    BY <1>2, <2>1 DEF HandleStash
  <2>3. \A q : HandlerRequest(command, q) = HandleStash(command, q)
    BY <1>7, HandlerOf, Zenon
  <2> QED
    BY <2>2, <2>3, Zenon
<1>8. CASE command = "merge"
  <2>1. o \cap MergeOptions = on \cap MergeOptions /\ ("json" \in o <=> "json" \in on)
    BY <1>1 DEF EmptyValues, MergeOptions, LifecycleOptions
  <2>2. WrapMerge(o) = WrapMerge(on)
    BY <1>2, <2>1 DEF WrapMerge, HandleMerge, MergeIn
  <2>3. \A q : HandlerRequest(command, q) = WrapMerge(q)
    BY <1>8, HandlerOf, Zenon
  <2> QED
    BY <2>2, <2>3, Zenon
<1>9. CASE command \in LocalCommands
  <2>1. /\ o \cap {"directory"} = on \cap {"directory"}
        /\ \A x \in {"projects", "token_c", "command_string", "separator"} :
              x \in o <=> x \in on
    BY <1>1 DEF EmptyValues
  <2>2. NamesProjects(o) <=> NamesProjects(on)
    BY <2>1 DEF NamesProjects
  <2>3. HandleForall(o) = HandleForall(on) /\ HandleClone(o) = HandleClone(on)
    BY <1>2, <2>1, <2>2 DEF HandleForall, HandleClone
  <2>4. \A q : /\ command = "forall" => HandlerRequest(command, q) = HandleForall(q)
               /\ command = "clone" => HandlerRequest(command, q) = HandleClone(q)
    BY HandlerOf, Zenon
  <2> QED
    BY <1>9, <2>3, <2>4, Zenon DEF LocalCommands
<1>10. CASE command \in FamilyCommands
  <2>1. /\ o \cap LocalCloneOptions = on \cap LocalCloneOptions
        /\ o \cap CommandOptionsOf(command) = on \cap CommandOptionsOf(command)
    BY <1>1, <1>10 DEF EmptyValues, FamilyCommands, CommandOptionsOf, LocalCloneOptions,
       DisposeOptions
  <2>2. HandleLocal(command, o) = HandleLocal(command, on)
    BY <1>2, <2>1 DEF HandleLocal, HandleLocalClone
  <2>3. \A q : HandlerRequest(command, q) = HandleLocal(command, q)
    BY <1>10, HandlerOf, Zenon
  <2> QED
    BY <2>2, <2>3, Zenon
<1> QED
  BY <1>3, <1>4, <1>5, <1>6, <1>7, <1>8, <1>9, <1>10 DEF Commands, ReadCommands

-----------------------------------------------------------------------------
(* The inductive invariant: what holds at each pc, part by part. *)

EarlyPcs == {"start", "validate", "open", "timeout", "handler", "capability", "request"}
OpenPcs == {"timeout", "handler", "capability", "request", "events", "response", "members",
            "manifest", "prefix", "records", "release", "suffix", "close"}

\* The command line that only the client refuses.
OnlyClientRefuses ==
    /\ command = "repo sync" /\ "empty_member_path" \in on
    /\ on \cap SelectionOptions # {}

\* The exceptions that are under way at a pc.
RaisedAt ==
    /\ pc \in EarlyPcs \cup {"events", "response", "members", "manifest", "prefix", "records",
                             "suffix", "respond"} => raised = "none"
    /\ pc = "release" => raised \in {"none", "interrupt"} \cup BridgeErrors
    /\ raised = "value" => OnlyClientRefuses

\* Where a command can be, and what has been checked of it.
CommandAt ==
    /\ pc \in {"events", "response"} => command \notin {"diff", "log"}
    /\ pc = "members" => command = "forall"
    /\ pc = "manifest" => command = "diff"
    /\ pc \in {"prefix", "suffix"} => command = "log"
    /\ pc \in {"records", "release"} => command \in {"diff", "log"}
    /\ pc \in {"validate", "open", "timeout", "handler"} => ~ParserRefuses(command, on)
    /\ pc \in {"open", "timeout", "handler"} => ~ValidateArgsRefuses(command, on)

PathInv ==
    /\ client = "open" <=> pc \in OpenPcs
    /\ exit # Running <=> pc = "exit"
    /\ RaisedAt
    /\ CommandAt

\* What was asked, and in which order.
Asks == {Control("configure_transport_runtime"), Control("transport_capabilities"), Wanted}
OnlyControl == \A k \in DOMAIN sent : sent[k].via = "control"
TimeoutFirst ==
    \A k \in DOMAIN sent : k > 1 \/ sent[k].method = "configure_transport_runtime"
QuestionFirst ==
    \A k \in DOMAIN sent :
        WantsIdentity(sent[k]) /\ sent[k].via \notin {"merge_stream", "log"} =>
            \E j \in 1..(k - 1) : sent[j].method = "transport_capabilities"
QuestionAsked == \E j \in DOMAIN sent : sent[j].method = "transport_capabilities"

AskedInv ==
    /\ sent \in Seq(Asks)
    /\ pc \in EarlyPcs \/ raised \in {"usage", "value"} => OnlyControl
    /\ pc \in {"start", "validate", "open", "timeout"} => sent = << >>
    /\ "ssh_timeout" \in on =>
          /\ pc \in {"handler", "capability", "request"} => sent # << >>
          /\ TimeoutFirst
    /\ pc = "request" /\ AsksCapability(Wanted) => QuestionAsked
    /\ QuestionFirst

Reads == command \in {"diff", "log"}
Unharmed == raised = "none" /\ stdout = "open"

\* What the exit status will say.
CodeInv ==
    /\ pc \in EarlyPcs \cup {"events", "response", "members", "manifest"} => code = NoCode
    /\ code = 0 => \/ answer.status \in SuccessStatuses \cup {"dirty"}
                   \/ OpensLog /\ stdout \in {"broken", "silenced"}
    /\ code = 2 => answer.status = "rejected"
    /\ pc \in {"manifest", "records", "release"} /\ command = "diff" =>
          answer.status \in SuccessStatuses
    /\ command = "log" /\ pc \in {"prefix", "records", "release", "suffix"} => code # NoCode
    /\ Reads /\ raised = "none" /\ pc \in {"release", "suffix", "close", "respond"} =>
          code # NoCode
    /\ ExitIsTrue

\* What was written, and what is held.
OutputInv ==
    /\ Reads /\ Unharmed /\ pc \in {"release", "suffix", "close", "respond", "exit"} =>
          left = 0 \/ missed
    /\ Reads /\ raised = "none" => stderr = "open"
    /\ OpensLog => ~missed
    /\ OpensLog /\ "json" \in on /\ Unharmed /\ pc \in {"close", "respond", "exit"} =>
          out # << >> /\ out[Len(out)] = "suffix"
    /\ spool = "lost" => raised = "interrupt"
    /\ spool = "held" =>
          \/ pc \in {"prefix", "records", "release"}
          \/ command = "diff" /\ (stdout # "open" \/ stderr # "open")

CommandInv == TypeOK /\ PathInv /\ AskedInv /\ CodeInv /\ OutputInv

\* The command line of a process, and so what it asks for, never changes.
LEMMA InvocationStays ==
    [Next]_vars => /\ UNCHANGED invocation /\ Wanted' = Wanted
                   /\ OnlyClientRefuses' <=> OnlyClientRefuses
<1>1. [Next]_vars => UNCHANGED invocation
  BY DEF Next, vars, invocation, Parse, Validate, Open, ConfigureTimeout, Handle, AskCapability,
     Call, Submit, Event, Result, WriteResponse, CallLog, RunMember, MembersRun, Manifest,
     Prefix, Record, Expired, EndOfRecords, Release, Suffix, Close, Respond, Report, Crash,
     Interrupt, Exited
<1>2. UNCHANGED invocation => (OnlyClientRefuses' <=> OnlyClientRefuses)
  BY DEF invocation, OnlyClientRefuses
<1> QED
  BY <1>1, <1>2, WantedStays

\* The paths of diff and log, whose answers are never rendered as they are.
LEMMA OutputCommands ==
    ASSUME command \in Commands
    PROVE  /\ Wanted.via \in {"call", "stream", "merge_stream", "log"}
           /\ Wanted.via = "log" <=> command = "log"
           /\ command = "diff" => Wanted.via = "call"
           /\ command \in {"diff", "log"} => ~Renderable
  BY RequestPaths DEF Wanted, Renderable

\* What the exit status of a result can be, and what it says of its answer.
LEMMA ExitCodes ==
    /\ \A status : /\ CliExitCode(status) \in {0, 1, 2} /\ LogExitCode(status) \in {0, 1, 2}
                   /\ CliExitCode(status) = 0 \/ LogExitCode(status) = 0 =>
                         status \in SuccessStatuses \cup {"dirty"}
                   /\ CliExitCode(status) = 2 \/ LogExitCode(status) = 2 => status = "rejected"
    /\ \A error : /\ ErrorExitCode(error) \in {1, 2} /\ LogErrorExitCode(error) \in {1, 2}
                  /\ ErrorExitCode(error) = 2 => error = "usage"
                  /\ LogErrorExitCode(error) = 2 => error \in {"usage", "request"}
    /\ DiffExitCode \in {0, 1}
  BY DEF CliExitCode, LogExitCode, ErrorExitCode, LogErrorExitCode, DiffExitCode, SuccessStatuses

Chunks == {"event", "document", "prefix", "record", "suffix", "error"}
Stdouts == {"open", "broken", "full", "silenced"}

\* What a write leaves of the standard streams, whether it succeeds or not.
LEMMA WriteTypes ==
    ASSUME TypeOK, NEW chunk \in Chunks,
           \/ Written(chunk) \/ UNCHANGED streams \/ ReaderGone \/ Told \/ TellFails
           \/ \E how \in FailedWrites : WriteFails(how)
    PROVE  out' \in Seq(Chunks) /\ stdout' \in Stdouts /\ stderr' \in {"open", "broken"}
<1> USE DEF Chunks, Stdouts, streams
<1>1. CASE Written(chunk)
  BY <1>1 DEF Written, TypeOK
<1>2. CASE \E how \in FailedWrites : WriteFails(how)
  BY <1>2 DEF WriteFails, FailedWrites, TypeOK
<1>3. CASE ReaderGone \/ Told \/ TellFails
  BY <1>3 DEF ReaderGone, Told, TellFails, TypeOK
<1>4. CASE UNCHANGED streams
  BY <1>4 DEF TypeOK
<1> QED
  BY <1>1, <1>2, <1>3, <1>4

\* Type correctness is inductive by itself.
LEMMA TypeStep ==
    ASSUME TypeOK, [Next]_vars
    PROVE  TypeOK'
<1> USE DEF TypeOK, Pcs, NoCode, Running, Reported, SuccessStatuses, streams, Told, TellFails,
        BridgeErrors, BridgeFailures, FlushFailed, Chunks, Stdouts
<1>0. UNCHANGED invocation
  BY InvocationStays
<1>1. CASE Parse
  BY <1>1, <1>0 DEF Parse, reading, invocation
<1>2. CASE Validate
  BY <1>2, <1>0 DEF Validate, reading, invocation
<1>3. CASE Open
  BY <1>3, <1>0 DEF Open, reading, invocation
<1>4. CASE ConfigureTimeout
  BY <1>4, <1>0 DEF ConfigureTimeout, Raise, reading, invocation
<1>5. CASE Handle
  BY <1>5, <1>0 DEF Handle, Raise, reading, invocation
<1>6. CASE AskCapability
  BY <1>6, <1>0 DEF AskCapability, Raise, reading, invocation
<1>7. CASE Call
  BY <1>7, <1>0
     DEF Call, Raise, RaiseForResponse, AfterCall, invocation, Answers, Statuses
<1>8. CASE Submit
  BY <1>8, <1>0 DEF Submit, Raise, invocation, Answers, Statuses
<1>9. CASE Event
  <2>1. <<TRUE>> \in Seq(BOOLEAN)
    OBVIOUS
  <2>2. ran' \in Seq(BOOLEAN)
    BY <1>9, <2>1 DEF Event
  <2>3. left' \in Nat
    <3>1. left \in Nat /\ left > 0 /\ (left' = left \/ left' = left - 1)
      BY <1>9 DEF Event
    <3> QED
      BY <3>1
  <2>4. out' \in Seq(Chunks) /\ stdout' \in Stdouts /\ stderr' \in {"open", "broken"}
    <3>1. \/ Written("event") \/ UNCHANGED streams \/ Told \/ TellFails
          \/ \E how \in FailedWrites : WriteFails(how)
      BY <1>9 DEF Event
    <3> QED
      BY <3>1, WriteTypes
  <2>5. /\ UNCHANGED <<client, answer, spool, missed, code, exit>>
        /\ pc' \in {pc, "close"} /\ raised' \in {raised, "write", "bridge"}
    BY <1>9 DEF Event, Raise
  <2> QED
    BY <1>0, <2>2, <2>3, <2>4, <2>5 DEF invocation
<1>10. CASE Result
  BY <1>10, <1>0
     DEF Result, Raise, RaiseForResponse, reading, invocation, Answers, Statuses
<1>11. CASE WriteResponse
  <2>1. out' \in Seq(Chunks) /\ stdout' \in Stdouts /\ stderr' \in {"open", "broken"}
    BY <1>11, WriteTypes DEF WriteResponse
  <2>2. /\ UNCHANGED <<client, answer, left, ran, spool, missed, exit>> /\ pc' = "close"
        /\ raised' \in {raised, "write"} /\ code' \in {code, CliExitCode(answer.status)}
    BY <1>11 DEF WriteResponse, Raise
  <2> QED
    BY <1>0, <2>1, <2>2, ExitCodes DEF invocation
<1>12. CASE CallLog
  BY <1>12, <1>0, ExitCodes
     DEF CallLog, Raise, BridgeErrors, invocation, Answers, Statuses
<1>13. CASE RunMember
  <2>1. ran' \in Seq(BOOLEAN)
    BY <1>13 DEF RunMember
  <2>2. left > 0 /\ left' \in {left, left - 1, 0}
    BY <1>13 DEF RunMember
  <2>3. left' \in Nat
    <3>1. left \in Nat
      OBVIOUS
    <3> QED
      BY <2>2, <3>1
  <2>4. /\ UNCHANGED <<client, answer, out, stdout, spool, missed, code, exit>>
        /\ stderr' \in {stderr, "broken"}
        /\ pc' \in {pc, "close"} /\ raised' \in {raised, "write"}
    BY <1>13 DEF RunMember, Raise
  <2> QED
    BY <1>0, <2>1, <2>3, <2>4 DEF invocation
<1>14. CASE MembersRun
  BY <1>14, <1>0 DEF MembersRun, reading, invocation, Answers, Statuses
<1>15. CASE Manifest
  <2>1. out' \in Seq(Chunks) /\ stdout' \in Stdouts /\ stderr' \in {"open", "broken"}
    BY <1>15, WriteTypes DEF Manifest
  <2>2. /\ UNCHANGED <<client, answer, ran, missed, exit>> /\ left' \in {left, 0}
        /\ pc' \in {"records", "close"} /\ spool' \in {spool, "held"}
        /\ raised' \in {raised, "write"} /\ code' \in {code, DiffExitCode}
    BY <1>15 DEF Manifest, Raise
  <2> QED
    BY <1>0, <2>1, <2>2, ExitCodes DEF invocation
<1>16. CASE Prefix
  BY <1>16, <1>0 DEF Prefix, Written, WriteFails, FailedWrites, ReaderGone, invocation
<1>17. CASE Record
  <2>1. out' \in Seq(Chunks) /\ stdout' \in Stdouts /\ stderr' \in {"open", "broken"}
    BY <1>17, WriteTypes
       DEF Record, ShowRecord, LogRecordFails, DiffRecordFails, FailedWrites
  <2>2. left > 0 /\ left' \in {left, left - 1}
    BY <1>17 DEF Record, ShowRecord, LogRecordFails, DiffRecordFails
  <2>3. left' \in Nat
    <3>1. left \in Nat
      OBVIOUS
    <3> QED
      BY <2>2, <3>1
  <2>4. /\ UNCHANGED <<client, answer, ran, spool, missed, exit>>
        /\ pc' \in {pc, "release", "close"} /\ raised' \in {raised, "write", "bridge"}
        /\ code' \in {code, 0}
    BY <1>17 DEF Record, ShowRecord, LogRecordFails, DiffRecordFails, Raise
  <2> QED
    BY <1>0, <2>1, <2>3, <2>4 DEF invocation
<1>18. CASE Expired \/ EndOfRecords
  <2>1. CASE Expired
    <3>1. left' \in Nat
      BY <2>1 DEF Expired
    <3> QED
      BY <1>0, <2>1, <3>1 DEF Expired, invocation
  <2>2. CASE EndOfRecords
    <3>1. code' \in {code, DiffExitCode} /\ missed' \in {missed, TRUE}
      BY <2>2 DEF EndOfRecords
    <3>2. /\ UNCHANGED <<client, answer, left, ran, out, stdout, stderr, spool, exit>>
          /\ pc' = "release" /\ raised' \in {raised} \cup BridgeErrors
      BY <2>2 DEF EndOfRecords
    <3>3. code' \in {0, 1, 2, NoCode}
      BY <3>1, ExitCodes
    <3>4. missed' \in BOOLEAN
      BY <3>1
    <3> QED
      BY <1>0, <3>2, <3>3, <3>4 DEF invocation
  <2> QED
    BY <1>18, <2>1, <2>2
<1>19. CASE Release
  BY <1>19, <1>0 DEF Release, invocation
<1>20. CASE Suffix
  <2>1. out' \in Seq(Chunks) /\ stdout' \in Stdouts /\ stderr' \in {"open", "broken"}
    BY <1>20, WriteTypes DEF Suffix, FailedWrites
  <2>2. /\ UNCHANGED <<client, answer, left, ran, spool, missed, exit>> /\ pc' = "close"
        /\ raised' \in {raised, "bridge"} /\ code' \in {code, 0}
    BY <1>20 DEF Suffix, Raise
  <2> QED
    BY <1>0, <2>1, <2>2 DEF invocation
<1>21. CASE Close
  BY <1>21, <1>0 DEF Close, reading, invocation
<1>22. CASE Respond
  <2>1. out' \in Seq(Chunks) /\ stdout' \in Stdouts /\ stderr' \in {"open", "broken"}
    BY <1>22, WriteTypes DEF Respond
  <2>2. /\ UNCHANGED <<client, answer, left, ran, spool, missed, code>> /\ pc' = "exit"
        /\ raised' \in {raised, "write"}
        /\ \/ exit' = code /\ code # NoCode
           \/ exit' \in {ResponseExitCode, 1, FlushFailed}
    BY <1>22 DEF Respond, Final
  <2>3. exit' \in {0, 1, 2, FlushFailed}
    BY <2>2, ExitCodes DEF ResponseExitCode
  <2> QED
    BY <1>0, <2>1, <2>2, <2>3 DEF invocation
<1>23. CASE Report
  <2>1. out' \in Seq(Chunks) /\ stdout' \in Stdouts /\ stderr' \in {"open", "broken"}
    BY <1>23, WriteTypes DEF Report, ReportError, LogReportFails, PrintFails, FailedWrites
  <2>2. /\ UNCHANGED <<client, answer, left, ran, spool, missed, code>> /\ pc' = "exit"
        /\ raised' \in {raised, "write"}
        /\ exit' \in {0, 1, LogErrorExitCode(raised), ErrorExitCode(raised), FlushFailed}
    BY <1>23 DEF Report, ReportError, LogReportFails, PrintFails, Final
  <2>3. exit' \in {0, 1, 2, FlushFailed}
    BY <2>2, ExitCodes
  <2> QED
    BY <1>0, <2>1, <2>2, <2>3 DEF invocation
<1>24. CASE Crash
  BY <1>24, <1>0 DEF Crash, Final, FlushFailed, reading, invocation
<1>25. CASE Interrupt
  BY <1>25, <1>0 DEF Interrupt, invocation
<1>26. CASE Exited
  BY <1>26, <1>0 DEF Exited, vars, invocation
<1>27. CASE UNCHANGED vars
  BY <1>27, <1>0 DEF vars
<1> QED
  BY <1>1, <1>2, <1>3, <1>4, <1>5, <1>6, <1>7, <1>8, <1>9, <1>10, <1>11, <1>12, <1>13,
     <1>14, <1>15, <1>16, <1>17, <1>18, <1>19, <1>20, <1>21, <1>22, <1>23,
     <1>24, <1>25, <1>26, <1>27 DEF Next

\* Where the process can be is inductive given the types.
LEMMA PathStep ==
    ASSUME TypeOK, PathInv, [Next]_vars
    PROVE  PathInv'
<1> USE DEF PathInv, RaisedAt, CommandAt, EarlyPcs, OpenPcs, Running, invocation, streams,
        BridgeErrors, BridgeFailures
<1>0. /\ UNCHANGED invocation /\ Wanted' = Wanted /\ command \in Commands
      /\ OnlyClientRefuses' <=> OnlyClientRefuses
  BY InvocationStays DEF TypeOK
<1>1. CASE Parse
  BY <1>1, <1>0 DEF Parse, reading, NoCode
<1>2. CASE Validate
  BY <1>2, <1>0 DEF Validate, reading
<1>3. CASE Open
  BY <1>3, <1>0 DEF Open, reading
<1>4. CASE ConfigureTimeout
  BY <1>4, <1>0 DEF ConfigureTimeout, Raise, reading
<1>5. CASE Handle
  <2>1. raised' = "value" => OnlyClientRefuses
    <3>1. raised = "none" /\ ~ParserRefuses(command, on) /\ ~ValidateArgsRefuses(command, on)
      BY <1>5 DEF Handle
    <3>2. raised' = "value" => ~HandlerRefuses(command, on) /\ ClientRefuses(command, on)
      BY <1>5, <3>1 DEF Handle, Raise
    <3> QED
      BY <1>0, <3>1, <3>2, ChecksCover, Zenon DEF OnlyClientRefuses
  <2> QED
    BY <1>5, <1>0, <2>1 DEF Handle, Raise, reading
<1>6. CASE AskCapability
  BY <1>6, <1>0 DEF AskCapability, Raise, reading
<1>7. CASE Call
  BY <1>7, <1>0, OutputCommands DEF Call, Raise, RaiseForResponse, AfterCall, TypeOK
<1>8. CASE Submit
  BY <1>8, <1>0, OutputCommands DEF Submit, Raise, TypeOK
<1>9. CASE Event
  BY <1>9, <1>0 DEF Event, Raise, Written, WriteFails, FailedWrites
<1>10. CASE Result
  BY <1>10, <1>0 DEF Result, Raise, RaiseForResponse, reading
<1>11. CASE WriteResponse
  BY <1>11, <1>0 DEF WriteResponse, Raise, Written, WriteFails, FailedWrites
<1>12. CASE CallLog
  BY <1>12, <1>0, OutputCommands DEF CallLog, Raise, BridgeErrors, TypeOK
<1>13. CASE RunMember
  BY <1>13, <1>0 DEF RunMember, Raise
<1>14. CASE MembersRun
  BY <1>14, <1>0 DEF MembersRun, reading
<1>15. CASE Manifest
  BY <1>15, <1>0 DEF Manifest, Raise, Written, WriteFails, FailedWrites
<1>16. CASE Prefix
  BY <1>16, <1>0 DEF Prefix, Written, WriteFails, FailedWrites, ReaderGone
<1>17. CASE Record
  BY <1>17, <1>0
     DEF Record, ShowRecord, LogRecordFails, DiffRecordFails, Raise, Written, WriteFails,
         FailedWrites, ReaderGone, Told, TellFails
<1>18. CASE Expired \/ EndOfRecords
  BY <1>18, <1>0 DEF Expired, EndOfRecords
<1>19. CASE Release
  BY <1>19, <1>0 DEF Release, ClosesDocument, OpensLog
<1>20. CASE Suffix
  BY <1>20, <1>0 DEF Suffix, Raise, Written, WriteFails, FailedWrites, ReaderGone
<1>21. CASE Close
  BY <1>21, <1>0, OutputCommands DEF Close, reading, TypeOK
<1>22. CASE Respond
  BY <1>22, <1>0, ExitCodes
     DEF Respond, Written, WriteFails, FailedWrites, Final, FlushFailed, ResponseExitCode,
         TypeOK, NoCode
<1>23. CASE Report
  BY <1>23, <1>0, ExitCodes
     DEF Report, ReportError, LogReportFails, PrintFails, Written, WriteFails, FailedWrites,
         ReaderGone, Final, FlushFailed, Reported, BridgeErrors
<1>24. CASE Crash
  BY <1>24, <1>0 DEF Crash, Final, FlushFailed, reading
<1>25. CASE Interrupt
  BY <1>25, <1>0 DEF Interrupt
<1>26. CASE Exited
  BY <1>26, <1>0 DEF Exited, vars
<1>27. CASE UNCHANGED vars
  BY <1>27, <1>0 DEF vars
<1> QED
  BY <1>1, <1>2, <1>3, <1>4, <1>5, <1>6, <1>7, <1>8, <1>9, <1>10, <1>11, <1>12, <1>13,
     <1>14, <1>15, <1>16, <1>17, <1>18, <1>19, <1>20, <1>21, <1>22, <1>23,
     <1>24, <1>25, <1>26, <1>27 DEF Next

\* The exit status says what happened, given where it was decided.
LEMMA CodeStep ==
    ASSUME TypeOK, PathInv, CodeInv, [Next]_vars
    PROVE  CodeInv'
<1> USE DEF CodeInv, Reads, PathInv, RaisedAt, CommandAt, EarlyPcs, ExitIsTrue,
        SuccessIsTrue, RefusalIsTrue, OpensLog, Running, NoCode, invocation, streams,
        BridgeErrors, BridgeFailures, Told, TellFails
<1>0. /\ UNCHANGED invocation /\ Wanted' = Wanted
      /\ OnlyClientRefuses' <=> OnlyClientRefuses
      /\ code \in {0, 1, 2, NoCode}
  BY InvocationStays DEF TypeOK
<1>1. CASE Parse
  BY <1>1, <1>0 DEF Parse, reading
<1>2. CASE Validate
  BY <1>2, <1>0 DEF Validate, reading
<1>3. CASE Open
  BY <1>3, <1>0 DEF Open, reading
<1>4. CASE ConfigureTimeout
  BY <1>4, <1>0 DEF ConfigureTimeout, Raise, reading
<1>5. CASE Handle
  BY <1>5, <1>0 DEF Handle, Raise, reading
<1>6. CASE AskCapability
  BY <1>6, <1>0 DEF AskCapability, Raise, reading
<1>7. CASE Call
  BY <1>7, <1>0, OutputCommands
     DEF Call, Raise, RaiseForResponse, AfterCall, TypeOK, SuccessStatuses
<1>8. CASE Submit
  BY <1>8, <1>0, OutputCommands DEF Submit, Raise, TypeOK
<1>9. CASE Event
  BY <1>9, <1>0 DEF Event, Raise, Written, WriteFails, FailedWrites
<1>10. CASE Result
  BY <1>10, <1>0 DEF Result, Raise, RaiseForResponse, reading
<1>11. CASE WriteResponse
  BY <1>11, <1>0, ExitCodes DEF WriteResponse, Raise, Written, WriteFails, FailedWrites
<1>12. CASE CallLog
  BY <1>12, <1>0, ExitCodes, OutputCommands DEF CallLog, Raise, BridgeErrors, TypeOK
<1>13. CASE RunMember
  BY <1>13, <1>0 DEF RunMember
<1>14. CASE MembersRun
  BY <1>14, <1>0 DEF MembersRun, reading
<1>15. CASE Manifest
  BY <1>15, <1>0, ExitCodes DEF Manifest, Raise, Written, WriteFails, FailedWrites
<1>16. CASE Prefix
  BY <1>16, <1>0 DEF Prefix, Written, WriteFails, FailedWrites, ReaderGone
<1>17. CASE Record
  BY <1>17, <1>0
     DEF Record, ShowRecord, LogRecordFails, DiffRecordFails, Raise, Written, WriteFails,
         FailedWrites, ReaderGone, Told, TellFails
<1>18. CASE Expired \/ EndOfRecords
  BY <1>18, <1>0, ExitCodes DEF Expired, EndOfRecords
<1>19. CASE Release
  BY <1>19, <1>0 DEF Release, ClosesDocument
<1>20. CASE Suffix
  BY <1>20, <1>0 DEF Suffix, Raise, Written, WriteFails, FailedWrites, ReaderGone
<1>21. CASE Close
  BY <1>21, <1>0, OutputCommands DEF Close, reading, TypeOK
<1>22. CASE Respond
  BY <1>22, <1>0, ExitCodes
     DEF Respond, Written, WriteFails, FailedWrites, Final, FlushFailed, ResponseExitCode, TypeOK
<1>23. CASE Report
  BY <1>23, <1>0, ExitCodes
     DEF Report, ReportError, LogReportFails, PrintFails, Written, WriteFails, FailedWrites,
         ReaderGone, Final, FlushFailed, Reported, BridgeErrors
<1>24. CASE Crash
  BY <1>24, <1>0 DEF Crash, Final, FlushFailed, reading
<1>25. CASE Interrupt
  BY <1>25, <1>0 DEF Interrupt
<1>26. CASE Exited
  BY <1>26, <1>0 DEF Exited, vars
<1>27. CASE UNCHANGED vars
  BY <1>27, <1>0 DEF vars
<1> QED
  BY <1>1, <1>2, <1>3, <1>4, <1>5, <1>6, <1>7, <1>8, <1>9, <1>10, <1>11, <1>12, <1>13,
     <1>14, <1>15, <1>16, <1>17, <1>18, <1>19, <1>20, <1>21, <1>22, <1>23,
     <1>24, <1>25, <1>26, <1>27 DEF Next

\* What was written and what is held, given where the process can be.
LEMMA OutputStep ==
    ASSUME TypeOK, PathInv, CodeInv, OutputInv, [Next]_vars
    PROVE  OutputInv'
<1> USE DEF OutputInv, Reads, Unharmed, PathInv, RaisedAt, CommandAt, EarlyPcs,
        OpensLog, invocation, streams, BridgeErrors, BridgeFailures, Told, TellFails
<1>0. UNCHANGED invocation /\ Wanted' = Wanted /\ (OnlyClientRefuses' <=> OnlyClientRefuses)
  BY InvocationStays
<1>1. CASE Parse
  BY <1>1, <1>0 DEF Parse, reading
<1>2. CASE Validate
  BY <1>2, <1>0 DEF Validate, reading
<1>3. CASE Open
  BY <1>3, <1>0 DEF Open, reading
<1>4. CASE ConfigureTimeout
  BY <1>4, <1>0 DEF ConfigureTimeout, Raise, reading
<1>5. CASE Handle
  BY <1>5, <1>0 DEF Handle, Raise, reading
<1>6. CASE AskCapability
  BY <1>6, <1>0 DEF AskCapability, Raise, reading
<1>7. CASE Call
  BY <1>7, <1>0, OutputCommands DEF Call, Raise, RaiseForResponse, AfterCall, TypeOK
<1>8. CASE Submit
  BY <1>8, <1>0, OutputCommands DEF Submit, Raise, TypeOK
<1>9. CASE Event
  BY <1>9, <1>0 DEF Event, Raise, Written, WriteFails, FailedWrites, TypeOK
<1>10. CASE Result
  BY <1>10, <1>0 DEF Result, Raise, RaiseForResponse, reading
<1>11. CASE WriteResponse
  BY <1>11, <1>0 DEF WriteResponse, Raise, Written, WriteFails, FailedWrites
<1>12. CASE CallLog
  BY <1>12, <1>0, OutputCommands DEF CallLog, Raise, BridgeErrors, TypeOK
<1>13. CASE RunMember
  BY <1>13, <1>0 DEF RunMember
<1>14. CASE MembersRun
  BY <1>14, <1>0 DEF MembersRun, reading
<1>15. CASE Manifest
  BY <1>15, <1>0 DEF Manifest, Raise, Written, WriteFails, FailedWrites
<1>16. CASE Prefix
  BY <1>16, <1>0 DEF Prefix, Written, WriteFails, FailedWrites, ReaderGone
<1>17. CASE Record
  BY <1>17, <1>0
     DEF Record, ShowRecord, LogRecordFails, DiffRecordFails, Raise, Written, WriteFails,
         FailedWrites, ReaderGone, Told, TellFails, TypeOK
<1>18. CASE Expired \/ EndOfRecords
  <2>1. CASE Expired
    BY <1>0, <2>1 DEF Expired
  <2>2. CASE EndOfRecords
    BY <1>0, <2>2 DEF EndOfRecords
  <2> QED
    BY <1>18, <2>1, <2>2
<1>19. CASE Release
  BY <1>19, <1>0 DEF Release, ClosesDocument
<1>20. CASE Suffix
  BY <1>20, <1>0 DEF Suffix, Raise, Written, WriteFails, FailedWrites, ReaderGone, TypeOK
<1>21. CASE Close
  BY <1>21, <1>0, OutputCommands DEF Close, reading, TypeOK
<1>22. CASE Respond
  BY <1>22, <1>0
     DEF Respond, Written, WriteFails, FailedWrites, Final, FlushFailed, TypeOK, CodeInv,
         NoCode
<1>23. CASE Report
  BY <1>23, <1>0
     DEF Report, ReportError, LogReportFails, PrintFails, Written, WriteFails, FailedWrites,
         ReaderGone, Final, FlushFailed, Reported, BridgeErrors, TypeOK
<1>24. CASE Crash
  BY <1>24, <1>0 DEF Crash, Final, FlushFailed, reading
<1>25. CASE Interrupt
  BY <1>25, <1>0 DEF Interrupt
<1>26. CASE Exited
  BY <1>26, <1>0 DEF Exited, vars
<1>27. CASE UNCHANGED vars
  BY <1>27, <1>0 DEF vars
<1> QED
  BY <1>1, <1>2, <1>3, <1>4, <1>5, <1>6, <1>7, <1>8, <1>9, <1>10, <1>11, <1>12, <1>13,
     <1>14, <1>15, <1>16, <1>17, <1>18, <1>19, <1>20, <1>21, <1>22, <1>23,
     <1>24, <1>25, <1>26, <1>27 DEF Next

\* What one more request does to what was asked before it.
LEMMA OneMoreAsked ==
    ASSUME sent \in Seq(Asks), NEW r \in Asks, sent' = Append(sent, r),
           UNCHANGED invocation, Wanted' = Wanted
    PROVE  /\ sent' \in Seq(Asks') /\ sent' # << >>
           /\ OnlyControl /\ r.via = "control" => OnlyControl'
           /\ TimeoutFirst /\ (sent = << >> => r.method = "configure_transport_runtime") =>
                 TimeoutFirst'
           /\ QuestionFirst
              /\ (WantsIdentity(r) /\ r.via \notin {"merge_stream", "log"} => QuestionAsked) =>
                 QuestionFirst'
           /\ r.method = "transport_capabilities" => QuestionAsked'
<1>1. Asks' = Asks
  BY DEF Asks, Control
<1>2. /\ sent' \in Seq(Asks) /\ Len(sent') = Len(sent) + 1 /\ Len(sent) \in Nat
      /\ DOMAIN sent' = 1..(Len(sent) + 1) /\ DOMAIN sent = 1..Len(sent)
      /\ sent'[Len(sent) + 1] = r
      /\ \A k \in 1..Len(sent) : sent'[k] = sent[k]
  OBVIOUS
<1>3. sent' \in Seq(Asks') /\ sent' # << >>
  BY <1>1, <1>2
<1>4. OnlyControl /\ r.via = "control" => OnlyControl'
  BY <1>2 DEF OnlyControl
<1>5. ASSUME TimeoutFirst, sent = << >> => r.method = "configure_transport_runtime"
      PROVE  TimeoutFirst'
  <2>1. SUFFICES ASSUME NEW k \in DOMAIN sent', ~(k > 1)
                 PROVE  sent'[k].method = "configure_transport_runtime"
    BY DEF TimeoutFirst
  <2>2. k = 1
    BY <2>1, <1>2
  <2>3. CASE Len(sent) = 0
    BY <1>2, <1>5, <2>2, <2>3
  <2>4. CASE Len(sent) # 0
    BY <1>2, <1>5, <2>2, <2>4 DEF TimeoutFirst
  <2> QED
    BY <2>3, <2>4
<1>6. ASSUME QuestionFirst,
             WantsIdentity(r) /\ r.via \notin {"merge_stream", "log"} => QuestionAsked
      PROVE  QuestionFirst'
  <2>1. SUFFICES ASSUME NEW k \in DOMAIN sent', WantsIdentity(sent'[k]),
                        sent'[k].via \notin {"merge_stream", "log"}
                 PROVE  \E j \in 1..(k - 1) : sent'[j].method = "transport_capabilities"
    BY DEF QuestionFirst
  <2>2. CASE k \in 1..Len(sent)
    <3>1. PICK j \in 1..(k - 1) : sent[j].method = "transport_capabilities"
      BY <1>2, <1>6, <2>1, <2>2 DEF QuestionFirst
    <3> QED
      BY <1>2, <2>2, <3>1
  <2>3. CASE k = Len(sent) + 1
    <3>1. PICK j \in 1..Len(sent) : sent[j].method = "transport_capabilities"
      BY <1>2, <1>6, <2>1, <2>3 DEF QuestionAsked
    <3> QED
      BY <1>2, <2>3, <3>1
  <2> QED
    BY <1>2, <2>1, <2>2, <2>3
<1>7. r.method = "transport_capabilities" => QuestionAsked'
  BY <1>2 DEF QuestionAsked
<1> QED
  BY <1>3, <1>4, <1>5, <1>6, <1>7

\* What was asked, and in which order, given where the process can be.
LEMMA AskedStep ==
    ASSUME TypeOK, PathInv, AskedInv, [Next]_vars
    PROVE  AskedInv'
<1> USE DEF AskedInv, EarlyPcs, invocation, BridgeErrors, BridgeFailures
<1>0. UNCHANGED invocation /\ Wanted' = Wanted
  BY InvocationStays
<1>1. UNCHANGED sent =>
          /\ Asks' = Asks /\ (OnlyControl' <=> OnlyControl)
          /\ (TimeoutFirst' <=> TimeoutFirst) /\ (QuestionFirst' <=> QuestionFirst)
          /\ (QuestionAsked' <=> QuestionAsked)
  BY <1>0 DEF Asks, Control, OnlyControl, TimeoutFirst, QuestionFirst, QuestionAsked
<1>2. /\ Control("configure_transport_runtime") \in Asks
      /\ Control("transport_capabilities") \in Asks /\ Wanted \in Asks
  BY DEF Asks
<1>3. CASE Parse \/ Validate \/ Open
  BY <1>3, <1>0, <1>1 DEF Parse, Validate, Open, PathInv, RaisedAt, reading
<1>4. CASE ConfigureTimeout
  <2>1. CASE "ssh_timeout" \in on
    <3>1. sent' = Append(sent, Control("configure_transport_runtime"))
      BY <1>4, <2>1 DEF ConfigureTimeout
    <3>2. pc = "timeout" /\ pc' \in {"handler", "close"} /\ raised' \in {raised} \cup BridgeErrors
      BY <1>4 DEF ConfigureTimeout, Raise
    <3> QED
      BY <1>0, <1>2, <2>1, <3>1, <3>2, OneMoreAsked, ControlIsPlain
  <2>2. CASE "ssh_timeout" \notin on
    BY <1>4, <1>0, <1>1, <2>2 DEF ConfigureTimeout, reading
  <2> QED
    BY <2>1, <2>2
<1>5. CASE Handle
  BY <1>5, <1>0, <1>1 DEF Handle, Raise, reading
<1>6. CASE AskCapability
  <2>1. sent' = Append(sent, Control("transport_capabilities"))
    BY <1>6 DEF AskCapability
  <2>2. pc = "capability" /\ pc' \in {"request", "close"} /\ raised' \in {raised, "request"}
    BY <1>6 DEF AskCapability, Raise
  <2> QED
    BY <1>0, <1>2, <2>1, <2>2, OneMoreAsked, ControlIsPlain
<1>7. ASSUME pc = "request", sent' = Append(sent, Wanted), pc' \notin EarlyPcs,
             raised' \notin {"usage", "value"}
      PROVE  AskedInv'
  <2>1. WantsIdentity(Wanted) /\ Wanted.via \notin {"merge_stream", "log"} => QuestionAsked
    BY <1>7, OutputCommands DEF AsksCapability, TypeOK
  <2> QED
    BY <1>0, <1>2, <1>7, <2>1, OneMoreAsked
<1>8. CASE Call \/ Submit \/ CallLog
  <2>1. raised = "none"
    BY <1>8 DEF Call, Submit, CallLog, PathInv, RaisedAt
  <2>2. pc = "request" /\ sent' = Append(sent, Wanted)
    BY <1>8 DEF Call, Submit, CallLog
  <2>3. pc' \notin EarlyPcs /\ raised' \notin {"usage", "value"}
    <3>1. CASE Call
      BY <2>1, <3>1 DEF Call, Raise, RaiseForResponse, AfterCall
    <3>2. CASE Submit
      BY <2>1, <3>2 DEF Submit, Raise
    <3>3. CASE CallLog
      BY <2>1, <3>3 DEF CallLog, Raise, BridgeErrors
    <3> QED
      BY <1>8, <3>1, <3>2, <3>3
  <2> QED
    BY <1>7, <2>2, <2>3
<1>9. CASE Interrupt
  <2>1. CASE pc = "request"
    BY <1>7, <1>9, <2>1 DEF Interrupt
  <2>2. CASE pc # "request"
    BY <1>9, <1>0, <1>1, <2>2 DEF Interrupt
  <2> QED
    BY <2>1, <2>2
<1>10. ASSUME UNCHANGED sent, pc \notin EarlyPcs, pc' \notin EarlyPcs,
              raised' \in {"usage", "value"} => raised' = raised
       PROVE  AskedInv'
  BY <1>0, <1>1, <1>10
<1>11. CASE Event \/ Result \/ WriteResponse \/ RunMember \/ MembersRun
  BY <1>10, <1>11 DEF Event, Result, WriteResponse, RunMember, MembersRun, Raise,
     RaiseForResponse, reading
<1>12. CASE Manifest \/ Prefix \/ Record \/ Expired \/ EndOfRecords \/ Release \/ Suffix
  BY <1>10, <1>12 DEF Manifest, Prefix, Record, ShowRecord, LogRecordFails, DiffRecordFails,
     Expired, EndOfRecords, Release, Suffix, Raise
<1>13. CASE Close \/ Respond \/ Report \/ Crash
  BY <1>10, <1>13 DEF Close, Respond, Report, ReportError, LogReportFails, PrintFails, Crash,
     reading
<1>14. CASE Exited \/ UNCHANGED vars
  BY <1>14, <1>0, <1>1 DEF Exited, vars
<1> QED
  BY <1>3, <1>4, <1>5, <1>6, <1>8, <1>9, <1>11, <1>12, <1>13, <1>14 DEF Next

-----------------------------------------------------------------------------
(* The requests that are made, and what they say. *)

\* What the process asks of the workspace it asks for options that passed every
\* check; forall follows no events, and runs nothing dry.
FaithInv ==
    /\ pc \in {"capability", "request"} \/ ~OnlyControl => Accepted
    /\ command = "forall" => pc # "events" /\ ("dry_run" \in on => ran = << >>)

LEMMA FaithStep ==
    ASSUME CommandInv, FaithInv, [Next]_vars
    PROVE  FaithInv'
<1>0. UNCHANGED invocation /\ Wanted' = Wanted /\ (Accepted' <=> Accepted)
  BY InvocationStays DEF Accepted, invocation
<1>1. pc' \in {"capability", "request"} => Accepted
  <2>1. CASE Handle
    BY <2>1 DEF Handle, Raise, CommandInv, PathInv, CommandAt, Accepted
  <2>2. CASE AskCapability
    BY <2>2 DEF AskCapability, FaithInv
  <2>3. CASE UNCHANGED vars
    BY <2>3 DEF vars, FaithInv
  <2>4. pc' \in {"capability", "request"} => Handle \/ AskCapability \/ UNCHANGED vars
    BY DEF Next, Parse, Validate, Open, ConfigureTimeout, Call, Submit, Event, Result,
       WriteResponse, CallLog, RunMember, MembersRun, Manifest, Prefix, Record, ShowRecord,
       LogRecordFails, DiffRecordFails, Expired, EndOfRecords, Release, Suffix, Close, Respond,
       Report, Crash, Interrupt, Exited, Raise, RaiseForResponse, AfterCall
  <2> QED
    BY <2>1, <2>2, <2>3, <2>4
<1>2. ~OnlyControl' => Accepted
  <2>1. CASE UNCHANGED sent
    BY <2>1 DEF OnlyControl, FaithInv
  <2>2. CASE pc = "request"
    BY <2>2 DEF FaithInv
  <2>3. CASE sent' # sent /\ pc # "request"
    <3>1. PICK method : sent' = Append(sent, Control(method)) /\ Control(method) \in Asks
      BY <2>3 DEF Next, vars, Parse, Validate, Open, ConfigureTimeout, Handle, AskCapability,
         Call, Submit, Event, Result, WriteResponse, CallLog, RunMember, MembersRun, Manifest,
         Prefix, Record, Expired, EndOfRecords, Release, Suffix, Close, Respond, Report, Crash,
         Interrupt, Exited, Asks
    <3>2. OnlyControl => OnlyControl'
      BY <1>0, <3>1, OneMoreAsked, ControlIsPlain DEF CommandInv, AskedInv
    <3> QED
      BY <3>2 DEF FaithInv
  <2> QED
    BY <2>1, <2>2, <2>3
<1>3. ASSUME command = "forall"
      PROVE  pc' # "events" /\ ("dry_run" \in on => ran' = << >>)
  <2>1. Wanted.via = "call"
    <3>1. Wanted = HandleForall(on)
      BY <1>3, HandlerOf DEF Wanted
    <3>2. \A keys : ResolveForallTargets(keys).via = "call"
      BY DEF ResolveForallTargets, Called, Sent
    <3> QED
      BY <3>1, <3>2 DEF HandleForall
  <2>2. pc # "events" /\ ("dry_run" \in on => ran = << >>)
    BY <1>3 DEF FaithInv
  <2>3. pc' # "events"
    BY <2>1, <2>2 DEF Next, vars, Parse, Validate, Open, ConfigureTimeout, Handle,
       AskCapability, Call, Submit, Event, Result, WriteResponse, CallLog, RunMember,
       MembersRun, Manifest, Prefix, Record, ShowRecord, LogRecordFails, DiffRecordFails,
       Expired, EndOfRecords, Release, Suffix, Close, Respond, Report, Crash, Interrupt, Exited,
       Raise, RaiseForResponse, AfterCall
  <2>4. "dry_run" \in on => ran' = ran
    BY <2>2 DEF Next, vars, reading, Parse, Validate, Open, ConfigureTimeout, Handle,
       AskCapability, Call, Submit, Event, Result, WriteResponse, CallLog, RunMember,
       MembersRun, Manifest, Prefix, Record, Expired, EndOfRecords, Release, Suffix, Close,
       Respond, Report, Crash, Interrupt, Exited
  <2> QED
    BY <2>2, <2>3, <2>4
<1> QED
  BY <1>0, <1>1, <1>2, <1>3 DEF FaithInv, invocation

\* Then every request that was made is faithful to the command line.
LEMMA FaithInvSuffices == CommandInv /\ FaithInv => RequestIsFaithful
<1> SUFFICES ASSUME CommandInv, FaithInv
             PROVE  RequestIsFaithful
  OBVIOUS
<1>1. ASSUME NEW r \in Requests
      PROVE  Faithful(r) /\ r = HandlerRequest(command, on \ EmptyValues)
  <2>1. PICK k \in DOMAIN sent : r = sent[k]
    BY <1>1 DEF Requests
  <2>2. r.via # "control"
    BY <1>1 DEF Requests
  <2>3. sent \in Seq(Asks)
    BY DEF CommandInv, AskedInv
  <2>4. r = Wanted
    BY <2>1, <2>2, <2>3, ControlIsPlain DEF Asks
  <2>5. Accepted
    BY <2>1, <2>2 DEF FaithInv, OnlyControl
  <2>6. OnOptions /\ command \in Commands
    BY DEF CommandInv, TypeOK, OnOptions
  <2>7. r = HandlerRequest(command, on \ EmptyValues)
    BY <2>4, <2>6, EmptyIgnored DEF Wanted
  <2> QED
    BY <2>4, <2>5, <2>6, <2>7, WantedIsFaithful
<1>2. NothingIsDropped /\ EmptyIsAbsent
  BY <1>1 DEF Faithful, NothingIsDropped, EmptyIsAbsent
<1>3. OperandIsTheSelection
  BY <1>1 DEF Faithful, OperandIsTheSelection
<1>4. RemoteIsSentOnce
  BY <1>1 DEF Faithful, RemoteIsSentOnce
<1>5. DryRunHolds
  BY <1>1 DEF Faithful, DryRunHolds, FaithInv
<1> QED
  BY <1>2, <1>3, <1>4, <1>5 DEF RequestIsFaithful

-----------------------------------------------------------------------------
(* The theorems. *)

LEMMA CommandInit == Init => CommandInv
<1> SUFFICES ASSUME Init
             PROVE  CommandInv
  OBVIOUS
<1>1. TypeOK
  <2>1. command \in Commands /\ on \subseteq CommandOptionsOf(command) \cup GlobalOptions
    BY DEF Init
  <2>2. << >> \in Seq(BOOLEAN) /\ << >> \in Seq(Chunks)
    OBVIOUS
  <2>3. ran \in Seq(BOOLEAN) /\ out \in Seq(Chunks)
    BY <2>2 DEF Init
  <2>4. /\ pc \in Pcs /\ client \in {"unopened", "open", "closed"} /\ left \in Nat
        /\ answer \in Answers \cup {NoAnswer} /\ stdout \in Stdouts
        /\ stderr \in {"open", "broken"} /\ missed \in BOOLEAN
        /\ spool \in {"none", "held", "released", "failed", "lost"}
        /\ code = NoCode /\ raised = "none" /\ exit = Running
    BY DEF Init, Pcs, Stdouts
  <2> QED
    BY <2>1, <2>3, <2>4 DEF TypeOK, Chunks, Stdouts
<1>2. PathInv
  BY DEF Init, PathInv, RaisedAt, CommandAt, EarlyPcs, OpenPcs, Running
<1>3. AskedInv
  <2>1. sent = << >>
    BY DEF Init
  <2>2. sent \in Seq(Asks) /\ DOMAIN sent = {}
    BY <2>1
  <2>3. OnlyControl /\ TimeoutFirst /\ QuestionFirst
    BY <2>2 DEF OnlyControl, TimeoutFirst, QuestionFirst
  <2> QED
    BY <2>1, <2>2, <2>3 DEF Init, AskedInv
<1>4. CodeInv
  BY DEF Init, CodeInv, EarlyPcs, NoCode, Running, ExitIsTrue, SuccessIsTrue, RefusalIsTrue
<1>5. OutputInv
  BY DEF Init, OutputInv, Reads
<1> QED
  BY <1>1, <1>2, <1>3, <1>4, <1>5 DEF CommandInv

\* The invariant of CommandLine, for every set of offered options and all bounds.
THEOREM CommandInvariance == Spec => []CommandInv
<1>1. CommandInv /\ [Next]_vars => CommandInv'
  BY TypeStep, PathStep, AskedStep, CodeStep, OutputStep DEF CommandInv
<1> QED
  BY CommandInit, <1>1, PTL DEF Spec

\* Every variable of a process keeps its type.
THEOREM CommandTypeCorrectness == Spec => []TypeOK
<1>1. CommandInv => TypeOK
  BY DEF CommandInv
<1> QED
  BY CommandInvariance, <1>1, PTL

\* A command line that is refused asked nothing of the workspace, and none reaches
\* a check that only the client makes, but for an empty operand of `repo sync`.
THEOREM RefusalsAreClean == Spec => []RefusalIsClean
<1>1. CommandInv => RefusalIsClean
  <2>1. CommandInv /\ raised \in {"usage", "value"} => Requests = {}
    BY DEF CommandInv, AskedInv, OnlyControl, Requests
  <2>2. CommandInv /\ raised = "value" => OnlyClientRefuses
    BY DEF CommandInv, PathInv, RaisedAt
  <2> QED
    BY <2>1, <2>2, Zenon DEF RefusalIsClean, OnlyClientRefuses
<1> QED
  BY CommandInvariance, <1>1, PTL

\* The exit status says what happened: 0 only for a success, 2 only for a refusal.
THEOREM ExitsAreTrue == Spec => []ExitIsTrue
<1>1. CommandInv => ExitIsTrue
  BY DEF CommandInv, CodeInv
<1> QED
  BY CommandInvariance, <1>1, PTL

\* What core has to show is shown whole unless core said that records were gone or
\* closed the output, and the output that holds it is given back on every path but
\* the three the property names.
THEOREM OutputsAreSound == Spec => []OutputIsSound
<1>1. CommandInv => OutputIsSound
  BY DEF CommandInv, PathInv, OutputInv, Reads, Unharmed, OpensLog, OutputIsSound,
     OutputIsWhole, OutputIsGivenBack, Ended
<1> QED
  BY CommandInvariance, <1>1, PTL

\* The client is closed before the process exits, nothing is asked through a closed
\* one, the timeout comes before the request, and so does the question about
\* identities, which a log and the stream of a merge do not ask.
THEOREM ClientsAreInOrder == Spec => []ClientInOrder
<1>1. CommandInv => ClientInOrder
  BY DEF CommandInv, PathInv, AskedInv, OpenPcs, ClientInOrder, Ended, TimeoutFirst,
     QuestionFirst
<1> QED
  BY CommandInvariance, <1>1, PTL

\* What a process asks of core says what its command line said, for every set of
\* options: whole but for the values given empty, which are as if absent, for the
\* repository it names, its remote in one place, and dry when it must change nothing.
THEOREM RequestsAreFaithful == Spec => []RequestIsFaithful
<1>1. Init => FaithInv
  BY DEF Init, FaithInv, OnlyControl
<1>2. CommandInv /\ FaithInv /\ [Next]_vars => FaithInv'
  BY FaithStep
<1>3. CommandInv /\ FaithInv => RequestIsFaithful
  BY FaithInvSuffices
<1> QED
  BY CommandInvariance, <1>1, <1>2, <1>3, PTL DEF Spec
=============================================================================
