--------------------------- MODULE ClientRequests ---------------------------
(* The requests gwz.Client builds: one operator per method, from the keywords
   it is called with.  A request is its method, the keys its RequestMeta
   carries, and the fields of its own that the caller decided.  `via` is the
   path it is sent on: "call", "stream", "merge_stream" or "log". *)
EXTENDS CommandOptions

\* What one request says beside its own fields.  The policy always carries a
\* progress interval: the caller's or the default.  `root` is where the
\* workspace of the request comes from.
RequestMeta(keys) ==
    [selection |-> keys \cap (SelectionOptions \cup {"operand"}),
     policy    |-> (keys \cap PolicyOptions)
                   \cup (IF "progress_min_interval_ms" \in keys THEN {} ELSE {"default_interval"}),
     transport |-> keys \cap (IdentityOptions \cup {"url_scheme"}),
     dry_run   |-> "dry_run" \in keys,
     root      |-> keys \cap {"root", "path", "urls"}]

\* Merge transfers nothing: the policy keeps only what the caller chose.
MergePolicy(meta) == [meta EXCEPT !.policy = @ \ {"default_interval"}]

Sent(via, method, keys, fields) ==
    [via |-> via, method |-> method, meta |-> RequestMeta(keys), fields |-> fields]
Called(method, keys, fields) == Sent("call", method, keys, fields)
Streamed(method, keys, fields) == Sent("stream", method, keys, fields)

RemoteIdentity(keys, fields) == Called("remote_identity", keys, fields)

\* `init` names the workspace by its path when there is one.  With sources, an
\* empty path still resolves, to the caller's directory: the client's root is
\* not used.
CreateWorkspace(keys, fields) ==
    Called("create_workspace", IF "path" \in keys THEN keys \ {"root"} ELSE keys, fields)
InitFromSources(keys, fields) ==
    Called("init_from_sources", keys \ {"root"}, fields)
CloneWorkspace(keys, fields) == Called("clone_workspace", keys, fields)
CloneWorkspaceStream(keys, fields) == Streamed("clone_workspace", keys, fields)
CloneLocalWorkspace(keys, fields) == Called("clone_local_workspace", keys, fields)
LocalFamily(keys, fields) == Called("local_family", keys, fields)

CloneRepoMember(keys, fields) == Called("clone_repo_member", keys, fields)
CloneRepoMemberStream(keys, fields) == Streamed("clone_repo_member", keys, fields)
AddExistingRepo(keys, fields) == Called("add_existing_repo", keys, fields)
CreateRepo(keys, fields) == Called("create_repo", keys, fields)

\* The operand of a single-repository method is the selection of its request; that
\* of `repo sync` is one as soon as it is given, empty or not.
SingleRepo(method, keys) == Called(method, keys \cup {"operand"}, {})
DetachRepoMember(keys) == SingleRepo("detach_repo_member", keys)
AttachRepoMember(keys) == SingleRepo("attach_repo_member", keys)
RepoSync(keys, fields) ==
    Called("repo_sync",
           keys \cup (IF fields \cap SyncOperands # {} THEN {"operand"} ELSE {}), fields)

Status(keys, fields) == Called("status", keys, fields)
Ls(keys, fields) == Called("ls", keys, fields)
ResolveForallTargets(keys) == Called("resolve_forall_targets", keys, {})
Materialize(keys, fields) == Called("materialize", keys, fields)
Snapshot(keys, fields) == Called("snapshot", keys, fields)
ListSnapshots(keys) == Called("list_snapshots", keys, {})
Tag(keys, fields) == Called("tag", keys, fields)
Capture(keys) == Called("capture", keys, {})
Commit(keys, fields) == Called("commit", keys, fields)
Stage(keys, fields) == Called("stage", keys, fields)
PullHead(keys, fields) == Called("pull_head", keys, fields)
PullSnapshot(keys, fields) == Called("pull_snapshot", keys, fields)
Push(keys, fields) == Called("push", keys, fields)
Fetch(keys) == Called("fetch", keys, {})
Stash(keys, fields) == Called("stash", keys, fields)
Branch(keys, fields) == Called("branch", keys, fields)

MergeRequest(via, keys, fields) ==
    [Sent(via, "merge", keys, fields) EXCEPT !.meta = MergePolicy(@)]
Merge(keys, fields) == MergeRequest("call", keys, fields)
MergeStream(keys, fields) == MergeRequest("merge_stream", keys, fields)

Diff(keys, fields) == Called("diff", keys, fields)
Log(keys, fields) == Sent("log", "log", keys, fields)

-----------------------------------------------------------------------------
(* The ValueErrors the methods raise before they send anything. *)

\* Identity set and unset together.
RemoteIdentityRefuses(on) == {"key_path", "unset"} \subseteq on

\* A member operand beside a selection, and a member id of a wrong shape.
SingleRepoRefuses(keys) == RequestMeta(keys).selection # {}
AttachRefuses(keys, on) == "bad_member_id" \in on \/ SingleRepoRefuses(keys)
RepoSyncRefuses(keys, on) == on \cap SyncOperands # {} /\ keys \cap SelectionOptions # {}

\* Whether the request must be preceded by a question about file_identity.
WantsIdentity(request) == request.meta.transport \cap IdentityOptions # {}

\* _call and _stream_call ask it; the merge stream and the log do not.
AsksCapability(request) == request.via \in {"call", "stream"} /\ WantsIdentity(request)

\* raise_for_response accepts these aggregate statuses and raises for the rest.
SuccessStatuses == {"accepted", "ok", "noop"}
=============================================================================
