--------------------------- MODULE MCCommandLine ----------------------------
(* The instances TLC checks. *)
EXTENDS CommandLineProps

\* Options that are copied into the request and read by nothing on the way: a
\* few stand for the rest of them.
Copied == {"unified", "inter_hunk_context", "binary", "text", "src_prefix", "dst_prefix",
           "no_prefix", "line_prefix", "cached", "merge_base", "since", "until", "author",
           "grep", "no_merges", "first_parent", "strict", "no_coalesce", "full", "color",
           "no_pager", "source_id", "message", "remote_identities", "sync", "jobs",
           "max_connections_per_host", "progress_min_interval_ms", "exclude_targets",
           "all_members", "verbose"}

\* Options that exclude each other: two of each kind stand for the rest.
Alike == (FormatOptions \ {"stat", "raw"})
         \cup (WhitespaceOptions \ {"ignore_all_space", "ignore_blank_lines"})

MCOffered == (GlobalOptions \cup UNION {CommandOptionsOf(c) : c \in Commands})
             \ (Copied \cup Alike)
=============================================================================
