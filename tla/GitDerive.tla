----------------------------- MODULE GitDerive -----------------------------
(***************************************************************************)
(* The server of borink-git-derive (borink-core): it answers one request   *)
(* at a time with what a plugin derives from one commit of a repository.   *)
(* A request names a commit or a ref; the ref store says which commit a    *)
(* ref stands for, and trusted requests fill it.  The commit is checked    *)
(* out by the state machine of borink-git/src/git.rs into a store of       *)
(* directories, and what was derived is cached.  Ref store and cache share *)
(* the table of the key-value database (KeyValue), the rest of the state   *)
(* is on disk as well.  Git and plugins may fail at each step, and the     *)
(* process may end between any two.                                        *)
(*                                                                         *)
(* One repository and one plugin, as the server is started with.  A        *)
(* request refused for its method or URL, or for a value or name that is   *)
(* not a hash, leaves no trace and is left out.                            *)
(***************************************************************************)
EXTENDS GitRefs, KeyValue

CONSTANTS
    Objects,    \* hashes: commits and tag objects
    None,
    Peel,       \* the commit each tag object stands for
    Short,      \* the names of the remote that are also sent shortened
    TrustKey,   \* the key that makes a request trusted, or None
    Sent,       \* the keys that requests come with
    Headers,    \* the headers of a response, encoded as MessagePack bytes
    Versions,   \* the refs the remote has, as it changes
    MaxSyncs,   \* bound: runs of the sync client
    MaxEnds     \* bound: times the server process ends

ASSUME ObjectsAssumption ==
    /\ None \notin Objects
    /\ \A tag \in DOMAIN Peel : tag \in Objects /\ Peel[tag] \in Objects
ASSUME HeadersAssumption == Headers \in Seq(0 .. 255)
ASSUME GitBounds == MaxSyncs \in Nat /\ MaxEnds \in Nat

VARIABLES
    version,    \* remote: which of Versions it has
    repo,       \* store: "absent", "broken", "sparse" or "ready"
    fetched,    \* store: the objects in the repository
    dirs,       \* store: each commit's directory
    table,      \* database: a commit for each ref, and the directory each
                \* cached response was made of
    job,        \* the request the server works on
    todo,       \* sync client: the requests it has not sent
    syncs,      \* runs of the sync client so far
    ends,       \* times the process ended so far
    vouched,    \* history: commits that trusted requests gave
    cut         \* history: what was left unfinished, Clone or a commit

store == <<repo, fetched, dirs>>
client == <<todo, syncs>>
history == <<vouched, cut>>
vars == <<version, store, table, job, client, ends, history>>

Clone == "clone"
Idle == [at |-> "idle"]

\* What the server is started with.
Repo == "repo_url"
Subpath == "git_subpath"
Plugin == "plugin"
ResponsePrefix == <<66, 68, 82>>

Remote == Versions[version]
Published(v) ==
    LET tips == {Versions[w][n] : w \in 1 .. v, n \in DOMAIN Versions[1]}
    IN  tips \cup {Peel[o] : o \in tips \cap DOMAIN Peel}

\* store_address: the hash of what makes up an address.
StoreAddress(commit) == <<Repo, commit, Subpath>>
Dir(commit) == dirs[StoreAddress(commit)]
SetDir(commit, state) == dirs' = [dirs EXCEPT ![StoreAddress(commit)] = state]

At(stage) == job.at = stage
Goto(stage) == job' = [job EXCEPT !.at = stage]
Done == job' = Idle     \* a response, or the 500 that tiny_http sends on Drop

AllNames ==
    LET listed == {l.name : l \in Lines(Versions[1], Peel)}
    IN  listed \cup {Short[n] : n \in DOMAIN Short} \cup Objects

Init ==
    /\ version = 1
    /\ repo = "absent"
    /\ fetched = {}
    /\ dirs = [a \in {StoreAddress(c) : c \in Objects} |-> "absent"]
    /\ table = Created
    /\ job = Idle
    /\ todo = <<>>
    /\ syncs = 0
    /\ ends = 0
    /\ vouched = {}
    /\ cut = {}

\* Somebody pushes to the remote.
Publish ==
    /\ version < Len(Versions)
    /\ version' = version + 1
    /\ UNCHANGED <<store, table, job, client, ends, history>>

-----------------------------------------------------------------------------
(* The sync client.                                                        *)

Sync ==
    /\ todo = <<>>
    /\ syncs < MaxSyncs
    /\ todo' = Requests(LsRemote(Lines(Remote, Peel)), Short)
    /\ syncs' = syncs + 1
    /\ UNCHANGED <<version, store, table, job, ends, history>>

-----------------------------------------------------------------------------
(* A request: the key it comes with, whether it refuses a cached response, *)
(* and the value it gives for the name in its URL; None where the header   *)
(* is missing.                                                             *)

Asked ==
    [key : Sent \cup {None}, nocache : BOOLEAN, value : Objects \cup {None}]

\* DefaultRequestSettings::new, of which each request gets a clone.
Base == [trusted |-> TrustKey = None, cached |-> TRUE, mutate |-> FALSE,
         insert |-> None, commit |-> None]

\* Mutant of ReadHeaders: any key will do.
ReadHeadersAnyKey(asked) ==
    [Base EXCEPT !.trusted = @ \/ asked.key # None,
                 !.cached = ~asked.nocache,
                 !.insert = asked.value]

\* read_method_headers.  No key can take trust away where none is needed.
ReadHeaders(asked) ==
    [Base EXCEPT !.trusted = IF TrustKey = None \/ asked.key = None THEN @
                             ELSE asked.key = TrustKey,
                 !.cached = ~asked.nocache,
                 !.insert = asked.value]

\* The ref store and the cache: keys of the same table.  A ref has no metadata,
\* a response its headers.
GitRefKey(name) == <<"borink-git-ref", Repo, name>>
CommitOf(name) == Get(table, GitRefKey(name))
SetRef(name, commit) == table' = Insert(table, GitRefKey(name), Row(<<>>, commit))

CacheKey(commit) == <<"borink-cache", Plugin, StoreAddress(commit)>>
WriteResponseMeta == JoinPrefixWithMeta(ResponsePrefix, <<>>, Headers)
Cached(commit) == Get(table, CacheKey(commit))
Cache(commit, response) ==
    table' = Insert(table, CacheKey(commit), Row(WriteResponseMeta, response))

\* get_git_path: the driver starts, with leave to change the store or not.
Start(settings) ==
    [at |-> "repo", commit |-> settings.commit, mutate |-> settings.mutate]

\* derive_with, up to the driver: a response in the cache answers at once.
Lookup(settings) ==
    job' = IF settings.cached /\ Cached(settings.commit) # Nothing
           THEN Idle ELSE Start(settings)

\* use_git_ref_store, for a trusted request with a value: sets the ref.
InsertRef(name, settings) ==
    /\ settings.trusted
    /\ settings.insert # None
    /\ SetRef(name, settings.insert)
    /\ Lookup([settings EXCEPT !.commit = settings.insert, !.mutate = TRUE])

\* use_git_ref_store, for any other: looks the ref up.  A name that is not in
\* the store must be a commit, and must not change the store of directories.
GetRef(name, settings) ==
    LET stored == CommitOf(name)
    IN  /\ settings.insert = None \/ ~settings.trusted
        /\ \/ /\ stored # Nothing
              /\ Lookup([settings EXCEPT !.commit = stored.value, !.mutate = TRUE])
           \/ /\ stored = Nothing
              /\ name \in Objects
              /\ Lookup([settings EXCEPT !.commit = name, !.mutate = FALSE])
        /\ UNCHANGED table

\* handle_request, from its headers to the cache: nothing comes between, as the
\* server is alone with the database.
HandleRequest(name, asked) ==
    /\ job = Idle
    /\ LET settings == ReadHeaders(asked)
       IN  InsertRef(name, settings) \/ GetRef(name, settings)
    /\ vouched' = IF TrustKey \in {None, asked.key}
                  THEN vouched \cup ({asked.value} \ {None}) ELSE vouched
    /\ UNCHANGED <<version, store, syncs, ends, cut>>

\* The sync client (make_sync_request) waits for each response before it goes
\* on.
SyncSend ==
    /\ todo # <<>>
    /\ HandleRequest(Head(todo).name,
                     [key |-> TrustKey, nocache |-> FALSE, value |-> Head(todo).sha])
    /\ todo' = Tail(todo)

Request(name, asked) ==
    /\ HandleRequest(name, asked)
    /\ UNCHANGED todo

\* derived_resource with the path: the plugin may fail, ...
Derive ==
    /\ At("derive")
    /\ Goto("insert") \/ Done
    /\ UNCHANGED <<version, store, table, client, ends, history>>

\* ... or answers, and the response is cached.
InsertCache ==
    /\ At("insert")
    /\ Cache(job.commit, Dir(job.commit))
    /\ Done
    /\ UNCHANGED <<version, store, client, ends, history>>

-----------------------------------------------------------------------------
(* single_loop: the states of GitState.  An exclusive one needs leave to    *)
(* change the store.                                                        *)

Exclusive(stage) == IF job.mutate THEN Goto(stage) ELSE Done

\* RequestRepo.
RequestRepo ==
    /\ At("repo")
    /\ IF repo = "absent" THEN Exclusive("clone") ELSE Goto("address")
    /\ UNCHANGED <<version, store, table, client, ends, history>>

\* CreateRepo: `git clone` makes the directory first, ...
CloneStart ==
    /\ At("clone")
    /\ repo' = "broken"
    /\ Goto("cloning")
    /\ UNCHANGED <<version, fetched, dirs, table, client, ends, history>>

\* ... fills it, or removes it again when it fails, ...
CloneEnd ==
    /\ At("cloning")
    /\ \/ /\ repo' = "sparse"
          /\ fetched' = Published(version)
          /\ Goto("sparse")
       \/ /\ repo' = "absent"
          /\ Done
          /\ UNCHANGED fetched
    /\ UNCHANGED <<version, dirs, table, client, ends, history>>

\* ... and `git sparse-checkout` says which directories to check out.
SparseCheckout ==
    /\ At("sparse")
    /\ \/ repo' = "ready" /\ Goto("address") /\ UNCHANGED cut
       \/ cut' = cut \cup {Clone} /\ Done /\ UNCHANGED repo
    /\ UNCHANGED <<version, fetched, dirs, table, client, ends, vouched>>

\* Mutant of RequestAddress: goes back to the repository when it may not.
RequestAddressAgain ==
    /\ At("address")
    /\ IF Dir(job.commit) = "absent"
       THEN Goto(IF job.mutate THEN "create" ELSE "repo")
       ELSE Goto("derive")
    /\ UNCHANGED <<version, store, table, client, ends, history>>

\* RequestAddress: a directory that exists is the commit's.
RequestAddress ==
    /\ At("address")
    /\ IF Dir(job.commit) = "absent" THEN Exclusive("create")
       ELSE Goto("derive")
    /\ UNCHANGED <<version, store, table, client, ends, history>>

\* CreateAddress: looks for the commit, ...
CommitExists ==
    /\ At("create")
    /\ IF repo # "broken" /\ job.commit \in fetched
       THEN Goto("copy") ELSE Goto("fetch")
    /\ UNCHANGED <<version, store, table, client, ends, history>>

\* Mutant of Fetch: the copy is made before the second look.
FetchCopied ==
    /\ At("fetch")
    /\ repo # "broken"
    /\ fetched' = Published(version)
    /\ SetDir(job.commit, "partial")
    /\ IF job.commit \in fetched' THEN Goto("checkout") ELSE Done
    /\ UNCHANGED <<version, repo, table, client, ends, history>>

\* ... fetches, and looks again (Absent if it still is not there), ...
Fetch ==
    /\ At("fetch")
    /\ \/ /\ repo # "broken"
          /\ fetched' = Published(version)
          /\ IF job.commit \in fetched' THEN Goto("copy") ELSE Done
       \/ Done /\ UNCHANGED fetched
    /\ UNCHANGED <<version, repo, dirs, table, client, ends, history>>

\* ... copies the repository, ...
CopyDirAll ==
    /\ At("copy")
    /\ SetDir(job.commit, "partial")
    /\ Goto("checkout")
    /\ UNCHANGED <<version, repo, fetched, table, client, ends, history>>

\* ... checks the commit out there (it may be the copy that fails, or what
\* follows the checkout, as well), ...
Checkout ==
    /\ At("checkout")
    /\ \/ /\ SetDir(job.commit,
                    IF repo = "ready" THEN "complete" ELSE Dir(job.commit))
          /\ Goto("derive") \/ Done
          /\ UNCHANGED cut
       \/ /\ cut' = cut \cup {job.commit}
          /\ Done
          /\ UNCHANGED dirs
    /\ UNCHANGED <<version, repo, fetched, table, client, ends, vouched>>

Drive ==
    \/ RequestRepo \/ CloneStart \/ CloneEnd \/ SparseCheckout
    \/ RequestAddress \/ CommitExists \/ Fetch \/ CopyDirAll \/ Checkout

-----------------------------------------------------------------------------
\* The process ends - it crashes, panics in an unwrap, or cannot send a
\* response - and is started again.
End ==
    /\ job # Idle
    /\ ends < MaxEnds
    /\ ends' = ends + 1
    /\ job' = Idle
    /\ todo' = <<>>
    /\ cut' = cut \cup CASE job.at \in {"cloning", "sparse"} -> {Clone}
                         [] job.at = "checkout"             -> {job.commit}
                         [] OTHER                           -> {}
    /\ UNCHANGED <<version, store, table, syncs, vouched>>

Serve == Drive \/ Derive \/ InsertCache

Next ==
    \/ Publish \/ Sync \/ SyncSend
    \/ \E name \in AllNames, asked \in Asked : Request(name, asked)
    \/ Serve
    \/ End

Spec == Init /\ [][Next]_vars

\* The server goes on with a request it works on.
FairSpec == Spec /\ WF_vars(Serve)

-----------------------------------------------------------------------------
(***************************************************************************)
(* The store changes only for commits that somebody trusted gave: a commit *)
(* asked for directly is answered from what is there, also when refs were  *)
(* set, overwritten or kept over a restart meanwhile ("allowing mutate" of *)
(* server.rs:246).                                                         *)
(***************************************************************************)
MutatesOnlyVouched ==
    [][store' # store => job.commit \in vouched]_vars

(***************************************************************************)
(* A directory counts as complete when it exists.  One that is not leads   *)
(* to a response, which then stays in the cache, only after a step that    *)
(* made it or the clone failed or was cut off: never for a commit that was *)
(* absent, or was asked for in between.                                    *)
(***************************************************************************)
IncompleteOnlyAfterCut ==
    \A c \in Objects :
        Cached(c) # Nothing /\ Cached(c).value = "partial"
        => c \in cut \/ Clone \in cut

(***************************************************************************)
(* Every request is answered: the states of the driver lead to a path, to  *)
(* Absent or to an error, whatever is in the store, and the server never   *)
(* waits.                                                                  *)
(***************************************************************************)
RequestsEnd == job # Idle ~> job = Idle

(***************************************************************************)
(* Refs and cached responses share a table.  The metadata of each response *)
(* can be read back - read_response_meta unwraps what it finds - and the   *)
(* range of the prefix of responses picks them and no ref, whatever was    *)
(* inserted or replaced.                                                   *)
(***************************************************************************)
ResponsesReadBack ==
    LET cached == {k \in DOMAIN table : Head(k) = "borink-cache"}
    IN  /\ \A k \in cached :
              ReadMeta(table[k].meta) =
                  [prefix |-> ResponsePrefix, search |-> <<>>, meta |-> Headers]
        /\ cached = Metas(table, ResponsePrefix, PrefixRange(ResponsePrefix))

=============================================================================
