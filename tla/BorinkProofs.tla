---------------------------- MODULE BorinkProofs ----------------------------
(***************************************************************************)
(* Theorems about the Borink parts.  Of GitDerive, for all objects,        *)
(* remotes, names, keys and headers, whatever fails and whenever the       *)
(* process ends: who may change the store, when a directory that is not    *)
(* complete is answered from, and what the ref store and the cache keep in *)
(* their table.  Of Lazy: where its documentation is right.                *)
(***************************************************************************)
EXTENDS GitDerive, SequenceTheorems, TLAPS

Stages == {"repo", "clone", "cloning", "sparse", "address", "create", "fetch",
           "copy", "checkout", "derive", "insert"}

\* The stages that change the store, and those that lead to them only.
Changing == {"clone", "cloning", "sparse", "create", "fetch", "copy", "checkout"}

JobOK ==
    \/ job = Idle
    \/ /\ job = [at |-> job.at, commit |-> job.commit, mutate |-> job.mutate]
       /\ job.at \in Stages
       /\ job.mutate \in BOOLEAN

\* A clone that is not whole is under way, or was left so.
CloneOK ==
    /\ repo \in {"absent", "broken", "sparse", "ready"}
    /\ repo = "broken" => At("cloning") \/ Clone \in cut
    /\ repo = "sparse" => At("sparse") \/ Clone \in cut
    /\ job.at \in {"address", "create", "fetch", "copy", "checkout"}
           => repo # "absent"

\* So is a directory.
DirsOK ==
    /\ DOMAIN dirs = {StoreAddress(c) : c \in Objects}
    /\ \A c \in Objects :
           Dir(c) = "partial" =>
               \/ c \in cut \/ Clone \in cut
               \/ At("checkout") /\ job.commit = c

\* Each row is a response with the headers, or a ref for a commit that
\* somebody trusted gave.
CacheRow(k) ==
    /\ k[1] = "borink-cache" /\ k = CacheKey(k[3][2])
    /\ table[k].meta = WriteResponseMeta

RefRow(k) ==
    /\ k = GitRefKey(k[3])
    /\ table[k].meta = <<>>
    /\ table[k].value \in vouched

TableOK == \A k \in DOMAIN table : CacheRow(k) \/ RefRow(k)

\* Leave to change the store comes with such a commit.
LeaveOK ==
    job # Idle => /\ job.mutate => job.commit \in vouched
                  /\ job.at \in Changing => job.mutate

IInv == JobOK /\ CloneOK /\ DirsOK /\ TableOK /\ LeaveOK /\ IncompleteOnlyAfterCut

-----------------------------------------------------------------------------
\* No key of the cache is one of the ref store, nor of another commit.
LEMMA KeysApart ==
    /\ \A c, d : CacheKey(c) = CacheKey(d) => c = d
    /\ \A c, name : CacheKey(c) # GitRefKey(name)
    /\ \A c : CacheKey(c)[1] = "borink-cache" /\ CacheKey(c)[3][2] = c
    /\ \A name : /\ GitRefKey(name)[1] = "borink-git-ref"
                 /\ GitRefKey(name)[3] = name
    /\ \A c, d : StoreAddress(c) = StoreAddress(d) => c = d
BY DEF CacheKey, GitRefKey, StoreAddress

LEMMA InitIInv == Init => IInv
<1> SUFFICES ASSUME Init PROVE IInv
    OBVIOUS
<1>1. job = Idle /\ Idle.at = "idle" /\ repo = "absent" /\ DOMAIN table = {}
    BY DEF Init, Idle, Created
<1>2. /\ DOMAIN dirs = {StoreAddress(c) : c \in Objects}
      /\ \A c \in Objects : Dir(c) = "absent"
    BY DEF Init, Dir
<1>3. JobOK /\ CloneOK /\ TableOK /\ LeaveOK
    BY <1>1 DEF JobOK, CloneOK, TableOK, LeaveOK
<1>4. DirsOK
    BY <1>2 DEF DirsOK
<1>5. IncompleteOnlyAfterCut
    BY <1>1 DEF IncompleteOnlyAfterCut, Cached, Get
<1> QED
    BY <1>3, <1>4, <1>5 DEF IInv

\* Where the driver goes, its commit and its leave go with it.
LEMMA GoesOn ==
    ASSUME JobOK, job # Idle, NEW stage \in Stages, Goto(stage)
    PROVE  /\ job' # Idle /\ JobOK'
           /\ job'.at = stage
           /\ job'.commit = job.commit /\ job'.mutate = job.mutate
BY DEF JobOK, Goto, Idle, Stages

LEMMA Ends == Done => job' = Idle /\ JobOK' /\ job'.at = "idle"
BY DEF Done, JobOK, Idle

\* A step that leaves the table alone keeps what is said of it.
LEMMA TableKept ==
    ASSUME IInv, UNCHANGED <<table, vouched>>, cut \subseteq cut'
    PROVE  TableOK' /\ IncompleteOnlyAfterCut'
<1>1. TableOK'
    BY DEF IInv, TableOK, CacheRow, RefRow, CacheKey, GitRefKey, WriteResponseMeta
<1>2. IncompleteOnlyAfterCut'
    BY DEF IInv, IncompleteOnlyAfterCut, Cached, CacheKey
<1> QED
    BY <1>1, <1>2

\* A step that leaves the store alone, and gets no further than it may.
LEMMA StoreKept ==
    ASSUME IInv, UNCHANGED <<repo, dirs, vouched>>, cut \subseteq cut',
           ~At("cloning") \/ Clone \in cut',
           ~At("sparse") \/ Clone \in cut',
           At("checkout") => job.commit \in cut',
           \/ Done
           \/ \E stage \in Stages :
                  /\ job # Idle /\ Goto(stage)
                  /\ stage \in {"address", "create", "fetch", "copy", "checkout"}
                         => repo # "absent"
                  /\ stage \in Changing => job.mutate
    PROVE  JobOK' /\ CloneOK' /\ DirsOK' /\ LeaveOK'
<1>1. DirsOK'
    <2>1. \A c \in Objects : Dir(c)' = Dir(c)
        BY DEF Dir, StoreAddress
    <2>2. DOMAIN dirs' = {StoreAddress(c) : c \in Objects}'
        BY DEF IInv, DirsOK, StoreAddress
    <2> QED BY <2>1, <2>2 DEF IInv, DirsOK
<1>2. CASE Done
    <2>1. job' = Idle /\ JobOK' /\ job'.at = "idle"
        BY <1>2, Ends
    <2> QED BY <1>1, <2>1 DEF IInv, CloneOK, LeaveOK
<1>3. CASE ~ Done
    <2>1. PICK stage \in Stages :
              /\ job # Idle /\ Goto(stage)
              /\ stage \in {"address", "create", "fetch", "copy", "checkout"}
                     => repo # "absent"
              /\ stage \in Changing => job.mutate
        BY <1>3
    <2>2. /\ job' # Idle /\ JobOK' /\ job'.at = stage
          /\ job'.commit = job.commit /\ job'.mutate = job.mutate
        BY <2>1, GoesOn DEF IInv
    <2>3. CloneOK'
        BY <2>1, <2>2 DEF IInv, CloneOK
    <2>4. LeaveOK'
        BY <2>1, <2>2 DEF IInv, LeaveOK
    <2> QED BY <1>1, <2>2, <2>3, <2>4
<1> QED
    BY <1>2, <1>3

\* The server derives and caches: what it caches is partial only if the
\* directory is.
LEMMA DeriveIInv == IInv /\ Derive => IInv'
<1> SUFFICES ASSUME IInv, Derive PROVE IInv'
    OBVIOUS
<1>1. /\ UNCHANGED <<table, vouched, repo, dirs, cut>>
      /\ At("derive") /\ job # Idle
      /\ Goto("insert") \/ Done
    BY DEF Derive, store, history, At, Idle
<1>2. TableOK' /\ IncompleteOnlyAfterCut'
    BY <1>1, TableKept
<1>3. "insert" \in Stages \ Changing
    BY DEF Stages, Changing
<1>4. JobOK' /\ CloneOK' /\ DirsOK' /\ LeaveOK'
    BY <1>1, <1>3, StoreKept DEF At
<1> QED
    BY <1>2, <1>4 DEF IInv

LEMMA InsertCacheIInv == IInv /\ InsertCache => IInv'
<1> SUFFICES ASSUME IInv, InsertCache PROVE IInv'
    OBVIOUS
<1>1. PICK c : c = job.commit
    OBVIOUS
<1>2. PICK row : row = Row(WriteResponseMeta, Dir(c))
    OBVIOUS
<1>3. /\ UNCHANGED <<vouched, repo, dirs, cut>>
      /\ At("insert") /\ job # Idle /\ Done
      /\ table' = Insert(table, CacheKey(c), row)
    BY <1>1, <1>2 DEF InsertCache, Cache, store, history, At, Idle
<1>4. JobOK' /\ CloneOK' /\ DirsOK' /\ LeaveOK'
    BY <1>3, StoreKept DEF At
<1>5. /\ DOMAIN table' = DOMAIN table \cup {CacheKey(c)}
      /\ table'[CacheKey(c)] = row
      /\ \A k \in DOMAIN table : k # CacheKey(c) => table'[k] = table[k]
    BY <1>3 DEF Insert
<1>6. TableOK'
    <2> SUFFICES ASSUME NEW k \in DOMAIN table' PROVE CacheRow(k)' \/ RefRow(k)'
        BY DEF TableOK
    <2>1. CASE k = CacheKey(c)
        <3>1. table'[k].meta = WriteResponseMeta
            BY <1>2, <1>5, <2>1 DEF Row
        <3> QED BY <2>1, <3>1, KeysApart DEF CacheRow, CacheKey, WriteResponseMeta
    <2>2. CASE k # CacheKey(c)
        <3>1. k \in DOMAIN table /\ table'[k] = table[k]
            BY <1>5, <2>2
        <3> QED BY <1>3, <3>1 DEF IInv, TableOK, CacheRow, RefRow, CacheKey,
                                  GitRefKey, WriteResponseMeta
    <2> QED BY <2>1, <2>2
<1>7. IncompleteOnlyAfterCut'
    <2> SUFFICES ASSUME NEW d \in Objects, Cached(d)' # Nothing,
                        Cached(d)'.value = "partial"
                 PROVE  d \in cut \/ Clone \in cut
        BY <1>3 DEF IncompleteOnlyAfterCut
    <2>1. CASE d = c
        <3>1. Cached(d)' = row
            BY <1>5, <2>1 DEF Cached, Get, CacheKey
        <3>2. Dir(d) = "partial"
            BY <1>2, <2>1, <3>1 DEF Row
        <3> QED BY <1>3, <3>2 DEF IInv, DirsOK, At
    <2>2. CASE d # c
        <3>1. CacheKey(d) # CacheKey(c)
            BY <2>2, KeysApart
        <3>2. Cached(d)' = Cached(d)
            BY <1>5, <3>1 DEF Cached, Get, CacheKey
        <3> QED BY <3>2 DEF IInv, IncompleteOnlyAfterCut
    <2> QED BY <2>1, <2>2
<1> QED
    BY <1>4, <1>6, <1>7 DEF IInv

\* The driver looks at the repository and at the directory, ...
LEMMA LookIInv ==
    ASSUME IInv, RequestRepo \/ RequestAddress \/ CommitExists \/ Fetch
    PROVE  IInv'
<1>1. /\ UNCHANGED <<table, vouched, repo, dirs, cut>>
      /\ job # Idle /\ job.at \in {"repo", "address", "create", "fetch"}
    BY DEF RequestRepo, RequestAddress, CommitExists, Fetch, store, history,
           At, Idle
<1>2. TableOK' /\ IncompleteOnlyAfterCut'
    BY <1>1, TableKept
<1>3. \/ Done
      \/ \E stage \in Stages :
             /\ job # Idle /\ Goto(stage)
             /\ stage \in {"address", "create", "fetch", "copy", "checkout"}
                    => repo # "absent"
             /\ stage \in Changing => job.mutate
    <2>1. CASE RequestRepo
        <3>1. CASE repo = "absent"
            BY <1>1, <2>1, <3>1 DEF RequestRepo, Exclusive, Stages
        <3>2. CASE repo # "absent"
            BY <1>1, <2>1, <3>2 DEF RequestRepo, Stages, Changing
        <3> QED BY <3>1, <3>2
    <2>2. CASE RequestAddress
        <3>1. repo # "absent"
            BY <2>2 DEF IInv, CloneOK, RequestAddress, At
        <3>2. CASE Dir(job.commit) = "absent"
            BY <1>1, <2>2, <3>1, <3>2 DEF RequestAddress, Exclusive, Stages
        <3>3. CASE Dir(job.commit) # "absent"
            BY <1>1, <2>2, <3>3 DEF RequestAddress, Stages, Changing
        <3> QED BY <3>2, <3>3
    <2>3. CASE CommitExists \/ Fetch
        <3>1. repo # "absent" /\ job.mutate
            BY <1>1, <2>3 DEF IInv, CloneOK, LeaveOK, CommitExists, Fetch, At,
                              Changing
        <3>2. Goto("copy") \/ Goto("fetch") \/ Done
            BY <2>3 DEF CommitExists, Fetch
        <3> QED BY <1>1, <3>1, <3>2 DEF Stages
    <2> QED BY <2>1, <2>2, <2>3
<1>4. JobOK' /\ CloneOK' /\ DirsOK' /\ LeaveOK'
    BY <1>1, <1>3, StoreKept DEF At
<1> QED
    BY <1>2, <1>4 DEF IInv

\* ... clones, ...
LEMMA CloneIInv ==
    ASSUME IInv, CloneStart \/ CloneEnd \/ SparseCheckout
    PROVE  IInv'
<1>1. /\ UNCHANGED <<table, vouched, dirs>> /\ cut \subseteq cut'
      /\ job # Idle /\ job.mutate /\ ~At("checkout")
    BY DEF CloneStart, CloneEnd, SparseCheckout, history, At, Idle, IInv,
           LeaveOK, Changing
<1>2. TableOK' /\ IncompleteOnlyAfterCut'
    BY <1>1, TableKept
<1>3. DirsOK'
    BY <1>1 DEF IInv, DirsOK, Dir, StoreAddress
<1>4. JobOK' /\ CloneOK' /\ LeaveOK'
    <2>1. CASE CloneStart
        <3>1. repo' = "broken" /\ Goto("cloning") /\ "cloning" \in Stages
            BY <2>1 DEF CloneStart, Stages
        <3>2. /\ JobOK' /\ job'.at = "cloning"
              /\ job'.commit = job.commit /\ job'.mutate = job.mutate
            BY <1>1, <3>1, GoesOn DEF IInv
        <3> QED BY <1>1, <3>1, <3>2 DEF IInv, CloneOK, LeaveOK, At
    <2>2. CASE CloneEnd
        <3>1. CASE Done /\ repo' = "absent"
            BY <1>1, <3>1, Ends DEF CloneOK, LeaveOK
        <3>2. CASE repo' = "sparse" /\ Goto("sparse")
            <4>1. "sparse" \in Stages
                BY DEF Stages
            <4>2. /\ JobOK' /\ job'.at = "sparse"
                  /\ job'.commit = job.commit /\ job'.mutate = job.mutate
                BY <1>1, <3>2, <4>1, GoesOn DEF IInv
            <4> QED BY <1>1, <3>2, <4>2 DEF IInv, CloneOK, LeaveOK, At
        <3> QED BY <2>2, <3>1, <3>2 DEF CloneEnd
    <2>3. CASE SparseCheckout
        <3>1. CASE Done /\ Clone \in cut' /\ repo' = repo
            BY <1>1, <3>1, Ends DEF IInv, CloneOK, LeaveOK
        <3>2. CASE repo' = "ready" /\ Goto("address")
            <4>1. "address" \in Stages \ Changing
                BY DEF Stages, Changing
            <4>2. /\ JobOK' /\ job'.at = "address"
                  /\ job'.commit = job.commit /\ job'.mutate = job.mutate
                BY <1>1, <3>2, <4>1, GoesOn DEF IInv
            <4> QED BY <1>1, <3>2, <4>2 DEF IInv, CloneOK, LeaveOK, At
        <3> QED BY <2>3, <3>1, <3>2 DEF SparseCheckout
    <2> QED BY <2>1, <2>2, <2>3
<1> QED
    BY <1>2, <1>3, <1>4 DEF IInv

\* A directory that is written has the new state, and no other changes.
LEMMA Written ==
    ASSUME DirsOK, NEW commit, NEW state, SetDir(commit, state)
    PROVE  /\ DOMAIN dirs' = {StoreAddress(c) : c \in Objects}
           /\ \A c \in Objects : Dir(c)' = IF c = commit THEN state ELSE Dir(c)
<1>1. \A c \in Objects : StoreAddress(c) \in DOMAIN dirs
    BY DEF DirsOK
<1> QED
    BY <1>1, KeysApart DEF DirsOK, Dir, SetDir, StoreAddress

\* ... copies the repository, ...
LEMMA CopyIInv == IInv /\ CopyDirAll => IInv'
<1> SUFFICES ASSUME IInv, CopyDirAll PROVE IInv'
    OBVIOUS
<1>1. /\ UNCHANGED <<table, vouched, cut, repo>>
      /\ job # Idle /\ job.mutate /\ ~At("checkout") /\ repo # "absent"
      /\ ~At("cloning") /\ ~At("sparse")
      /\ SetDir(job.commit, "partial") /\ Goto("checkout")
    BY DEF CopyDirAll, history, At, Idle, IInv, LeaveOK, Changing, CloneOK
<1>2. TableOK' /\ IncompleteOnlyAfterCut'
    BY <1>1, TableKept
<1>3. "checkout" \in Stages
    BY DEF Stages
<1>4. /\ JobOK' /\ job'.at = "checkout"
      /\ job'.commit = job.commit /\ job'.mutate = job.mutate
    BY <1>1, <1>3, GoesOn DEF IInv
<1>5. CloneOK' /\ LeaveOK'
    BY <1>1, <1>4 DEF IInv, CloneOK, LeaveOK, At
<1>6. DirsOK'
    <2>1. /\ DOMAIN dirs' = {StoreAddress(c) : c \in Objects}
          /\ \A c \in Objects :
                 Dir(c)' = IF c = job.commit THEN "partial" ELSE Dir(c)
        BY <1>1, Written DEF IInv
    <2>2. DOMAIN dirs' = {StoreAddress(c) : c \in Objects}'
        BY <2>1 DEF StoreAddress
    <2> QED BY <1>1, <1>4, <2>1, <2>2 DEF IInv, DirsOK, At
<1> QED
    BY <1>2, <1>4, <1>5, <1>6 DEF IInv

\* ... and checks the commit out: what is not complete then was not cloned
\* whole.
LEMMA CheckoutIInv == IInv /\ Checkout => IInv'
<1> SUFFICES ASSUME IInv, Checkout PROVE IInv'
    OBVIOUS
<1>1. /\ UNCHANGED <<table, vouched, repo>> /\ cut \subseteq cut'
      /\ job # Idle /\ At("checkout") /\ ~At("cloning") /\ ~At("sparse")
      /\ repo # "absent"
    BY DEF Checkout, history, At, Idle, IInv, CloneOK
<1>2. TableOK' /\ IncompleteOnlyAfterCut'
    BY <1>1, TableKept
<1>3. CASE UNCHANGED dirs /\ Done /\ job.commit \in cut'
    <2>1. JobOK' /\ DirsOK' /\ LeaveOK'
        <3>1. job' = Idle /\ JobOK' /\ job'.at = "idle"
            BY <1>3, Ends
        <3>2. DirsOK'
            <4>1. \A c \in Objects : Dir(c)' = Dir(c)
                BY <1>3 DEF Dir, StoreAddress
            <4>2. DOMAIN dirs' = {StoreAddress(c) : c \in Objects}'
                BY <1>3 DEF IInv, DirsOK, StoreAddress
            <4> QED BY <1>1, <1>3, <4>1, <4>2 DEF IInv, DirsOK
        <3> QED BY <3>1, <3>2 DEF LeaveOK
    <2>2. CloneOK'
        BY <1>1, <1>3, Ends DEF IInv, CloneOK
    <2> QED BY <1>2, <2>1, <2>2 DEF IInv
<1>4. CASE /\ SetDir(job.commit,
                     IF repo = "ready" THEN "complete" ELSE Dir(job.commit))
           /\ Goto("derive") \/ Done
           /\ UNCHANGED cut
    <2>1. "derive" \in Stages \ Changing
        BY DEF Stages, Changing
    <2>2. JobOK' /\ (job' = Idle \/ job'.at = "derive") /\ job'.at \in {"derive", "idle"}
          /\ (job' = Idle \/ (job'.commit = job.commit /\ job'.mutate = job.mutate))
        BY <1>1, <1>4, <2>1, GoesOn, Ends DEF IInv
    <2>3. LeaveOK'
        BY <1>1, <2>1, <2>2 DEF IInv, LeaveOK
    <2>4. CloneOK'
        BY <1>1, <1>4, <2>2 DEF IInv, CloneOK
    <2>5. /\ DOMAIN dirs' = {StoreAddress(c) : c \in Objects}
          /\ \A c \in Objects :
                 Dir(c)' = IF c = job.commit
                           THEN IF repo = "ready" THEN "complete" ELSE Dir(job.commit)
                           ELSE Dir(c)
        BY <1>4, Written DEF IInv
    <2>6. repo = "ready" \/ Clone \in cut
        BY <1>1 DEF IInv, CloneOK
    <2>7. ASSUME NEW c \in Objects, Dir(c)' = "partial"
          PROVE  c \in cut \/ Clone \in cut
        <3>1. CASE repo = "ready"
            BY <2>5, <2>7, <3>1 DEF IInv, DirsOK
        <3> QED BY <2>6, <3>1
    <2>8. DirsOK'
        <3>1. DOMAIN dirs' = {StoreAddress(c) : c \in Objects}'
            BY <2>5 DEF StoreAddress
        <3> QED BY <1>4, <2>7, <3>1 DEF DirsOK
    <2> QED BY <1>2, <2>2, <2>3, <2>4, <2>8 DEF IInv
<1> QED
    BY <1>3, <1>4 DEF Checkout

\* The process ends: what was under way is cut.
LEMMA EndIInv == IInv /\ End => IInv'
<1> SUFFICES ASSUME IInv, End PROVE IInv'
    OBVIOUS
<1>1. /\ UNCHANGED <<table, vouched, repo, dirs>>
      /\ Done
      /\ cut' = cut \cup CASE job.at \in {"cloning", "sparse"} -> {Clone}
                           [] job.at = "checkout"             -> {job.commit}
                           [] OTHER                           -> {}
    BY DEF End, store, Done
<1>2. cut \subseteq cut'
    BY <1>1
<1>3. /\ ~At("cloning") \/ Clone \in cut'
      /\ ~At("sparse") \/ Clone \in cut'
      /\ At("checkout") => job.commit \in cut'
    BY <1>1 DEF At
<1>4. TableOK' /\ IncompleteOnlyAfterCut'
    BY <1>1, <1>2, TableKept
<1>5. JobOK' /\ CloneOK' /\ DirsOK' /\ LeaveOK'
    BY <1>1, <1>2, <1>3, StoreKept
<1> QED
    BY <1>4, <1>5 DEF IInv

\* What a request is answered from: a path that the driver is sent for.
LEMMA LookupStarts ==
    ASSUME IInv, job = Idle, NEW settings, Lookup(settings),
           UNCHANGED <<repo, dirs, cut>>,
           settings.mutate \in BOOLEAN,
           settings.mutate => settings.commit \in vouched'
    PROVE  JobOK' /\ CloneOK' /\ DirsOK' /\ LeaveOK'
<1>1. \/ job' = Idle
      \/ job' = [at |-> "repo", commit |-> settings.commit,
                 mutate |-> settings.mutate]
    BY DEF Lookup, Start
<1>2. job.at = "idle" /\ job'.at \in {"idle", "repo"}
    BY <1>1 DEF Idle
<1>3. JobOK'
    BY <1>1 DEF JobOK, Stages
<1>4. CloneOK'
    BY <1>2 DEF IInv, CloneOK, At
<1>5. LeaveOK'
    BY <1>1 DEF LeaveOK, Changing
<1>6. DirsOK'
    <2>1. \A c \in Objects : Dir(c)' = Dir(c)
        BY DEF Dir, StoreAddress
    <2>2. DOMAIN dirs' = {StoreAddress(c) : c \in Objects}'
        BY DEF IInv, DirsOK, StoreAddress
    <2> QED BY <1>2, <2>1, <2>2 DEF IInv, DirsOK, At
<1> QED
    BY <1>3, <1>4, <1>5, <1>6

\* The headers of a request: trusted means that its key is the one, or that
\* none is needed.
LEMMA HeadersRead ==
    ASSUME NEW asked, NEW settings, settings = ReadHeaders(asked)
    PROVE  /\ settings = [trusted |-> settings.trusted, cached |-> settings.cached,
                          mutate |-> FALSE, insert |-> asked.value, commit |-> None]
           /\ settings.trusted => TrustKey \in {None, asked.key}
BY DEF ReadHeaders, Base

LEMMA HandleRequestIInv ==
    ASSUME IInv, NEW name, NEW asked, HandleRequest(name, asked)
    PROVE  IInv'
<1>1. PICK settings : settings = ReadHeaders(asked)
    OBVIOUS
<1>2. /\ settings.insert = asked.value /\ settings.commit = None
      /\ settings.trusted => TrustKey \in {None, asked.key}
      /\ \A c, m : [settings EXCEPT !.commit = c, !.mutate = m].commit = c
      /\ \A c, m : [settings EXCEPT !.commit = c, !.mutate = m].mutate = m
    BY <1>1, HeadersRead
<1>3. /\ UNCHANGED <<repo, dirs, cut>> /\ vouched \subseteq vouched'
      /\ job = Idle
      /\ InsertRef(name, settings) \/ GetRef(name, settings)
    BY <1>1 DEF HandleRequest, store
<1>4. CASE InsertRef(name, settings)
    <2>1. PICK commit : commit = settings.insert
        OBVIOUS
    <2>2. commit \in vouched'
        BY <1>2, <1>4, <2>1 DEF InsertRef, HandleRequest
    <2>3. JobOK' /\ CloneOK' /\ DirsOK' /\ LeaveOK'
        <3>1. PICK s : s = [settings EXCEPT !.commit = commit, !.mutate = TRUE]
            OBVIOUS
        <3>2. Lookup(s) /\ s.commit = commit /\ s.mutate = TRUE
            BY <1>2, <1>4, <2>1, <3>1 DEF InsertRef
        <3> QED BY <1>3, <2>2, <3>2, LookupStarts
    <2>4. PICK row : row = Row(<<>>, commit)
        OBVIOUS
    <2>5. table' = Insert(table, GitRefKey(name), row)
        BY <1>4, <2>1, <2>4 DEF InsertRef, SetRef
    <2>6. /\ DOMAIN table' = DOMAIN table \cup {GitRefKey(name)}
          /\ table'[GitRefKey(name)] = row
          /\ \A k \in DOMAIN table : k # GitRefKey(name) => table'[k] = table[k]
        BY <2>5 DEF Insert
    <2>7. TableOK'
        <3> SUFFICES ASSUME NEW k \in DOMAIN table' PROVE CacheRow(k)' \/ RefRow(k)'
            BY DEF TableOK
        <3>1. CASE k = GitRefKey(name)
            <4>1. table'[k].meta = <<>> /\ table'[k].value = commit
                BY <2>4, <2>6, <3>1 DEF Row
            <4> QED BY <2>2, <3>1, <4>1, KeysApart DEF RefRow, GitRefKey
        <3>2. CASE k # GitRefKey(name)
            <4>1. k \in DOMAIN table /\ table'[k] = table[k]
                BY <2>6, <3>2
            <4> QED BY <1>3, <4>1 DEF IInv, TableOK, CacheRow, RefRow, CacheKey,
                                      GitRefKey, WriteResponseMeta
        <3> QED BY <3>1, <3>2
    <2>8. IncompleteOnlyAfterCut'
        <3> SUFFICES ASSUME NEW d \in Objects, Cached(d)' # Nothing,
                            Cached(d)'.value = "partial"
                     PROVE  d \in cut \/ Clone \in cut
            BY <1>3 DEF IncompleteOnlyAfterCut
        <3>1. CacheKey(d) # GitRefKey(name)
            BY KeysApart
        <3>2. Cached(d)' = Cached(d)
            BY <2>6, <3>1 DEF Cached, Get, CacheKey
        <3> QED BY <3>2 DEF IInv, IncompleteOnlyAfterCut
    <2> QED BY <2>3, <2>7, <2>8 DEF IInv
<1>5. CASE GetRef(name, settings)
    <2>1. table' = table
        BY <1>5 DEF GetRef
    <2>2. TableOK'
        BY <1>3, <2>1 DEF IInv, TableOK, CacheRow, RefRow, CacheKey, GitRefKey,
                          WriteResponseMeta
    <2>3. IncompleteOnlyAfterCut'
        BY <1>3, <2>1 DEF IInv, IncompleteOnlyAfterCut, Cached, CacheKey
    <2>4. JobOK' /\ CloneOK' /\ DirsOK' /\ LeaveOK'
        <3>1. CASE CommitOf(name) # Nothing
            <4>1. PICK s : s = [settings EXCEPT !.commit = CommitOf(name).value,
                                                !.mutate = TRUE]
                OBVIOUS
            <4>2. Lookup(s) /\ s.commit = CommitOf(name).value /\ s.mutate = TRUE
                BY <1>2, <1>5, <3>1, <4>1 DEF GetRef
            <4>3. GitRefKey(name) \in DOMAIN table
                  /\ CommitOf(name) = table[GitRefKey(name)]
                BY <3>1 DEF CommitOf, Get
            <4>4. RefRow(GitRefKey(name))
                BY <4>3, KeysApart DEF IInv, TableOK, CacheRow
            <4>5. CommitOf(name).value \in vouched'
                BY <1>3, <4>3, <4>4 DEF RefRow
            <4> QED BY <1>3, <4>2, <4>5, LookupStarts
        <3>2. CASE CommitOf(name) = Nothing
            <4>1. PICK s : s = [settings EXCEPT !.commit = name, !.mutate = FALSE]
                OBVIOUS
            <4>2. Lookup(s) /\ s.mutate = FALSE
                BY <1>2, <1>5, <3>2, <4>1 DEF GetRef
            <4> QED BY <1>3, <4>2, LookupStarts
        <3> QED BY <3>1, <3>2
    <2> QED BY <2>2, <2>3, <2>4 DEF IInv
<1> QED
    BY <1>3, <1>4, <1>5

\* IInv is an invariant.
LEMMA Invariance == Spec => []IInv
<1>1. IInv /\ [Next]_vars => IInv'
    <2> SUFFICES ASSUME IInv, [Next]_vars PROVE IInv'
        OBVIOUS
    <2>1. CASE Publish \/ Sync \/ UNCHANGED vars
        <3>1. UNCHANGED <<repo, dirs, table, job, vouched, cut>>
            BY <2>1 DEF Publish, Sync, vars, store, history
        <3> QED BY <3>1 DEF IInv, JobOK, CloneOK, DirsOK, Dir, StoreAddress,
                            TableOK, CacheRow, RefRow, CacheKey, GitRefKey,
                            WriteResponseMeta, LeaveOK, IncompleteOnlyAfterCut,
                            Cached, At
    <2>2. CASE SyncSend \/ \E name \in AllNames, asked \in Asked : Request(name, asked)
        BY <2>2, HandleRequestIInv DEF SyncSend, Request
    <2>3. CASE Drive
        BY <2>3, LookIInv, CloneIInv, CopyIInv, CheckoutIInv DEF Drive
    <2>4. CASE Derive \/ InsertCache \/ End
        BY <2>4, DeriveIInv, InsertCacheIInv, EndIInv
    <2> QED BY <2>1, <2>2, <2>3, <2>4 DEF Next, Serve
<1> QED
    BY <1>1, InitIInv, PTL DEF Spec

(***************************************************************************)
(* IncompleteOnlyAfterCut holds for all objects and remotes, whatever      *)
(* fails and whenever the process ends.                                    *)
(***************************************************************************)
THEOREM IncompleteAlways == Spec => []IncompleteOnlyAfterCut
<1>1. IInv => IncompleteOnlyAfterCut
    BY DEF IInv
<1> QED
    BY <1>1, Invariance, PTL

(***************************************************************************)
(* MutatesOnlyVouched holds for all keys and names: only what somebody     *)
(* trusted gave is cloned, fetched or checked out.                         *)
(***************************************************************************)
THEOREM MutatesAlways == Spec => MutatesOnlyVouched
<1>1. ASSUME IInv, [Next]_vars, store' # store
      PROVE  job.commit \in vouched
    <2>1. job # Idle /\ job.at \in Changing
        <3>1. CASE Drive
            BY <1>1, <3>1 DEF Drive, RequestRepo, CloneStart, CloneEnd,
                SparseCheckout, RequestAddress, CommitExists, Fetch, CopyDirAll,
                Checkout, At, Idle, Changing
        <3>2. CASE ~ Drive
            BY <1>1, <3>2 DEF Next, Serve, Publish, Sync, SyncSend, Request,
                HandleRequest, Derive, InsertCache, End, vars
        <3> QED BY <3>1, <3>2
    <2> QED BY <1>1, <2>1 DEF IInv, LeaveOK
<1>2. IInv /\ [Next]_vars => [store' # store => job.commit \in vouched]_vars
    BY <1>1
<1> QED
    BY <1>2, Invariance, PTL DEF Spec, MutatesOnlyVouched

-----------------------------------------------------------------------------
\* What a byte may be.
Octet == 0 .. 255

\* Sequences of bytes, joined, cut and compared.
LEMMA JoinedBytes ==
    \A a, b \in Seq(Octet) :
        /\ a \o b \in Seq(Octet)
        /\ Len(a \o b) = Len(a) + Len(b)
        /\ \A i \in 1 .. Len(a) + Len(b) :
               (a \o b)[i] = IF i <= Len(a) THEN a[i] ELSE b[i - Len(a)]
OBVIOUS

LEMMA CutBytes ==
    \A a \in Seq(Octet) : \A from, to \in 1 .. Len(a) :
        from <= to + 1 =>
            /\ SubSeq(a, from, to) \in Seq(Octet)
            /\ Len(SubSeq(a, from, to)) = to - from + 1
            /\ \A i \in 1 .. to - from + 1 :
                   SubSeq(a, from, to)[i] = a[from + i - 1]
OBVIOUS

LEMMA SameBytes ==
    \A a, b \in Seq(Octet) :
        Len(a) = Len(b) /\ (\A i \in 1 .. Len(a) : a[i] = b[i]) => a = b
OBVIOUS

\* The metadata of a response, byte by byte.
LEMMA ResponseMeta ==
    /\ WriteResponseMeta \in Seq(Octet)
    /\ Len(WriteResponseMeta) = 5 + Len(Headers)
    /\ WriteResponseMeta[1] = 66 /\ WriteResponseMeta[2] = 68
    /\ WriteResponseMeta[3] = 82
    /\ WriteResponseMeta[4] = 0 /\ WriteResponseMeta[5] = 0
    /\ \A i \in 1 .. Len(Headers) : WriteResponseMeta[5 + i] = Headers[i]
<1> DEFINE front == <<66, 68, 82, 0, 0>>
<1>1. /\ front \in Seq(Octet) /\ Len(front) = 5
      /\ front[1] = 66 /\ front[2] = 68 /\ front[3] = 82
      /\ front[4] = 0 /\ front[5] = 0
    BY DEF Octet
<1>2. ResponsePrefix \o <<0, 0>> \o <<>> = front
    <2> DEFINE length == <<0, 0>>
    <2>1. /\ ResponsePrefix \in Seq(Octet) /\ Len(ResponsePrefix) = 3
          /\ ResponsePrefix[1] = 66 /\ ResponsePrefix[2] = 68
          /\ ResponsePrefix[3] = 82
        BY DEF ResponsePrefix, Octet
    <2>2. /\ length \in Seq(Octet) /\ Len(length) = 2
          /\ length[1] = 0 /\ length[2] = 0
        BY DEF Octet
    <2> HIDE DEF front, length
    <2>3. /\ ResponsePrefix \o length \in Seq(Octet)
          /\ Len(ResponsePrefix \o length) = 5
          /\ \A i \in 1 .. 5 :
                 (ResponsePrefix \o length)[i] =
                     IF i <= 3 THEN ResponsePrefix[i] ELSE length[i - 3]
        <3>1. /\ ResponsePrefix \o length \in Seq(Octet)
              /\ Len(ResponsePrefix \o length) = Len(ResponsePrefix) + Len(length)
              /\ \A i \in 1 .. Len(ResponsePrefix) + Len(length) :
                     (ResponsePrefix \o length)[i] =
                         IF i <= Len(ResponsePrefix) THEN ResponsePrefix[i]
                         ELSE length[i - Len(ResponsePrefix)]
            BY <2>1, <2>2, JoinedBytes, Zenon
        <3> QED BY <2>1, <2>2, <3>1
    <2>4. \A i \in 1 .. 5 : (ResponsePrefix \o length)[i] = front[i]
        <3> DEFINE both == ResponsePrefix \o length
        <3>1. \A i \in 1 .. 5 : i = 1 \/ i = 2 \/ i = 3 \/ i = 4 \/ i = 5
            OBVIOUS
        <3>2. \A i \in 1 .. 5 :
                  both[i] = IF i <= 3 THEN ResponsePrefix[i] ELSE length[i - 3]
            BY <2>3, Zenon
        <3> HIDE DEF both
        <3>3. /\ both[1] = ResponsePrefix[1] /\ both[2] = ResponsePrefix[2]
              /\ both[3] = ResponsePrefix[3]
            BY <3>2
        <3>4. both[4] = length[1] /\ both[5] = length[2]
            BY <3>2
        <3>5. /\ both[1] = front[1] /\ both[2] = front[2] /\ both[3] = front[3]
              /\ both[4] = front[4] /\ both[5] = front[5]
            BY <1>1, <2>1, <2>2, <3>3, <3>4
        <3>6. ASSUME NEW i \in 1 .. 5 PROVE both[i] = front[i]
            <4>1. CASE i = 1
                BY <3>5, <4>1
            <4>2. CASE i = 2
                BY <3>5, <4>2
            <4>3. CASE i = 3
                BY <3>5, <4>3
            <4>4. CASE i = 4
                BY <3>5, <4>4
            <4>5. CASE i = 5
                BY <3>5, <4>5
            <4> QED BY <3>1, <4>1, <4>2, <4>3, <4>4, <4>5
        <3>7. \A i \in 1 .. 5 : both[i] = front[i]
            BY <3>6
        <3> QED BY <3>7 DEF both
    <2>5. ResponsePrefix \o length = front
        <3>1. Len(ResponsePrefix \o length) = Len(front)
            BY <1>1, <2>3
        <3>2. \A i \in 1 .. Len(ResponsePrefix \o length) :
                  (ResponsePrefix \o length)[i] = front[i]
            BY <2>3, <2>4
        <3> QED BY <1>1, <2>3, <3>1, <3>2, SameBytes, Zenon
    <2>6. front \o <<>> = front
        BY <1>1, ConcatEmptySeq
    <2> QED BY <2>5, <2>6 DEF length
<1> HIDE DEF front
<1>3. WriteResponseMeta = front \o Headers
    <2>1. /\ Len(<<>>) = 0 /\ 0 % Byte = 0 /\ 0 \div Byte = 0
          /\ ~(0 > U16Max)
        BY DEF Byte, U16Max
    <2>2. WriteResponseMeta = ResponsePrefix \o <<0, 0>> \o <<>> \o Headers
        BY <2>1, Zenon DEF WriteResponseMeta, JoinPrefixWithMeta
    <2> QED BY <1>2, <2>2
<1>4. Headers \in Seq(Octet)
    BY HeadersAssumption DEF Octet
<1>5. Len(front) = 5 /\ Len(Headers) \in Nat
    BY <1>1, <1>4
<1>6. /\ front \o Headers \in Seq(Octet)
      /\ Len(front \o Headers) = 5 + Len(Headers)
      /\ \A i \in 1 .. 5 + Len(Headers) :
             (front \o Headers)[i] = IF i <= 5 THEN front[i] ELSE Headers[i - 5]
    <2>1. /\ front \o Headers \in Seq(Octet)
          /\ Len(front \o Headers) = Len(front) + Len(Headers)
          /\ \A i \in 1 .. Len(front) + Len(Headers) :
                 (front \o Headers)[i] = IF i <= Len(front) THEN front[i]
                                         ELSE Headers[i - Len(front)]
        BY <1>1, <1>4, JoinedBytes, Zenon
    <2> QED BY <1>5, <2>1
<1>7. \A i \in 1 .. Len(Headers) : (front \o Headers)[5 + i] = Headers[i]
    BY <1>5, <1>6
<1>8. \A i \in 1 .. 5 : (front \o Headers)[i] = front[i]
    BY <1>5, <1>6
<1> QED
    BY <1>1, <1>3, <1>6, <1>7, <1>8

\* read_meta takes it apart again.
LEMMA ReadsBack ==
    ReadMeta(WriteResponseMeta) =
        [prefix |-> ResponsePrefix, search |-> <<>>, meta |-> Headers]
<1> DEFINE m == WriteResponseMeta
<1>1. /\ m \in Seq(Octet) /\ Len(m) = 5 + Len(Headers)
      /\ m[1] = 66 /\ m[2] = 68 /\ m[3] = 82 /\ m[4] = 0 /\ m[5] = 0
      /\ \A i \in 1 .. Len(Headers) : m[5 + i] = Headers[i]
    BY ResponseMeta
<1>2. Headers \in Seq(Octet) /\ Len(Headers) \in Nat
    BY HeadersAssumption DEF Octet
<1> HIDE DEF m
<1>3. SubSeq(m, 1, 3) = ResponsePrefix
    <2>1. /\ SubSeq(m, 1, 3) \in Seq(Octet) /\ Len(SubSeq(m, 1, 3)) = 3
          /\ \A i \in 1 .. 3 : SubSeq(m, 1, 3)[i] = m[i]
        BY <1>1, <1>2, CutBytes
    <2>2. ResponsePrefix \in Seq(Octet) /\ Len(ResponsePrefix) = 3
        BY DEF ResponsePrefix, Octet
    <2>3. \A i \in 1 .. 3 : m[i] = ResponsePrefix[i]
        BY <1>1 DEF ResponsePrefix
    <2> QED BY <2>1, <2>2, <2>3, SameBytes
<1>4. SubSeq(m, 6, 5) = <<>>
    BY <1>1, SubSeqEmpty
<1>5. SubSeq(m, 6, Len(m)) = Headers
    <2>1. /\ SubSeq(m, 6, Len(m)) \in Seq(Octet)
          /\ Len(SubSeq(m, 6, Len(m))) = Len(Headers)
          /\ \A i \in 1 .. Len(Headers) : SubSeq(m, 6, Len(m))[i] = m[5 + i]
        BY <1>1, <1>2
    <2> QED BY <1>1, <1>2, <2>1, SameBytes
<1>6. ~(Len(m) < 5) /\ 5 + m[4] + m[5] * Byte = 5 /\ 5 + 1 = 6
    BY <1>1, <1>2 DEF Byte
<1>7. ReadMeta(m) = [prefix |-> ResponsePrefix, search |-> <<>>, meta |-> Headers]
    BY <1>3, <1>4, <1>5, <1>6 DEF ReadMeta
<1> QED
    BY <1>7 DEF m

\* The range of the prefix of responses ends before the next such prefix.
LEMMA ResponseRange == PrefixRange(ResponsePrefix) = <<66, 68, 83>>
<1> DEFINE start == ResponsePrefix
           carried == {i \in DOMAIN start :
                          start[i] < Byte - 1
                          /\ \A j \in i + 1 .. Len(start) : start[j] = Byte - 1}
<1>1. /\ start \in Seq(Octet) /\ Len(start) = 3 /\ DOMAIN start = 1 .. 3
      /\ start[1] = 66 /\ start[2] = 68 /\ start[3] = 82
    BY DEF ResponsePrefix, Octet
<1>2. carried = {3}
    BY <1>1 DEF Byte
<1>3. PrefixRange(start) =
          [j \in DOMAIN start |-> IF j < 3 THEN start[j]
                                  ELSE IF j = 3 THEN start[j] + 1 ELSE 0]
    BY <1>2 DEF PrefixRange
<1> QED
    BY <1>1, <1>3

\* It has the metadata of each response and not that of a ref, which has none.
LEMMA InRange ==
    /\ ~Less(WriteResponseMeta, ResponsePrefix)
    /\ Less(WriteResponseMeta, PrefixRange(ResponsePrefix))
    /\ Less(<<>>, ResponsePrefix)
<1> DEFINE m == WriteResponseMeta
           start == ResponsePrefix
           end == <<66, 68, 83>>
<1>1. /\ m \in Seq(Octet) /\ Len(m) = 5 + Len(Headers) /\ Len(Headers) \in Nat
      /\ m[1] = 66 /\ m[2] = 68 /\ m[3] = 82
    BY ResponseMeta, HeadersAssumption DEF Octet
<1>2. /\ start \in Seq(Octet) /\ Len(start) = 3
      /\ start[1] = 66 /\ start[2] = 68 /\ start[3] = 82
    BY DEF ResponsePrefix, Octet
<1>3. /\ end \in Seq(Octet) /\ Len(end) = 3
      /\ end[1] = 66 /\ end[2] = 68 /\ end[3] = 83
    BY DEF Octet
<1>4. PrefixRange(start) = end
    BY ResponseRange
<1> HIDE DEF m, start, end
<1>5. ~Less(m, start)
    <2>1. \A n \in 0 .. Len(m) : n < Len(start) => n \in {0, 1, 2} /\ n < Len(m)
        BY <1>1, <1>2
    <2>2. m[0 + 1] = start[0 + 1] /\ m[1 + 1] = start[1 + 1] /\ m[2 + 1] = start[2 + 1]
        BY <1>1, <1>2
    <2>3. \A n \in {0, 1, 2} : ~(m[n + 1] < start[n + 1])
        BY <1>1, <1>2
    <2> QED BY <2>1, <2>3 DEF Less
<1>6. Less(m, end)
    <2>1. /\ SubSeq(m, 1, 2) \in Seq(Octet) /\ Len(SubSeq(m, 1, 2)) = 2
          /\ \A i \in 1 .. 2 : SubSeq(m, 1, 2)[i] = m[i]
        BY <1>1, CutBytes
    <2>2. /\ SubSeq(end, 1, 2) \in Seq(Octet) /\ Len(SubSeq(end, 1, 2)) = 2
          /\ \A i \in 1 .. 2 : SubSeq(end, 1, 2)[i] = end[i]
        BY <1>3, CutBytes
    <2>3. \A i \in 1 .. 2 : m[i] = end[i]
        BY <1>1, <1>3
    <2>4. SubSeq(m, 1, 2) = SubSeq(end, 1, 2)
        BY <2>1, <2>2, <2>3, SameBytes
    <2>5. 2 \in 0 .. Len(m) /\ 2 < Len(end) /\ m[2 + 1] < end[2 + 1]
        BY <1>1, <1>3
    <2> QED BY <2>4, <2>5 DEF Less
<1>7. Less(<<>>, start)
    <2>1. SubSeq(<<>>, 1, 0) = <<>> /\ SubSeq(start, 1, 0) = <<>>
        BY <1>2, SubSeqEmpty
    <2>2. Len(<<>>) = 0 /\ 0 \in 0 .. 0 /\ 0 < Len(start)
        BY <1>2
    <2> QED BY <2>1, <2>2 DEF Less
<1> QED
    BY <1>4, <1>5, <1>6, <1>7 DEF m, start

(***************************************************************************)
(* ResponsesReadBack holds for all headers that are bytes, however many,   *)
(* and for all that was ever inserted: no ref is taken for a response.     *)
(***************************************************************************)
THEOREM ReadBackAlways == Spec => []ResponsesReadBack
<1>1. ASSUME IInv PROVE ResponsesReadBack
    <2> DEFINE cached == {k \in DOMAIN table : Head(k) = "borink-cache"}
    <2>1. ASSUME NEW k \in cached PROVE CacheRow(k)
        <3>1. \A name : Head(GitRefKey(name)) = "borink-git-ref"
            BY DEF GitRefKey
        <3> QED BY <1>1, <2>1, <3>1 DEF IInv, TableOK, RefRow
    <2>2. ASSUME NEW k \in DOMAIN table, CacheRow(k) PROVE k \in cached
        <3>1. \A c : Head(CacheKey(c)) = "borink-cache"
            BY DEF CacheKey
        <3> QED BY <2>2, <3>1 DEF CacheRow
    <2>3. \A k \in DOMAIN table \ cached : table[k].meta = <<>>
        BY <1>1, <2>2 DEF IInv, TableOK, RefRow
    <2>4. \A k \in cached : table[k].meta = WriteResponseMeta
        BY <2>1 DEF CacheRow
    <2>5. cached = Metas(table, ResponsePrefix, PrefixRange(ResponsePrefix))
        BY <2>3, <2>4, InRange DEF Metas
    <2> QED BY <2>4, <2>5, ReadsBack DEF ResponsesReadBack
<1> QED
    BY <1>1, Invariance, PTL

-----------------------------------------------------------------------------
(* Lazy: what its documentation says of it is true where all bytes decode. *)
(* The violation that TLC finds needs bytes of something else.             *)

CONSTANTS Holders, Values, Garbage

VARIABLES lazy, sent, result

L == INSTANCE Lazy

\* A Lazy as one of its two constructors leaves it.
Whole == {L!FromBytes(b) : b \in L!AllBytes} \cup {L!FromInner(v) : v \in Values}

LazyIInv ==
    /\ lazy \in [Holders -> SUBSET Whole]
    /\ sent \subseteq L!AllBytes \cup {L!Base64(b) : b \in L!AllBytes}
    /\ result = "ok"

(***************************************************************************)
(* A whole Lazy has data of one kind, and a value can be taken out of it.  *)
(***************************************************************************)
LEMMA WholeLazy ==
    ASSUME Garbage = {}, NEW x \in Whole
    PROVE  /\ (x.bytes = L!None) # (x.inner = L!None)
           /\ ~L!Invalid(x)
           /\ x.bytes \subseteq L!AllBytes /\ x.inner \subseteq Values
           /\ \A b \in L!AllBytes : \E v \in Values : L!Decoded(b) = L!Some(v)
           /\ L!Taken(x) # L!None /\ L!Taken(x) \subseteq Values
<1>1. \A b \in L!AllBytes : \E v \in Values : b = L!Bytes(v)
  BY DEF L!AllBytes
<1>2. \A v, w \in Values : L!Bytes(v) = L!Bytes(w) => v = w
  BY DEF L!Bytes
<1>3. \A b \in L!AllBytes : \E v \in Values : L!Decoded(b) = L!Some(v)
  BY <1>1, <1>2 DEF L!Decoded, L!Some
<1>4. CASE \E b \in L!AllBytes : x = L!FromBytes(b)
  <2>1. PICK b \in L!AllBytes : x = L!FromBytes(b)
    BY <1>4
  <2>2. x.bytes = {b} /\ x.inner = {}
    BY <2>1 DEF L!FromBytes, L!Some, L!None
  <2>3. L!Taken(x) = L!Decoded(b)
    BY <2>2 DEF L!Taken, L!None
  <2>4. L!Decoded(b) \subseteq Values /\ L!Decoded(b) # {}
    BY <1>3 DEF L!Decoded, L!Some
  <2> QED
    BY <1>3, <2>2, <2>3, <2>4 DEF L!Invalid, L!None
<1>5. CASE \E v \in Values : x = L!FromInner(v)
  <2>1. PICK v \in Values : x = L!FromInner(v)
    BY <1>5
  <2>2. x.bytes = {} /\ x.inner = {v}
    BY <2>1 DEF L!FromInner, L!Some, L!None
  <2> QED
    BY <1>3, <2>2 DEF L!Taken, L!Invalid, L!None
<1> QED
  BY <1>4, <1>5 DEF Whole

(***************************************************************************)
(* A holder that gets a whole Lazy, or loses its own, breaks nothing.      *)
(***************************************************************************)
LEMMA StoredLazy ==
    ASSUME lazy \in [Holders -> SUBSET Whole], NEW h \in Holders
    PROVE  /\ \A x \in Whole : L!Keeps(h, x) => lazy' \in [Holders -> SUBSET Whole]
           /\ L!Consumed(h) => lazy' \in [Holders -> SUBSET Whole]
BY DEF L!Keeps, L!Consumed, L!Some, L!None

(***************************************************************************)
(* The invariant is inductive.                                             *)
(***************************************************************************)
LEMMA NextLazy ==
    ASSUME Garbage = {}, LazyIInv, [L!Next]_L!vars
    PROVE  LazyIInv'
<1>0. CASE UNCHANGED L!vars
  BY <1>0 DEF LazyIInv, L!vars
<1> SUFFICES ASSUME NEW h \in Holders,
                    \/ L!New(h) \/ L!Map(h) \/ L!TryInner(h) \/ L!TryTake(h)
                    \/ L!BytesOf(h) \/ L!TakeBytes(h) \/ L!Serialize(h)
                    \/ L!Deserialize(h) \/ L!UnwrapLazy(h)
                    \/ \E g \in Holders : L!Clone(h, g)
             PROVE  LazyIInv'
  BY <1>0 DEF L!Next
<1>1. lazy \in [Holders -> SUBSET Whole] /\ result = "ok"
  BY DEF LazyIInv
<1>2. \A b \in L!AllBytes : L!FromBytes(b) \in Whole
  BY DEF Whole
<1>3. \A v \in Values : L!FromInner(v) \in Whole /\ L!Bytes(v) \in L!AllBytes
  BY DEF Whole, L!AllBytes
<1>4. \A x \in lazy[h] : x \in Whole
  BY <1>1
<1>5. /\ \A x \in Whole : L!Keeps(h, x) => lazy' \in [Holders -> SUBSET Whole]
      /\ L!Consumed(h) => lazy' \in [Holders -> SUBSET Whole]
  BY <1>1, StoredLazy
<1>6. CASE L!New(h)
  BY <1>2, <1>3, <1>5, <1>6 DEF L!New, LazyIInv
<1>7. CASE L!Map(h)
  <2>1. PICK x \in lazy[h] :
            /\ \/ /\ \E v \in x.inner, op \in [Values -> Values] :
                        L!Keeps(h, L!FromInner(op[v]))
                  /\ result' = "ok"
               \/ /\ x.inner = L!None
                  /\ \E b \in x.bytes : L!Keeps(h, L!FromBytes(b))
                  /\ result' = "ok"
               \/ L!Panic(x) /\ L!Consumed(h)
            /\ UNCHANGED sent
    BY <1>7 DEF L!Map
  <2>2. ~L!Panic(x) /\ x.bytes \subseteq L!AllBytes /\ x.inner \subseteq Values
    BY <1>4, WholeLazy DEF L!Panic
  <2> QED
    BY <1>2, <1>3, <1>5, <2>1, <2>2 DEF LazyIInv
<1>8. CASE L!TryInner(h)
  <2>1. PICK x \in lazy[h] :
            /\ \/ \E b \in x.bytes :
                     IF L!Decoded(b) # L!None
                     THEN /\ L!Keeps(h, [bytes |-> L!None, inner |-> L!Decoded(b)])
                          /\ result' = "ok"
                     ELSE /\ L!Keeps(h, [x EXCEPT !.bytes = L!None])
                          /\ result' = "error"
               \/ /\ x.bytes = L!None /\ x.inner # L!None
                  /\ result' = "ok"
                  /\ UNCHANGED lazy
               \/ L!Panic(x) /\ UNCHANGED lazy
            /\ UNCHANGED sent
    BY <1>8 DEF L!TryInner
  <2>2. /\ ~L!Panic(x) /\ x.bytes \subseteq L!AllBytes
        /\ \A b \in L!AllBytes : \E v \in Values : L!Decoded(b) = L!Some(v)
    BY <1>4, WholeLazy DEF L!Panic
  <2>3. ASSUME NEW b \in x.bytes
        PROVE  \E v \in Values : /\ L!Decoded(b) # L!None
                                 /\ [bytes |-> L!None, inner |-> L!Decoded(b)]
                                      = L!FromInner(v)
    <3>1. PICK v \in Values : L!Decoded(b) = L!Some(v)
      BY <2>2
    <3> QED
      BY <3>1 DEF L!FromInner, L!Some, L!None
  <2> QED
    BY <1>1, <1>3, <1>5, <2>1, <2>2, <2>3 DEF LazyIInv
<1>9. CASE L!TryTake(h)
  <2>1. PICK x \in lazy[h] :
            /\ L!Consumed(h)
            /\ \/ /\ ~L!Invalid(x)
                  /\ result' = IF L!Taken(x) # L!None THEN "ok" ELSE "error"
               \/ L!Panic(x)
            /\ UNCHANGED sent
    BY <1>9 DEF L!TryTake
  <2>2. ~L!Panic(x) /\ L!Taken(x) # L!None
    BY <1>4, WholeLazy DEF L!Panic
  <2> QED
    BY <1>5, <2>1, <2>2 DEF LazyIInv
<1>10. CASE L!BytesOf(h)
  <2>1. PICK x \in lazy[h] :
            /\ \/ /\ \E v \in x.inner : L!Keeps(h, L!FromBytes(L!Bytes(v)))
                  /\ result' = "ok"
               \/ /\ result' = "ok"
                  /\ UNCHANGED lazy
               \/ L!Panic(x)
            /\ UNCHANGED sent
    BY <1>10 DEF L!BytesOf
  <2>2. ~L!Panic(x) /\ x.inner \subseteq Values
    BY <1>4, WholeLazy DEF L!Panic
  <2> QED
    BY <1>1, <1>2, <1>3, <1>5, <2>1, <2>2 DEF LazyIInv
<1>11. CASE L!TakeBytes(h)
  <2>1. ASSUME NEW x \in lazy[h] PROVE ~L!Panic(x)
    BY <1>4, WholeLazy DEF L!Panic
  <2> QED
    BY <1>5, <1>11, <2>1 DEF L!TakeBytes, LazyIInv
<1>12. CASE L!Serialize(h)
  <2>1. PICK x \in lazy[h] :
            /\ \/ \E data \in IF x.bytes # L!None THEN x.bytes
                              ELSE {L!Bytes(v) : v \in x.inner} :
                     /\ \E form \in {data, L!Base64(data)} :
                           sent' = sent \cup {form}
                     /\ result' = "ok"
               \/ L!Panic(x) /\ UNCHANGED sent
            /\ UNCHANGED lazy
    BY <1>12 DEF L!Serialize
  <2>2. ~L!Panic(x) /\ x.bytes \subseteq L!AllBytes /\ x.inner \subseteq Values
    BY <1>4, WholeLazy DEF L!Panic
  <2>3. PICK data \in L!AllBytes :
            /\ \E form \in {data, L!Base64(data)} : sent' = sent \cup {form}
            /\ result' = "ok"
            /\ UNCHANGED lazy
    BY <1>3, <2>1, <2>2
  <2> QED
    BY <1>1, <2>3 DEF LazyIInv
<1>13. CASE L!Deserialize(h)
  BY <1>2, <1>5, <1>13 DEF L!Deserialize, LazyIInv
<1>14. CASE L!UnwrapLazy(h)
  <2>1. PICK x \in lazy[h] :
            /\ \/ \E y \in L!Unwrapped(x) : L!Keeps(h, y) /\ result' = "ok"
               \/ L!Unwrapped(x) = L!None
               \/ L!Panic(x)
            /\ UNCHANGED sent
    BY <1>14 DEF L!UnwrapLazy
  <2>2. ~L!Panic(x) /\ L!Taken(x) # L!None /\ L!Taken(x) \subseteq Values
    BY <1>4, WholeLazy DEF L!Panic
  <2>3. L!Unwrapped(x) # L!None /\ L!Unwrapped(x) \subseteq Whole
    BY <1>3, <2>2 DEF L!Unwrapped, L!None
  <2> QED
    BY <1>5, <2>1, <2>2, <2>3 DEF LazyIInv
<1>15. CASE \E g \in Holders : L!Clone(h, g)
  BY <1>1, <1>4, <1>15, StoredLazy DEF L!Clone, LazyIInv
<1> QED
  BY <1>6, <1>7, <1>8, <1>9, <1>10, <1>11, <1>12, <1>13, <1>14, <1>15

(***************************************************************************)
(* Where no bytes are garbage, a Lazy has bytes or a value and never both  *)
(* or neither, whatever is called in whatever order, and no call fails or  *)
(* panics: the documented property is lost in one way only, by the bytes   *)
(* that try_inner takes and cannot decode.                                 *)
(***************************************************************************)
THEOREM OneHoldsWhereAllDecode ==
    Garbage = {} => (L!Spec => [](L!OnlyOneHolds /\ result = "ok"))
<1> SUFFICES ASSUME Garbage = {}
             PROVE  L!Spec => [](L!OnlyOneHolds /\ result = "ok")
  OBVIOUS
<1>1. L!Init => LazyIInv
  BY DEF L!Init, LazyIInv, L!None
<1>2. LazyIInv /\ [L!Next]_L!vars => LazyIInv'
  BY NextLazy
<1>3. LazyIInv => L!OnlyOneHolds /\ result = "ok"
  BY WholeLazy DEF LazyIInv, L!OnlyOneHolds
<1> QED
  BY <1>1, <1>2, <1>3, PTL DEF L!Spec

=============================================================================
