------------------------------ MODULE SourceFetch ------------------------------
(***************************************************************************)
(* The cache of a stack entry whose source is a git repository             *)
(* (internal/lifecycle/source_fetch.go): `dva up` clones it when it is not *)
(* there and never pulls; `down` and `stop` only look at it.               *)
(*                                                                         *)
(* The cache is a directory, .sb/dva/sources/<entry>, with no lock.  Git   *)
(* fills it in steps that other commands see, fails, or is killed with or  *)
(* without the dva that waits for it; the upstream moves on; between        *)
(* commands people edit dva.yml and remove the directory to fetch again,   *)
(* as they are told to.                                                    *)
(***************************************************************************)
EXTENDS Naturals

CONSTANTS
    Fetchers,       \* dva processes that may be at work at the same time
    Urls,
    NoUrl,
    MaxTip,         \* bound: commits of the upstream, one after the other
    MaxMishaps      \* bound: git processes that fail and processes that are killed

ASSUME FetchAssumption == NoUrl \notin Urls /\ MaxTip \in Nat \ {0} /\ MaxMishaps \in Nat

\* A ref: none, the default branch, a tag on the first commit, or a full commit
\* hash, of one that does not exist in the case of 0.
Ref(kind, at) == [kind |-> kind, at |-> at]
Refs == {Ref(kind, 0) : kind \in {"none", "branch", "tag"}} \cup {Ref("commit", at) : at \in 0..MaxTip}
Sources == [git : Urls, ref : Refs]

VARIABLES
    tip,        \* the last commit of the upstream
    declared,   \* the source in dva.yml
    cache,      \* the directory: see NoCache
    fetcher,    \* fetcher[d]: where d is, whether it is an `up`, and where the clone had
                \* left HEAD when d took the cache to be good (only for the properties)
    cloner,     \* cloner[d]: what the git process started by d, which may outlive it, does
    mishaps     \* how many so far

fetchVars == <<tip, declared, cache, fetcher, cloner, mishaps>>

\* is: missing, made (without a readable origin), named (with its origin), fetched.
\* HEAD, and the HEAD that the clone set; the local branch; the commits in the object
\* store; whether every file of HEAD is in the working tree.
NoCache == [is |-> "missing", origin |-> NoUrl, head |-> 0, cloned |-> 0, branch |-> 0,
            commits |-> {}, whole |-> FALSE]

FetchPCs == {"stat", "check", "clone", "cloning", "checkout", "detaching", "runs", "ended", "dead"}

FetchTypeOK ==
    /\ tip \in 1..MaxTip /\ mishaps \in 0..MaxMishaps
    /\ cache \in [is : {"missing", "made", "named", "fetched"}, origin : Urls \cup {NoUrl},
                  head : 0..MaxTip, cloned : 0..MaxTip, branch : 0..MaxTip,
                  commits : SUBSET (1..MaxTip), whole : BOOLEAN]
    /\ fetcher \in [Fetchers -> [pc : FetchPCs, up : BOOLEAN, left : 0..MaxTip]] /\ declared \in Sources
    /\ cloner \in [Fetchers -> {"none", "clone", "detach"}]

GoesTo(d, pc) == fetcher' = [fetcher EXCEPT ![d].pc = pc]

\* Where d goes unless it was killed while git was at work.
Onward(d, pc) == IF fetcher[d].pc = "dead" THEN UNCHANGED fetcher ELSE GoesTo(d, pc)

\* The plugin gets to work.
PluginRuns(d) == fetcher' = [fetcher EXCEPT ![d].pc = "runs", ![d].left = cache.cloned]
FetchedFor(d) == IF fetcher[d].pc = "dead" THEN UNCHANGED fetcher ELSE PluginRuns(d)

Pinned(src) == src.ref.kind = "commit"

-----------------------------------------------------------------------------
(* Looking at a cache that is there *)

\* rev-parse <ref>^{commit} in the cache; 0 if it fails.
RevParse(ref) ==
    LET at == CASE ref.kind = "branch" -> cache.branch
                [] ref.kind = "tag" -> 1
                [] OTHER -> ref.at
    IN IF at \in cache.commits THEN at ELSE 0

\* Faulty: it is enough that the commit is there.
ValidIfPresent(src) ==
    /\ cache.is \in {"named", "fetched"} /\ cache.origin = src.git
    /\ src.ref.kind # "none" => RevParse(src.ref) # 0

ValidCheckout(src) ==
    /\ cache.is \in {"named", "fetched"} /\ cache.origin = src.git
    /\ src.ref.kind # "none" => RevParse(src.ref) # 0 /\ cache.head = RevParse(src.ref)

BeginFetch(d, up) ==
    /\ fetcher[d].pc \in {"ended", "dead"} /\ cloner[d] = "none"
    /\ fetcher' = [fetcher EXCEPT ![d] = [pc |-> "stat", up |-> up, left |-> 0]]
    /\ UNCHANGED <<tip, declared, cache, cloner, mishaps>>

\* up clones what is missing; down and stop pass over the entry with a warning.
StatCache(d) ==
    /\ fetcher[d].pc = "stat"
    /\ GoesTo(d, CASE cache.is # "missing" -> "check"
               [] cache.is = "missing" /\ fetcher[d].up -> "clone"
               [] OTHER -> "ended")
    /\ UNCHANGED <<tip, declared, cache, cloner, mishaps>>

\* An up fails on an invalid cache, the others pass over the entry.
CheckCache(d) ==
    /\ fetcher[d].pc = "check"
    /\ IF ValidCheckout(declared) THEN PluginRuns(d) ELSE GoesTo(d, "ended")
    /\ UNCHANGED <<tip, declared, cache, cloner, mishaps>>

\* The plugin is done.
RunEnds(d) ==
    /\ fetcher[d].pc = "runs"
    /\ GoesTo(d, "ended")
    /\ UNCHANGED <<tip, declared, cache, cloner, mishaps>>

-----------------------------------------------------------------------------
(* git clone *)

\* Git makes the directory, or refuses one that somebody else made meanwhile.
StartClone(d) ==
    /\ fetcher[d].pc = "clone"
    /\ IF cache.is = "missing"
       THEN /\ cache' = [NoCache EXCEPT !.is = "made"]
            /\ cloner' = [cloner EXCEPT ![d] = "clone"] /\ GoesTo(d, "cloning")
       ELSE GoesTo(d, "ended") /\ UNCHANGED <<cache, cloner>>
    /\ UNCHANGED <<tip, declared, mishaps>>

NameOrigin(d) ==
    /\ cloner[d] = "clone" /\ cache.is = "made"
    /\ cache' = [cache EXCEPT !.is = "named", !.origin = declared.git]
    /\ UNCHANGED <<tip, declared, fetcher, cloner, mishaps>>

\* For a full commit --no-checkout and the whole history, which ends the clone;
\* otherwise --depth 1 of the branch or tag.
FetchCommits(d) ==
    /\ cloner[d] = "clone" /\ cache.is = "named"
    /\ LET src == declared
           at == IF src.ref.kind = "tag" THEN 1 ELSE tip
       IN /\ cache' = [cache EXCEPT !.is = "fetched", !.head = at, !.cloned = at,
                                    !.branch = IF src.ref.kind = "tag" THEN 0 ELSE tip,
                                    !.commits = IF Pinned(src) THEN 1..tip ELSE {at}]
          /\ IF Pinned(src) THEN cloner' = [cloner EXCEPT ![d] = "none"] /\ Onward(d, "checkout")
             ELSE UNCHANGED <<cloner, fetcher>>
    /\ UNCHANGED <<tip, declared, mishaps>>

\* The clone writes the files of HEAD.
FillTree(d) ==
    /\ cloner[d] = "clone" /\ cache.is = "fetched"
    /\ cache' = [cache EXCEPT !.whole = TRUE]
    /\ cloner' = [cloner EXCEPT ![d] = "none"] /\ FetchedFor(d)
    /\ UNCHANGED <<tip, declared, mishaps>>

\* A clone that fails removes what it made, but not once all is fetched and only
\* files are missing.
CloneFails(d) ==
    /\ cloner[d] = "clone" /\ mishaps < MaxMishaps
    /\ mishaps' = mishaps + 1
    /\ cache' = IF cache.is = "fetched" THEN cache ELSE NoCache
    /\ cloner' = [cloner EXCEPT ![d] = "none"] /\ Onward(d, "ended")
    /\ UNCHANGED <<tip, declared>>

-----------------------------------------------------------------------------
(* git checkout --detach, after the clone for a full commit *)

Checkout(d) ==
    /\ fetcher[d].pc = "checkout"
    /\ cloner' = [cloner EXCEPT ![d] = "detach"] /\ GoesTo(d, "detaching")
    /\ UNCHANGED <<tip, declared, cache, mishaps>>

\* Git moves HEAD when the files are written.
DetachHead(d) ==
    /\ cloner[d] = "detach" /\ declared.ref.at \in cache.commits
    /\ cache' = [cache EXCEPT !.head = declared.ref.at, !.whole = TRUE]
    /\ cloner' = [cloner EXCEPT ![d] = "none"] /\ FetchedFor(d)
    /\ UNCHANGED <<tip, declared, mishaps>>

\* The commit is not there, or a mishap; dva removes the directory, if it can.
DetachFails(d) ==
    /\ cloner[d] = "detach"
    /\ \/ declared.ref.at \notin cache.commits /\ UNCHANGED mishaps
       \/ mishaps < MaxMishaps /\ mishaps' = mishaps + 1
    /\ cloner' = [cloner EXCEPT ![d] = "none"] /\ Onward(d, "ended")
    /\ IF fetcher[d].pc = "dead" THEN cache' = cache
       ELSE cache' \in {NoCache, cache}
    /\ UNCHANGED <<tip, declared>>

-----------------------------------------------------------------------------
(* What else happens *)

\* dva is killed; the git it waits for dies with it or goes on.
KillFetcher(d) ==
    /\ fetcher[d].pc \notin {"ended", "dead"} /\ mishaps < MaxMishaps
    /\ mishaps' = mishaps + 1
    /\ GoesTo(d, "dead")
    /\ cloner' = cloner \/ (cloner[d] # "none" /\ cloner' = [cloner EXCEPT ![d] = "none"])
    /\ UNCHANGED <<tip, declared, cache>>

UpstreamPush ==
    /\ tip < MaxTip
    /\ tip' = tip + 1
    /\ UNCHANGED <<declared, cache, fetcher, cloner, mishaps>>

Quiet == \A d \in Fetchers : fetcher[d].pc \in {"ended", "dead"} /\ cloner[d] = "none"

RemoveCache ==
    /\ Quiet /\ cache.is # "missing"
    /\ cache' = NoCache
    /\ UNCHANGED <<tip, declared, fetcher, cloner, mishaps>>

EditSource(src) ==
    /\ Quiet /\ src # declared
    /\ declared' = src
    /\ UNCHANGED <<tip, cache, fetcher, cloner, mishaps>>

FetchInit ==
    /\ tip = 1 /\ cache = NoCache /\ mishaps = 0
    /\ declared \in Sources
    /\ fetcher = [d \in Fetchers |-> [pc |-> "ended", up |-> FALSE, left |-> 0]]
    /\ cloner = [d \in Fetchers |-> "none"]

FetchNext ==
    \/ \E d \in Fetchers :
         \/ \E up \in BOOLEAN : BeginFetch(d, up)
         \/ StatCache(d) \/ CheckCache(d) \/ RunEnds(d)
         \/ StartClone(d) \/ NameOrigin(d) \/ FetchCommits(d) \/ FillTree(d) \/ CloneFails(d)
         \/ Checkout(d) \/ DetachHead(d) \/ DetachFails(d) \/ KillFetcher(d)
    \/ UpstreamPush \/ RemoveCache \/ \E src \in Sources : EditSource(src)

FetchSpec == FetchInit /\ [][FetchNext]_fetchVars

-----------------------------------------------------------------------------
(* Properties *)

\* While a plugin works on a source pinned to a full commit, other than the one a
\* clone left HEAD at, the cache is that commit of that repository, with all its
\* files: HEAD gets there last (source_fetch.go 79-84, 112-149), and a checkout that
\* failed is removed.  So it stays, whoever is killed, clones or looks.  (Of other
\* refs nothing of the kind holds: see SourceAvailable.)
PinnedSourceStays ==
    \A d \in Fetchers :
        fetcher[d].pc = "runs" /\ Pinned(declared) /\ declared.ref.at # fetcher[d].left =>
            cache.origin = declared.git /\ cache.head = declared.ref.at /\ cache.whole

\* "ensureSource makes a stack entry's source available before its runner runs."
\* (source_fetch.go 17)
SourceAvailable ==
    \A d \in Fetchers : fetcher[d].pc = "runs" /\ fetcher[d].up => cache.whole

=============================================================================
