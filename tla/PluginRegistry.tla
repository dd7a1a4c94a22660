--------------------------- MODULE PluginRegistry ---------------------------
(***************************************************************************)
(* Resolving a node's `plugin` string to component bytes: the OCI          *)
(* reference parser (registry/types.rs), WaferRegistry::resolve            *)
(* (registry/client.rs) and the tag-keyed PackageCache on disk             *)
(* (registry/cache.rs).  Several runtimes may share one cache directory,   *)
(* whose files are written with fs::write: opened and truncated first,     *)
(* then filled, here in two parts.  A tag of the remote registry may be    *)
(* pushed again, which gives it a new version.                             *)
(*                                                                         *)
(* A `plugin` string is a sequence of segments and the separators ":" and  *)
(* "/"; the remote registry and the file system are external.              *)
(***************************************************************************)
EXTENDS Integers, Sequences, FiniteSets, FiniteSetsExt

CONSTANTS
    Resolver,     \* runtimes resolving plugins, each one plugin at a time
    PluginText,   \* the `plugin` strings they are configured with
    LocalFile,    \* the strings that name a readable local file
    Ttl,          \* RegistryConfig::cache_ttl, in ticks
    OpTime,       \* longest a resolution takes, in ticks
    MaxTime,      \* bound on the clock
    MaxVersion,   \* bound on the pushes to a tag
    Crashes,      \* whether a runtime may be killed while it resolves
    Sweeps,       \* whether entries are removed: clear_expired, remove, or by hand
    NoCache       \* RegistryConfig::no_cache

\* What an instance has to give.
RegistryAssumption ==
    /\ PluginText \subseteq Seq(STRING)
    /\ LocalFile \subseteq PluginText
    /\ {Ttl, OpTime, MaxTime, MaxVersion} \subseteq Nat /\ MaxVersion > 0
    /\ {Crashes, Sweeps, NoCache} \subseteq BOOLEAN

NoVersion == 0        \* no version; versions are 1, 2, ...

-----------------------------------------------------------------------------
(* OciReference::parse *)

Places(s, sep) == {i \in 1..Len(s) : s[i] = sep}

\* OciReference::parse: the text splits at its last ":" into a repository part
\* and a tag, the repository part at its first "/" into registry and
\* repository; every piece has to be there.
Parses(s) ==
    /\ Places(s, ":") # {}
    /\ LET colon == Max(Places(s, ":"))
           part == SubSeq(s, 1, colon - 1)
       IN /\ colon < Len(s)
          /\ Places(part, "/") # {}
          /\ Min(Places(part, "/")) \in 2..(Len(part) - 1)

OciRef(s) ==
    LET colon == Max(Places(s, ":"))
        part == SubSeq(s, 1, colon - 1)
        slash == Min(Places(part, "/"))
    IN [registry |-> SubSeq(part, 1, slash - 1),
        repository |-> SubSeq(part, slash + 1, Len(part)),
        tag |-> SubSeq(s, colon + 1, Len(s))]

\* plugin_source: what does not parse as a reference is a local path.
IsOci(s) == Parses(s)

\* PackageCache::cache_path: {registry}/{repository}/{tag}.wasm, as the
\* directories on the way and the file's name.
CachePath(s) ==
    LET r == OciRef(s) IN r.registry \o <<"/">> \o r.repository \o <<"/">> \o r.tag

\* No tag holds a "/": what Reference's own parser accepts.  It sees a reference
\* only after the cache lookup, and with a tag of several segments two
\* references can have one cache path.
PlainTags == \A s \in PluginText : IsOci(s) => Places(OciRef(s).tag, "/") = {}

Path == {CachePath(s) : s \in {t \in PluginText : IsOci(t)}}

-----------------------------------------------------------------------------
VARIABLES
    remote,   \* remote[s]: the version tag s has in the registry
    pushed,   \* pushed[s][v]: when version v was pushed
    files,    \* files[p]: the cached file's two parts, its mtime, and (history) "cut":
              \*   since it was opened a write to it was cut short or met another
    now,      \* the wall clock
    job       \* job[r]: the resolution runtime r has under way; of its answer,
              \*   (history) "whole": the bytes are complete; "risk": the file was
              \*   cut, or being written, when it was read

vars == <<remote, pushed, files, now, job>>

Absent == [there |-> FALSE, head |-> NoVersion, tail |-> NoVersion, from |-> <<>>, mtime |-> 0,
           cut |-> FALSE]

Idle == [at |-> "idle", text |-> <<>>, since |-> 0, got |-> NoVersion, whole |-> TRUE,
         risk |-> FALSE, answer |-> "none", from |-> <<>>]

\* Resolution j has opened the file of path p and is writing it.
Fills(j, p) == j.at \in {"head", "tail"} /\ CachePath(j.text) = p

Init ==
    /\ remote = [s \in PluginText |-> 1]
    /\ pushed = [s \in PluginText |-> [v \in 1..MaxVersion |-> 0]]
    /\ files = [p \in Path |-> Absent]
    /\ now = 0
    /\ job = [r \in Resolver |-> Idle]

\* External: somebody pushes the tag again.
Push(s) ==
    /\ IsOci(s)
    /\ remote[s] < MaxVersion
    /\ remote' = [remote EXCEPT ![s] = @ + 1]
    /\ pushed' = [pushed EXCEPT ![s][remote[s] + 1] = now]
    /\ UNCHANGED <<files, now, job>>

\* Time passes while no resolution has taken longer than OpTime.
Tick ==
    /\ now < MaxTime
    /\ \A r \in Resolver : job[r].at \notin {"idle", "done"} => now - job[r].since < OpTime
    /\ now' = now + 1
    /\ UNCHANGED <<remote, pushed, files, job>>

Goes(r, at) == job' = [job EXCEPT ![r] = [@ EXCEPT !.at = at]]

Answers(r, answer, got, whole, risk, from) ==
    job' = [job EXCEPT ![r] = [@ EXCEPT !.at = "done", !.answer = answer, !.got = got,
                                        !.whole = whole, !.risk = risk, !.from = from]]

\* WaferRegistry::resolve: a local path is checked and read at once, a
\* reference is looked up.
Resolve(r, s) ==
    /\ job[r].at = "idle"
    /\ job' = [job EXCEPT ![r] = [Idle EXCEPT !.text = s, !.since = now,
                  !.at = IF IsOci(s) THEN "lookup" ELSE "local"]]
    /\ UNCHANGED <<remote, pushed, files, now>>

ResolveLocal(r) ==
    /\ job[r].at = "local"
    /\ IF job[r].text \in LocalFile
         THEN Answers(r, "ok", NoVersion, TRUE, FALSE, job[r].text)
         ELSE Answers(r, "fetch failed", NoVersion, TRUE, FALSE, <<>>)
    /\ UNCHANGED <<remote, pushed, files, now>>

Expired(f) == now - f.mtime > Ttl

\* Fault: the age of the file is not looked at.
CacheGetAnyAge(p) == files[p].there

\* PackageCache::get: a file that is there, and whose age is neither negative
\* nor above the time to live.
CacheGet(p) == files[p].there /\ files[p].mtime <= now /\ ~Expired(files[p])

\* resolve_oci up to its cache lookup.
Lookup(r) ==
    /\ job[r].at = "lookup"
    /\ IF ~NoCache /\ CacheGet(CachePath(job[r].text)) THEN Goes(r, "read") ELSE Goes(r, "pull")
    /\ UNCHANGED <<remote, pushed, files, now>>

\* resolve_oci after a hit: the file is read as it is now, and its absence is
\* an error.
ReadCached(r) ==
    /\ job[r].at = "read"
    /\ LET p == CachePath(job[r].text)
           f == files[p]
       IN IF f.there
            THEN Answers(r, "ok", f.head, f.head = f.tail /\ f.head # NoVersion,
                         f.cut \/ \E q \in Resolver : Fills(job[q], p), f.from)
            ELSE Answers(r, "cache error", NoVersion, TRUE, FALSE, <<>>)
    /\ UNCHANGED <<remote, pushed, files, now>>

\* fetch_oci: the pull fails, or answers the version the tag has by then.
FetchOci(r) ==
    /\ job[r].at = "pull"
    /\ \/ Answers(r, "fetch failed", NoVersion, TRUE, FALSE, <<>>)
       \/ job' = [job EXCEPT ![r] = [@ EXCEPT !.at = "open", !.got = remote[job[r].text]]]
    /\ UNCHANGED <<remote, pushed, files, now>>

\* PackageCache::put, its fs::write taken apart: the file is created or
\* truncated ...
PutOpen(r) ==
    LET p == CachePath(job[r].text) IN
    /\ job[r].at = "open"
    /\ \/ files' = [files EXCEPT ![p] = [Absent EXCEPT !.there = TRUE, !.mtime = now,
                        !.cut = \E q \in Resolver : Fills(job[q], p)]]
          /\ Goes(r, "head")
       \/ Answers(r, "cache error", job[r].got, TRUE, FALSE, <<>>) /\ UNCHANGED files
    /\ UNCHANGED <<remote, pushed, now>>

\* ... its first part is written ...
PutHead(r) ==
    LET p == CachePath(job[r].text) IN
    /\ job[r].at = "head"
    /\ files' = [files EXCEPT ![p] =
           [@ EXCEPT !.head = job[r].got, !.from = job[r].text, !.mtime = now]]
    /\ Goes(r, "tail")
    /\ UNCHANGED <<remote, pushed, now>>

\* ... and then the rest; resolve_oci answers with the bytes it pulled.
PutTail(r) ==
    LET p == CachePath(job[r].text) IN
    /\ job[r].at = "tail"
    /\ files' = [files EXCEPT ![p] = [@ EXCEPT !.tail = job[r].got, !.mtime = now]]
    /\ Answers(r, "ok", job[r].got, TRUE, FALSE, job[r].text)
    /\ UNCHANGED <<remote, pushed, now>>

\* What a write that does not come to its end makes of the file of path p.
CutShort(p) == [files EXCEPT ![p] = [@ EXCEPT !.cut = files[p].there]]

\* fs::write fails at its first part or at the rest (the disk is full): the
\* pull's bytes are lost, and the file stays as far as it was written, as fresh
\* as any.
PutFails(r) ==
    /\ job[r].at \in {"head", "tail"}
    /\ files' = CutShort(CachePath(job[r].text))
    /\ Answers(r, "cache error", job[r].got, TRUE, FALSE, <<>>)
    /\ UNCHANGED <<remote, pushed, now>>

\* The launcher takes the answer and goes on to its next plugin.
Take(r) ==
    /\ job[r].at = "done"
    /\ job' = [job EXCEPT ![r] = Idle]
    /\ UNCHANGED <<remote, pushed, files, now>>

\* clear_expired walks three levels below the cache directory and removes the
\* expired files it finds there: remove_file fails on a directory, so a
\* repository of several segments is not reached.
Swept(p) == Cardinality(Places(p, "/")) = 2

\* PackageCache::clear_expired
ClearExpired ==
    /\ Sweeps
    /\ files' = [p \in Path |->
           IF files[p].there /\ Swept(p) /\ files[p].mtime <= now /\ Expired(files[p])
             THEN Absent ELSE files[p]]
    /\ UNCHANGED <<remote, pushed, now, job>>

\* PackageCache::remove, or an operator who clears the directory by hand.
Remove(p) ==
    /\ Sweeps
    /\ files[p].there
    /\ files' = [files EXCEPT ![p] = Absent]
    /\ UNCHANGED <<remote, pushed, now, job>>

\* A runtime is killed while it resolves; what it wrote so far stays.
Crash(r) ==
    /\ Crashes
    /\ job[r].at \notin {"idle", "done"}
    /\ job' = [job EXCEPT ![r] = Idle]
    /\ files' = IF job[r].at \in {"head", "tail"} THEN CutShort(CachePath(job[r].text)) ELSE files
    /\ UNCHANGED <<remote, pushed, now>>

Step(r) ==
    \/ ResolveLocal(r) \/ Lookup(r) \/ ReadCached(r) \/ FetchOci(r)
    \/ PutOpen(r) \/ PutHead(r) \/ PutTail(r) \/ PutFails(r) \/ Take(r)

Next ==
    \/ \E s \in PluginText : Push(s)
    \/ Tick
    \/ ClearExpired
    \/ \E p \in Path : Remove(p)
    \/ \E r \in Resolver : Step(r) \/ Crash(r) \/ \E s \in PluginText : Resolve(r, s)

Spec == Init /\ [][Next]_vars

\* The launcher polls its resolution, and oci-client's pull returns.
FairSpec == Spec /\ \A r \in Resolver : WF_vars(Step(r))

-----------------------------------------------------------------------------
(* Properties *)

\* The state has its type.
RegistryTypeOK ==
    /\ \A s \in PluginText : remote[s] \in 1..MaxVersion
    /\ \A p \in Path : {files[p].head, files[p].tail} \subseteq 0..MaxVersion
                       /\ files[p].mtime \in 0..now
    /\ \A r \in Resolver :
         /\ job[r].at \in {"idle", "local", "lookup", "read", "pull", "open", "head",
                           "tail", "done"}
         /\ job[r].answer \in {"none", "ok", "fetch failed", "cache error"}

\* ADR 0005 "If cache hit, use cached WASM bytes": fs::write replaces the file
\* in place, so a hit may be served a file that is being written, or that a
\* failed, killed or overlapped write left torn.  That is the only way to torn
\* bytes: a file that one resolution wrote to its end, with nobody else at it
\* meanwhile, is served as the complete bytes of that pull.
HitIsWhole == \A r \in Resolver : job[r].answer = "ok" /\ ~job[r].whole => job[r].risk

\* The bytes a node is loaded from were pulled for that node's own reference,
\* or read from its own local file.
OwnContent ==
    \A r \in Resolver :
        job[r].answer = "ok" /\ job[r].whole => job[r].from = job[r].text

\* docs/operations/registry.md "Cached entries expire after 24 hours": the
\* version a resolution answers with was still the tag's version within the
\* time to live before, give or take the time of the pull that stored it and
\* of the resolution that reads it.
FreshEnough ==
    \A r \in Resolver :
        LET j == job[r] IN
        /\ j.answer = "ok" /\ IsOci(j.text) /\ j.whole /\ j.got < remote[j.text]
        => pushed[j.text][j.got + 1] >= j.since - Ttl - OpTime

\* The bytes a node is loaded from are its own, fresh, and whole unless the
\* cached file was torn by a write that was under way, failed, was killed or
\* met another.
BytesAreRight == RegistryTypeOK /\ OwnContent /\ FreshEnough /\ HitIsWhole

\* PackageCache::clear_expired: of the references whose repository has one
\* segment, a sweep leaves exactly the entries that a lookup still accepts.  The
\* sweep looks three levels deep (registry/cache.rs:88), a repository of several
\* segments, which OciReference::parse accepts (registry/types.rs:175), lies
\* deeper: its entries it never touches, expired or not.
SweepExact ==
    ClearExpired =>
        \A s \in PluginText : IsOci(s) =>
            LET p == CachePath(s) IN
            IF Places(OciRef(s).repository, "/") = {}
              THEN files'[p].there <=> CacheGet(p)
              ELSE files'[p] = files[p]

ExpiredCleared == [][SweepExact]_vars

=============================================================================
