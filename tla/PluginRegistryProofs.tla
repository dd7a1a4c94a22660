------------------------ MODULE PluginRegistryProofs ------------------------
(***************************************************************************)
(* Theorems about plugin resolution and the cache on disk, for any number  *)
(* of runtimes that share the directory, any references and any times.     *)
(***************************************************************************)
EXTENDS PluginRegistry, WellFoundedInduction, SequenceTheorems, FiniteSetTheorems, TLAPS

-----------------------------------------------------------------------------
(* Cache paths: two references never share one. *)

\* A non-empty set of naturals has a least element: the library's
\* well-foundedness of < without its operator parameter.
LEMMA Least ==
  ASSUME NEW T, T \subseteq Nat, T # {}
  PROVE  \E x \in T : \A y \in T : x <= y
<1> DEFINE less == {ss \in Nat \X Nat : ss[1] < ss[2]}
<1>1. OpToRel(<, Nat) = less
  BY Zenon DEF OpToRel
<1>2. IsWellFoundedOn(less, Nat)
  BY <1>1, NatLessThanWellFounded
<1> HIDE DEF less
<1>3. PICK x \in T : \A y \in T : ~(<<y, x>> \in less)
  BY <1>2, WFMin
<1>4. \A y \in T : y < x => <<y, x>> \in less
  BY DEF less
<1>5. ASSUME NEW y \in T PROVE x <= y
  <2>1. ~(y < x)
    BY <1>3, <1>4
  <2>2. x \in Nat /\ y \in Nat
    OBVIOUS
  <2> QED
    BY <2>1, <2>2
<1> QED
  BY <1>5

\* The first of a non-empty set of positions.
LEMMA FirstPlace ==
  ASSUME NEW n \in Nat, NEW S, S \subseteq 1 .. n, S # {}
  PROVE  Min(S) \in S /\ \A i \in S : Min(S) <= i
<1>1. S \subseteq Nat
  OBVIOUS
<1>2. \E x \in S : \A y \in S : x =< y
  BY <1>1, Least
<1> QED
  BY <1>2 DEF Min

\* And the last: the first of the mirrored positions.
LEMMA LastPlace ==
  ASSUME NEW n \in Nat, NEW S, S \subseteq 1 .. n, S # {}
  PROVE  Max(S) \in S /\ \A i \in S : i <= Max(S)
<1> DEFINE T == {n - i : i \in S}
<1>1. T \subseteq Nat
  OBVIOUS
<1>2. T # {}
  OBVIOUS
<1>3. PICK x \in T : \A y \in T : x <= y
  BY <1>1, <1>2, Least
<1>4. PICK k \in S : x = n - k
  OBVIOUS
<1>5. \A i \in S : k >= i
  <2> TAKE i \in S
  <2>1. n - i \in T
    OBVIOUS
  <2> QED
    BY <1>3, <1>4, <2>1
<1> QED
  BY <1>5 DEF Max

Colon(s) == Max(Places(s, ":"))

\* The places where a reference is cut.
LEMMA Cut ==
  ASSUME NEW s \in Seq(STRING), Parses(s)
  PROVE  /\ Colon(s) \in 1 .. Len(s) - 1 /\ s[Colon(s)] = ":"
         /\ LET part == SubSeq(s, 1, Colon(s) - 1)
                slash == Min(Places(part, "/"))
            IN  slash \in 2 .. Colon(s) - 2 /\ s[slash] = "/"
<1>1. Colon(s) \in Places(s, ":")
  <2>1. Places(s, ":") \subseteq 1 .. Len(s) /\ Len(s) \in Nat
    BY DEF Places
  <2>2. Places(s, ":") # {}
    BY DEF Parses
  <2> QED
    BY <2>1, <2>2, LastPlace DEF Colon
<1>2. Colon(s) \in 1 .. Len(s) - 1 /\ s[Colon(s)] = ":"
  BY <1>1 DEF Parses, Places, Colon
<1> DEFINE part == SubSeq(s, 1, Colon(s) - 1)
<1>3. part \in Seq(STRING) /\ Len(part) = Colon(s) - 1
      /\ \A i \in 1 .. Len(part) : part[i] = s[i]
  BY <1>2
<1>4. Places(part, "/") # {} /\ Min(Places(part, "/")) \in 2 .. Len(part) - 1
  BY Zenon DEF Parses, Colon
<1> HIDE DEF part
<1>5. Min(Places(part, "/")) \in Places(part, "/")
  <2>1. Places(part, "/") \subseteq 1 .. Len(part) /\ Len(part) \in Nat
    BY <1>3 DEF Places
  <2> QED
    BY <1>4, <2>1, FirstPlace
<1>6. Min(Places(part, "/")) \in 2 .. Colon(s) - 2 /\ s[Min(Places(part, "/"))] = "/"
  <2>1. Min(Places(part, "/")) \in 1 .. Len(part) /\ part[Min(Places(part, "/"))] = "/"
    BY <1>5 DEF Places
  <2> QED
    BY <1>2, <1>3, <1>4, <2>1
<1> QED
  BY <1>2, <1>6 DEF part

\* A cache path is its reference with the last ":" turned into a "/".
LEMMA PathShape ==
  ASSUME NEW s \in Seq(STRING), Parses(s)
  PROVE  /\ CachePath(s) \in Seq(STRING) /\ Len(CachePath(s)) = Len(s)
         /\ \A i \in 1 .. Len(s) : CachePath(s)[i] = IF i = Colon(s) THEN "/" ELSE s[i]
<1> DEFINE c == Colon(s)
           part == SubSeq(s, 1, c - 1)
           slash == Min(Places(part, "/"))
           registry == SubSeq(part, 1, slash - 1)
           repository == SubSeq(part, slash + 1, Len(part))
           tag == SubSeq(s, c + 1, Len(s))
<1>1. c \in 1 .. Len(s) - 1 /\ slash \in 2 .. c - 2 /\ s[slash] = "/"
  BY Cut
<1>2. CachePath(s) = registry \o <<"/">> \o repository \o <<"/">> \o tag
  BY DEF CachePath, OciRef, Colon
<1>3. part \in Seq(STRING) /\ Len(part) = c - 1 /\ \A i \in 1 .. c - 1 : part[i] = s[i]
  BY <1>1
<1> HIDE DEF c, slash, part
<1>4. /\ registry \in Seq(STRING) /\ Len(registry) = slash - 1
      /\ \A i \in 1 .. slash - 1 : registry[i] = s[i]
  BY <1>1, <1>3
<1>5. /\ repository \in Seq(STRING) /\ Len(repository) = c - 1 - slash
      /\ \A i \in 1 .. c - 1 - slash : repository[i] = s[slash + i]
  BY <1>1, <1>3
<1>6. /\ tag \in Seq(STRING) /\ Len(tag) = Len(s) - c
      /\ \A i \in 1 .. Len(s) - c : tag[i] = s[c + i]
  BY <1>1
<1> HIDE DEF registry, repository, tag
<1> DEFINE p1 == registry \o <<"/">>
           p2 == p1 \o repository
           p3 == p2 \o <<"/">>
           p4 == p3 \o tag
<1>7. p1 \in Seq(STRING) /\ Len(p1) = slash /\ \A i \in 1 .. slash : p1[i] = s[i]
  BY <1>1, <1>4
<1> HIDE DEF p1
<1>8. p2 \in Seq(STRING) /\ Len(p2) = c - 1 /\ \A i \in 1 .. c - 1 : p2[i] = s[i]
  <2>1. \A i \in 1 .. Len(p1) + Len(repository) :
          p2[i] = IF i <= Len(p1) THEN p1[i] ELSE repository[i - Len(p1)]
    BY <1>5, <1>7, ConcatProperties
  <2>2. p2 \in Seq(STRING) /\ Len(p2) = Len(p1) + Len(repository)
    BY <1>5, <1>7, ConcatProperties
  <2> HIDE DEF p2
  <2>3. ASSUME NEW i \in 1 .. c - 1 PROVE p2[i] = s[i]
    <3>1. CASE i <= slash
      BY <1>1, <1>5, <1>7, <2>1, <3>1
    <3>2. CASE i > slash
      <4>1. i - slash \in 1 .. c - 1 - slash /\ slash + (i - slash) = i
        BY <1>1, <3>2
      <4>2. repository[i - slash] = s[i]
        BY <1>5, <4>1
      <4> QED
        BY <1>1, <1>5, <1>7, <2>1, <3>2, <4>2
    <3> QED
      BY <1>1, <3>1, <3>2
  <2> QED
    BY <1>1, <1>5, <1>7, <2>2, <2>3
<1> HIDE DEF p2
<1>9. /\ p3 \in Seq(STRING) /\ Len(p3) = c
      /\ \A i \in 1 .. c : p3[i] = IF i = c THEN "/" ELSE s[i]
  BY <1>1, <1>8
<1> HIDE DEF p3
<1>10. /\ p4 \in Seq(STRING) /\ Len(p4) = Len(s)
       /\ \A i \in 1 .. Len(s) : p4[i] = IF i = c THEN "/" ELSE s[i]
  <2>1. \A i \in 1 .. Len(p3) + Len(tag) : p4[i] = IF i <= Len(p3) THEN p3[i] ELSE tag[i - Len(p3)]
    BY <1>6, <1>9, ConcatProperties
  <2>2. p4 \in Seq(STRING) /\ Len(p4) = Len(p3) + Len(tag)
    BY <1>6, <1>9, ConcatProperties
  <2> HIDE DEF p4
  <2>3. ASSUME NEW i \in 1 .. Len(s) PROVE p4[i] = IF i = c THEN "/" ELSE s[i]
    <3>1. CASE i <= c
      BY <1>1, <1>6, <1>9, <2>1, <3>1
    <3>2. CASE i > c
      <4>1. i - c \in 1 .. Len(s) - c /\ c + (i - c) = i
        BY <1>1, <3>2
      <4>2. tag[i - c] = s[i]
        BY <1>6, <4>1
      <4> QED
        BY <1>1, <1>6, <1>9, <2>1, <3>2, <4>2
    <3> QED
      BY <1>1, <3>1, <3>2
  <2> QED
    BY <1>1, <1>6, <1>9, <2>2, <2>3
<1>11. CachePath(s) = p4
  BY <1>2 DEF p1, p2, p3, p4
<1> QED
  BY <1>10, <1>11 DEF c

\* Two references of one cache path are the same: with a plain tag the path's
\* last "/" stands where the ":" was.
THEOREM PathsDiffer ==
  ASSUME RegistryAssumption, PlainTags, NEW s \in PluginText, NEW t \in PluginText,
         IsOci(s), IsOci(t), CachePath(s) = CachePath(t)
  PROVE  s = t
<1>1. s \in Seq(STRING) /\ t \in Seq(STRING) /\ Parses(s) /\ Parses(t)
  BY DEF RegistryAssumption, IsOci
<1>2. ASSUME NEW u \in PluginText, IsOci(u), u \in Seq(STRING), Parses(u)
      PROVE  \A i \in Colon(u) + 1 .. Len(u) : u[i] # "/"
  <2>1. Places(OciRef(u).tag, "/") = {}
    BY <1>2 DEF PlainTags
  <2>2. OciRef(u).tag = SubSeq(u, Colon(u) + 1, Len(u))
    BY DEF OciRef, Colon
  <2>3. Colon(u) \in 1 .. Len(u) - 1
    BY <1>2, Cut
  <2>4. Len(OciRef(u).tag) = Len(u) - Colon(u)
        /\ \A i \in 1 .. Len(u) - Colon(u) : OciRef(u).tag[i] = u[Colon(u) + i]
    BY <1>2, <2>2, <2>3
  <2>5. \A i \in 1 .. Len(u) - Colon(u) : u[Colon(u) + i] # "/"
    BY <2>1, <2>4 DEF Places
  <2> TAKE i \in Colon(u) + 1 .. Len(u)
  <2>6. i - Colon(u) \in 1 .. Len(u) - Colon(u) /\ Colon(u) + (i - Colon(u)) = i
    BY <1>2, <2>3
  <2> QED
    BY <2>5, <2>6
<1>3. Len(s) = Len(t) /\ Colon(s) \in 1 .. Len(s) /\ Colon(t) \in 1 .. Len(s)
      /\ s[Colon(s)] = ":" /\ t[Colon(t)] = ":"
  BY <1>1, PathShape, Cut
<1>4. \A i \in 1 .. Len(s) :
        (IF i = Colon(s) THEN "/" ELSE s[i]) = (IF i = Colon(t) THEN "/" ELSE t[i])
  BY <1>1, <1>3, PathShape
<1>5. Colon(s) = Colon(t)
  <2>1. ~(Colon(s) < Colon(t))
    BY <1>1, <1>2, <1>3, <1>4
  <2>2. ~(Colon(t) < Colon(s))
    BY <1>1, <1>2, <1>3, <1>4
  <2> QED
    BY <1>3, <2>1, <2>2
<1>6. \A i \in 1 .. Len(s) : s[i] = t[i]
  BY <1>3, <1>4, <1>5
<1> QED
  BY <1>1, <1>3, <1>6

-----------------------------------------------------------------------------
(* The inductive invariant: what holds of each resolution and of each file. *)

Text == PluginText \cup {<<>>}
Writing == {"open", "head", "tail"}
Pending == {"lookup", "read", "pull"} \cup Writing
Verdict == {"none", "ok", "fetch failed", "cache error"}

File == [there : BOOLEAN, head : 0 .. MaxVersion, tail : 0 .. MaxVersion, from : Text, mtime : Nat,
         cut : BOOLEAN]

Job == [at : {"idle", "local", "done"} \cup Pending, text : Text, since : Nat,
        got : 0 .. MaxVersion, whole : BOOLEAN, risk : BOOLEAN, answer : Verdict, from : Text]

Types ==
  /\ remote \in [PluginText -> 1 .. MaxVersion]
  /\ pushed \in [PluginText -> [1 .. MaxVersion -> Nat]]
  /\ files \in [Path -> File] /\ now \in Nat
  /\ job \in [Resolver -> Job]

\* Version v of reference s was still the tag's version at time t.
CurrentAt(s, v, t) == v < remote[s] => pushed[s][v + 1] >= t

\* A resolution under way began no longer than OpTime ago.
Timely(j) ==
  /\ j.since <= now
  /\ j.at \in {"local"} \cup Pending => now <= j.since + OpTime

\* A resolution knows what it resolves, and answers last.
Knows(j) ==
  /\ j.at # "idle" => j.text \in PluginText
  /\ j.at \in Pending => IsOci(j.text)
  /\ j.at = "local" => ~IsOci(j.text)
  /\ j.answer # "none" => j.at = "done"

\* What is about to be written was the tag's version when its resolution began.
Pulled(j) == j.at \in Writing => j.got > 0 /\ CurrentAt(j.text, j.got, j.since)

\* The file of a hit is as young as the lookup found it.
Found(j) ==
  j.at = "read" /\ files[CachePath(j.text)].there =>
    files[CachePath(j.text)].mtime + Ttl >= j.since

\* An answer is right.
Right(j) ==
  j.answer = "ok" =>
    /\ j.whole => j.from = j.text
    /\ IsOci(j.text) /\ j.whole => CurrentAt(j.text, j.got, j.since - Ttl - OpTime)
    /\ j.whole \/ j.risk

JobGood(j) == Timely(j) /\ Knows(j) /\ Pulled(j) /\ Found(j) /\ Right(j)

Whole(f) == f.head = f.tail /\ f.head # NoVersion

\* A file holds versions of the one reference that has its path, and a whole
\* file's version was the tag's OpTime before the file was last written.
FileGood(p, f) ==
  /\ f.mtime <= now
  /\ f.head # NoVersion => f.from \in PluginText /\ IsOci(f.from) /\ CachePath(f.from) = p
  /\ Whole(f) => CurrentAt(f.from, f.head, f.mtime - OpTime)

\* Resolution r is the only one at the file of path p, and once its first part
\* is there it is what r pulled.
SoleWriter(r, p) ==
  /\ Fills(job[r], p)
  /\ \A q \in Resolver : q # r => ~Fills(job[q], p)
  /\ job[r].at = "tail" => files[p].head = job[r].got

\* A file whose writes were not cut short and met no other has its one writer
\* still at it, or is whole and left alone.
Untorn ==
  \A p \in Path : files[p].there /\ ~files[p].cut =>
    \/ Whole(files[p]) /\ \A r \in Resolver : ~Fills(job[r], p)
    \/ \E r \in Resolver : SoleWriter(r, p)

RegInv ==
  /\ Types
  /\ \A r \in Resolver : JobGood(job[r])
  /\ \A p \in Path : FileGood(p, files[p])
  /\ Untorn

-----------------------------------------------------------------------------
(* The records the actions make, and their fields. *)

Answered(j, a, g, w, h, f) ==
  [j EXCEPT !.at = "done", !.answer = a, !.got = g, !.whole = w, !.risk = h, !.from = f]

\* A resolution that goes on keeps everything but its place.
LEMMA GoneJob ==
  ASSUME NEW j \in Job, NEW a \in {"idle", "local", "done"} \cup Pending
  PROVE  LET k == [j EXCEPT !.at = a]
         IN /\ k \in Job /\ k.at = a
            /\ k.text = j.text /\ k.since = j.since /\ k.got = j.got /\ k.answer = j.answer
  BY DEF Job

\* A resolution that is not there asks for nothing.
LEMMA IdleJob ==
  ASSUME RegistryAssumption
  PROVE  Idle \in Job /\ Idle.at = "idle" /\ Idle.answer = "none" /\ Idle.since = 0
  BY DEF Idle, Job, Text, NoVersion, Verdict, RegistryAssumption

\* A file that is not there holds nothing.
LEMMA AbsentFile ==
  ASSUME RegistryAssumption
  PROVE  Absent \in File /\ Absent.there = FALSE /\ Absent.head = NoVersion /\ Absent.mtime = 0
  BY DEF Absent, File, Text, NoVersion, RegistryAssumption

\* What is known of a record's fields.
LEMMA Fields ==
  /\ \A j \in Job : /\ j.since \in Nat /\ j.got \in 0 .. MaxVersion /\ j.text \in Text
                    /\ j.at \in {"idle", "local", "done"} \cup Pending /\ j.answer \in Verdict
  /\ \A f \in File : /\ f.head \in 0 .. MaxVersion /\ f.tail \in 0 .. MaxVersion
                     /\ f.mtime \in Nat /\ f.from \in Text
  BY DEF Job, File

\* A reference has its place in the cache.
LEMMA PathOf ==
  ASSUME NEW s \in PluginText, IsOci(s)
  PROVE  CachePath(s) \in Path
  BY DEF Path

-----------------------------------------------------------------------------
(* How one change disturbs the invariant. *)

Others == UNCHANGED <<remote, pushed, now>>

\* A new record of resolution r that is good by itself keeps every resolution
\* and every file good.
LEMMA JobMoves ==
  ASSUME Types, NEW r \in Resolver, NEW j \in Job, job' = [job EXCEPT ![r] = j],
         UNCHANGED <<remote, pushed, files, now>>,
         \A q \in Resolver : JobGood(job[q]), JobGood(j),
         \A p \in Path : FileGood(p, files[p])
  PROVE  /\ Types' /\ job'[r] = j
         /\ \A q \in Resolver : q # r => job'[q] = job[q]
         /\ \A q \in Resolver : JobGood(job[q])'
         /\ \A p \in Path : FileGood(p, files[p])'
<1>1. /\ job' \in [Resolver -> Job] /\ job'[r] = j
      /\ \A q \in Resolver : q # r => job'[q] = job[q]
  BY DEF Types
<1>2. Types'
  BY <1>1 DEF Types
<1>3. ASSUME NEW q \in Resolver PROVE JobGood(job[q])'
  <2>1. JobGood(job'[q])
    BY <1>1
  <2> QED
    BY <2>1 DEF JobGood, Timely, Knows, Pulled, Found, Right, CurrentAt
<1>4. ASSUME NEW p \in Path PROVE FileGood(p, files[p])'
  BY DEF FileGood, CurrentAt, Whole
<1> QED
  BY <1>1, <1>2, <1>3, <1>4

\* So does a new content of file p, if it was written now, keeps its time or is absent, when
\* the jobs are the old ones or one of them has moved away from its read.
LEMMA FileMoves ==
  ASSUME RegistryAssumption, Types, NEW p \in Path, NEW f \in File, files' = [files EXCEPT ![p] = f],
         NEW r \in Resolver, NEW j \in Job, job' = [job EXCEPT ![r] = j], Others,
         \A q \in Resolver : JobGood(job[q]), JobGood(j), j.at # "read",
         \A o \in Path : FileGood(o, files[o]), FileGood(p, f),
         f.there => f.mtime = now \/ (files[p].there /\ f.mtime = files[p].mtime)
  PROVE  /\ Types' /\ job'[r] = j /\ files'[p] = f
         /\ \A q \in Resolver : q # r => job'[q] = job[q]
         /\ \A o \in Path : o # p => files'[o] = files[o]
         /\ \A q \in Resolver : JobGood(job[q])'
         /\ \A o \in Path : FileGood(o, files[o])'
<1>1. /\ job' \in [Resolver -> Job] /\ job'[r] = j
      /\ \A q \in Resolver : q # r => job'[q] = job[q]
  BY DEF Types
<1>2. /\ files' \in [Path -> File] /\ files'[p] = f
      /\ \A o \in Path : o # p => files'[o] = files[o]
  BY DEF Types
<1>3. Types'
  BY <1>1, <1>2 DEF Types, Others
<1>4. ASSUME NEW q \in Resolver PROVE JobGood(job[q])'
  <2>1. JobGood(job'[q])
    BY <1>1
  <2>2. job'[q] \in Job /\ now \in Nat /\ Ttl \in Nat
    BY <1>1 DEF Types, RegistryAssumption
  <2>3. Found(job[q])'
    <3>1. CASE q = r
      BY <3>1, <1>1 DEF Found
    <3>2. CASE q # r
      <4>1. job'[q] = job[q] /\ Found(job[q]) /\ Timely(job[q]) /\ Knows(job[q])
        BY <3>2, <1>1 DEF JobGood
      <4>2. job[q].at = "read" => CachePath(job[q].text) \in Path
        BY <4>1, PathOf DEF Knows, Pending
      <4>3. job[q].since \in Nat /\ job[q].since <= now
        BY <4>1, <2>2, Fields DEF Timely
      <4>4. CASE CachePath(job[q].text) = p
        BY <4>1, <4>3, <4>4, <2>2, <1>2 DEF Found
      <4>5. CASE CachePath(job[q].text) # p
        BY <4>1, <4>2, <4>5, <1>2 DEF Found
      <4> QED
        BY <4>4, <4>5
    <3> QED
      BY <3>1, <3>2
  <2> QED
    BY <2>1, <2>3 DEF JobGood, Timely, Knows, Pulled, Right, CurrentAt, Others
<1>5. ASSUME NEW o \in Path PROVE FileGood(o, files[o])'
  <2>1. FileGood(o, files'[o])
    BY <1>2
  <2> QED
    BY <2>1 DEF FileGood, CurrentAt, Whole, Others
<1> QED
  BY <1>1, <1>2, <1>3, <1>4, <1>5

\* Entries that disappear disturb nobody.
LEMMA FilesGo ==
  ASSUME RegistryAssumption, RegInv, UNCHANGED <<remote, pushed, now, job>>,
         files' \in [Path -> File], \A p \in Path : files'[p] = files[p] \/ files'[p] = Absent
  PROVE  RegInv'
<1>1. Types'
  BY DEF RegInv, Types
<1>2. Absent \in File /\ Absent.there = FALSE /\ Absent.head = NoVersion /\ Absent.mtime = 0
  BY AbsentFile
<1>3. ASSUME NEW q \in Resolver PROVE JobGood(job[q])'
  <2>1. JobGood(job[q])
    BY DEF RegInv
  <2>2. job[q].at = "read" => CachePath(job[q].text) \in Path
    BY <2>1, PathOf DEF JobGood, Knows, Pending
  <2>3. Found(job[q])'
    BY <2>1, <2>2, <1>2 DEF JobGood, Found
  <2> QED
    BY <2>1, <2>3 DEF JobGood, Timely, Knows, Pulled, Right, CurrentAt
<1>4. ASSUME NEW p \in Path PROVE FileGood(p, files[p])'
  <2>1. FileGood(p, files[p]) /\ now \in Nat
    BY DEF RegInv, Types
  <2> QED
    BY <2>1, <1>2 DEF FileGood, CurrentAt, Whole
<1>5. Untorn'
  <2> SUFFICES ASSUME NEW p \in Path, files'[p].there, ~files'[p].cut
               PROVE  \/ Whole(files'[p]) /\ \A r \in Resolver : ~Fills(job[r], p)
                      \/ \E r \in Resolver : SoleWriter(r, p)'
    BY DEF Untorn, Fills, Whole
  <2>1. files'[p] = files[p]
    BY <1>2
  <2>2. \A r \in Resolver : SoleWriter(r, p) => SoleWriter(r, p)'
    BY <2>1 DEF SoleWriter, Fills
  <2> QED
    BY <2>1, <2>2 DEF RegInv, Untorn
<1> QED
  BY <1>1, <1>3, <1>4, <1>5 DEF RegInv

\* A resolution that was not writing, and does not begin to, leaves every file
\* as whole as it was.
LEMMA UntornStays ==
  ASSUME RegInv, NEW r \in Resolver, UNCHANGED files,
         job[r].at \notin {"head", "tail"}, job'[r].at \notin {"head", "tail"},
         \A q \in Resolver : q # r => job'[q] = job[q]
  PROVE  Untorn'
<1>1. \A q \in Resolver, p \in Path : Fills(job'[q], p) <=> Fills(job[q], p)
  BY DEF Fills
<1>2. \A q \in Resolver, p \in Path : SoleWriter(q, p) => SoleWriter(q, p)'
  BY <1>1 DEF SoleWriter, Fills
<1> QED
  BY <1>1, <1>2 DEF RegInv, Untorn, Whole, Fills

\* A writer of file p that stops or fails, or whose file is gone, leaves every
\* other file as it was.
LEMMA UntornElsewhere ==
  ASSUME RegInv, NEW r \in Resolver, NEW p \in Path, Fills(job[r], p) \/ job[r].at = "open",
         \A q \in Resolver : q # r => job'[q] = job[q],
         \A o \in Path : o # p => files'[o] = files[o],
         \A o \in Path : o # p => ~Fills(job'[r], o),
         NEW o \in Path, o # p, files'[o].there, ~files'[o].cut
  PROVE  \/ Whole(files'[o]) /\ \A q \in Resolver : ~Fills(job'[q], o)
         \/ \E q \in Resolver : SoleWriter(q, o)'
<1>1. ~Fills(job[r], o) /\ ~Fills(job'[r], o)
  BY DEF Fills
<1>2. \A q \in Resolver : Fills(job'[q], o) <=> Fills(job[q], o)
  BY <1>1
<1>3. \A q \in Resolver : SoleWriter(q, o) => SoleWriter(q, o)'
  BY <1>1, <1>2 DEF SoleWriter, Fills
<1> QED
  BY <1>2, <1>3 DEF RegInv, Untorn

\* JobMoves for a resolution that does not write.
LEMMA JobSteps ==
  ASSUME RegInv, NEW r \in Resolver, NEW j \in Job, job' = [job EXCEPT ![r] = j],
         UNCHANGED <<remote, pushed, files, now>>, JobGood(j),
         job[r].at \notin {"head", "tail"}, j.at \notin {"head", "tail"}
  PROVE  RegInv'
<1>1. /\ Types' /\ job'[r] = j
      /\ \A q \in Resolver : q # r => job'[q] = job[q]
      /\ \A q \in Resolver : JobGood(job[q])'
      /\ \A p \in Path : FileGood(p, files[p])'
  BY JobMoves DEF RegInv
<1>2. Untorn'
  BY <1>1, UntornStays
<1> QED
  BY <1>1, <1>2 DEF RegInv

\* A runtime that resolves nothing claims nothing.
LEMMA IdleGood ==
  ASSUME RegistryAssumption, RegInv
  PROVE  Idle \in Job /\ JobGood(Idle) /\ Idle.at = "idle"
<1>1. Idle \in Job /\ Idle.at = "idle" /\ Idle.answer = "none" /\ Idle.since = 0
  BY IdleJob
<1>2. now \in Nat
  BY DEF RegInv, Types
<1> QED
  BY <1>1, <1>2 DEF JobGood, Timely, Knows, Pulled, Found, Right, Pending, Writing

\* An answer with no bytes is right.
LEMMA FailedJob ==
  ASSUME RegInv, NEW r \in Resolver, job[r].at \in {"local"} \cup Pending,
         NEW a \in {"fetch failed", "cache error"}, NEW g \in 0 .. MaxVersion,
         NEW w \in BOOLEAN, NEW h \in BOOLEAN, NEW f \in Text
  PROVE  JobGood(Answered(job[r], a, g, w, h, f))
<1> DEFINE k == Answered(job[r], a, g, w, h, f)
<1>1. job[r] \in Job /\ JobGood(job[r])
  BY DEF RegInv, Types
<1>2. k.at = "done" /\ k.answer = a /\ k.text = job[r].text /\ k.since = job[r].since
  <2>1. a \in Verdict
    BY DEF Verdict
  <2> QED
    BY <1>1, <2>1 DEF Job, Answered
<1> QED
  BY <1>1, <1>2 DEF JobGood, Timely, Knows, Pulled, Found, Right, Pending, Writing

-----------------------------------------------------------------------------
(* The actions of one resolution. *)

\* A new resolution has all its time ahead.
LEMMA ResolveKeeps ==
  ASSUME RegistryAssumption, RegInv, NEW r \in Resolver, NEW s \in PluginText, Resolve(r, s)
  PROVE  RegInv'
<1> DEFINE a == IF IsOci(s) THEN "lookup" ELSE "local"
           j == [Idle EXCEPT !.text = s, !.since = now, !.at = a]
<1>1. a \in {"lookup", "local"} /\ now \in Nat /\ OpTime \in Nat
  BY DEF RegInv, Types, RegistryAssumption
<1>2. j \in Job /\ j.at = a /\ j.text = s /\ j.since = now /\ j.answer = "none"
  <2>1. Idle \in Job /\ Idle.answer = "none"
    BY IdleJob
  <2> HIDE DEF a
  <2> QED
    BY <1>1, <2>1 DEF Job, Text, Pending
<1>3. JobGood(j)
  BY <1>1, <1>2 DEF JobGood, Timely, Knows, Pulled, Found, Right, Pending, Writing
<1>4. job' = [job EXCEPT ![r] = j] /\ job[r].at = "idle" /\ UNCHANGED <<remote, pushed, files, now>>
  BY DEF Resolve
<1> HIDE DEF j
<1> QED
  BY <1>1, <1>2, <1>3, <1>4, JobSteps

\* A local file is its own content, and has no versions.
LEMMA ResolveLocalKeeps ==
  ASSUME RegistryAssumption, RegInv, NEW r \in Resolver, ResolveLocal(r)
  PROVE  RegInv'
<1>1. job[r] \in Job /\ JobGood(job[r]) /\ job[r].at = "local"
  BY DEF ResolveLocal, RegInv, Types
<1>2. job[r].text \in Text /\ <<>> \in Text /\ NoVersion \in 0 .. MaxVersion
  BY <1>1, Fields DEF Text, NoVersion, RegistryAssumption
<1>3. CASE job[r].text \in LocalFile
  <2> DEFINE j == Answered(job[r], "ok", NoVersion, TRUE, FALSE, job[r].text)
  <2>1. /\ j \in Job /\ j.at = "done" /\ j.answer = "ok" /\ j.from = job[r].text
        /\ j.text = job[r].text /\ j.since = job[r].since
    BY <1>1, <1>2 DEF Job, Answered, Verdict
  <2>2. j.whole = TRUE
    BY <1>1 DEF Job, Answered
  <2>3. JobGood(j)
    BY <1>1, <2>1, <2>2 DEF JobGood, Timely, Knows, Pulled, Found, Right, Pending, Writing
  <2>4. job' = [job EXCEPT ![r] = j] /\ UNCHANGED <<remote, pushed, files, now>>
    BY <1>3 DEF ResolveLocal, Answers, Answered
  <2> HIDE DEF j
  <2> QED
    BY <1>1, <2>1, <2>3, <2>4, JobSteps
<1>4. CASE job[r].text \notin LocalFile
  <2> DEFINE j == Answered(job[r], "fetch failed", NoVersion, TRUE, FALSE, <<>>)
  <2>1. j \in Job /\ j.at = "done"
    BY <1>1, <1>2 DEF Job, Answered, Verdict
  <2>2. JobGood(j)
    BY <1>1, <1>2, FailedJob
  <2>3. job' = [job EXCEPT ![r] = j] /\ UNCHANGED <<remote, pushed, files, now>>
    BY <1>4 DEF ResolveLocal, Answers, Answered
  <2> HIDE DEF j
  <2> QED
    BY <1>1, <2>1, <2>2, <2>3, JobSteps
<1> QED
  BY <1>3, <1>4

\* A hit was young enough at its lookup, and so when the resolution began.
LEMMA LookupKeeps ==
  ASSUME RegistryAssumption, RegInv, NEW r \in Resolver, Lookup(r)
  PROVE  RegInv'
<1> DEFINE hit == ~NoCache /\ CacheGet(CachePath(job[r].text))
           a == IF hit THEN "read" ELSE "pull"
           j == [job[r] EXCEPT !.at = a]
<1>1. job[r] \in Job /\ JobGood(job[r]) /\ job[r].at = "lookup"
  BY DEF Lookup, RegInv, Types
<1>2. /\ j \in Job /\ j.at = a /\ j.text = job[r].text /\ j.since = job[r].since
      /\ j.got = job[r].got /\ j.answer = job[r].answer
  BY <1>1, GoneJob DEF Pending
<1>3. Found(j)
  <2>1. CASE ~hit
    BY <2>1, <1>2 DEF Found
  <2>2. CASE hit
    <3> DEFINE f == files[CachePath(job[r].text)]
    <3>1. CachePath(job[r].text) \in Path
      BY <1>1, PathOf DEF JobGood, Knows, Pending
    <3>2. f \in File
      BY <3>1 DEF RegInv, Types
    <3>3. f.mtime \in Nat /\ now \in Nat /\ Ttl \in Nat /\ job[r].since \in Nat
      BY <3>2, <1>1, Fields DEF RegInv, Types, RegistryAssumption
    <3>4. ~(now - f.mtime > Ttl) /\ job[r].since <= now
      BY <2>2, <1>1 DEF CacheGet, Expired, JobGood, Timely
    <3>5. f.mtime + Ttl >= job[r].since
      BY <3>3, <3>4
    <3> QED
      BY <3>5, <1>2 DEF Found
  <2> QED
    BY <2>1, <2>2
<1>4. JobGood(j)
  BY <1>1, <1>2, <1>3 DEF JobGood, Timely, Knows, Pulled, Right, Pending, Writing
<1>5. job' = [job EXCEPT ![r] = j] /\ UNCHANGED <<remote, pushed, files, now>>
  BY DEF Lookup, Goes
<1>6. a \notin {"head", "tail"}
  OBVIOUS
<1> HIDE DEF j, a
<1> QED
  BY <1>1, <1>2, <1>4, <1>5, <1>6, JobSteps

\* What was current at some time was so at every earlier one.
LEMMA Earlier ==
  ASSUME RegistryAssumption, Types, NEW s \in PluginText, NEW v \in 0 .. MaxVersion,
         NEW t \in Int, NEW u \in Int, u <= t, CurrentAt(s, v, t)
  PROVE  CurrentAt(s, v, u)
<1> SUFFICES ASSUME v < remote[s] PROVE pushed[s][v + 1] >= u
  BY DEF CurrentAt
<1>1. PICK n \in 1 .. MaxVersion : n = remote[s]
  BY DEF Types
<1>2. v + 1 \in 1 .. MaxVersion
  BY <1>1 DEF RegistryAssumption
<1>3. PICK m \in Nat : m = pushed[s][v + 1]
  BY <1>2 DEF Types
<1>4. m >= t
  BY <1>3 DEF CurrentAt
<1> QED
  BY <1>3, <1>4

\* What a resolution pulled was current when it began, so within OpTime of the
\* moment it writes, and all the more within the time to live of its beginning.
LEMMA FreshWrite ==
  ASSUME RegistryAssumption, RegInv, NEW r \in Resolver, job[r].at \in Writing,
         job[r].text \in PluginText
  PROVE  /\ CurrentAt(job[r].text, job[r].got, now - OpTime)
         /\ CurrentAt(job[r].text, job[r].got, job[r].since - Ttl - OpTime)
<1>1. /\ job[r] \in Job /\ JobGood(job[r]) /\ now \in Nat /\ OpTime \in Nat /\ Ttl \in Nat
      /\ Types
  BY DEF RegInv, Types, RegistryAssumption
<1>2. PICK t \in Nat : t = job[r].since
  BY <1>1, Fields
<1>3. PICK v \in 0 .. MaxVersion : v = job[r].got
  BY <1>1, Fields
<1>4. CurrentAt(job[r].text, v, t) /\ now <= t + OpTime
  BY <1>1, <1>2, <1>3 DEF JobGood, Pulled, Timely, Pending
<1>5. now - OpTime \in Int /\ now - OpTime <= t /\ t - Ttl - OpTime \in Int /\ t - Ttl - OpTime <= t
  BY <1>1, <1>4
<1>6. CurrentAt(job[r].text, v, now - OpTime)
  BY <1>1, <1>4, <1>5, Earlier
<1>7. CurrentAt(job[r].text, v, t - Ttl - OpTime)
  BY <1>1, <1>4, <1>5, Earlier
<1> QED
  BY <1>2, <1>3, <1>6, <1>7

\* A hit answers with the file as it is: the path gives away the reference
\* (PathsDiffer), the lookup the age, and a file nobody cut or is writing is whole.
LEMMA ReadCachedKeeps ==
  ASSUME RegistryAssumption, PlainTags, RegInv, NEW r \in Resolver, ReadCached(r)
  PROVE  RegInv'
<1> DEFINE p == CachePath(job[r].text)
           f == files[p]
<1>1. job[r] \in Job /\ JobGood(job[r]) /\ job[r].at = "read"
  BY DEF ReadCached, RegInv, Types
<1>2. job[r].text \in PluginText /\ IsOci(job[r].text) /\ p \in Path
  BY <1>1, PathOf DEF JobGood, Knows, Pending
<1>3. f \in File /\ FileGood(p, f)
  BY <1>2 DEF RegInv, Types
<1>4. /\ f.head \in 0 .. MaxVersion /\ f.tail \in 0 .. MaxVersion /\ f.mtime \in Nat /\ f.from \in Text
      /\ <<>> \in Text /\ NoVersion \in 0 .. MaxVersion
  BY <1>3, Fields DEF Text, NoVersion, RegistryAssumption
<1>5. CASE f.there
  <2> DEFINE w == f.head = f.tail /\ f.head # NoVersion
             k == f.cut \/ \E q \in Resolver : Fills(job[q], p)
             j == Answered(job[r], "ok", f.head, w, k, f.from)
  <2>1. w \in BOOLEAN /\ k \in BOOLEAN
    BY <1>3 DEF File
  <2>2. job' = [job EXCEPT ![r] = j] /\ UNCHANGED <<remote, pushed, files, now>>
    BY <1>5 DEF ReadCached, Answers, Answered
  <2>3. w = Whole(f)
    BY DEF Whole
  <2>8. Whole(f) \/ k
    BY <1>2, <1>5 DEF RegInv, Untorn, SoleWriter
  <2> HIDE DEF w, f, k
  <2>4. /\ j \in Job /\ j.at = "done" /\ j.answer = "ok" /\ j.got = f.head /\ j.from = f.from
        /\ j.text = job[r].text /\ j.since = job[r].since
    BY <1>1, <1>4, <2>1 DEF Job, Answered, Verdict
  <2>5. j.whole = w /\ j.risk = k
    BY <1>1 DEF Job, Answered
  <2>6. Whole(f) => f.from = job[r].text
    BY <1>2, <1>3, PathsDiffer DEF FileGood, Whole
  <2>7. Whole(f) => CurrentAt(job[r].text, f.head, job[r].since - Ttl - OpTime)
    <3> SUFFICES ASSUME Whole(f)
                 PROVE  CurrentAt(job[r].text, f.head, job[r].since - Ttl - OpTime)
      OBVIOUS
    <3>1. CurrentAt(job[r].text, f.head, f.mtime - OpTime)
      BY <1>3, <2>6 DEF FileGood
    <3>2. PICK t \in Nat : t = job[r].since
      BY <1>1, Fields
    <3>3. PICK m \in Nat : m = f.mtime
      BY <1>4
    <3>4. m + Ttl >= t /\ Ttl \in Nat /\ OpTime \in Nat /\ Types
      BY <1>1, <1>5, <3>2, <3>3 DEF JobGood, Found, f, RegInv, RegistryAssumption
    <3>5. t - Ttl - OpTime \in Int /\ m - OpTime \in Int /\ t - Ttl - OpTime <= m - OpTime
      BY <3>4
    <3>6. CurrentAt(job[r].text, f.head, t - Ttl - OpTime)
      BY <1>2, <1>4, <3>1, <3>3, <3>4, <3>5, Earlier
    <3> QED
      BY <3>2, <3>6
  <2>9. JobGood(j)
    <3>1. (j.whole <=> Whole(f)) /\ (j.risk <=> k)
      BY <2>3, <2>5, Zenon
    <3>2. Right(j)
      BY <2>4, <2>6, <2>7, <2>8, <3>1 DEF Right
    <3> QED
      BY <1>1, <2>4, <3>2 DEF JobGood, Timely, Knows, Pulled, Found, Pending, Writing
  <2> HIDE DEF j
  <2> QED
    BY <1>1, <2>2, <2>4, <2>9, JobSteps
<1>6. CASE ~f.there
  <2> DEFINE j == Answered(job[r], "cache error", NoVersion, TRUE, FALSE, <<>>)
  <2>1. j \in Job /\ j.at = "done"
    BY <1>1, <1>4 DEF Job, Answered, Verdict
  <2>2. JobGood(j)
    BY <1>1, <1>4, FailedJob DEF Pending
  <2>3. job' = [job EXCEPT ![r] = j] /\ UNCHANGED <<remote, pushed, files, now>>
    BY <1>6 DEF ReadCached, Answers, Answered
  <2> HIDE DEF j
  <2> QED
    BY <1>1, <2>1, <2>2, <2>3, JobSteps
<1> QED
  BY <1>5, <1>6

\* A pull answers with the version the tag has now.
LEMMA FetchOciKeeps ==
  ASSUME RegistryAssumption, RegInv, NEW r \in Resolver, FetchOci(r)
  PROVE  RegInv'
<1>1. job[r] \in Job /\ JobGood(job[r]) /\ job[r].at = "pull"
  BY DEF FetchOci, RegInv, Types
<1>2. job[r].text \in PluginText /\ <<>> \in Text /\ NoVersion \in 0 .. MaxVersion
  BY <1>1 DEF Text, NoVersion, RegistryAssumption, JobGood, Knows
<1>3. CASE Answers(r, "fetch failed", NoVersion, TRUE, FALSE, <<>>)
  <2> DEFINE j == Answered(job[r], "fetch failed", NoVersion, TRUE, FALSE, <<>>)
  <2>1. j \in Job /\ j.at = "done"
    BY <1>1, <1>2 DEF Job, Answered, Verdict
  <2>2. JobGood(j)
    BY <1>1, <1>2, FailedJob DEF Pending
  <2>3. job' = [job EXCEPT ![r] = j] /\ UNCHANGED <<remote, pushed, files, now>>
    BY <1>3 DEF FetchOci, Answers, Answered
  <2> HIDE DEF j
  <2> QED
    BY <1>1, <2>1, <2>2, <2>3, JobSteps
<1>4. CASE job' = [job EXCEPT ![r] = [@ EXCEPT !.at = "open", !.got = remote[job[r].text]]]
  <2> DEFINE v == remote[job[r].text]
             j == [job[r] EXCEPT !.at = "open", !.got = v]
  <2>1. v \in 1 .. MaxVersion /\ MaxVersion \in Nat /\ v \in 0 .. MaxVersion
    BY <1>2 DEF RegInv, Types, RegistryAssumption
  <2>2. job' = [job EXCEPT ![r] = j] /\ UNCHANGED <<remote, pushed, files, now>>
    BY <1>4 DEF FetchOci
  <2>3. v < remote[job[r].text] => FALSE
    BY <2>1
  <2> HIDE DEF v
  <2>4. /\ j \in Job /\ j.at = "open" /\ j.got = v
        /\ j.text = job[r].text /\ j.since = job[r].since /\ j.answer = job[r].answer
    BY <1>1, <2>1 DEF Job, Pending, Writing
  <2>5. JobGood(j)
    <3>1. Pulled(j)
      <4>1. j.got > 0
        BY <2>1, <2>4
      <4> QED
        BY <2>3, <2>4, <4>1 DEF Pulled, CurrentAt
    <3> QED
      BY <1>1, <2>4, <3>1 DEF JobGood, Timely, Knows, Found, Right, Pending, Writing
  <2> HIDE DEF j
  <2> QED
    BY <1>1, <2>2, <2>4, <2>5, JobSteps
<1> QED
  BY <1>3, <1>4 DEF FetchOci

\* A resolution that ends leaves no claim.
LEMMA TakeKeeps ==
  ASSUME RegistryAssumption, RegInv, NEW r \in Resolver, Take(r)
  PROVE  RegInv'
<1>1. Idle \in Job /\ JobGood(Idle) /\ Idle.at = "idle"
  BY IdleGood
<1>2. job' = [job EXCEPT ![r] = Idle] /\ UNCHANGED <<remote, pushed, files, now>>
  BY DEF Take
<1> QED
  BY <1>1, <1>2, JobSteps DEF Take

-----------------------------------------------------------------------------
(* The three parts of a write. *)

\* Opening empties the file: its writer is the only one, or its content is cut.
LEMMA PutOpenKeeps ==
  ASSUME RegistryAssumption, RegInv, NEW r \in Resolver, PutOpen(r)
  PROVE  RegInv'
<1> DEFINE p == CachePath(job[r].text)
<1>1. job[r] \in Job /\ JobGood(job[r]) /\ job[r].at = "open"
  BY DEF PutOpen, RegInv, Types
<1>2. p \in Path /\ now \in Nat
  BY <1>1, PathOf DEF JobGood, Knows, Pending, Writing, RegInv, Types
<1>3. CASE /\ files' = [files EXCEPT ![p] = [Absent EXCEPT !.there = TRUE, !.mtime = now,
                            !.cut = \E q \in Resolver : Fills(job[q], p)]]
           /\ Goes(r, "head")
  <2> DEFINE c == \E q \in Resolver : Fills(job[q], p)
             f == [Absent EXCEPT !.there = TRUE, !.mtime = now, !.cut = c]
             j == [job[r] EXCEPT !.at = "head"]
  <2>1. Absent \in File /\ Absent.head = NoVersion
    BY AbsentFile
  <2>0. c \in BOOLEAN
    OBVIOUS
  <2>2. f \in File /\ f.head = NoVersion /\ f.mtime = now /\ f.cut = c
    <3> HIDE DEF c
    <3> QED
      BY <1>2, <2>0, <2>1 DEF File
  <2>3. /\ j \in Job /\ j.at = "head" /\ j.text = job[r].text /\ j.since = job[r].since
        /\ j.got = job[r].got /\ j.answer = job[r].answer
    BY <1>1 DEF Job, Pending, Writing
  <2>4. JobGood(j)
    BY <1>1, <2>3 DEF JobGood, Timely, Knows, Pulled, Found, Right, CurrentAt, Pending, Writing
  <2>5. FileGood(p, f)
    BY <1>2, <2>2 DEF FileGood, Whole
  <2>6. files' = [files EXCEPT ![p] = f] /\ job' = [job EXCEPT ![r] = j] /\ Others
    BY <1>3 DEF PutOpen, Goes, Others
  <2> HIDE DEF f, j
  <2>7. /\ Types' /\ job'[r] = j /\ files'[p] = f
        /\ \A q \in Resolver : q # r => job'[q] = job[q]
        /\ \A o \in Path : o # p => files'[o] = files[o]
        /\ \A q \in Resolver : JobGood(job[q])'
        /\ \A o \in Path : FileGood(o, files[o])'
    BY <1>2, <2>2, <2>3, <2>4, <2>5, <2>6, FileMoves DEF RegInv
  <2>8. Untorn'
    <3>1. CachePath(job'[r].text) = p /\ job'[r].at = "head"
      BY <2>3, <2>7
    <3>2. \A o \in Path : o # p => ~Fills(job'[r], o)
      BY <3>1 DEF Fills
    <3>3. ASSUME NEW o \in Path, o = p, ~files'[o].cut PROVE SoleWriter(r, o)'
      <4>1. \A q \in Resolver : ~Fills(job[q], o)
        BY <2>2, <2>7, <3>3
      <4> QED
        BY <2>7, <3>1, <3>3, <4>1 DEF SoleWriter, Fills
    <3>4. ASSUME NEW o \in Path, o # p, files'[o].there, ~files'[o].cut
          PROVE  \/ Whole(files'[o]) /\ \A q \in Resolver : ~Fills(job'[q], o)
                 \/ \E q \in Resolver : SoleWriter(q, o)'
      BY <1>1, <1>2, <2>7, <3>2, <3>4, UntornElsewhere
    <3>5. ASSUME NEW o \in Path, files'[o].there, ~files'[o].cut
          PROVE  \/ Whole(files'[o]) /\ \A q \in Resolver : ~Fills(job'[q], o)
                 \/ \E q \in Resolver : SoleWriter(q, o)'
      <4>1. CASE o = p
        <5>1. SoleWriter(r, o)'
          BY <3>3, <3>5, <4>1
        <5> QED
          BY <5>1
      <4>2. CASE o # p
        BY <3>4, <3>5, <4>2
      <4> QED
        BY <4>1, <4>2
    <3> QED
      BY <3>5 DEF Untorn, Whole, Fills
  <2> QED
    BY <2>7, <2>8 DEF RegInv
<1>4. CASE Answers(r, "cache error", job[r].got, TRUE, FALSE, <<>>) /\ UNCHANGED files
  <2> DEFINE j == Answered(job[r], "cache error", job[r].got, TRUE, FALSE, <<>>)
  <2>1. job[r].got \in 0 .. MaxVersion /\ <<>> \in Text
    BY <1>1, Fields DEF Text
  <2>2. j \in Job /\ j.at = "done"
    BY <1>1, <2>1 DEF Job, Answered, Verdict
  <2>3. JobGood(j)
    BY <1>1, <2>1, FailedJob DEF Pending, Writing
  <2>4. job' = [job EXCEPT ![r] = j] /\ UNCHANGED <<remote, pushed, files, now>>
    BY <1>4 DEF PutOpen, Answers, Answered
  <2> HIDE DEF j
  <2> QED
    BY <1>1, <2>2, <2>3, <2>4, JobSteps
<1> QED
  BY <1>3, <1>4 DEF PutOpen

\* The first part makes the file the writer's reference's; what its second part
\* then is does not matter, since only an equal version makes it whole.
LEMMA PutHeadKeeps ==
  ASSUME RegistryAssumption, PlainTags, RegInv, NEW r \in Resolver, PutHead(r)
  PROVE  RegInv'
<1> DEFINE p == CachePath(job[r].text)
           g == job[r].got
           f == [files[p] EXCEPT !.head = g, !.from = job[r].text, !.mtime = now]
           j == [job[r] EXCEPT !.at = "tail"]
<1>1. job[r] \in Job /\ JobGood(job[r]) /\ job[r].at = "head"
  BY DEF PutHead, RegInv, Types
<1>2. /\ p \in Path /\ now \in Nat /\ job[r].text \in PluginText /\ IsOci(job[r].text)
      /\ CachePath(job[r].text) = p
  BY <1>1, PathOf DEF JobGood, Knows, Pending, Writing, RegInv, Types
<1>3. files[p] \in File /\ g \in 0 .. MaxVersion /\ OpTime \in Nat /\ job[r].since \in Nat
  BY <1>1, <1>2, Fields DEF RegInv, Types, RegistryAssumption
<1>4. files' = [files EXCEPT ![p] = f] /\ job' = [job EXCEPT ![r] = j] /\ Others
  BY DEF PutHead, Goes, Others
<1> HIDE DEF p, g
<1>5. f \in File /\ f.head = g /\ f.from = job[r].text /\ f.mtime = now
  BY <1>2, <1>3 DEF File, Text
<1>6. /\ j \in Job /\ j.at = "tail" /\ j.text = job[r].text /\ j.since = job[r].since
      /\ j.got = job[r].got /\ j.answer = job[r].answer
  BY <1>1 DEF Job, Pending, Writing
<1>7. JobGood(j)
  BY <1>1, <1>6 DEF JobGood, Timely, Knows, Pulled, Found, Right, CurrentAt, Pending, Writing
<1> HIDE DEF f, j
<1>8. FileGood(p, f)
  <2>1. CurrentAt(job[r].text, g, now - OpTime)
    BY <1>1, <1>2, <1>3, FreshWrite DEF g, Writing
  <2> QED
    BY <1>2, <1>5, <2>1 DEF FileGood
<1>9. /\ Types' /\ job'[r] = j /\ files'[p] = f
      /\ \A q \in Resolver : q # r => job'[q] = job[q]
      /\ \A o \in Path : o # p => files'[o] = files[o]
      /\ \A q \in Resolver : JobGood(job[q])'
      /\ \A o \in Path : FileGood(o, files[o])'
  BY <1>2, <1>4, <1>5, <1>6, <1>7, <1>8, FileMoves DEF RegInv
<1>10. Untorn'
  <2>1. Fills(job[r], p) /\ CachePath(job'[r].text) = p /\ job'[r].at = "tail"
    BY <1>1, <1>2, <1>6, <1>9 DEF Fills
  <2>2. \A o \in Path : o # p => ~Fills(job'[r], o)
    BY <2>1 DEF Fills
  <2>3. ASSUME NEW o \in Path, o = p, files'[o].there, ~files'[o].cut PROVE SoleWriter(r, o)'
    <3>1. files[o].there /\ ~files[o].cut
      BY <1>3, <1>9, <2>3 DEF f, File
    <3>2. \A q \in Resolver : q # r => ~Fills(job[q], o)
      BY <2>1, <2>3, <3>1 DEF RegInv, Untorn, SoleWriter
    <3>3. files'[o].head = job'[r].got
      BY <1>5, <1>6, <1>9, <2>3 DEF g
    <3>4. CachePath(job'[r].text) = o /\ job'[r].at \in {"head", "tail"}
      BY <2>1, <2>3
    <3>5. \A q \in Resolver : q # r => ~Fills(job'[q], o)
      BY <1>9, <3>2
    <3>6. Fills(job'[r], o)
      BY <3>4 DEF Fills
    <3> QED
      BY <3>3, <3>5, <3>6 DEF SoleWriter, Fills
  <2>4. ASSUME NEW o \in Path, o # p, files'[o].there, ~files'[o].cut
        PROVE  \/ Whole(files'[o]) /\ \A q \in Resolver : ~Fills(job'[q], o)
               \/ \E q \in Resolver : SoleWriter(q, o)'
    BY <1>2, <1>9, <2>1, <2>2, <2>4, UntornElsewhere
  <2>5. ASSUME NEW o \in Path, files'[o].there, ~files'[o].cut
        PROVE  \/ Whole(files'[o]) /\ \A q \in Resolver : ~Fills(job'[q], o)
               \/ \E q \in Resolver : SoleWriter(q, o)'
    <3>1. CASE o = p
      <4>1. SoleWriter(r, o)'
        BY <2>3, <2>5, <3>1
      <4> QED
        BY <4>1
    <3>2. CASE o # p
      BY <2>4, <2>5, <3>2
    <3> QED
      BY <3>1, <3>2
  <2> QED
    BY <2>5 DEF Untorn, Whole, Fills
<1> QED
  BY <1>9, <1>10 DEF RegInv

\* The second part completes a file whose first part may be another
\* resolution's: of the same reference then, and whole only if it is the same
\* version.
LEMMA PutTailKeeps ==
  ASSUME RegistryAssumption, PlainTags, RegInv, NEW r \in Resolver, PutTail(r)
  PROVE  RegInv'
<1> DEFINE p == CachePath(job[r].text)
           g == job[r].got
           f == [files[p] EXCEPT !.tail = g, !.mtime = now]
           j == Answered(job[r], "ok", g, TRUE, FALSE, job[r].text)
<1>1. job[r] \in Job /\ JobGood(job[r]) /\ job[r].at = "tail"
  BY DEF PutTail, RegInv, Types
<1>2. /\ p \in Path /\ now \in Nat /\ job[r].text \in PluginText /\ IsOci(job[r].text)
      /\ CachePath(job[r].text) = p
  BY <1>1, PathOf DEF JobGood, Knows, Pending, Writing, RegInv, Types
<1>3. /\ files[p] \in File /\ g \in 0 .. MaxVersion /\ g > 0 /\ job[r].text \in Text
      /\ {OpTime, Ttl} \subseteq Nat /\ job[r].since \in Nat
  BY <1>1, <1>2, Fields DEF RegInv, Types, RegistryAssumption, JobGood, Pulled, Writing, Text
<1>4. files' = [files EXCEPT ![p] = f] /\ job' = [job EXCEPT ![r] = j] /\ Others
  BY DEF PutTail, Answers, Answered, Others
<1> HIDE DEF p, g
<1>5. /\ f \in File /\ f.tail = g /\ f.head = files[p].head /\ f.from = files[p].from
      /\ f.mtime = now
  BY <1>2, <1>3 DEF File
<1>6. /\ j \in Job /\ j.at = "done" /\ j.text = job[r].text /\ j.since = job[r].since
      /\ j.got = g /\ j.answer = "ok" /\ j.from = job[r].text
  BY <1>1, <1>3 DEF Job, Answered, Verdict
<1>7. j.whole
  BY <1>1 DEF Job, Answered
<1>8. JobGood(j)
  <2>1. CurrentAt(job[r].text, g, job[r].since - Ttl - OpTime)
    BY <1>1, <1>2, <1>3, FreshWrite DEF g, Writing
  <2> HIDE DEF j
  <2>2. Right(j)
    BY <1>6, <1>7, <2>1 DEF Right
  <2> QED
    BY <1>1, <1>6, <2>2 DEF JobGood, Timely, Knows, Pulled, Found, Pending, Writing
<1> HIDE DEF f, j
<1>9. FileGood(p, f)
  <2>1. FileGood(p, files[p])
    BY <1>2 DEF RegInv
  <2>2. f.head # NoVersion => f.from \in PluginText /\ IsOci(f.from) /\ CachePath(f.from) = p
    BY <1>5, <2>1 DEF FileGood
  <2>3. f.head # NoVersion => f.from = job[r].text
    BY <1>2, <2>2, PathsDiffer
  <2>4. CurrentAt(job[r].text, g, now - OpTime)
    BY <1>1, <1>2, <1>3, FreshWrite DEF g, Writing
  <2> QED
    BY <1>2, <1>5, <2>2, <2>3, <2>4 DEF FileGood, Whole
<1>10. /\ Types' /\ job'[r] = j /\ files'[p] = f
       /\ \A q \in Resolver : q # r => job'[q] = job[q]
       /\ \A o \in Path : o # p => files'[o] = files[o]
       /\ \A q \in Resolver : JobGood(job[q])'
       /\ \A o \in Path : FileGood(o, files[o])'
  BY <1>2, <1>4, <1>5, <1>6, <1>8, <1>9, FileMoves DEF RegInv
<1>11. Untorn'
  <2>1. Fills(job[r], p) /\ job'[r].at = "done"
    BY <1>1, <1>2, <1>6, <1>10 DEF Fills
  <2>2. \A o \in Path : ~Fills(job'[r], o)
    BY <2>1 DEF Fills
  <2>3. files'[p].there /\ ~files'[p].cut =>
          Whole(files'[p]) /\ \A q \in Resolver : ~Fills(job'[q], p)
    <3> SUFFICES ASSUME files'[p].there, ~files'[p].cut
                 PROVE  Whole(files'[p]) /\ \A q \in Resolver : ~Fills(job'[q], p)
      OBVIOUS
    <3>1. files[p].there /\ ~files[p].cut
      BY <1>3, <1>10 DEF f, File
    <3>2. SoleWriter(r, p)
      BY <1>2, <2>1, <3>1 DEF RegInv, Untorn, SoleWriter
    <3>3. files[p].head = g
      BY <1>1, <3>2 DEF SoleWriter, g
    <3>4. Whole(files'[p])
      BY <1>3, <1>5, <1>10, <3>3 DEF Whole, NoVersion
    <3>5. \A q \in Resolver : ~Fills(job'[q], p)
      BY <1>10, <2>2, <1>2, <3>2 DEF SoleWriter
    <3> QED
      BY <3>4, <3>5
  <2>4. ASSUME NEW o \in Path, o # p, files'[o].there, ~files'[o].cut
        PROVE  \/ Whole(files'[o]) /\ \A q \in Resolver : ~Fills(job'[q], o)
               \/ \E q \in Resolver : SoleWriter(q, o)'
    BY <1>2, <1>10, <2>1, <2>2, <2>4, UntornElsewhere
  <2> QED
    BY <2>3, <2>4 DEF Untorn, Whole, Fills
<1> QED
  BY <1>10, <1>11 DEF RegInv

\* A write that fails or is killed leaves a file that is marked as cut, and
\* neither younger nor older than it was.
LEMMA CutKeeps ==
  ASSUME RegistryAssumption, RegInv, NEW r \in Resolver, job[r].at \in {"head", "tail"},
         NEW j \in Job, JobGood(j), j.at \in {"idle", "done"}, job' = [job EXCEPT ![r] = j],
         files' = CutShort(CachePath(job[r].text)), Others
  PROVE  RegInv'
<1> DEFINE p == CachePath(job[r].text)
           f == [files[p] EXCEPT !.cut = files[p].there]
<1>1. JobGood(job[r])
  BY DEF RegInv
<1>2. p \in Path
  BY <1>1, PathOf DEF JobGood, Knows, Pending, Writing
<1>3. files[p] \in File /\ FileGood(p, files[p])
  BY <1>2 DEF RegInv, Types
<1>4. files' = [files EXCEPT ![p] = f]
  BY DEF CutShort
<1>5. Fills(job[r], p)
  BY DEF Fills
<1> HIDE DEF p
<1>6. /\ f \in File /\ f.there = files[p].there /\ f.cut = files[p].there
      /\ f.head = files[p].head /\ f.tail = files[p].tail /\ f.from = files[p].from
      /\ f.mtime = files[p].mtime
  BY <1>3 DEF File
<1> HIDE DEF f
<1>7. FileGood(p, f)
  BY <1>3, <1>6 DEF FileGood, Whole
<1>8. /\ Types' /\ job'[r] = j /\ files'[p] = f
      /\ \A q \in Resolver : q # r => job'[q] = job[q]
      /\ \A o \in Path : o # p => files'[o] = files[o]
      /\ \A q \in Resolver : JobGood(job[q])'
      /\ \A o \in Path : FileGood(o, files[o])'
  BY <1>2, <1>4, <1>6, <1>7, FileMoves DEF RegInv
<1>9. Untorn'
  <2>1. \A o \in Path : ~Fills(job'[r], o)
    BY <1>8 DEF Fills
  <2>2. ASSUME NEW o \in Path, files'[o].there, ~files'[o].cut
        PROVE  \/ Whole(files'[o]) /\ \A q \in Resolver : ~Fills(job'[q], o)
               \/ \E q \in Resolver : SoleWriter(q, o)'
    <3>1. o # p
      BY <1>6, <1>8, <2>2
    <3> QED
      BY <1>2, <1>5, <1>8, <2>1, <2>2, <3>1, UntornElsewhere
  <2> QED
    BY <2>2 DEF Untorn, Whole, Fills
<1> QED
  BY <1>8, <1>9 DEF RegInv

\* A failed write answers with an error.
LEMMA PutFailsKeeps ==
  ASSUME RegistryAssumption, RegInv, NEW r \in Resolver, PutFails(r)
  PROVE  RegInv'
<1> DEFINE j == Answered(job[r], "cache error", job[r].got, TRUE, FALSE, <<>>)
<1>1. job[r] \in Job /\ job[r].at \in {"head", "tail"}
  BY DEF PutFails, RegInv, Types
<1>2. job[r].got \in 0 .. MaxVersion /\ <<>> \in Text
  BY <1>1, Fields DEF Text
<1>3. j \in Job /\ j.at = "done"
  BY <1>1, <1>2 DEF Job, Answered, Verdict
<1>4. JobGood(j)
  BY <1>1, <1>2, FailedJob DEF Pending, Writing
<1>5. job' = [job EXCEPT ![r] = j] /\ files' = CutShort(CachePath(job[r].text)) /\ Others
  BY DEF PutFails, Answers, Answered, Others
<1> HIDE DEF j
<1> QED
  BY <1>1, <1>3, <1>4, <1>5, CutKeeps

\* A runtime that is killed leaves no claim, and the file it was writing cut.
LEMMA CrashKeeps ==
  ASSUME RegistryAssumption, RegInv, NEW r \in Resolver, Crash(r)
  PROVE  RegInv'
<1>1. Idle \in Job /\ JobGood(Idle) /\ Idle.at = "idle"
  BY IdleGood
<1>2. job' = [job EXCEPT ![r] = Idle] /\ UNCHANGED <<remote, pushed, now>>
  BY DEF Crash
<1>3. CASE job[r].at \in {"head", "tail"}
  <2>1. files' = CutShort(CachePath(job[r].text)) /\ Others
    BY <1>2, <1>3 DEF Crash, Others
  <2> QED
    BY <1>1, <1>2, <1>3, <2>1, CutKeeps
<1>4. CASE job[r].at \notin {"head", "tail"}
  <2>1. UNCHANGED <<remote, pushed, files, now>>
    BY <1>2, <1>4 DEF Crash
  <2> QED
    BY <1>1, <1>2, <1>4, <2>1, JobSteps
<1> QED
  BY <1>3, <1>4

-----------------------------------------------------------------------------
(* The registry, the clock and the sweeps. *)

\* A push gives the tag a new version now: what was current until a time that is
\* past stays so.
LEMMA PushedLater ==
  ASSUME RegistryAssumption, Types, NEW s \in PluginText, Push(s), NEW u \in PluginText,
         NEW v \in 0 .. MaxVersion, NEW t \in Int, t <= now, CurrentAt(u, v, t)
  PROVE  CurrentAt(u, v, t)'
<1> SUFFICES ASSUME v < remote'[u] PROVE pushed'[u][v + 1] >= t
  BY DEF CurrentAt
<1>1. PICK n \in 1 .. MaxVersion : n = remote[s]
  BY DEF Types
<1>2. /\ n < MaxVersion /\ remote' = [remote EXCEPT ![s] = n + 1] /\ MaxVersion \in Nat
      /\ pushed' = [pushed EXCEPT ![s] = [@ EXCEPT ![n + 1] = now]]
  BY <1>1 DEF Push, Types, RegistryAssumption
<1>3. CASE u # s
  BY <1>2, <1>3 DEF CurrentAt, Types
<1>4. CASE u = s
  <2>1. remote'[s] = n + 1 /\ pushed'[s] = [pushed[s] EXCEPT ![n + 1] = now]
    BY <1>2 DEF Types
  <2>2. v <= n
    BY <1>4, <2>1
  <2>3. CASE v = n
    <3>1. n + 1 \in 1 .. MaxVersion /\ pushed[s] \in [1 .. MaxVersion -> Nat]
      BY <1>2 DEF Types
    <3> QED
      BY <1>4, <2>1, <2>3, <3>1
  <2>4. CASE v < n
    <3>1. pushed[s] \in [1 .. MaxVersion -> Nat]
      BY DEF Types
    <3>2. MaxVersion \in Nat /\ n < MaxVersion
      BY <1>2
    <3>3. v + 1 \in 1 .. MaxVersion /\ v + 1 # n + 1
      BY <2>4, <3>2
    <3>4. pushed'[s][v + 1] = pushed[s][v + 1]
      BY <2>1, <3>1, <3>3
    <3> QED
      BY <1>1, <1>4, <2>4, <3>4 DEF CurrentAt
  <2> QED
    BY <2>2, <2>3, <2>4
<1> QED
  BY <1>3, <1>4

\* A push makes nothing stale that was current until now.
LEMMA PushKeeps ==
  ASSUME RegistryAssumption, RegInv, NEW s \in PluginText, Push(s)
  PROVE  RegInv'
<1>1. Types /\ UNCHANGED <<files, now, job>> /\ now \in Nat /\ Ttl \in Nat /\ OpTime \in Nat
  BY DEF RegInv, Push, Types, RegistryAssumption
<1>2. Types'
  <2>1. PICK n \in 1 .. MaxVersion : n = remote[s]
    BY DEF RegInv, Types
  <2>2. n + 1 \in 1 .. MaxVersion
    BY <2>1 DEF Push, RegistryAssumption
  <2>3. /\ remote' = [remote EXCEPT ![s] = n + 1]
        /\ pushed' = [pushed EXCEPT ![s] = [@ EXCEPT ![n + 1] = now]]
    BY <2>1 DEF Push, RegInv, Types
  <2>4. remote' \in [PluginText -> 1 .. MaxVersion]
    BY <1>1, <2>2, <2>3 DEF Types
  <2>5. pushed' \in [PluginText -> [1 .. MaxVersion -> Nat]]
    BY <1>1, <2>2, <2>3 DEF Types
  <2> QED
    BY <1>1, <2>4, <2>5 DEF Types
<1>3. ASSUME NEW r \in Resolver PROVE JobGood(job[r])'
  <2>1. job[r] \in Job /\ JobGood(job[r])
    BY DEF RegInv, Types
  <2>2. PICK t \in Nat : t = job[r].since
    BY <2>1, Fields
  <2>3. t <= now /\ t \in Int /\ t - Ttl - OpTime \in Int /\ t - Ttl - OpTime <= now
    BY <1>1, <2>1, <2>2 DEF JobGood, Timely
  <2>4. job[r].got \in 0 .. MaxVersion
    BY <2>1, Fields
  <2>5. job[r].at \in Writing => CurrentAt(job[r].text, job[r].got, t)'
    <3> SUFFICES ASSUME job[r].at \in Writing PROVE CurrentAt(job[r].text, job[r].got, t)'
      OBVIOUS
    <3>1. job[r].text \in PluginText /\ CurrentAt(job[r].text, job[r].got, t)
      BY <2>1, <2>2 DEF JobGood, Knows, Pulled, Writing
    <3>2. PICK u \in PluginText : u = job[r].text
      BY <3>1
    <3>3. PICK v \in 0 .. MaxVersion : v = job[r].got
      BY <2>4
    <3>4. CurrentAt(u, v, t)'
      BY <1>1, <2>3, <3>1, <3>2, <3>3, PushedLater
    <3> QED
      BY <1>1, <3>2, <3>3, <3>4 DEF CurrentAt
  <2>6. job[r].answer = "ok" /\ IsOci(job[r].text) /\ job[r].whole =>
          CurrentAt(job[r].text, job[r].got, t - Ttl - OpTime)'
    <3> SUFFICES ASSUME job[r].answer = "ok", IsOci(job[r].text), job[r].whole
                 PROVE  CurrentAt(job[r].text, job[r].got, t - Ttl - OpTime)'
      OBVIOUS
    <3>1. job[r].text \in PluginText /\ CurrentAt(job[r].text, job[r].got, t - Ttl - OpTime)
      BY <2>1, <2>2 DEF JobGood, Knows, Right
    <3>2. PICK u \in PluginText : u = job[r].text
      BY <3>1
    <3>3. PICK v \in 0 .. MaxVersion : v = job[r].got
      BY <2>4
    <3>4. CurrentAt(u, v, t - Ttl - OpTime)'
      BY <1>1, <2>3, <3>1, <3>2, <3>3, PushedLater
    <3> QED
      BY <1>1, <3>2, <3>3, <3>4 DEF CurrentAt
  <2> QED
    BY <1>1, <2>1, <2>2, <2>5, <2>6
       DEF JobGood, Timely, Knows, Pulled, Found, Right, CurrentAt
<1>4. ASSUME NEW p \in Path PROVE FileGood(p, files[p])'
  <2>1. files[p] \in File /\ FileGood(p, files[p])
    BY DEF RegInv, Types
  <2>2. PICK m \in Nat : m = files[p].mtime
    BY <2>1, Fields
  <2>3. m - OpTime \in Int /\ m - OpTime <= now
    BY <1>1, <2>1, <2>2 DEF FileGood
  <2>4. Whole(files[p]) => CurrentAt(files[p].from, files[p].head, m - OpTime)'
    <3> SUFFICES ASSUME Whole(files[p])
                 PROVE  CurrentAt(files[p].from, files[p].head, m - OpTime)'
      OBVIOUS
    <3>1. files[p].from \in PluginText /\ CurrentAt(files[p].from, files[p].head, m - OpTime)
      BY <2>1, <2>2 DEF FileGood, Whole
    <3>2. PICK u \in PluginText : u = files[p].from
      BY <3>1
    <3>3. PICK v \in 0 .. MaxVersion : v = files[p].head
      BY <2>1, Fields
    <3>4. CurrentAt(u, v, m - OpTime)'
      BY <1>1, <2>3, <3>1, <3>2, <3>3, PushedLater
    <3> QED
      BY <1>1, <3>2, <3>3, <3>4 DEF CurrentAt
  <2> QED
    BY <1>1, <2>1, <2>2, <2>4 DEF FileGood, Whole, CurrentAt
<1>5. Untorn'
  <2>1. \A r \in Resolver, p \in Path : SoleWriter(r, p) => SoleWriter(r, p)'
    BY <1>1 DEF SoleWriter, Fills
  <2> QED
    BY <1>1, <2>1 DEF RegInv, Untorn, Fills, Whole
<1> QED
  BY <1>2, <1>3, <1>4, <1>5 DEF RegInv

\* Time passes only while every resolution under way has time left.
LEMMA TickKeeps ==
  ASSUME RegistryAssumption, RegInv, Tick
  PROVE  RegInv'
<1>1. UNCHANGED <<remote, pushed, files, job>> /\ now' = now + 1 /\ now \in Nat /\ OpTime \in Nat
  BY DEF Tick, RegInv, Types, RegistryAssumption
<1>2. Types'
  BY <1>1 DEF RegInv, Types
<1>3. ASSUME NEW r \in Resolver PROVE JobGood(job[r])'
  <2>1. job[r] \in Job /\ JobGood(job[r])
    BY DEF RegInv, Types
  <2>2. PICK t \in Nat : t = job[r].since
    BY <2>1, Fields
  <2>3. Timely(job[r])'
    BY <1>1, <2>1, <2>2 DEF JobGood, Timely, Tick, Pending, Writing
  <2> QED
    BY <1>1, <2>1, <2>3 DEF JobGood, Knows, Pulled, Found, Right, CurrentAt
<1>4. ASSUME NEW p \in Path PROVE FileGood(p, files[p])'
  <2>1. files[p] \in File /\ FileGood(p, files[p])
    BY DEF RegInv, Types
  <2>2. PICK m \in Nat : m = files[p].mtime
    BY <2>1, Fields
  <2> QED
    BY <1>1, <2>1, <2>2 DEF FileGood, Whole, CurrentAt
<1>5. Untorn'
  <2>1. \A r \in Resolver, p \in Path : SoleWriter(r, p) => SoleWriter(r, p)'
    BY <1>1 DEF SoleWriter, Fills
  <2> QED
    BY <1>1, <2>1 DEF RegInv, Untorn, Fills, Whole
<1> QED
  BY <1>2, <1>3, <1>4, <1>5 DEF RegInv

\* clear_expired and remove only take entries away.
LEMMA SweepsKeep ==
  ASSUME RegistryAssumption, RegInv, ClearExpired \/ \E p \in Path : Remove(p)
  PROVE  RegInv'
<1>1. Absent \in File /\ files \in [Path -> File]
  BY AbsentFile DEF RegInv, Types
<1>2. /\ UNCHANGED <<remote, pushed, now, job>> /\ files' \in [Path -> File]
      /\ \A p \in Path : files'[p] = files[p] \/ files'[p] = Absent
  BY <1>1 DEF ClearExpired, Remove
<1> QED
  BY <1>2, FilesGo

-----------------------------------------------------------------------------
\* An empty cache and no resolution.
LEMMA RegInit ==
  ASSUME RegistryAssumption, Init
  PROVE  RegInv
<1>1. Idle \in Job /\ Idle.at = "idle" /\ Idle.answer = "none" /\ Idle.since = 0
  BY IdleJob
<1>2. Absent \in File /\ Absent.there = FALSE /\ Absent.head = NoVersion /\ Absent.mtime = 0
  BY AbsentFile
<1>3. Types
  BY <1>1, <1>2 DEF Init, Types, RegistryAssumption
<1>4. ASSUME NEW r \in Resolver PROVE JobGood(job[r])
  <2>1. job[r] = Idle /\ now = 0
    BY DEF Init
  <2> QED
    BY <1>1, <2>1 DEF JobGood, Timely, Knows, Pulled, Found, Right, Pending, Writing
<1>5. ASSUME NEW p \in Path PROVE FileGood(p, files[p])
  BY <1>2 DEF Init, FileGood, Whole
<1>6. Untorn
  BY <1>1, <1>2 DEF Init, Untorn
<1> QED
  BY <1>3, <1>4, <1>5, <1>6 DEF RegInv

\* Every step of every runtime keeps the invariant.
LEMMA RegStep ==
  ASSUME RegistryAssumption, PlainTags, RegInv, [Next]_vars
  PROVE  RegInv'
<1>1. CASE \E s \in PluginText : Push(s)
  BY <1>1, PushKeeps
<1>2. CASE Tick
  BY <1>2, TickKeeps
<1>3. CASE ClearExpired \/ \E p \in Path : Remove(p)
  BY <1>3, SweepsKeep
<1>4. ASSUME NEW r \in Resolver, Step(r) PROVE RegInv'
  BY <1>4, ResolveLocalKeeps, LookupKeeps, ReadCachedKeeps, FetchOciKeeps, PutOpenKeeps,
     PutHeadKeeps, PutTailKeeps, PutFailsKeeps, TakeKeeps DEF Step
<1>5. ASSUME NEW r \in Resolver, Crash(r) PROVE RegInv'
  BY <1>5, CrashKeeps
<1>6. ASSUME NEW r \in Resolver, NEW s \in PluginText, Resolve(r, s) PROVE RegInv'
  BY <1>6, ResolveKeeps
<1>7. CASE UNCHANGED vars
  BY <1>7 DEF vars, RegInv, Types, JobGood, Timely, Knows, Pulled, Found, Right, FileGood,
     Whole, CurrentAt, Untorn, SoleWriter, Fills
<1> QED
  BY <1>1, <1>2, <1>3, <1>4, <1>5, <1>6, <1>7 DEF Next

\* The invariant contains the property.
LEMMA RegInvRight ==
  ASSUME RegistryAssumption, RegInv
  PROVE  BytesAreRight
<1>1. RegistryTypeOK
  <2>1. ASSUME NEW p \in Path
        PROVE  /\ {files[p].head, files[p].tail} \subseteq 0 .. MaxVersion
               /\ files[p].mtime \in 0 .. now
    <3>1. files[p] \in File /\ FileGood(p, files[p]) /\ now \in Nat
      BY DEF RegInv, Types
    <3> QED
      BY <3>1, Fields DEF FileGood
  <2>2. \A r \in Resolver : job[r] \in Job
    BY DEF RegInv, Types
  <2> QED
    BY <2>1, <2>2, Fields DEF RegistryTypeOK, RegInv, Types, Verdict, Pending, Writing
<1>2. OwnContent
  BY DEF RegInv, JobGood, Right, OwnContent
<1>3. FreshEnough
  BY DEF RegInv, JobGood, Right, CurrentAt, FreshEnough
<1>4. HitIsWhole
  BY DEF RegInv, JobGood, Right, HitIsWhole
<1> QED
  BY <1>1, <1>2, <1>3, <1>4 DEF BytesAreRight

\* WaferRegistry::resolve (registry/client.rs) and PackageCache
\* (registry/cache.rs): whatever runtimes share the cache directory, sweep it, or
\* are killed or see their writes fail half way, the complete bytes a resolution
\* answers with were pulled for its own reference and were the tag's within the
\* time to live; and they are complete, unless the file was being written when
\* it was read, or since it was opened a write to it failed, was killed or met
\* another.
THEOREM ResolvedBytesAreRight ==
  ASSUME RegistryAssumption, PlainTags
  PROVE  Spec => []BytesAreRight
<1>1. Init => RegInv
  BY RegInit
<1>2. RegInv /\ [Next]_vars => RegInv'
  BY RegStep
<1>3. RegInv => BytesAreRight
  BY RegInvRight
<1> QED
  BY <1>1, <1>2, <1>3, PTL DEF Spec

-----------------------------------------------------------------------------
(* The sweep of expired entries. *)

\* The path of a reference with a plain tag and a repository of one segment has
\* two "/": the sweep reaches its file.
LEMMA OneSegmentSwept ==
  ASSUME RegistryAssumption, PlainTags, NEW s \in PluginText, IsOci(s),
         Places(OciRef(s).repository, "/") = {}
  PROVE  Swept(CachePath(s))
<1> DEFINE c == Colon(s)
           part == SubSeq(s, 1, c - 1)
           slash == Min(Places(part, "/"))
<1>1. s \in Seq(STRING) /\ Parses(s)
  BY DEF RegistryAssumption, IsOci
<1>2. c \in 1 .. Len(s) - 1 /\ slash \in 2 .. c - 2 /\ s[slash] = "/"
  BY <1>1, Cut
<1>3. /\ OciRef(s).repository = SubSeq(part, slash + 1, Len(part))
      /\ OciRef(s).tag = SubSeq(s, c + 1, Len(s))
  BY DEF OciRef, Colon
<1>4. Places(OciRef(s).repository, "/") = {} /\ Places(OciRef(s).tag, "/") = {}
  BY DEF PlainTags
<1> HIDE DEF c
<1>5. part \in Seq(STRING) /\ Len(part) = c - 1 /\ \A i \in 1 .. c - 1 : part[i] = s[i]
  BY <1>1, <1>2
<1> HIDE DEF part
<1>6. ASSUME NEW i \in 1 .. slash - 1 PROVE s[i] # "/"
  <2>1. Places(part, "/") \subseteq 1 .. Len(part) /\ slash \in Places(part, "/")
    BY <1>2, <1>5 DEF Places
  <2>2. \A j \in Places(part, "/") : slash <= j
    <3>1. Len(part) \in Nat /\ Places(part, "/") # {}
      BY <1>5, <2>1
    <3> QED
      BY <2>1, <3>1, FirstPlace DEF slash
  <2>3. i \in 1 .. c - 1 /\ ~(slash <= i)
    BY <1>2
  <2> QED
    BY <1>5, <2>2, <2>3 DEF Places
<1> HIDE DEF slash
<1>7. ASSUME NEW i \in slash + 1 .. c - 1 PROVE s[i] # "/"
  <2> DEFINE repository == OciRef(s).repository
  <2>1. Len(repository) = c - 1 - slash
        /\ \A j \in 1 .. c - 1 - slash : repository[j] = s[slash + j]
    BY <1>1, <1>2, <1>3, <1>5
  <2>2. i - slash \in 1 .. c - 1 - slash /\ slash + (i - slash) = i
    BY <1>2
  <2> QED
    BY <1>4, <2>1, <2>2 DEF Places
<1>8. ASSUME NEW i \in c + 1 .. Len(s) PROVE s[i] # "/"
  <2> DEFINE tag == OciRef(s).tag
  <2>1. Len(tag) = Len(s) - c /\ \A j \in 1 .. Len(s) - c : tag[j] = s[c + j]
    BY <1>1, <1>2, <1>3
  <2>2. i - c \in 1 .. Len(s) - c /\ c + (i - c) = i
    BY <1>1, <1>2
  <2> QED
    BY <1>4, <2>1, <2>2 DEF Places
<1>9. Places(CachePath(s), "/") = {slash, c}
  <2>1. Len(CachePath(s)) = Len(s) /\ Len(s) \in Nat
        /\ \A i \in 1 .. Len(s) : CachePath(s)[i] = IF i = c THEN "/" ELSE s[i]
    BY <1>1, PathShape DEF c
  <2>2. ASSUME NEW i \in 1 .. Len(s), i # slash, i # c PROVE CachePath(s)[i] # "/"
    <3>1. i \in 1 .. slash - 1 \/ i \in slash + 1 .. c - 1 \/ i \in c + 1 .. Len(s)
      BY <1>2, <2>1, <2>2
    <3> QED
      BY <1>6, <1>7, <1>8, <2>1, <2>2, <3>1
  <2>3. slash \in 1 .. Len(s) /\ slash # c /\ c \in 1 .. Len(s)
    BY <1>2, <2>1
  <2> QED
    BY <1>2, <2>1, <2>2, <2>3 DEF Places
<1>10. Cardinality({slash, c}) = 2
  <2>1. IsFiniteSet({c}) /\ Cardinality({c}) = 1
    BY FS_Singleton
  <2>2. slash \notin {c} /\ {slash, c} = {c} \cup {slash}
    BY <1>2
  <2>3. Cardinality({c} \cup {slash})
          = IF slash \in {c} THEN Cardinality({c}) ELSE Cardinality({c}) + 1
    BY <2>1, FS_AddElement, Zenon
  <2> HIDE DEF slash, c
  <2> QED
    BY <2>1, <2>2, <2>3
<1> QED
  BY <1>9, <1>10 DEF Swept

\* The rest of a text after its place m.
LEMMA RestOf ==
  ASSUME NEW t \in Seq(STRING), NEW n \in Nat, Len(t) = n, NEW m \in 1 .. n
  PROVE  /\ Len(SubSeq(t, m + 1, n)) = n - m
         /\ \A j \in 1 .. n - m : SubSeq(t, m + 1, n)[j] = t[m + j]
  OBVIOUS

\* With a "/" in its repository a reference's path has three, and lies below
\* what the sweep reaches.
LEMMA DeepNotSwept ==
  ASSUME RegistryAssumption, NEW s \in PluginText, IsOci(s),
         Places(OciRef(s).repository, "/") # {}
  PROVE  ~Swept(CachePath(s))
<1> DEFINE c == Colon(s)
           part == SubSeq(s, 1, c - 1)
           slash == Min(Places(part, "/"))
           repository == OciRef(s).repository
           below == Places(CachePath(s), "/")
<1>1. s \in Seq(STRING) /\ Parses(s) /\ Len(s) \in Nat
  BY DEF RegistryAssumption, IsOci
<1>2. c \in 1 .. Len(s) - 1 /\ slash \in 2 .. c - 2 /\ s[slash] = "/"
  BY <1>1, Cut
<1>3. repository = SubSeq(part, slash + 1, Len(part))
  BY DEF OciRef, Colon
<1>4. /\ Len(CachePath(s)) = Len(s)
      /\ \A i \in 1 .. Len(s) : CachePath(s)[i] = IF i = c THEN "/" ELSE s[i]
  BY <1>1, PathShape
<1> HIDE DEF c
<1>5. part \in Seq(STRING) /\ Len(part) = c - 1 /\ \A i \in 1 .. c - 1 : part[i] = s[i]
  BY <1>1, <1>2
<1> HIDE DEF part, slash
<1>6. /\ Len(repository) = c - 1 - slash
      /\ \A j \in 1 .. c - 1 - slash : repository[j] = s[slash + j]
  <2> HIDE DEF repository
  <2>1. slash \in 1 .. c - 1 /\ c - 1 \in Nat
    BY <1>1, <1>2
  <2>2. \A j \in 1 .. c - 1 - slash : slash + j \in 1 .. c - 1
    BY <2>1
  <2>3. repository = SubSeq(part, slash + 1, c - 1)
    BY <1>3, <1>5
  <2>4. /\ Len(repository) = c - 1 - slash
        /\ \A j \in 1 .. c - 1 - slash : repository[j] = part[slash + j]
    BY <1>5, <2>1, <2>3, RestOf
  <2> QED
    BY <1>5, <2>2, <2>4
<1> HIDE DEF repository
<1>7. PICK j \in 1 .. c - 1 - slash : repository[j] = "/"
  BY <1>6 DEF Places, repository
<1>8. PICK i \in slash + 1 .. c - 1 : s[i] = "/"
  <2>1. slash + j \in slash + 1 .. c - 1
    BY <1>2
  <2> QED
    BY <1>6, <1>7, <2>1
<1>9. {slash, i, c} \subseteq below /\ slash # i /\ i # c /\ slash # c
  <2>1. {slash, i, c} \subseteq 1 .. Len(s) /\ slash # i /\ i # c /\ slash # c
    BY <1>1, <1>2
  <2> QED
    BY <1>2, <1>4, <1>8, <2>1 DEF Places
<1>10. IsFiniteSet(below)
  <2>1. below \subseteq 1 .. Len(s) /\ IsFiniteSet(1 .. Len(s))
    BY <1>1, <1>4, FS_Interval DEF Places
  <2> QED
    BY <2>1, FS_Subset
<1> HIDE DEF below
<1>11. Cardinality({slash, i, c}) = 3
  <2>1. IsFiniteSet({c}) /\ Cardinality({c}) = 1
    BY FS_Singleton
  <2>2. IsFiniteSet({i, c}) /\ Cardinality({i, c}) = 2
    <3>1. i \notin {c} /\ {i, c} = {c} \cup {i}
      BY <1>9
    <3> QED
      BY <2>1, <3>1, FS_AddElement
  <2>3. slash \notin {i, c} /\ {slash, i, c} = {i, c} \cup {slash}
    BY <1>9
  <2> QED
    BY <2>2, <2>3, FS_AddElement
<1>12. Cardinality({slash, i, c}) <= Cardinality(below) /\ Cardinality(below) \in Nat
  BY <1>9, <1>10, FS_Subset, FS_CardinalityType
<1> QED
  BY <1>11, <1>12 DEF Swept, below

\* A sweep and a lookup judge an entry alike: no file is from the future.
LEMMA SweepKnows ==
  ASSUME RegistryAssumption, PlainTags, RegInv
  PROVE  SweepExact
<1> SUFFICES ASSUME ClearExpired, NEW s \in PluginText, IsOci(s)
             PROVE  IF Places(OciRef(s).repository, "/") = {}
                      THEN files'[CachePath(s)].there <=> CacheGet(CachePath(s))
                      ELSE files'[CachePath(s)] = files[CachePath(s)]
  BY DEF SweepExact
<1> DEFINE p == CachePath(s)
<1>1. p \in Path
  BY PathOf
<1>2. files'[p] = IF files[p].there /\ Swept(p) /\ files[p].mtime <= now /\ Expired(files[p])
                    THEN Absent ELSE files[p]
  BY <1>1 DEF ClearExpired
<1>3. CASE Places(OciRef(s).repository, "/") = {}
  <2>1. Swept(p)
    BY <1>3, OneSegmentSwept
  <2>2. files[p].mtime <= now
    BY <1>1 DEF RegInv, FileGood
  <2>3. Absent.there = FALSE /\ files[p].there \in BOOLEAN
    BY <1>1, AbsentFile DEF RegInv, Types, File
  <2>4. files'[p].there <=> files[p].there /\ ~Expired(files[p])
    BY <1>2, <2>1, <2>2, <2>3
  <2> QED
    BY <1>3, <2>2, <2>4 DEF CacheGet
<1>4. CASE Places(OciRef(s).repository, "/") # {}
  BY <1>2, <1>4, DeepNotSwept
<1> QED
  BY <1>3, <1>4

\* PackageCache::clear_expired (registry/cache.rs:81): whatever was written,
\* swept, cut short or pushed before it, a sweep leaves exactly the entries that
\* a lookup would still accept of the references whose repository has one
\* segment, and never touches those of a repository with several, which the
\* documentation's own references have.
THEOREM SweepsAreExact ==
  ASSUME RegistryAssumption, PlainTags
  PROVE  Spec => ExpiredCleared
<1>1. Init => RegInv
  BY RegInit
<1>2. RegInv /\ [Next]_vars => RegInv'
  BY RegStep
<1>3. RegInv => SweepExact
  BY SweepKnows
<1> QED
  BY <1>1, <1>2, <1>3, PTL DEF Spec, ExpiredCleared

=============================================================================
