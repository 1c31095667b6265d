----------------------------- MODULE PackageCache ------------------------------
(***************************************************************************)
(* build.sh: build/parser.py brings the packages of build.yaml into a      *)
(* cache directory that outlives the build, then build_tar packs the       *)
(* directory.  A build may be killed at any moment and is started again by *)
(* hand; meanwhile the mirrors may move on to another release, each at its *)
(* own time.                                                               *)
(*                                                                         *)
(* A file is the set of the releases its pieces come from, and whether it  *)
(* is complete.  aria2c takes pieces from all mirrors at once and resumes  *)
(* a download that was cut short, so a complete file may be of two         *)
(* releases; no mirror publishes the checksum of such a file.  A complete  *)
(* file of no release is a page that a server sent in the package's place. *)
(***************************************************************************)
EXTENDS Naturals, Sequences, SequencesExt

CONSTANTS
    Packages,   \* the packages of build.yaml, in its order
    Mirrors,    \* the entries of a package's "url", in their order
    Release,    \* what a mirror may serve
    MaxBuilds   \* bound on the number of builds

ASSUME CacheAssumption ==
    /\ Packages \in Seq(ToSet(Packages)) /\ IsInjective(Packages)
    /\ Mirrors \in Seq(ToSet(Mirrors)) /\ Mirrors # <<>>
    /\ MaxBuilds \in Nat

Package == ToSet(Packages)
Mirror == ToSet(Mirrors)

VARIABLES
    method,   \* get_method of each package
    served,   \* the release each mirror serves
    build,    \* builds so far
    pc,       \* what the build is about to do
    todo,     \* the packages still to be processed, the current one first
    left,     \* the mirrors whose checksum was not asked for yet
    file,     \* the package files in the cache directory
    md5,      \* the checksum files there: the releases they are the checksum of
    seen,     \* the releases mirrors have served during this build
    kept,     \* the packages this build did not download
    fetched,  \* the packages this build has downloaded, by the commands' exit status
    tar       \* the files in the tarball

cacheVars == <<file, md5, kept, fetched>>
vars == <<method, served, build, pc, todo, left, cacheVars, seen, tar>>

Methods == {"cached", "git", "docker", "curl"}

Files == [got : SUBSET Release, whole : BOOLEAN]
NoFile == [got |-> {}, whole |-> FALSE]
Partial(pieces) == [got |-> pieces, whole |-> FALSE]
Whole(pieces) == [got |-> pieces, whole |-> TRUE]
Page == Whole({})

NoTar == [p \in Package |-> NoFile]

\* What build_tar's patterns match; a clone is a directory and is not packed.
InTar == {p \in Package : method[p] \in Methods \ {"git"}}

Init ==
    /\ method \in [Package -> Methods \union {"unknown"}]
    /\ served \in [Mirror -> Release]
    /\ build = 0
    /\ pc = "ended"
    /\ todo = <<>> /\ left = <<>>
    /\ file = NoTar /\ md5 = [p \in Package |-> {}]
    /\ seen = {} /\ kept = {} /\ fetched = {}
    /\ tar = NoTar

-----------------------------------------------------------------------------
(* The world around a build. *)

Publish(m, r) ==
    /\ served[m] # r
    /\ served' = [served EXCEPT ![m] = r]
    /\ seen' = seen \union {r}
    /\ UNCHANGED <<method, build, pc, todo, left, cacheVars, tar>>

Running == pc # "ended"

StartBuild ==
    /\ ~ Running
    /\ build < MaxBuilds
    /\ build' = build + 1
    /\ pc' = "package"
    /\ todo' = Packages
    /\ seen' = {served[m] : m \in Mirror}
    /\ kept' = {} /\ fetched' = {}
    /\ UNCHANGED <<method, served, left, file, md5, tar>>

\* The build is killed, or a command of the shell fails (set -e).
Die ==
    /\ Running
    /\ pc' = "ended"
    /\ UNCHANGED <<method, served, build, todo, left, cacheVars, seen, tar>>

-----------------------------------------------------------------------------
(* parser.py, one package after the other. *)

Current == Head(todo)
By(m) == pc = "package" /\ todo # <<>> /\ method[Current] = m

PackageDone == todo' = Tail(todo) /\ pc' = "package"

\* Defect: the checksum file of an earlier build is not removed.
KeepMd5 ==
    /\ By("cached")
    /\ pc' = "md5"
    /\ left' = Mirrors
    /\ UNCHANGED <<method, served, build, todo, cacheVars, seen, tar>>

\* get_from_cache removes the checksum file of an earlier build.
RemoveMd5 ==
    /\ By("cached")
    /\ md5' = [md5 EXCEPT ![Current] = {}]
    /\ pc' = "md5"
    /\ left' = Mirrors
    /\ UNCHANGED <<method, served, build, todo, file, seen, kept, fetched, tar>>

\* What curl may leave in the checksum file: the checksum, a page that says there
\* is none, or, when it fails, also what was there before.
Md5After(ok) ==
    {{}, {served[Head(left)]}} \union (IF ok THEN {} ELSE {md5[Current]})

SameAsRemote(sum) == file[Current].whole /\ file[Current].got = sum

\* One turn of the loop over the mirrors.  The comparison is made whether curl
\* succeeded or not: a file like the remote one is kept, and otherwise the first
\* mirror that answered is the last to be asked.
CompareMd5(ok) ==
    /\ pc = "md5"
    /\ left # <<>>
    /\ left' = Tail(left)
    /\ \E sum \in Md5After(ok) :
           /\ md5' = [md5 EXCEPT ![Current] = sum]
           /\ IF SameAsRemote(sum)
              THEN PackageDone /\ kept' = kept \union {Current}
              ELSE /\ pc' = IF ok THEN "download" ELSE "md5"
                   /\ UNCHANGED <<todo, kept>>
    /\ UNCHANGED <<method, served, build, file, fetched, seen, tar>>

\* Defect: when no mirror answers, they are all asked again.
AskAgain ==
    /\ pc = "md5"
    /\ left = <<>>
    /\ left' = Mirrors
    /\ UNCHANGED <<method, served, build, pc, todo, cacheVars, seen, tar>>

NoMd5 ==
    /\ pc = "md5"
    /\ left = <<>>
    /\ pc' = "download"
    /\ UNCHANGED <<method, served, build, todo, left, cacheVars, seen, tar>>

\* aria2c starts the file anew, or goes on with one that was cut short.
StartDownload ==
    /\ pc = "download"
    /\ file' = [file EXCEPT ![Current] =
                   IF file[Current].whole THEN Partial({}) ELSE file[Current]]
    /\ pc' = "pieces"
    /\ UNCHANGED <<method, served, build, todo, left, md5, seen, kept, fetched, tar>>

\* A piece comes from any mirror that answers; it may be the last one.
Piece(m, last) ==
    /\ pc = "pieces"
    /\ LET pieces == file[Current].got \union {served[m]}
       IN  file' = [file EXCEPT ![Current] = IF last THEN Whole(pieces) ELSE Partial(pieces)]
    /\ IF last THEN PackageDone /\ fetched' = fetched \union {Current}
               ELSE UNCHANGED <<pc, todo, fetched>>
    /\ UNCHANGED <<method, served, build, left, md5, seen, kept, tar>>

\* Defect: aria2c's exit status is dropped.
DownloadFailureIgnored ==
    /\ pc = "pieces"
    /\ PackageDone
    /\ UNCHANGED <<method, served, build, left, cacheVars, seen, tar>>

\* exec_command: exit 1.
DownloadFails ==
    /\ pc = "pieces"
    /\ pc' = "ended"
    /\ UNCHANGED <<method, served, build, todo, left, cacheVars, seen, tar>>

\* get_from_git, get_from_docker, get_from_curl have one source each, the first
\* here, and write the file afresh.
Source == served[Head(Mirrors)]

\* What a command that ends well has written.  curl is called without --fail (and
\* without --location), so that an error page, too, is a file and a success.
Fetched == {Whole({Source})} \union (IF By("curl") THEN {Page} ELSE {})

Fetch ==
    /\ By("git") \/ By("docker") \/ By("curl")
    /\ \E f \in Fetched : file' = [file EXCEPT ![Current] = f]
    /\ fetched' = fetched \union {Current}
    /\ PackageDone
    /\ UNCHANGED <<method, served, build, left, md5, seen, kept, tar>>

\* A command fails: git has removed the file first, docker fails before or after
\* the file is written, curl may have received a part.
FetchFails ==
    /\ By("git") \/ By("docker") \/ By("curl")
    /\ \E f \in {NoFile, Partial({Source}), Whole({Source}), file[Current]} :
           /\ f = file[Current] => ~ By("git")
           /\ file' = [file EXCEPT ![Current] = f]
    /\ pc' = "ended"
    /\ UNCHANGED <<method, served, build, todo, left, md5, seen, kept, fetched, tar>>

\* 'usage' without parentheses: nothing happens.
SkipUnknown ==
    /\ By("unknown")
    /\ PackageDone
    /\ UNCHANGED <<method, served, build, left, cacheVars, seen, tar>>

-----------------------------------------------------------------------------
(* build_tar. *)

RemoveTar ==
    /\ pc = "package"
    /\ todo = <<>>
    /\ tar' = NoTar
    /\ pc' = "tar"
    /\ UNCHANGED <<method, served, build, todo, left, cacheVars, seen>>

\* The files are packed in the cache directory and the result moved into place.
MakeTar ==
    /\ pc = "tar"
    /\ tar' = [p \in Package |-> IF method[p] = "git" THEN NoFile ELSE file[p]]
    /\ pc' = "ended"
    /\ UNCHANGED <<method, served, build, todo, left, cacheVars, seen>>

-----------------------------------------------------------------------------

Parser ==
    \/ RemoveMd5
    \/ \E ok \in BOOLEAN : CompareMd5(ok)
    \/ NoMd5
    \/ StartDownload
    \/ \E m \in Mirror, last \in BOOLEAN : Piece(m, last)
    \/ DownloadFails
    \/ Fetch
    \/ FetchFails
    \/ SkipUnknown

Build == Parser \/ RemoveTar \/ MakeTar

Idle ==
    /\ ~ Running /\ build = MaxBuilds
    /\ UNCHANGED vars

Next ==
    \/ \E m \in Mirror, r \in Release : Publish(m, r)
    \/ StartBuild
    \/ Die
    \/ Build
    \/ Idle

Spec == Init /\ [][Next]_vars

\* A build goes on, and aria2c does not receive pieces for ever.
FairSpec ==
    /\ Spec
    /\ WF_vars(Build)
    /\ WF_vars(DownloadFails \/ \E m \in Mirror : Piece(m, TRUE))

-----------------------------------------------------------------------------

TypeOK ==
    /\ method \in [Package -> Methods \union {"unknown"}]
    /\ served \in [Mirror -> Release]
    /\ build \in 0..MaxBuilds
    /\ pc \in {"ended", "package", "md5", "download", "pieces", "tar"}
    /\ todo \in Seq(Package) /\ left \in Seq(Mirror)
    /\ pc \in {"md5", "download", "pieces"} => todo # <<>>
    /\ file \in [Package -> Files]
    /\ md5 \in [Package -> SUBSET Release]
    /\ seen \subseteq Release
    /\ kept \subseteq Package /\ fetched \subseteq Package
    /\ tar \in [Package -> Files]

\* A file the build keeps instead of downloading it is complete, of one release,
\* and of one that a mirror has served since the build began: neither a download
\* cut short nor a mixture nor an outdated file passes for the remote one, with
\* mirrors that fail and move on at any moment (the checksum file is removed
\* first, parser.py:34, and compared after failed requests too).
KeptIsCurrent ==
    Running => \A p \in kept : \E r \in seen : file[p] = Whole({r})

\* Whatever builds died before, the tarball holds no package that was cut short, and
\* those that aria2c or docker bring are packages (exec_command exits at the first
\* command that fails).  It does not hold of curl's: an error page ends curl well
\* (parser.py:84), and is packed.
TarIsWhole ==
    tar # NoTar =>
        \A p \in InTar : tar[p].whole /\ (method[p] # "curl" => tar[p].got # {})

\* A package of one release in a tarball just made is not of a release that was
\* gone before the build began: there is no build from the cache alone.
TarIsCurrent ==
    [][ pc = "tar" /\ tar' # tar =>
            \A p \in InTar, r \in Release : tar'[p].got = {r} => r \in seen ]_vars

\* A build that could not get a package leaves the last tarball where it is: when it
\* is touched, each package was found in the cache or its download ended well, in
\* this build.  Packages whose get_method is none of the four are passed over without
\* a word ('usage' is no call, parser.py:114), and stop no build.
OldTarKept ==
    [][ tar' # tar =>
            \A p \in Package : method[p] = "unknown" \/ p \in kept \union fetched ]_vars

\* A build ends, although no mirror may answer.
BuildEnds == Running ~> ~Running
=============================================================================
