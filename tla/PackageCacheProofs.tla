-------------------------- MODULE PackageCacheProofs ---------------------------
(***************************************************************************)
(* The package cache for any packages, mirrors, releases and number of     *)
(* builds.  The invariant says what is known of a package once the build   *)
(* is past it, and that what the build learns of the mirrors is of its own *)
(* time.  A bound on the steps left shows why a build ends.                *)
(***************************************************************************)
EXTENDS PackageCache, TLAPS

Pending(p) == \E i \in DOMAIN todo : todo[i] = p

\* Mirrors are observed while the build runs.
Observed ==
    /\ \A p \in Package : md5[p] = {} \/ \E r \in Release : md5[p] = {r}
    /\ Running => \A m \in Mirror : served[m] \in seen
    /\ pc = "md5" => md5[Current] \subseteq seen
    /\ pc \in {"md5", "download", "pieces"} => method[Current] = "cached"

\* What may be taken for a package: a complete file, of a release (and of one that is
\* not gone) unless it is a page that curl took for one.
APage(f, p) == method[p] = "curl" /\ f.got = {}
Genuine(f, p) == f.whole => f.got # {} \/ APage(f, p)
Fresh(f, p) == f.whole /\ (f.got \intersect seen # {} \/ APage(f, p))

\* A complete file has a release, and one the build is past has one that a mirror
\* served meanwhile; pages aside.
Processed ==
    /\ \A p \in Package : Genuine(file[p], p)
    /\ Running => \A p \in InTar : ~Pending(p) => Fresh(file[p], p)
    /\ pc = "tar" => todo = <<>>

\* Each package the build is past was found or downloaded, if it has a method.
Obtained ==
    Running => \A p \in Package :
        Pending(p) \/ method[p] = "unknown" \/ p \in kept \union fetched

Distinct == \A i, j \in DOMAIN todo : i # j => todo[i] # todo[j]

\* A package is processed once.
Once ==
    /\ Distinct
    /\ Running => \A p \in kept : ~Pending(p)

IInv == TypeOK /\ Observed /\ Processed /\ Obtained /\ Once /\ KeptIsCurrent /\ TarIsWhole

-----------------------------------------------------------------------------

LEMMA SomeMirror == Head(Mirrors) \in Mirror /\ Mirrors \in Seq(Mirror)
BY CacheAssumption DEF Mirror, ToSet, IsInjective

LEMMA AllPackages ==
    /\ Packages \in Seq(Package)
    /\ \A p \in Package : \E i \in DOMAIN Packages : Packages[i] = p
    /\ \A i, j \in DOMAIN Packages : i # j => Packages[i] # Packages[j]
BY CacheAssumption DEF Package, ToSet, IsInjective

LEMMA FileForms ==
    ASSUME NEW S \in SUBSET Release
    PROVE  /\ Whole(S) \in Files /\ Whole(S).got = S
           /\ Partial(S) \in Files /\ ~Partial(S).whole
           /\ NoFile \in Files /\ ~NoFile.whole
BY DEF Whole, Partial, NoFile, Files

LEMMA InitIInv == Init => IInv
BY CacheAssumption
   DEF Init, IInv, TypeOK, Observed, Processed, Genuine, Obtained, Once, KeptIsCurrent, TarIsWhole,
       Running, NoTar, NoFile, Files, Distinct

\* What is left after the current package.
LEMMA TailOfTodo ==
    ASSUME IInv, todo # <<>>
    PROVE  /\ Current \in Package /\ Pending(Current)
           /\ Tail(todo) \in Seq(Package)
           /\ \A i, j \in DOMAIN Tail(todo) : i # j => Tail(todo)[i] # Tail(todo)[j]
           /\ \A p : Pending(p) =>
                  p = Current \/ \E i \in DOMAIN Tail(todo) : Tail(todo)[i] = p
           /\ \A p : (\E i \in DOMAIN Tail(todo) : Tail(todo)[i] = p) =>
                  Pending(p) /\ p # Current
<1>. USE DEF IInv, TypeOK, Once, Distinct, Pending, Current
<1>1. /\ todo \in Seq(Package) /\ Len(todo) \in Nat /\ Len(todo) > 0
      /\ DOMAIN todo = 1..Len(todo)
      /\ Head(todo) = todo[1]
      /\ Tail(todo) \in Seq(Package)
      /\ Len(Tail(todo)) = Len(todo) - 1
      /\ DOMAIN Tail(todo) = 1..(Len(todo) - 1)
      /\ \A i \in 1..(Len(todo) - 1) : Tail(todo)[i] = todo[i + 1]
  OBVIOUS
<1>2. \A i \in 1..(Len(todo) - 1) : i + 1 \in DOMAIN todo /\ i + 1 # 1
  BY <1>1
<1>3. \A i \in DOMAIN todo : i = 1 \/ (i - 1 \in 1..(Len(todo) - 1) /\ (i - 1) + 1 = i)
  BY <1>1
<1>4. Current \in Package /\ Pending(Current)
  BY <1>1
<1>5. ASSUME NEW i \in DOMAIN Tail(todo), NEW j \in DOMAIN Tail(todo), i # j
      PROVE  Tail(todo)[i] # Tail(todo)[j]
  <2>1. i + 1 # j + 1
    BY <1>1, <1>5
  <2>. QED  BY <2>1, <1>1, <1>2
<1>6. ASSUME NEW p, Pending(p)
      PROVE  p = Current \/ \E i \in DOMAIN Tail(todo) : Tail(todo)[i] = p
  BY <1>1, <1>3, <1>6, SMTT(30)
<1>7. ASSUME NEW p, NEW i \in DOMAIN Tail(todo), Tail(todo)[i] = p
      PROVE  Pending(p) /\ p # Current
  BY <1>1, <1>2, <1>7, SMTT(30)
<1>. QED  BY <1>1, <1>4, <1>5, <1>6, <1>7

\* What a step that finishes the current package does to the packages pending.
LEMMA Advance ==
    ASSUME IInv, todo # <<>>, PackageDone
    PROVE  /\ Current \in Package /\ Pending(Current)
           /\ todo' \in Seq(Package) /\ Distinct' /\ pc' = "package"
           /\ \A p : Pending(p)' <=> Pending(p) /\ p # Current
BY TailOfTodo DEF PackageDone, Pending, Distinct

LEMMA Stay ==
    ASSUME UNCHANGED todo
    PROVE  /\ \A p : Pending(p)' <=> Pending(p)
           /\ Current' = Current /\ (Distinct <=> Distinct')
BY DEF Pending, Current, Distinct

-----------------------------------------------------------------------------
LEMMA WorldStep ==
    ASSUME IInv, \/ \E m \in Mirror, r \in Release : Publish(m, r)
           \/ StartBuild
           \/ Die
    PROVE  IInv'
<1>. USE CacheAssumption DEF IInv, TypeOK, Running, InTar, cacheVars, Methods, Files, NoFile, Partial, Whole
<1>1. ASSUME NEW m \in Mirror, NEW r \in Release, Publish(m, r) PROVE IInv'
  <2>1. TypeOK'
    BY <1>1, Stay DEF Publish, TypeOK
  <2>2. Observed'
    BY <1>1, Stay DEF Publish, Observed
  <2>3. Processed'
    BY <1>1, Stay DEF Publish, Processed, Genuine, Fresh, APage
  <2>4. Once'
    BY <1>1, Stay DEF Publish, Once
  <2>5. KeptIsCurrent'
    BY <1>1, Stay DEF Publish, KeptIsCurrent
  <2>6. TarIsWhole'
    BY <1>1, Stay DEF Publish, TarIsWhole
  <2>7. Obtained'
    BY <1>1, Stay DEF Publish, Obtained
  <2>. QED  BY <2>1, <2>2, <2>3, <2>4, <2>5, <2>6, <2>7 DEF IInv
<1>2. CASE StartBuild
  <2>1. TypeOK'
    BY <1>2, AllPackages DEF StartBuild, Pending, Distinct, TypeOK
  <2>2. Observed'
    BY <1>2, AllPackages DEF StartBuild, Pending, Distinct, Observed
  <2>3. Processed'
    BY <1>2, AllPackages DEF StartBuild, Pending, Distinct, Processed, Genuine, Fresh, APage
  <2>4. Once'
    BY <1>2, AllPackages DEF StartBuild, Pending, Distinct, Once
  <2>5. KeptIsCurrent'
    BY <1>2, AllPackages DEF StartBuild, Pending, Distinct, KeptIsCurrent
  <2>6. TarIsWhole'
    BY <1>2, AllPackages DEF StartBuild, Pending, Distinct, TarIsWhole
  <2>7. Obtained'
    BY <1>2, AllPackages DEF StartBuild, Pending, Distinct, Obtained
  <2>. QED  BY <2>1, <2>2, <2>3, <2>4, <2>5, <2>6, <2>7 DEF IInv
<1>3. CASE Die
  <2>1. TypeOK'
    BY <1>3, Stay DEF Die, TypeOK
  <2>2. Observed'
    BY <1>3, Stay DEF Die, Observed
  <2>3. Processed'
    BY <1>3, Stay DEF Die, Processed, Genuine, Fresh, APage
  <2>4. Once'
    BY <1>3, Stay DEF Die, Once
  <2>5. KeptIsCurrent'
    BY <1>3, Stay DEF Die, KeptIsCurrent
  <2>6. TarIsWhole'
    BY <1>3, Stay DEF Die, TarIsWhole
  <2>7. Obtained'
    BY <1>3, Stay DEF Die, Obtained
  <2>. QED  BY <2>1, <2>2, <2>3, <2>4, <2>5, <2>6, <2>7 DEF IInv
<1>. QED  BY <1>1, <1>2, <1>3

LEMMA TarStep ==
    ASSUME IInv, RemoveTar \/ MakeTar
    PROVE  IInv'
<1>. USE CacheAssumption DEF IInv, TypeOK, Running, InTar, cacheVars, Methods, Files, NoFile, Partial, Whole
<1>1. CASE RemoveTar
  <2>1. TypeOK'
    BY <1>1, Stay DEF RemoveTar, NoTar, TypeOK
  <2>2. Observed'
    BY <1>1, Stay DEF RemoveTar, NoTar, Observed
  <2>3. Processed'
    BY <1>1, Stay DEF RemoveTar, NoTar, Processed, Genuine, Fresh, APage
  <2>4. Once'
    BY <1>1, Stay DEF RemoveTar, NoTar, Once
  <2>5. KeptIsCurrent'
    BY <1>1, Stay DEF RemoveTar, NoTar, KeptIsCurrent
  <2>6. TarIsWhole'
    BY <1>1, Stay DEF RemoveTar, NoTar, TarIsWhole
  <2>7. Obtained'
    BY <1>1, Stay DEF RemoveTar, NoTar, Obtained
  <2>. QED  BY <2>1, <2>2, <2>3, <2>4, <2>5, <2>6, <2>7 DEF IInv
<1>2. CASE MakeTar
  <2>1. TypeOK'
    BY <1>2, Stay DEF MakeTar, Pending, TypeOK
  <2>2. Observed'
    BY <1>2, Stay DEF MakeTar, Pending, Observed
  <2>3. Processed'
    BY <1>2, Stay DEF MakeTar, Pending, Processed, Genuine, Fresh, APage
  <2>4. Once'
    BY <1>2, Stay DEF MakeTar, Pending, Once
  <2>5. KeptIsCurrent'
    BY <1>2, Stay DEF MakeTar, Pending, KeptIsCurrent
  <2>6. TarIsWhole'
    <3>1. ASSUME NEW q \in InTar'
          PROVE  tar'[q].whole /\ (method[q] # "curl" => tar'[q].got # {})
      <4>1. q \in InTar /\ ~Pending(q) /\ tar'[q] = file[q]
        BY <1>2, <3>1 DEF MakeTar, Pending, Processed
      <4>2. Fresh(file[q], q)
        BY <4>1, <1>2 DEF MakeTar, Processed
      <4>. QED  BY <4>1, <4>2 DEF Fresh, APage
    <3>2. method' = method
      BY <1>2 DEF MakeTar
    <3>. QED  BY <3>1, <3>2 DEF TarIsWhole
  <2>7. Obtained'
    BY <1>2, Stay DEF MakeTar, Pending, Obtained
  <2>. QED  BY <2>1, <2>2, <2>3, <2>4, <2>5, <2>6, <2>7 DEF IInv
<1>. QED  BY <1>1, <1>2

LEMMA ChecksumStep ==
    ASSUME IInv, RemoveMd5 \/ (\E ok \in BOOLEAN : CompareMd5(ok)) \/ NoMd5
    PROVE  IInv'
<1>. USE CacheAssumption DEF IInv, TypeOK, Running, InTar, cacheVars, Methods, Files, NoFile, Partial, Whole
<1>1. CASE RemoveMd5
  <2>1. TypeOK'
    BY <1>1, Stay, TailOfTodo, SomeMirror DEF RemoveMd5, By, TypeOK
  <2>2. Observed'
    BY <1>1, Stay, TailOfTodo, SomeMirror, ZenonT(40) DEF RemoveMd5, By, Observed
  <2>3. Processed'
    BY <1>1, Stay, TailOfTodo, SomeMirror DEF RemoveMd5, By, Processed, Genuine, Fresh, APage
  <2>4. Once'
    BY <1>1, Stay, TailOfTodo, SomeMirror DEF RemoveMd5, By, Once
  <2>5. KeptIsCurrent'
    BY <1>1, Stay, TailOfTodo, SomeMirror DEF RemoveMd5, By, KeptIsCurrent
  <2>6. TarIsWhole'
    BY <1>1, Stay, TailOfTodo, SomeMirror DEF RemoveMd5, By, TarIsWhole
  <2>7. Obtained'
    BY <1>1, Stay, TailOfTodo, SomeMirror DEF RemoveMd5, By, Obtained
  <2>. QED  BY <2>1, <2>2, <2>3, <2>4, <2>5, <2>6, <2>7 DEF IInv
<1>2. ASSUME NEW ok \in BOOLEAN, CompareMd5(ok) PROVE IInv'
  <2>. PICK sum \in Md5After(ok) :
           /\ md5' = [md5 EXCEPT ![Current] = sum]
           /\ IF SameAsRemote(sum)
              THEN PackageDone /\ kept' = kept \union {Current}
              ELSE /\ pc' = IF ok THEN "download" ELSE "md5"
                   /\ UNCHANGED <<todo, kept>>
    BY <1>2 DEF CompareMd5
  <2>0. /\ todo # <<>> /\ Running /\ Running' /\ Current \in Package
        /\ UNCHANGED <<method, served, build, file, fetched, seen, tar>>
        /\ left' \in Seq(Mirror) /\ Head(left) \in Mirror
        /\ pc' # "tar" /\ InTar' = InTar
    BY <1>2, TailOfTodo DEF CompareMd5, PackageDone
  <2>5. method[Current] = "cached"
    BY <1>2 DEF CompareMd5, Observed
  <2>1. /\ sum \subseteq seen
        /\ sum = {} \/ \E r \in Release : sum = {r}
    BY <1>2, <2>0, ZenonT(40) DEF CompareMd5, Md5After, Observed
  <2>2. \A q \in Package : md5'[q] = IF q = Current THEN sum ELSE md5[q]
    BY <2>0
  <2>3. CASE SameAsRemote(sum)
    <3>1. PICK r \in seen : file[Current] = Whole({r})
      BY <2>0, <2>1, <2>3, <2>5 DEF SameAsRemote, Processed, Genuine, APage
    <3>2. PackageDone /\ kept' = kept \union {Current}
      BY <2>3
    <3>3. TypeOK'
      BY <2>0, <2>1, <2>2, <3>2, Advance DEF TypeOK
    <3>4. Observed'
      BY <2>0, <2>1, <2>2, <3>2, Advance DEF Observed
    <3>5. Processed'
      <4>1. ASSUME NEW q \in InTar, ~Pending(q)'
            PROVE  Fresh(file[q], q)
        BY <2>0, <3>1, <3>2, <4>1, Advance DEF Processed, Fresh
      <4>. QED  BY <4>1, <2>0 DEF Processed, Genuine, Fresh, APage
    <3>6. Once'
      BY <2>0, <3>2, Advance DEF Once
    <3>7. KeptIsCurrent'
      <4>1. ASSUME NEW q \in kept' PROVE \E s \in seen : file[q] = Whole({s})
        BY <2>0, <3>1, <3>2, <4>1 DEF KeptIsCurrent
      <4>. QED  BY <4>1, <2>0 DEF KeptIsCurrent
    <3>8. TarIsWhole'
      BY <2>0 DEF TarIsWhole, NoTar
    <3>9. Obtained'
      BY <2>0, <3>2, Advance DEF Obtained
    <3>. QED  BY <3>3, <3>4, <3>5, <3>6, <3>7, <3>8, <3>9
  <2>4. CASE ~SameAsRemote(sum)
    <3>1. UNCHANGED <<todo, kept>> /\ pc' \in {"download", "md5"}
      BY <2>4
    <3>2. TypeOK'
      BY <2>0, <2>1, <2>2, <3>1 DEF TypeOK
    <3>3. Observed'
      BY <2>0, <2>1, <2>2, <2>5, <3>1, Stay DEF Observed
    <3>4. Processed'
      BY <2>0, <3>1, Stay DEF Processed, Genuine, Fresh, APage
    <3>5. Once'
      BY <2>0, <3>1, Stay DEF Once
    <3>6. KeptIsCurrent'
      BY <2>0, <3>1 DEF KeptIsCurrent
    <3>7. TarIsWhole'
      BY <2>0 DEF TarIsWhole, NoTar
    <3>8. Obtained'
      BY <2>0, <3>1, Stay DEF Obtained
    <3>. QED  BY <3>2, <3>3, <3>4, <3>5, <3>6, <3>7, <3>8
  <2>. QED  BY <2>3, <2>4
<1>3. CASE NoMd5
  <2>1. TypeOK'
    BY <1>3, Stay DEF NoMd5, TypeOK
  <2>2. Observed'
    BY <1>3, Stay DEF NoMd5, Observed
  <2>3. Processed'
    BY <1>3, Stay DEF NoMd5, Processed, Genuine, Fresh, APage
  <2>4. Once'
    BY <1>3, Stay DEF NoMd5, Once
  <2>5. KeptIsCurrent'
    BY <1>3, Stay DEF NoMd5, KeptIsCurrent
  <2>6. TarIsWhole'
    BY <1>3, Stay DEF NoMd5, TarIsWhole
  <2>7. Obtained'
    BY <1>3, Stay DEF NoMd5, Obtained
  <2>. QED  BY <2>1, <2>2, <2>3, <2>4, <2>5, <2>6, <2>7 DEF IInv
<1>. QED  BY <1>1, <1>2, <1>3

LEMMA DownloadStep ==
    ASSUME IInv, StartDownload \/ DownloadFails
    PROVE  IInv'
<1>. USE CacheAssumption DEF IInv, TypeOK, Running, InTar, cacheVars, Methods, Files, NoFile, Partial, Whole
<1>1. CASE StartDownload
  <2>0. /\ Current \in Package /\ Pending(Current)
        /\ \A p \in Package : file'[p] = IF p = Current THEN (IF file[Current].whole THEN Partial({}) ELSE file[Current]) ELSE file[p]
    BY <1>1, TailOfTodo, SomeMirror DEF StartDownload
  <2>1. TypeOK'
    BY <1>1, Stay, <2>0 DEF StartDownload, TypeOK
  <2>2. Observed'
    BY <1>1, Stay, <2>0 DEF StartDownload, Observed
  <2>3. Processed'
    BY <1>1, Stay, <2>0 DEF StartDownload, Processed, Genuine, Fresh, APage
  <2>4. Once'
    BY <1>1, Stay, <2>0 DEF StartDownload, Once
  <2>5. KeptIsCurrent'
    <3>1. ASSUME Running', NEW q \in kept'
          PROVE  \E r \in seen' : file'[q] = Whole({r})
      <4>1. q \in Package /\ q # Current /\ q \in kept
        BY <1>1, <2>0, <3>1 DEF StartDownload, Once
      <4>2. file'[q] = file[q] /\ seen' = seen
        BY <1>1, <2>0, <4>1 DEF StartDownload
      <4>3. Running
        BY <1>1 DEF StartDownload
      <4>. QED  BY <4>1, <4>2, <4>3 DEF KeptIsCurrent
    <3>. QED  BY <3>1 DEF KeptIsCurrent
  <2>6. TarIsWhole'
    BY <1>1, Stay, <2>0 DEF StartDownload, TarIsWhole
  <2>7. Obtained'
    BY <1>1, Stay, <2>0 DEF StartDownload, Obtained
  <2>. QED  BY <2>1, <2>2, <2>3, <2>4, <2>5, <2>6, <2>7 DEF IInv
<1>2. CASE DownloadFails
  <2>1. TypeOK'
    BY <1>2, Stay DEF DownloadFails, TypeOK
  <2>2. Observed'
    BY <1>2, Stay DEF DownloadFails, Observed
  <2>3. Processed'
    BY <1>2, Stay DEF DownloadFails, Processed, Genuine, Fresh, APage
  <2>4. Once'
    BY <1>2, Stay DEF DownloadFails, Once
  <2>5. KeptIsCurrent'
    BY <1>2, Stay DEF DownloadFails, KeptIsCurrent
  <2>6. TarIsWhole'
    BY <1>2, Stay DEF DownloadFails, TarIsWhole
  <2>7. Obtained'
    BY <1>2, Stay DEF DownloadFails, Obtained
  <2>. QED  BY <2>1, <2>2, <2>3, <2>4, <2>5, <2>6, <2>7 DEF IInv
<1>. QED  BY <1>1, <1>2

LEMMA PieceStep ==
    ASSUME IInv, NEW m \in Mirror, NEW last \in BOOLEAN, Piece(m, last)
    PROVE  IInv'
<1>. USE CacheAssumption DEF IInv, TypeOK, Running, InTar, cacheVars, Methods, Files, NoFile, Partial, Whole
<1>0. /\ Current \in Package /\ Pending(Current)
      /\ \A p \in Package :
             file'[p] = IF p = Current
                        THEN (IF last THEN Whole(file[Current].got \union {served[m]})
                              ELSE Partial(file[Current].got \union {served[m]}))
                        ELSE file[p]
  BY TailOfTodo, SomeMirror DEF Piece
<1>1. TypeOK'
  BY Stay, Advance, <1>0 DEF Piece, TypeOK
<1>2. Observed'
  BY Stay, Advance, <1>0 DEF Piece, Observed
<1>3. Processed'
  <2>1. served[m] \in seen /\ Running /\ seen' = seen /\ InTar' = InTar
    BY DEF Piece, Observed
  <2>2. ASSUME NEW q \in Package PROVE Genuine(file'[q], q)
    <3>1. CASE q = Current
      <4>1. CASE last
        <5>1. file'[q] = Whole(file[Current].got \union {served[m]})
          BY <1>0, <3>1, <4>1
        <5>2. file'[q].got = file[Current].got \union {served[m]}
          BY <5>1
        <5>. QED  BY <5>2 DEF Genuine
      <4>2. CASE ~last
        <5>1. file'[q] = Partial(file[Current].got \union {served[m]})
          BY <1>0, <3>1, <4>2
        <5>. QED  BY <5>1 DEF Genuine
      <4>. QED  BY <4>1, <4>2
    <3>2. CASE q # Current
      BY <1>0, <3>2 DEF Processed
    <3>. QED  BY <3>1, <3>2
  <2>3. ASSUME NEW q \in InTar, ~Pending(q)'
        PROVE  Fresh(file'[q], q)
    <3>1. CASE last /\ q = Current
      BY <1>0, <2>1, <3>1 DEF Fresh
    <3>2. CASE ~last
      <4>1. ~Pending(q) /\ q # Current
        BY <1>0, <2>3, <3>2, Stay DEF Piece
      <4>. QED  BY <4>1, <1>0, <2>1 DEF Processed
    <3>3. CASE last /\ q # Current
      <4>1. ~Pending(q)
        BY <2>3, <3>3, Advance DEF Piece
      <4>. QED  BY <4>1, <3>3, <1>0, <2>1 DEF Processed
    <3>. QED  BY <3>1, <3>2, <3>3
  <2>4. pc' # "tar"
    BY DEF Piece, PackageDone
  <2>5. method' = method
    BY DEF Piece
  <2>. QED  BY <2>1, <2>2, <2>3, <2>4, <2>5 DEF Processed, Genuine, Fresh, APage
<1>7. Obtained'
  BY Stay, Advance, <1>0 DEF Piece, Obtained
<1>4. Once'
  BY Stay, Advance, <1>0 DEF Piece, Once
<1>5. KeptIsCurrent'
  <2>1. ASSUME Running', NEW q \in kept'
        PROVE  \E r \in seen' : file'[q] = Whole({r})
    <3>1. q \in Package /\ q # Current /\ q \in kept
      BY <1>0, <2>1 DEF Piece, Once
    <3>2. file'[q] = file[q] /\ seen' = seen
      BY <1>0, <3>1 DEF Piece
    <3>3. Running
      BY DEF Piece
    <3>. QED  BY <3>1, <3>2, <3>3 DEF KeptIsCurrent
  <2>. QED  BY <2>1 DEF KeptIsCurrent
<1>6. TarIsWhole'
  BY Stay, Advance, <1>0 DEF Piece, TarIsWhole
<1>. QED  BY <1>1, <1>2, <1>3, <1>4, <1>5, <1>6, <1>7 DEF IInv

LEMMA FetchStep ==
    ASSUME IInv, Fetch \/ FetchFails \/ SkipUnknown
    PROVE  IInv'
<1>. USE CacheAssumption DEF IInv, TypeOK, Running, InTar, cacheVars, Methods, Files, NoFile, Partial, Whole
<1>1. CASE Fetch
  <2>. PICK f \in Fetched : file' = [file EXCEPT ![Current] = f]
    BY <1>1 DEF Fetch
  <2>0. /\ Current \in Package /\ Pending(Current)
        /\ \A p \in Package : file'[p] = IF p = Current THEN f ELSE file[p]
    BY <1>1, TailOfTodo, SomeMirror DEF Fetch, By
  <2>8. /\ todo # <<>> /\ PackageDone /\ fetched' = fetched \union {Current}
        /\ Source \in Release /\ Source \in seen /\ Running /\ pc' = "package"
        /\ UNCHANGED <<method, served, build, left, md5, seen, kept, tar>>
        /\ method[Current] \in {"git", "docker", "curl"}
    BY <1>1, SomeMirror DEF Fetch, By, Source, Observed, PackageDone
  <2>9. f \in Files /\ f.whole /\ (f.got = {Source} \/ APage(f, Current))
    <3>1. {Source} \in SUBSET Release /\ {} \in SUBSET Release
      BY <2>8
    <3>2. /\ Whole({Source}) \in Files /\ Whole({Source}).got = {Source}
          /\ Whole({}) \in Files /\ Whole({}).got = {}
      BY <3>1, FileForms
    <3>3. f = Whole({Source}) \/ (f = Whole({}) /\ method[Current] = "curl")
      BY DEF Fetched, Page, By
    <3>. QED  BY <3>2, <3>3 DEF APage
  <2>1. TypeOK'
    BY <2>0, <2>8, <2>9, Advance DEF TypeOK
  <2>2. Observed'
    BY <2>8 DEF Observed
  <2>3. Processed'
    <3>1. \A p \in Package : Genuine(file'[p], p)
      BY <2>0, <2>9 DEF Processed, Genuine
    <3>2. ASSUME NEW p \in InTar, ~Pending(p)'
          PROVE  Fresh(file'[p], p)
      <4>1. CASE p = Current
        BY <2>0, <2>8, <2>9, <4>1 DEF Fresh
      <4>2. CASE p # Current
        BY <2>0, <2>8, <3>2, <4>2, Advance DEF Processed
      <4>. QED  BY <4>1, <4>2
    <3>3. InTar' = InTar
      BY <2>8
    <3>. QED  BY <2>8, <3>1, <3>2, <3>3 DEF Processed, Genuine, Fresh, APage
  <2>4. Once'
    BY <2>8, Advance DEF Once
  <2>5. KeptIsCurrent'
    <3>1. ASSUME Running', NEW q \in kept'
          PROVE  \E r \in seen' : file'[q] = Whole({r})
      <4>1. q \in Package /\ q # Current /\ q \in kept
        BY <1>1, <2>0, <3>1 DEF Fetch, By, Once
      <4>2. file'[q] = file[q] /\ seen' = seen
        BY <1>1, <2>0, <4>1 DEF Fetch, By
      <4>3. Running
        BY <1>1 DEF Fetch, By
      <4>. QED  BY <4>1, <4>2, <4>3 DEF KeptIsCurrent
    <3>. QED  BY <3>1 DEF KeptIsCurrent
  <2>6. TarIsWhole'
    BY <2>8 DEF TarIsWhole, NoTar
  <2>7. Obtained'
    BY <2>8, Advance DEF Obtained
  <2>. QED  BY <2>1, <2>2, <2>3, <2>4, <2>5, <2>6, <2>7 DEF IInv
<1>2. CASE FetchFails
  <2>. PICK f \in {NoFile, Partial({Source}), Whole({Source}), file[Current]} :
           file' = [file EXCEPT ![Current] = f]
    BY <1>2 DEF FetchFails
  <2>0. /\ Current \in Package /\ Source \in Release /\ pc' = "ended"
        /\ UNCHANGED <<method, served, build, todo, left, md5, seen, kept, fetched, tar>>
    BY <1>2, TailOfTodo, SomeMirror DEF FetchFails, By, Source
  <2>1. f \in Files /\ Genuine(f, Current)
    <3>1. CASE f = file[Current]
      BY <2>0, <3>1 DEF Processed, Genuine
    <3>2. CASE f # file[Current]
      <4>0. {Source} \in SUBSET Release
        BY <2>0
      <4>1. /\ Whole({Source}) \in Files /\ Source \in Whole({Source}).got
            /\ Partial({Source}) \in Files /\ ~Partial({Source}).whole
            /\ NoFile \in Files /\ ~NoFile.whole
        BY <4>0, FileForms
      <4>. QED  BY <3>2, <4>1 DEF Genuine
    <3>. QED  BY <3>1, <3>2
  <2>2. \A q \in Package : file'[q] = IF q = Current THEN f ELSE file[q]
    BY <2>0
  <2>3. TypeOK'
    BY <2>0, <2>1, <2>2 DEF TypeOK
  <2>4. Observed' /\ Obtained' /\ Once' /\ KeptIsCurrent' /\ TarIsWhole'
    BY <2>0, Stay DEF Observed, Obtained, Once, KeptIsCurrent, TarIsWhole, NoTar
  <2>5. Processed'
    BY <2>0, <2>1, <2>2 DEF Processed, Genuine, APage
  <2>. QED  BY <2>3, <2>4, <2>5
<1>3. CASE SkipUnknown
  <2>1. TypeOK'
    BY <1>3, Stay, Advance DEF SkipUnknown, By, TypeOK
  <2>2. Observed'
    BY <1>3, Stay, Advance DEF SkipUnknown, By, Observed
  <2>3. Processed'
    BY <1>3, Stay, Advance DEF SkipUnknown, By, Processed, Genuine, Fresh, APage
  <2>4. Once'
    BY <1>3, Stay, Advance DEF SkipUnknown, By, Once
  <2>5. KeptIsCurrent'
    BY <1>3, Stay, Advance DEF SkipUnknown, By, KeptIsCurrent
  <2>6. TarIsWhole'
    BY <1>3, Stay, Advance DEF SkipUnknown, By, TarIsWhole
  <2>7. Obtained'
    BY <1>3, Stay, Advance DEF SkipUnknown, By, Obtained
  <2>. QED  BY <2>1, <2>2, <2>3, <2>4, <2>5, <2>6, <2>7 DEF IInv
<1>. QED  BY <1>1, <1>2, <1>3

-----------------------------------------------------------------------------
(* The theorems. *)

\* Every step keeps the invariant.
LEMMA StepIInv == IInv /\ [Next]_vars => IInv'
<1>. SUFFICES ASSUME IInv, [Next]_vars PROVE IInv'
  OBVIOUS
<1>1. CASE UNCHANGED vars
  BY <1>1 DEF vars, cacheVars, IInv, TypeOK, Observed, Processed, Genuine, Fresh, APage, Obtained, Once, Distinct,
              KeptIsCurrent, TarIsWhole, Running, Pending, Current, InTar, NoTar
<1>2. CASE Next
  <2>1. CASE (\E m \in Mirror, r \in Release : Publish(m, r)) \/ StartBuild \/ Die
    BY <2>1, WorldStep
  <2>2. CASE Parser
    <3>1. CASE RemoveMd5 \/ (\E ok \in BOOLEAN : CompareMd5(ok)) \/ NoMd5
      BY <3>1, ChecksumStep
    <3>2. CASE StartDownload \/ DownloadFails
      BY <3>2, DownloadStep
    <3>4. CASE \E m \in Mirror, last \in BOOLEAN : Piece(m, last)
      BY <3>4, PieceStep
    <3>3. CASE Fetch \/ FetchFails \/ SkipUnknown
      BY <3>3, FetchStep
    <3>. QED  BY <2>2, <3>1, <3>2, <3>3, <3>4 DEF Parser
  <2>3. CASE RemoveTar \/ MakeTar
    BY <2>3, TarStep
  <2>. QED  BY <1>1, <1>2, <2>1, <2>2, <2>3 DEF Next, Build, Idle
<1>. QED  BY <1>1, <1>2

\* The invariant of the cache (parser.py with build_tar), for any packages, mirrors
\* and releases and however many builds are killed.
THEOREM CacheInvariant == Spec => []IInv
BY InitIInv, StepIInv, PTL DEF Spec

\* Type correctness of the build.
THEOREM CacheTypes == Spec => []TypeOK
BY CacheInvariant, PTL DEF IInv

\* A file kept by get_from_cache is of a release a mirror served meanwhile.
THEOREM KeepsCurrentFiles == Spec => []KeptIsCurrent
BY CacheInvariant, PTL DEF IInv

\* No tarball holds a part of a package, nor a page in place of one, except curl's.
THEOREM TarsAreWhole == Spec => []TarIsWhole
BY CacheInvariant, PTL DEF IInv

\* No tarball is made of outdated packages.
THEOREM TarsAreCurrent == Spec => TarIsCurrent
<1>1. ASSUME IInv, Next, pc = "tar", tar' # tar, NEW p \in InTar, NEW r \in Release,
             tar'[p].got = {r}
      PROVE  r \in seen
  <2>1. tar'[p] = file[p]
    BY <1>1 DEF Next, Build, Parser, Idle, Publish, StartBuild, Die, RemoveMd5, By,
                CompareMd5, NoMd5, StartDownload, Piece, DownloadFails, Fetch,
                FetchFails, SkipUnknown, RemoveTar, MakeTar, vars, InTar, Methods
  <2>2. ~Pending(p) /\ Running
    BY <1>1 DEF IInv, Processed, Pending, Running
  <2>3. file[p].got \intersect seen # {}
    BY <1>1, <2>1, <2>2 DEF IInv, Processed, Fresh, APage
  <2>. QED  BY <1>1, <2>1, <2>3
<1>2. IInv /\ [Next]_vars =>
          [ pc = "tar" /\ tar' # tar =>
                \A p \in InTar, r \in Release : tar'[p].got = {r} => r \in seen ]_vars
  BY <1>1
<1>. QED  BY <1>2, CacheInvariant, PTL DEF Spec, TarIsCurrent

\* The tarball is touched only when every package that has a method was found in the
\* cache or downloaded in the same build.
THEOREM FailuresKeepTar == Spec => OldTarKept
<1>1. ASSUME IInv, Next, tar' # tar, NEW p \in Package
      PROVE  method[p] = "unknown" \/ p \in kept \union fetched
  <2>1. todo = <<>> /\ Running
    BY <1>1 DEF IInv, Processed, Next, Build, Parser, Idle, Publish, StartBuild, Die,
                RemoveMd5, CompareMd5, NoMd5, StartDownload, Piece, DownloadFails, Fetch,
                FetchFails, SkipUnknown, RemoveTar, MakeTar, Running, vars
  <2>2. ~Pending(p)
    BY <2>1 DEF Pending
  <2>. QED  BY <1>1, <2>1, <2>2 DEF IInv, Obtained
<1>2. IInv /\ [Next]_vars =>
          [ tar' # tar =>
                \A p \in Package : method[p] = "unknown" \/ p \in kept \union fetched ]_vars
  BY <1>1
<1>. QED  BY <1>2, CacheInvariant, PTL DEF Spec, OldTarKept
-----------------------------------------------------------------------------
(* Why a build ends: a bound on the steps it may still take, pieces that are  *)
(* not the last of their file aside.                                          *)

\* The packages and mirrors still to be taken, the current ones included.
ToDo == Len(todo)
ToAsk == Len(left)
Asked == Len(Mirrors)

\* A package costs at most: get_from_cache, each mirror, giving up, the start of the
\* download and its end.
Work(n) == n * (Asked + 5)

BuildLeft ==
    CASE pc = "package"  -> Work(ToDo) + 2
      [] pc = "md5"      -> Work(ToDo - 1) + 2 + ToAsk + 4
      [] pc = "download" -> Work(ToDo - 1) + 2 + 3
      [] pc = "pieces"   -> Work(ToDo - 1) + 2 + 2
      [] pc = "tar"      -> 1
      [] OTHER           -> 0

\* aria2c receives a piece that is not the last one.
AnotherPiece == \E m \in Mirror : Piece(m, FALSE)

LEMMA WorkOf ==
    /\ Asked \in Nat
    /\ \A n \in Nat : Work(n) \in Nat
    /\ \A n \in Nat : n # 0 => n - 1 \in Nat /\ Work(n) = Work(n - 1) + Asked + 5
<1>1. Asked \in Nat
  BY SomeMirror DEF Asked
<1>2. \A n, b \in Nat : n * b \in Nat
  OBVIOUS
<1>3. \A n, b \in Nat : n # 0 => n - 1 \in Nat /\ n * b = (n - 1) * b + b
  OBVIOUS
<1>4. Asked + 5 \in Nat
  BY <1>1
<1>5. \A n \in Nat : Work(n) \in Nat
  BY <1>2, <1>4 DEF Work
<1>6. \A n \in Nat : n # 0 => Work(n) = Work(n - 1) + (Asked + 5)
  BY <1>3, <1>4 DEF Work
<1>. QED  BY <1>1, <1>3, <1>5, <1>6

LEMMA Counts ==
    ASSUME IInv
    PROVE  /\ ToDo \in Nat /\ ToAsk \in Nat
           /\ todo # <<>> => ToDo # 0
           /\ pc \in {"md5", "download", "pieces"} => todo # <<>>
<1>1. todo \in Seq(Package) /\ left \in Seq(Mirror)
  BY DEF IInv, TypeOK
<1>2. pc \in {"md5", "download", "pieces"} => todo # <<>>
  BY DEF IInv, TypeOK
<1>. QED  BY <1>1, <1>2 DEF ToDo, ToAsk

LEMMA BuildIsCounted ==
    ASSUME IInv
    PROVE  BuildLeft \in Nat /\ (BuildLeft = 0 <=> ~Running)
<1>1. pc \in {"ended", "package", "md5", "download", "pieces", "tar"}
  BY DEF IInv, TypeOK
<1>2. CASE pc \in {"md5", "download", "pieces"}
  <2>1. ToDo - 1 \in Nat
    BY <1>2, Counts, WorkOf
  <2>2. Work(ToDo - 1) \in Nat
    BY <2>1, WorkOf
  <2>. QED  BY <1>2, <2>2, Counts DEF BuildLeft, Running
<1>3. CASE pc \in {"ended", "package", "tar"}
  BY <1>3, Counts, WorkOf DEF BuildLeft, Running
<1>. QED  BY <1>1, <1>2, <1>3

\* A package that is done leaves one less.
LEMMA DoneCounts ==
    ASSUME IInv, todo # <<>>, PackageDone
    PROVE  BuildLeft' = Work(ToDo - 1) + 2
<1>1. todo \in Seq(Package)
  BY DEF IInv, TypeOK
<1>2. ToDo' = ToDo - 1 /\ pc' = "package"
  BY <1>1 DEF PackageDone, ToDo
<1>. QED  BY <1>2 DEF BuildLeft, Work, Asked

LEMMA BuildCountsDown ==
    ASSUME IInv, Build, ~AnotherPiece
    PROVE  BuildLeft' < BuildLeft
<1>1. /\ Asked \in Nat
      /\ todo # <<>> => /\ Work(ToDo - 1) \in Nat
                        /\ Work(ToDo) = Work(ToDo - 1) + Asked + 5
  BY Counts, WorkOf
<1>2. CASE RemoveMd5
  <2>1. /\ pc = "package" /\ pc' = "md5" /\ todo # <<>>
        /\ ToDo' = ToDo /\ ToAsk' = Asked
    BY <1>2 DEF RemoveMd5, By, ToDo, ToAsk, Asked
  <2>2. BuildLeft = Work(ToDo) + 2
    BY <2>1 DEF BuildLeft
  <2>3. BuildLeft' = Work(ToDo - 1) + 2 + Asked + 4
    BY <2>1 DEF BuildLeft, Work, Asked
  <2>. QED  BY <1>1, <2>1, <2>2, <2>3
<1>3. ASSUME NEW ok \in BOOLEAN, CompareMd5(ok)
      PROVE  BuildLeft' < BuildLeft
  <2>1. pc = "md5" /\ todo # <<>> /\ left # <<>> /\ left' = Tail(left)
    BY <1>3, Counts DEF CompareMd5
  <2>2. ToAsk # 0 /\ ToAsk' = ToAsk - 1
    <3>1. left \in Seq(Mirror)
      BY DEF IInv, TypeOK
    <3>. QED  BY <2>1, <3>1 DEF ToAsk
  <2>3. BuildLeft = Work(ToDo - 1) + 2 + ToAsk + 4
    BY <2>1 DEF BuildLeft
  <2>4. PackageDone \/ (todo' = todo /\ pc' \in {"download", "md5"})
    BY <1>3 DEF CompareMd5
  <2>5. CASE PackageDone
    BY <1>1, <2>1, <2>3, <2>5, DoneCounts, Counts
  <2>6. CASE todo' = todo /\ pc' = "download"
    <3>1. BuildLeft' = Work(ToDo - 1) + 2 + 3
      BY <2>6 DEF BuildLeft, ToDo, Work, Asked
    <3>2. ToAsk \in Nat /\ Work(ToDo - 1) \in Nat
      BY <1>1, <2>1, Counts
    <3>. QED  BY <2>2, <2>3, <3>1, <3>2
  <2>7. CASE todo' = todo /\ pc' = "md5"
    <3>1. BuildLeft' = Work(ToDo - 1) + 2 + ToAsk' + 4
      BY <2>7 DEF BuildLeft, ToDo, Work, Asked
    <3>2. ToAsk \in Nat /\ Work(ToDo - 1) \in Nat
      BY <1>1, <2>1, Counts
    <3>. QED  BY <2>2, <2>3, <3>1, <3>2
  <2>. QED  BY <2>4, <2>5, <2>6, <2>7
<1>4. CASE NoMd5 \/ StartDownload
  <2>1. /\ \/ pc = "md5" /\ pc' = "download"
           \/ pc = "download" /\ pc' = "pieces"
        /\ ToDo' = ToDo /\ todo # <<>>
    BY <1>4, Counts DEF NoMd5, StartDownload, ToDo
  <2>2. /\ pc = "md5" => BuildLeft = Work(ToDo - 1) + 2 + ToAsk + 4
        /\ pc = "download" => BuildLeft = Work(ToDo - 1) + 2 + 3
        /\ pc' = "download" => BuildLeft' = Work(ToDo - 1) + 2 + 3
        /\ pc' = "pieces" => BuildLeft' = Work(ToDo - 1) + 2 + 2
    BY <2>1 DEF BuildLeft, Work, Asked
  <2>. QED  BY <1>1, <2>1, <2>2, Counts, SMTT(30)
<1>5. CASE \E m \in Mirror : Piece(m, TRUE)
  <2>1. pc = "pieces" /\ todo # <<>> /\ PackageDone
    BY <1>5, Counts DEF Piece
  <2>2. BuildLeft = Work(ToDo - 1) + 2 + 2
    BY <2>1 DEF BuildLeft
  <2>. QED  BY <1>1, <2>1, <2>2, DoneCounts
<1>6. CASE Fetch \/ SkipUnknown
  <2>1. pc = "package" /\ todo # <<>> /\ PackageDone
    BY <1>6 DEF Fetch, SkipUnknown, By
  <2>2. BuildLeft = Work(ToDo) + 2
    BY <2>1 DEF BuildLeft
  <2>. QED  BY <1>1, <2>1, <2>2, DoneCounts
<1>7. CASE DownloadFails \/ FetchFails \/ MakeTar
  <2>1. Running /\ pc' = "ended"
    BY <1>7 DEF DownloadFails, FetchFails, MakeTar, By, Running
  <2>2. BuildLeft' = 0
    BY <2>1 DEF BuildLeft
  <2>. QED  BY <2>1, <2>2, BuildIsCounted
<1>8. CASE RemoveTar
  <2>1. pc = "package" /\ pc' = "tar"
    BY <1>8 DEF RemoveTar
  <2>2. BuildLeft = Work(ToDo) + 2 /\ BuildLeft' = 1
    BY <2>1 DEF BuildLeft
  <2>3. ToDo \in Nat /\ Work(ToDo) \in Nat
    BY Counts, WorkOf
  <2>. QED  BY <2>2, <2>3
<1>9. ASSUME NEW m \in Mirror, NEW last \in BOOLEAN, Piece(m, last)
      PROVE  \E n \in Mirror : Piece(n, TRUE)
  BY <1>9 DEF AnotherPiece
<1>. QED
  BY <1>2, <1>3, <1>4, <1>5, <1>6, <1>7, <1>8, <1>9 DEF Build, Parser

\* Every step of a build brings it nearer to its end, however the mirrors answer and
\* whatever builds left in the cache, except a piece that aria2c receives before the
\* last one; nobody but the operator, who starts the next build, moves the end away.
THEOREM BuildGetsOn ==
    Spec => [][ /\ Build => AnotherPiece \/ BuildLeft' < BuildLeft
                /\ ~StartBuild => BuildLeft' <= BuildLeft ]_vars
<1>0. IInv => BuildLeft \in Nat
  BY BuildIsCounted
<1>1. IInv' => (BuildLeft \in Nat)'
  BY <1>0, PTL
<1>2. ASSUME IInv, IInv', Build, ~AnotherPiece
      PROVE  BuildLeft' < BuildLeft /\ BuildLeft' <= BuildLeft
  <2>1. BuildLeft' < BuildLeft
    BY <1>2, BuildCountsDown
  <2>2. BuildLeft \in Nat /\ BuildLeft' \in Nat
    BY <1>0, <1>1, <1>2
  <2>. QED  BY <2>1, <2>2
<1>3. ASSUME IInv, IInv', Next, AnotherPiece \/ (~Build /\ ~StartBuild)
      PROVE  BuildLeft' <= BuildLeft
  <2>1. BuildLeft \in Nat /\ BuildLeft' \in Nat
    BY <1>0, <1>1, <1>3
  <2>2. pc' = "ended" \/ UNCHANGED <<pc, todo, left>>
    BY <1>3 DEF Next, AnotherPiece, Piece, Publish, Die, Idle, vars
  <2>3. CASE pc' = "ended"
    <3>1. BuildLeft' = 0
      BY <2>3 DEF BuildLeft
    <3>. QED  BY <2>1, <3>1
  <2>4. CASE UNCHANGED <<pc, todo, left>>
    <3>1. BuildLeft' = BuildLeft
      BY <2>4 DEF BuildLeft, ToDo, ToAsk, Work, Asked
    <3>. QED  BY <2>1, <3>1
  <2>. QED  BY <2>2, <2>3, <2>4
<1>4. IInv /\ IInv' /\ [Next]_vars =>
          [ /\ Build => AnotherPiece \/ BuildLeft' < BuildLeft
            /\ ~StartBuild => BuildLeft' <= BuildLeft ]_vars
  BY <1>2, <1>3
<1>. QED  BY <1>4, CacheInvariant, PTL DEF Spec

\* The bound is a number, and zero exactly when no build runs.
THEOREM BuildLeftIsBound == Spec => [](BuildLeft \in Nat /\ (BuildLeft = 0 <=> ~Running))
<1>1. IInv => BuildLeft \in Nat /\ (BuildLeft = 0 <=> ~Running)
  BY BuildIsCounted
<1>. QED  BY <1>1, CacheInvariant, PTL
=============================================================================
