----------------------------- MODULE ReleaseProofs -----------------------------
(***************************************************************************)
(* The php in dist is linked with libraries of one build, an update that   *)
(* ends leaves the runtime as dist is, and one that does not has begun     *)
(* with the binary: proved for any list of libraries in which OpenSSL      *)
(* comes before curl, any files, any number of builds and updates that     *)
(* fail anywhere, and servers that run meanwhile.                          *)
(***************************************************************************)
EXTENDS Release, TLAPS

(***************************************************************************)
(* Types.                                                                  *)
(***************************************************************************)

LEMMA PhpInDist == Php \in Dist /\ Php \in Covered /\ PhpBin = Target(Php) /\ PhpBin \in Runtime
<1>1. Php \in Dist /\ Php \in Covered
  BY ReleaseAssumption DEF Dist, Php, Covered, ExtensionDir
<1>2. Target(Php) = PhpBin
  BY DEF Target, Php, PhpBin, SearchedDir, Opcache
<1> QED
  BY <1>1, <1>2 DEF Runtime

LEMMA LibraryListed ==
  /\ \A i \in DOMAIN Libraries : Libraries[i] \in Range(Libraries)
  /\ DOMAIN Libraries = 1 .. Len(Libraries) /\ Len(Libraries) \in Nat
  /\ OpenSSL \in Range(Libraries) /\ Curl \in Range(Libraries)
  BY ReleaseAssumption DEF Range

\* What of the files is a fact about their names.
LEMMA Targets ==
  /\ Covered \subseteq Dist
  /\ \A f \in Covered : Target(f) \in Runtime
  /\ <<>> \notin Covered
BY DEF Covered, Runtime, Dist

LEMMA BuildsRange ==
  /\ Builds = 0 .. MaxBuilds /\ MaxBuilds \in Nat /\ MaxUpdates \in Nat
  /\ None \in Builds /\ Builds \subseteq Files
  /\ \A n \in Builds : /\ Half(n) \in Files
                       /\ n # None => Half(n) \notin Whole /\ Half(n) # None
BY ReleaseAssumption DEF Builds, None, Files, Half, Whole

LEMMA TypeInit == Init => TypeOK
<1> SUFFICES ASSUME Init PROVE TypeOK
  OBVIOUS
<1>1. deps \in [Range(Libraries) -> [build : Builds, ssl : Builds]] /\ linked = deps
  <2>1. NoLibrary \in [build : Builds, ssl : Builds]
    BY BuildsRange DEF NoLibrary
  <2> QED
    BY <2>1 DEF Init
<1>2. builds \in Builds /\ step \in 0 .. Len(Libraries) + 2 /\ updates \in 0 .. MaxUpdates
  BY BuildsRange, LibraryListed DEF Init
<1> QED
  BY <1>1, <1>2, BuildsRange DEF Init, TypeOK

\* The steps of a build, and of an update, keep the types.
LEMMA BuildTypes ==
  ASSUME TypeOK, StartBuild \/ BuildLibrary \/ MakePhp \/ BeginInstall \/ Install \/ EndBuild
  PROVE  TypeOK'
<1> USE BuildsRange, LibraryListed DEF TypeOK, update, history
<1>1. CASE StartBuild
  BY <1>1 DEF StartBuild
<1>2. CASE BuildLibrary
  <2>1. Built(Libraries[step]) \in [build : Builds, ssl : Builds]
    <3> DEFINE l == Libraries[step]
               ssl == IF l = Curl THEN deps[OpenSSL].build ELSE None
    <3>1. ssl \in Builds /\ builds \in Builds
      OBVIOUS
    <3> HIDE DEF l
    <3>2. Built(l) = [build |-> builds, ssl |-> ssl]
      BY DEF Built
    <3> HIDE DEF ssl
    <3>3. [build |-> builds, ssl |-> ssl] \in [build : Builds, ssl : Builds]
      BY <3>1
    <3> QED
      BY <3>2, <3>3 DEF l
  <2>2. deps' \in [Range(Libraries) -> [build : Builds, ssl : Builds]]
    BY <1>2, <2>1 DEF BuildLibrary
  <2>3. step' \in 0 .. Len(Libraries) + 2
    BY <1>2 DEF BuildLibrary
  <2> QED
    BY <1>2, <2>2, <2>3 DEF BuildLibrary
<1>3. CASE MakePhp
  <2>1. toInstall' \subseteq Dist
    BY <1>3 DEF MakePhp, Dist
  <2> QED
    BY <1>3, <2>1 DEF MakePhp
<1>4. CASE BeginInstall
  <2>1. Half(builds) \in Files
    OBVIOUS
  <2>2. \E f \in toInstall : dist' = [dist EXCEPT ![f] = Half(builds)]
    BY <1>4 DEF BeginInstall
  <2>3. dist' \in [Dist -> Files]
    BY <2>1, <2>2
  <2> QED
    BY <1>4, <2>3 DEF BeginInstall
<1>5. CASE Install
  BY <1>5 DEF Install
<1>6. CASE EndBuild
  BY <1>6 DEF EndBuild
<1> QED
  BY <1>1, <1>2, <1>3, <1>4, <1>5, <1>6

LEMMA UpdateTypes ==
  ASSUME TypeOK, StartUpdate \/ NothingToCopy \/ Truncate \/ Write \/ InterruptUpdate
  PROVE  TypeOK'
<1> USE BuildsRange, Targets DEF TypeOK, build
<1>1. CASE StartUpdate
  <2>1. updates' \in 0 .. MaxUpdates
    BY <1>1 DEF StartUpdate
  <2>2. copying' \in toUpdate' \cup {<<>>}
    BY <1>1 DEF StartUpdate
  <2> QED
    BY <1>1, <2>1, <2>2 DEF StartUpdate
<1>2. CASE NothingToCopy
  BY <1>2 DEF NothingToCopy, Turn
<1>3. CASE Truncate
  BY <1>3 DEF Truncate, Turn
<1>4. CASE Write
  BY <1>4 DEF Write
<1>5. CASE InterruptUpdate
  BY <1>5 DEF InterruptUpdate, history
<1> QED
  BY <1>1, <1>2, <1>3, <1>4, <1>5

LEMMA TypeStep == TypeOK /\ [Next]_vars => TypeOK'
<1> SUFFICES ASSUME TypeOK, [Next]_vars PROVE TypeOK'
  OBVIOUS
<1>1. CASE StartServer \/ StopServer \/ UNCHANGED vars
  BY <1>1 DEF StartServer, StopServer, vars, build, update, history, TypeOK
<1> QED
  BY <1>1, BuildTypes, UpdateTypes DEF Next

\* A build that runs has a number.
LEMMA BuildCounted ==
  ASSUME TypeOK, step # 0 => builds # None, [Next]_vars
  PROVE  step' # 0 => builds' # None
<1>1. CASE StartBuild
  BY <1>1, BuildsRange DEF StartBuild, TypeOK, None
<1>2. CASE BuildLibrary \/ MakePhp \/ BeginInstall \/ Install \/ EndBuild
  <2>1. step = 0 => step \notin DOMAIN Libraries /\ step # Len(Libraries) + 1
                    /\ step # Len(Libraries) + 2
    BY LibraryListed
  <2> QED
    BY <1>2, <2>1 DEF BuildLibrary, MakePhp, BeginInstall, Install, EndBuild
<1>3. CASE UNCHANGED build
  BY <1>3 DEF build
<1>4. ASSUME StartUpdate \/ NothingToCopy \/ Truncate \/ Write \/ InterruptUpdate
               \/ StartServer \/ StopServer \/ UNCHANGED vars
      PROVE  UNCHANGED build
  BY <1>4 DEF StartUpdate, NothingToCopy, Truncate, Write, InterruptUpdate, StartServer,
              StopServer, vars, build
<1> QED
  BY <1>1, <1>2, <1>3, <1>4 DEF Next

(***************************************************************************)
(* build.sh: libraries of one build.                                       *)
(***************************************************************************)

\* What the build under way has made: every library before step, and curl against
\* the OpenSSL of the same build.
BuiltSoFar ==
  \A i \in DOMAIN Libraries : i < step =>
    /\ deps[Libraries[i]].build = builds
    /\ Libraries[i] = Curl => deps[Curl].ssl = builds

LinkInv == TypeOK /\ BuiltSoFar /\ LinkedTogether /\ (step # 0 => builds # None)

\* When PHP is installed every library is of this build.
LEMMA AllBuilt ==
  ASSUME LinkInv, step = Len(Libraries) + 2
  PROVE  /\ \A l \in Range(Libraries) : deps[l].build = builds
         /\ deps[Curl].ssl = builds
<1>1. \A l \in Range(Libraries) : \E i \in DOMAIN Libraries : l = Libraries[i] /\ i < step
  BY LibraryListed DEF Range
<1> QED
  BY <1>1, LibraryListed DEF LinkInv, BuiltSoFar

LEMMA InitLinked == Init => LinkInv
<1> SUFFICES ASSUME Init PROVE LinkInv
  OBVIOUS
<1>1. BuiltSoFar
  BY LibraryListed DEF Init, BuiltSoFar
<1>2. LinkedTogether
  BY PhpInDist DEF Init, LinkedTogether, Whole, None
<1>3. step # 0 => builds # None
  BY DEF Init
<1> QED
  BY <1>1, <1>2, <1>3, TypeInit DEF LinkInv

\* A library is built against what is in work/deps: of curl, the OpenSSL that this
\* build has made before it.
LEMMA BuildLibraryStep ==
  ASSUME LinkInv, BuildLibrary
  PROVE  BuiltSoFar' /\ LinkedTogether'
<1> DEFINE l == Libraries[step]
<1>1. /\ step \in DOMAIN Libraries /\ l \in Range(Libraries)
      /\ deps' = [deps EXCEPT ![l] = Built(l)]
      /\ step' = step + 1 /\ builds' = builds
      /\ UNCHANGED <<dist, linked>>
  BY LibraryListed DEF BuildLibrary
<1>2. l = Curl => deps[OpenSSL].build = builds
  <2>1. l = Curl => \E j \in DOMAIN Libraries : j < step /\ Libraries[j] = OpenSSL
    BY <1>1, ReleaseAssumption
  <2> QED
    BY <2>1 DEF LinkInv, BuiltSoFar
<1>3. BuiltSoFar'
  <2> SUFFICES ASSUME NEW i \in DOMAIN Libraries, i < step + 1
               PROVE  /\ deps'[Libraries[i]].build = builds
                      /\ Libraries[i] = Curl => deps'[Curl].ssl = builds
    BY <1>1 DEF BuiltSoFar
  <2>1. CASE Libraries[i] = l
    BY <2>1, <1>1, <1>2 DEF LinkInv, TypeOK, Built
  <2>2. CASE Libraries[i] # l
    <3>1. i < step
      BY <2>2, <1>1, LibraryListed
    <3>2. deps'[Libraries[i]] = deps[Libraries[i]]
      BY <2>2, <1>1, LibraryListed DEF LinkInv, TypeOK
    <3> QED
      BY <3>1, <3>2 DEF LinkInv, BuiltSoFar
  <2> QED
    BY <2>1, <2>2
<1>4. LinkedTogether'
  BY <1>1 DEF LinkInv, LinkedTogether
<1> QED
  BY <1>3, <1>4

\* A file that make install has opened is of no build yet.
LEMMA BeginInstallStep ==
  ASSUME LinkInv, BeginInstall
  PROVE  BuiltSoFar' /\ LinkedTogether'
<1>1. PICK f \in toInstall : dist' = [dist EXCEPT ![f] = Half(builds)]
  BY DEF BeginInstall
<1>2. step = Len(Libraries) + 2 /\ UNCHANGED <<builds, step, deps, linked>>
  BY DEF BeginInstall
<1>3. BuiltSoFar'
  BY <1>2 DEF LinkInv, BuiltSoFar
<1>4. Half(builds) \notin Whole
  BY <1>2, LibraryListed, BuildsRange DEF LinkInv, TypeOK
<1>5. dist'[Php] = dist[Php] \/ dist'[Php] = Half(builds)
  BY <1>1, PhpInDist DEF LinkInv, TypeOK
<1>6. LinkedTogether'
  BY <1>2, <1>4, <1>5 DEF LinkInv, LinkedTogether
<1> QED
  BY <1>3, <1>6

\* php is linked with what is in work/deps when it is made.
LEMMA InstallStep ==
  ASSUME LinkInv, Install
  PROVE  BuiltSoFar' /\ LinkedTogether'
<1>1. PICK f \in toInstall :
        /\ dist' = [dist EXCEPT ![f] = builds]
        /\ linked' = IF f = Php THEN deps ELSE linked
  BY DEF Install, Php
<1>2. step = Len(Libraries) + 2 /\ UNCHANGED <<builds, step, deps>>
  BY DEF Install
<1>3. BuiltSoFar'
  BY <1>2 DEF LinkInv, BuiltSoFar
<1>4. CASE f = Php
  <2>1. dist'[Php] = builds /\ linked' = deps
    BY <1>1, <1>4, PhpInDist DEF LinkInv, TypeOK
  <2>2. LinkedTogether'
    BY <2>1, <1>2, AllBuilt DEF LinkedTogether
  <2> QED
    BY <1>3, <2>2
<1>5. CASE f # Php
  <2>1. dist'[Php] = dist[Php] /\ linked' = linked
    BY <1>1, <1>5, PhpInDist DEF LinkInv, TypeOK
  <2>2. LinkedTogether'
    BY <2>1 DEF LinkInv, LinkedTogether
  <2> QED
    BY <1>3, <2>2
<1> QED
  BY <1>4, <1>5

LEMMA NextLinked == LinkInv /\ [Next]_vars => LinkInv'
<1> SUFFICES ASSUME LinkInv, [Next]_vars PROVE BuiltSoFar' /\ LinkedTogether'
  BY TypeStep, BuildCounted DEF LinkInv
<1>1. CASE StartBuild
  BY <1>1, LibraryListed DEF StartBuild, LinkInv, BuiltSoFar, LinkedTogether
<1>2. CASE BuildLibrary
  BY <1>2, BuildLibraryStep
<1>3. CASE MakePhp
  <2>1. step = Len(Libraries) + 1 /\ step' = step + 1 /\ UNCHANGED <<builds, deps, dist, linked>>
    BY <1>3 DEF MakePhp
  <2>2. BuiltSoFar'
    BY <2>1, LibraryListed DEF LinkInv, BuiltSoFar
  <2> QED
    BY <2>1, <2>2 DEF LinkInv, LinkedTogether
<1>4. CASE Install
  BY <1>4, InstallStep
<1>5. CASE EndBuild
  BY <1>5, LibraryListed DEF EndBuild, LinkInv, BuiltSoFar, LinkedTogether
<1>6. CASE UNCHANGED build
  BY <1>6 DEF build, LinkInv, BuiltSoFar, LinkedTogether
<1>7. ASSUME StartUpdate \/ NothingToCopy \/ Truncate \/ Write \/ InterruptUpdate
               \/ StartServer \/ StopServer \/ UNCHANGED vars
      PROVE  UNCHANGED build
  BY <1>7 DEF StartUpdate, NothingToCopy, Truncate, Write, InterruptUpdate, StartServer,
              StopServer, vars, build
<1>8. CASE BeginInstall
  BY <1>8, BeginInstallStep
<1> QED
  BY <1>1, <1>2, <1>3, <1>4, <1>5, <1>6, <1>7, <1>8 DEF Next

\* However many builds fail or are interrupted, and wherever: php in dist is linked
\* with libraries of its own build, and its curl was compiled against the OpenSSL of
\* that build (build.sh:324-336, 515-523).
THEOREM LinkedToOneBuild == Spec => []LinkedTogether
<1>1. LinkInv => LinkedTogether
  BY DEF LinkInv
<1> QED
  BY InitLinked, NextLinked, <1>1, PTL DEF Spec

(***************************************************************************)
(* update.sh: what is copied so far.                                       *)
(***************************************************************************)

\* No two files of dist are one file of the runtime.
LEMMA TargetsApart == \A f, g \in Covered : Target(f) = Target(g) => f = g
<1> SUFFICES ASSUME NEW f \in Covered, NEW g \in Covered, Target(f) = Target(g) PROVE f = g
  OBVIOUS
<1>1. \A h \in Covered :
        \/ /\ h = Php /\ Target(h) = <<"bin", "php-bin">>
        \/ /\ h = <<SearchedDir, Opcache>> /\ Target(h) = <<"lib/modules", "opcache.so">>
        \/ /\ Target(h) = h /\ h # Php /\ h # <<SearchedDir, Opcache>>
           /\ h # <<"bin", "php-bin">> /\ h # <<"lib/modules", "opcache.so">>
  BY ReleaseAssumption DEF Covered, Dist, Target, Php, SearchedDir, ExtensionDir, Opcache
<1> QED
  BY <1>1 DEF SearchedDir, Opcache, Php

\* Unless dist has changed: the files that the update has done with are as in dist.
CopiedSoFar ==
  /\ copying # <<>> => copying \in Present
  /\ ended => toUpdate = {}
  /\ steady /\ (toUpdate # {} \/ ended) =>
       \A f \in Present \ toUpdate : php7[Target(f)] = dist[f]

\* Once another file is written, the binary is, and is done with.
PhpFirst ==
  steady /\ dist[Php] # None /\ written \ {PhpBin} # {} =>
    Php \notin toUpdate /\ php7[PhpBin] = dist[Php]

UpdateInv == TypeOK /\ CopiedSoFar /\ PhpFirst /\ (step # 0 => builds # None)

LEMMA UpdateInit == Init => UpdateInv
BY TypeInit, PhpInDist DEF Init, UpdateInv, CopiedSoFar, PhpFirst, None

\* The file whose turn it is, when php is still to come, is php.
LEMMA PhpTurn ==
  ASSUME NEW f, Turn(f), Php \in toUpdate
  PROVE  f = Php
BY DEF Turn, Section, Php

LEMMA TruncateStep ==
  ASSUME UpdateInv, Truncate
  PROVE  CopiedSoFar' /\ PhpFirst'
<1>1. PICK f \in toUpdate \cap Present :
        /\ Turn(f) /\ php7' = [php7 EXCEPT ![Target(f)] = Torn]
        /\ written' = written \cup {Target(f)} /\ copying' = f
        /\ UNCHANGED <<build, updates, toUpdate, server, steady, ended>>
  BY DEF Truncate
<1>2. /\ Target(f) \in Runtime /\ f \in Covered /\ dist' = dist /\ Present' = Present
      /\ Present \subseteq Covered
  BY <1>1, Targets DEF Present, build
<1>3. \A g \in Present \ toUpdate : php7'[Target(g)] = php7[Target(g)]
  BY <1>1, <1>2, TargetsApart, Targets DEF UpdateInv, TypeOK
<1>4. CopiedSoFar'
  BY <1>1, <1>2, <1>3 DEF UpdateInv, CopiedSoFar
<1>5. CASE f = Php
  <2>1. written' \ {PhpBin} = written \ {PhpBin}
    BY <1>1, <1>5, PhpInDist
  <2>2. PhpFirst'
    BY <1>1, <1>2, <1>5, <2>1 DEF UpdateInv, PhpFirst
  <2> QED
    BY <1>4, <2>2
<1>6. CASE f # Php
  <2>1. Php \notin toUpdate
    BY <1>1, <1>6, PhpTurn
  <2>2. steady /\ dist[Php] # None => php7[PhpBin] = dist[Php]
    BY <1>1, <2>1, PhpInDist DEF UpdateInv, CopiedSoFar, Present
  <2>3. php7'[PhpBin] = php7[PhpBin]
    BY <1>1, <1>2, <1>6, PhpInDist, TargetsApart DEF UpdateInv, TypeOK
  <2>4. PhpFirst'
    BY <1>1, <1>2, <2>1, <2>2, <2>3 DEF PhpFirst
  <2> QED
    BY <1>4, <2>4
<1> QED
  BY <1>5, <1>6

LEMMA WriteStep ==
  ASSUME UpdateInv, Write
  PROVE  CopiedSoFar' /\ PhpFirst'
<1> DEFINE f == copying
<1>1. /\ php7' = [php7 EXCEPT ![Target(f)] = dist[f]]
      /\ copying' = <<>> /\ toUpdate' = toUpdate \ {f} /\ ended' = (toUpdate' = {})
      /\ UNCHANGED <<build, updates, server, written, steady>>
  BY DEF Write
<1>2. f \in toUpdate /\ f \in Present
  BY DEF Write, UpdateInv, TypeOK, CopiedSoFar
<1>3. /\ f \in Covered /\ Target(f) \in Runtime /\ dist' = dist /\ Present' = Present
      /\ Present \subseteq Covered
  BY <1>1, <1>2, Targets DEF Present, build
<1> HIDE DEF f
<1>4. php7'[Target(f)] = dist[f]
  BY <1>1, <1>3 DEF UpdateInv, TypeOK
<1>5. \A g \in Present \ {f} : php7'[Target(g)] = php7[Target(g)]
  BY <1>1, <1>3, TargetsApart, Targets DEF UpdateInv, TypeOK
<1>6. CopiedSoFar'
  BY <1>1, <1>2, <1>3, <1>4, <1>5 DEF UpdateInv, CopiedSoFar
<1>7. PhpFirst'
  <2>1. CASE f = Php
    BY <2>1, <1>1, <1>3, <1>4, PhpInDist DEF PhpFirst
  <2>2. CASE f # Php
    <3>1. php7'[PhpBin] = php7[PhpBin]
      BY <2>2, <1>1, <1>3, PhpInDist, TargetsApart DEF UpdateInv, TypeOK
    <3> QED
      BY <2>2, <3>1, <1>1, <1>3 DEF UpdateInv, PhpFirst
  <2> QED
    BY <2>1, <2>2
<1> QED
  BY <1>6, <1>7

LEMMA UpdateStep == UpdateInv /\ [Next]_vars => UpdateInv'
<1> SUFFICES ASSUME UpdateInv, [Next]_vars PROVE CopiedSoFar' /\ PhpFirst'
  BY TypeStep, BuildCounted DEF UpdateInv
<1> USE DEF UpdateInv, CopiedSoFar, PhpFirst
<1>1. CASE BeginInstall \/ Install
  <2>1. steady' = FALSE /\ UNCHANGED <<copying, ended, toUpdate>>
    BY <1>1 DEF BeginInstall, Install, update
  <2>2. Present \subseteq Present'
    <3>1. builds # None /\ Half(builds) # None
      BY <1>1, LibraryListed, BuildsRange DEF BeginInstall, Install, TypeOK
    <3>2. \E f \in toInstall : \E n \in {builds, Half(builds)} : dist' = [dist EXCEPT ![f] = n]
      BY <1>1 DEF BeginInstall, Install
    <3> QED
      BY <3>1, <3>2 DEF Present, TypeOK
  <2> QED
    BY <2>1, <2>2
<1>2. CASE StartUpdate
  BY <1>2 DEF StartUpdate, Present, build
<1>3. CASE NothingToCopy
  <2>1. PICK f \in toUpdate :
          /\ f \in Present => php7[Target(f)] = dist[f]
          /\ toUpdate' = toUpdate \ {f} /\ ended' = (toUpdate' = {})
          /\ UNCHANGED <<build, php7, updates, copying, server, written, steady>>
    BY <1>3 DEF NothingToCopy, Differs
  <2>2. Present' = Present /\ dist' = dist
    BY <2>1 DEF Present, build
  <2> QED
    BY <2>1, <2>2
<1>4. CASE Truncate
  BY <1>4, TruncateStep
<1>5. CASE Write
  BY <1>5, WriteStep
<1>6. CASE InterruptUpdate
  BY <1>6 DEF InterruptUpdate, history, build, Present
<1>7. CASE UNCHANGED <<dist, update, history>>
  BY <1>7 DEF update, history, Present
<1>8. ASSUME StartBuild \/ BuildLibrary \/ MakePhp \/ EndBuild \/ StartServer \/ StopServer
               \/ UNCHANGED vars
      PROVE  UNCHANGED <<dist, update, history>>
  BY <1>8 DEF StartBuild, BuildLibrary, MakePhp, EndBuild, StartServer, StopServer, vars,
              build, update, history
<1> QED
  BY <1>1, <1>2, <1>3, <1>4, <1>5, <1>6, <1>7, <1>8 DEF Next

\* An update that comes to its end has left every file as it is in dist, half-written
\* files of an interrupted update included, unless a build was installed meanwhile
\* (update.sh, set -e).
THEOREM UpdatedToDist == Spec => []UpdateComplete
<1>1. UpdateInv => UpdateComplete
  BY DEF UpdateInv, CopiedSoFar, UpdateComplete
<1> QED
  BY UpdateInit, UpdateStep, <1>1, PTL DEF Spec

\* Wherever an update is interrupted or refused, nothing but the binary is of the new
\* build unless the binary is (update.sh:43-93).
THEOREM BinaryUpdatedFirst == Spec => []BinaryFirst
<1>1. UpdateInv => BinaryFirst
  BY DEF UpdateInv, PhpFirst, BinaryFirst
<1> QED
  BY UpdateInit, UpdateStep, <1>1, PTL DEF Spec
=============================================================================
