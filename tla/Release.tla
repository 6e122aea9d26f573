-------------------------------- MODULE Release --------------------------------
(***************************************************************************)
(* How a runtime comes to a server: build.sh builds the libraries and PHP  *)
(* into work/deps and dist/php7, update.sh copies what changed to php7,    *)
(* and the wrapper php7/bin/php starts it.  Each script may fail or be     *)
(* interrupted at any point (set -e: nothing after that is done) and may   *)
(* be started again; they may run at the same time.                        *)
(*                                                                         *)
(* A file is the number of the build that made it.  Neither make install   *)
(* nor cp writes a file in one step: between the two steps one of dist is  *)
(* Half of what the build makes, and one of the runtime is Torn.           *)
(***************************************************************************)
EXTENDS Integers, Sequences, Functions

CONSTANTS
  Libraries,   \* the libraries, in the order in which build.sh builds them
  OpenSSL,     \* the one that curl is compiled against
  Curl,
  Binaries,    \* files of dist/php7/bin, "php" among them
  Modules,     \* .so files of dist/php7/lib/modules that a build may make
  MaxBuilds, MaxUpdates   \* bounds: how often the scripts are started

\* build.sh:515-523: OpenSSL is built before curl.
ASSUME ReleaseAssumption ==
  /\ Libraries \in Seq(STRING) /\ {OpenSSL, Curl} \subseteq Range(Libraries)
  /\ \A i \in DOMAIN Libraries : Libraries[i] = Curl =>
       \E j \in DOMAIN Libraries : j < i /\ Libraries[j] = OpenSSL
  /\ "php" \in Binaries
  \* No two files of dist are one in the runtime.
  /\ "php-bin" \notin Binaries /\ "opcache.so" \notin Modules
  /\ {MaxBuilds, MaxUpdates} \subseteq Nat

None == 0
Torn == -1
Half(n) == MaxBuilds + n
Whole == 1 .. MaxBuilds
Opcache == "opcache.so"

\* Where a file is: in bin, lib/modules, the extension directory that configure
\* gives PHP (php-config:13), or the one that update.sh looks in.
ExtensionDir == "lib/php/extensions"
SearchedDir == "lib/extensions"
Dist ==
  ({"bin"} \X Binaries) \cup ({"lib/modules"} \X Modules)
    \cup ({ExtensionDir, SearchedDir} \X {Opcache})
\* What update.sh makes of it: php is php-bin there, opcache.so is a module.
Target(f) ==
  CASE f = <<"bin", "php">> -> <<"bin", "php-bin">>
    [] f = <<SearchedDir, Opcache>> -> <<"lib/modules", Opcache>>
    [] OTHER -> f
Covered == Dist \ {<<ExtensionDir, Opcache>>}
Loaded == <<ExtensionDir, Opcache>>    \* the wrapper's zend_extension
PhpBin == <<"bin", "php-bin">>
Runtime == {Target(f) : f \in Covered} \cup {Loaded}

VARIABLES
  builds,   \* builds started
  step,     \* the library to build next; Len(Libraries) + 1 for PHP; 0 when no build runs
  toInstall, \* files that make install has still to write
  deps,     \* work/deps: of each library, the build and the OpenSSL it is compiled against
  dist,     \* dist/php7
  linked,   \* the libraries in the last php that was installed as a whole
  php7,     \* the runtime
  updates,  \* updates started
  toUpdate, \* files that the update has still to compare
  copying,  \* the file that cp has truncated, or <<>>
  server,   \* what a running server has loaded: php-bin and opcache, or None
  written,  \* history: files that the last update wrote or began to write
  steady,   \* history: dist has not changed since the last update started
  ended     \* history: the last update came to its end

vars == <<builds, step, toInstall, deps, dist, linked, php7, updates, toUpdate, copying,
          server, written, steady, ended>>
build == <<builds, step, toInstall, deps, dist, linked>>
update == <<php7, updates, toUpdate, copying>>
history == <<written, steady, ended>>

NoLibrary == [build |-> None, ssl |-> None]
Stopped == [php |-> None, opcache |-> None]

Init ==
  /\ builds = 0 /\ step = 0 /\ toInstall = {}
  /\ deps = [l \in Range(Libraries) |-> NoLibrary]
  /\ dist = [f \in Dist |-> None] /\ linked = deps
  /\ php7 = [f \in Runtime |-> None]
  /\ updates = 0 /\ toUpdate = {} /\ copying = <<>>
  /\ server = Stopped
  /\ written = {} /\ steady = FALSE /\ ended = FALSE

(***************************************************************************)
(* build.sh.  The versions of the sources may change between two builds.   *)
(***************************************************************************)

StartBuild ==
  /\ step = 0 /\ builds < MaxBuilds
  /\ builds' = builds + 1 /\ step' = 1
  /\ UNCHANGED <<toInstall, deps, dist, linked, update, server, history>>

\* Faulty variant: what is in work/deps already is not built again.
BuildIfMissing(l) ==
  IF deps[l].build # None THEN deps[l] ELSE [build |-> builds, ssl |-> deps[OpenSSL].build]

\* A library is downloaded, unpacked, built against what is in work/deps, and
\* installed there; nothing of the last build is kept.
Built(l) == [build |-> builds, ssl |-> IF l = Curl THEN deps[OpenSSL].build ELSE None]

BuildLibrary ==
  /\ step \in DOMAIN Libraries
  /\ deps' = [deps EXCEPT ![Libraries[step]] = Built(Libraries[step])]
  /\ step' = step + 1
  /\ UNCHANGED <<builds, toInstall, dist, linked, update, server, history>>

\* PHP is compiled against the libraries; what make install writes depends on the
\* build, but for php and opcache.
MakePhp ==
  /\ step = Len(Libraries) + 1 /\ toInstall = {}
  /\ \E made \in SUBSET ({"lib/modules"} \X Modules) :
       toInstall' = ({"bin"} \X Binaries) \cup {<<ExtensionDir, Opcache>>} \cup made
  /\ step' = step + 1
  /\ UNCHANGED <<builds, deps, dist, linked, update, server, history>>

\* make install opens a file, when the one before is complete.
BeginInstall ==
  /\ step = Len(Libraries) + 2
  /\ \A f \in toInstall : dist[f] # Half(builds)
  /\ \E f \in toInstall : dist' = [dist EXCEPT ![f] = Half(builds)]
  /\ steady' = FALSE
  /\ UNCHANGED <<builds, step, toInstall, deps, linked, update, server, written, ended>>

Install ==
  /\ step = Len(Libraries) + 2
  /\ \E f \in toInstall :
       /\ dist[f] = Half(builds)
       /\ dist' = [dist EXCEPT ![f] = builds]
       /\ linked' = IF f = <<"bin", "php">> THEN deps ELSE linked
       /\ toInstall' = toInstall \ {f}
  /\ steady' = FALSE
  /\ UNCHANGED <<builds, step, deps, update, server, written, ended>>

\* The build is complete, or fails or is interrupted at any step.
EndBuild ==
  /\ step > 0
  /\ step' = 0 /\ toInstall' = {}
  /\ UNCHANGED <<builds, deps, dist, linked, update, server, history>>

(***************************************************************************)
(* update.sh: bin/php first, then the other binaries, then the modules,    *)
(* then opcache.  The order within each of the four is left open.          *)
(***************************************************************************)

Present == {f \in Covered : dist[f] # None}

Php == <<"bin", "php">>

\* Faulty variant: the modules first.
ModulesFirst(f) == IF f[1] = "bin" THEN 1 ELSE 0

Section(f) ==
  CASE f = Php -> 0
    [] f[1] = "bin" /\ f # Php -> 1
    [] f[1] = "lib/modules" -> 2
    [] OTHER -> 3

StartUpdate ==
  /\ toUpdate = {} /\ updates < MaxUpdates /\ Present # {}
  /\ updates' = updates + 1
  /\ toUpdate' = Covered
  /\ written' = {} /\ steady' = TRUE /\ ended' = FALSE
  /\ UNCHANGED <<build, php7, copying, server>>

\* f is compared next.
Turn(f) ==
  /\ f \in toUpdate /\ copying = <<>>
  /\ \A g \in toUpdate : Section(f) <= Section(g)

\* Faulty variant: only what is not there is copied.
IsMissing(f) == php7[Target(f)] = None

\* copy_file: not there, or cmp finds a difference.
Differs(f) == php7[Target(f)] # dist[f]

\* The file is not in dist, or is the same.
NothingToCopy ==
  \E f \in toUpdate :
    /\ Turn(f) /\ (f \in Present => ~Differs(f))
    /\ toUpdate' = toUpdate \ {f} /\ ended' = (toUpdate' = {})
    /\ UNCHANGED <<build, php7, updates, copying, server, written, steady>>

\* cp truncates the file and writes it.
Truncate ==
  \E f \in toUpdate \cap Present :
    /\ Turn(f) /\ Differs(f)
    /\ Target(f) = PhpBin => server = Stopped
    /\ php7' = [php7 EXCEPT ![Target(f)] = Torn]
    /\ written' = written \cup {Target(f)}
    /\ copying' = f
    /\ UNCHANGED <<build, updates, toUpdate, server, steady, ended>>

Write ==
  /\ copying # <<>>
  /\ php7' = [php7 EXCEPT ![Target(copying)] = dist[copying]]
  /\ copying' = <<>>
  /\ toUpdate' = toUpdate \ {copying} /\ ended' = (toUpdate' = {})
  /\ UNCHANGED <<build, updates, server, written, steady>>

\* At any point, by set -e when cp fails: the program of a running server cannot
\* be written to (ETXTBSY).
InterruptUpdate ==
  /\ toUpdate # {}
  /\ toUpdate' = {} /\ copying' = <<>>
  /\ UNCHANGED <<build, php7, updates, server, history>>

(***************************************************************************)
(* The wrapper php7/bin/php.                                               *)
(***************************************************************************)

\* exec of php-bin, which then loads opcache.so if there is one.
StartServer ==
  /\ server = Stopped
  /\ php7[PhpBin] \in Whole
  /\ server' = [php |-> php7[PhpBin], opcache |-> php7[Loaded]]
  /\ UNCHANGED <<build, update, history>>

StopServer ==
  /\ server # Stopped /\ server' = Stopped
  /\ UNCHANGED <<build, update, history>>

Next ==
  \/ StartBuild \/ BuildLibrary \/ MakePhp \/ BeginInstall \/ Install \/ EndBuild
  \/ StartUpdate \/ NothingToCopy \/ Truncate \/ Write \/ InterruptUpdate
  \/ StartServer \/ StopServer

Spec == Init /\ [][Next]_vars

(***************************************************************************)
(* Properties.                                                             *)
(***************************************************************************)

Builds == 0 .. MaxBuilds
Files == 0 .. 2 * MaxBuilds
TypeOK ==
  /\ builds \in Builds /\ step \in 0 .. Len(Libraries) + 2 /\ toInstall \subseteq Dist
  /\ deps \in [Range(Libraries) -> [build : Builds, ssl : Builds]]
  /\ linked \in [Range(Libraries) -> [build : Builds, ssl : Builds]]
  /\ dist \in [Dist -> Files] /\ php7 \in [Runtime -> Files \cup {Torn}]
  /\ updates \in 0 .. MaxUpdates /\ toUpdate \subseteq Covered
  /\ copying \in toUpdate \cup {<<>>}
  /\ written \subseteq Runtime /\ steady \in BOOLEAN /\ ended \in BOOLEAN

\* However many builds failed before, or fail after: the php in dist, if it is whole, is
\* linked with libraries of its own build only, and its curl was compiled against its
\* OpenSSL (build.sh:327: "curl MUST be compiled against the SAME OpenSSL").
LinkedTogether ==
  LET php == dist[Php]
  IN  php \in Whole => /\ \A l \in Range(Libraries) : linked[l].build = php
                    /\ linked[Curl].ssl = php

\* An update that comes to its end leaves every file that it looks for as it is in
\* dist, also those that an interrupted update left half-written, unless a build was
\* installed meanwhile.  What a build left half-written in dist, or of two builds, is
\* copied as it is.
UpdateComplete ==
  ended /\ steady => \A f \in Present : php7[Target(f)] = dist[f]

\* An update begins with the binary: wherever it is interrupted, and whoever holds
\* the binary, nothing else is of the new build unless the binary is.
BinaryFirst ==
  steady /\ dist[Php] # None /\ written \ {PhpBin} # {} =>
    php7[PhpBin] = dist[Php]

\* "The runtime expects it in lib/modules" (update.sh:86), of the opcache.so that this
\* section of the script is to install: after an update that came to its end, of a build
\* that was installed as a whole, the opcache.so that the wrapper names (php7/bin/php:9)
\* is there, and is that of the build.
OpcacheInstalled ==
  ended /\ steady /\ dist[Php] \in Whole /\ dist[Loaded] = dist[Php] =>
    php7[Loaded] = dist[Loaded]
=============================================================================
