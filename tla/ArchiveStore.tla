---------------------------- MODULE ArchiveStore ----------------------------
(***************************************************************************)
(* FileArchiveStore: scut's cache of module archives, for one module.      *)
(*                                                                         *)
(* Every scut invocation (a documentation lookup, an MCP server, a cache   *)
(* command) opens the same directory tree and no lock is taken, so the     *)
(* unit of atomicity is one filesystem call.  For one module path M the    *)
(* tree is                                                                 *)
(*                                                                         *)
(*     M/@v/                    vdir                                       *)
(*     M/@v/<version>/          entry[v], a directory inode                *)
(*     M/@v/.archive-*/         temp, the staging directories              *)
(*     M/@v/latest              alias                                      *)
(*     M/@v/.latest-*           aliasTemp, staged aliases                  *)
(*                                                                         *)
(* Directories are inodes: a removal that has opened a directory keeps     *)
(* unlinking files of that inode after the directory has been renamed.     *)
(*                                                                         *)
(* An archive stands for its ZIP, and also for the ZIP's h1 hash (the hash *)
(* is taken to be injective), so "the sidecar matches the ZIP" is          *)
(* equality.  An archive of Pinned carries a Git revision, written to a    *)
(* file of its own; the revision of a is represented by a.                 *)
(***************************************************************************)
EXTENDS Naturals, FiniteSets

CONSTANTS
    Proc,       \* scut invocations sharing the cache
    Version,    \* canonical versions of the module
    Archive,    \* archives that may be offered for a version
    Pinned,     \* archives with a Git revision
    GoSum,      \* the archive whose hash go.sum has for a version, or Absent
    Inode,      \* pool of inodes for directories and staged aliases
    Ops,        \* the operations each invocation may run
    MaxDebris,  \* bound: staging names a crashed invocation may leave behind
    Absent, NoInode, NoVersion

AllOps == {"lookup", "lookupLatest", "put", "setLatest",
           "removeVersion", "removeModule"}

ASSUME ArchiveStoreAssumption ==
    /\ Pinned \subseteq Archive
    /\ GoSum \in [Version -> Archive \union {Absent}]
    /\ Ops \in [Proc -> SUBSET AllOps]
    /\ MaxDebris \in Nat
    /\ Absent \notin Archive
    /\ NoInode \notin Inode
    /\ NoVersion \notin Version

VARIABLES
    vdir,       \* M/@v exists
    entry,      \* inode of each version directory, or NoInode
    temp,       \* inodes linked under a name .archive-*
    file,       \* contents of every directory inode
    alias,      \* the version M/@v/latest names, or NoVersion
    aliasTemp,  \* inodes linked under a name .latest-*
    pc, job, dir, got, rm, out   \* progress of every invocation

fs   == <<vdir, entry, temp, file, alias, aliasTemp>>
vars == <<vdir, entry, temp, file, alias, aliasTemp, pc, job, dir, got, rm, out>>

-----------------------------------------------------------------------------
File == {"zip", "hash", "verification", "revision"}

Content == Archive \union {Absent}

EmptyDir == [f \in File |-> Absent]

IsEmptyDir(i) == \A f \in File : file[i][f] = Absent

RevisionOf(a) == IF a \in Pinned THEN a ELSE Absent

(* What opening a file of version v by path reads. *)
Read(v, f) == IF entry[v] = NoInode THEN Absent ELSE file[entry[v]][f]

(* The names in M/@v, as RemoveAll lists them. *)
Name == ({"entry"} \X Version) \union ({"temp", "aliasTemp"} \X Inode)
          \union {<<"alias", NoVersion>>}

Linked == {<<"entry", v>> : v \in {w \in Version : entry[w] # NoInode}}
            \union {<<"temp", i>> : i \in temp}
            \union {<<"aliasTemp", i>> : i \in aliasTemp}
            \union (IF alias = NoVersion THEN {} ELSE {<<"alias", NoVersion>>})

(* The directory inode a listed name leads to now. *)
DirectoryAt(n) == CASE n[1] = "entry" -> entry[n[2]]
                    [] n[1] = "temp" /\ n[2] \in temp -> n[2]
                    [] OTHER -> NoInode

(* Inodes with no name and no open handle: MkdirTemp may be given any. *)
FreeInode == {i \in Inode : /\ i \notin temp \union aliasTemp
                            /\ \A v \in Version : entry[v] # i
                            /\ \A p \in Proc : dir[p] # i}

-----------------------------------------------------------------------------
Request ==
    [op : {"put"}, ver : Version, arch : Archive]
      \union [op : {"lookup", "setLatest", "removeVersion"}, ver : Version, arch : {Absent}]
      \union [op : {"lookupLatest", "removeModule"}, ver : {NoVersion}, arch : {Absent}]

NoJob   == [op |-> "none", ver |-> NoVersion, arch |-> Absent]
NoReads == [hash |-> Absent, data |-> Absent, revision |-> Absent, verification |-> Absent]
NoWalk  == [todo |-> {}, target |-> <<"alias", NoVersion>>, left |-> {}]

IsLookup(p) == job[p].op \in {"lookup", "lookupLatest"}

Label == {"idle", "latest",
          "checkZip", "readHash", "matchHash", "readData", "readRevision",
          "readVerification", "matchVerification", "verify",
          "mkdir", "mktemp", "writeZip", "hashZip", "writeHash",
          "writeVerification", "writeRevision", "seal", "rename", "cleanup",
          "createAlias", "renameAlias",
          "measure", "walk", "unlink", "readAlias", "removeAlias", "removeVdir"}

TypeOK ==
    /\ vdir \in BOOLEAN
    /\ entry \in [Version -> Inode \union {NoInode}]
    /\ temp \subseteq Inode
    /\ file \in [Inode -> [File -> Content]]
    /\ alias \in Version \union {NoVersion}
    /\ aliasTemp \subseteq Inode
    /\ pc \in [Proc -> Label]
    /\ job \in [Proc -> [op : AllOps \union {"none"},
                         ver : Version \union {NoVersion}, arch : Content]]
    /\ dir \in [Proc -> Inode \union {NoInode}]
    /\ got \in [Proc -> [hash : Content, data : Content,
                         revision : Content, verification : Content]]
    /\ rm \in [Proc -> [todo : SUBSET Name, target : Name, left : SUBSET File]]
    /\ out \in [Proc -> {"none", "ok", "notFound", "error", "crashed"}]

Init ==
    /\ vdir = FALSE
    /\ entry = [v \in Version |-> NoInode]
    /\ temp = {}
    /\ file = [i \in Inode |-> EmptyDir]
    /\ alias = NoVersion
    /\ aliasTemp = {}
    /\ pc = [p \in Proc |-> "idle"]
    /\ job = [p \in Proc |-> NoJob]
    /\ dir = [p \in Proc |-> NoInode]
    /\ got = [p \in Proc |-> NoReads]
    /\ rm = [p \in Proc |-> NoWalk]
    /\ out = [p \in Proc |-> "none"]

-----------------------------------------------------------------------------
(* Control. *)

Goto(p, label) == pc' = [pc EXCEPT ![p] = label]

(* The operation ends with a result; a lookup that succeeded keeps what it *)
(* read, for its caller.                                                   *)
Return(p, result) ==
    /\ Goto(p, "idle")
    /\ out' = [out EXCEPT ![p] = result]
    /\ dir' = [dir EXCEPT ![p] = NoInode]
    /\ rm' = [rm EXCEPT ![p] = NoWalk]
    /\ IF result = "ok" /\ IsLookup(p)
         THEN UNCHANGED <<job, got>>
         ELSE /\ job' = [job EXCEPT ![p] = NoJob]
              /\ got' = [got EXCEPT ![p] = NoReads]

(* A lookup returns what it read, with the verification of the verifier. *)
Answer(p) ==
    /\ Goto(p, "idle")
    /\ out' = [out EXCEPT ![p] = "ok"]
    /\ dir' = [dir EXCEPT ![p] = NoInode]
    /\ rm' = [rm EXCEPT ![p] = NoWalk]
    /\ got' = [got EXCEPT ![p].verification = got[p].data]
    /\ UNCHANGED job

FirstLabel(op) == CASE op = "lookupLatest" -> "latest"
                    [] op \in {"removeVersion", "removeModule"} -> "measure"
                    [] OTHER -> "checkZip"

Start(p) ==
    /\ pc[p] = "idle"
    /\ \E r \in Request :
         /\ r.op \in Ops[p]
         /\ job' = [job EXCEPT ![p] = r]
         /\ Goto(p, FirstLabel(r.op))
    /\ out' = [out EXCEPT ![p] = "none"]
    /\ got' = [got EXCEPT ![p] = NoReads]
    /\ UNCHANGED <<fs, dir, rm>>

(* The invocation is killed; what it linked under a temporary name stays. *)
Crash(p) ==
    /\ pc[p] # "idle"
    /\ dir[p] \in temp \union aliasTemp =>
         Cardinality({i \in temp \union aliasTemp : \A q \in Proc : dir[q] # i}) < MaxDebris
    /\ Goto(p, "idle")
    /\ out' = [out EXCEPT ![p] = "crashed"]
    /\ job' = [job EXCEPT ![p] = NoJob]
    /\ dir' = [dir EXCEPT ![p] = NoInode]
    /\ got' = [got EXCEPT ![p] = NoReads]
    /\ rm' = [rm EXCEPT ![p] = NoWalk]
    /\ UNCHANGED fs

-----------------------------------------------------------------------------
(* Latest and Get.  Get opens every file by path, so each read may see     *)
(* another generation of the entry.                                        *)

ReadLatest(p) ==
    /\ pc[p] = "latest"
    /\ IF alias = NoVersion
         THEN Return(p, "notFound")
         ELSE /\ job' = [job EXCEPT ![p].ver = alias]
              /\ Goto(p, "checkZip")
              /\ UNCHANGED <<dir, got, rm, out>>
    /\ UNCHANGED fs

(* Mutant: SetLatest does not look at the error of its Get. *)
AfterGetUnchecked(p, result) ==
    CASE IsLookup(p) /\ result = "ok"                               -> "verify"
      [] job[p].op = "put" /\ dir[p] # NoInode                      -> "cleanup"
      [] job[p].op = "put" /\ dir[p] = NoInode /\ result = "notFound" -> "mkdir"
      [] job[p].op = "setLatest"                                    -> "mkdir"
      [] OTHER                                                      -> "idle"

(* Where Get's caller continues: the lookup verifies what it got; Put      *)
(* stages an archive only if none was found, and after a failed rename     *)
(* (its staging directory is then still held) accepts a readable winner;   *)
(* SetLatest goes on only with a readable archive.                         *)
AfterGet(p, result) ==
    CASE IsLookup(p) /\ result = "ok"                               -> "verify"
      [] job[p].op = "put" /\ dir[p] # NoInode                      -> "cleanup"
      [] job[p].op = "put" /\ dir[p] = NoInode /\ result = "notFound" -> "mkdir"
      [] job[p].op = "setLatest" /\ result = "ok"                   -> "mkdir"
      [] OTHER                                                      -> "idle"

GetReturns(p, result) ==
    LET next == AfterGet(p, result) IN
    IF next = "idle"
      THEN Return(p, result)
      ELSE /\ Goto(p, next)
           /\ out' = [out EXCEPT ![p] =
                IF next # "cleanup" THEN "none" ELSE IF result = "ok" THEN "ok" ELSE "error"]
           /\ IF next = "verify" THEN UNCHANGED got
                                 ELSE got' = [got EXCEPT ![p] = NoReads]
           /\ UNCHANGED <<job, dir, rm>>

(* One read of Get: on to the next step, or Get returns. *)
GetStep(p, at, passes, reads, next, failure) ==
    /\ pc[p] = at
    /\ IF passes
         THEN /\ Goto(p, next)
              /\ got' = [got EXCEPT ![p] = reads]
              /\ UNCHANGED <<job, dir, rm, out>>
         ELSE GetReturns(p, failure)
    /\ UNCHANGED fs

GetCheckZip(p) ==
    GetStep(p, "checkZip", Read(job[p].ver, "zip") # Absent, got[p], "readHash", "notFound")

GetReadHash(p) ==
    LET h == Read(job[p].ver, "hash") IN
    GetStep(p, "readHash", h # Absent, [got[p] EXCEPT !.hash = h], "matchHash", "error")

GetMatchHash(p) ==
    GetStep(p, "matchHash", Read(job[p].ver, "zip") = got[p].hash, got[p], "readData", "error")

GetReadData(p) ==
    LET a == Read(job[p].ver, "zip") IN
    GetStep(p, "readData", a # Absent, [got[p] EXCEPT !.data = a], "readRevision", "notFound")

(* Mutant: Get forgets the revision. *)
GetWithoutRevision(p) ==
    GetStep(p, "readRevision", TRUE, got[p], "readVerification", "error")

(* The revision file is optional: a missing one reads as no revision. *)
GetReadRevision(p) ==
    GetStep(p, "readRevision", TRUE,
            [got[p] EXCEPT !.revision = Read(job[p].ver, "revision")], "readVerification", "error")

GetReadVerification(p) ==
    LET h == Read(job[p].ver, "verification") IN
    GetStep(p, "readVerification", h # Absent, [got[p] EXCEPT !.verification = h],
            "matchVerification", "error")

GetMatchVerification(p) ==
    /\ pc[p] = "matchVerification"
    /\ GetReturns(p, IF Read(job[p].ver, "zip") = got[p].verification THEN "ok" ELSE "error")
    /\ UNCHANGED fs

(* Mutant: the cached archive is trusted as Get returned it, or refused. *)
VerifyNothing(p) ==
    /\ pc[p] = "verify"
    /\ \E result \in {"ok", "error"} : Return(p, result)
    /\ UNCHANGED fs

(* ArchiveFetcher re-verifies what Get returned: the verifier hashes the   *)
(* bytes it was given, not the file they came from, and compares the hash  *)
(* with go.sum or, failing that, with the sidecar, which the policy may    *)
(* not be content with.                                                    *)
Verify(p) ==
    /\ pc[p] = "verify"
    /\ LET sum == GoSum[job[p].ver] IN
         \/ Return(p, "error")
         \/ sum = got[p].data /\ Answer(p)
         \/ sum = Absent /\ got[p].verification = got[p].data /\ Answer(p)
    /\ UNCHANGED fs

(* ctx.Err() is consulted when an operation begins and once within Get. *)
Cancelled(p) ==
    /\ pc[p] \in {"latest", "checkZip", "readVerification", "measure"}
    /\ GetReturns(p, "error")
    /\ UNCHANGED fs

-----------------------------------------------------------------------------
(* Put and SetLatest. *)

Mkdir(p) ==
    /\ pc[p] = "mkdir"
    /\ vdir' = TRUE
    /\ Goto(p, IF job[p].op = "put" THEN "mktemp" ELSE "createAlias")
    /\ UNCHANGED <<entry, temp, file, alias, aliasTemp, job, dir, got, rm, out>>

(* Mutant: a staging name that is not unique, as .archive-<version>. *)
PutMkdirShared(p) ==
    /\ pc[p] = "mktemp"
    /\ vdir
    /\ \E i \in FreeInode \union temp :
         /\ temp' = temp \union {i}
         /\ dir' = [dir EXCEPT ![p] = i]
         /\ Goto(p, "writeZip")
    /\ UNCHANGED <<vdir, entry, file, alias, aliasTemp, job, got, rm, out>>

PutMkdirTemp(p) ==
    /\ pc[p] = "mktemp"
    /\ IF vdir
         THEN \E i \in FreeInode :
                /\ temp' = temp \union {i}
                /\ file' = [file EXCEPT ![i] = EmptyDir]
                /\ dir' = [dir EXCEPT ![p] = i]
                /\ Goto(p, "writeZip")
                /\ UNCHANGED <<job, got, rm, out>>
         ELSE Return(p, "error") /\ UNCHANGED <<temp, file>>
    /\ UNCHANGED <<vdir, entry, alias, aliasTemp>>

PutFails(p) ==
    /\ Goto(p, "cleanup")
    /\ out' = [out EXCEPT ![p] = "error"]

(* A staged file is created by path: it fails if the staging directory is  *)
(* gone.                                                                   *)
PutWrite(p, at, f, content, next) ==
    /\ pc[p] = at
    /\ IF dir[p] \in temp
         THEN /\ file' = [file EXCEPT ![dir[p]][f] = content]
              /\ Goto(p, next)
              /\ UNCHANGED out
         ELSE PutFails(p) /\ UNCHANGED file
    /\ UNCHANGED <<vdir, entry, temp, alias, aliasTemp, job, dir, got, rm>>

PutWriteZip(p)  == PutWrite(p, "writeZip", "zip", job[p].arch, "hashZip")
(* Mutant: the verification sidecar is skipped. *)
PutWriteHashOnly(p) == PutWrite(p, "writeHash", "hash", job[p].arch, "writeRevision")

PutWriteHash(p) == PutWrite(p, "writeHash", "hash", job[p].arch, "writeVerification")
PutWriteVerification(p) ==
    PutWrite(p, "writeVerification", "verification", job[p].arch, "writeRevision")
PutWriteRevision(p) ==
    PutWrite(p, "writeRevision", "revision", RevisionOf(job[p].arch), "seal")

(* CheckZip and HashZip read the staged ZIP back; chmod and sync open the  *)
(* staging directory.                                                      *)
PutCheck(p, at, passes, next) ==
    /\ pc[p] = at
    /\ IF passes THEN Goto(p, next) /\ UNCHANGED out ELSE PutFails(p)
    /\ UNCHANGED <<fs, job, dir, got, rm>>

PutHashZip(p) ==
    PutCheck(p, "hashZip", dir[p] \in temp /\ file[dir[p]]["zip"] # Absent, "writeHash")

PutSeal(p) == PutCheck(p, "seal", dir[p] \in temp, "rename")

(* rename(2) publishes: it needs the staging name, and a target that does  *)
(* not exist or is an empty directory.                                     *)
CanRename(p) ==
    /\ dir[p] \in temp
    /\ entry[job[p].ver] # NoInode => IsEmptyDir(entry[job[p].ver])

(* Mutant: Put removes what is there before it renames. *)
PutReplaces(p) ==
    /\ pc[p] = "rename"
    /\ dir[p] \in temp
    /\ entry' = [entry EXCEPT ![job[p].ver] = dir[p]]
    /\ temp' = temp \ {dir[p]}
    /\ Return(p, "ok")
    /\ UNCHANGED <<vdir, file, alias, aliasTemp>>

(* The entry stays also if its parent directory cannot be synced.          *)
PutRename(p) ==
    /\ pc[p] = "rename"
    /\ CanRename(p)
    /\ entry' = [entry EXCEPT ![job[p].ver] = dir[p]]
    /\ temp' = temp \ {dir[p]}
    /\ \E result \in {"ok", "error"} : Return(p, result)
    /\ UNCHANGED <<vdir, file, alias, aliasTemp>>

PutRenameFails(p) ==
    /\ pc[p] = "rename"
    /\ ~CanRename(p)
    /\ Goto(p, "checkZip")
    /\ UNCHANGED <<fs, job, dir, got, rm, out>>

(* A write, check or sync fails, or ctx is done before the rename. *)
PutAborts(p) ==
    /\ pc[p] \in {"writeZip", "hashZip", "writeHash", "writeVerification",
                  "writeRevision", "seal", "rename"}
    /\ PutFails(p)
    /\ UNCHANGED <<fs, job, dir, got, rm>>

(* Mutant: no deferred RemoveAll. *)
PutReturns(p) ==
    /\ pc[p] = "cleanup"
    /\ Return(p, out[p])
    /\ UNCHANGED fs

(* The deferred RemoveAll(tempDir). *)
PutCleanup(p) ==
    /\ pc[p] = "cleanup"
    /\ temp' = temp \ {dir[p]}
    /\ file' = IF dir[p] \in temp THEN [file EXCEPT ![dir[p]] = EmptyDir] ELSE file
    /\ Return(p, out[p])
    /\ UNCHANGED <<vdir, entry, alias, aliasTemp>>

SetLatestCreate(p) ==
    /\ pc[p] = "createAlias"
    /\ IF vdir
         THEN \E i \in FreeInode :
                /\ aliasTemp' = aliasTemp \union {i}
                /\ dir' = [dir EXCEPT ![p] = i]
                /\ Goto(p, "renameAlias")
                /\ UNCHANGED <<job, got, rm, out>>
         ELSE Return(p, "error") /\ UNCHANGED aliasTemp
    /\ UNCHANGED <<vdir, entry, temp, file, alias>>

SetLatestRename(p) ==
    /\ pc[p] = "renameAlias"
    /\ IF dir[p] \in aliasTemp
         THEN alias' = job[p].ver /\ \E result \in {"ok", "error"} : Return(p, result)
         ELSE UNCHANGED alias /\ Return(p, "error")
    /\ aliasTemp' = aliasTemp \ {dir[p]}
    /\ UNCHANGED <<vdir, entry, temp, file>>

SetLatestCancelled(p) ==
    /\ pc[p] = "renameAlias"
    /\ aliasTemp' = aliasTemp \ {dir[p]}
    /\ Return(p, "error")
    /\ UNCHANGED <<vdir, entry, temp, file, alias>>

-----------------------------------------------------------------------------
(* RemoveCache.  os.RemoveAll lists a directory once, unlinks what it      *)
(* listed in any order, and then removes the directory by name, which      *)
(* fails if something is left in it.                                       *)

RemoveMeasure(p) ==
    /\ pc[p] = "measure"
    /\ LET module == job[p].op = "removeModule"
           names  == IF module THEN Linked ELSE {<<"entry", job[p].ver>>} \intersect Linked
       IN IF (module /\ vdir) \/ names # {}
            THEN /\ rm' = [rm EXCEPT ![p].todo = names]
                 /\ Goto(p, "walk")
                 /\ UNCHANGED <<job, dir, got, out>>
            ELSE Return(p, "notFound")
    /\ UNCHANGED fs

(* The walk that measures the target meets a file that is just going away: *)
(* the error looks like a missing target, or is reported as it is if the   *)
(* file was the alias of a version's module.                               *)
RemoveMeasureFails(p) ==
    /\ pc[p] = "measure"
    /\ \E q \in Proc \ {p} : pc[q] # "idle"
    /\ \E result \in {"notFound", "error"} :
         /\ result = "error" => job[p].op = "removeVersion"
         /\ Return(p, result)
    /\ UNCHANGED fs

(* unlinkat on one listed name: a file goes at once, a directory is opened *)
(* and listed first.                                                       *)
RemoveName(p) ==
    /\ pc[p] = "walk"
    /\ \E n \in rm[p].todo :
         LET i == DirectoryAt(n) IN
         IF i = NoInode
           THEN /\ rm' = [rm EXCEPT ![p].todo = @ \ {n}]
                /\ alias' = IF n[1] = "alias" THEN NoVersion ELSE alias
                /\ aliasTemp' = IF n[1] = "aliasTemp" THEN aliasTemp \ {n[2]} ELSE aliasTemp
                /\ UNCHANGED <<pc, dir>>
           ELSE /\ rm' = [rm EXCEPT ![p] = [todo |-> @.todo, target |-> n,
                                            left |-> {f \in File : file[i][f] # Absent}]]
                /\ dir' = [dir EXCEPT ![p] = i]
                /\ Goto(p, "unlink")
                /\ UNCHANGED <<alias, aliasTemp>>
    /\ UNCHANGED <<vdir, entry, temp, file, job, got, out>>

RemoveFile(p) ==
    /\ pc[p] = "unlink"
    /\ \E f \in rm[p].left :
         /\ file' = [file EXCEPT ![dir[p]][f] = Absent]
         /\ rm' = [rm EXCEPT ![p].left = @ \ {f}]
    /\ UNCHANGED <<vdir, entry, temp, alias, aliasTemp, pc, job, dir, got, out>>

(* rmdir by name.  The name may by now lead to another directory, or its   *)
(* parent may be gone (the target is then no longer in todo).              *)
RemoveDirectory(p) ==
    /\ pc[p] = "unlink"
    /\ rm[p].left = {}
    /\ LET n     == rm[p].target
           i     == IF n \in rm[p].todo THEN DirectoryAt(n) ELSE NoInode
           fails == i # NoInode /\ ~IsEmptyDir(i)
       IN /\ IF fails \/ i = NoInode
               THEN UNCHANGED <<entry, temp>>
               ELSE /\ entry' = [v \in Version |-> IF entry[v] = i THEN NoInode ELSE entry[v]]
                    /\ temp' = temp \ {i}
          /\ IF fails /\ job[p].op = "removeVersion"
               THEN Return(p, "error")
               ELSE /\ Goto(p, "walk")
                    /\ rm' = [rm EXCEPT ![p] = [NoWalk EXCEPT !.todo = rm[p].todo \ {n}]]
                    /\ dir' = [dir EXCEPT ![p] = NoInode]
                    /\ UNCHANGED <<job, got, out>>
    /\ UNCHANGED <<vdir, file, alias, aliasTemp>>

(* Nothing is left of an @v directory that is removed, so whoever still    *)
(* walks it finds no name of its list there any more.                      *)
WalkersLose(rms) ==
    [q \in Proc |-> IF pc[q] = "unlink" \/ (pc[q] = "walk" /\ job[q].op = "removeModule")
                      THEN [rms[q] EXCEPT !.todo = {}] ELSE rms[q]]

RemoveModuleEnds(p) ==
    /\ pc[p] = "walk"
    /\ job[p].op = "removeModule"
    /\ rm[p].todo = {}
    /\ vdir' = (vdir /\ Linked # {})
    /\ Goto(p, "idle")
    /\ out' = [out EXCEPT ![p] = IF vdir' THEN "error" ELSE "ok"]
    /\ job' = [job EXCEPT ![p] = NoJob]
    /\ rm' = IF vdir /\ ~vdir' THEN [WalkersLose(rm) EXCEPT ![p] = NoWalk]
                               ELSE [rm EXCEPT ![p] = NoWalk]
    /\ UNCHANGED <<entry, temp, file, alias, aliasTemp, dir, got>>

RemoveVersionWalked(p) ==
    /\ pc[p] = "walk"
    /\ job[p].op = "removeVersion"
    /\ rm[p].todo = {}
    /\ Goto(p, "readAlias")
    /\ UNCHANGED <<fs, job, dir, got, rm, out>>

(* removeMatchingLatestAlias reads the alias and then removes it by name. *)
RemoveReadAlias(p) ==
    /\ pc[p] = "readAlias"
    /\ Goto(p, IF alias = job[p].ver THEN "removeAlias" ELSE "removeVdir")
    /\ UNCHANGED <<fs, job, dir, got, rm, out>>

(* Mutant: the alias file is emptied, not removed. *)
EmptyAlias(p) ==
    /\ pc[p] = "removeAlias"
    /\ alias' = Absent
    /\ Goto(p, "removeVdir")
    /\ UNCHANGED <<vdir, entry, temp, file, aliasTemp, job, dir, got, rm, out>>

RemoveAlias(p) ==
    /\ pc[p] = "removeAlias"
    /\ alias' = NoVersion
    /\ Goto(p, "removeVdir")
    /\ UNCHANGED <<vdir, entry, temp, file, aliasTemp, job, dir, got, rm, out>>

RemoveVdirIfEmpty(p) ==
    /\ pc[p] = "removeVdir"
    /\ vdir' = (vdir /\ Linked # {})
    /\ Goto(p, "idle")
    /\ out' = [out EXCEPT ![p] = "ok"]
    /\ job' = [job EXCEPT ![p] = NoJob]
    /\ rm' = IF vdir /\ ~vdir' THEN WalkersLose(rm) ELSE rm
    /\ UNCHANGED <<entry, temp, file, alias, aliasTemp, dir, got>>

-----------------------------------------------------------------------------
Get(p) == \/ GetCheckZip(p) \/ GetReadHash(p) \/ GetMatchHash(p) \/ GetReadData(p)
          \/ GetReadRevision(p) \/ GetReadVerification(p) \/ GetMatchVerification(p)
          \/ Cancelled(p)

Put(p) == \/ PutMkdirTemp(p) \/ PutWriteZip(p) \/ PutHashZip(p) \/ PutWriteHash(p)
          \/ PutWriteVerification(p) \/ PutWriteRevision(p) \/ PutSeal(p)
          \/ PutRename(p) \/ PutRenameFails(p) \/ PutAborts(p) \/ PutCleanup(p)

SetLatest(p) == SetLatestCreate(p) \/ SetLatestRename(p) \/ SetLatestCancelled(p)

Remove(p) == \/ RemoveMeasure(p) \/ RemoveMeasureFails(p)
             \/ RemoveName(p) \/ RemoveFile(p) \/ RemoveDirectory(p)
             \/ RemoveModuleEnds(p) \/ RemoveVersionWalked(p)
             \/ RemoveReadAlias(p) \/ RemoveAlias(p) \/ RemoveVdirIfEmpty(p)

Next == \E p \in Proc :
          \/ Start(p) \/ Crash(p) \/ ReadLatest(p) \/ Verify(p) \/ Mkdir(p)
          \/ Get(p) \/ Put(p) \/ SetLatest(p) \/ Remove(p)

Spec == Init /\ [][Next]_vars

-----------------------------------------------------------------------------
(* Properties. *)

Whole(i, a) == file[i] = [f \in File |-> IF f = "revision" THEN RevisionOf(a) ELSE a]

(* A version directory holds every file of one archive: "A failed          *)
(* validation or filesystem operation never publishes a partial cache      *)
(* entry".  It needs that nobody removes entries.                          *)
EntriesWhole == \A v \in Version : entry[v] # NoInode => \E a \in Archive : Whole(entry[v], a)

(* The alias names a version that is in the cache. *)
AliasResolves == alias # NoVersion => entry[alias] # NoInode

(* A lookup that succeeds returns one archive: bytes, verification and     *)
(* revision are those of the entry, whatever was published meanwhile, and  *)
(* not one that go.sum has another hash for, which may well be cached.     *)
LookupWhole ==
    \A p \in Proc : pc[p] = "idle" /\ out[p] = "ok" /\ IsLookup(p) =>
        /\ GoSum[job[p].ver] \in {Absent, got[p].data}
        /\ Whole(entry[job[p].ver], got[p].data)
        /\ got[p].verification = got[p].data
        /\ got[p].revision = RevisionOf(got[p].data)

(* Whatever is removed and published again underneath a lookup, the bytes  *)
(* it returns are the bytes its verification vouches for.                  *)
LookupVerified ==
    \A p \in Proc : pc[p] = "idle" /\ out[p] = "ok" /\ IsLookup(p) =>
        got[p].data \in Archive /\ got[p].verification = got[p].data

(* No directory ever mixes two archives, published or staged. *)
NeverMixed ==
    \A i \in Inode : \E a \in Content : \A f \in File : file[i][f] \in {a, Absent}

(* Staging names belong to a running invocation or were left by a crash:   *)
(* the failure paths of Put and SetLatest, however they race with cache    *)
(* commands, leave nothing behind.                                         *)
NoDebris ==
    MaxDebris = 0 => \A i \in temp \union aliasTemp : \E p \in Proc : dir[p] = i

(* The cache as its users see it. *)
Promise == INSTANCE ImmutableStore WITH
    stored <- [v \in Version |-> Read(v, "zip")],
    latest <- alias,
    answer <- [p \in Proc |->
                 IF pc[p] = "idle" /\ IsLookup(p) THEN got[p].data ELSE Absent]

(* Concurrent lookups implement it: every version is published once and    *)
(* for good, latest is recorded for stored versions only, and a lookup     *)
(* answers with the archive that is stored.                                *)
KeepsPromise == Promise!Spec

=============================================================================
