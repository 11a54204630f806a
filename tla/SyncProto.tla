------------------------------ MODULE SyncProto -----------------------------
(***************************************************************************)
(* scripts/sync_proto.sh.  A run clones the upstream repository, mirrors   *)
(* its .proto files into proto/upstream, mirrors those into the crate,     *)
(* then patches: the file that declares AuthorityInfo gets a package,      *)
(* every other file says aelf.AuthorityInfo.  A run may be killed          *)
(* anywhere, between two files of a mirror or of a patch included, and is  *)
(* then started again; upstream may be anything by then.                   *)
(*                                                                         *)
(* A tree gives each file its content or Absent.  Of the file that         *)
(* declares AuthorityInfo the model keeps the package, "both" if two are   *)
(* named, and whether a blank line follows the syntax line; of the other   *)
(* files how they refer to it: by its bare name, as aelf's or as another   *)
(* package's.                                                              *)
(***************************************************************************)
EXTENDS Integers, FiniteSets

CONSTANTS
    Authority,    \* authority_info.proto
    Others        \* the other files

\* The patch of the references passes over authority_info.proto by its name.
ASSUME FilesAssumption == Authority \notin Others

VARIABLES
    pc,           \* the next command of the script
    clone,        \* the upstream files in the temporary directory
    root,         \* proto/upstream
    crate,        \* crates/aelf-proto/proto/upstream
    todo          \* the files the patch of the references has not reached

vars == <<pc, clone, root, crate, todo>>

Files == {Authority} \cup Others

Absent == [package |-> "absent", spaced |-> FALSE]

Declaring(packages) == {Absent} \cup [package : packages, spaced : BOOLEAN]

Using == {Absent} \cup [refs : {"none", "bare", "aelf", "other"}]

TreesOf(packages) ==
    {t \in [Files -> Declaring(packages) \cup Using] :
        /\ t[Authority] \in Declaring(packages)
        /\ \A f \in Others : t[f] \in Using}

\* What upstream may have.
Upstream == TreesOf({"", "aelf", "other"})

Trees == TreesOf({"", "aelf", "other", "both"})

NoTree == [f \in Files |-> Absent]

\* Mutant of Rsync: without --delete.
RsyncKeeping(src, dst, done) ==
    [f \in Files |-> IF f \in done /\ src[f] # Absent THEN src[f] ELSE dst[f]]

\* The destination when rsync --delete has dealt with the files in done.
Rsync(src, dst, done) ==
    [f \in Files |-> IF f \in done THEN src[f] ELSE dst[f]]

\* The needle is the syntax line with a blank line after it; a file without
\* it is left as it is, and nothing is said.  Another package is not noticed.
WithPackage(content) ==
    IF content.spaced /\ content.package \in {"", "other"}
    THEN [content EXCEPT !.package = IF @ = "" THEN "aelf" ELSE "both"]
    ELSE content

\* The pattern takes no name that follows a word or a dot.
Qualify(content) ==
    IF content = [refs |-> "bare"] THEN [refs |-> "aelf"] ELSE content

Patched(tree) ==
    [f \in Files |-> IF f = Authority THEN WithPackage(tree[f])
                     ELSE Qualify(tree[f])]

-----------------------------------------------------------------------------
(* The script.  It stops at the first command that fails. *)

\* As they are committed the two directories are the same, and patched.
Init ==
    /\ pc = "idle"
    /\ clone = NoTree
    /\ \E t \in Upstream : root = Patched(t) /\ root[Authority].package = "aelf"
    /\ crate = root
    /\ todo = {}

Start ==
    /\ pc \in {"idle", "done"}
    /\ pc' = "clone"
    /\ clone' = NoTree
    /\ UNCHANGED <<root, crate, todo>>

Clone ==
    /\ pc = "clone"
    /\ clone' \in Upstream
    /\ pc' = "mirror root"
    /\ UNCHANGED <<root, crate, todo>>

MirrorRoot ==
    /\ pc = "mirror root"
    /\ root' = Rsync(clone, root, Files)
    /\ pc' = "mirror crate"
    /\ UNCHANGED <<clone, crate, todo>>

MirrorCrate ==
    /\ pc = "mirror crate"
    /\ crate' = Rsync(root, crate, Files)
    /\ pc' = "patch authority"
    /\ UNCHANGED <<clone, root, todo>>

\* The guard `grep -q` fails on a missing file too, but then the patch fails
\* to read it.
PatchAuthority ==
    /\ pc = "patch authority"
    /\ IF root[Authority] = Absent
       THEN pc' = "idle" /\ UNCHANGED <<root, todo>>
       ELSE /\ root' = [root EXCEPT ![Authority] = WithPackage(@)]
            /\ todo' = {f \in Others : root[f] # Absent}
            /\ pc' = "patch references"
    /\ UNCHANGED <<clone, crate>>

PatchFile ==
    /\ pc = "patch references"
    /\ \E f \in todo :
          /\ root' = [root EXCEPT ![f] = Qualify(@)]
          /\ todo' = todo \ {f}
    /\ UNCHANGED <<pc, clone, crate>>

Finish ==
    /\ pc = "patch references"
    /\ todo = {}
    /\ pc' = "done"
    /\ UNCHANGED <<clone, root, crate, todo>>

\* A command fails, or the script is killed in the middle of one.
Interrupted ==
    /\ pc \notin {"idle", "done"}
    /\ \E done \in SUBSET Files :
          /\ root' = IF pc = "mirror root" THEN Rsync(clone, root, done) ELSE root
          /\ crate' = IF pc = "mirror crate" THEN Rsync(root, crate, done) ELSE crate
    /\ pc' = "idle"
    /\ clone' = NoTree
    /\ todo' = {}

Next ==
    \/ Start
    \/ Clone
    \/ MirrorRoot
    \/ MirrorCrate
    \/ PatchAuthority
    \/ PatchFile
    \/ Finish
    \/ Interrupted

Spec == Init /\ [][Next]_vars

-----------------------------------------------------------------------------

TypeOK ==
    /\ pc \in {"idle", "clone", "mirror root", "mirror crate",
               "patch authority", "patch references", "done"}
    /\ clone \in Upstream
    /\ {root, crate} \subseteq Trees
    /\ todo \subseteq Others

\* A run that reports success leaves what upstream has, patched, in
\* proto/upstream and what upstream has, as it is, in the crate: no file, and
\* no half of a patch, of an earlier run that was interrupted remains.
NothingLeftBehind ==
    pc = "done" => root = Patched(clone) /\ crate = clone

\* "Synced proto files into $PROTO_DIR and $CRATE_PROTO_DIR", the script says
\* at its end: the two directories hold the same files.
MirrorsAgree == pc = "done" => crate = root

=============================================================================
