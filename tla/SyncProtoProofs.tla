--------------------------- MODULE SyncProtoProofs --------------------------
(***************************************************************************)
(* A run of scripts/sync_proto.sh that reports success, for any files and  *)
(* any upstream trees, however many runs were interrupted before it.       *)
(***************************************************************************)
EXTENDS SyncProto, TLAPS

\* How far the two directories are, command by command.
Progress ==
    /\ pc = "mirror crate" => root = clone
    /\ pc = "patch authority" => root = clone /\ crate = clone
    /\ pc \in {"patch references", "done"} =>
          /\ clone[Authority] # Absent
          /\ crate = clone
          /\ root = [f \in Files |->
                        IF f = Authority THEN WithPackage(clone[f])
                        ELSE IF f \in todo THEN clone[f]
                        ELSE Qualify(clone[f])]
    /\ pc = "done" => todo = {}

IInv == TypeOK /\ Progress

-----------------------------------------------------------------------------
(* Contents and trees. *)

Packages == {"", "aelf", "other"}

LEMMA PatchTypes ==
  /\ \A content \in Declaring(Packages) : WithPackage(content) \in Declaring(Packages \cup {"both"})
  /\ \A content \in Declaring(Packages \cup {"both"}) :
        WithPackage(content) \in Declaring(Packages \cup {"both"})
  /\ \A content \in Using : Qualify(content) \in Using
<1> DEFINE All == Packages \cup {"both"}
           Contents == [package : All, spaced : BOOLEAN]
<1>1. ASSUME NEW content \in Declaring(All) PROVE WithPackage(content) \in Declaring(All)
  <2>1. CASE content.spaced /\ content.package \in {"", "other"}
    <3> DEFINE new == IF content.package = "" THEN "aelf" ELSE "both"
    <3>1. ~ Absent.spaced
      BY DEF Absent
    <3>2. content \in Contents
      <4> HIDE DEF All
      <4>1. content = Absent \/ content \in Contents
        BY <1>1 DEF Declaring
      <4>2. QED
        BY <2>1, <3>1, <4>1
    <3>3. new \in All
      BY DEF Packages
    <3> HIDE DEF new, All
    <3>4. [content EXCEPT !.package = new] \in Contents
      BY <3>2, <3>3
    <3>5. WithPackage(content) = [content EXCEPT !.package = new]
      <4>1. [content EXCEPT !.package = IF @ = "" THEN "aelf" ELSE "both"]
              = [content EXCEPT !.package = new]
        BY DEF new
      <4>2. QED
        BY <2>1, <4>1 DEF WithPackage
    <3>6. QED
      BY <3>4, <3>5 DEF Declaring
  <2>2. CASE ~ (content.spaced /\ content.package \in {"", "other"})
    BY <1>1, <2>2 DEF WithPackage
  <2>3. QED
    BY <2>1, <2>2
<1>2. \A content \in Declaring(Packages) : content \in Declaring(All)
  BY DEF Declaring, Packages
<1>3. \A content \in Using : Qualify(content) \in Using
  BY DEF Using, Qualify
<1>4. QED
  BY <1>1, <1>2, <1>3

LEMMA AbsentUntouched == WithPackage(Absent) = Absent /\ Qualify(Absent) = Absent
<1>1. Absent # [refs |-> "bare"]
  BY DEF Absent
<1>2. QED
  BY <1>1 DEF WithPackage, Qualify, Absent

LEMMA TreeType ==
  ASSUME NEW packages, NEW t
  PROVE  t \in TreesOf(packages) <=> /\ t = [f \in Files |-> t[f]]
                                    /\ t[Authority] \in Declaring(packages)
                                    /\ \A f \in Others : t[f] \in Using
  BY DEF TreesOf, Files

LEMMA UpstreamTrees == Upstream = TreesOf(Packages) /\ Trees = TreesOf(Packages \cup {"both"})
<1>1. {"", "aelf", "other", "both"} = Packages \cup {"both"}
  BY DEF Packages
<1>2. QED
  BY <1>1 DEF Upstream, Trees, Packages

LEMMA UpstreamType == \A t \in Upstream : t \in Trees
<1>1. \A content \in Declaring(Packages) : content \in Declaring(Packages \cup {"both"})
  BY DEF Declaring, Packages
<1>2. QED
  BY <1>1, UpstreamTrees, TreeType

LEMMA PatchedType == ASSUME NEW t \in Upstream PROVE Patched(t) \in Trees
<1>1. Patched(t)[Authority] = WithPackage(t[Authority])
  BY DEF Patched, Files
<1>2. \A f \in Others : Patched(t)[f] = Qualify(t[f])
  BY FilesAssumption DEF Patched, Files
<1>3. QED
  <2>1. Patched(t) = [f \in Files |-> Patched(t)[f]]
    BY DEF Patched
  <2>2. t[Authority] \in Declaring(Packages) /\ \A f \in Others : t[f] \in Using
    BY UpstreamTrees, TreeType
  <2>3. /\ Patched(t)[Authority] \in Declaring(Packages \cup {"both"})
        /\ \A f \in Others : Patched(t)[f] \in Using
    BY <1>1, <1>2, <2>2, PatchTypes
  <2>4. QED
    BY <2>1, <2>3, UpstreamTrees, TreeType

LEMMA RsyncType ==
  ASSUME NEW src \in Trees, NEW dst \in Trees, NEW done
  PROVE  Rsync(src, dst, done) \in Trees
<1>1. \A f \in Files : Rsync(src, dst, done)[f] \in {src[f], dst[f]}
  BY DEF Rsync
<1>2. QED
  BY <1>1, UpstreamTrees, TreeType DEF Rsync, Files

LEMMA RsyncAll == ASSUME NEW src \in Trees, NEW dst PROVE Rsync(src, dst, Files) = src
  BY UpstreamTrees, TreeType DEF Rsync

LEMMA NoTreeType == NoTree \in Upstream
<1>1. NoTree = [f \in Files |-> NoTree[f]] /\ \A f \in Files : NoTree[f] = Absent
  BY DEF NoTree
<1>2. QED
  BY <1>1, UpstreamTrees, TreeType DEF Files, Declaring, Using

\* A tree with one file changed for another of its kind.
LEMMA FileChanged ==
  ASSUME NEW t \in Trees, NEW f \in Files, NEW content,
         f = Authority => content \in Declaring(Packages \cup {"both"}),
         f \in Others => content \in Using
  PROVE  [t EXCEPT ![f] = content] \in Trees
<1> DEFINE u == [t EXCEPT ![f] = content]
<1>1. \A g \in Files : u[g] = IF g = f THEN content ELSE t[g]
  BY UpstreamTrees, TreeType
<1>2. QED
  BY <1>1, FilesAssumption, UpstreamTrees, TreeType DEF Files

-----------------------------------------------------------------------------
(* The invariant. *)

LEMMA InitIInv == Init => IInv
<1> SUFFICES ASSUME Init PROVE IInv
  OBVIOUS
<1>1. clone \in Upstream /\ {root, crate} \subseteq Trees
  BY NoTreeType, PatchedType DEF Init
<1>2. QED
  BY <1>1 DEF Init, IInv, TypeOK, Progress

LEMMA TypeStep == IInv /\ [Next]_vars => TypeOK'
<1> SUFFICES ASSUME TypeOK, [Next]_vars PROVE TypeOK'
  BY DEF IInv
<1> USE DEF TypeOK
<1>1. CASE Start
  BY <1>1, NoTreeType DEF Start
<1>2. CASE Clone
  BY <1>2 DEF Clone
<1>3. CASE MirrorRoot
  BY <1>3, UpstreamType, RsyncType DEF MirrorRoot
<1>4. CASE MirrorCrate
  BY <1>4, RsyncType DEF MirrorCrate
<1>5. CASE PatchAuthority
  <2>1. root' \in Trees
    <3>1. root[Authority] \in Declaring(Packages \cup {"both"})
      BY UpstreamTrees, TreeType
    <3>2. [root EXCEPT ![Authority] = WithPackage(@)] \in Trees
      BY <3>1, PatchTypes, FileChanged, FilesAssumption DEF Files
    <3>3. QED
      BY <1>5, <3>2 DEF PatchAuthority
  <2>2. QED
    BY <1>5, <2>1 DEF PatchAuthority
<1>6. CASE PatchFile
  <2>1. PICK f \in todo : root' = [root EXCEPT ![f] = Qualify(@)] /\ todo' = todo \ {f}
    BY <1>6 DEF PatchFile
  <2>2. root[f] \in Using
    BY <2>1, UpstreamTrees, TreeType
  <2>3. root' \in Trees
    BY <2>1, <2>2, PatchTypes, FileChanged, FilesAssumption DEF Files
  <2>4. QED
    BY <1>6, <2>1, <2>3 DEF PatchFile
<1>7. CASE Finish
  BY <1>7 DEF Finish
<1>8. CASE Interrupted
  BY <1>8, UpstreamType, RsyncType, NoTreeType DEF Interrupted
<1>9. CASE UNCHANGED vars
  BY <1>9 DEF vars
<1>10. QED
  BY <1>1, <1>2, <1>3, <1>4, <1>5, <1>6, <1>7, <1>8, <1>9 DEF Next

\* Each command takes the two directories one stage on, and only a command
\* that succeeds does.
LEMMA ProgressStep == IInv /\ [Next]_vars => Progress'
<1> SUFFICES ASSUME TypeOK, Progress, [Next]_vars PROVE Progress'
  BY DEF IInv
<1> USE DEF Progress
<1>1. CASE Start \/ Clone \/ Interrupted
  BY <1>1 DEF Start, Clone, Interrupted
<1>2. CASE MirrorRoot
  BY <1>2, UpstreamType, RsyncAll DEF MirrorRoot, TypeOK
<1>3. CASE MirrorCrate
  BY <1>3, RsyncAll DEF MirrorCrate, TypeOK
<1>4. CASE PatchAuthority
  <2>1. CASE root[Authority] = Absent
    BY <1>4, <2>1 DEF PatchAuthority
  <2>2. CASE root[Authority] # Absent
    <3>1. root' = [root EXCEPT ![Authority] = WithPackage(@)]
          /\ todo' = {f \in Others : root[f] # Absent}
          /\ pc' = "patch references" /\ UNCHANGED <<clone, crate>>
      BY <1>4, <2>2 DEF PatchAuthority
    <3>2. root = clone /\ crate = clone
      BY <1>4 DEF PatchAuthority
    <3>3. \A f \in Files : root'[f] = IF f = Authority THEN WithPackage(clone[f])
                                      ELSE IF f \in todo' THEN clone[f]
                                      ELSE Qualify(clone[f])
      <4>1. root = [f \in Files |-> root[f]]
        BY UpstreamTrees, TreeType DEF TypeOK
      <4>2. \A f \in Files : root'[f] = IF f = Authority THEN WithPackage(clone[f])
                                        ELSE clone[f]
        BY <3>1, <3>2, <4>1
      <4>3. \A f \in Files : f # Authority /\ f \notin todo' => clone[f] = Absent
        BY <3>1, <3>2 DEF Files
      <4>4. QED
        BY <4>2, <4>3, AbsentUntouched
    <3>4. root' = [f \in Files |-> root'[f]]
      BY <3>1, UpstreamTrees, TreeType DEF TypeOK
    <3>5. QED
      BY <2>2, <3>1, <3>2, <3>3, <3>4
  <2>3. QED
    BY <2>1, <2>2
<1>5. CASE PatchFile
  <2>1. PICK f \in todo : root' = [root EXCEPT ![f] = Qualify(@)] /\ todo' = todo \ {f}
    BY <1>5 DEF PatchFile
  <2>2. pc = "patch references" /\ UNCHANGED <<pc, clone, crate>>
    BY <1>5 DEF PatchFile
  <2>3. f \in Others /\ f # Authority /\ f \in Files
    BY FilesAssumption DEF TypeOK, Files
  <2>4. \A g \in Files : root'[g] = IF g = Authority THEN WithPackage(clone[g])
                                    ELSE IF g \in todo' THEN clone[g]
                                    ELSE Qualify(clone[g])
    BY <2>1, <2>2, <2>3
  <2>5. root' = [g \in Files |-> root'[g]]
    BY <2>1, UpstreamTrees, TreeType DEF TypeOK
  <2>6. QED
    BY <2>2, <2>4, <2>5
<1>6. CASE Finish
  BY <1>6 DEF Finish
<1>7. CASE UNCHANGED vars
  BY <1>7 DEF vars
<1>8. QED
  BY <1>1, <1>2, <1>3, <1>4, <1>5, <1>6, <1>7 DEF Next

LEMMA Invariance == Spec => []IInv
<1>1. IInv /\ [Next]_vars => IInv'
  BY TypeStep, ProgressStep DEF IInv
<1>2. QED
  BY <1>1, InitIInv, PTL DEF Spec

-----------------------------------------------------------------------------
(* What the script leaves. *)

\* Every part of the state keeps its type: no interruption and no half of a
\* patch makes a file that neither upstream nor the patch would write.
THEOREM TypeCorrect == Spec => []TypeOK
<1>1. IInv => TypeOK
  BY DEF IInv
<1>2. QED
  BY <1>1, Invariance, PTL

\* A run of sync_proto.sh that reports success leaves upstream's files in the
\* crate and their patched form in proto/upstream, every file and nothing but
\* them, whatever interrupted runs had left.
THEOREM SyncComplete == Spec => []NothingLeftBehind
<1>1. IInv => NothingLeftBehind
  BY DEF IInv, Progress, NothingLeftBehind, Patched
<1>2. QED
  BY <1>1, Invariance, PTL

=============================================================================
