-------------------------- MODULE ObjectStoreProofs --------------------------
(***************************************************************************)
(* Proofs about ObjectStore, for any number of creators and any size of    *)
(* the object, with failures and kills at every file system call.          *)
(*                                                                         *)
(* The argument: a temporary file belongs to one creator, which renames it *)
(* only when it is complete (RenamesComplete); the object's file changes   *)
(* only by such a rename or by a deletion.                                 *)
(***************************************************************************)
EXTENDS ObjectStore, TLAPS

\* The places and files that Goto and the file operations change.
LEMMA GotoType ==
    ASSUME NEW c \in Creators, NEW place \in Places, TypeOK, Goto(c, place)
    PROVE  /\ pc' \in [Creators -> Places]
           /\ pc'[c] = place
           /\ \A d \in Creators \ {c} : pc'[d] = pc[d]
  BY DEF TypeOK, Goto

\* A new content of one creator's temporary file leaves the others alone.
LEMMA TempType ==
    ASSUME NEW c \in Creators, NEW n \in -1 .. Size, TypeOK,
           temp' = [temp EXCEPT ![c] = n]
    PROVE  /\ temp' \in [Creators -> -1 .. Size]
           /\ temp'[c] = n
           /\ \A d \in Creators \ {c} : temp'[d] = temp[d]
  BY DEF TypeOK

\* The initial state satisfies the inductive invariant.
LEMMA InitIInv == Init => IInv
  BY ConstantsAssumption DEF Init, IInv, TypeOK, NeverPartial, CreatedIsVisible,
     RenamesComplete, TempOnlyWhileCreating, Absent, Places, Returned

\* Steps that only move a creator, to a place that says nothing about its
\* file, or where its file is absent already or could not be removed.
LEMMA MoveIInv ==
    ASSUME IInv, NEW c \in Creators, NEW place \in Places, Goto(c, place),
           place \notin {"ok", "exists", "rename"},
           place \in {"copy", "removeTemp", "killed"} \/ temp[c] = Absent \/ c \in kept',
           tags' \in {"none", "empty", "full"}, kept \subseteq kept', kept' \subseteq Creators,
           UNCHANGED <<object, temp, deleter>>
    PROVE  IInv'
  <1>1. /\ pc' \in [Creators -> Places]
        /\ pc'[c] = place
        /\ \A d \in Creators \ {c} : pc'[d] = pc[d]
    BY GotoType DEF IInv
  <1>2. TypeOK'
    BY <1>1 DEF IInv, TypeOK
  <1>3. NeverPartial' /\ CreatedIsVisible'
    BY <1>1 DEF IInv, NeverPartial, CreatedIsVisible
  <1>4. RenamesComplete' /\ TempOnlyWhileCreating'
    BY <1>1 DEF IInv, RenamesComplete, TempOnlyWhileCreating
  <1> QED
    BY <1>2, <1>3, <1>4 DEF IInv

\* A creator's own calls preserve the inductive invariant.
LEMMA CreateIInv ==
    ASSUME IInv, NEW c \in Creators, Create(c)
    PROVE  IInv'
  <1> USE DEF Places, Returned
  <1>1. CASE StatObject(c)
    <2>1. CASE object = Absent
      BY <1>1, <2>1, MoveIInv DEF StatObject, IInv, TypeOK, TempOnlyWhileCreating
    <2>2. CASE object # Absent
      <3>1. Goto(c, "exists") /\ (temp[c] = Absent \/ c \in kept) /\ UNCHANGED <<object, tags, temp, kept, deleter>>
        BY <1>1, <2>2 DEF StatObject, IInv, TempOnlyWhileCreating
      <3>2. /\ pc' \in [Creators -> Places]
            /\ pc'[c] = "exists"
            /\ \A d \in Creators \ {c} : pc'[d] = pc[d]
        BY <3>1, GotoType DEF IInv
      <3>3. object = Size
        BY <2>2 DEF IInv, NeverPartial
      <3>4. TypeOK'
        BY <3>1, <3>2 DEF IInv, TypeOK
      <3> QED
        BY <3>1, <3>2, <3>3, <3>4
        DEF IInv, NeverPartial, CreatedIsVisible, RenamesComplete, TempOnlyWhileCreating
    <2> QED
      BY <2>1, <2>2
  <1>2. CASE TruncateTags(c)
    <2>1. /\ Goto(c, "writeTags") /\ UNCHANGED <<object, temp, kept, deleter>>
          /\ tags' \in {"none", "empty", "full"}
          /\ temp[c] = Absent \/ c \in kept'
      BY <1>2 DEF TruncateTags, IInv, TempOnlyWhileCreating
    <2>2. kept \subseteq kept' /\ kept' \subseteq Creators
      BY <2>1 DEF IInv, TypeOK
    <2> QED
      BY <2>1, <2>2, MoveIInv
  <1>3. CASE WriteTags(c)
    <2>1. /\ Goto(c, "createTemp") /\ UNCHANGED <<object, temp, kept, deleter>>
          /\ tags' \in {"none", "empty", "full"}
          /\ temp[c] = Absent \/ c \in kept'
      BY <1>3 DEF WriteTags, IInv, TempOnlyWhileCreating
    <2>2. kept \subseteq kept' /\ kept' \subseteq Creators
      BY <2>1 DEF IInv, TypeOK
    <2> QED
      BY <2>1, <2>2, MoveIInv
  <1>4. CASE CreateTemp(c)
    <2>1. Goto(c, "copy") /\ temp' = [temp EXCEPT ![c] = 0] /\ UNCHANGED <<object, tags, kept, deleter>>
      BY <1>4 DEF CreateTemp
    <2>2. /\ pc' \in [Creators -> Places]
          /\ pc'[c] = "copy"
          /\ \A d \in Creators \ {c} : pc'[d] = pc[d]
      BY <2>1, GotoType DEF IInv
    <2>3. /\ temp' \in [Creators -> -1 .. Size]
          /\ \A d \in Creators \ {c} : temp'[d] = temp[d]
      <3>1. 0 \in -1 .. Size
        BY ConstantsAssumption
      <3> QED
        BY <2>1, <3>1, TempType DEF IInv
    <2>4. TypeOK'
      BY <2>1, <2>2, <2>3 DEF IInv, TypeOK
    <2> QED
      BY <2>1, <2>2, <2>3, <2>4
      DEF IInv, NeverPartial, CreatedIsVisible, RenamesComplete, TempOnlyWhileCreating
  <1>5. CASE Copy(c)
    <2>1. CASE temp[c] < Size
      <3>1. /\ pc[c] = "copy"
            /\ temp' = [temp EXCEPT ![c] = temp[c] + 1]
            /\ UNCHANGED <<pc, object, tags, kept, deleter>>
        BY <1>5, <2>1 DEF Copy
      <3>2. temp[c] + 1 \in -1 .. Size
        BY <2>1, ConstantsAssumption DEF IInv, TypeOK
      <3>3. /\ temp' \in [Creators -> -1 .. Size]
            /\ \A d \in Creators \ {c} : temp'[d] = temp[d]
        BY <3>1, <3>2, TempType DEF IInv
      <3>4. TypeOK'
        BY <3>1, <3>3 DEF IInv, TypeOK
      <3> QED
        BY <3>1, <3>3, <3>4
        DEF IInv, NeverPartial, CreatedIsVisible, RenamesComplete, TempOnlyWhileCreating
    <2>2. CASE ~(temp[c] < Size)
      <3>1. Goto(c, "rename") /\ UNCHANGED <<temp, object, tags, kept, deleter>>
        BY <1>5, <2>2 DEF Copy
      <3>2. temp[c] = Size
        BY <2>2, ConstantsAssumption DEF IInv, TypeOK
      <3>3. /\ pc' \in [Creators -> Places]
            /\ pc'[c] = "rename"
            /\ \A d \in Creators \ {c} : pc'[d] = pc[d]
        BY <3>1, GotoType DEF IInv
      <3>4. TypeOK'
        BY <3>1, <3>3 DEF IInv, TypeOK
      <3> QED
        BY <3>1, <3>2, <3>3, <3>4
        DEF IInv, NeverPartial, CreatedIsVisible, RenamesComplete, TempOnlyWhileCreating
    <2> QED
      BY <2>1, <2>2
  <1>6. CASE Rename(c)
    <2>1. /\ object' = Size
          /\ temp' = [temp EXCEPT ![c] = Absent]
          /\ Goto(c, "ok")
          /\ UNCHANGED <<tags, kept, deleter>>
      BY <1>6 DEF Rename, IInv, RenamesComplete
    <2>2. /\ pc' \in [Creators -> Places]
          /\ pc'[c] = "ok"
          /\ \A d \in Creators \ {c} : pc'[d] = pc[d]
      BY <2>1, GotoType DEF IInv
    <2>3. /\ temp' \in [Creators -> -1 .. Size]
          /\ temp'[c] = Absent
          /\ \A d \in Creators \ {c} : temp'[d] = temp[d]
      <3>1. Absent \in -1 .. Size
        BY ConstantsAssumption DEF Absent
      <3> QED
        BY <2>1, <3>1, TempType DEF IInv
    <2>4. TypeOK'
      BY <2>1, <2>2, <2>3, ConstantsAssumption DEF IInv, TypeOK
    <2> QED
      BY <2>1, <2>2, <2>3, <2>4
      DEF IInv, NeverPartial, CreatedIsVisible, RenamesComplete, TempOnlyWhileCreating
  <1>7. CASE RemoveTemp(c)
    <2>1. /\ temp' = [temp EXCEPT ![c] = Absent]
          /\ Goto(c, "removeTags")
          /\ UNCHANGED <<object, tags, kept, deleter>>
      BY <1>7 DEF RemoveTemp
    <2>2. /\ pc' \in [Creators -> Places]
          /\ pc'[c] = "removeTags"
          /\ \A d \in Creators \ {c} : pc'[d] = pc[d]
      BY <2>1, GotoType DEF IInv
    <2>3. /\ temp' \in [Creators -> -1 .. Size]
          /\ temp'[c] = Absent
          /\ \A d \in Creators \ {c} : temp'[d] = temp[d]
      <3>1. Absent \in -1 .. Size
        BY ConstantsAssumption DEF Absent
      <3> QED
        BY <2>1, <3>1, TempType DEF IInv
    <2>4. TypeOK'
      BY <2>1, <2>2, <2>3 DEF IInv, TypeOK
    <2> QED
      BY <2>1, <2>2, <2>3, <2>4
      DEF IInv, NeverPartial, CreatedIsVisible, RenamesComplete, TempOnlyWhileCreating
  <1>8. CASE RemoveTags(c)
    <2>1. /\ Goto(c, "error") /\ UNCHANGED <<object, temp, kept, deleter>>
          /\ tags' \in {"none", "empty", "full"}
          /\ temp[c] = Absent \/ c \in kept'
      BY <1>8 DEF RemoveTags, IInv, TempOnlyWhileCreating
    <2>2. kept \subseteq kept' /\ kept' \subseteq Creators
      BY <2>1 DEF IInv, TypeOK
    <2> QED
      BY <2>1, <2>2, MoveIInv
  <1> QED
    BY <1>1, <1>2, <1>3, <1>4, <1>5, <1>6, <1>7, <1>8 DEF Create

\* Every step preserves the inductive invariant.
LEMMA NextIInv == IInv /\ [Next]_vars => IInv'
  <1> SUFFICES ASSUME IInv, [Next]_vars PROVE IInv'
    OBVIOUS
  <1>1. ASSUME NEW c \in Creators, Create(c) PROVE IInv'
    BY <1>1, CreateIInv
  <1>2. ASSUME NEW c \in Creators, Fail(c) PROVE IInv'
    <2>1. PICK place \in {"error", "removeTemp", "removeTags"} :
             /\ Goto(c, place) /\ UNCHANGED <<object, tags, temp, deleter>>
             /\ place = "removeTemp" \/ temp[c] = Absent \/ c \in kept'
             /\ kept' \in {kept, kept \cup {c}}
      <3>1. CASE pc[c] \in {"stat", "truncateTags", "writeTags", "createTemp", "removeTags"}
        BY <1>2, <3>1 DEF Fail, IInv, TempOnlyWhileCreating
      <3>2. CASE pc[c] \in {"copy", "rename"}
        BY <1>2, <3>2 DEF Fail
      <3>3. CASE pc[c] = "removeTemp"
        BY <1>2, <3>3 DEF Fail
      <3> QED
        BY <1>2, <3>1, <3>2, <3>3 DEF Fail
    <2>2. kept \subseteq kept' /\ kept' \subseteq Creators /\ tags' \in {"none", "empty", "full"}
      BY <2>1 DEF IInv, TypeOK
    <2>3. place \in Places /\ place \notin {"ok", "exists", "rename"}
      BY <2>1 DEF Places, Returned
    <2>4. place \in {"copy", "removeTemp", "killed"} \/ temp[c] = Absent \/ c \in kept'
      BY <2>1
    <2> QED
      BY <2>1, <2>2, <2>3, <2>4, MoveIInv
  <1>3. ASSUME NEW c \in Creators, Crash(c) PROVE IInv'
    BY <1>3, MoveIInv DEF Crash, IInv, TypeOK, Places, Returned
  <1>4. CASE DeleteFile
    <2>1. TypeOK'
      BY <1>4, ConstantsAssumption DEF DeleteFile, IInv, TypeOK, Absent
    <2> QED
      BY <1>4, <2>1 DEF DeleteFile, IInv, NeverPartial, CreatedIsVisible, RenamesComplete,
         TempOnlyWhileCreating
  <1>5. CASE DeleteTags
    BY <1>5 DEF DeleteTags, IInv, TypeOK, NeverPartial, CreatedIsVisible, RenamesComplete,
       TempOnlyWhileCreating
  <1>6. CASE UNCHANGED vars
    BY <1>6 DEF vars, IInv, TypeOK, NeverPartial, CreatedIsVisible, RenamesComplete,
       TempOnlyWhileCreating
  <1> QED
    BY <1>1, <1>2, <1>3, <1>4, <1>5, <1>6 DEF Next

\* The inductive invariant holds in every reachable state.
THEOREM Invariance == Spec => []IInv
  BY InitIInv, NextIInv, PTL DEF Spec

\* Every reachable state of the store is well typed.
THEOREM TypeCorrect == Spec => []TypeOK
  <1>1. IInv => TypeOK
    BY DEF IInv
  <1> QED
    BY <1>1, Invariance, PTL

\* CreateObject is atomic to readers: whatever fails and whoever is killed,
\* the object is absent or complete.
THEOREM NeverPartialHolds == Spec => []NeverPartial
  <1>1. IInv => NeverPartial
    BY DEF IInv
  <1> QED
    BY <1>1, Invariance, PTL

\* Once Registry.createObject has returned a descriptor the object is there.
THEOREM CreatedIsVisibleHolds == Spec => []CreatedIsVisible
  <1>1. IInv => CreatedIsVisible
    BY DEF IInv
  <1> QED
    BY <1>1, Invariance, PTL

\* A creation that returns leaves no temporary file, unless its removal failed.
THEOREM NoLitterHolds == Spec => []NoLitter
  <1>1. IInv => NoLitter
    BY DEF IInv, NoLitter, TempOnlyWhileCreating, Returned
  <1> QED
    BY <1>1, Invariance, PTL

\* Creations are atomic, for any number of creators, of failures and of kills
\* at any call of CreateObject.
THEOREM ObjectsWholeHolds == Spec => []ObjectsWhole
  BY TypeCorrect, NeverPartialHolds, CreatedIsVisibleHolds, NoLitterHolds, PTL DEF ObjectsWhole

-----------------------------------------------------------------------------
(* Tags.                                                                   *)

\* No creation of the object has met an error, and nobody deletes it.  What
\* is over stays over: a creator never leaves these places again.
Undisturbed ==
    /\ deleter = "idle"
    /\ \A c \in Creators : pc[c] \notin {"removeTemp", "removeTags", "error", "killed"}

\* A file of tags that was truncated is about to be written, by whoever came
\* last; and the object is one that a creator has renamed.
TagInv ==
    Undisturbed =>
        /\ tags # "full" /\ (\E c \in Creators : pc[c] \in {"writeTags", "createTemp", "copy", "rename", "ok"})
            => \E d \in Creators : pc[d] = "writeTags"
        /\ object # Absent => \E c \in Creators : pc[c] = "ok"

\* Every step preserves it.
LEMMA NextTagInv == IInv /\ TagInv /\ [Next]_vars => TagInv'
  <1> SUFFICES ASSUME IInv, TagInv, [Next]_vars, Undisturbed' PROVE TagInv'
    BY DEF TagInv
  <1> DEFINE Past(p) == p \in {"writeTags", "createTemp", "copy", "rename", "ok"}
  <1>0. Places = {"stat", "truncateTags", "writeTags", "createTemp", "copy", "rename",
                  "removeTemp", "removeTags", "ok", "exists", "error", "killed"}
    BY DEF Places, Returned
  <1>1. ASSUME NEW c \in Creators, Create(c) \/ Fail(c) \/ Crash(c)
        PROVE  TagInv'
    <2>1. PICK place \in Places :
            /\ pc'[c] = place /\ \A d \in Creators \ {c} : pc'[d] = pc[d]
            /\ deleter' = deleter
            /\ \/ place = "writeTags" /\ pc[c] = "truncateTags" /\ tags' = "empty" /\ object' = object
               \/ place = "createTemp" /\ pc[c] = "writeTags" /\ tags' = "full" /\ object' = object
               \/ place = "ok" /\ tags' = tags /\ pc[c] = "rename"
               \/ place \in {"copy", "rename"} /\ Past(pc[c]) /\ pc[c] \notin {"writeTags", "ok"}
                  /\ tags' = tags /\ object' = object
               \/ place \in {"truncateTags", "exists"} /\ pc[c] = "stat" /\ tags' = tags /\ object' = object
               \/ place \in {"removeTemp", "removeTags", "error", "killed"}
      <3>t. pc \in [Creators -> Places]
        BY DEF IInv, TypeOK
      <3>1. CASE StatObject(c)
        <4>1. PICK p \in {"truncateTags", "exists"} : Goto(c, p)
          BY <3>1 DEF StatObject
        <4> QED
          BY <1>0, <3>t, <3>1, <4>1 DEF StatObject, Goto
      <3>2. CASE TruncateTags(c) \/ WriteTags(c) \/ CreateTemp(c) \/ Rename(c)
        BY <1>0, <3>t, <3>2 DEF TruncateTags, WriteTags, CreateTemp, Rename, Goto
      <3>3. CASE Copy(c)
        <4>1. CASE temp[c] < Size
          BY <1>0, <3>t, <3>3, <4>1 DEF Copy
        <4>2. CASE ~(temp[c] < Size)
          BY <1>0, <3>t, <3>3, <4>2 DEF Copy, Goto
        <4> QED
          BY <4>1, <4>2
      <3>4. CASE RemoveTemp(c) \/ RemoveTags(c) \/ Fail(c) \/ Crash(c)
        BY <1>0, <3>t, <3>4 DEF RemoveTemp, RemoveTags, Fail, Crash, Goto
      <3> QED
        BY <1>1, <3>1, <3>2, <3>3, <3>4 DEF Create
    <2>2. place \notin {"removeTemp", "removeTags", "error", "killed"}
      BY <2>1 DEF Undisturbed
    <2>3. Undisturbed \/ pc[c] \in {"removeTemp", "removeTags", "error", "killed"}
      BY <2>1 DEF Undisturbed
    <2>4. pc[c] \notin {"removeTemp", "removeTags", "error", "killed"}
      BY <2>1, <2>2
    <2>5. tags' # "full" /\ (\E d \in Creators : Past(pc'[d])) => \E d \in Creators : pc'[d] = "writeTags"
      <3>1. CASE place \in {"writeTags", "createTemp"}
        BY <2>1, <3>1
      <3>2. CASE place \notin {"writeTags", "createTemp"}
        <4>1. tags' = tags /\ (Past(place) => Past(pc[c])) /\ pc[c] # "writeTags"
          BY <2>1, <2>2, <3>2
        <4> QED
          BY <2>1, <2>3, <2>4, <4>1 DEF TagInv
      <3> QED
        BY <3>1, <3>2
    <2>6. object' # Absent => \E d \in Creators : pc'[d] = "ok"
      <3>1. CASE place = "ok"
        BY <2>1, <3>1
      <3>2. CASE place # "ok"
        <4>1. object' = object /\ pc[c] # "ok"
          BY <2>1, <2>2, <3>2
        <4> QED
          BY <2>1, <2>3, <2>4, <4>1 DEF TagInv
      <3> QED
        BY <3>1, <3>2
    <2> QED
      BY <2>5, <2>6 DEF TagInv
  <1>2. CASE DeleteFile \/ DeleteTags
    BY <1>2 DEF DeleteFile, DeleteTags, Undisturbed
  <1>3. CASE UNCHANGED vars
    BY <1>3 DEF vars, TagInv, Undisturbed
  <1> QED
    BY <1>1, <1>2, <1>3 DEF Next

\* Creators that overlap leave the object with its tags, in whatever order
\* they truncate and write the file of tags: once all have returned without
\* an error, the queries that filter on tags find the object.
THEOREM TaggedWhenQuietHolds == Spec => []TaggedWhenQuiet
  <1>1. Init => TagInv
    BY DEF Init, TagInv
  <1>2. TagInv => TaggedWhenQuiet
    BY DEF TagInv, TaggedWhenQuiet, Undisturbed
  <1> QED
    BY <1>1, <1>2, NextTagInv, Invariance, PTL DEF Spec
=============================================================================
