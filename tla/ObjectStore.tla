----------------------------- MODULE ObjectStore -----------------------------
(***************************************************************************)
(* The registry's objects (internal/timemachine/registry.go, createObject) *)
(* in a directory store (internal/object/store.go, dirStore).              *)
(*                                                                         *)
(* An object is named by the hash of its data and tags, so the actors that *)
(* meet at one name write the same bytes: the model has one name.  Actors  *)
(* are goroutines of one or of several timecraft processes, which share    *)
(* the directory: creators, and one deleter.  Each step is one call of the *)
(* file system; any of them may fail, and a process may be killed between  *)
(* two of them.                                                            *)
(***************************************************************************)
EXTENDS Integers, FiniteSets

CONSTANTS
    Creators,   \* the calls of Registry.createObject
    Size,       \* the number of chunks io.Copy writes
    Failing,    \* the creators that may meet an error of the file system
    Crashing,   \* the creators whose process may be killed
    MayDelete   \* whether the object is deleted

ASSUME ConstantsAssumption ==
    /\ IsFiniteSet(Creators)
    /\ Size \in Nat \ {0}
    /\ Failing \subseteq Creators
    /\ Crashing \subseteq Creators
    /\ MayDelete \in BOOLEAN

\* There is no such file.
Absent == -1

VARIABLES
    object,   \* the chunks in the object's file
    tags,     \* the .tags file: "none", "empty" (truncated) or "full"
    temp,     \* the chunks in each creator's temporary file
    pc,       \* where each creator is
    kept,     \* the creators that could not remove their temporary file
    deleter   \* where DeleteObject is

vars == <<object, tags, temp, pc, kept, deleter>>

Returned == {"ok", "exists", "error", "killed"}

Places == {"stat", "truncateTags", "writeTags", "createTemp", "copy", "rename",
           "removeTemp", "removeTags"} \cup Returned

Init ==
    /\ object = Absent
    /\ tags = "none"
    /\ temp = [c \in Creators |-> Absent]
    /\ pc = [c \in Creators |-> "stat"]
    /\ kept = {}
    /\ deleter = "idle"

Goto(c, place) == pc' = [pc EXCEPT ![c] = place]

-----------------------------------------------------------------------------
(* createObject *)

\* The object is only created if StatObject does not find it.
StatObject(c) ==
    /\ pc[c] = "stat"
    /\ Goto(c, IF object = Absent THEN "truncateTags" ELSE "exists")
    /\ UNCHANGED <<object, tags, temp, kept, deleter>>

\* os.WriteFile of the tags truncates the file, then writes it.
TruncateTags(c) ==
    /\ pc[c] = "truncateTags"
    /\ tags' = "empty"
    /\ Goto(c, "writeTags")
    /\ UNCHANGED <<object, temp, kept, deleter>>

\* Mutant: the tags are only written if nobody else has the file.
WriteTagsOnce(c) ==
    /\ pc[c] = "writeTags"
    /\ tags' = IF \E d \in Creators \ {c} : pc[d] = "createTemp" THEN tags ELSE "full"
    /\ Goto(c, "createTemp")
    /\ UNCHANGED <<object, temp, kept, deleter>>

WriteTags(c) ==
    /\ pc[c] = "writeTags"
    /\ tags' = "full"
    /\ Goto(c, "createTemp")
    /\ UNCHANGED <<object, temp, kept, deleter>>

CreateTemp(c) ==
    /\ pc[c] = "createTemp"
    /\ temp' = [temp EXCEPT ![c] = 0]
    /\ Goto(c, "copy")
    /\ UNCHANGED <<object, tags, kept, deleter>>

Copy(c) ==
    /\ pc[c] = "copy"
    /\ IF temp[c] < Size
       THEN temp' = [temp EXCEPT ![c] = @ + 1] /\ UNCHANGED pc
       ELSE Goto(c, "rename") /\ UNCHANGED temp
    /\ UNCHANGED <<object, tags, kept, deleter>>

\* The rename replaces the object of a faster creator.
Rename(c) ==
    /\ pc[c] = "rename"
    /\ object' = temp[c]
    /\ temp' = [temp EXCEPT ![c] = Absent]
    /\ Goto(c, "ok")
    /\ UNCHANGED <<tags, kept, deleter>>

\* An error before the temporary file exists returns at once and leaves what
\* was written of the tags; later ones go through the deferred cleanup, which
\* ignores those that it meets itself.
Fail(c) ==
    /\ c \in Failing
    /\ \/ /\ pc[c] \in {"stat", "truncateTags", "writeTags", "createTemp", "removeTags"}
          /\ Goto(c, "error")
          /\ UNCHANGED kept
       \/ /\ pc[c] \in {"copy", "rename"}
          /\ Goto(c, "removeTemp")
          /\ UNCHANGED kept
       \/ /\ pc[c] = "removeTemp"
          /\ kept' = kept \cup {c}
          /\ Goto(c, "removeTags")
    /\ UNCHANGED <<object, tags, temp, deleter>>

\* Mutant: the cleanup removes the object's file instead of its own.
RemoveTempWrongFile(c) ==
    /\ pc[c] = "removeTemp"
    /\ object' = Absent
    /\ Goto(c, "removeTags")
    /\ UNCHANGED <<tags, temp, kept, deleter>>

RemoveTemp(c) ==
    /\ pc[c] = "removeTemp"
    /\ temp' = [temp EXCEPT ![c] = Absent]
    /\ Goto(c, "removeTags")
    /\ UNCHANGED <<object, tags, kept, deleter>>

RemoveTags(c) ==
    /\ pc[c] = "removeTags"
    /\ tags' = "none"
    /\ Goto(c, "error")
    /\ UNCHANGED <<object, temp, kept, deleter>>

Crash(c) ==
    /\ c \in Crashing
    /\ pc[c] \notin Returned
    /\ Goto(c, "killed")
    /\ UNCHANGED <<object, tags, temp, kept, deleter>>

-----------------------------------------------------------------------------
(* DeleteObject: the file first, then the tags. *)

DeleteFile ==
    /\ MayDelete
    /\ deleter = "idle"
    /\ object' = Absent
    /\ deleter' = "tags"
    /\ UNCHANGED <<tags, temp, pc, kept>>

DeleteTags ==
    /\ deleter = "tags"
    /\ tags' = "none"
    /\ deleter' = "done"
    /\ UNCHANGED <<object, temp, pc, kept>>

-----------------------------------------------------------------------------
Create(c) ==
    \/ StatObject(c)
    \/ TruncateTags(c) \/ WriteTags(c)
    \/ CreateTemp(c) \/ Copy(c) \/ Rename(c)
    \/ RemoveTemp(c) \/ RemoveTags(c)

Next ==
    \/ \E c \in Creators : Create(c)
    \/ \E c \in Creators : Fail(c)
    \/ \E c \in Creators : Crash(c)
    \/ DeleteFile
    \/ DeleteTags

Spec == Init /\ [][Next]_vars

-----------------------------------------------------------------------------
(* Properties. *)

\* The creators that have neither returned nor died.
Running == {c \in Creators : pc[c] \notin Returned}

\* The type invariant; no file has more chunks than the object.
TypeOK ==
    /\ object \in -1 .. Size
    /\ tags \in {"none", "empty", "full"}
    /\ temp \in [Creators -> -1 .. Size]
    /\ pc \in [Creators -> Places]
    /\ kept \subseteq Creators
    /\ deleter \in {"idle", "tags", "done"}

\* "Objects that are being created by a call to CreateObject are not visible
\* until the creation completed", and a creation that fails or dies does not
\* become visible: the object is absent or complete, whoever wrote it.
NeverPartial == object \in {Size, Absent}

\* createObject's promise: when it returns a descriptor the object is there,
\* and no failure of another creator takes it away.
CreatedIsVisible ==
    (\E c \in Creators : pc[c] \in {"ok", "exists"}) /\ deleter = "idle" => object = Size

\* A creator that has returned, with an error or not, leaves no temporary
\* file in the directory; only a killed process does, or one for which the
\* removal of that very file has failed (its error is ignored).
NoLitter ==
    \A c \in Creators \ kept : pc[c] \in Returned \ {"killed"} => temp[c] = Absent

\* Creations are atomic: an object is there as a whole or not at all, stays
\* once its creation has returned, and a failed creation leaves nothing.
ObjectsWhole == TypeOK /\ NeverPartial /\ CreatedIsVisible /\ NoLitter

\* A creator that is about to rename has a complete temporary file, and one
\* that has not created it, or has removed it, has none.
RenamesComplete == \A c \in Creators : pc[c] = "rename" => temp[c] = Size

TempOnlyWhileCreating ==
    \A c \in Creators :
        pc[c] \notin {"copy", "rename", "removeTemp", "killed"} /\ c \notin kept => temp[c] = Absent

\* The inductive invariant.
IInv ==
    /\ TypeOK
    /\ NeverPartial
    /\ CreatedIsVisible
    /\ RenamesComplete
    /\ TempOnlyWhileCreating

\* Once nobody is creating it, an object whose creators met no error has its
\* tags: queries that filter on them (all the List methods) find it.
TaggedWhenQuiet ==
    Running = {} /\ deleter = "idle" /\ object # Absent
      /\ (\A c \in Creators : pc[c] \in {"ok", "exists"}) => tags = "full"

\* "The creation of objects is atomic, the store must be left unchanged if an
\* error occurs that would cause the object to be only partially created": an
\* object that was created keeps its tags when another creation of it fails.
ErrorLeavesTags ==
    [][\A c \in Creators :
        (pc[c] = "removeTags" /\ pc'[c] = "error" /\ object # Absent) => tags' = tags]_vars
=============================================================================
