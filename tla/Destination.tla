------------------------------ MODULE Destination ------------------------------
(***************************************************************************)
(* Where a received file goes: resolve_destination chooses a name, the     *)
(* transfer writes to its part file, a rename puts it in place.  Several   *)
(* receivers, and other programs, use the directory at the same time.      *)
(*                                                                         *)
(* The names are the announced one (0) and its numbered variants, as in    *)
(* `photo (2).jpg`; each has a part file.  A file is known by its identity *)
(* and by who has written to it since it was last truncated.  A transfer   *)
(* is cut where the directory changes and may fail, or be aborted, at each *)
(* of these steps as in ChunkReceiver.                                     *)
(***************************************************************************)
EXTENDS Naturals

CONSTANTS
    Receivers,
    Others,      \* other programs
    NoFile,
    Numbers,     \* bound: the variants are 1 .. Numbers
    MaxOther,    \* bound: steps of other programs
    MaxFiles     \* bound: files that ever exist

Name == 0 .. Numbers
Files == 1 .. MaxFiles
OnConflict == {"prompt", "fail", "overwrite"}

ASSUME DestinationAssumption ==
    /\ Numbers \in Nat \ {0} /\ MaxOther \in Nat
    /\ MaxFiles \in Nat \ {0, 1} /\ NoFile \notin Files

VARIABLES
    pc,
    on_conflict,
    path,         \* the name a receiver has settled on, or tries
    agreed,       \* its user, or --overwrite, wants the file replaced
    there,        \* the files that were there when it settled
    dir, part,    \* the file of every name and of its part file
    writers,      \* who has written to a file
    out,          \* the file a receiver writes to, or has put in place
    met,          \* who wrote at the same time as another of its name (history)
    next_file, others

choice == <<on_conflict, path, agreed, there>>
disk == <<dir, part, writers, out, met, next_file>>
vars == <<pc, choice, disk, others>>

Init ==
    /\ pc = [r \in Receivers |-> "checking"]
    /\ on_conflict \in [Receivers -> OnConflict]
    /\ path = [r \in Receivers |-> 0]
    /\ agreed = [r \in Receivers |-> FALSE]
    /\ there = [r \in Receivers |-> {}]
    /\ dir \in [Name -> {NoFile}] \cup {[n \in Name |-> IF n = 0 THEN 1 ELSE NoFile]}
    /\ part \in [Name -> {NoFile}] \cup {[n \in Name |-> IF n = 0 THEN 2 ELSE NoFile]}
    /\ writers = [f \in Files |-> Others]
    /\ out = [r \in Receivers |-> NoFile]
    /\ met = {}
    /\ next_file = 3 /\ others = 0

Ended == {"saved", "failed", "cancelled", "aborted"}
Goes(r, from, to) == pc[r] = from /\ pc' = [pc EXCEPT ![r] = to]
Exists(n) == dir[n] # NoFile
Present == {dir[n] : n \in Name} \ {NoFile}

-----------------------------------------------------------------------------
(* resolve_destination *)

Settles(r, n) ==
    /\ path' = [path EXCEPT ![r] = n]
    /\ there' = [there EXCEPT ![r] = Present]

CheckPath(r) ==
    /\ \/ /\ ~Exists(0)
          /\ Goes(r, "checking", "creating") /\ Settles(r, 0)
          /\ UNCHANGED agreed
       \/ /\ Exists(0) /\ on_conflict[r] = "overwrite"
          /\ Goes(r, "checking", "creating") /\ Settles(r, 0)
          /\ agreed' = [agreed EXCEPT ![r] = TRUE]
       \/ /\ Exists(0) /\ on_conflict[r] = "fail"
          /\ Goes(r, "checking", "failed")
          /\ UNCHANGED <<path, agreed, there>>
       \/ /\ Exists(0) /\ on_conflict[r] = "prompt"
          /\ Goes(r, "checking", "asking")
          /\ UNCHANGED <<path, agreed, there>>
    /\ UNCHANGED <<on_conflict, disk, others>>

(* prompt_file_exists, then the answer *)
ChooseRename(r) ==
    /\ Goes(r, "asking", "numbering")
    /\ path' = [path EXCEPT ![r] = 1]
    /\ UNCHANGED <<agreed, there>>

Answer(r) ==
    /\ \/ /\ Goes(r, "asking", "creating") /\ Settles(r, 0)
          /\ agreed' = [agreed EXCEPT ![r] = TRUE]
       \/ ChooseRename(r)
       \/ Goes(r, "asking", "cancelled") /\ UNCHANGED <<path, agreed, there>>
    /\ UNCHANGED <<on_conflict, disk, others>>

(* unique_path: one candidate after the other *)
Free_Unchecked(n) == TRUE
Free(n) == ~Exists(n)

TryNumber(r) ==
    /\ \/ /\ Free(path[r])
          /\ Goes(r, "numbering", "creating") /\ Settles(r, path[r])
       \/ /\ ~Free(path[r]) /\ path[r] < Numbers
          /\ Goes(r, "numbering", "numbering")
          /\ path' = [path EXCEPT ![r] = @ + 1] /\ UNCHANGED there
    /\ UNCHANGED <<on_conflict, agreed, disk, others>>

-----------------------------------------------------------------------------
(* run_receiver, as far as the directory sees it *)

Writing == {"receiving", "renaming"}
Fellows(r) == {q \in Receivers \ {r} : pc[q] \in Writing /\ path[q] = path[r]}

(* File::create: the part file may be there, and somebody's. *)
Truncated_Appended(f) == [writers EXCEPT ![f] = @]
Truncated(f) == [writers EXCEPT ![f] = {}]

OpenPart(r) ==
    /\ \/ /\ part[path[r]] # NoFile
          /\ out' = [out EXCEPT ![r] = part[path[r]]]
          /\ writers' = Truncated(part[path[r]])
          /\ UNCHANGED <<part, next_file>>
       \/ /\ part[path[r]] = NoFile /\ next_file \in Files
          /\ out' = [out EXCEPT ![r] = next_file]
          /\ part' = [part EXCEPT ![path[r]] = next_file]
          /\ writers' = [writers EXCEPT ![next_file] = {}]
          /\ next_file' = next_file + 1
    /\ met' = IF Fellows(r) = {} THEN met ELSE met \cup Fellows(r) \cup {r}
    /\ UNCHANGED dir

CreatePart(r) ==
    /\ Goes(r, "creating", "receiving")
    /\ OpenPart(r)
    /\ UNCHANGED <<choice, others>>

(* The part file cannot be created; or it was, and set_len fails: it stays. *)
CreateFails(r) ==
    /\ Goes(r, "creating", "failed")
    /\ UNCHANGED disk \/ OpenPart(r)
    /\ UNCHANGED <<choice, others>>

(* The chunks go to the open file, whatever its name is by now.  An empty  *)
(* file counts as written.                                                 *)
WriteChunks(r) ==
    /\ Goes(r, "receiving", "renaming") \/ Goes(r, "receiving", "receiving")
    /\ writers' = [writers EXCEPT ![out[r]] = @ \cup {r}]
    /\ UNCHANGED <<choice, dir, part, out, met, next_file, others>>

(* The part file is removed by its name, and if that fails it stays. *)
Cleanup(r) == part' \in {part, [part EXCEPT ![path[r]] = NoFile]}

TransferFails(r) ==
    /\ Goes(r, "receiving", "failed")
    /\ Cleanup(r)
    /\ UNCHANGED <<choice, dir, writers, out, met, next_file, others>>

(* It is renamed by its name as well: what has the name now is put in      *)
(* place.                                                                  *)
Rename(r) ==
    /\ part[path[r]] # NoFile
    /\ Goes(r, "renaming", "acking")
    /\ dir' = [dir EXCEPT ![path[r]] = part[path[r]]]
    /\ part' = [part EXCEPT ![path[r]] = NoFile]
    /\ out' = [out EXCEPT ![r] = part[path[r]]]
    /\ UNCHANGED <<choice, writers, met, next_file, others>>

(* flush, sync_all or rename fails, the last also because another receiver *)
(* has removed or renamed the part file: nothing is cleaned up.            *)
RenameFails_GoneIsDone(r) ==
    /\ Goes(r, "renaming", IF part[path[r]] = NoFile THEN "acking" ELSE "failed")
    /\ UNCHANGED <<choice, disk, others>>
RenameFails(r) ==
    /\ Goes(r, "renaming", "failed")
    /\ UNCHANGED <<choice, disk, others>>

(* The ACK is handed over, or refused by a closed channel. *)
Acknowledge(r) ==
    /\ Goes(r, "acking", "saved") \/ Goes(r, "acking", "failed")
    /\ UNCHANGED <<choice, disk, others>>

(* Ctrl-C: the task is dropped wherever it is suspended. *)
Abort(r) ==
    /\ pc[r] \notin Ended
    /\ Goes(r, pc[r], "aborted")
    /\ UNCHANGED <<choice, disk, others>>

-----------------------------------------------------------------------------
(* Other programs create and remove files. *)

OtherCreates(n) ==
    /\ others < MaxOther /\ others' = others + 1
    /\ ~Exists(n) /\ next_file \in Files
    /\ dir' = [dir EXCEPT ![n] = next_file]
    /\ next_file' = next_file + 1
    /\ UNCHANGED <<pc, choice, part, writers, out, met>>

OtherRemoves(n) ==
    /\ others < MaxOther /\ others' = others + 1
    /\ Exists(n)
    /\ dir' = [dir EXCEPT ![n] = NoFile]
    /\ UNCHANGED <<pc, choice, part, writers, out, met, next_file>>

-----------------------------------------------------------------------------
ReceiverStep(r) ==
    \/ CheckPath(r) \/ Answer(r) \/ TryNumber(r)
    \/ CreatePart(r) \/ CreateFails(r) \/ WriteChunks(r) \/ TransferFails(r)
    \/ Rename(r) \/ RenameFails(r) \/ Acknowledge(r) \/ Abort(r)

Next ==
    \/ \E r \in Receivers : ReceiverStep(r)
    \/ \E n \in Name : OtherCreates(n) \/ OtherRemoves(n)

Spec == Init /\ [][Next]_vars

-----------------------------------------------------------------------------
(* Properties *)

(* Types; only the announced name is ever replaced on request. *)
TypeOK ==
    /\ pc \in [Receivers -> {"checking", "asking", "numbering", "creating",
                             "receiving", "renaming", "acking"} \cup Ended]
    /\ on_conflict \in [Receivers -> OnConflict]
    /\ path \in [Receivers -> Name] /\ agreed \in [Receivers -> BOOLEAN]
    /\ there \in [Receivers -> SUBSET Files]
    /\ {dir, part} \subseteq [Name -> Files \cup {NoFile}]
    /\ writers \in [Files -> SUBSET (Receivers \cup Others)]
    /\ out \in [Receivers -> Files \cup {NoFile}]
    /\ met \subseteq Receivers
    /\ next_file \in Nat /\ others \in 0 .. MaxOther
    /\ \A r \in Receivers : agreed[r] => path[r] = 0

Replaces(r) == pc[r] = "renaming" /\ pc'[r] = "acking" /\ Exists(path[r])

(***************************************************************************)
(* A file that was there when a receiver settled on its name is replaced   *)
(* only if its user, or --overwrite, wanted it.                            *)
(***************************************************************************)
ReplacedOnlyIfAsked ==
    [][\A r \in Receivers :
           Replaces(r) /\ dir[path[r]] \in there[r] => agreed[r]]_vars

(***************************************************************************)
(* A receiver beside which nobody wrote under its name puts in place its   *)
(* own file, and nothing else ever gets into it: whatever was left in the  *)
(* part file by a transfer that failed, was aborted or did not clean up,   *)
(* and whatever other programs and receivers of other names do.            *)
(***************************************************************************)
InPlace == {"acking", "saved"}
OwnUnlessShared ==
    \A r \in Receivers : pc[r] \in InPlace /\ r \notin met => writers[out[r]] = {r}

(***************************************************************************)
(* Receivers that do share a part file cannot all believe in it: the file  *)
(* is put in place once, and one of them at most acknowledges it.          *)
(***************************************************************************)
OneAcknowledges ==
    \A q, r \in Receivers :
        q # r /\ {pc[q], pc[r]} \subseteq InPlace => out[q] # out[r]

(***************************************************************************)
(* "If the destination file already exists the receiver fails; pass        *)
(* --overwrite to replace it" (README.md): without the flag a test-mode    *)
(* receiver replaces nothing.                                              *)
(***************************************************************************)
ExistingNeedsOverwrite ==
    [][\A r \in Receivers : Replaces(r) => on_conflict[r] # "fail"]_vars
=============================================================================
