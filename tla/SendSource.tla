------------------------------ MODULE SendSource ------------------------------
(***************************************************************************)
(* What is sent (archive.rs): prepare_send_source walks the selection,     *)
(* while other programs change the disk, and plans either a file as it is  *)
(* or an archive of files.                                                 *)
(*                                                                         *)
(* A path is a sequence of nodes, the first of which is an input; its key  *)
(* in the archive is the sequence of their names.  Nodes are numbered from *)
(* the top of the tree down, those of a directory in the order of their    *)
(* names.  Every look at the disk is a step of its own.                    *)
(***************************************************************************)
EXTENDS Integers, FiniteSets, FiniteSetsExt, SequencesExt

CONSTANTS
    Nodes, Parent,    \* the tree; Parent[n] = n at the top
    Name,             \* file names
    Unnameable, Blank,\* nodes whose names are not UTF-8, or are spaces
    Target,           \* where a link to a directory leads
    Size,             \* of each node's file, or its target
    Cap,              \* MAX_MESSAGE_SIZE
    Selections,       \* inputs: sequences of nodes
    Disks,            \* what is on the disk at the start
    MaxChanges        \* bound: changes by other programs

VARIABLES
    pc, inputs,
    todo,        \* the recursion of collect_dir: paths still to be looked at
    entries,     \* the plan: paths, one for each key
    sized,       \* how many of them have had their size read
    kind,        \* of the source
    disk, changes,
    touched      \* nodes changed since the start (history)

diskvars == <<disk, changes, touched>>
vars == <<pc, inputs, todo, entries, sized, kind, diskvars>>

Kinds == {"none", "file", "dir", "filelink", "dirlink", "brokenlink", "other"}

(* fs::metadata follows links. *)
Metadata(n) ==
    CASE disk[n] \in {"file", "filelink"}   -> "file"
      [] disk[n] \in {"dir", "dirlink"}     -> "dir"
      [] disk[n] = "other"                  -> "other"
      [] disk[n] \in {"none", "brokenlink"} -> "error"
Directory(n) == IF disk[n] = "dirlink" THEN Target ELSE n

Key(path) == [i \in DOMAIN path |-> Name[path[i]]]
KeyBefore(p, q) ==
    \E i \in DOMAIN q :
        /\ \A j \in 1 .. i - 1 : j \in DOMAIN p /\ Name[p[j]] = Name[q[j]]
        /\ i \in DOMAIN p => Name[p[i]] < Name[q[i]]
Before(p) == {q \in entries : KeyBefore(q, p)}  \* a BTreeMap is sorted by keys
Sorted(set) ==
    {s \in [1 .. Cardinality(set) -> set] :
        Range(s) = set /\ \A i, j \in DOMAIN s : i < j => s[i] < s[j]}
Look(path, how) == [path |-> path, how |-> how]
Inputs == [i \in DOMAIN inputs |-> Look(<<inputs[i]>>, "metadata")]

Init ==
    /\ pc = "start" /\ inputs \in Selections
    /\ todo = <<>> /\ entries = {} /\ sized = 0 /\ kind = "none"
    /\ disk \in Disks /\ changes = 0 /\ touched = {}

Fails ==
    /\ pc' = "failed"
    /\ todo' = <<>> /\ entries' = {} /\ sized' = 0
    /\ UNCHANGED <<inputs, kind, diskvars>>

TooLarge(paths) == MapThenSumSet(LAMBDA p : Size[Last(p)], paths) > Cap

(* prepare_send_source: one regular file is sent as it is. *)
Begin ==
    /\ pc = "start"
    /\ IF Len(inputs) = 1 /\ Metadata(inputs[1]) = "file"
       THEN IF Size[inputs[1]] = 0 \/ TooLarge({inputs}) \/ inputs[1] \in Blank THEN Fails
            ELSE /\ pc' = "ready" /\ kind' = "File" /\ entries' = {inputs}
                 /\ UNCHANGED <<inputs, todo, sized, diskvars>>
       ELSE IF inputs = <<>> \/ (Len(inputs) = 1 /\ Metadata(inputs[1]) = "error") THEN Fails
       ELSE /\ pc' = "walking" /\ todo' = Inputs
            /\ UNCHANGED <<inputs, entries, sized, kind, diskvars>>

-----------------------------------------------------------------------------
(* plan_entries and collect_dir: the next look *)

Walking == pc = "walking" /\ todo # <<>>
Path == Head(todo).path
At == Last(Path)
Then(looks) ==
    /\ todo' = looks \o Tail(todo)
    /\ UNCHANGED <<pc, inputs, entries, sized, kind, diskvars>>

InsertEntry ==
    IF \E p \in entries : Key(p) = Key(Path) THEN Fails
    ELSE /\ entries' = entries \cup {Path} /\ todo' = Tail(todo)
         /\ UNCHANGED <<pc, inputs, sized, kind, diskvars>>

(* metadata of an input, or of the target of a link in a directory *)
LookAtInput ==
    /\ Walking /\ Head(todo).how = "metadata"
    /\ IF Metadata(At) \in {"error", "other"} \/ At \in Unnameable THEN Fails
       ELSE IF Metadata(At) = "file" THEN InsertEntry
       ELSE Then(<<Look(Path, "read_dir")>>)

Children == {n \in Nodes : Parent[n] = Directory(At) /\ n # Directory(At) /\ disk[n] # "none"}
ReadDir ==
    /\ Walking /\ Head(todo).how = "read_dir"
    /\ IF Metadata(At) # "dir" THEN Fails
       ELSE \E names \in Sorted(Children) :
                Then([i \in DOMAIN names |->
                          Look(Append(Path, names[i]), "symlink_metadata")])

LookAtChild ==
    /\ Walking /\ Head(todo).how = "symlink_metadata"
    /\ CASE At \in Unnameable \/ disk[At] = "none" -> Fails
         [] OTHER ->
            CASE disk[At] = "dir"   -> Then(<<Look(Path, "read_dir")>>)
              [] disk[At] = "file"  -> InsertEntry
              [] disk[At] = "other" -> Then(<<>>)
              [] OTHER              -> Then(<<Look(Path, "follow")>>)

(* A link to a directory is skipped, and so is one that leads nowhere. *)
FollowLink_Directories ==
    /\ Walking /\ Head(todo).how = "follow"
    /\ CASE Metadata(At) = "file" -> InsertEntry
         [] Metadata(At) = "dir"  -> Then(<<Look(Path, "read_dir")>>)
         [] OTHER                 -> Then(<<>>)
FollowLink ==
    /\ Walking /\ Head(todo).how = "follow"
    /\ IF Metadata(At) = "file" THEN InsertEntry ELSE Then(<<>>)

WalkEnds ==
    /\ pc = "walking" /\ todo = <<>>
    /\ IF entries = {} THEN Fails
       ELSE pc' = "sizing" /\ UNCHANGED <<inputs, todo, entries, sized, kind, diskvars>>

(* The estimate, entry by entry, and the limit. *)
ReadSize ==
    /\ pc = "sizing"
    /\ \E p \in entries :
          /\ Cardinality(Before(p)) = sized
          /\ IF Metadata(Last(p)) = "error" THEN Fails
             ELSE /\ sized' = sized + 1
                  /\ UNCHANGED <<pc, inputs, todo, entries, kind, diskvars>>
Plan ==
    /\ pc = "sizing" /\ sized = Cardinality(entries)
    /\ IF TooLarge(entries) THEN Fails
       ELSE /\ pc' = "ready" /\ kind' = "Zip" /\ sized' = 0
            /\ UNCHANGED <<inputs, todo, entries, diskvars>>

Prepare ==
    \/ Begin \/ LookAtInput \/ ReadDir \/ LookAtChild \/ FollowLink
    \/ WalkEnds \/ ReadSize \/ Plan

(* Other programs create, remove and replace; external. *)
OtherPrograms ==
    /\ changes < MaxChanges /\ changes' = changes + 1
    /\ \E n \in Nodes, k \in Kinds \ {"dirlink"} :
          /\ k # disk[n]
          /\ k # "none" => Parent[n] = n \/ disk[Parent[n]] = "dir"
          /\ disk[n] = "dir" => \A c \in Nodes : Parent[c] = n => c = n \/ disk[c] = "none"
          /\ disk' = [disk EXCEPT ![n] = k]
          /\ touched' = touched \cup {n}
    /\ UNCHANGED <<pc, inputs, todo, entries, sized, kind>>

Next == Prepare \/ OtherPrograms

Spec == Init /\ [][Next]_vars
-----------------------------------------------------------------------------
(* Properties *)

(* The files of the selection, all at one moment: the reference.  A path   *)
(* of n nodes leads on to what is in its last node.                        *)
Inside(n) == {c \in Nodes : Parent[c] = Directory(n) /\ c # Directory(n)}
LeadsOn(p) == disk[Last(p)] = "dir" \/ (disk[Last(p)] = "dirlink" /\ Len(p) = 1)
Longer(paths) ==
    UNION {{Append(p, c) : c \in Inside(Last(p))} : p \in {p \in paths : LeadsOn(p)}}
Longest == Cardinality(Nodes) + 1       \* a link is followed at the start only
PathsOf ==
    LET paths[n \in 1 .. Longest] ==
            IF n = 1 THEN {<<i>> : i \in Range(inputs)} ELSE Longer(paths[n - 1])
    IN  paths
Selected ==
    {p \in UNION {PathsOf[n] : n \in 1 .. Longest} : disk[Last(p)] \in {"file", "filelink"}}

Untouched(paths) == {p \in paths : Range(p) \cap touched = {}}

(* Why a selection may be refused on a disk that nobody changes. *)
Refusable ==
    \/ Selected = {} \/ TooLarge(Selected)
    \/ \E p \in Selected : Len(inputs) = 1 /\ Len(p) = 1 /\ Size[Last(p)] = 0
    \/ \E i, j \in DOMAIN inputs : i # j /\ Name[inputs[i]] = Name[inputs[j]]
    \/ \E n \in Nodes \cap (Unnameable \cup Blank) : disk[n] # "none"
    \/ \E n \in Range(inputs) : Metadata(n) \in {"error", "other"}

(***************************************************************************)
(* Whatever other programs do meanwhile: of what they leave alone the plan *)
(* has every file of the selection and nothing else, under keys that are   *)
(* distinct, and links to directories are not followed.  Without them a    *)
(* selection is refused for a reason only.                                 *)
(***************************************************************************)
PlanIsSelection ==
    /\ Untouched(entries) \subseteq Selected
    /\ \A p, q \in entries : Key(p) = Key(q) => p = q
    /\ pc = "ready" => Untouched(Selected) \subseteq entries
    /\ pc = "failed" => touched # {} \/ Refusable

=============================================================================
