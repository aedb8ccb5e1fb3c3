------------------------------- MODULE ZipSource -------------------------------
(***************************************************************************)
(* An archive from its selection to its end: SendSource plans it, the      *)
(* transfer opens it or never does, ZipStream produces it.  write_zip      *)
(* copies the planned files one after the other; a file that has vanished  *)
(* by then, or cannot be read, is InputFails.                              *)
(***************************************************************************)
EXTENDS ZipStream, FiniteSets

CONSTANTS
    Nodes, Parent, Name, Unnameable, Blank, Target, Size, Cap, Selections, Disks,
    MaxChanges

VARIABLES
    pc, inputs, todo, entries, sized, kind, disk, changes, touched,
    open,       \* the source has been opened
    planned,    \* how many entries the opened archive is to have
    copied      \* how many of them write_zip has opened

S == INSTANCE SendSource

(* A finite tree, numbered from the top down; names differ in a directory. *)
ASSUME SourceAssumption ==
    /\ IsFiniteSet(Nodes) /\ Nodes \subseteq Nat
    /\ Parent \in [Nodes -> Nodes] /\ \A n \in Nodes : Parent[n] <= n
    /\ \A m, n \in Nodes :
          Parent[m] = Parent[n] /\ Name[m] = Name[n]
          => m = n \/ Parent[m] = m \/ Parent[n] = n
    /\ Selections \subseteq Seq(Nodes)
    /\ Disks \subseteq [Nodes -> S!Kinds]

sourcevars == <<pc, inputs, todo, entries, sized, kind, disk, changes, touched>>
streamvars == <<wpc, archive, written, input, chunk, result, queue, cpc, taken>>
zipvars == <<open, planned, copied>>
allvars == <<sourcevars, streamvars, zipvars>>

SourceInit ==
    /\ S!Init /\ Init
    /\ archive = CHOOSE n \in ArchiveSizes : TRUE      \* as yet without meaning
    /\ open = FALSE /\ planned = 0 /\ copied = 0

Preparing == ~open /\ S!Prepare /\ UNCHANGED <<streamvars, zipvars>>
OtherPrograms == ~open /\ S!OtherPrograms /\ UNCHANGED <<streamvars, zipvars>>

(* SendSource::open, when the data channel is there.  Of the plan, and of  *)
(* the disk, it matters from now on how many files there are to copy.      *)
Open ==
    /\ pc = "ready" /\ kind = "Zip" /\ ~open
    /\ open' = TRUE /\ planned' = Cardinality(entries)
    /\ inputs' = <<>> /\ entries' = {} /\ disk' = [n \in Nodes |-> "none"]
    /\ changes' = 0 /\ touched' = {}
    /\ archive' \in ArchiveSizes
    /\ UNCHANGED <<pc, todo, sized, kind, wpc, written, input, chunk, result, queue,
                   cpc, taken, copied>>

OpenEntry ==
    /\ open /\ wpc = "writing" /\ result = "none" /\ copied < planned
    /\ copied' = copied + 1
    /\ UNCHANGED <<sourcevars, streamvars, open, planned>>

Writing ==
    /\ open
    /\ \/ copied > 0 /\ Write
       \/ copied = planned /\ Finish
       \/ FillChunk \/ SendChunk \/ SendRefused \/ InputFails \/ ReportError \/ Panic
    /\ UNCHANGED <<sourcevars, zipvars>>
Reading == open /\ (ConsumerStep \/ Cancel) /\ UNCHANGED <<sourcevars, zipvars>>

SourceNext == Preparing \/ OtherPrograms \/ Open \/ OpenEntry \/ Writing \/ Reading

(* The blocking threads run; the transfer reads the stream or drops it.    *)
(* Whether the source is ever opened is up to the handshake.               *)
SourceSpec ==
    /\ SourceInit /\ [][SourceNext]_allvars
    /\ WF_allvars(Preparing) /\ WF_allvars(OpenEntry \/ Writing) /\ WF_allvars(Reading)
-----------------------------------------------------------------------------
(* Properties *)

(* The plan has of the selection all that other programs leave alone, and  *)
(* nothing else (SendSource!PlanIsSelection).                              *)
PlanIsSelection == ~open => S!PlanIsSelection

(***************************************************************************)
(* What the transfer reads is the archive of the plan: full chunks but for *)
(* the last, however the library splits its writes; its end is the end of  *)
(* the archive; and that has every file of the plan: one that has vanished *)
(* since is an error, never left out.                                      *)
(***************************************************************************)
StreamIsSource ==
    OnlyLastShort /\ EofIsWholeArchive /\ (cpc = "eof" => copied = planned)

(***************************************************************************)
(* A selection is planned or refused, and the thread of an archive that is *)
(* opened ends, whatever becomes of the files and of the transfer.         *)
(***************************************************************************)
SourceSettles ==
    /\ <>(pc \in {"ready", "failed"})
    /\ open ~> wpc = "ended"
=============================================================================
