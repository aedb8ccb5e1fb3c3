--------------------------- MODULE DestinationProofs ---------------------------
(***************************************************************************)
(* What a directory that several receivers and other programs share        *)
(* promises each of them: for any number of receivers, names and files.    *)
(***************************************************************************)
EXTENDS Destination, TLAPS

-----------------------------------------------------------------------------
(* The inductive invariant *)

Choosing == {"checking", "asking", "numbering"}
HasOut(r) == out[r] # NoFile

(* A file has one name at a time, or the name of one part file; and what   *)
(* a receiver writes to has, if any, the name of its own part file.        *)
FilesInv ==
    /\ \A r \in Receivers :
           /\ pc[r] \in Writing \cup InPlace => HasOut(r)
           /\ HasOut(r) => /\ pc[r] \in Writing \cup InPlace \cup {"failed", "aborted"}
                           /\ out[r] < next_file
    /\ \A n \in Name : /\ dir[n] # NoFile => dir[n] < next_file
                       /\ part[n] # NoFile => part[n] < next_file
    /\ \A m, n \in Name : part[n] # NoFile =>
           dir[m] # part[n] /\ (part[m] = part[n] => m = n)
    /\ \A r \in Receivers, n \in Name : HasOut(r) /\ part[n] = out[r] => n = path[r]
    /\ \A q, r \in Receivers :
           HasOut(q) /\ HasOut(r) /\ path[q] # path[r] => out[q] # out[r]

(* What was there when a name was chosen has not got that name since, nor  *)
(* can it come: it is no part file.                                        *)
SettledInv ==
    \A r \in Receivers :
        /\ agreed[r] => pc[r] \notin Choosing
        /\ \A f \in there[r] : f < next_file
        /\ pc[r] \in Writing \cup {"creating"} /\ ~agreed[r] =>
               /\ dir[path[r]] \notin there[r]
               /\ \A n \in Name : part[n] \notin there[r]

(* Who writes alone under its name owns the part file, and what it puts in *)
(* place: nobody else has it open.                                         *)
OwnInv ==
    \A r \in Receivers : pc[r] \in Writing \cup InPlace /\ r \notin met =>
        /\ writers[out[r]] \subseteq {r}
        /\ pc[r] # "receiving" => r \in writers[out[r]]
        /\ pc[r] \in Writing => part[path[r]] = out[r] /\ Fellows(r) = {}
        /\ \A q \in Receivers \ {r} : pc[q] \in Writing => out[q] # out[r]

(* What is in place is no part file any more, and in place for one.        *)
OnceInv ==
    \A r \in Receivers : pc[r] \in InPlace =>
        /\ \A n \in Name : part[n] # out[r]
        /\ \A q \in Receivers \ {r} : pc[q] \in InPlace => out[q] # out[r]

IInv == TypeOK /\ FilesInv /\ SettledInv /\ OwnInv /\ OnceInv

-----------------------------------------------------------------------------
(* At the start nobody has a file, and there is one leftover at most.      *)
LEMMA InitEstablishes == Init => IInv
<1> SUFFICES ASSUME Init PROVE IInv
  OBVIOUS
<1>1. /\ next_file = 3 /\ 1 \in Files /\ 2 \in Files /\ 0 \in Name
      /\ \A r \in Receivers : /\ pc[r] = "checking" /\ out[r] = NoFile /\ ~agreed[r]
                              /\ there[r] = {} /\ path[r] = 0
  BY DestinationAssumption DEF Init, Files, Name
<1>2. /\ \A n \in Name : dir[n] \in {NoFile, 1} /\ part[n] \in {NoFile, 2}
      /\ \A n \in Name : part[n] # NoFile => n = 0
      /\ {dir, part} \subseteq [Name -> Files \cup {NoFile}]
  BY <1>1 DEF Init
<1>3. NoFile # 1 /\ NoFile # 2
  BY <1>1, DestinationAssumption
<1>4. TypeOK
  BY <1>1, <1>2, DestinationAssumption DEF Init, TypeOK
<1>5. FilesInv
  BY <1>1, <1>2, <1>3 DEF FilesInv, HasOut, Writing, InPlace
<1>6. SettledInv /\ OwnInv /\ OnceInv
  BY <1>1 DEF SettledInv, OwnInv, OnceInv, Writing, InPlace
<1> QED BY <1>4, <1>5, <1>6 DEF IInv

(* Choosing a name touches no file.                                        *)
LEMMA ChoosingTouchesNothing ==
    ASSUME IInv, NEW r \in Receivers, NEW to, pc[r] \in Choosing,
           to \in Choosing \cup {"creating", "failed", "cancelled"},
           pc' = [pc EXCEPT ![r] = to], UNCHANGED <<disk, others>>,
           DOMAIN path' = Receivers,
           \A q \in Receivers : q # r => path'[q] = path[q]
    PROVE  FilesInv' /\ OwnInv' /\ OnceInv'
<1>1. UNCHANGED <<dir, part, writers, out, met, next_file>>
  BY DEF disk
<1>2. \A q \in Receivers : q # r => pc'[q] = pc[q] /\ path'[q] = path[q]
  BY DEF IInv, TypeOK
<1>3. pc'[r] = to /\ ~HasOut(r)
  BY DEF IInv, TypeOK, FilesInv, Choosing, Writing, InPlace
<1>4. \A q \in Receivers : HasOut(q)' = HasOut(q) /\ (HasOut(q) => q # r)
  BY <1>1, <1>3 DEF HasOut
<1>5. pc'[r] \notin Writing \cup InPlace /\ pc[r] \notin Writing \cup InPlace
  BY <1>3 DEF Writing, InPlace, Choosing
<1>6. FilesInv'
  <2>1. \A q \in Receivers :
            /\ pc'[q] \in Writing \cup InPlace => HasOut(q)'
            /\ HasOut(q)' => /\ pc'[q] \in Writing \cup InPlace \cup {"failed", "aborted"}
                             /\ out'[q] < next_file'
    BY <1>1, <1>2, <1>4, <1>5 DEF IInv, FilesInv
  <2>2. \A q \in Receivers, n \in Name : HasOut(q)' /\ part'[n] = out'[q] => n = path'[q]
    BY <1>1, <1>2, <1>4 DEF IInv, FilesInv
  <2>3. \A p, q \in Receivers :
            HasOut(p)' /\ HasOut(q)' /\ path'[p] # path'[q] => out'[p] # out'[q]
    BY <1>1, <1>2, <1>4 DEF IInv, FilesInv
  <2> QED BY <1>1, <2>1, <2>2, <2>3 DEF IInv, FilesInv
<1>7. OwnInv'
  <2>1. \A q \in Receivers : q # r => Fellows(q)' = Fellows(q)
    BY <1>2, <1>5 DEF Fellows
  <2> QED BY <1>1, <1>2, <1>5, <2>1 DEF IInv, OwnInv
<1>8. OnceInv'
  BY <1>1, <1>2, <1>5 DEF IInv, OnceInv
<1> QED BY <1>6, <1>7, <1>8

(* Settling on a free name, or on one the user agreed to replace: nothing  *)
(* that is there now has it.                                               *)
LEMMA Settling ==
    ASSUME IInv, NEW r \in Receivers, NEW n \in Name, pc[r] \in Choosing,
           pc' = [pc EXCEPT ![r] = "creating"], Settles(r, n),
           \/ ~Exists(n) /\ agreed' = agreed
           \/ n = 0 /\ agreed' = [agreed EXCEPT ![r] = TRUE],
           UNCHANGED <<on_conflict, disk, others>>
    PROVE  IInv'
<1>1. FilesInv' /\ OwnInv' /\ OnceInv'
  BY ChoosingTouchesNothing DEF Settles, IInv, TypeOK
<1>2. Present \subseteq Files
  BY DEF Present, IInv, TypeOK
<1>3. ~agreed[r]
  BY DEF IInv, SettledInv
<1>4. TypeOK'
  <2>1. UNCHANGED <<dir, part, writers, out, met, next_file, others, on_conflict>>
    BY DEF disk
  <2>2. /\ path' \in [Receivers -> Name] /\ there' \in [Receivers -> SUBSET Files]
        /\ agreed' \in [Receivers -> BOOLEAN]
    BY <1>2 DEF Settles, IInv, TypeOK
  <2>3. \A q \in Receivers : agreed'[q] => path'[q] = 0
    BY <1>3 DEF Settles, IInv, TypeOK
  <2>4. pc' \in [Receivers -> {"checking", "asking", "numbering", "creating",
                               "receiving", "renaming", "acking"} \cup Ended]
    BY DEF IInv, TypeOK
  <2> QED BY <2>1, <2>2, <2>3, <2>4 DEF IInv, TypeOK
<1>5. SettledInv'
  <2>1. ASSUME NEW q \in Receivers, q # r
        PROVE  pc'[q] = pc[q] /\ agreed'[q] = agreed[q] /\ there'[q] = there[q]
               /\ path'[q] = path[q]
    BY <2>1 DEF Settles, IInv, TypeOK
  <2>2. /\ pc'[r] = "creating" /\ path'[r] = n /\ there'[r] = Present
        /\ UNCHANGED <<dir, part, next_file>>
    BY DEF Settles, IInv, TypeOK, disk
  <2>3. \A f \in Present : f < next_file
    BY DEF Present, IInv, FilesInv
  <2>4. ~agreed'[r] => dir[n] \notin Present
    <3>1. SUFFICES ASSUME ~Exists(n) PROVE dir[n] \notin Present
      BY DEF IInv, TypeOK
    <3> QED BY <3>1 DEF Exists, Present
  <2>5. \A k \in Name : part[k] \notin Present
    BY DEF Present, IInv, FilesInv
  <2> QED BY <2>1, <2>2, <2>3, <2>4, <2>5 DEF IInv, SettledInv, Choosing
<1> QED BY <1>1, <1>4, <1>5 DEF IInv

(* A step that leaves the choice open, or gives up. *)
LEMMA Undecided ==
    ASSUME IInv, NEW r \in Receivers, NEW to, pc[r] \in Choosing,
           to \in Choosing \cup {"failed", "cancelled"},
           pc' = [pc EXCEPT ![r] = to],
           path' \in [Receivers -> Name],
           \A q \in Receivers : q # r => path'[q] = path[q],
           UNCHANGED <<on_conflict, agreed, there, disk, others>>
    PROVE  IInv'
<1>1. FilesInv' /\ OwnInv' /\ OnceInv'
  BY ChoosingTouchesNothing
<1>2. ~agreed[r]
  BY DEF IInv, SettledInv
<1>3. TypeOK'
  <2>1. UNCHANGED <<dir, part, writers, out, met, next_file, others, on_conflict,
                  agreed, there>>
    BY DEF disk
  <2>2. \A q \in Receivers : agreed'[q] => path'[q] = 0
    BY <1>2 DEF IInv, TypeOK
  <2>3. pc' \in [Receivers -> {"checking", "asking", "numbering", "creating",
                               "receiving", "renaming", "acking"} \cup Ended]
    BY DEF IInv, TypeOK, Choosing, Ended
  <2> QED BY <2>1, <2>2, <2>3 DEF IInv, TypeOK
<1>4. SettledInv'
  <2>1. UNCHANGED <<dir, part, next_file, agreed, there>>
    BY DEF disk
  <2>2. ASSUME NEW q \in Receivers, q # r PROVE pc'[q] = pc[q] /\ path'[q] = path[q]
    BY <2>2 DEF IInv, TypeOK
  <2>3. pc'[r] \notin Writing \cup {"creating"}
    BY DEF IInv, TypeOK, Choosing, Writing
  <2> QED BY <1>2, <2>1, <2>2, <2>3 DEF IInv, SettledInv
<1> QED BY <1>1, <1>3, <1>4 DEF IInv

(* resolve_destination and unique_path. *)
LEMMA ChoiceStep ==
    ASSUME IInv, NEW r \in Receivers, CheckPath(r) \/ Answer(r) \/ TryNumber(r)
    PROVE  IInv'
<1> USE DEF Goes, Choosing
<1>1. 0 \in Name /\ 1 \in Name /\ path \in [Receivers -> Name]
  BY DestinationAssumption DEF Name, IInv, TypeOK
<1>2. CASE CheckPath(r)
  <2>1. CASE ~Exists(0) /\ Goes(r, "checking", "creating") /\ Settles(r, 0)
             /\ UNCHANGED agreed
    BY <1>1, <1>2, <2>1, Settling DEF CheckPath
  <2>2. CASE Goes(r, "checking", "creating") /\ Settles(r, 0)
             /\ agreed' = [agreed EXCEPT ![r] = TRUE]
    BY <1>1, <1>2, <2>2, Settling DEF CheckPath
  <2>3. CASE (Goes(r, "checking", "failed") \/ Goes(r, "checking", "asking"))
             /\ UNCHANGED <<path, agreed, there>>
    BY <1>1, <1>2, <2>3, Undecided DEF CheckPath
  <2> QED BY <1>2, <2>1, <2>2, <2>3 DEF CheckPath
<1>3. CASE Answer(r)
  <2>1. CASE Goes(r, "asking", "creating") /\ Settles(r, 0)
             /\ agreed' = [agreed EXCEPT ![r] = TRUE]
    BY <1>1, <1>3, <2>1, Settling DEF Answer
  <2>2. CASE \/ ChooseRename(r)
             \/ Goes(r, "asking", "cancelled") /\ UNCHANGED <<path, agreed, there>>
    <3>1. path' \in [Receivers -> Name] /\ \A q \in Receivers : q # r => path'[q] = path[q]
      BY <1>1, <2>2 DEF ChooseRename
    <3> QED BY <1>3, <2>2, <3>1, Undecided DEF Answer, ChooseRename
  <2> QED BY <1>3, <2>1, <2>2 DEF Answer
<1>4. CASE TryNumber(r)
  <2>1. CASE Free(path[r]) /\ Goes(r, "numbering", "creating") /\ Settles(r, path[r])
    BY <1>1, <1>4, <2>1, Settling DEF TryNumber, Free
  <2>2. CASE /\ path[r] < Numbers /\ Goes(r, "numbering", "numbering")
             /\ path' = [path EXCEPT ![r] = @ + 1] /\ UNCHANGED there
    <3>1. path[r] + 1 \in Name
      BY <1>1, <2>2, DestinationAssumption DEF Name
    <3>2. path' \in [Receivers -> Name] /\ \A q \in Receivers : q # r => path'[q] = path[q]
      BY <1>1, <2>2, <3>1
    <3> QED BY <1>4, <2>2, <3>2, Undecided DEF TryNumber
  <2> QED BY <1>4, <2>1, <2>2 DEF TryNumber
<1> QED BY <1>2, <1>3, <1>4

(* Types of what the steps of a transfer change. *)
LEMMA Typed ==
    ASSUME IInv, UNCHANGED <<choice, others>>,
           pc' \in [Receivers -> {"checking", "asking", "numbering", "creating",
                                  "receiving", "renaming", "acking"} \cup Ended],
           {dir', part'} \subseteq [Name -> Files \cup {NoFile}],
           writers' \in [Files -> SUBSET (Receivers \cup Others)],
           out' \in [Receivers -> Files \cup {NoFile}], met' \subseteq Receivers,
           next_file' \in Nat
    PROVE  TypeOK'
BY DEF IInv, TypeOK, choice

(* A transfer that ends with its part file, if it has one, as it is; or    *)
(* one that has been acknowledged.                                         *)
LEMMA QuitStep ==
    ASSUME IInv, NEW r \in Receivers, NEW to,
           to \in {"failed", "aborted"} \/ (pc[r] = "acking" /\ to = "saved"),
           pc' = [pc EXCEPT ![r] = to], UNCHANGED <<choice, disk, others>>
    PROVE  IInv'
<1>1. UNCHANGED <<on_conflict, path, agreed, there, dir, part, writers, out, met, next_file,
                  others>>
  BY DEF choice, disk
<1>2. /\ pc'[r] = to /\ pc' \in [Receivers -> {"checking", "asking", "numbering", "creating",
                                 "receiving", "renaming", "acking"} \cup Ended]
      /\ \A q \in Receivers : q # r => pc'[q] = pc[q]
  BY DEF IInv, TypeOK, Ended
<1>3. \A q \in Receivers : /\ pc'[q] \in Writing => pc'[q] = pc[q]
                           /\ pc'[q] \in InPlace => pc[q] \in InPlace
                           /\ pc'[q] \in Choosing \cup {"creating"} => pc'[q] = pc[q]
                           /\ HasOut(q)' = HasOut(q)
  BY <1>1, <1>2 DEF Writing, InPlace, Choosing, HasOut
<1>4. TypeOK'
  BY <1>1, <1>2 DEF IInv, TypeOK
<1>5. FilesInv'
  <2>1. \A q \in Receivers :
            /\ pc'[q] \in Writing \cup InPlace => HasOut(q)'
            /\ HasOut(q)' => /\ pc'[q] \in Writing \cup InPlace \cup {"failed", "aborted"}
                             /\ out'[q] < next_file'
    BY <1>1, <1>2, <1>3 DEF IInv, FilesInv, InPlace
  <2> QED BY <1>1, <1>3, <2>1 DEF IInv, FilesInv
<1>6. SettledInv'
  <2>1. \A q \in Receivers : pc'[q] \in Choosing => pc[q] \in Choosing
    BY <1>3
  <2>2. \A q \in Receivers : pc'[q] \in Writing \cup {"creating"} => pc'[q] = pc[q]
    BY <1>3
  <2> QED BY <1>1, <2>1, <2>2 DEF IInv, SettledInv
<1>7. OwnInv'
  <2>1. \A q \in Receivers : Fellows(q)' \subseteq Fellows(q)
    BY <1>1, <1>3 DEF Fellows
  <2>2. \A q \in Receivers : pc'[q] \in Writing \cup InPlace =>
            /\ pc[q] \in Writing \cup InPlace
            /\ pc'[q] # "receiving" => pc[q] # "receiving"
    BY <1>3 DEF Writing, InPlace
  <2> QED BY <1>1, <1>3, <2>1, <2>2 DEF IInv, OwnInv
<1>8. OnceInv'
  BY <1>1, <1>3 DEF IInv, OnceInv
<1> QED BY <1>4, <1>5, <1>6, <1>7, <1>8 DEF IInv

(* The file a part file is opened as: the leftover, truncated, or a new    *)
(* one; nobody of another name writes to it.                               *)
LEMMA CreateStep ==
    ASSUME IInv, NEW r \in Receivers, NEW to \in {"receiving", "failed"},
           Goes(r, "creating", to), OpenPart(r), UNCHANGED <<choice, others>>
    PROVE  IInv'
<1> DEFINE p == path[r]
           f == out'[r]
<1>1. /\ pc[r] = "creating" /\ pc' = [pc EXCEPT ![r] = to]
      /\ UNCHANGED <<on_conflict, path, agreed, there, dir, others>>
      /\ p \in Name /\ out[r] = NoFile
      /\ met' = IF Fellows(r) = {} THEN met ELSE met \cup Fellows(r) \cup {r}
  BY DEF OpenPart, Goes, choice, IInv, TypeOK, FilesInv, HasOut, Writing, InPlace
<1>2. /\ f \in Files /\ out' = [out EXCEPT ![r] = f]
      /\ writers' = [writers EXCEPT ![f] = {}]
      /\ \/ f = part[p] /\ UNCHANGED <<part, next_file>>
         \/ /\ f = next_file /\ part' = [part EXCEPT ![p] = f] /\ part[p] = NoFile
            /\ next_file' = next_file + 1
  <2>1. CASE part[p] # NoFile
    BY <1>1, <2>1 DEF OpenPart, Truncated, IInv, TypeOK
  <2>2. CASE part[p] = NoFile
    BY <1>1, <2>2 DEF OpenPart, IInv, TypeOK
  <2> QED BY <2>1, <2>2
<1>3. /\ f # NoFile /\ f < next_file' /\ next_file' >= next_file /\ next_file' \in Nat
      /\ next_file \in Nat /\ part'[p] = f
      /\ \A n \in Name : n # p => part'[n] = part[n]
  BY <1>1, <1>2, DestinationAssumption DEF IInv, TypeOK, FilesInv, Files
<1>4. /\ \A n \in Name : dir[n] # f /\ (n # p => part[n] # f)
      /\ \A q \in Receivers : HasOut(q) /\ path[q] # p => out[q] # f
  <2>1. CASE f = part[p]
    BY <1>1, <1>3, <2>1 DEF IInv, FilesInv
  <2>2. CASE f = next_file
    <3>1. ~(f < f)
      BY <1>2, DestinationAssumption DEF Files
    <3> QED BY <1>3, <2>2, <3>1 DEF IInv, FilesInv, HasOut
  <2> QED BY <1>2, <2>1, <2>2
<1> HIDE DEF f
<1>5. \A q \in Receivers : q # r => pc'[q] = pc[q] /\ out'[q] = out[q] /\ HasOut(q)' = HasOut(q)
  BY <1>1, <1>2 DEF IInv, TypeOK, HasOut
<1>6. pc'[r] = to /\ HasOut(r)' /\ ~HasOut(r)
  BY <1>1, <1>2, <1>3 DEF IInv, TypeOK, HasOut, f
<1>7. /\ out' \in [Receivers -> Files \cup {NoFile}] /\ out'[r] = f
      /\ part' \in [Name -> Files \cup {NoFile}]
      /\ writers' \in [Files -> SUBSET (Receivers \cup Others)]
      /\ pc' \in [Receivers -> {"checking", "asking", "numbering", "creating",
                                "receiving", "renaming", "acking"} \cup Ended]
      /\ met' \subseteq Receivers
  BY <1>1, <1>2 DEF IInv, TypeOK, Fellows, Ended
<1>8. TypeOK'
  BY <1>1, <1>3, <1>7, Typed DEF choice, IInv, TypeOK
<1>9. FilesInv'
  <2>1. \A q \in Receivers :
            /\ pc'[q] \in Writing \cup InPlace => HasOut(q)'
            /\ HasOut(q)' => /\ pc'[q] \in Writing \cup InPlace \cup {"failed", "aborted"}
                             /\ out'[q] < next_file'
    <3>1. ASSUME NEW q \in Receivers, HasOut(q) PROVE out[q] < next_file'
      <4>1. out[q] < next_file /\ out[q] \in Nat
        BY <3>1 DEF IInv, TypeOK, FilesInv, HasOut, Files
      <4> QED BY <1>3, <4>1
    <3> QED BY <1>3, <1>5, <1>6, <1>7, <3>1 DEF IInv, FilesInv, Writing
  <2>2. \A n \in Name : /\ dir'[n] # NoFile => dir'[n] < next_file'
                        /\ part'[n] # NoFile => part'[n] < next_file'
    <3>1. ASSUME NEW n \in Name
          PROVE  /\ dir[n] # NoFile => dir[n] < next_file'
                 /\ part[n] # NoFile => part[n] < next_file'
      <4>1. /\ dir[n] # NoFile => dir[n] < next_file /\ dir[n] \in Nat
            /\ part[n] # NoFile => part[n] < next_file /\ part[n] \in Nat
        BY DEF IInv, TypeOK, FilesInv, Files
      <4> QED BY <1>3, <4>1
    <3> QED BY <1>1, <1>3, <3>1
  <2>3. \A m, n \in Name : part'[n] # NoFile =>
            dir'[m] # part'[n] /\ (part'[m] = part'[n] => m = n)
    BY <1>1, <1>3, <1>4 DEF IInv, FilesInv
  <2>4. \A q \in Receivers, n \in Name : HasOut(q)' /\ part'[n] = out'[q] => n = path'[q]
    BY <1>1, <1>3, <1>4, <1>5, <1>7 DEF IInv, FilesInv
  <2>5. \A q, s \in Receivers :
            HasOut(q)' /\ HasOut(s)' /\ path'[q] # path'[s] => out'[q] # out'[s]
    BY <1>1, <1>4, <1>5, <1>7 DEF IInv, FilesInv
  <2> QED BY <2>1, <2>2, <2>3, <2>4, <2>5 DEF FilesInv
<1>10. SettledInv'
  <2>1. ASSUME NEW q \in Receivers, NEW g \in there[q] PROVE g < next_file'
    <3>1. g < next_file /\ g \in Nat
      BY DEF IInv, TypeOK, SettledInv, Files
    <3> QED BY <1>3, <3>1
  <2>2. ASSUME NEW q \in Receivers, \A n \in Name : part[n] \notin there[q]
        PROVE  \A n \in Name : part'[n] \notin there[q]
    <3>1. f \notin there[q]
      <4>1. CASE f = next_file
        <5>1. ~(f < f)
          BY <1>2, DestinationAssumption DEF Files
        <5> QED BY <4>1, <5>1 DEF IInv, SettledInv
      <4>2. CASE f = part[p]
        BY <1>1, <2>2, <4>2
      <4> QED BY <1>2, <4>1, <4>2 DEF f
    <3> QED BY <1>3, <2>2, <3>1
  <2>3. \A q \in Receivers : /\ pc'[q] \in Choosing => pc[q] \in Choosing
                             /\ pc'[q] \in Writing \cup {"creating"} =>
                                    pc[q] \in Writing \cup {"creating"}
    BY <1>1, <1>5, <1>6 DEF Choosing, Writing
  <2> QED BY <1>1, <2>1, <2>2, <2>3 DEF IInv, SettledInv
<1>11. \A q \in Receivers : pc[q] \in InPlace => out[q] # f
  <2>1. \A q \in Receivers : pc[q] \in InPlace => out[q] # part[p] /\ out[q] < next_file
    BY <1>1 DEF IInv, FilesInv, OnceInv
  <2>2. ~(next_file < next_file)
    BY <1>3
  <2> QED BY <1>2, <2>1, <2>2 DEF f
<1>12. to \notin InPlace /\ \A q \in Receivers : pc'[q] \in InPlace => q # r /\ pc[q] \in InPlace
  BY <1>5, <1>6 DEF InPlace
<1>13. ASSUME NEW q \in Receivers, q # r, q \notin met', pc[q] \in Writing
       PROVE  path[q] # p
  BY <1>1, <1>13 DEF Fellows
<1>14. OwnInv'
  <2> SUFFICES ASSUME NEW q \in Receivers, pc'[q] \in Writing \cup InPlace, q \notin met'
               PROVE  /\ writers'[out'[q]] \subseteq {q}
                      /\ pc'[q] # "receiving" => q \in writers'[out'[q]]
                      /\ pc'[q] \in Writing => part'[path[q]] = out'[q] /\ Fellows(q)' = {}
                      /\ \A s \in Receivers \ {q} : pc'[s] \in Writing => out'[s] # out'[q]
    BY <1>1 DEF OwnInv
  <2>1. CASE q = r
    <3>1. writers'[f] = {}
      BY <1>2 DEF IInv, TypeOK, f
    <3>2. pc'[r] = "receiving" /\ Fellows(r) = {}
      BY <1>1, <1>6, <2>1 DEF Writing, InPlace
    <3>3. Fellows(r)' = {}
      BY <1>1, <1>5, <3>2 DEF Fellows
    <3>4. ASSUME NEW s \in Receivers \ {r}, pc'[s] \in Writing PROVE out'[s] # f
      BY <1>4, <1>5, <3>2, <3>4 DEF Fellows, IInv, FilesInv
    <3> QED BY <1>3, <1>7, <2>1, <3>1, <3>2, <3>3, <3>4
  <2>2. CASE q # r
    <3>1. /\ pc'[q] = pc[q] /\ out'[q] = out[q] /\ path[q] \in Name /\ q \notin met
          /\ pc[q] \in Writing \cup InPlace
      BY <1>1, <1>5, <2>2 DEF IInv, TypeOK
    <3>2. out[q] # f /\ out[q] \in Files
      BY <1>4, <1>11, <1>13, <2>2, <3>1 DEF IInv, TypeOK, FilesInv, HasOut
    <3>3. writers'[out[q]] = writers[out[q]]
      BY <1>2, <3>2 DEF IInv, TypeOK, f
    <3>4. pc[q] \in Writing => part'[path[q]] = out[q]
      BY <1>3, <1>13, <2>2, <3>1 DEF IInv, OwnInv
    <3>5. pc[q] \in Writing => Fellows(q)' = {}
      <4>1. ASSUME pc[q] \in Writing PROVE path[q] # p /\ Fellows(q) = {}
        BY <1>13, <2>2, <3>1, <4>1 DEF IInv, OwnInv
      <4> QED BY <1>1, <1>5, <4>1 DEF Fellows
    <3>6. ASSUME NEW s \in Receivers \ {q}, pc'[s] \in Writing PROVE out'[s] # out[q]
      BY <1>5, <1>7, <3>1, <3>2, <3>6 DEF IInv, OwnInv
    <3> QED BY <3>1, <3>3, <3>4, <3>5, <3>6 DEF IInv, OwnInv
  <2> QED BY <2>1, <2>2
<1>15. OnceInv'
  <2>1. ASSUME NEW q \in Receivers, pc'[q] \in InPlace, NEW n \in Name PROVE part'[n] # out'[q]
    BY <1>3, <1>5, <1>11, <1>12, <2>1 DEF IInv, OnceInv
  <2>2. ASSUME NEW q \in Receivers, pc'[q] \in InPlace,
               NEW s \in Receivers \ {q}, pc'[s] \in InPlace
        PROVE  out'[s] # out'[q]
    BY <1>5, <1>12, <2>2 DEF IInv, OnceInv
  <2> QED BY <2>1, <2>2 DEF OnceInv
<1> QED BY <1>8, <1>9, <1>10, <1>14, <1>15 DEF IInv

(* Chunks are written to the receiver's own file, or to one it shares.     *)
LEMMA WriteStep == ASSUME IInv, NEW r \in Receivers, WriteChunks(r) PROVE IInv'
<1> DEFINE f == out[r]
<1>1. /\ pc[r] = "receiving"
      /\ pc' = [pc EXCEPT ![r] = "renaming"] \/ pc' = [pc EXCEPT ![r] = "receiving"]
      /\ writers' = [writers EXCEPT ![f] = @ \cup {r}]
      /\ UNCHANGED <<on_conflict, path, agreed, there, dir, part, out, met, next_file,
                   others>>
  BY DEF WriteChunks, Goes, choice
<1>2. f \in Files /\ HasOut(r)
  BY <1>1 DEF IInv, TypeOK, FilesInv, HasOut, Writing
<1> HIDE DEF f
<1>3. pc'[r] \in Writing /\ pc[r] \in Writing
      /\ \A q \in Receivers : q # r => pc'[q] = pc[q]
  BY <1>1 DEF IInv, TypeOK, Writing
<1>4. \A q \in Receivers : HasOut(q)' = HasOut(q) /\ Fellows(q)' = Fellows(q)
  BY <1>1, <1>3 DEF HasOut, Fellows
<1>5. TypeOK'
  <2>1. writers' \in [Files -> SUBSET (Receivers \cup Others)]
    BY <1>1, <1>2 DEF IInv, TypeOK
  <2>2. pc' \in [Receivers -> {"checking", "asking", "numbering", "creating",
                               "receiving", "renaming", "acking"} \cup Ended]
    BY <1>1 DEF IInv, TypeOK
  <2> QED BY <1>1, <2>1, <2>2 DEF IInv, TypeOK
<1>6. FilesInv'
  BY <1>1, <1>2, <1>3, <1>4 DEF IInv, FilesInv
<1>7. SettledInv'
  BY <1>1, <1>3 DEF IInv, SettledInv, Choosing, Writing
<1>8. OwnInv'
  <2> SUFFICES ASSUME NEW q \in Receivers, pc'[q] \in Writing \cup InPlace, q \notin met
               PROVE  /\ writers'[out[q]] \subseteq {q}
                      /\ pc'[q] # "receiving" => q \in writers'[out[q]]
                      /\ pc'[q] \in Writing => part[path[q]] = out[q] /\ Fellows(q) = {}
                      /\ \A s \in Receivers \ {q} : pc'[s] \in Writing => out[s] # out[q]
    BY <1>1, <1>4 DEF OwnInv
  <2>0. \A s \in Receivers \ {q} : pc'[s] \in Writing => out[s] # out[q]
    BY <1>3 DEF IInv, OwnInv
  <2>1. CASE q = r
    <3>1. writers'[out[r]] = writers[out[r]] \cup {r}
      BY <1>1, <1>2 DEF IInv, TypeOK, f
    <3> QED BY <1>3, <2>0, <2>1, <3>1 DEF IInv, OwnInv
  <2>2. CASE q # r
    <3>1. HasOut(q) /\ pc[q] = pc'[q]
      BY <1>3, <2>2 DEF IInv, FilesInv
    <3>2. out[q] # f /\ out[q] \in Files
      BY <1>3, <2>2, <3>1 DEF IInv, TypeOK, OwnInv, HasOut, f
    <3>3. writers'[out[q]] = writers[out[q]]
      BY <1>1, <3>2 DEF IInv, TypeOK
    <3> QED BY <2>0, <3>1, <3>3 DEF IInv, OwnInv
  <2> QED BY <2>1, <2>2
<1>9. OnceInv'
  <2>1. \A q \in Receivers : pc'[q] \in InPlace => pc[q] \in InPlace
    BY <1>3 DEF Writing, InPlace
  <2> QED BY <1>1, <2>1 DEF IInv, OnceInv
<1> QED BY <1>5, <1>6, <1>7, <1>8, <1>9 DEF IInv

(* The end of a transfer: the name of the part file is free again, and the *)
(* file that had it is in place, or nowhere.                               *)
LEMMA EndStep ==
    ASSUME IInv, NEW r \in Receivers,
           \/ TransferFails(r) /\ part' = [part EXCEPT ![path[r]] = NoFile]
           \/ Rename(r)
    PROVE  IInv'
<1> DEFINE p == path[r]
           f == part[p]
<1>1. /\ pc[r] \in Writing /\ UNCHANGED <<on_conflict, path, agreed, there, writers, met,
                                          next_file, others>>
      /\ p \in Name /\ part' = [part EXCEPT ![p] = NoFile]
      /\ \/ UNCHANGED <<dir, out>> /\ pc' = [pc EXCEPT ![r] = "failed"]
         \/ /\ f # NoFile /\ dir' = [dir EXCEPT ![p] = f] /\ out' = [out EXCEPT ![r] = f]
            /\ pc[r] = "renaming" /\ pc' = [pc EXCEPT ![r] = "acking"]
  <2>1. CASE TransferFails(r) /\ part' = [part EXCEPT ![path[r]] = NoFile]
    BY <2>1 DEF TransferFails, Goes, choice, Writing, IInv, TypeOK
  <2>2. CASE Rename(r)
    BY <2>2 DEF Rename, Goes, choice, Writing, IInv, TypeOK
  <2> QED BY <2>1, <2>2
<1>2. HasOut(r) /\ out[r] \in Files /\ f \in Files \cup {NoFile}
  BY <1>1 DEF IInv, TypeOK, FilesInv, HasOut
<1> HIDE DEF f
<1>3. /\ part'[p] = NoFile /\ \A n \in Name : n # p => part'[n] = part[n]
      /\ \A n \in Name : part'[n] # NoFile => n # p /\ part'[n] = part[n]
  BY <1>1 DEF IInv, TypeOK
<1>4. \A n \in Name : dir'[n] = dir[n] \/ (n = p /\ f # NoFile /\ dir'[n] = f)
  BY <1>1 DEF IInv, TypeOK
<1>5. /\ \A q \in Receivers : q # r => pc'[q] = pc[q] /\ out'[q] = out[q]
      /\ pc'[r] \in {"acking", "failed"}
      /\ out'[r] = out[r] \/ (out'[r] = f /\ f # NoFile)
      /\ pc'[r] = "acking" => out'[r] = f /\ f # NoFile /\ pc[r] = "renaming"
  BY <1>1 DEF IInv, TypeOK
<1>6. \A q \in Receivers : HasOut(q)' = HasOut(q)
  BY <1>2, <1>5 DEF HasOut
<1>7. \A q \in Receivers : /\ pc'[q] \in Writing => q # r /\ pc[q] \in Writing
                           /\ Fellows(q)' \subseteq Fellows(q)
  BY <1>1, <1>5 DEF Fellows, Writing
<1>8. TypeOK'
  <2>1. /\ {dir', part'} \subseteq [Name -> Files \cup {NoFile}]
        /\ out' \in [Receivers -> Files \cup {NoFile}]
    BY <1>1, <1>2 DEF IInv, TypeOK
  <2>2. pc' \in [Receivers -> {"checking", "asking", "numbering", "creating",
                               "receiving", "renaming", "acking"} \cup Ended]
    BY <1>1 DEF IInv, TypeOK, Ended
  <2> QED BY <1>1, <2>1, <2>2 DEF IInv, TypeOK
<1>9. FilesInv'
  <2>1. f # NoFile => f < next_file
    BY <1>1 DEF IInv, FilesInv, f
  <2>2. \A q \in Receivers :
            /\ pc'[q] \in Writing \cup InPlace => HasOut(q)'
            /\ HasOut(q)' => /\ pc'[q] \in Writing \cup InPlace \cup {"failed", "aborted"}
                             /\ out'[q] < next_file'
    BY <1>1, <1>2, <1>5, <1>6, <2>1 DEF IInv, FilesInv, InPlace
  <2>3. \A n \in Name : /\ dir'[n] # NoFile => dir'[n] < next_file'
                        /\ part'[n] # NoFile => part'[n] < next_file'
    BY <1>1, <1>3, <1>4, <2>1 DEF IInv, FilesInv
  <2>4. ASSUME NEW m \in Name, NEW n \in Name, part'[n] # NoFile
        PROVE  dir'[m] # part'[n] /\ (part'[m] = part'[n] => m = n)
    <3>1. n # p /\ part'[n] = part[n] /\ part[n] # f /\ dir[m] # part[n]
      BY <1>1, <1>3, <2>4 DEF IInv, FilesInv, f
    <3>2. part'[m] = part'[n] => m = n
      BY <1>3, <2>4 DEF IInv, FilesInv
    <3> QED BY <1>4, <3>1, <3>2
  <2>5. ASSUME NEW q \in Receivers, NEW n \in Name, HasOut(q)', part'[n] = out'[q]
        PROVE  n = path'[q]
    <3>1. n # p /\ part'[n] = part[n] /\ part[n] # f /\ part[n] # NoFile
      BY <1>1, <1>3, <1>6, <2>5 DEF IInv, FilesInv, HasOut, f
    <3>2. out'[q] = out[q]
      BY <1>5, <2>5, <3>1
    <3> QED BY <1>1, <1>6, <2>5, <3>1, <3>2 DEF IInv, FilesInv
  <2>6. ASSUME NEW q \in Receivers, HasOut(q), path[q] # p PROVE out[q] # f \/ f = NoFile
    BY <1>1, <2>6 DEF IInv, FilesInv, f
  <2>7. \A q, s \in Receivers :
            HasOut(q)' /\ HasOut(s)' /\ path'[q] # path'[s] => out'[q] # out'[s]
    BY <1>1, <1>5, <1>6, <2>6 DEF IInv, FilesInv
  <2> QED BY <2>2, <2>3, <2>4, <2>5, <2>7 DEF FilesInv
<1>10. SettledInv'
  <2>1. ASSUME NEW q \in Receivers, pc'[q] \in Writing \cup {"creating"}, ~agreed[q]
        PROVE  dir'[path[q]] \notin there[q] /\ \A n \in Name : part'[n] \notin there[q]
    <3>1. pc'[q] = pc[q]
      BY <1>5, <2>1 DEF Writing
    <3>2. dir[path[q]] \notin there[q] /\ f \notin there[q]
          /\ \A n \in Name : part[n] \notin there[q]
      BY <1>1, <2>1, <3>1 DEF IInv, SettledInv, f
    <3>3. NoFile \notin there[q] /\ path[q] \in Name
      BY DestinationAssumption DEF IInv, TypeOK
    <3> QED BY <1>3, <1>4, <3>2, <3>3
  <2>2. \A q \in Receivers : pc'[q] \in Choosing => pc[q] \in Choosing
    BY <1>5 DEF Choosing
  <2> QED BY <1>1, <2>1, <2>2 DEF IInv, SettledInv
<1>11. OwnInv'
  <2> SUFFICES ASSUME NEW q \in Receivers, pc'[q] \in Writing \cup InPlace, q \notin met
               PROVE  /\ writers[out'[q]] \subseteq {q}
                      /\ pc'[q] # "receiving" => q \in writers[out'[q]]
                      /\ pc'[q] \in Writing => part'[path[q]] = out'[q] /\ Fellows(q) = {}
                      /\ \A s \in Receivers \ {q} : pc'[s] \in Writing => out'[s] # out'[q]
    BY <1>1, <1>7 DEF OwnInv
  <2>1. CASE q = r
    <3>1. pc'[r] = "acking" /\ out'[r] = f /\ pc[r] = "renaming" /\ pc'[r] \notin Writing
      BY <1>5, <2>1 DEF Writing, InPlace
    <3>2. f = out[r]
      BY <1>1, <2>1 DEF IInv, OwnInv, f
    <3>3. writers[out[r]] \subseteq {r} /\ r \in writers[out[r]]
      BY <1>1, <2>1, <3>1 DEF IInv, OwnInv
    <3>4. \A s \in Receivers \ {r} : pc'[s] \in Writing => out'[s] # out[r]
      BY <1>1, <1>5, <1>7, <2>1 DEF IInv, OwnInv
    <3> QED BY <2>1, <3>1, <3>2, <3>3, <3>4
  <2>2. CASE q # r
    <3>1. pc'[q] = pc[q] /\ out'[q] = out[q] /\ path[q] \in Name
      BY <1>5, <2>2 DEF IInv, TypeOK
    <3>2. ASSUME pc[q] \in Writing PROVE part'[path[q]] = out[q] /\ Fellows(q) = {}
      <4>1. Fellows(q) = {} /\ part[path[q]] = out[q]
        BY <3>2 DEF IInv, OwnInv
      <4>2. path[q] # p
        BY <1>1, <2>2, <4>1 DEF Fellows
      <4> QED BY <1>3, <3>1, <4>1, <4>2
    <3>3. \A s \in Receivers \ {q} : pc'[s] \in Writing => out'[s] # out[q]
      BY <1>5, <1>7, <3>1 DEF IInv, OwnInv
    <3> QED BY <3>1, <3>2, <3>3 DEF IInv, OwnInv
  <2> QED BY <2>1, <2>2
<1>12. OnceInv'
  <2>1. \A q \in Receivers : pc'[q] \in InPlace => q = r \/ pc[q] \in InPlace
    BY <1>5
  <2>2. pc'[r] \in InPlace => out'[r] = f /\ f # NoFile
    BY <1>5 DEF InPlace
  <2>3. \A q \in Receivers : pc[q] \in InPlace => /\ out[q] # f /\ out[q] # NoFile
                                                 /\ \A n \in Name : part[n] # out[q]
    BY <1>1 DEF IInv, OnceInv, FilesInv, HasOut, f
  <2>4. f # NoFile => \A n \in Name : n # p => part[n] # f
    BY <1>1 DEF IInv, FilesInv, f
  <2>5. ASSUME NEW q \in Receivers, pc'[q] \in InPlace, NEW n \in Name PROVE part'[n] # out'[q]
    BY <1>3, <1>5, <2>1, <2>2, <2>3, <2>4, <2>5
  <2>6. ASSUME NEW q \in Receivers, pc'[q] \in InPlace,
               NEW s \in Receivers \ {q}, pc'[s] \in InPlace
        PROVE  out'[s] # out'[q]
    BY <1>5, <2>1, <2>2, <2>3, <2>6 DEF IInv, OnceInv
  <2> QED BY <2>5, <2>6 DEF OnceInv
<1> QED BY <1>8, <1>9, <1>10, <1>11, <1>12 DEF IInv

(* Other programs bring files nobody has seen, and take files away.        *)
LEMMA OtherStep ==
    ASSUME IInv, NEW n \in Name, OtherCreates(n) \/ OtherRemoves(n)
    PROVE  IInv'
<1>1. /\ UNCHANGED <<pc, on_conflict, path, agreed, there, part, writers, out, met>>
      /\ next_file' >= next_file /\ next_file \in Nat /\ next_file' \in Nat
      /\ others' \in 0 .. MaxOther
  BY DestinationAssumption DEF OtherCreates, OtherRemoves, choice, IInv, TypeOK
<1>2. \E f \in Files \cup {NoFile} :
          /\ dir' = [dir EXCEPT ![n] = f]
          /\ f # NoFile => f = next_file /\ f < next_file'
  BY <1>1 DEF OtherCreates, OtherRemoves
<1>3. PICK f \in Files \cup {NoFile} :
          /\ dir' = [dir EXCEPT ![n] = f]
          /\ f # NoFile => f = next_file /\ f < next_file'
  BY <1>2
<1>4. \A m \in Name : dir'[m] = dir[m] \/ dir'[m] = f
  BY <1>3 DEF IInv, TypeOK
<1>5. \A g \in Files : g < next_file => g < next_file' /\ g # f
  BY <1>1, <1>3, DestinationAssumption DEF Files
<1>6. TypeOK'
  BY <1>1, <1>3 DEF IInv, TypeOK
<1>7. FilesInv'
  <2>1. \A q \in Receivers : HasOut(q)' = HasOut(q) /\ (HasOut(q) => out[q] \in Files)
    BY <1>1 DEF HasOut, IInv, TypeOK
  <2>2. \A m \in Name : dir[m] \in Files \cup {NoFile} /\ part[m] \in Files \cup {NoFile}
    BY DEF IInv, TypeOK
  <2>3. \A m \in Name : /\ dir'[m] # NoFile => dir'[m] < next_file'
                        /\ part[m] # NoFile => part[m] < next_file'
    BY <1>3, <1>4, <1>5, <2>2 DEF IInv, FilesInv
  <2>4. \A m, k \in Name : part[k] # NoFile => dir'[m] # part[k]
    BY <1>4, <1>5, <2>2 DEF IInv, FilesInv
  <2>5. \A q \in Receivers : HasOut(q) => out[q] < next_file'
    BY <1>5, <2>1 DEF IInv, FilesInv
  <2> QED BY <1>1, <2>1, <2>3, <2>4, <2>5 DEF IInv, FilesInv
<1>8. SettledInv'
  <2>1. \A q \in Receivers : f \notin there[q] /\ \A g \in there[q] : g < next_file'
    BY <1>5, DestinationAssumption DEF IInv, TypeOK, SettledInv
  <2>2. \A q \in Receivers : path[q] \in Name
    BY DEF IInv, TypeOK
  <2> QED BY <1>1, <1>4, <2>1, <2>2 DEF IInv, SettledInv
<1>9. OwnInv' /\ OnceInv'
  BY <1>1 DEF IInv, OwnInv, OnceInv, Fellows
<1> QED BY <1>6, <1>7, <1>8, <1>9 DEF IInv

(* The invariant is inductive. *)
LEMMA StepPreserves == IInv /\ [Next]_vars => IInv'
<1> SUFFICES ASSUME IInv, [Next]_vars PROVE IInv'
  OBVIOUS
<1>1. ASSUME NEW r \in Receivers, ReceiverStep(r) PROVE IInv'
  <2>1. CASE CheckPath(r) \/ Answer(r) \/ TryNumber(r)
    BY <2>1, ChoiceStep
  <2>2. CASE CreatePart(r)
    BY <2>2, CreateStep DEF CreatePart
  <2>3. CASE CreateFails(r)
    BY <2>3, CreateStep, QuitStep DEF CreateFails, Goes
  <2>4. CASE WriteChunks(r)
    BY <2>4, WriteStep
  <2>5. CASE TransferFails(r)
    <3>1. CASE part' = part
      BY <2>5, <3>1, QuitStep DEF TransferFails, Goes, disk
    <3> QED BY <2>5, <3>1, EndStep DEF TransferFails, Cleanup
  <2>6. CASE Rename(r)
    BY <2>6, EndStep
  <2>7. CASE RenameFails(r) \/ Acknowledge(r) \/ Abort(r)
    BY <2>7, QuitStep DEF RenameFails, Acknowledge, Abort, Goes
  <2> QED BY <1>1, <2>1, <2>2, <2>3, <2>4, <2>5, <2>6, <2>7 DEF ReceiverStep
<1>2. ASSUME NEW n \in Name, OtherCreates(n) \/ OtherRemoves(n) PROVE IInv'
  BY <1>2, OtherStep
<1>3. CASE UNCHANGED vars
  BY <1>3 DEF vars, choice, disk, IInv, TypeOK, FilesInv, SettledInv, OwnInv, OnceInv,
     Fellows, HasOut
<1> QED BY <1>1, <1>2, <1>3 DEF Next

-----------------------------------------------------------------------------
(* The promises *)

(* ReplacedOnlyIfAsked: in front of any number of receivers and programs.  *)
THEOREM AlwaysAsked == Spec => ReplacedOnlyIfAsked
<1>1. IInv /\ [Next]_vars =>
          [\A r \in Receivers :
               Replaces(r) /\ dir[path[r]] \in there[r] => agreed[r]]_vars
  BY DEF IInv, SettledInv, Replaces, Writing
<1> QED BY <1>1, InitEstablishes, StepPreserves, PTL DEF Spec, ReplacedOnlyIfAsked

(* OwnUnlessShared: a receiver beside which nobody wrote under its name    *)
(* puts in place a file that nobody else has written to.                   *)
THEOREM AlwaysOwn == Spec => []OwnUnlessShared
<1>1. IInv => OwnUnlessShared
  BY DEF IInv, OwnInv, OwnUnlessShared, InPlace
<1> QED BY <1>1, InitEstablishes, StepPreserves, PTL DEF Spec

(* OneAcknowledges: however many receivers share a part file, and whatever *)
(* is removed, renamed or left there, a file is acknowledged once.         *)
THEOREM NeverTwice == Spec => []OneAcknowledges
<1>1. IInv => OneAcknowledges
  BY DEF IInv, OnceInv, OneAcknowledges
<1> QED BY <1>1, InitEstablishes, StepPreserves, PTL DEF Spec

(* Types hold, and only the announced name is ever replaced on request.    *)
THEOREM DestinationTypes == Spec => []TypeOK
<1>1. IInv => TypeOK
  BY DEF IInv
<1> QED BY <1>1, InitEstablishes, StepPreserves, PTL DEF Spec
=============================================================================
