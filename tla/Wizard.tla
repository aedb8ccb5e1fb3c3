-------------------------------- MODULE Wizard --------------------------------
(***************************************************************************)
(* The wizard that collects a transfer's plan, key by key (tui/app.rs,     *)
(* file_browser.rs, dir_picker.rs), over a disk that other programs change.*)
(*                                                                         *)
(* A path is a number, in the order of the names.  Every key is followed   *)
(* by a draw, which clamps the cursor of a list; that is part of the key's *)
(* action, and a cursor of 0 is none.  What a page leaves behind is reset  *)
(* when nothing reads it again.  Messages and rendering are left out,      *)
(* except the fingerprint and the error of the PIN page.                   *)
(***************************************************************************)
EXTENDS PinChecksum, FiniteSets, SequencesExt

CONSTANTS
    Nodes, Root, Dirs, Hidden,   \* paths, of which some are directories, hidden
    Parent,                      \* of each path but Root
    StartDir,                    \* the process's current directory
    Typed,                       \* the PIN characters the user's keys give
    Letters, Blank,              \* characters of a folder name; a space
    Width,                       \* of each letter, in bytes of UTF-8
    MaxName,                     \* bound: characters of a folder name
    MaxChanges                   \* bound: changes by other programs

ASSUME WizardAssumption ==
    /\ IsFiniteSet(Nodes) /\ Dirs \subseteq Nodes
    /\ Width \in [Letters -> Nat \ {0}]

VARIABLES
    page, item,                         \* the page, the entry of its menu
    cwd, entries, cursor, show_hidden,  \* Browser or DirPicker
    selected,                           \* marked in the browser
    manual,                             \* of OutputDir
    naming, new_name, name_cursor,      \* the folder being named
    output, input, input_cursor, fingerprint, error,   \* PinEntry
    plan,
    disk, changes

listvars == <<cwd, entries, cursor, show_hidden>>
namevars == <<naming, new_name, name_cursor>>
pinvars == <<output, input, input_cursor, fingerprint, error>>
diskvars == <<disk, changes>>
pagevars == <<page, item, plan>>
vars == <<pagevars, listvars, selected, manual, namevars, pinvars, diskvars>>

NoFingerprint == <<>>
pin_fingerprint(pin) == <<pin>>
NoPlan == [kind |-> "none"]

AtLeast(a, b) == IF a < b THEN b ELSE a
AtMost(a, b) == IF a > b THEN b ELSE a

Init ==
    /\ page = "main" /\ item = 0
    /\ cwd = Root /\ entries = <<>> /\ cursor = 0 /\ show_hidden = FALSE
    /\ selected = {} /\ manual = FALSE
    /\ naming = FALSE /\ new_name = <<>> /\ name_cursor = 0
    /\ output = Root /\ input = <<>> /\ input_cursor = 0
    /\ fingerprint = NoFingerprint /\ error = FALSE
    /\ plan = NoPlan
    /\ disk = Nodes /\ changes = 0

-----------------------------------------------------------------------------
(* Lists of a directory *)

(* What read_dir gives: directories first in the browser, only those in    *)
(* the picker; nothing of a directory that cannot be read.                 *)
Listed(d, all) ==
    {n \in disk \ {Root} : d \in disk /\ Parent[n] = d /\ (all \/ n \notin Hidden)}
InOrder(set, Before(_, _)) ==       \* the i-th has i - 1 before it
    [i \in 1 .. Cardinality(set) |->
         CHOOSE n \in set : Cardinality({m \in set : Before(m, n)}) = i - 1]
BrowserOrder(a, b) ==
    IF (a \in Dirs) = (b \in Dirs) THEN a < b ELSE a \in Dirs
BrowserEntries(d, all) == InOrder(Listed(d, all), BrowserOrder)
PickerEntries(d, all) == InOrder(Listed(d, all) \cap Dirs, <)

Shows(d, all, list) ==
    /\ cwd' = d /\ show_hidden' = all
    /\ entries' = list /\ cursor' = AtMost(1, Len(list))
Browses(d, all) == Shows(d, all, BrowserEntries(d, all))
Picks(d, all) == Shows(d, all, PickerEntries(d, all))
ShowsNothing == Shows(Root, FALSE, <<>>)

MoveList ==
    /\ cursor' \in {AtLeast(cursor - 1, AtMost(1, Len(entries))),
                    AtMost(cursor + 1, Len(entries))}
    /\ UNCHANGED <<cwd, entries, show_hidden>>
AtCursor == {entries[i] : i \in {cursor} \ {0}}

-----------------------------------------------------------------------------
(* Menus: main menu, send mode, receive mode *)

MenuLength == IF page = "main" THEN 3 ELSE 2
MenuMove ==
    /\ page \in {"main", "sendmode", "recvmode"}
    /\ item' \in {AtLeast(item - 1, 0), AtMost(item + 1, MenuLength - 1)}
    /\ UNCHANGED <<page, plan, listvars, selected, manual, namevars, pinvars, diskvars>>

Goes(to, entry) == page' = to /\ item' = entry /\ plan' = plan
Finishes(result) == page' = "done" /\ item' = 0 /\ plan' = result

(* Browser::new and DirPicker::new fail without a current directory. *)
MainSelect ==
    /\ page = "main"
    /\ \/ /\ item = 0 /\ StartDir \in disk
          /\ Goes("browse", 0) /\ Browses(StartDir, FALSE)
       \/ /\ item = 1 /\ Goes("recvmode", 0) /\ UNCHANGED listvars
    /\ UNCHANGED <<selected, manual, namevars, pinvars, diskvars>>
MainQuit ==
    /\ page = "main"
    /\ Finishes([kind |-> "quit"])
    /\ UNCHANGED <<listvars, selected, manual, namevars, pinvars, diskvars>>

SendModeSelect ==
    /\ page = "sendmode"
    /\ Finishes([kind |-> IF item = 0 THEN "SendNostr" ELSE "SendManual",
                 paths |-> selected])
    /\ ShowsNothing /\ selected' = {}
    /\ UNCHANGED <<manual, namevars, pinvars, diskvars>>
SendModeBack ==      \* to the browser as it was
    /\ page = "sendmode" /\ Goes("browse", 0)
    /\ UNCHANGED <<listvars, selected, manual, namevars, pinvars, diskvars>>

ReceiveModeSelect ==
    /\ page = "recvmode" /\ StartDir \in disk
    /\ Goes("outdir", 0) /\ Picks(StartDir, FALSE)
    /\ manual' = (item = 1)
    /\ UNCHANGED <<selected, namevars, pinvars, diskvars>>
ReceiveModeBack ==
    /\ page = "recvmode" /\ Goes("main", 1)
    /\ UNCHANGED <<listvars, selected, manual, namevars, pinvars, diskvars>>

-----------------------------------------------------------------------------
(* Browser::handle_key *)

BrowserNavigate ==
    /\ page = "browse"
    /\ \/ MoveList
       \/ \E d \in AtCursor \cap Dirs : Browses(d, show_hidden)
       \/ cwd # Root /\ Browses(Parent[cwd], show_hidden)
       \/ Browses(cwd, ~show_hidden)
    /\ UNCHANGED <<pagevars, selected, manual, namevars, pinvars, diskvars>>

SymmetricDifference(a, b) == (a \ b) \cup (b \ a)
BrowserMark ==
    /\ page = "browse" /\ cursor # 0
    /\ selected' = SymmetricDifference(selected, AtCursor)
    /\ cursor' = AtMost(cursor + 1, Len(entries))
    /\ UNCHANGED <<pagevars, cwd, entries, show_hidden, manual, namevars, pinvars, diskvars>>

BrowserConfirm_Empty ==
    /\ page = "browse"
    /\ Goes("sendmode", 0)
    /\ UNCHANGED <<listvars, selected, manual, namevars, pinvars, diskvars>>
BrowserConfirm ==
    /\ page = "browse" /\ selected # {}
    /\ Goes("sendmode", 0)
    /\ UNCHANGED <<listvars, selected, manual, namevars, pinvars, diskvars>>
BrowserBack ==
    /\ page = "browse" /\ Goes("main", 0)
    /\ ShowsNothing /\ selected' = {}
    /\ UNCHANGED <<manual, namevars, pinvars, diskvars>>

-----------------------------------------------------------------------------
(* DirPicker::handle_key *)

Picking == page = "outdir" /\ ~naming

PickerNavigate ==
    /\ Picking
    /\ \/ MoveList
       \/ \E d \in AtCursor : Picks(d, show_hidden)
       \/ cwd # Root /\ Picks(Parent[cwd], show_hidden)
       \/ Picks(cwd, ~show_hidden)
    /\ UNCHANGED <<pagevars, selected, manual, namevars, pinvars, diskvars>>

PickerBack ==
    /\ Picking /\ Goes("recvmode", IF manual THEN 1 ELSE 0)
    /\ ShowsNothing /\ manual' = FALSE
    /\ UNCHANGED <<selected, namevars, pinvars, diskvars>>

PickerChoose ==
    /\ Picking
    /\ IF manual
       THEN Finishes([kind |-> "ReceiveManual", output |-> cwd]) /\ UNCHANGED pinvars
       ELSE /\ Goes("pin", 0)
            /\ output' = cwd /\ input' = <<>> /\ input_cursor' = 0
            /\ fingerprint' = NoFingerprint /\ error' = FALSE
    /\ ShowsNothing /\ manual' = FALSE
    /\ UNCHANGED <<selected, namevars, diskvars>>

(* Naming a new folder: the cursor counts bytes, the name is edited where  *)
(* a letter begins at that offset (Rust panics where none does).           *)
BytesOf(name, k) == UNION {{i} \X (1 .. Width[name[i]]) : i \in 1 .. k}
Offset(name, k) == Cardinality(BytesOf(name, k))
Bytes(name) == Offset(name, Len(name))
Boundary(name, n) == {k \in 0 .. Len(name) : Offset(name, k) = n}

StartNaming ==
    /\ Picking
    /\ naming' = TRUE /\ new_name' = <<>> /\ name_cursor' = 0
    /\ UNCHANGED <<pagevars, listvars, selected, manual, pinvars, diskvars>>

TypeName_ByOne(c) ==
    \E k \in Boundary(new_name, name_cursor) :
        new_name' = InsertAt(new_name, k + 1, c) /\ name_cursor' = name_cursor + 1
TypeName(c) ==
    \E k \in Boundary(new_name, name_cursor) :
        /\ new_name' = InsertAt(new_name, k + 1, c)
        /\ name_cursor' = name_cursor + Width[c]

(* Typing, Left and Backspace, Right and Delete, Home and End *)
EditName ==
    \/ \E c \in Letters : Len(new_name) < MaxName /\ TypeName(c)
    \/ \E k \in Boundary(new_name, name_cursor) \ {0} :
          /\ name_cursor' = name_cursor - Width[new_name[k]]
          /\ new_name' \in {new_name, RemoveAt(new_name, k)}
    \/ \E k \in Boundary(new_name, name_cursor) \ {Len(new_name)} :
          \/ name_cursor' = name_cursor + Width[new_name[k + 1]] /\ UNCHANGED new_name
          \/ new_name' = RemoveAt(new_name, k + 1) /\ UNCHANGED name_cursor
    \/ name_cursor' \in {0, Bytes(new_name)} /\ UNCHANGED new_name

NameKey ==
    /\ page = "outdir" /\ naming
    /\ EditName
    /\ UNCHANGED <<naming, pagevars, listvars, selected, manual, pinvars, diskvars>>

EndsNaming == naming' = FALSE /\ new_name' = <<>> /\ name_cursor' = 0

(* The name may be any relative or absolute path; create_dir may fail. *)
CreateFolder ==
    /\ page = "outdir" /\ naming
    /\ \E i \in DOMAIN new_name : new_name[i] # Blank
    /\ \E d \in Dirs \ disk :
          /\ Parent[d] \in disk
          /\ disk' = disk \cup {d}
          /\ Shows(d, show_hidden, <<>>)
    /\ EndsNaming
    /\ UNCHANGED <<pagevars, selected, manual, pinvars, changes>>
StopNaming ==
    /\ page = "outdir" /\ naming
    /\ EndsNaming
    /\ UNCHANGED <<pagevars, listvars, selected, manual, pinvars, diskvars>>

-----------------------------------------------------------------------------
(* pin_entry_key: all letters are ASCII, the cursor counts letters *)

PinMove ==
    /\ page = "pin"
    /\ input_cursor' \in {AtLeast(input_cursor - 1, 0),
                          AtMost(input_cursor + 1, Len(input)), 0, Len(input)}
    /\ UNCHANGED <<pagevars, listvars, selected, manual, namevars, output, input,
                   fingerprint, error, diskvars>>

(* Whoever edits the input takes back the error and looks at the PIN anew. *)
Edits(new) ==
    /\ input' = new
    /\ error' = FALSE
    /\ fingerprint' = IF is_valid_pin(new) THEN pin_fingerprint(new) ELSE NoFingerprint
    /\ UNCHANGED <<pagevars, listvars, selected, manual, namevars, output, diskvars>>

PinType ==
    /\ page = "pin" /\ Len(input) < PIN_LENGTH
    /\ \E c \in Typed : Edits(InsertAt(input, input_cursor + 1, c))
    /\ input_cursor' = input_cursor + 1
PinBackspace ==
    /\ page = "pin" /\ input_cursor > 0
    /\ Edits(RemoveAt(input, input_cursor))
    /\ input_cursor' = input_cursor - 1
PinDelete_Unnoticed ==
    /\ page = "pin" /\ input_cursor < Len(input)
    /\ input' = RemoveAt(input, input_cursor + 1)
    /\ UNCHANGED <<pagevars, listvars, selected, manual, namevars, output,
                   input_cursor, fingerprint, error, diskvars>>
PinDelete ==
    /\ page = "pin" /\ input_cursor < Len(input)
    /\ Edits(RemoveAt(input, input_cursor + 1))
    /\ UNCHANGED input_cursor

ResetsPin ==
    /\ output' = Root /\ input' = <<>> /\ input_cursor' = 0
    /\ fingerprint' = NoFingerprint /\ error' = FALSE
PinConfirm ==
    /\ page = "pin" /\ is_valid_pin(input)
    /\ Finishes([kind |-> "ReceiveNostr", pin |-> input, output |-> output,
                 fingerprint |-> IF fingerprint = NoFingerprint
                                 THEN pin_fingerprint(input) ELSE fingerprint])
    /\ ResetsPin
    /\ UNCHANGED <<listvars, selected, manual, namevars, diskvars>>
PinRefused ==
    /\ page = "pin" /\ ~is_valid_pin(input)
    /\ error' = TRUE
    /\ UNCHANGED <<pagevars, listvars, selected, manual, namevars, output, input,
                   input_cursor, fingerprint, diskvars>>
PinBack ==
    /\ page = "pin" /\ Goes("outdir", 0)
    /\ Picks(output, FALSE) /\ manual' = FALSE
    /\ ResetsPin
    /\ UNCHANGED <<selected, namevars, diskvars>>

-----------------------------------------------------------------------------
(* Other programs create and remove files and directories; external. *)
OtherPrograms ==
    /\ page # "done" /\ changes < MaxChanges /\ changes' = changes + 1
    /\ \E n \in Nodes \ {Root} :
          \/ n \notin disk /\ Parent[n] \in disk /\ disk' = disk \cup {n}
          \/ /\ n \in disk /\ disk' = disk \ {n}
             /\ \A m \in disk \ {Root} : Parent[m] # n
    /\ UNCHANGED <<pagevars, listvars, selected, manual, namevars, pinvars>>

MenuKey ==
    \/ MenuMove \/ MainSelect \/ MainQuit \/ SendModeSelect \/ SendModeBack
    \/ ReceiveModeSelect \/ ReceiveModeBack
BrowserKey == BrowserNavigate \/ BrowserMark \/ BrowserConfirm \/ BrowserBack
PickerKey ==
    \/ PickerNavigate \/ PickerBack \/ PickerChoose
    \/ StartNaming \/ NameKey \/ CreateFolder \/ StopNaming
PinKey ==
    PinMove \/ PinType \/ PinBackspace \/ PinDelete \/ PinConfirm \/ PinRefused \/ PinBack
Key == MenuKey \/ BrowserKey \/ PickerKey \/ PinKey

Next == Key \/ OtherPrograms

Spec == Init /\ [][Next]_vars
-----------------------------------------------------------------------------
(* Properties *)

(***************************************************************************)
(* No key takes a cursor out of what it edits: Rust would panic, and with  *)
(* panic = "abort" end the program.  The cursor of a folder's name lies    *)
(* between two letters, however many bytes they take.                      *)
(***************************************************************************)
CursorsInside ==
    /\ cursor \in AtMost(1, Len(entries)) .. Len(entries)
    /\ naming => Boundary(new_name, name_cursor) # {}
    /\ input_cursor \in 0 .. Len(input)

(***************************************************************************)
(* The user compares the fingerprint with the sender's and then confirms:  *)
(* the one shown is always that of the PIN as it stands, and the error     *)
(* stands beside nothing but an input that is not valid.                   *)
(***************************************************************************)
FingerprintIsCurrent ==
    page = "pin" =>
        /\ fingerprint = IF is_valid_pin(input) THEN pin_fingerprint(input) ELSE NoFingerprint
        /\ error => ~is_valid_pin(input)

(***************************************************************************)
(* What the wizard hands over can be carried out: a selection that is not  *)
(* empty, or a valid PIN with its own fingerprint.                         *)
(***************************************************************************)
PlanIsUsable ==
    CASE plan.kind \in {"SendNostr", "SendManual"} -> plan.paths # {}
      [] plan.kind = "ReceiveNostr" ->
             is_valid_pin(plan.pin) /\ plan.fingerprint = pin_fingerprint(plan.pin)
      [] OTHER -> TRUE
=============================================================================
