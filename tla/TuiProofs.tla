------------------------------- MODULE TuiProofs -------------------------------
(***************************************************************************)
(* What the checksum of a PIN detects; the wizard's promises for any disk, *)
(* any keys and any letters; and those of the transfer screen that follows *)
(* it, for a log of any length and any number of reports.                  *)
(***************************************************************************)
EXTENDS Tui, SequenceTheorems, FiniteSetTheorems, WellFoundedInduction, TLAPS

-----------------------------------------------------------------------------
(* The checksum.  The last character counts with weight -1: a PIN is valid *)
(* when the weighted sum of all ten is a multiple of 32.                   *)

(* The characters of a PIN are indexes, and the sum is a number. *)
LEMMA PinTypes ==
    ASSUME NEW code \in Pin
    PROVE  /\ \A i \in 1 .. 10 : code[i] \in Nat /\ code[i] \in Int /\ code[i] < 32
           /\ WeightedSum(code) \in Nat
<1>1. \A i \in 1 .. 10 : code[i] \in 0 .. 31
  BY DEF Pin, Charset, CharsetSize
<1>2. \A i \in 1 .. 10 : code[i] \in Nat /\ code[i] \in Int /\ code[i] < 32
  BY <1>1
<1>3. \A i \in 1 .. 9 : Term(code, i) \in Nat
  <2> TAKE i \in 1 .. 9
  <2>1. i \in Nat /\ 2 * i - 1 \in Nat /\ code[i] \in Nat
    BY <1>2
  <2> QED BY <2>1 DEF Term
<1> HIDE DEF Term
<1> QED BY <1>2, <1>3 DEF WeightedSum

(* A function on 1 .. 10 is a sequence of ten. *)
LEMMA PinLength ==
    ASSUME NEW code \in Pin
    PROVE  Len(code) = PIN_LENGTH
<1>1. code \in Seq(Charset)
  BY SeqDef DEF Pin
<1>2. DOMAIN code = 1 .. 10
  BY DEF Pin
<1> QED BY <1>1, <1>2, LenProperties DEF PIN_LENGTH

(* The test of a PIN as a statement about the weighted sum. *)
LEMMA ValidIsMultiple ==
    ASSUME NEW code \in Pin
    PROVE  is_valid_pin(code) <=> \E k \in Int : WeightedSum(code) = 32 * k + code[10]
<1>1. WeightedSum(code) \in Nat /\ code[10] \in 0 .. 31
  BY PinTypes DEF Pin, Charset, CharsetSize
<1>2. is_valid_pin(code) <=> WeightedSum(code) % 32 = code[10]
  BY PinLength DEF is_valid_pin, compute_checksum, CharsetSize, PIN_LENGTH, Pin
<1> DEFINE w == WeightedSum(code)
           c == code[10]
<1> HIDE DEF w, c
<1>3. ASSUME w \in Nat, c \in 0 .. 31
      PROVE  (w % 32 = c) <=> \E k \in Int : w = 32 * k + c
  <2>1. w = 32 * (w \div 32) + (w % 32) /\ w \div 32 \in Int
    BY <1>3
  <2>2. ASSUME NEW k \in Int, w = 32 * k + c PROVE w % 32 = c
    BY <1>3, <2>2
  <2> QED BY <2>1, <2>2
<1> QED BY <1>1, <1>2, <1>3 DEF w, c

(* An odd weight is invertible modulo 32. *)
LEMMA OddWeight ==
    ASSUME NEW i \in 1 .. 9, NEW d \in Int, -32 < d, d < 32,
           NEW m \in Int, d * (2 * i - 1) = 32 * m
    PROVE  d = 0
<1>1. CASE i = 1
  BY <1>1
<1>2. CASE i = 2
  BY <1>2
<1>3. CASE i = 3
  BY <1>3
<1>4. CASE i = 4
  BY <1>4
<1>5. CASE i = 5
  BY <1>5
<1>6. CASE i = 6
  BY <1>6
<1>7. CASE i = 7
  BY <1>7
<1>8. CASE i = 8
  BY <1>8
<1>9. CASE i = 9
  BY <1>9
<1> QED BY <1>1, <1>2, <1>3, <1>4, <1>5, <1>6, <1>7, <1>8, <1>9

(* PINs that differ in one of the first nine characters only: so do their  *)
(* sums, by the difference times the weight.                               *)
LEMMA OneTermDiffers ==
    ASSUME NEW p \in Pin, NEW q \in Pin, NEW i \in 1 .. 9,
           \A j \in 1 .. 9 : j # i => p[j] = q[j]
    PROVE  WeightedSum(p) - WeightedSum(q) = (p[i] - q[i]) * (2 * i - 1)
<1>1. \A j \in 1 .. 9 : Term(p, j) \in Int /\ Term(q, j) \in Int
  BY PinTypes DEF Term
<1>2. \A j \in 1 .. 9 : j # i => Term(p, j) = Term(q, j)
  BY DEF Term
<1>3. WeightedSum(p) - WeightedSum(q) = Term(p, i) - Term(q, i)
  <2>1. /\ Term(p, 1) \in Int /\ Term(q, 1) \in Int
        /\ Term(p, 2) \in Int /\ Term(q, 2) \in Int
        /\ Term(p, 3) \in Int /\ Term(q, 3) \in Int
        /\ Term(p, 4) \in Int /\ Term(q, 4) \in Int
        /\ Term(p, 5) \in Int /\ Term(q, 5) \in Int
        /\ Term(p, 6) \in Int /\ Term(q, 6) \in Int
        /\ Term(p, 7) \in Int /\ Term(q, 7) \in Int
        /\ Term(p, 8) \in Int /\ Term(q, 8) \in Int
        /\ Term(p, 9) \in Int /\ Term(q, 9) \in Int
    BY <1>1
  <2>2. /\ Term(p, 1) = Term(q, 1) \/ i = 1
        /\ Term(p, 2) = Term(q, 2) \/ i = 2
        /\ Term(p, 3) = Term(q, 3) \/ i = 3
        /\ Term(p, 4) = Term(q, 4) \/ i = 4
        /\ Term(p, 5) = Term(q, 5) \/ i = 5
        /\ Term(p, 6) = Term(q, 6) \/ i = 6
        /\ Term(p, 7) = Term(q, 7) \/ i = 7
        /\ Term(p, 8) = Term(q, 8) \/ i = 8
        /\ Term(p, 9) = Term(q, 9) \/ i = 9
    BY <1>2
  <2>3. CASE i = 1
    BY <2>1, <2>2, <2>3 DEF WeightedSum
  <2>4. CASE i = 2
    BY <2>1, <2>2, <2>4 DEF WeightedSum
  <2>5. CASE i = 3
    BY <2>1, <2>2, <2>5 DEF WeightedSum
  <2>6. CASE i = 4
    BY <2>1, <2>2, <2>6 DEF WeightedSum
  <2>7. CASE i = 5
    BY <2>1, <2>2, <2>7 DEF WeightedSum
  <2>8. CASE i = 6
    BY <2>1, <2>2, <2>8 DEF WeightedSum
  <2>9. CASE i = 7
    BY <2>1, <2>2, <2>9 DEF WeightedSum
  <2>10. CASE i = 8
    BY <2>1, <2>2, <2>10 DEF WeightedSum
  <2>11. CASE i = 9
    BY <2>1, <2>2, <2>11 DEF WeightedSum
  <2> QED BY <2>3, <2>4, <2>5, <2>6, <2>7, <2>8, <2>9, <2>10, <2>11
<1>4. Term(p, i) - Term(q, i) = (p[i] - q[i]) * (2 * i - 1)
  BY PinTypes DEF Term
<1> QED BY <1>3, <1>4

(***************************************************************************)
(* "Every weight is coprime with the charset size, so any single-character *)
(* substitution always changes the checksum": a valid PIN with one         *)
(* character mistyped, the checksum included, is not valid.                *)
(***************************************************************************)
THEOREM SubstitutionDetected ==
    ASSUME NEW p \in Pin, NEW q \in Pin, NEW i \in 1 .. 10,
           \A j \in 1 .. 10 : j # i => p[j] = q[j],
           is_valid_pin(p), is_valid_pin(q)
    PROVE  p = q
<1>1. PICK k \in Int : WeightedSum(p) = 32 * k + p[10]
  BY ValidIsMultiple
<1>2. PICK l \in Int : WeightedSum(q) = 32 * l + q[10]
  BY ValidIsMultiple
<1>3. /\ WeightedSum(p) \in Int /\ WeightedSum(q) \in Int
      /\ \A j \in 1 .. 10 : p[j] \in Int /\ p[j] >= 0 /\ p[j] < 32
                             /\ q[j] \in Int /\ q[j] >= 0 /\ q[j] < 32
  BY PinTypes
<1>4. p[i] = q[i]
  <2>1. CASE i = 10
    <3>1. \A j \in 1 .. 9 : p[j] = q[j]
      BY <2>1
    <3>2. WeightedSum(p) = WeightedSum(q)
      BY <3>1 DEF WeightedSum, Term
    <3>3. p[10] - q[10] = 32 * (l - k)
      BY <1>1, <1>2, <1>3, <3>2
    <3> QED BY <1>3, <2>1, <3>3
  <2>2. CASE i \in 1 .. 9
    <3>1. p[10] = q[10] /\ \A j \in 1 .. 9 : j # i => p[j] = q[j]
      BY <2>2
    <3>2. WeightedSum(p) - WeightedSum(q) = (p[i] - q[i]) * (2 * i - 1)
      BY <2>2, <3>1, OneTermDiffers
    <3>3. (p[i] - q[i]) * (2 * i - 1) = 32 * (k - l)
      BY <1>1, <1>2, <1>3, <3>1, <3>2
    <3>4. p[i] - q[i] \in Int /\ -32 < p[i] - q[i] /\ p[i] - q[i] < 32 /\ k - l \in Int
      BY <1>3
    <3>5. p[i] - q[i] = 0
      BY <2>2, <3>3, <3>4, OddWeight
    <3> QED BY <1>3, <3>5
  <2> QED BY <2>1, <2>2
<1> QED BY <1>4 DEF Pin

(* The sums of two PINs that differ by exchanging neighbours. *)
LEMMA NeighboursDiffer ==
    ASSUME NEW p \in Pin, NEW q \in Pin, NEW i \in 1 .. 8,
           q[i] = p[i + 1], q[i + 1] = p[i],
           \A j \in 1 .. 9 : j \notin {i, i + 1} => p[j] = q[j]
    PROVE  WeightedSum(q) - WeightedSum(p) = 2 * (p[i] - p[i + 1])
<1>1. \A j \in 1 .. 9 : Term(p, j) \in Int /\ Term(q, j) \in Int
  BY PinTypes DEF Term
<1>2. \A j \in 1 .. 9 : j \notin {i, i + 1} => Term(p, j) = Term(q, j)
  BY DEF Term
<1>3. WeightedSum(q) - WeightedSum(p)
        = (Term(q, i) + Term(q, i + 1)) - (Term(p, i) + Term(p, i + 1))
  <2>1. /\ Term(p, 1) \in Int /\ Term(q, 1) \in Int
        /\ Term(p, 2) \in Int /\ Term(q, 2) \in Int
        /\ Term(p, 3) \in Int /\ Term(q, 3) \in Int
        /\ Term(p, 4) \in Int /\ Term(q, 4) \in Int
        /\ Term(p, 5) \in Int /\ Term(q, 5) \in Int
        /\ Term(p, 6) \in Int /\ Term(q, 6) \in Int
        /\ Term(p, 7) \in Int /\ Term(q, 7) \in Int
        /\ Term(p, 8) \in Int /\ Term(q, 8) \in Int
        /\ Term(p, 9) \in Int /\ Term(q, 9) \in Int
    BY <1>1
  <2>2. /\ Term(p, 1) = Term(q, 1) \/ i = 1
        /\ Term(p, 2) = Term(q, 2) \/ i = 1 \/ i = 2
        /\ Term(p, 3) = Term(q, 3) \/ i = 2 \/ i = 3
        /\ Term(p, 4) = Term(q, 4) \/ i = 3 \/ i = 4
        /\ Term(p, 5) = Term(q, 5) \/ i = 4 \/ i = 5
        /\ Term(p, 6) = Term(q, 6) \/ i = 5 \/ i = 6
        /\ Term(p, 7) = Term(q, 7) \/ i = 6 \/ i = 7
        /\ Term(p, 8) = Term(q, 8) \/ i = 7 \/ i = 8
        /\ Term(p, 9) = Term(q, 9) \/ i = 8
    BY <1>2
  <2>3. CASE i = 1
    BY <2>1, <2>2, <2>3 DEF WeightedSum
  <2>4. CASE i = 2
    BY <2>1, <2>2, <2>4 DEF WeightedSum
  <2>5. CASE i = 3
    BY <2>1, <2>2, <2>5 DEF WeightedSum
  <2>6. CASE i = 4
    BY <2>1, <2>2, <2>6 DEF WeightedSum
  <2>7. CASE i = 5
    BY <2>1, <2>2, <2>7 DEF WeightedSum
  <2>8. CASE i = 6
    BY <2>1, <2>2, <2>8 DEF WeightedSum
  <2>9. CASE i = 7
    BY <2>1, <2>2, <2>9 DEF WeightedSum
  <2>10. CASE i = 8
    BY <2>1, <2>2, <2>10 DEF WeightedSum
  <2> QED BY <2>3, <2>4, <2>5, <2>6, <2>7, <2>8, <2>9, <2>10
<1>4. p[i] \in Int /\ p[i + 1] \in Int
  BY PinTypes
<1>5. (Term(q, i) + Term(q, i + 1)) - (Term(p, i) + Term(p, i + 1))
        = 2 * (p[i] - p[i + 1])
  BY <1>4 DEF Term
<1> QED BY <1>3, <1>5

(***************************************************************************)
(* Two neighbours exchanged, the checksum included, are detected unless    *)
(* their indexes differ by half of the charset: "1" and "H", say.          *)
(***************************************************************************)
THEOREM TranspositionDetected ==
    ASSUME NEW p \in Pin, NEW q \in Pin, NEW i \in 1 .. 9,
           q[i] = p[i + 1], q[i + 1] = p[i],
           \A j \in 1 .. 10 : j \notin {i, i + 1} => p[j] = q[j],
           is_valid_pin(p), is_valid_pin(q)
    PROVE  p[i] = p[i + 1] \/ p[i] = p[i + 1] + 16 \/ p[i + 1] = p[i] + 16
<1>1. PICK k \in Int : WeightedSum(p) = 32 * k + p[10]
  BY ValidIsMultiple
<1>2. PICK l \in Int : WeightedSum(q) = 32 * l + q[10]
  BY ValidIsMultiple
<1>3. /\ WeightedSum(p) \in Int /\ WeightedSum(q) \in Int
      /\ \A j \in 1 .. 10 : p[j] \in Int /\ p[j] >= 0 /\ p[j] < 32
  BY PinTypes
<1>4. \E m \in Int : p[i] - p[i + 1] = 16 * m
  <2>1. CASE i \in 1 .. 8
    <3>1. p[10] = q[10] /\ \A j \in 1 .. 9 : j \notin {i, i + 1} => p[j] = q[j]
      BY <2>1
    <3>2. WeightedSum(q) - WeightedSum(p) = 2 * (p[i] - p[i + 1])
      BY <2>1, <3>1, NeighboursDiffer
    <3>3. p[i] \in Int /\ p[i + 1] \in Int
      BY <1>3
    <3>4. WeightedSum(q) - WeightedSum(p) = 32 * (l - k)
      BY <1>1, <1>2, <1>3, <3>1
    <3>5. p[i] - p[i + 1] = 16 * (l - k)
      <4> DEFINE d == p[i] - p[i + 1]
                 e == l - k
      <4>1. d \in Int /\ e \in Int /\ 2 * d = 32 * e
        BY <3>2, <3>3, <3>4
      <4> HIDE DEF d, e
      <4>2. d = 16 * e
        BY <4>1
      <4> QED BY <4>2 DEF d, e
    <3>6. l - k \in Int
      OBVIOUS
    <3> QED BY <3>5, <3>6
  <2>2. CASE i = 9
    <3>1. \A j \in 1 .. 9 : j # 9 => p[j] = q[j]
      BY <2>2
    <3>2. WeightedSum(q) - WeightedSum(p) = (q[9] - p[9]) * 17
      BY <3>1, OneTermDiffers
    <3>3. q[9] = p[10] /\ q[10] = p[9]
      BY <2>2
    <3>4. 18 * (p[10] - p[9]) = 32 * (l - k)
      BY <1>1, <1>2, <1>3, <3>2, <3>3
    <3>5. PICK m \in Int : p[9] - p[10] = 16 * m
      <4> DEFINE d == p[9] - p[10]
                 e == k - l
      <4>1. d \in Int /\ e \in Int /\ 9 * d = 16 * e
        BY <1>3, <3>4
      <4> HIDE DEF d, e
      <4>2. d = 16 * (9 * e) - 80 * d
        BY <4>1
      <4>3. d = 16 * (9 * e - 5 * d)
        BY <4>2, <4>1
      <4> QED BY <4>1, <4>3 DEF d
    <3> QED BY <2>2, <3>5
  <2> QED BY <2>1, <2>2
<1>5. PICK m \in Int : p[i] - p[i + 1] = 16 * m
  BY <1>4
<1>6. /\ p[i] \in Int /\ p[i] >= 0 /\ p[i] < 32
      /\ p[i + 1] \in Int /\ p[i + 1] >= 0 /\ p[i + 1] < 32
  BY <1>3
<1> QED BY <1>5, <1>6

(* What generate_pin makes, whatever was drawn, is a valid PIN. *)
THEOREM GeneratedIsValid ==
    ASSUME NEW data \in Data
    PROVE  generate_pin(data) \in Pin /\ is_valid_pin(generate_pin(data))
<1> DEFINE code == generate_pin(data)
<1>1. \A i \in 1 .. 9 : data[i] \in 0 .. 31 /\ Term(data, i) \in Nat
  BY DEF Data, Charset, CharsetSize, Term
<1>2. WeightedSum(data) \in Nat
  BY <1>1 DEF WeightedSum
<1>3. compute_checksum(data) \in 0 .. 31
  BY <1>2 DEF compute_checksum, CharsetSize
<1>4. code \in Pin
  BY <1>1, <1>3 DEF generate_pin, Pin, Charset, CharsetSize
<1>5. (\A i \in 1 .. 9 : code[i] = data[i]) /\ code[10] = compute_checksum(data)
  BY DEF generate_pin
<1>6. compute_checksum(code) = compute_checksum(data)
  BY <1>5 DEF compute_checksum, WeightedSum, Term
<1> HIDE DEF code
<1>7. is_valid_pin(code)
  BY <1>4, <1>5, <1>6, PinLength DEF is_valid_pin, PIN_LENGTH, Pin
<1> QED BY <1>4, <1>7 DEF code

-----------------------------------------------------------------------------
(* The wizard *)

(* The browser is left for the send mode with a selection only, and the    *)
(* wizard is over as soon as there is a plan.                              *)
SelectionInv == page = "sendmode" => selected # {}
PlanInv == plan # NoPlan => page = "done"

IInv == SelectionInv /\ PlanInv /\ FingerprintIsCurrent /\ PlanIsUsable

(* An empty input is not a PIN. *)
LEMMA EmptyIsInvalid == ~is_valid_pin(<<>>)
BY DEF is_valid_pin, PIN_LENGTH

(* At the start there is neither a plan nor an input. *)
LEMMA InitEstablishes == Init => IInv
<1> SUFFICES ASSUME Init PROVE IInv
  OBVIOUS
<1>1. page = "main" /\ plan = NoPlan /\ NoPlan.kind = "none"
  BY DEF Init, NoPlan
<1> QED BY <1>1 DEF IInv, SelectionInv, PlanInv, FingerprintIsCurrent, PlanIsUsable

(* Keys of the menus. *)
LEMMA MenuKeyStep == IInv /\ MenuKey => IInv'
<1> SUFFICES ASSUME IInv, MenuKey PROVE IInv'
  OBVIOUS
<1> USE DEF IInv, SelectionInv, PlanInv, FingerprintIsCurrent, PlanIsUsable,
            NoPlan, Goes, Finishes, listvars, namevars, pinvars, diskvars
<1>1. CASE MenuMove
  BY <1>1 DEF MenuMove
<1>2. CASE MainSelect
  BY <1>2 DEF MainSelect
<1>3. CASE MainQuit
  BY <1>3 DEF MainQuit
<1>4. CASE SendModeSelect
  BY <1>4 DEF SendModeSelect
<1>5. CASE SendModeBack
  BY <1>5 DEF SendModeBack
<1>6. CASE ReceiveModeSelect
  BY <1>6 DEF ReceiveModeSelect
<1>7. CASE ReceiveModeBack
  BY <1>7 DEF ReceiveModeBack
<1> QED BY <1>1, <1>2, <1>3, <1>4, <1>5, <1>6, <1>7 DEF MenuKey

(* Keys of the file browser. *)
LEMMA BrowserKeyStep == IInv /\ BrowserKey => IInv'
<1> SUFFICES ASSUME IInv, BrowserKey PROVE IInv'
  OBVIOUS
<1> USE DEF IInv, SelectionInv, PlanInv, FingerprintIsCurrent, PlanIsUsable,
            Goes, pagevars, listvars, namevars, pinvars, diskvars
<1>1. CASE BrowserNavigate
  BY <1>1 DEF BrowserNavigate
<1>2. CASE BrowserMark
  BY <1>2 DEF BrowserMark
<1>3. CASE BrowserConfirm
  BY <1>3 DEF BrowserConfirm
<1>4. CASE BrowserBack
  BY <1>4 DEF BrowserBack
<1> QED BY <1>1, <1>2, <1>3, <1>4 DEF BrowserKey

(* Keys of the directory picker.  The PIN page begins with nothing typed.  *)
LEMMA PickerKeyStep == IInv /\ PickerKey => IInv'
<1> SUFFICES ASSUME IInv, PickerKey PROVE IInv'
  OBVIOUS
<1> USE DEF IInv, SelectionInv, PlanInv, FingerprintIsCurrent, PlanIsUsable,
            pagevars, listvars, namevars, pinvars, diskvars
<1>1. CASE PickerNavigate
  BY <1>1 DEF PickerNavigate, Picking
<1>2. CASE PickerBack
  BY <1>2 DEF PickerBack, Picking, Goes
<1>3. CASE PickerChoose
  <2>1. CASE manual
    BY <1>3, <2>1 DEF PickerChoose, Picking, Finishes
  <2>2. CASE ~manual
    BY <1>3, <2>2, EmptyIsInvalid DEF PickerChoose, Picking, Goes
  <2> QED BY <2>1, <2>2
<1>4. CASE StartNaming
  BY <1>4 DEF StartNaming, Picking
<1>5. CASE NameKey
  BY <1>5 DEF NameKey
<1>6. CASE CreateFolder
  BY <1>6 DEF CreateFolder
<1>7. CASE StopNaming
  BY <1>7 DEF StopNaming
<1> QED BY <1>1, <1>2, <1>3, <1>4, <1>5, <1>6, <1>7 DEF PickerKey

(* Keys of the PIN page: every edit looks at the PIN anew. *)
LEMMA PinKeyStep == IInv /\ PinKey => IInv'
<1> SUFFICES ASSUME IInv, PinKey PROVE IInv'
  OBVIOUS
<1> USE DEF IInv, SelectionInv, PlanInv, FingerprintIsCurrent, PlanIsUsable,
            pagevars, listvars, namevars, pinvars, diskvars
<1>1. ASSUME NEW new, Edits(new), page = "pin" PROVE IInv'
  BY <1>1 DEF Edits
<1>2. CASE PinMove
  BY <1>2 DEF PinMove
<1>3. CASE PinType
  BY <1>1, <1>3 DEF PinType
<1>4. CASE PinBackspace
  BY <1>1, <1>4 DEF PinBackspace
<1>5. CASE PinDelete
  BY <1>1, <1>5 DEF PinDelete
<1>6. CASE PinConfirm
  BY <1>6 DEF PinConfirm, Finishes, NoFingerprint, pin_fingerprint
<1>7. CASE PinRefused
  BY <1>7 DEF PinRefused
<1>8. CASE PinBack
  BY <1>8 DEF PinBack, Goes
<1> QED BY <1>2, <1>3, <1>4, <1>5, <1>6, <1>7, <1>8 DEF PinKey

(* No step of the wizard or of another program breaks the invariant. *)
LEMMA StepPreserves == IInv /\ [Next]_vars => IInv'
<1> SUFFICES ASSUME IInv, [Next]_vars PROVE IInv'
  OBVIOUS
<1>1. CASE Key
  BY <1>1, MenuKeyStep, BrowserKeyStep, PickerKeyStep, PinKeyStep DEF Key
<1>2. CASE OtherPrograms
  BY <1>2 DEF OtherPrograms, IInv, SelectionInv, PlanInv, FingerprintIsCurrent,
              PlanIsUsable, pagevars, listvars, namevars, pinvars
<1>3. CASE UNCHANGED vars
  BY <1>3 DEF vars, IInv, SelectionInv, PlanInv, FingerprintIsCurrent,
              PlanIsUsable, pagevars, listvars, namevars, pinvars, diskvars
<1> QED BY <1>1, <1>2, <1>3 DEF Next

-----------------------------------------------------------------------------
(* The wizard's cursors *)

(* A set of natural numbers has a least element. *)
LEMMA Least ==
  ASSUME NEW N \in SUBSET Nat, N # {}
  PROVE  \E m \in N : \A k \in N : m <= k
<1> DEFINE R == OpToRel(<, Nat)
<1>1. IsWellFoundedOn(R, Nat)
  BY NatLessThanWellFounded
<1>2. \A x, y \in Nat : <<x, y>> \in R <=> x < y
  BY DEF OpToRel
<1> HIDE DEF R
<1>3. PICK m \in N : \A k \in N : <<k, m>> \notin R
  BY <1>1, WFMin
<1>4. ASSUME NEW k \in N PROVE m <= k
  <2>1. k \in Nat /\ m \in Nat /\ ~ (k < m)
    BY <1>2, <1>3
  <2> QED BY <2>1
<1> QED BY <1>4

(* Induction: a set that has 0 and is closed under + 1 has them all. *)
LEMMA Induction ==
  ASSUME NEW N, 0 \in N, \A n \in Nat : n \in N => n + 1 \in N
  PROVE  Nat \subseteq N
<1> SUFFICES ASSUME Nat \ N # {} PROVE FALSE
  OBVIOUS
<1>1. PICK m \in Nat \ N : \A k \in Nat \ N : m <= k
  BY Least
<1>2. m # 0 /\ m - 1 \in Nat /\ m - 1 \notin Nat \ N
  BY <1>1
<1> QED BY <1>1, <1>2

(* A function on 1 .. n is a sequence of n. *)
LEMMA FunctionLength ==
  ASSUME NEW n \in Nat, NEW s, s = [i \in 1 .. n |-> s[i]]
  PROVE  Len(s) = n
<1> DEFINE T == {s[i] : i \in 1 .. n}
<1>1. s \in [1 .. n -> T]
  OBVIOUS
<1>2. s \in Seq(T)
  BY <1>1, SeqDef
<1>3. Len(s) \in Nat /\ DOMAIN s = 1 .. Len(s) /\ DOMAIN s = 1 .. n
  BY <1>1, <1>2, LenProperties
<1> QED BY <1>3

(* What is listed of a directory is a sequence. *)
LEMMA ListLength ==
  ASSUME NEW d, NEW all, IsFiniteSet(disk)
  PROVE  Len(BrowserEntries(d, all)) \in Nat /\ Len(PickerEntries(d, all)) \in Nat
<1>1. IsFiniteSet(Listed(d, all)) /\ IsFiniteSet(Listed(d, all) \cap Dirs)
  BY FS_Subset DEF Listed
<1>2. Cardinality(Listed(d, all)) \in Nat /\ Cardinality(Listed(d, all) \cap Dirs) \in Nat
  BY <1>1, FS_CardinalityType
<1> DEFINE b == BrowserEntries(d, all)
           p == PickerEntries(d, all)
<1> DEFINE L == Listed(d, all)
           e(i) == CHOOSE n \in L : Cardinality({m \in L : BrowserOrder(m, n)}) = i - 1
           D == Listed(d, all) \cap Dirs
           g(i) == CHOOSE n \in D : Cardinality({m \in D : m < n}) = i - 1
<1>3. b = [i \in 1 .. Cardinality(L) |-> e(i)]
  BY DEF BrowserEntries, InOrder
<1>4. p = [i \in 1 .. Cardinality(D) |-> g(i)]
  BY DEF PickerEntries, InOrder
<1> HIDE DEF e, g
<1>5. b = [i \in 1 .. Cardinality(L) |-> b[i]] /\ p = [i \in 1 .. Cardinality(D) |-> p[i]]
  BY <1>3, <1>4
<1> HIDE DEF b, p
<1>6. Len(b) = Cardinality(L)
  BY <1>2, <1>5, FunctionLength
<1>7. Len(p) = Cardinality(D)
  BY <1>2, <1>5, FunctionLength
<1> QED BY <1>2, <1>6, <1>7 DEF b, p

(* Inserting, for a prover that does not see through sums of places. *)
LEMMA InsertDef ==
  ASSUME NEW s, NEW i, NEW c
  PROVE  InsertAt(s, i, c) = SubSeq(s, 1, i - 1) \o <<c>> \o SubSeq(s, i, Len(s))
BY DEF InsertAt

(* What is inserted leaves what is before it alone. *)
LEMMA InsertFacts ==
  ASSUME NEW S, NEW s \in Seq(S), NEW k \in 0 .. Len(s), NEW c \in S
  PROVE  /\ InsertAt(s, k + 1, c) \in Seq(S)
         /\ Len(InsertAt(s, k + 1, c)) = Len(s) + 1
         /\ InsertAt(s, k + 1, c)[k + 1] = c
         /\ \A i \in 1 .. k : InsertAt(s, k + 1, c)[i] = s[i]
<1> DEFINE a == SubSeq(s, 1, k)
           b == SubSeq(s, k + 1, Len(s))
<1>1. InsertAt(s, k + 1, c) = a \o <<c>> \o b
  <2> DEFINE i == k + 1
  <2>1. i - 1 = k
    OBVIOUS
  <2> HIDE DEF i
  <2>2. InsertAt(s, i, c) = SubSeq(s, 1, k) \o <<c>> \o SubSeq(s, i, Len(s))
    BY <2>1, InsertDef
  <2> QED BY <2>2 DEF i
<1>2. /\ a \in Seq(S) /\ b \in Seq(S) /\ <<c>> \in Seq(S)
      /\ Len(a) = k /\ Len(b) = Len(s) - k /\ Len(s) \in Nat
      /\ \A i \in 1 .. k : a[i] = s[i]
  OBVIOUS
<1> HIDE DEF a, b
<1>3. /\ a \o <<c>> \in Seq(S) /\ Len(a \o <<c>>) = k + 1
      /\ (a \o <<c>>)[k + 1] = c /\ \A i \in 1 .. k : (a \o <<c>>)[i] = s[i]
  BY <1>2
<1> DEFINE x == a \o <<c>>
<1> HIDE DEF x
<1>4. x \in Seq(S) /\ Len(x) = k + 1 /\ x[k + 1] = c /\ \A i \in 1 .. k : x[i] = s[i]
  BY <1>3 DEF x
<1>5. /\ x \o b \in Seq(S) /\ Len(x \o b) = k + 1 + Len(b)
      /\ \A i \in 1 .. k + 1 : (x \o b)[i] = x[i]
  BY <1>2, <1>4
<1>6. InsertAt(s, k + 1, c) = x \o b
  BY <1>1 DEF x
<1>7. Len(x \o b) = Len(s) + 1 /\ (x \o b)[k + 1] = c
  BY <1>2, <1>4, <1>5
<1>8. \A i \in 1 .. k : (x \o b)[i] = s[i]
  BY <1>4, <1>5
<1> QED BY <1>5, <1>6, <1>7, <1>8

(* The same of what is removed. *)
LEMMA RemoveFacts ==
  ASSUME NEW S, NEW s \in Seq(S), NEW k \in 1 .. Len(s)
  PROVE  /\ RemoveAt(s, k) \in Seq(S) /\ Len(RemoveAt(s, k)) = Len(s) - 1
         /\ \A i \in 1 .. k - 1 : RemoveAt(s, k)[i] = s[i]
<1> DEFINE a == SubSeq(s, 1, k - 1)
           b == SubSeq(s, k + 1, Len(s))
<1>1. RemoveAt(s, k) = a \o b
  BY DEF RemoveAt
<1>2. /\ a \in Seq(S) /\ b \in Seq(S)
      /\ Len(a) = k - 1 /\ Len(b) = Len(s) - k /\ Len(s) \in Nat
      /\ \A i \in 1 .. k - 1 : a[i] = s[i]
  OBVIOUS
<1> HIDE DEF a, b
<1> QED BY <1>1, <1>2

(* The bytes of the first letters are those of the letters before and of   *)
(* the last one.                                                           *)
LEMMA BytesNext ==
  ASSUME NEW name, NEW k \in Nat, IsFiniteSet(BytesOf(name, k)), Width[name[k + 1]] \in Nat
  PROVE  /\ IsFiniteSet(BytesOf(name, k + 1))
         /\ Offset(name, k + 1) = Offset(name, k) + Width[name[k + 1]]
         /\ Offset(name, k) \in Nat
<1> DEFINE w == Width[name[k + 1]]
           last == {k + 1} \X (1 .. w)
<1>1. BytesOf(name, k + 1) = BytesOf(name, k) \cup last
  <2>1. 1 .. k + 1 = (1 .. k) \cup {k + 1}
    OBVIOUS
  <2> QED BY <2>1 DEF BytesOf
<1>2. BytesOf(name, k) \cap last = {}
  <2>1. \A x \in BytesOf(name, k) : x[1] \in 1 .. k
    BY DEF BytesOf
  <2>2. \A x \in last : x[1] = k + 1
    OBVIOUS
  <2> QED BY <2>1, <2>2
<1>3. IsFiniteSet(last) /\ Cardinality(last) = w
  <2>1. IsFiniteSet({k + 1}) /\ Cardinality({k + 1}) = 1
    BY FS_Singleton
  <2>2. IsFiniteSet(1 .. w) /\ Cardinality(1 .. w) = IF 1 > w THEN 0 ELSE w - 1 + 1
    <3>1. 1 \in Int /\ w \in Int
      OBVIOUS
    <3> QED BY <3>1, FS_Interval
  <2>3. Cardinality(1 .. w) = w
    BY <2>2
  <2>4. /\ IsFiniteSet(last)
        /\ Cardinality(last) = Cardinality({k + 1}) * Cardinality(1 .. w)
    BY <2>1, <2>2, FS_Product
  <2>5. w \in Nat
    OBVIOUS
  <2> HIDE DEF w, last
  <2> QED BY <2>1, <2>3, <2>4, <2>5
<1> HIDE DEF last
<1>4. /\ IsFiniteSet(BytesOf(name, k) \cup last)
      /\ Cardinality(BytesOf(name, k) \cup last) =
             Cardinality(BytesOf(name, k)) + Cardinality(last) - Cardinality({})
  BY <1>2, <1>3, FS_Union
<1>5. Cardinality({}) = 0 /\ Cardinality(BytesOf(name, k)) \in Nat
  BY FS_EmptySet, FS_CardinalityType
<1>6. w \in Nat
  OBVIOUS
<1> HIDE DEF w
<1>7. Cardinality(BytesOf(name, k) \cup last) = Cardinality(BytesOf(name, k)) + w
  BY <1>3, <1>4, <1>5, <1>6
<1> QED BY <1>1, <1>4, <1>5, <1>7 DEF Offset, w

(* The bytes of any number of letters are finitely many. *)
LEMMA BytesFinite ==
  ASSUME NEW name \in Seq(Letters), NEW k \in 0 .. Len(name)
  PROVE  IsFiniteSet(BytesOf(name, k))
<1> DEFINE Reached == {m \in Nat : m <= Len(name) => IsFiniteSet(BytesOf(name, m))}
<1>1. 0 \in Reached
  <2>1. BytesOf(name, 0) = {}
    BY DEF BytesOf
  <2> QED BY <2>1, FS_EmptySet
<1>2. ASSUME NEW m \in Nat, m \in Reached PROVE m + 1 \in Reached
  <2> SUFFICES ASSUME m + 1 <= Len(name) PROVE IsFiniteSet(BytesOf(name, m + 1))
    OBVIOUS
  <2>1. Width[name[m + 1]] \in Nat
    BY WizardAssumption
  <2>2. IsFiniteSet(BytesOf(name, m))
    BY <1>2
  <2> QED BY <2>1, <2>2, BytesNext
<1> HIDE DEF Reached
<1>3. Nat \subseteq Reached
  BY <1>1, <1>2, Induction
<1> QED BY <1>3 DEF Reached

(* Where the letters of a name begin. *)
LEMMA OffsetNext ==
  ASSUME NEW name \in Seq(Letters), NEW k \in Nat, k + 1 <= Len(name)
  PROVE  /\ Offset(name, k + 1) = Offset(name, k) + Width[name[k + 1]]
         /\ Offset(name, k) \in Nat /\ Width[name[k + 1]] \in Nat
<1>1. k \in 0 .. Len(name) /\ Width[name[k + 1]] \in Nat
  BY WizardAssumption
<1> QED BY <1>1, BytesFinite, BytesNext

(* It depends on the letters before only. *)
LEMMA OffsetAgrees ==
  ASSUME NEW a, NEW b, NEW k \in Nat, \A i \in 1 .. k : a[i] = b[i]
  PROVE  Offset(a, k) = Offset(b, k)
BY DEF Offset, BytesOf

(* The first letter begins at the first byte. *)
LEMMA OffsetEmpty ==
  ASSUME NEW name
  PROVE  Offset(name, 0) = 0
<1>1. BytesOf(name, 0) = {}
  BY DEF BytesOf
<1> QED BY <1>1, FS_EmptySet DEF Offset

(* The inductive form of CursorsInside. *)
CursorInv ==
    /\ disk \subseteq Nodes /\ Len(entries) \in Nat
    /\ cursor \in AtMost(1, Len(entries)) .. Len(entries)
    /\ new_name \in Seq(Letters)
    /\ naming => Boundary(new_name, name_cursor) # {}
    /\ input \in Seq(Typed) /\ input_cursor \in 0 .. Len(input)

(* The cursor of a list that is shown anew is at its first entry. *)
LEMMA ShownCursor ==
  ASSUME NEW n \in Nat
  PROVE  AtMost(1, n) \in Nat /\ AtMost(1, n) \in AtMost(1, n) .. n
BY DEF AtMost

(* So is one that is read again, of whatever directory. *)
LEMMA BrowsesKeeps ==
  ASSUME CursorInv, NEW d, NEW all, Browses(d, all) \/ Picks(d, all) \/ ShowsNothing
  PROVE  Len(entries') \in Nat /\ cursor' \in AtMost(1, Len(entries')) .. Len(entries')
<1>1. Len(BrowserEntries(d, all)) \in Nat /\ Len(PickerEntries(d, all)) \in Nat
  <2>1. IsFiniteSet(disk)
    BY FS_Subset, WizardAssumption DEF CursorInv
  <2> QED BY <2>1, ListLength
<1>2. Len(<<>>) = 0
  OBVIOUS
<1>3. PICK list : entries' = list /\ cursor' = AtMost(1, Len(list)) /\ Len(list) \in Nat
  BY <1>1, <1>2 DEF Browses, Picks, ShowsNothing, Shows
<1> QED BY <1>3, ShownCursor

(* Up and down. *)
LEMMA MovesKeep ==
  ASSUME CursorInv
  PROVE  /\ MoveList => cursor' \in AtMost(1, Len(entries)) .. Len(entries)
         /\ cursor # 0 => AtMost(cursor + 1, Len(entries))
                              \in AtMost(1, Len(entries)) .. Len(entries)
BY DEF CursorInv, MoveList, AtMost, AtLeast

(* What CursorInv says of each of the three cursors. *)
ListCursor ==
    Len(entries) \in Nat /\ cursor \in AtMost(1, Len(entries)) .. Len(entries)
NameCursor ==
    new_name \in Seq(Letters) /\ (naming => Boundary(new_name, name_cursor) # {})
PinCursor == input \in Seq(Typed) /\ input_cursor \in 0 .. Len(input)

(* Each is kept by what leaves its variables alone. *)
LEMMA CursorFrames ==
  ASSUME CursorInv
  PROVE  /\ UNCHANGED diskvars => disk' \subseteq Nodes
         /\ UNCHANGED <<entries, cursor>> => ListCursor'
         /\ UNCHANGED namevars => NameCursor'
         /\ UNCHANGED <<input, input_cursor>> => PinCursor'
BY DEF CursorInv, ListCursor, NameCursor, PinCursor, diskvars, namevars

(* An empty text has its cursor at 0. *)
LEMMA EmptyTexts ==
  /\ naming' = FALSE /\ new_name' = <<>> => NameCursor'
  /\ input' = <<>> /\ input_cursor' = 0 => PinCursor'
<1>1. <<>> \in Seq(Letters) /\ <<>> \in Seq(Typed) /\ Len(<<>>) = 0
  OBVIOUS
<1>2. naming' = FALSE /\ new_name' = <<>> => NameCursor'
  <2> SUFFICES ASSUME naming' = FALSE, new_name' = <<>> PROVE NameCursor'
    OBVIOUS
  <2>1. ~naming' /\ new_name' \in Seq(Letters)
    BY <1>1
  <2> QED BY <2>1 DEF NameCursor
<1>3. input' = <<>> /\ input_cursor' = 0 => PinCursor'
  BY <1>1 DEF PinCursor
<1> QED BY <1>2, <1>3

(* At the start there is nothing to have a cursor in. *)
LEMMA CursorInit == Init => CursorInv
<1> SUFFICES ASSUME Init PROVE CursorInv
  OBVIOUS
<1>1. <<>> \in Seq(Letters) /\ <<>> \in Seq(Typed) /\ Len(<<>>) = 0
  OBVIOUS
<1> QED BY <1>1 DEF Init, CursorInv, AtMost

(* Keys of the menus. *)
LEMMA MenuCursor == CursorInv /\ MenuKey => CursorInv'
<1> SUFFICES ASSUME CursorInv, MenuKey PROVE CursorInv'
  OBVIOUS
<1>1. disk' \subseteq Nodes /\ NameCursor' /\ PinCursor'
  BY CursorFrames
  DEF MenuKey, MenuMove, MainSelect, MainQuit, SendModeSelect, SendModeBack,
      ReceiveModeSelect, ReceiveModeBack, pinvars
<1>2. ListCursor'
  <2>1. CASE UNCHANGED listvars
    BY <2>1, CursorFrames DEF listvars
  <2>2. \/ UNCHANGED listvars
        \/ Browses(StartDir, FALSE) \/ Picks(StartDir, FALSE) \/ ShowsNothing
    BY DEF MenuKey, MenuMove, MainSelect, MainQuit, SendModeSelect, SendModeBack,
           ReceiveModeSelect, ReceiveModeBack
  <2> QED BY <2>1, <2>2, BrowsesKeeps DEF ListCursor
<1> QED BY <1>1, <1>2 DEF CursorInv, ListCursor, NameCursor, PinCursor

(* Keys of the file browser. *)
LEMMA BrowserCursor == CursorInv /\ BrowserKey => CursorInv'
<1> SUFFICES ASSUME CursorInv, BrowserKey PROVE CursorInv'
  OBVIOUS
<1>1. disk' \subseteq Nodes /\ NameCursor' /\ PinCursor'
  BY CursorFrames
  DEF BrowserKey, BrowserNavigate, BrowserMark, BrowserConfirm, BrowserBack, pinvars
<1>2. ListCursor'
  <2>1. CASE BrowserNavigate
    <3>1. \/ MoveList
          \/ \E d : Browses(d, show_hidden) \/ Browses(d, ~show_hidden)
      BY <2>1 DEF BrowserNavigate
    <3>2. CASE MoveList
      BY <3>2, MovesKeep DEF MoveList, ListCursor, CursorInv
    <3> QED BY <3>1, <3>2, BrowsesKeeps DEF ListCursor
  <2>2. CASE BrowserMark
    BY <2>2, MovesKeep DEF BrowserMark, ListCursor, CursorInv
  <2>3. CASE BrowserConfirm
    BY <2>3, CursorFrames DEF BrowserConfirm, listvars
  <2>4. CASE BrowserBack
    BY <2>4, BrowsesKeeps DEF BrowserBack, ListCursor
  <2> QED BY <2>1, <2>2, <2>3, <2>4 DEF BrowserKey
<1> QED BY <1>1, <1>2 DEF CursorInv, ListCursor, NameCursor, PinCursor

(* Every edit of a name leaves the cursor where a letter begins or at the  *)
(* end.                                                                    *)
LEMMA EditCursor ==
  ASSUME NameCursor, naming, naming' = naming, EditName
  PROVE  NameCursor'
<1>0. new_name \in Seq(Letters) /\ Len(new_name) \in Nat
  BY DEF NameCursor
<1>1. ASSUME NEW k \in Nat, new_name' \in Seq(Letters), k <= Len(new_name'),
             name_cursor' = Offset(new_name', k)
      PROVE  NameCursor'
  BY <1>1 DEF NameCursor, Boundary
<1>2. ASSUME NEW c \in Letters, TypeName(c) PROVE NameCursor'
  <2>1. PICK k \in Boundary(new_name, name_cursor) :
           /\ new_name' = InsertAt(new_name, k + 1, c)
           /\ name_cursor' = name_cursor + Width[c]
    BY <1>2 DEF TypeName
  <2>2. k \in 0 .. Len(new_name) /\ name_cursor = Offset(new_name, k)
    BY DEF Boundary
  <2>3. /\ new_name' \in Seq(Letters) /\ Len(new_name') = Len(new_name) + 1
        /\ new_name'[k + 1] = c /\ \A i \in 1 .. k : new_name'[i] = new_name[i]
    BY <1>0, <2>1, <2>2, InsertFacts
  <2>4. k \in Nat /\ k + 1 \in Nat /\ k + 1 <= Len(new_name')
    BY <1>0, <2>2, <2>3
  <2>5. Offset(new_name', k + 1) = Offset(new_name', k) + Width[c]
    BY <2>3, <2>4, OffsetNext
  <2>6. Offset(new_name', k) = Offset(new_name, k)
    BY <2>3, <2>4, OffsetAgrees
  <2> QED BY <1>1, <2>1, <2>2, <2>3, <2>4, <2>5, <2>6
<1>3. ASSUME NEW k \in Boundary(new_name, name_cursor) \ {0},
             name_cursor' = name_cursor - Width[new_name[k]],
             new_name' \in {new_name, RemoveAt(new_name, k)}
      PROVE  NameCursor'
  <2>1. k \in 1 .. Len(new_name) /\ name_cursor = Offset(new_name, k)
    BY <1>0 DEF Boundary
  <2> DEFINE j == k - 1
  <2>2. j \in Nat /\ j + 1 = k /\ j + 1 <= Len(new_name)
    BY <1>0, <2>1
  <2>3. /\ Offset(new_name, k) = Offset(new_name, j) + Width[new_name[k]]
        /\ Offset(new_name, j) \in Nat /\ Width[new_name[k]] \in Nat
    BY <1>0, <2>2, OffsetNext
  <2>4. /\ RemoveAt(new_name, k) \in Seq(Letters)
        /\ Len(RemoveAt(new_name, k)) = Len(new_name) - 1
        /\ \A i \in 1 .. j : RemoveAt(new_name, k)[i] = new_name[i]
    BY <1>0, <2>1, RemoveFacts
  <2>5. /\ new_name' \in Seq(Letters) /\ j <= Len(new_name')
        /\ \A i \in 1 .. j : new_name'[i] = new_name[i]
    BY <1>0, <1>3, <2>2, <2>4
  <2>6. Offset(new_name', j) = Offset(new_name, j)
    BY <2>2, <2>5, OffsetAgrees
  <2>7. name_cursor' = Offset(new_name', j)
    BY <1>3, <2>1, <2>3, <2>6
  <2> HIDE DEF j
  <2> QED BY <1>1, <2>2, <2>5, <2>7
<1>4. ASSUME NEW k \in Boundary(new_name, name_cursor) \ {Len(new_name)},
             name_cursor' = name_cursor + Width[new_name[k + 1]], UNCHANGED new_name
      PROVE  NameCursor'
  <2>1. /\ k \in Nat /\ k + 1 \in Nat /\ k + 1 <= Len(new_name)
        /\ name_cursor = Offset(new_name, k)
    BY <1>0 DEF Boundary
  <2>2. Offset(new_name, k + 1) = Offset(new_name, k) + Width[new_name[k + 1]]
    BY <1>0, <2>1, OffsetNext
  <2> QED BY <1>0, <1>1, <1>4, <2>1, <2>2
<1>5. ASSUME NEW k \in Boundary(new_name, name_cursor) \ {Len(new_name)},
             new_name' = RemoveAt(new_name, k + 1), UNCHANGED name_cursor
      PROVE  NameCursor'
  <2> DEFINE j == k + 1
  <2>1. k \in Nat /\ j \in 1 .. Len(new_name) /\ j - 1 = k /\ name_cursor = Offset(new_name, k)
    BY <1>0 DEF Boundary
  <2>2. new_name' = RemoveAt(new_name, j)
    BY <1>5
  <2> HIDE DEF j
  <2>3. /\ new_name' \in Seq(Letters) /\ Len(new_name') = Len(new_name) - 1
        /\ \A i \in 1 .. j - 1 : new_name'[i] = new_name[i]
    BY <1>0, <2>1, <2>2, RemoveFacts
  <2>4. \A i \in 1 .. k : new_name'[i] = new_name[i]
    BY <2>1, <2>3
  <2>5. Offset(new_name', k) = Offset(new_name, k)
    BY <2>1, <2>4, OffsetAgrees
  <2>6. k <= Len(new_name')
    BY <1>0, <2>1, <2>3
  <2> QED BY <1>1, <1>5, <2>1, <2>3, <2>5, <2>6
<1>6. ASSUME name_cursor' \in {0, Bytes(new_name)}, UNCHANGED new_name
      PROVE  NameCursor'
  <2>1. Offset(new_name, 0) = 0 /\ Bytes(new_name) = Offset(new_name, Len(new_name))
    BY OffsetEmpty DEF Bytes
  <2> QED BY <1>0, <1>1, <1>6, <2>1
<1> QED BY <1>2, <1>3, <1>4, <1>5, <1>6 DEF EditName

(* Keys of the directory picker. *)
LEMMA PickerCursor == CursorInv /\ PickerKey => CursorInv'
<1> SUFFICES ASSUME CursorInv, PickerKey PROVE CursorInv'
  OBVIOUS
<1> USE DEF pagevars, listvars, pinvars
<1>1. CASE PickerNavigate
  <2>1. disk' \subseteq Nodes /\ NameCursor' /\ PinCursor'
    BY <1>1, CursorFrames DEF PickerNavigate
  <2>2. MoveList \/ \E d : Picks(d, show_hidden) \/ Picks(d, ~show_hidden)
    BY <1>1 DEF PickerNavigate
  <2>3. MoveList => ListCursor'
    BY MovesKeep DEF MoveList, ListCursor, CursorInv
  <2>4. ListCursor'
    BY <2>2, <2>3, BrowsesKeeps DEF ListCursor
  <2> QED BY <2>1, <2>4 DEF CursorInv, ListCursor, NameCursor, PinCursor
<1>2. CASE PickerBack
  <2>1. disk' \subseteq Nodes /\ NameCursor' /\ PinCursor'
    BY <1>2, CursorFrames DEF PickerBack
  <2>2. ListCursor'
    BY <1>2, BrowsesKeeps DEF PickerBack, ListCursor
  <2> QED BY <2>1, <2>2 DEF CursorInv, ListCursor, NameCursor, PinCursor
<1>3. CASE PickerChoose
  <2>1. disk' \subseteq Nodes /\ NameCursor'
    BY <1>3, CursorFrames DEF PickerChoose
  <2>2. ListCursor'
    BY <1>3, BrowsesKeeps DEF PickerChoose, ListCursor
  <2>3. PinCursor'
    BY <1>3, CursorFrames, EmptyTexts DEF PickerChoose
  <2> QED BY <2>1, <2>2, <2>3 DEF CursorInv, ListCursor, NameCursor, PinCursor
<1>4. CASE StartNaming
  <2>1. disk' \subseteq Nodes /\ ListCursor' /\ PinCursor'
    BY <1>4, CursorFrames DEF StartNaming
  <2>2. new_name' \in Seq(Letters) /\ Boundary(new_name', name_cursor') # {}
    <3>1. new_name' = <<>> /\ name_cursor' = 0
      BY <1>4 DEF StartNaming
    <3>2. new_name' \in Seq(Letters) /\ Len(new_name') = 0
      BY <3>1
    <3>3. 0 \in Boundary(new_name', name_cursor')
      BY <3>1, <3>2, OffsetEmpty DEF Boundary
    <3> QED BY <3>2, <3>3
  <2> QED BY <2>1, <2>2 DEF CursorInv, ListCursor, PinCursor
<1>5. CASE NameKey
  <2>1. disk' \subseteq Nodes /\ ListCursor' /\ PinCursor'
    BY <1>5, CursorFrames DEF NameKey
  <2>2. NameCursor'
    BY <1>5, EditCursor DEF NameKey, CursorInv, NameCursor
  <2> QED BY <2>1, <2>2 DEF CursorInv, ListCursor, NameCursor, PinCursor
<1>6. CASE CreateFolder
  <2>1. PinCursor' /\ NameCursor'
    BY <1>6, CursorFrames, EmptyTexts DEF CreateFolder, EndsNaming
  <2>2. disk' \subseteq Nodes
    BY <1>6, WizardAssumption DEF CreateFolder, CursorInv
  <2>3. ListCursor'
    <3>1. entries' = <<>> /\ cursor' = AtMost(1, Len(<<>>)) /\ Len(<<>>) = 0
      BY <1>6 DEF CreateFolder, Shows
    <3> QED BY <3>1, ShownCursor DEF ListCursor
  <2> QED BY <2>1, <2>2, <2>3 DEF CursorInv, ListCursor, NameCursor, PinCursor
<1>7. CASE StopNaming
  <2>1. disk' \subseteq Nodes /\ ListCursor' /\ PinCursor' /\ NameCursor'
    BY <1>7, CursorFrames, EmptyTexts DEF StopNaming, EndsNaming
  <2> QED BY <2>1 DEF CursorInv, ListCursor, NameCursor, PinCursor
<1> QED BY <1>1, <1>2, <1>3, <1>4, <1>5, <1>6, <1>7 DEF PickerKey

(* Keys of the PIN page. *)
LEMMA PinKeyCursor == CursorInv /\ PinKey => CursorInv'
<1> SUFFICES ASSUME CursorInv, PinKey PROVE CursorInv'
  OBVIOUS
<1> USE DEF pagevars, listvars, pinvars
<1>0. input \in Seq(Typed) /\ Len(input) \in Nat /\ input_cursor \in 0 .. Len(input)
  BY DEF CursorInv
<1>1. CASE PinBack
  <2>1. disk' \subseteq Nodes /\ NameCursor' /\ PinCursor'
    BY <1>1, CursorFrames, EmptyTexts DEF PinBack, ResetsPin
  <2>2. ListCursor'
    BY <1>1, BrowsesKeeps DEF PinBack, ListCursor
  <2> QED BY <2>1, <2>2 DEF CursorInv, ListCursor, NameCursor, PinCursor
<1>2. CASE ~PinBack
  <2>1. disk' \subseteq Nodes /\ ListCursor' /\ NameCursor'
    BY <1>2, CursorFrames
    DEF PinKey, PinMove, PinType, PinBackspace, PinDelete, Edits, PinConfirm, PinRefused
  <2>2. PinCursor'
    <3>1. CASE PinMove
      BY <1>0, <3>1 DEF PinMove, PinCursor, AtLeast, AtMost
    <3>2. CASE PinType
      <4>1. PICK c \in Typed : input' = InsertAt(input, input_cursor + 1, c)
        BY <3>2 DEF PinType, Edits
      <4>2. input' \in Seq(Typed) /\ Len(input') = Len(input) + 1
        BY <1>0, <4>1, InsertFacts
      <4>3. input_cursor' = input_cursor + 1
        BY <3>2 DEF PinType
      <4> QED BY <1>0, <4>2, <4>3 DEF PinCursor
    <3>3. CASE PinBackspace
      <4>1. input_cursor \in 1 .. Len(input) /\ input' = RemoveAt(input, input_cursor)
        BY <1>0, <3>3 DEF PinBackspace, Edits
      <4>2. input' \in Seq(Typed) /\ Len(input') = Len(input) - 1
        BY <1>0, <4>1, RemoveFacts
      <4>3. input_cursor' = input_cursor - 1
        BY <3>3 DEF PinBackspace
      <4> QED BY <1>0, <4>1, <4>2, <4>3 DEF PinCursor
    <3>4. CASE PinDelete
      <4> DEFINE j == input_cursor + 1
      <4>1. j \in 1 .. Len(input) /\ input' = RemoveAt(input, j)
        BY <1>0, <3>4 DEF PinDelete, Edits
      <4>2. input_cursor' = j - 1 /\ j \in Int
        BY <1>0, <3>4 DEF PinDelete
      <4> HIDE DEF j
      <4>3. input' \in Seq(Typed) /\ Len(input') = Len(input) - 1
        BY <1>0, <4>1, RemoveFacts
      <4> QED BY <1>0, <4>1, <4>2, <4>3 DEF PinCursor
    <3>5. CASE PinConfirm
      BY <3>5, EmptyTexts DEF PinConfirm, ResetsPin
    <3>6. CASE PinRefused
      BY <3>6, CursorFrames DEF PinRefused
    <3> QED BY <1>2, <3>1, <3>2, <3>3, <3>4, <3>5, <3>6 DEF PinKey
  <2> QED BY <2>1, <2>2 DEF CursorInv, ListCursor, NameCursor, PinCursor
<1> QED BY <1>1, <1>2

(* No step takes a cursor out of what it edits. *)
LEMMA CursorStep == CursorInv /\ [Next]_vars => CursorInv'
<1> SUFFICES ASSUME CursorInv, [Next]_vars PROVE CursorInv'
  OBVIOUS
<1>1. CASE Key
  BY <1>1, MenuCursor, BrowserCursor, PickerCursor, PinKeyCursor DEF Key
<1>2. CASE OtherPrograms \/ UNCHANGED vars
  <2>1. UNCHANGED <<listvars, namevars, pinvars>>
    BY <1>2 DEF OtherPrograms, vars
  <2>2. disk' \subseteq Nodes
    BY <1>2, CursorFrames DEF OtherPrograms, CursorInv, vars
  <2>3. ListCursor' /\ NameCursor' /\ PinCursor'
    BY <2>1, CursorFrames DEF listvars, pinvars
  <2> QED BY <2>2, <2>3 DEF CursorInv, ListCursor, NameCursor, PinCursor
<1> QED BY <1>1, <1>2 DEF Next

(* A wizard that is over has nothing to have a cursor in. *)
LEMMA CursorOver == WizardOver => CursorInv'
<1> SUFFICES ASSUME WizardOver PROVE CursorInv'
  OBVIOUS
<1>1. NameCursor' /\ PinCursor' /\ disk' \subseteq Nodes
  BY EmptyTexts DEF WizardOver
<1>2. ListCursor'
  <2>1. entries' = <<>> /\ cursor' = 0 /\ Len(<<>>) = 0
    BY DEF WizardOver
  <2> QED BY <2>1 DEF ListCursor, AtMost
<1> QED BY <1>1, <1>2 DEF CursorInv, ListCursor, NameCursor, PinCursor

-----------------------------------------------------------------------------
(* The transfer screen *)

Line == [by : {"task", "worker"}, step : Nat, done : BOOLEAN]
UiEvent ==
    [kind : {"ShowPin", "HidePin", "FileExists"}]
        \cup [kind : {"Status", "StatusDone"}, line : Line]

ScreenTypes ==
    /\ tpc \in {"working", "stepping", "asking"} \cup Done
    /\ step \in Nat /\ notes \in Nat
    /\ queue \in Seq(UiEvent)
    /\ modal \in BOOLEAN /\ outcome \in {"none"} \cup Done

(* One question for a task that asks, in the queue or on the screen. *)
QuestionInv ==
    /\ tpc # "asking" => ~modal /\ Waiting = {}
    /\ tpc = "asking" /\ modal => Waiting = {}
    /\ tpc = "asking" /\ ~modal => \E i \in DOMAIN queue : Waiting = {i}

(* The result is the end of a task, which reports nothing any more. *)
ResultInv ==
    outcome # "none" =>
        /\ tpc \in Done
        /\ \A i \in DOMAIN queue :
               queue[i].kind = "Status" /\ queue[i].line.by = "worker"

ScreenInv == ScreenTypes /\ QuestionInv /\ ResultInv

(* Sending puts the event behind what is queued. *)
LEMMA Sending ==
    ASSUME ScreenTypes, NEW e \in UiEvent, Send(e)
    PROVE  /\ queue' \in Seq(UiEvent)
           /\ DOMAIN queue = 1 .. Len(queue) /\ Len(queue) \in Nat
           /\ DOMAIN queue' = 1 .. Len(queue) + 1
           /\ \A i \in 1 .. Len(queue) : queue'[i] = queue[i]
           /\ queue'[Len(queue) + 1] = e
<1>1. queue \in Seq(UiEvent) /\ queue' = Append(queue, e)
  BY DEF ScreenTypes, Send
<1>2. queue' \in Seq(UiEvent) /\ Len(queue') = Len(queue) + 1
  BY <1>1, AppendProperties
<1> QED BY <1>1, <1>2, AppendProperties, LenProperties

(* What is sent is a question only when the task asks. *)
LEMMA SendingOther ==
    ASSUME ScreenTypes, NEW e \in UiEvent, Send(e), e.kind # "FileExists"
    PROVE  Waiting' = Waiting
BY Sending DEF Waiting

(* The event applied is the first, and the others move up. *)
LEMMA Applying ==
    ASSUME ScreenTypes, queue # <<>>, queue' = Tail(queue)
    PROVE  /\ queue' \in Seq(UiEvent)
           /\ Len(queue) \in Nat \ {0} /\ DOMAIN queue = 1 .. Len(queue)
           /\ Head(queue) = queue[1]
           /\ DOMAIN queue' = 1 .. Len(queue) - 1
           /\ \A i \in 1 .. Len(queue) - 1 : queue'[i] = queue[i + 1]
<1>1. queue \in Seq(UiEvent)
  BY DEF ScreenTypes
<1>2. queue' \in Seq(UiEvent) /\ Len(queue') = Len(queue) - 1
  BY <1>1, HeadTailProperties
<1>3. Len(queue) \in Nat \ {0} /\ Head(queue) = queue[1]
  BY <1>1, EmptySeq, HeadTailProperties
<1> QED BY <1>1, <1>2, <1>3, HeadTailProperties, LenProperties

(* Reports of the task, which come before its end. *)
LEMMA TaskReports ==
    ASSUME ScreenInv, BeginStep \/ CompleteStep \/ ShowOrHidePin \/ TaskEnds
    PROVE  ScreenInv'
<1> USE DEF ScreenInv, OnScreen, state, taskvars
<1>1. outcome = "none" /\ outcome' = "none" /\ ScreenTypes
  BY DEF ResultInv, Done, BeginStep, CompleteStep, ShowOrHidePin, TaskEnds
<1>2. ASSUME NEW e \in UiEvent, Send(e), e.kind # "FileExists", UNCHANGED modal,
             tpc \in {"working", "stepping"}, tpc' \in {"working", "stepping"},
             step' \in Nat, notes' \in Nat
      PROVE  ScreenInv'
  BY <1>1, <1>2, Sending, SendingOther DEF ScreenTypes, QuestionInv, ResultInv
<1>3. CASE BeginStep
  <2>1. Status(Report("task", step + 1, FALSE)) \in UiEvent
    BY <1>1 DEF Status, Report, UiEvent, Line, ScreenTypes
  <2> QED BY <1>1, <1>2, <1>3, <2>1 DEF BeginStep, Status, ScreenTypes
<1>4. CASE CompleteStep
  <2>1. StatusDone(Report("task", step, TRUE)) \in UiEvent
    BY <1>1 DEF StatusDone, Report, UiEvent, Line, ScreenTypes
  <2> QED BY <1>1, <1>2, <1>4, <2>1 DEF CompleteStep, StatusDone, ScreenTypes
<1>5. CASE ShowOrHidePin
  <2>1. \A kind \in {"ShowPin", "HidePin"} :
            Plain(kind) \in UiEvent /\ Plain(kind).kind # "FileExists"
    BY DEF Plain, UiEvent
  <2> QED BY <1>1, <1>2, <1>5, <2>1 DEF ShowOrHidePin, ScreenTypes
<1>6. CASE TaskEnds
  BY <1>1, <1>6 DEF TaskEnds, ScreenTypes, QuestionInv, ResultInv, Waiting, Done
<1> QED BY <1>3, <1>4, <1>5, <1>6

(* The question goes behind what is queued, and is the only one. *)
LEMMA TaskAsks == ASSUME ScreenInv, Ask PROVE ScreenInv'
<1> DEFINE q == Plain("FileExists")
<1>1. q \in UiEvent /\ q.kind = "FileExists"
  BY DEF Plain, UiEvent
<1>2. /\ ScreenTypes /\ Send(q) /\ tpc = "working" /\ tpc' = "asking"
      /\ ~modal /\ ~modal' /\ Waiting = {} /\ outcome = "none" /\ outcome' = "none"
      /\ step' \in Nat /\ notes' \in Nat /\ modal' \in BOOLEAN
  BY DEF ScreenInv, ScreenTypes, QuestionInv, ResultInv, Done, Ask, OnScreen, state
<1> HIDE DEF q
<1>3. Waiting' = {Len(queue) + 1}
  BY <1>1, <1>2, Sending DEF Waiting
<1>4. ScreenTypes'
  BY <1>1, <1>2, Sending DEF ScreenTypes
<1>5. Len(queue) + 1 \in DOMAIN queue'
  BY <1>1, <1>2, Sending
<1>6. QuestionInv'
  BY <1>2, <1>3, <1>5 DEF QuestionInv
<1> QED BY <1>2, <1>4, <1>6 DEF ScreenInv, ResultInv

(* The worker reports before the result and after it. *)
LEMMA WorkerKeeps == ASSUME ScreenInv, WorkerReports PROVE ScreenInv'
<1> DEFINE e == Status(Report("worker", notes + 1, FALSE))
<1>1. /\ e \in UiEvent /\ e.kind = "Status" /\ e.line.by = "worker"
      /\ ScreenTypes /\ Send(e) /\ UNCHANGED <<tpc, step, modal, outcome>>
      /\ notes' \in Nat
  BY DEF ScreenInv, ScreenTypes, WorkerReports, OnScreen, state, Status, Report, UiEvent, Line
<1> HIDE DEF e
<1>2. Waiting' = Waiting
  BY <1>1, SendingOther
<1> QED BY <1>1, <1>2, Sending DEF ScreenInv, ScreenTypes, QuestionInv, ResultInv

(* Applying the question shows it, applying anything else lets it move up. *)
LEMMA ScreenApplies == ASSUME ScreenInv, ApplyEvent PROVE ScreenInv'
<1>1. /\ ScreenTypes /\ queue # <<>> /\ queue' = Tail(queue)
      /\ UNCHANGED <<tpc, step, notes, outcome>>
      /\ modal' = (modal \/ Head(queue).kind = "FileExists")
  BY DEF ScreenInv, ApplyEvent, taskvars
<1>2. ScreenTypes'
  BY <1>1, Applying DEF ScreenTypes
<1>3. \A i \in 1 .. Len(queue) - 1 : i + 1 \in 1 .. Len(queue) /\ queue'[i] = queue[i + 1]
  BY <1>1, Applying
<1>4. ResultInv'
  BY <1>1, <1>3, Applying DEF ScreenInv, ResultInv
<1>5. \A i : i \in Waiting' <=> i \in 1 .. Len(queue) - 1 /\ i + 1 \in Waiting
  BY <1>1, <1>3, Applying DEF Waiting
<1>6. (Head(queue).kind = "FileExists") <=> 1 \in Waiting
  BY <1>1, Applying DEF Waiting
<1>7. QuestionInv'
  <2>1. CASE Waiting = {}
    BY <1>1, <1>5, <1>6, <2>1 DEF ScreenInv, QuestionInv, ScreenTypes
  <2>2. ASSUME NEW j \in DOMAIN queue, Waiting = {j} PROVE QuestionInv'
    <3>1. tpc = "asking" /\ ~modal
      BY <2>2 DEF ScreenInv, QuestionInv
    <3>2. CASE j = 1
      <4>1. \A i \in Nat : i \in 1 .. Len(queue) - 1 => i + 1 # 1
        OBVIOUS
      <4>2. Waiting' = {}
        <5> SUFFICES ASSUME NEW i, i \in Waiting' PROVE FALSE
          OBVIOUS
        <5>1. i \in 1 .. Len(queue) - 1 /\ i + 1 = 1
          BY <1>5, <2>2, <3>2
        <5> QED BY <4>1, <5>1
      <4>3. modal' /\ tpc' = "asking"
        BY <1>1, <1>6, <2>2, <3>1, <3>2
      <4> QED BY <4>2, <4>3 DEF QuestionInv
    <3>3. CASE j # 1
      <4>1. j - 1 \in DOMAIN queue' /\ Waiting' = {j - 1}
        BY <1>1, <1>5, <2>2, <3>3, Applying
      <4> QED BY <1>1, <1>6, <2>2, <3>1, <3>3, <4>1 DEF QuestionInv
    <3> QED BY <3>2, <3>3
  <2> QED BY <2>1, <2>2 DEF ScreenInv, QuestionInv
<1> QED BY <1>2, <1>4, <1>7 DEF ScreenInv

(* Joining an ended task, which asks nothing, empties the queue. *)
LEMMA ScreenJoins == ASSUME ScreenInv, Join PROVE ScreenInv'
<1>1. /\ ScreenTypes /\ tpc \in Done /\ ~modal /\ Waiting = {}
      /\ UNCHANGED <<tpc, step, notes>> /\ outcome' = tpc /\ queue' = <<>> /\ ~modal'
  BY DEF ScreenInv, QuestionInv, Join, Done, taskvars
<1>2. <<>> \in Seq(UiEvent) /\ Waiting' = {} /\ DOMAIN queue' = {}
  BY <1>1 DEF Waiting
<1>3. modal' \in BOOLEAN
  BY DEF Join
<1> QED BY <1>1, <1>2, <1>3 DEF ScreenInv, ScreenTypes, QuestionInv, ResultInv, Done

(* The keys: only the answer changes what the task waits for. *)
LEMMA ScreenKeys ==
    ASSUME ScreenInv, AnswerModal \/ OtherKey \/ KeyR \/ CtrlC
    PROVE  ScreenInv'
<1> USE DEF ScreenInv, ScreenTypes, QuestionInv, ResultInv, Waiting, Done, taskvars, state
<1>1. CASE AnswerModal
  BY <1>1 DEF AnswerModal
<1>2. CASE OtherKey \/ KeyR \/ CtrlC
  BY <1>2 DEF OtherKey, KeyR, CtrlC
<1> QED BY <1>1, <1>2

(* A step of task, worker or screen keeps the invariant. *)
LEMMA ScreenStepKeeps == ScreenInv /\ [ScreenNext]_screenvars => ScreenInv'
<1> SUFFICES ASSUME ScreenInv, [ScreenNext]_screenvars PROVE ScreenInv'
  OBVIOUS
<1>1. CASE UNCHANGED screenvars
  BY <1>1 DEF screenvars, taskvars, state, ScreenInv, ScreenTypes, QuestionInv, ResultInv,
              Waiting
<1> QED BY <1>1, TaskReports, TaskAsks, WorkerKeeps, ScreenApplies, ScreenJoins, ScreenKeys
        DEF ScreenNext, TaskStep, ScreenStep

-----------------------------------------------------------------------------
(* A run of the program *)

(* At the start the wizard is at its first page and the screen has nothing. *)
LEMMA TuiInitially == TuiInit => IInv /\ ScreenInv
<1> SUFFICES ASSUME TuiInit PROVE IInv /\ ScreenInv
  OBVIOUS
<1>1. IInv
  BY InitEstablishes DEF TuiInit
<1>2. /\ tpc = "working" /\ step = 0 /\ notes = 0 /\ queue = <<>>
      /\ modal = FALSE /\ outcome = "none" /\ Waiting = {}
  BY DEF TuiInit, ScreenInit, Waiting
<1>3. <<>> \in Seq(UiEvent)
  OBVIOUS
<1>4. ScreenTypes
  BY <1>2, <1>3 DEF ScreenTypes
<1> QED BY <1>1, <1>2, <1>4 DEF ScreenInv, QuestionInv, ResultInv

(* The wizard that is over has no plan and no PIN.  *)
LEMMA OverKeeps == WizardOver => IInv'
BY DEF WizardOver, IInv, SelectionInv, PlanInv, FingerprintIsCurrent, PlanIsUsable, NoPlan

(* Each part of the program moves by its own steps or is left behind. *)
LEMMA TuiSteps ==
    [TuiNext]_tuivars => /\ [Next]_vars \/ WizardOver
                         /\ [ScreenNext]_screenvars
BY DEF TuiNext, tuivars, InWizard, WizardInterrupted, WizardQuit, StartTransfer,
   LeaveScreen, OnTransferScreen, ScreenReturns, ManualReturns, ScreenNext, TaskStep

(* Both invariants hold throughout. *)
THEOREM TuiInvariant == TuiSpec => [](IInv /\ ScreenInv)
<1>1. IInv /\ ScreenInv /\ [TuiNext]_tuivars => (IInv /\ ScreenInv)'
  BY TuiSteps, OverKeeps, StepPreserves, ScreenStepKeeps
<1> QED BY <1>1, TuiInitially, PTL DEF TuiSpec

(* The fingerprint that the user compares with the sender's is that of the *)
(* PIN as it stands, however it was edited; an error never stands beside a *)
(* valid PIN.                                                              *)
THEOREM FingerprintAlwaysCurrent == TuiSpec => []FingerprintIsCurrent
<1>1. IInv => FingerprintIsCurrent
  BY DEF IInv
<1> QED BY <1>1, TuiInvariant, PTL

(* A plan to send has something to send, a plan to receive a valid PIN. *)
THEOREM PlanAlwaysUsable == TuiSpec => []PlanIsUsable
<1>1. IInv => PlanIsUsable
  BY DEF IInv
<1> QED BY <1>1, TuiInvariant, PTL

(* Once the result is on the screen nothing of the task comes after it:    *)
(* the queue was drained when the task was joined, and a task that ended   *)
(* had no question open.                                                   *)
THEOREM ResultAlwaysLast == TuiSpec => []ResultComesLast
<1>1. ScreenInv => ResultComesLast
  BY DEF ScreenInv, QuestionInv, ResultInv, ResultComesLast, Done
<1> QED BY <1>1, TuiInvariant, PTL

(* The question of a task that asks is in the queue or on the screen until *)
(* it is answered, and only once.                                          *)
THEOREM QuestionAlwaysKept == TuiSpec => []QuestionNeverLost
<1>1. ScreenInv => QuestionNeverLost
  <2> SUFFICES ASSUME ScreenInv PROVE QuestionNeverLost
    OBVIOUS
  <2>1. CASE Waiting = {}
    <3>1. Cardinality(Waiting) = 0
      BY <2>1, FS_EmptySet
    <3> QED BY <2>1, <3>1 DEF ScreenInv, ScreenTypes, QuestionInv, QuestionNeverLost, Count
  <2>2. ASSUME NEW i, Waiting = {i} PROVE QuestionNeverLost
    <3>1. Cardinality(Waiting) = 1
      BY <2>2, FS_Singleton
    <3> QED BY <2>2, <3>1 DEF ScreenInv, ScreenTypes, QuestionInv, QuestionNeverLost, Count
  <2> QED BY <2>1, <2>2 DEF ScreenInv, QuestionInv
<1> QED BY <1>1, TuiInvariant, PTL

(***************************************************************************)
(* No key and no change of the disk takes a cursor out of what it edits or *)
(* chooses from, for any letters of one byte or more: the name's cursor is *)
(* always where a letter begins or at the end.                             *)
(***************************************************************************)
THEOREM CursorsAlwaysInside == TuiSpec => []CursorsInside
<1>1. TuiInit => CursorInv
  BY CursorInit DEF TuiInit
<1>2. CursorInv /\ [TuiNext]_tuivars => CursorInv'
  BY TuiSteps, CursorStep, CursorOver
<1>3. CursorInv => CursorsInside
  BY DEF CursorInv, CursorsInside
<1> QED BY <1>1, <1>2, <1>3, PTL DEF TuiSpec
=============================================================================
