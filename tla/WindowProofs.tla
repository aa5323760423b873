---------------------------- MODULE WindowProofs ----------------------------
(***************************************************************************)
(* A window of the program, however many tabs and panes it has been given, *)
(* and a terminal pane of it, whatever the grid, the buttons, the texts    *)
(* and the keys are.                                                       *)
(*                                                                         *)
(* A pane is in one place of one tab, the focus has somewhere to go, and   *)
(* nothing connected or unsaved is outside every window; a drop moves the  *)
(* tab that was held, a bulk close takes no unsaved work, and the active   *)
(* tab stays.                                                              *)
(*                                                                         *)
(* A selection is on the rows its gesture passed over, a search steps      *)
(* through its matches in reading order and shows each, no button stays    *)
(* down for the program, no paste of several lines goes out unasked, and a *)
(* half-given answer about a host key belongs to the refusal shown.        *)
(***************************************************************************)
EXTENDS MCTerminal, Workspace, FiniteSetTheorems, SequenceTheorems, WellFoundedInduction, TLAPS

-----------------------------------------------------------------------------
(* The card of a refused host key.                                         *)

\* Without a refusal a shown pane offers, and a hidden one has not been asked.
CardInv ==
    /\ refusals \in Nat
    /\ shown /\ refusal = 0 => card = "offered"
    /\ ~shown => asked = 0
    /\ AskedForThis

LEMMA CardStart == Card!CardInit => CardInv
  BY DEF Card!CardInit, CardInv, AskedForThis, Card!AskedForThis

LEMMA CardSame == CardInv /\ UNCHANGED cardState => CardInv'
  BY DEF CardInv, cardState, AskedForThis, Card!AskedForThis

LEMMA CardStep == CardInv /\ Card!CardNext => CardInv'
<1> SUFFICES ASSUME CardInv, Card!CardNext PROVE CardInv'
  OBVIOUS
<1> USE DEF CardInv, AskedForThis, Card!AskedForThis
<1>1. CASE Card!Reconnect
  BY <1>1 DEF Card!Reconnect, Card!Rendered, Card!FromTheOffer
<1>2. CASE Card!Verify
  BY <1>2 DEF Card!Verify
<1>3. CASE Card!Ask
  BY <1>3 DEF Card!Ask, Card!Click
<1>4. CASE Card!Cancel
  BY <1>4 DEF Card!Cancel, Card!Click
<1>5. CASE Card!Confirm
  BY <1>5 DEF Card!Confirm, Card!Click
<1>6. CASE Card!Switch
  BY <1>6 DEF Card!Switch, Card!FromTheOffer
<1>7. CASE Card!Other
  BY <1>7 DEF Card!Other
<1>8. ASSUME NEW r \in removals, NEW ok \in BOOLEAN, Card!Removed(r, ok) PROVE CardInv'
  BY <1>8 DEF Card!Removed, Card!Finish
<1>9. ASSUME NEW k \in Keys, Card!Rekey(k) PROVE CardInv'
  BY <1>9 DEF Card!Rekey
<1> QED BY <1>1, <1>2, <1>3, <1>4, <1>5, <1>6, <1>7, <1>8, <1>9 DEF Card!CardNext
-----------------------------------------------------------------------------
(* What is typed and pasted.                                               *)

Reads == [text : Texts, bracketed : BOOLEAN]
\* What is read of the clipboard is a text, so that a bracketed paste is known as one.
ReadsOfTexts == reads \subseteq Reads /\ bracketed \in BOOLEAN

\* What a step may not do.
Asked ==
    sent' # sent /\ Typing!Several(sent'.text) /\ ~sent'.bracketed /\ asks => question = sent'.text

LEMMA TextStart == Typing!TextInit => ReadsOfTexts
  BY DEF Typing!TextInit, ReadsOfTexts

LEMMA TextSame == ReadsOfTexts /\ UNCHANGED textState => ReadsOfTexts' /\ Asked
  BY DEF textState, ReadsOfTexts, Asked

LEMMA SendsIt ==
    ASSUME NEW t, Typing!Send(t)
    PROVE  UNCHANGED sent \/ sent'.text = t
<1>1. CASE accepts
  <2>1. PICK b : sent' = [text |-> t, bracketed |-> b, n |-> 1 - sent.n]
    BY <1>1, Zenon DEF Typing!Send
  <2> QED BY <2>1
<1> QED BY <1>1 DEF Typing!Send

\* A text that is pasted goes out bracketed, or is of one line, or nothing is asked.
LEMMA PasteAsks ==
    ASSUME ReadsOfTexts, NEW t \in Texts, Typing!PasteText(t)
    PROVE  Asked
<1>1. CASE asks /\ ~bracketed /\ Typing!Several(t) /\ accepts
  BY <1>1 DEF Typing!PasteText, Asked
<1>2. CASE ~(asks /\ ~bracketed /\ Typing!Several(t) /\ accepts)
  <2>1. Typing!Send(t)
    BY <1>2 DEF Typing!PasteText
  <2>2. CASE accepts
    <3>1. sent'.text = t /\ (sent'.bracketed <=> bracketed)
      BY <2>1, <2>2 DEF Typing!Send, ReadsOfTexts
    <3> QED BY <1>2, <2>2, <3>1 DEF Asked
  <2>3. CASE ~accepts
    BY <2>1, <2>3 DEF Typing!Send, Asked
  <2> QED BY <2>2, <2>3
<1> QED BY <1>1, <1>2

LEMMA TextStep == ReadsOfTexts /\ Typing!TextNext => ReadsOfTexts' /\ Asked
<1> SUFFICES ASSUME ReadsOfTexts, Typing!TextNext PROVE ReadsOfTexts' /\ Asked
  OBVIOUS
<1>1. ASSUME NEW t \in Texts, Typing!AskClipboard(t) PROVE ReadsOfTexts' /\ Asked
  BY <1>1 DEF Typing!AskClipboard, ReadsOfTexts, Reads, Asked
<1>2. ASSUME NEW t \in Texts, Typing!MiddlePaste(t) PROVE ReadsOfTexts' /\ Asked
  BY <1>2, PasteAsks DEF Typing!MiddlePaste, ReadsOfTexts
<1>3. ASSUME NEW r \in reads, Typing!Answer(r) PROVE ReadsOfTexts' /\ Asked
  <2>1. ReadsOfTexts' /\ r.text \in Texts
    BY <1>3 DEF Typing!Answer, ReadsOfTexts, Reads
  <2>2. CASE Typing!PasteText(r.text)
    BY <2>1, <2>2, PasteAsks
  <2>3. CASE UNCHANGED sent
    BY <2>1, <2>3 DEF Asked
  <2> QED BY <1>3, <2>1, <2>2, <2>3 DEF Typing!Answer, Typing!Decided
<1>4. CASE Typing!ConfirmPaste
  BY <1>4 DEF Typing!ConfirmPaste, Typing!Send, ReadsOfTexts, Asked
<1>5. CASE Typing!CancelPaste
  BY <1>5 DEF Typing!CancelPaste, ReadsOfTexts, Asked
<1>6. CASE Typing!Key
  BY <1>6, SendsIt DEF Typing!Key, Typing!Several, ReadsOfTexts, Asked
<1>7. CASE Typing!Commit
  BY <1>7, SendsIt DEF Typing!Commit, Typing!Several, ReadsOfTexts, Asked
<1>8. ASSUME NEW on \in BOOLEAN, Typing!Compose(on) PROVE ReadsOfTexts' /\ Asked
  BY <1>8 DEF Typing!Compose, ReadsOfTexts, Asked
<1>9. CASE Typing!ChangeMode
  BY <1>9 DEF Typing!ChangeMode, ReadsOfTexts, Asked
<1>10. CASE Typing!Switch
  BY <1>10 DEF Typing!Switch, ReadsOfTexts, Asked
<1>11. CASE Typing!SetAsks
  BY <1>11 DEF Typing!SetAsks, ReadsOfTexts, Asked
<1> QED BY <1>1, <1>2, <1>3, <1>4, <1>5, <1>6, <1>7, <1>8, <1>9, <1>10, <1>11 DEF Typing!TextNext
-----------------------------------------------------------------------------
(* The mouse.                                                              *)

\* Whoever the program was told of is down and captured, or was missed; and so is what
\* captured it.  A drag of the user's is of a button that the program does not hold.
MouseInv ==
    /\ modes \in Mouse!MouseModes
    /\ pressModes \in [Buttons -> Mouse!MouseModes] /\ told \in [Buttons -> Mouse!MouseModes]
    /\ reported \in [Buttons -> BOOLEAN] /\ mouseSelecting \in BOOLEAN
    /\ \A b \in Buttons :
          Mouse!Reporting(told[b]) =>
              b \in missed \/ (b \in held /\ reported[b] /\ Mouse!Reporting(pressModes[b]))
    /\ \A b \in Buttons : Mouse!Reporting(pressModes[b]) => b \in held \/ b \in missed
    /\ mouseSelecting =>
          /\ "left" \in held \/ "left" \in missed
          /\ Mouse!Reporting(pressModes["left"]) => "left" \in missed
    /\ Mouse!MotionHeard

LEMMA MouseStart == Mouse!MouseInit => MouseInv
<1> SUFFICES ASSUME Mouse!MouseInit PROVE MouseInv
  OBVIOUS
<1>1. Mouse!NoModes \in Mouse!MouseModes /\ ~Mouse!Reporting(Mouse!NoModes)
  BY DEF Mouse!NoModes, Mouse!MouseModes, Mouse!Reporting
<1>2. /\ modes = Mouse!NoModes /\ mouseSelecting = FALSE
      /\ pressModes = [b \in Buttons |-> Mouse!NoModes] /\ told = [b \in Buttons |-> Mouse!NoModes]
      /\ reported = [b \in Buttons |-> FALSE]
      /\ motion = [button |-> Mouse!None, mode |-> "off"]
  BY DEF Mouse!MouseInit
<1>3. reported \in [Buttons -> BOOLEAN]
  BY <1>2, Zenon
<1>4. Mouse!MotionHeard
  BY <1>2 DEF Mouse!MotionHeard
<1> QED BY <1>1, <1>2, <1>3, <1>4, PaneAssumption DEF MouseInv

LEMMA MouseSame == MouseInv /\ UNCHANGED mouseState => MouseInv'
  BY DEF MouseInv, mouseState, Mouse!MotionHeard, Mouse!Reporting

LEMMA MouseHolds == MouseInv => MouseSound
  BY PaneAssumption DEF MouseInv, MouseSound, Mouse!MouseSound, Mouse!ButtonsLetGo, Mouse!DragIsOurs

LEMMA PressKeeps ==
    ASSUME MouseInv, NEW b \in Buttons, NEW bypass \in BOOLEAN, Mouse!Press(b, bypass)
    PROVE  MouseInv'
<1>1. /\ b \notin held /\ held' = held \cup {b}
      /\ UNCHANGED <<modes, motion, missed>>
  BY DEF Mouse!Press
<1>2. CASE Mouse!Reporting(modes) /\ ~bypass
  <2> DEFINE says == Mouse!InGrid(mouseAt) /\ Mouse!Encodable(mouseAt, modes)
  <2>1. PICK yes \in BOOLEAN : yes <=> says
    OBVIOUS
  <2>2. /\ pressModes' = [pressModes EXCEPT ![b] = modes]
        /\ reported' = [reported EXCEPT ![b] = yes]
        /\ told' = IF yes THEN [told EXCEPT ![b] = modes] ELSE told
        /\ mouseSelecting' = FALSE
    BY <1>2, <2>1, Zenon DEF Mouse!Press, Mouse!Capture
  <2> QED BY <1>1, <1>2, <2>2, PaneAssumption DEF MouseInv, Mouse!MotionHeard, Mouse!Reporting
<1>3. CASE ~(Mouse!Reporting(modes) /\ ~bypass)
  <2>1. /\ UNCHANGED <<pressModes, reported, told>>
        /\ mouseSelecting' = (b = "left" \/ mouseSelecting)
    BY <1>3 DEF Mouse!Press
  <2> QED BY <1>1, <2>1, PaneAssumption DEF MouseInv, Mouse!MotionHeard, Mouse!Reporting
<1> QED BY <1>2, <1>3

LEMMA ReleaseKeeps ==
    ASSUME MouseInv, NEW b \in Buttons, Mouse!Release(b)
    PROVE  MouseInv'
<1>1. held' = held \ {b} /\ UNCHANGED <<modes, motion>>
  BY DEF Mouse!Release
<1>2. CASE ~mouseShown
  <2>1. missed' = missed \cup {b} /\ UNCHANGED <<pressModes, reported, told, mouseSelecting>>
    BY <1>2 DEF Mouse!Release
  <2> QED BY <1>1, <2>1, PaneAssumption DEF MouseInv, Mouse!MotionHeard, Mouse!Reporting
<1>3. CASE mouseShown /\ Mouse!Reporting(pressModes[b])
  <2>1. Mouse!ReleaseCaptured(b) /\ UNCHANGED mouseSelecting
    BY <1>3 DEF Mouse!Release
  <2>2. PICK says \in BOOLEAN :
           /\ says => reported[b]
           /\ pressModes' = [pressModes EXCEPT ![b] = Mouse!NoModes]
           /\ reported' = [reported EXCEPT ![b] = FALSE]
           /\ told' = IF says THEN [told EXCEPT ![b] = Mouse!NoModes] ELSE told
           /\ missed' = IF reported[b] /\ ~says THEN missed \cup {b} ELSE missed
    <3> DEFINE cell == IF Mouse!InGrid(mouseAt) THEN mouseAt ELSE lastCell
               says == reported[b] /\ Mouse!Encodable(cell, pressModes[b])
    <3>1. says \in BOOLEAN
      OBVIOUS
    <3> QED BY <2>1, <3>1, Zenon DEF Mouse!ReleaseCaptured
  <2>3. Mouse!NoModes \in Mouse!MouseModes /\ ~Mouse!Reporting(Mouse!NoModes)
    BY DEF Mouse!NoModes, Mouse!MouseModes, Mouse!Reporting
  <2>4. PICK no \in BOOLEAN : ~no /\ reported' = [reported EXCEPT ![b] = no]
    BY <2>2, Zenon
  <2>5. /\ pressModes' \in [Buttons -> Mouse!MouseModes] /\ told' \in [Buttons -> Mouse!MouseModes]
        /\ reported' \in [Buttons -> BOOLEAN]
    BY <2>2, <2>3, <2>4 DEF MouseInv
  <2>6. /\ ~Mouse!Reporting(pressModes'[b])
        /\ \A a \in Buttons \ {b} : /\ pressModes'[a] = pressModes[a] /\ told'[a] = told[a]
                                    /\ reported'[a] = reported[a]
    BY <2>2, <2>3, <2>4 DEF MouseInv
  <2>7. Mouse!Reporting(told'[b]) => b \in missed'
    BY <2>2, <2>3 DEF MouseInv
  <2>8. missed \subseteq missed' /\ UNCHANGED mouseSelecting
    BY <2>1, <2>2
  <2>9. Mouse!MotionHeard'
    BY <1>1 DEF MouseInv, Mouse!MotionHeard
  <2> QED BY <1>1, <1>3, <2>5, <2>6, <2>7, <2>8, <2>9, PaneAssumption DEF MouseInv
<1>4. CASE mouseShown /\ ~Mouse!Reporting(pressModes[b])
  <2>1. /\ mouseSelecting' = (mouseSelecting /\ b # "left")
        /\ UNCHANGED <<pressModes, reported, told, missed>>
    BY <1>4 DEF Mouse!Release
  <2> QED BY <1>1, <1>4, <2>1, PaneAssumption DEF MouseInv, Mouse!MotionHeard, Mouse!Reporting
<1> QED BY <1>2, <1>3, <1>4

LEMMA MoveKeeps ==
    ASSUME MouseInv, NEW p \in Positions, Mouse!Move(p)
    PROVE  MouseInv'
<1>1. UNCHANGED <<modes, held, pressModes, reported, mouseSelecting, told, missed>>
  BY DEF Mouse!Move
<1>2. motion' = motion \/ \E b : Mouse!Reports(p, b) /\ motion' = [button |-> b, mode |-> modes.mouse]
  BY DEF Mouse!Move
<1>3. Mouse!MotionHeard'
  BY <1>2 DEF MouseInv, Mouse!MotionHeard, Mouse!Reports
<1> QED BY <1>1, <1>3 DEF MouseInv, Mouse!Reporting

LEMMA MouseStep == MouseInv /\ Mouse!MouseNext => MouseInv'
<1> SUFFICES ASSUME MouseInv, Mouse!MouseNext PROVE MouseInv'
  OBVIOUS
<1>1. ASSUME NEW m \in Mouse!MouseModes, Mouse!ChangeModes(m) PROVE MouseInv'
  BY <1>1 DEF Mouse!ChangeModes, MouseInv, Mouse!MotionHeard, Mouse!Reporting
<1>2. CASE Mouse!Switch
  BY <1>2 DEF Mouse!Switch, MouseInv, Mouse!MotionHeard, Mouse!Reporting
<1> QED BY <1>1, <1>2, PressKeeps, ReleaseKeeps, MoveKeeps DEF Mouse!MouseNext
-----------------------------------------------------------------------------
(* Numbers.                                                                *)

LEMMA LeastNatural ==
    ASSUME NEW S \in SUBSET Nat, S # {}
    PROVE  \E m \in S : \A k \in S : m <= k
<1> PICK n \in S : TRUE
  OBVIOUS
<1> DEFINE B == {0 .. k : k \in {k \in S : k <= n}}
           I == 0 .. n
<1>1. IsWellFoundedOn(StrictSubsetOrdering(I), SUBSET I)
  <2>1. IsFiniteSet(I)
    BY FS_Interval
  <2> QED BY <2>1, FS_FiniteSubsetsOfFinite, FS_StrictSubsetOrderingWellFounded, Zenon
<1>2. B \subseteq SUBSET I /\ B # {}
  <2>1. n \in {k \in S : k <= n}
    OBVIOUS
  <2> QED BY <2>1
<1>3. \E x \in B : \A y \in B : <<y, x>> \notin StrictSubsetOrdering(I)
  <2> HIDE DEF B, I
  <2> QED BY <1>1, <1>2, WFMin
<1>4. PICK m \in S : m <= n /\ \A y \in B : <<y, 0 .. m>> \notin StrictSubsetOrdering(I)
  BY <1>3
<1>5. ASSUME NEW k \in S, k < m PROVE FALSE
  <2>1. 0 .. k \in B /\ 0 .. m \in B
    BY <1>4, <1>5
  <2>2. 0 .. k \subseteq 0 .. m /\ 0 .. k # 0 .. m
    <3>1. m \in 0 .. m /\ m \notin 0 .. k
      BY <1>5
    <3> QED BY <3>1, <1>5
  <2>3. <<0 .. k, 0 .. m>> \in (SUBSET I) \X (SUBSET I)
    BY <2>1, <1>2
  <2>4. <<0 .. k, 0 .. m>> \in StrictSubsetOrdering(I)
    <3> HIDE DEF I, B
    <3> QED BY <2>2, <2>3 DEF StrictSubsetOrdering
  <2> QED BY <1>4, <2>1, <2>4
<1> QED BY <1>4, <1>5

LEMMA SetInduction ==
    ASSUME NEW T, 0 \in T, \A n \in Nat : n \in T => n + 1 \in T
    PROVE  Nat \subseteq T
<1> SUFFICES ASSUME NEW n \in Nat \ T PROVE FALSE
  OBVIOUS
<1>1. PICK m \in Nat \ T : \A k \in Nat \ T : m <= k
  BY LeastNatural
<1>2. m # 0 /\ m - 1 \in Nat
  BY <1>1
<1>3. m - 1 \in T
  BY <1>1, <1>2
<1> QED BY <1>1, <1>2, <1>3

-----------------------------------------------------------------------------
(* Sets in reading order.                                                  *)

\* Places, or whatever begins with one, that differ in their place.
InLine(S) ==
    /\ \A m \in S : m[1] \in Int /\ m[2] \in Int
    /\ \A m, n \in S : Before(m, n) /\ Before(n, m) => m = n

UpTo(S, m) == {n \in S : Before(n, m)}

LEMMA LastInLine ==
    ASSUME NEW S, IsFiniteSet(S), InLine(S), S # {}
    PROVE  \E m \in S : \A n \in S : Before(n, m)
<1> DEFINE Good(k) == \A T \in SUBSET S :
                          Cardinality(T) = k + 1 => \E m \in T : \A n \in T : Before(n, m)
           G == {k \in Nat : Good(k)}
<1>1. 0 \in G
  <2> SUFFICES ASSUME NEW T \in SUBSET S, Cardinality(T) = 1
               PROVE  \E m \in T : \A n \in T : Before(n, m)
    OBVIOUS
  <2>1. PICK m : T = {m}
    BY FS_Subset, FS_Singleton
  <2> QED BY <2>1 DEF InLine, Before
<1>2. ASSUME NEW k \in Nat, k \in G PROVE k + 1 \in G
  <2> SUFFICES ASSUME NEW T \in SUBSET S, Cardinality(T) = k + 2
               PROVE  \E m \in T : \A n \in T : Before(n, m)
    OBVIOUS
  <2>1. IsFiniteSet(T)
    BY FS_Subset
  <2>2. PICK x \in T : TRUE
    BY <2>1, FS_EmptySet
  <2>3. Cardinality(T \ {x}) = k + 1
    BY <2>1, <2>2, FS_RemoveElement
  <2>4. PICK m \in T \ {x} : \A n \in T \ {x} : Before(n, m)
    BY <1>2, <2>3
  <2>5. CASE Before(x, m)
    BY <2>4, <2>5
  <2>6. CASE ~Before(x, m)
    BY <2>2, <2>4, <2>6 DEF InLine, Before
  <2> QED BY <2>5, <2>6
<1>3. Nat \subseteq G
  <2> HIDE DEF G
  <2> QED BY <1>1, <1>2, SetInduction
<1>4. Cardinality(S) - 1 \in G
  <2>1. Cardinality(S) \in Nat /\ Cardinality(S) # 0
    BY FS_EmptySet, FS_CardinalityType
  <2> HIDE DEF G
  <2> QED BY <1>3, <2>1
<1>5. Cardinality(S) = (Cardinality(S) - 1) + 1
  BY FS_CardinalityType
<1> QED BY <1>4, <1>5

\* In a finite set in line every rank is that of one of its members.
LEMMA RankExists ==
    ASSUME NEW S, IsFiniteSet(S), InLine(S), NEW i \in 1 .. Cardinality(S)
    PROVE  \E m \in S : Cardinality(UpTo(S, m)) = i
<1> DEFINE Good(k) == \A T \in SUBSET S :
                          Cardinality(T) = k =>
                              \A j \in 1 .. k : \E m \in T : Cardinality(UpTo(T, m)) = j
           G == {k \in Nat : Good(k)}
<1>1. 0 \in G
  OBVIOUS
<1>2. ASSUME NEW k \in Nat, k \in G PROVE k + 1 \in G
  <2> SUFFICES ASSUME NEW T \in SUBSET S, Cardinality(T) = k + 1, NEW j \in 1 .. (k + 1)
               PROVE  \E m \in T : Cardinality(UpTo(T, m)) = j
    OBVIOUS
  <2>1. IsFiniteSet(T) /\ T # {} /\ InLine(T)
    BY FS_Subset, FS_EmptySet DEF InLine
  <2>2. PICK m \in T : \A n \in T : Before(n, m)
    BY <2>1, LastInLine
  <2>3. CASE j = k + 1
    <3>1. UpTo(T, m) = T
      BY <2>2 DEF UpTo
    <3> QED BY <2>3, <3>1
  <2>4. CASE j # k + 1
    <3>1. Cardinality(T \ {m}) = k
      BY <2>1, FS_RemoveElement
    <3>2. PICK l \in T \ {m} : Cardinality(UpTo(T \ {m}, l)) = j
      BY <1>2, <2>4, <3>1
    <3>3. ~Before(m, l)
      BY <2>1, <2>2, <3>2 DEF InLine
    <3>4. UpTo(T \ {m}, l) = UpTo(T, l)
      BY <3>3 DEF UpTo
    <3> QED BY <3>2, <3>4
  <2> QED BY <2>3, <2>4
<1>3. Nat \subseteq G
  <2> HIDE DEF G
  <2> QED BY <1>1, <1>2, SetInduction
<1>4. Cardinality(S) \in G
  BY <1>3, FS_CardinalityType
<1> QED BY <1>4

LEMMA InOrderIs ==
    ASSUME NEW S, IsFiniteSet(S), InLine(S), NEW T, S \subseteq T
    PROVE  /\ InOrder(S) \in Seq(T) /\ Len(InOrder(S)) = Cardinality(S)
           /\ \A i \in 1 .. Cardinality(S) : InOrder(S)[i] \in S
<1> DEFINE e(i) == CHOOSE m \in S : Cardinality(UpTo(S, m)) = i
           n == Cardinality(S)
<1>1. n \in Nat
  BY FS_CardinalityType
<1>2. InOrder(S) = [i \in 1 .. n |-> e(i)]
  BY DEF InOrder, UpTo
<1>3. \A i \in 1 .. n : e(i) \in S
  BY RankExists
<1> HIDE DEF e, n
<1>4. InOrder(S) \in [1 .. n -> T]
  BY <1>2, <1>3
<1>5. InOrder(S) \in Seq(T) /\ Len(InOrder(S)) = n
  BY <1>1, <1>4
<1>6. \A i \in 1 .. n : InOrder(S)[i] \in S
  BY <1>2, <1>3
<1> QED BY <1>5, <1>6 DEF n

\* One after the other, and none twice.
Ascending(s) == \A i, j \in 1 .. Len(s) : i < j => Before(s[i], s[j]) /\ ~Before(s[j], s[i])

LEMMA InOrderAscends ==
    ASSUME NEW S, IsFiniteSet(S), InLine(S)
    PROVE  Ascending(InOrder(S))
<1> DEFINE e(i) == CHOOSE m \in S : Cardinality(UpTo(S, m)) = i
           n == Cardinality(S)
<1>1. n \in Nat
  BY FS_CardinalityType
<1>2. InOrder(S) = [i \in 1 .. n |-> e(i)]
  BY DEF InOrder, UpTo
<1>3. \A i \in 1 .. n : e(i) \in S /\ Cardinality(UpTo(S, e(i))) = i
  BY RankExists
<1> HIDE DEF e, n
<1>4. Len(InOrder(S)) = n
  BY <1>1, <1>2
<1>5. ASSUME NEW i \in 1 .. n, NEW j \in 1 .. n, i < j
      PROVE  Before(e(i), e(j)) /\ ~Before(e(j), e(i))
  <2>1. PICK a \in S : a = e(i) /\ Cardinality(UpTo(S, a)) = i
    BY <1>3
  <2>2. PICK b \in S : b = e(j) /\ Cardinality(UpTo(S, b)) = j
    BY <1>3
  <2>3. ~Before(b, a)
    <3> SUFFICES ASSUME Before(b, a) PROVE FALSE
      OBVIOUS
    <3>1. UpTo(S, b) \subseteq UpTo(S, a)
      BY DEF UpTo, InLine, Before
    <3>2. IsFiniteSet(UpTo(S, a))
      BY FS_Subset DEF UpTo
    <3>3. Cardinality(UpTo(S, b)) <= Cardinality(UpTo(S, a))
      BY <3>1, <3>2, FS_Subset
    <3> QED BY <1>5, <2>1, <2>2, <3>3
  <2>4. Before(a, b)
    BY <2>3 DEF InLine, Before
  <2> QED BY <2>1, <2>2, <2>3, <2>4
<1>6. \A i \in 1 .. n : InOrder(S)[i] = e(i)
  BY <1>2
<1> QED BY <1>4, <1>5, <1>6 DEF Ascending
-----------------------------------------------------------------------------
(* What a search finds.                                                    *)

Row == [1..Cols -> Characters]
Match == {m \in Int \X Int \X Int : m[2] <= m[3]}

Free(t, c, n) == \A d \in t : ~(d < c /\ c < d + n)

\* From the left, without overlaps: there is always one way to take the hits.
LEMMA TakenExists ==
    ASSUME NEW hits \in SUBSET (1..Cols), NEW n \in Nat
    PROVE  \E t \in SUBSET hits : \A c \in hits : c \in t <=> Free(t, c, n)
<1> DEFINE Good(k) == \E t \in SUBSET hits :
                         /\ \A c \in t : c <= k
                         /\ \A c \in hits : c <= k => (c \in t <=> Free(t, c, n))
           G == {k \in Nat : Good(k)}
<1>1. 0 \in G
  <2>1. {} \in SUBSET hits /\ \A c \in hits : ~(c <= 0)
    BY ViewAssumption
  <2> QED BY <2>1
<1>2. ASSUME NEW k \in Nat, k \in G PROVE k + 1 \in G
  <2>1. PICK t \in SUBSET hits : /\ \A c \in t : c <= k
                                 /\ \A c \in hits : c <= k => (c \in t <=> Free(t, c, n))
    BY <1>2
  <2>2. hits \subseteq Nat
    BY ViewAssumption
  <2>3. CASE k + 1 \in hits /\ Free(t, k + 1, n)
    <3> DEFINE u == t \cup {k + 1}
    <3>1. \A c \in hits : c <= k => (Free(u, c, n) <=> Free(t, c, n))
      BY <2>2 DEF Free
    <3>2. Free(u, k + 1, n)
      BY <2>3 DEF Free
    <3>3. \A c \in hits : c <= k + 1 => (c \in u <=> Free(u, c, n))
      BY <2>1, <2>2, <3>1, <3>2
    <3> QED BY <2>1, <2>2, <2>3, <3>3
  <2>4. CASE k + 1 \in hits /\ ~Free(t, k + 1, n)
    <3>1. k + 1 \notin t
      BY <2>1
    <3> QED BY <2>1, <2>2, <2>4, <3>1
  <2>5. CASE k + 1 \notin hits
    BY <2>1, <2>2, <2>5
  <2> QED BY <2>3, <2>4, <2>5
<1>3. Cols \in G
  <2> HIDE DEF G
  <2> QED BY <1>1, <1>2, SetInduction, ViewAssumption
<1>4. PICK t \in SUBSET hits : \A c \in hits : c <= Cols => (c \in t <=> Free(t, c, n))
  BY <1>3
<1>5. \A c \in hits : c <= Cols
  OBVIOUS
<1> QED BY <1>4, <1>5

\* A match of a query is on its row, between its first and its last column.
LEMMA MatchesAre ==
    ASSUME NEW row, NEW l \in Int, NEW q \in Seq(Characters), q # << >>
    PROVE  MatchesIn(row, l, q) \subseteq {<<l, c, c + Len(q) - 1>> : c \in 1..Cols}
<1> DEFINE hits == {c \in 1..(Cols + 1 - Len(q)): SubSeq(row, c, c + Len(q) - 1) = q}
           Taking(t) == \A c \in hits: c \in t <=> \A d \in t: ~(d < c /\ c < d + Len(q))
           taken == CHOOSE t \in SUBSET hits: Taking(t)
<1>1. Len(q) \in Nat \ {0}
  BY EmptySeq
<1>2. hits \subseteq 1..Cols
  BY <1>1, ViewAssumption
<1>3. \E t \in SUBSET hits : Taking(t)
  <2> HIDE DEF hits
  <2>1. PICK t \in SUBSET hits : \A c \in hits : c \in t <=> Free(t, c, Len(q))
    BY <1>1, <1>2, TakenExists
  <2> QED BY <2>1, Zenon DEF Free
<1>4. taken \subseteq hits
  <2> HIDE DEF hits, Taking
  <2> QED BY <1>3
<1>5. MatchesIn(row, l, q) = {<<l, c, c + Len(q) - 1>> : c \in taken}
  BY DEF MatchesIn
<1> HIDE DEF hits, taken
<1> QED BY <1>2, <1>4, <1>5

LEMMA FindMatchesAre ==
    ASSUME NEW lines \in Seq(Row), NEW q \in Seq(Characters)
    PROVE  /\ FindMatches(lines, q) \in Seq(Match) /\ Ascending(FindMatches(lines, q))
           /\ \A i \in 1 .. Len(FindMatches(lines, q)) : FindMatches(lines, q)[i][1] \in 1 .. Len(lines)
<1>1. CASE q = << >>
  <2>1. FindMatches(lines, q) = << >> /\ Len(<< >>) = 0
    BY <1>1 DEF FindMatches
  <2> QED BY <2>1, EmptySeq DEF Ascending
<1>2. CASE q # << >>
  <2> DEFINE S == UNION {MatchesIn(lines[l], l, q): l \in DOMAIN lines}
             m(r) == <<r[1], r[2], r[2] + Len(q) - 1>>
             D == (1 .. Len(lines)) \X (1..Cols)
             All == {m(r) : r \in D}
  <2>1. Len(q) \in Nat \ {0} /\ Len(lines) \in Nat /\ DOMAIN lines = 1 .. Len(lines)
    BY <1>2, EmptySeq, LenProperties
  <2>2. S \subseteq All
    <3> SUFFICES ASSUME NEW l \in 1 .. Len(lines), NEW x \in MatchesIn(lines[l], l, q)
                 PROVE  x \in All
      BY <2>1
    <3>1. PICK c \in 1..Cols : x = <<l, c, c + Len(q) - 1>>
      BY <1>2, MatchesAre
    <3>2. <<l, c>> \in (1 .. Len(lines)) \X (1..Cols) /\ x = m(<<l, c>>)
      BY <3>1
    <3> HIDE DEF m
    <3> QED BY <3>2
  <2>3. IsFiniteSet(All)
    <3> DEFINE f == [r \in D |-> m(r)]
    <3>1. IsFiniteSet(1 .. Len(lines)) /\ IsFiniteSet(1..Cols)
      BY <2>1, FS_Interval, ViewAssumption
    <3>2. IsFiniteSet(D)
      BY <3>1, FS_Product
    <3>3. f \in Surjection(D, All)
      <4> HIDE DEF m, D
      <4>1. f \in [D -> All]
        OBVIOUS
      <4>2. ASSUME NEW x \in All PROVE \E r \in D : f[r] = x
        OBVIOUS
      <4> QED BY <4>1, <4>2, Zenon DEF Surjection
    <3> HIDE DEF f, All, D
    <3> QED BY <3>2, <3>3, FS_Surjection
  <2>4. IsFiniteSet(S)
    BY <2>2, <2>3, FS_Subset
  <2>5. \A x \in All : /\ x \in Match /\ x[1] \in 1 .. Len(lines) /\ x[1] \in Int /\ x[2] \in Int
                       /\ x = <<x[1], x[2], x[2] + Len(q) - 1>>
    BY <2>1, ViewAssumption DEF Match
  <2> HIDE DEF S, All
  <2>6. InLine(S)
    BY <2>2, <2>5 DEF InLine, Before
  <2>7. S \subseteq Match
    BY <2>2, <2>5
  <2>8. /\ InOrder(S) \in Seq(Match) /\ Len(InOrder(S)) = Cardinality(S)
        /\ \A i \in 1 .. Cardinality(S) : InOrder(S)[i] \in S
    BY <2>4, <2>6, <2>7, InOrderIs
  <2>9. Ascending(InOrder(S))
    BY <2>4, <2>6, InOrderAscends
  <2>10. \A i \in 1 .. Len(InOrder(S)) : InOrder(S)[i][1] \in 1 .. Len(lines)
    BY <2>2, <2>5, <2>8
  <2>11. FindMatches(lines, q) = InOrder(S)
    BY <1>2 DEF FindMatches, S
  <2> QED BY <2>8, <2>9, <2>10, <2>11
<1> QED BY <1>1, <1>2
-----------------------------------------------------------------------------
(* The inductive invariant of the grid, the drag, the selection and the bar. *)

Spot == Int \X Int
Ranges == {r \in Spot \X Spot : Before(r[1], r[2])}
Shift(p, d) == <<p[1] + d, p[2]>>
MovedDown(r, d) == <<Shift(r[1], d), Shift(r[2], d)>>
Ends(s) == IF Before(s[1], s[2]) THEN s ELSE <<s[2], s[1]>>

Grid ==
    /\ rows \in Seq(Row) /\ Len(rows) - ScreenRows \in 0..HistoryMax /\ offset \in 0..History
    /\ dropped \in Nat /\ lost \in Nat

\* What a drag's click took is what was seen of it, until rows are lost.
Clicked == IF dragAnchor = None THEN <<anchor, anchor>> ELSE dragAnchor
Dragging ==
    selecting =>
        /\ pointer \in Places /\ granularity \in Takes /\ anchor \in Spot
        /\ IF granularity = "character" THEN dragAnchor = None ELSE dragAnchor \in Ranges
        /\ pressed.lost \in Nat /\ pressed.lost <= lost
        /\ pressed.lost = lost => pressed.range = MovedDown(Clicked, dropped)

\* A selection is what was swept, until rows are lost.
SelectedBy(s, by, l, d) ==
    /\ s \in (Spot \X Spot) \cup {None}
    /\ by.lost \in Nat /\ by.lost <= l
    /\ s # None /\ by.lost = l => MovedDown(Ends(s), d) = by.range
Selected == SelectedBy(selection, swept, lost, dropped)

Bars == [query : Seq(Characters), matches : Seq(Match), current : Nat, dropped : Nat]
Sought == bar # NoBar => bar \in Bars /\ bar.current \in 0 .. Len(bar.matches)

ViewInv == Grid /\ Dragging /\ Selected /\ Sought
-----------------------------------------------------------------------------
(* Places and ranges.                                                      *)

LEMMA NotNone == \A a, b : <<a, b>> # None
  BY DEF None

LEMMA SpotNotNone ==
    /\ \A p \in Spot : p # None
    /\ \A r \in Spot \X Spot : r # None
  BY NotNone DEF Spot

LEMMA MergedIs ==
    ASSUME NEW a \in Ranges, NEW b \in Ranges, NEW d \in Int
    PROVE  /\ Merged(a, b) \in Ranges
           /\ Merged(MovedDown(a, d), MovedDown(b, d)) = MovedDown(Merged(a, b), d)
  BY DEF Merged, Ranges, Spot, MovedDown, Shift, Earlier, Later, Before

LEMMA EndsOfRange == \A r \in Ranges : Ends(r) = r
  BY DEF Ranges, Ends

\* A run of one class holds its column.
LEMMA RunIs ==
    ASSUME NEW row, NEW c \in 1..Cols
    PROVE  \E lo, hi \in 1..Cols : RunIn(row, c) = <<lo, hi>> /\ lo <= c /\ c <= hi
<1> DEFINE ofRun == {i \in 1..Cols: \A j \in (i..c) \cup (c..i): Class(row[j]) = Class(row[c])}
           lo == CHOOSE i \in ofRun: \A j \in ofRun: i <= j
           hi == CHOOSE i \in ofRun: \A j \in ofRun: i >= j
<1>1. c \in ofRun /\ ofRun \subseteq 1..Cols
  <2>1. \A j \in (c..c) \cup (c..c) : j = c
    BY ViewAssumption
  <2> QED BY <2>1
<1>2. CASE Class(row[c]) = "delimiter"
  BY <1>2 DEF RunIn
<1>3. CASE Class(row[c]) # "delimiter"
  <2>1. RunIn(row, c) = <<lo, hi>>
    BY <1>3 DEF RunIn
  <2> HIDE DEF ofRun
  <2>2. \E i \in ofRun : \A j \in ofRun : i <= j
    BY <1>1, LeastNatural, ViewAssumption
  <2>3. \E i \in ofRun : \A j \in ofRun : i >= j
    <3> DEFINE S == {Cols - i : i \in ofRun}
    <3>1. S \subseteq Nat /\ S # {}
      BY <1>1, ViewAssumption
    <3>2. PICK m \in S : \A k \in S : m <= k
      BY <3>1, LeastNatural
    <3>3. PICK i \in ofRun : m = Cols - i
      BY <3>2
    <3>4. ASSUME NEW j \in ofRun PROVE i >= j
      <4>1. Cols - j \in S
        OBVIOUS
      <4>2. Cols - i <= Cols - j
        BY <3>2, <3>3, <4>1
      <4> QED BY <1>1, <4>2, ViewAssumption
    <3> QED BY <3>4
  <2>4. /\ lo \in ofRun /\ \A j \in ofRun: lo <= j
        /\ hi \in ofRun /\ \A j \in ofRun: hi >= j
    BY <2>2, <2>3
  <2> QED BY <1>1, <2>1, <2>4
<1> QED BY <1>2, <1>3

LEMMA SpanIs ==
    ASSUME NEW g \in Takes, NEW spot \in Int \X (1..Cols)
    PROVE  IF g = "character" THEN SpanAt(g, spot) = None ELSE SpanAt(g, spot) \in Ranges
<1>1. CASE g = "character"
  BY <1>1 DEF SpanAt
<1>2. CASE g = "word"
  <2>1. PICK lo, hi \in 1..Cols : RunIn(rows[spot[1]], spot[2]) = <<lo, hi>> /\ lo <= spot[2] /\ spot[2] <= hi
    BY RunIs
  <2>2. SpanAt(g, spot) = <<<<spot[1], lo>>, <<spot[1], hi>>>>
    BY <1>2, <2>1 DEF SpanAt, Place
  <2> QED BY <1>2, <2>1, <2>2, ViewAssumption DEF Ranges, Spot, Before
<1>3. CASE g = "line"
  BY <1>3, ViewAssumption DEF SpanAt, Place, Ranges, Spot, Before
<1> QED BY <1>1, <1>2, <1>3, ViewAssumption

\* What is seen under a pointer is what the drag takes there.
Taken(g, spot) == IF g = "character" THEN <<spot, spot>> ELSE SpanAt(g, spot)

LEMMA TakenIs ==
    ASSUME NEW g \in Takes, NEW spot \in Int \X (1..Cols)
    PROVE  Taken(g, spot) \in Ranges
<1>1. CASE g = "character"
  BY <1>1, ViewAssumption DEF Taken, Ranges, Spot, Before
<1> QED BY <1>1, SpanIs DEF Taken

LEMMA CellIs ==
    ASSUME Grid, NEW p \in Places, NEW up \in Int
    PROVE  /\ Absolute(CellAt(p), up) \in Int \X (1..Cols)
           /\ Absolute(CellAt(p), up)[1] = History - up + CellAt(p)[1]
           /\ Absolute(CellAt(p), up)[2] = p[2]
           /\ CellAt(p)[1] \in 1 .. ScreenRows
<1>1. PICK l \in 0..(ScreenRows + 1), c \in 1..Cols : p = <<l, c>>
  BY DEF Places, Place
<1>2. History \in Int
  BY ViewAssumption DEF Grid, History
<1>3. CellAt(p)[1] \in 1 .. ScreenRows /\ CellAt(p)[2] = c
  BY <1>1, ViewAssumption DEF CellAt, Place
<1> QED BY <1>1, <1>2, <1>3 DEF Absolute, Top, Place

LEMMA UnderIs ==
    ASSUME Grid, NEW g \in Takes, NEW p \in Places, NEW up \in Int
    PROVE  Under(g, p, up) = MovedDown(Taken(g, Absolute(CellAt(p), up)), dropped)
<1> DEFINE spot == Absolute(CellAt(p), up)
<1>1. /\ spot \in Int \X (1..Cols) /\ spot[1] = History - up + CellAt(p)[1] /\ spot[2] = p[2]
      /\ CellAt(p)[1] \in Int
  <2>1. /\ Absolute(CellAt(p), up) \in Int \X (1..Cols)
        /\ Absolute(CellAt(p), up)[1] = History - up + CellAt(p)[1]
        /\ Absolute(CellAt(p), up)[2] = p[2]
        /\ CellAt(p)[1] \in 1 .. ScreenRows
    BY CellIs
  <2> QED BY <2>1, ViewAssumption
<1>5. History \in Int /\ dropped \in Int
  BY ViewAssumption DEF Grid, History
<1>6. dropped + History - up + CellAt(p)[1] = spot[1] + dropped
  BY <1>1, <1>5
<1> HIDE DEF spot
<1>2. CASE g = "character"
  BY <1>1, <1>6, <1>2 DEF Under, Taken, MovedDown, Shift, Place, spot
<1>3. CASE g = "word"
  BY <1>1, <1>6, <1>3 DEF Under, Taken, SpanAt, MovedDown, Shift, Place, spot
<1>4. CASE g = "line"
  BY <1>1, <1>6, <1>4 DEF Under, Taken, SpanAt, MovedDown, Shift, Place, spot
<1> QED BY <1>2, <1>3, <1>4, ViewAssumption
-----------------------------------------------------------------------------
(* What the steps are made of.                                             *)

\* Rows that are lost end what is said of the drag and of the selection.
LEMMA DragKept ==
    ASSUME Grid, Dragging, UNCHANGED drag,
           (lost' = lost /\ dropped' = dropped) \/ lost' = lost + 1
    PROVE  Dragging'
<1>1. UNCHANGED <<anchor, selecting, granularity, dragAnchor, pointer, pressed>>
  BY DEF drag
<1>2. lost \in Nat /\ Places' = Places /\ Clicked' = Clicked
  BY <1>1 DEF Grid, Places, Clicked
<1> QED BY <1>1, <1>2 DEF Dragging, MovedDown, Shift

LEMMA SelectionKept ==
    ASSUME Grid, Selected, UNCHANGED <<selection, swept>>,
           (lost' = lost /\ dropped' = dropped) \/ lost' = lost + 1
    PROVE  Selected'
  BY DEF Grid, Selected, SelectedBy

LEMMA Deselected ==
    ASSUME Selected, selection' = None, swept' = swept, lost' = lost
    PROVE  Selected'
  BY DEF Selected, SelectedBy

LEMMA ClickedIs ==
    ASSUME Dragging, selecting
    PROVE  /\ Clicked \in Ranges /\ anchor \in Spot /\ granularity \in Takes
           /\ granularity = "character" => dragAnchor = None
           /\ granularity # "character" => dragAnchor # None /\ dragAnchor \in Ranges
           /\ pressed.lost \in Nat /\ pressed.lost <= lost
           /\ pressed.lost = lost => pressed.range = MovedDown(Clicked, dropped)
<1>1. /\ granularity \in Takes /\ anchor \in Spot
      /\ IF granularity = "character" THEN dragAnchor = None ELSE dragAnchor \in Ranges
      /\ pressed.lost \in Nat /\ pressed.lost <= lost
      /\ pressed.lost = lost => pressed.range = MovedDown(Clicked, dropped)
  BY DEF Dragging
<1>2. <<anchor, anchor>> \in Ranges
  BY <1>1 DEF Ranges, Spot, Before
<1>3. dragAnchor \in Ranges => dragAnchor # None
  BY SpotNotNone DEF Ranges
<1> QED BY <1>1, <1>2, <1>3 DEF Clicked

LEMMA ExtendKeeps ==
    ASSUME Grid, Dragging, selecting, NEW p \in Places, NEW up \in Int, Extend(p, up),
           lost' = lost, dropped' = dropped
    PROVE  Selected'
<1> DEFINE head == Absolute(CellAt(p), up)
           taken == Taken(granularity, head)
<1>1. head \in Int \X (1..Cols)
  BY CellIs
<1>2. /\ Clicked \in Ranges /\ anchor \in Spot /\ granularity \in Takes
      /\ granularity = "character" => dragAnchor = None
      /\ granularity # "character" => dragAnchor # None /\ dragAnchor \in Ranges
      /\ pressed.lost \in Nat /\ pressed.lost <= lost
      /\ pressed.lost = lost => pressed.range = MovedDown(Clicked, dropped)
  BY ClickedIs
<1>3. taken \in Ranges
  BY <1>1, <1>2, TakenIs
<1>4. /\ selection' = Extended(head)
      /\ swept' = [range |-> Merged(pressed.range, MovedDown(taken, dropped)), lost |-> pressed.lost]
  BY <1>2, UnderIs DEF Extend
<1> HIDE DEF head
<1>5. /\ Merged(Clicked, taken) \in Ranges
      /\ Merged(MovedDown(Clicked, dropped), MovedDown(taken, dropped)) = MovedDown(Merged(Clicked, taken), dropped)
  <2> HIDE DEF taken
  <2> QED BY <1>2, <1>3, MergedIs DEF Grid
<1>6. /\ swept'.lost \in Nat /\ swept'.lost <= lost
      /\ swept'.lost = lost => swept'.range = MovedDown(Merged(Clicked, taken), dropped)
  <2> HIDE DEF taken
  <2> QED BY <1>2, <1>4, <1>5
<1>7. /\ selection' \in (Spot \X Spot) \cup {None}
      /\ selection' # None => Ends(selection') = Merged(Clicked, taken)
  <2>1. CASE granularity = "character"
    <3>1. Clicked = <<anchor, anchor>> /\ taken = <<head, head>>
      BY <1>2, <2>1 DEF Clicked, Taken
    <3>2. CASE head = anchor
      BY <1>2, <1>4, <2>1, <3>2 DEF Extended
    <3>3. CASE head # anchor
      <4>1. selection' = <<anchor, head>>
        BY <1>2, <1>4, <2>1, <3>3 DEF Extended
      <4>2. head \in Spot
        BY <1>1, ViewAssumption DEF Spot
      <4>3. Ends(<<anchor, head>>) = Merged(<<anchor, anchor>>, <<head, head>>)
        BY <1>2, <4>2 DEF Ends, Merged, Earlier, Later
      <4> QED BY <1>2, <3>1, <4>1, <4>2, <4>3
    <3> QED BY <3>2, <3>3
  <2>2. CASE granularity # "character"
    <3>1. Clicked = dragAnchor /\ taken = SpanAt(granularity, head)
      BY <1>2, <2>2 DEF Clicked, Taken
    <3>2. selection' = Merged(Clicked, taken)
      BY <1>2, <1>4, <2>2, <3>1 DEF Extended
    <3> HIDE DEF taken
    <3> QED BY <1>5, <3>2, EndsOfRange DEF Ranges
  <2> QED BY <2>1, <2>2
<1> HIDE DEF taken
<1> QED BY <1>6, <1>7 DEF Selected, SelectedBy

LEMMA StepFromIs ==
    ASSUME NEW count \in Nat, NEW current \in 0..count, NEW forward
    PROVE  StepFrom(current, count, forward) \in 0..count
<1>1. CASE count = 0
  BY <1>1 DEF StepFrom
<1>2. CASE count # 0
  <2>1. current % count \in 0..(count - 1) /\ (current + count - 2) % count \in 0..(count - 1)
    BY <1>2
  <2> QED BY <1>2, <2>1 DEF StepFrom
<1> QED BY <1>1, <1>2

LEMMA InViewIs ==
    ASSUME NEW m, m[1] \in Int, NEW top \in Int, NEW history \in Nat, NEW up \in Int
    PROVE  InView(m, top, history, up) \in 0..history
<1> DEFINE moved == IF m[1] <= top THEN up + top - m[1] + 2
                    ELSE IF m[1] > top + ScreenRows THEN up - (m[1] + 1 - (top + ScreenRows))
                    ELSE up
<1>1. moved \in Int
  BY ViewAssumption
<1>2. InView(m, top, history, up) = IF moved < 0 THEN 0 ELSE IF moved > history THEN history ELSE moved
  BY DEF InView
<1> HIDE DEF moved
<1> QED BY <1>1, <1>2

LEMMA ShowKeeps ==
    ASSUME NEW b \in Bars, b.current \in 0 .. Len(b.matches), lost \in Nat,
           NEW lines, NEW up \in Nat, Len(lines) \in Nat, up <= Len(lines) - ScreenRows,
           NEW other, SelectedBy(other.selection, other.swept, lost, b.dropped),
           Show(b, lines, up, other)
    PROVE  /\ Sought' /\ offset' \in 0 .. (Len(lines) - ScreenRows)
           /\ SelectedBy(selection', swept', lost, b.dropped)
<1>1. Sought'
  BY DEF Show, Sought
<1>2. CASE b.current = 0
  BY <1>1, <1>2, ViewAssumption DEF Show
<1>3. CASE b.current # 0
  <2> DEFINE m == b.matches[b.current]
  <2>1. m \in Int \X Int \X Int /\ m[2] <= m[3]
    <3>1. b.matches \in Seq(Match) /\ b.current \in 1 .. Len(b.matches)
      BY <1>3 DEF Bars
    <3>2. m \in Match
      BY <3>1, ElementOfSeq
    <3> QED BY <3>2 DEF Match
  <2>2. /\ selection' = <<<<m[1], m[2]>>, <<m[1], m[3]>>>>
        /\ swept' = [range |-> <<<<b.dropped + m[1], m[2]>>, <<b.dropped + m[1], m[3]>>>>, lost |-> lost]
        /\ offset' = InView(m, Len(lines) - ScreenRows - up, Len(lines) - ScreenRows, up)
    BY <1>3 DEF Show, Place
  <2>3. b.dropped \in Nat
    BY DEF Bars
  <2> HIDE DEF m
  <2>4. offset' \in 0 .. (Len(lines) - ScreenRows)
    <3>1. m[1] \in Int /\ Len(lines) - ScreenRows - up \in Int /\ Len(lines) - ScreenRows \in Nat
      BY <2>1, ViewAssumption
    <3> QED BY <2>2, <3>1, InViewIs
  <2>5. selection' \in Ranges
    BY <2>1, <2>2 DEF Ranges, Spot, Before
  <2>6. MovedDown(Ends(selection'), b.dropped) = swept'.range
    BY <2>1, <2>2, <2>3, <2>5, EndsOfRange DEF MovedDown, Shift
  <2>7. swept'.lost = lost
    BY <2>2
  <2> QED BY <1>1, <2>4, <2>5, <2>6, <2>7 DEF SelectedBy, Ranges
<1> QED BY <1>2, <1>3

LEMMA BlankIsRow == Blank \in Row
BY BlankAssumption DEF Row

\* A filter keeps rows, and never more than there were.
LEMMA FilteredIs ==
    ASSUME Grid, NEW c
    PROVE  Filtered(c) \in Seq(Row) /\ Len(Filtered(c)) - ScreenRows \in 0..HistoryMax
<1> DEFINE kept == {l \in DOMAIN rows: \E i \in 1..Cols: rows[l][i] = c}
           S == {Place(l, 1): l \in kept}
           passing == InOrder(S)
           some == [i \in DOMAIN passing |-> rows[passing[i][1]]]
           pad == IF Len(some) < ScreenRows THEN ScreenRows - Len(some) ELSE 0
           blanks == [i \in 1..pad |-> Blank]
<1>1. rows \in Seq(Row) /\ Len(rows) \in Nat /\ DOMAIN rows = 1 .. Len(rows)
  BY LenProperties DEF Grid
<1>2. IsFiniteSet(kept) /\ Cardinality(kept) <= Len(rows)
  <2>1. IsFiniteSet(1 .. Len(rows)) /\ Cardinality(1 .. Len(rows)) = Len(rows)
    BY <1>1, FS_Interval
  <2> QED BY <1>1, <2>1, FS_Subset
<1>3. IsFiniteSet(S) /\ Cardinality(S) <= Len(rows)
  <2> DEFINE f == [l \in kept |-> Place(l, 1)]
  <2>1. f \in Surjection(kept, S)
    <3> HIDE DEF kept
    <3>1. f \in [kept -> S]
      OBVIOUS
    <3>2. ASSUME NEW x \in S PROVE \E l \in kept : f[l] = x
      OBVIOUS
    <3> QED BY <3>1, <3>2, Zenon DEF Surjection
  <2> HIDE DEF f, S, kept
  <2>2. IsFiniteSet(S) /\ Cardinality(S) <= Cardinality(kept)
    BY <1>2, <2>1, FS_Surjection
  <2> QED BY <1>1, <1>2, <2>2, FS_CardinalityType
<1>4. \A x \in S : x \in Int \X Int /\ x[1] \in 1 .. Len(rows)
  BY <1>1 DEF Place
<1> HIDE DEF S
<1>5. InLine(S)
  BY <1>4 DEF InLine, Before
<1>6. /\ passing \in Seq(Int \X Int) /\ Len(passing) = Cardinality(S)
      /\ \A i \in 1 .. Cardinality(S) : passing[i] \in S
  BY <1>3, <1>4, <1>5, InOrderIs
<1>7. Cardinality(S) \in Nat
  BY <1>3, FS_CardinalityType
<1> HIDE DEF passing
<1>8. DOMAIN passing = 1 .. Cardinality(S)
  BY <1>6, LenProperties
<1>9. \A i \in 1 .. Cardinality(S) : rows[passing[i][1]] \in Row
  BY <1>1, <1>4, <1>6, ElementOfSeq
<1>10. some \in [1 .. Cardinality(S) -> Row]
  BY <1>8, <1>9
<1> HIDE DEF some
<1>11. some \in Seq(Row) /\ Len(some) = Cardinality(S)
  BY <1>7, <1>10
<1>12. pad \in Nat /\ Blank \in Row
  <2>1. pad \in Nat
    BY <1>7, <1>11, ViewAssumption
  <2>2. Blank \in Row
    BY BlankIsRow
  <2> QED BY <2>1, <2>2
<1> HIDE DEF pad
<1>13. blanks \in Seq(Row) /\ Len(blanks) = pad
  BY <1>12
<1>14. Filtered(c) = some \o blanks
  BY DEF Filtered, some, passing, S, pad
<1> HIDE DEF blanks
<1>15. Filtered(c) \in Seq(Row) /\ Len(Filtered(c)) = Len(some) + pad
  BY <1>11, <1>13, <1>14, ConcatProperties
<1> QED BY <1>1, <1>3, <1>7, <1>11, <1>15, ViewAssumption DEF Grid, pad
-----------------------------------------------------------------------------
(* The steps of the view.                                                  *)

LEMMA ViewSame == ViewInv /\ UNCHANGED viewVars => ViewInv'
<1> SUFFICES ASSUME ViewInv, UNCHANGED viewVars PROVE ViewInv'
  OBVIOUS
<1>1. UNCHANGED drag /\ UNCHANGED <<rows, dropped, offset, lost, selection, swept, bar>>
  BY DEF viewVars, drag
<1>2. Grid'
  BY <1>1 DEF ViewInv, Grid, History
<1> QED BY <1>1, <1>2, DragKept, SelectionKept DEF ViewInv, Sought

\* Steps that leave the rows alone.
LEMMA GridKept ==
    ASSUME Grid, UNCHANGED buffer, offset' \in 0..History
    PROVE  Grid' /\ lost' = lost /\ dropped' = dropped /\ History' = History
  BY DEF Grid, buffer, History

LEMMA MouseDownKeeps ==
    ASSUME ViewInv, NEW p \in Cells, NEW g \in Takes, MouseDown(p, g)
    PROVE  ViewInv'
<1> DEFINE cell == Absolute(p, offset)
<1>1. /\ Grid /\ Grid' /\ lost' = lost /\ dropped' = dropped /\ lost \in Nat /\ dropped \in Nat
      /\ offset \in Int
  BY GridKept, ViewAssumption DEF ViewInv, MouseDown, Grid, History
<1>2. p \in Places /\ CellAt(p) = p
  <2>1. PICK l \in 1..ScreenRows, c \in 1..Cols : p = <<l, c>>
    BY DEF Cells, Place
  <2>2. l \in 0..(ScreenRows + 1) /\ l \in Int /\ ~(l < 1) /\ ~(l > ScreenRows)
    BY ViewAssumption
  <2> QED BY <2>1, <2>2 DEF Places, Place, CellAt
<1>3. cell \in Int \X (1..Cols)
  BY <1>1, <1>2, CellIs
<1>4. /\ granularity' = g /\ anchor' = cell /\ pointer' = p /\ selecting' = TRUE
      /\ dragAnchor' = SpanAt(g, cell) /\ selection' = dragAnchor'
      /\ pressed' = [range |-> Under(g, p, offset), lost |-> lost] /\ swept' = pressed'
      /\ bar' = bar
  BY DEF MouseDown
<1>5. Under(g, p, offset) = MovedDown(Taken(g, cell), dropped) /\ Taken(g, cell) \in Ranges
  BY <1>1, <1>2, <1>3, UnderIs, TakenIs
<1>6. IF g = "character" THEN SpanAt(g, cell) = None ELSE SpanAt(g, cell) \in Ranges
  BY <1>3, SpanIs
<1>7. cell \in Spot /\ (\A r \in Ranges : r # None)
  BY <1>3, SpotNotNone, ViewAssumption DEF Spot, Ranges
<1> HIDE DEF cell
<1>8. Clicked' = Taken(g, cell)
  BY <1>4, <1>6, <1>7 DEF Clicked, Taken
<1>9. Dragging'
  <2>1. Places' = Places
    BY DEF Places
  <2> QED BY <1>1, <1>2, <1>4, <1>5, <1>6, <1>7, <1>8, <2>1 DEF Dragging
<1>10. Selected'
  <2>1. CASE g = "character"
    BY <1>1, <1>4, <1>6, <2>1 DEF Selected, SelectedBy
  <2>2. CASE g # "character"
    <3>1. selection' \in Ranges /\ Ends(selection') = selection' /\ Taken(g, cell) = selection'
      BY <1>4, <1>6, <2>2, EndsOfRange DEF Taken
    <3> QED BY <1>1, <1>4, <1>5, <3>1 DEF Selected, SelectedBy, Ranges
  <2> QED BY <2>1, <2>2
<1> QED BY <1>1, <1>4, <1>9, <1>10 DEF ViewInv, Sought

\* A pointer that moves, or a viewport that moves under it, extends the selection.
LEMMA DragMoveKeeps ==
    ASSUME ViewInv, NEW p \in Places, DragMove(p)
    PROVE  ViewInv'
<1>1. /\ Grid /\ Grid' /\ lost' = lost /\ dropped' = dropped /\ offset \in Int
  BY GridKept, ViewAssumption DEF ViewInv, DragMove, Grid, History
<1>2. Selected'
  BY <1>1, ExtendKeeps DEF ViewInv, DragMove
<1>3. /\ UNCHANGED <<anchor, selecting, granularity, dragAnchor, pressed, bar>> /\ pointer' = p
  BY DEF DragMove
<1>4. Places' = Places /\ Clicked' = Clicked
  BY <1>3 DEF Places, Clicked
<1>5. Dragging'
  BY <1>1, <1>3, <1>4 DEF ViewInv, Dragging, MovedDown, Shift
<1> QED BY <1>1, <1>2, <1>3, <1>5 DEF ViewInv, Sought

LEMMA ScrolledIs ==
    ASSUME Grid, NEW delta \in Int
    PROVE  Scrolled(delta) \in 0..History /\ Scrolled(delta) \in Int
  BY ViewAssumption DEF Grid, Scrolled, History

LEMMA StepIs == \A p \in Places : Step(p) \in {-1, 0, 1}
  BY DEF Step

LEMMA TickKeeps == ASSUME ViewInv, Tick PROVE ViewInv'
<1>1. pointer \in Places /\ selecting
  BY DEF ViewInv, Dragging, Tick
<1>2. offset' \in 0..History /\ offset' \in Int
  BY <1>1, StepIs, ScrolledIs DEF Tick, ViewInv
<1>3. Grid /\ Grid' /\ lost' = lost /\ dropped' = dropped
  BY <1>2, GridKept DEF ViewInv, Tick
<1>4. Dragging'
  BY <1>3, DragKept DEF ViewInv, Tick
<1>5. CASE UNCHANGED <<selection, swept>>
  BY <1>3, <1>4, <1>5, SelectionKept DEF ViewInv, Sought, Tick
<1>6. CASE Extend(pointer, offset')
  BY <1>1, <1>2, <1>3, <1>4, <1>6, ExtendKeeps DEF ViewInv, Sought, Tick
<1> QED BY <1>5, <1>6 DEF Tick

LEMMA WheelKeeps == ASSUME ViewInv, NEW delta \in {-1, 1}, Wheel(delta) PROVE ViewInv'
<1>1. offset' \in 0..History /\ offset' \in Int
  BY ScrolledIs DEF Wheel, ViewInv
<1>2. Grid /\ Grid' /\ lost' = lost /\ dropped' = dropped
  BY <1>1, GridKept DEF ViewInv, Wheel
<1>3. Dragging'
  BY <1>2, DragKept DEF ViewInv, Wheel
<1>4. CASE UNCHANGED <<selection, swept>>
  BY <1>2, <1>3, <1>4, SelectionKept DEF ViewInv, Sought, Wheel
<1>5. CASE selecting /\ Extend(pointer, offset')
  <2>1. pointer \in Places
    BY <1>5 DEF ViewInv, Dragging
  <2> QED BY <1>1, <1>2, <1>3, <1>5, <2>1, ExtendKeeps DEF ViewInv, Sought, Wheel
<1> QED BY <1>4, <1>5 DEF Wheel

LEMMA ScrollLocallyKeeps ==
    ASSUME ViewInv, NEW up \in 0..History, ScrollLocally(up)
    PROVE  ViewInv'
<1>1. Grid /\ Grid' /\ lost' = lost /\ dropped' = dropped
  BY GridKept DEF ViewInv, ScrollLocally
<1> QED BY <1>1, DragKept, SelectionKept DEF ViewInv, Sought, ScrollLocally

LEMMA MouseUpKeeps == ASSUME ViewInv, MouseUp PROVE ViewInv'
<1>1. Grid /\ Grid' /\ lost' = lost /\ dropped' = dropped
  BY GridKept DEF ViewInv, MouseUp, Grid
<1>2. Dragging'
  BY DEF Dragging, MouseUp, EndDrag
<1> QED BY <1>1, <1>2, SelectionKept DEF ViewInv, Sought, MouseUp

LEMMA SelectVisibleKeeps == ASSUME ViewInv, SelectVisible PROVE ViewInv'
<1>1. /\ Grid /\ Grid' /\ lost' = lost /\ dropped' = dropped /\ lost \in Nat
      /\ offset \in Int /\ History \in Int /\ dropped \in Int
  BY GridKept, ViewAssumption DEF ViewInv, SelectVisible, Grid, History
<1>2. Dragging'
  BY DEF Dragging, SelectVisible, EndDrag
<1> DEFINE top == History - offset
<1>3. /\ Absolute(Place(1, 1), offset) = <<top + 1, 1>>
      /\ Absolute(Place(ScreenRows, Cols), offset) = <<top + ScreenRows, Cols>>
  BY DEF Absolute, Top, Place
<1>4. /\ Under("line", Place(1, 1), offset)[1] = <<dropped + History - offset + 1, 1>>
      /\ Under("line", Place(ScreenRows, 1), offset)[2] = <<dropped + History - offset + ScreenRows, Cols>>
  BY ViewAssumption DEF Under, CellAt, Place
<1>5. /\ selection' = <<<<top + 1, 1>>, <<top + ScreenRows, Cols>>>>
      /\ swept' = [range |-> <<<<dropped + History - offset + 1, 1>>,
                               <<dropped + History - offset + ScreenRows, Cols>>>>, lost |-> lost]
      /\ bar' = bar
  BY <1>3, <1>4 DEF SelectVisible
<1>6. top \in Int /\ dropped + History - offset = top + dropped
  BY <1>1
<1> HIDE DEF top
<1>7. selection' \in Ranges
  BY <1>5, <1>6, ViewAssumption DEF Ranges, Spot, Before
<1>8. MovedDown(selection', dropped) = swept'.range
  <2>1. /\ (top + dropped) + 1 = (top + 1) + dropped
        /\ (top + dropped) + ScreenRows = (top + ScreenRows) + dropped
    BY <1>1, <1>6, ViewAssumption
  <2>2. swept'.range = <<<<(top + dropped) + 1, 1>>, <<(top + dropped) + ScreenRows, Cols>>>>
    BY <1>5, <1>6
  <2>3. MovedDown(selection', dropped) = <<<<(top + 1) + dropped, 1>>, <<(top + ScreenRows) + dropped, Cols>>>>
    BY <1>5 DEF MovedDown, Shift
  <2> QED BY <2>1, <2>2, <2>3
<1>9. Selected'
  BY <1>1, <1>5, <1>7, <1>8, EndsOfRange DEF Selected, SelectedBy, Ranges
<1> QED BY <1>1, <1>2, <1>5, <1>9 DEF ViewInv, Sought

LEMMA TypeKeeps == ASSUME ViewInv, Type PROVE ViewInv'
<1>1. Grid /\ Grid' /\ lost' = lost /\ dropped' = dropped
  BY GridKept DEF ViewInv, Type, Grid
<1>2. Selected'
  BY <1>1, Deselected DEF ViewInv, Type
<1> QED BY <1>1, <1>2, DragKept DEF ViewInv, Sought, Type

LEMMA OpenSearchKeeps == ASSUME ViewInv, OpenSearch PROVE ViewInv'
<1>1. Grid /\ Grid' /\ lost' = lost /\ dropped' = dropped /\ dropped \in Nat
  BY GridKept DEF ViewInv, OpenSearch, Grid
<1>2. bar' = [query |-> << >>, matches |-> << >>, current |-> 0, dropped |-> dropped]
  BY DEF OpenSearch
<1>3. << >> \in Seq(Characters) /\ << >> \in Seq(Match) /\ Len(<< >>) = 0
  BY EmptySeq
<1>4. Sought'
  BY <1>1, <1>2, <1>3 DEF Sought, Bars
<1> QED BY <1>1, <1>4, DragKept, SelectionKept DEF ViewInv, OpenSearch

LEMMA CloseSearchKeeps == ASSUME ViewInv, CloseSearch PROVE ViewInv'
<1>1. Grid /\ Grid' /\ lost' = lost /\ dropped' = dropped
  BY GridKept DEF ViewInv, CloseSearch, Grid
<1>2. Sought'
  BY DEF Sought, CloseSearch
<1> QED BY <1>1, <1>2, DragKept, SelectionKept DEF ViewInv, CloseSearch

LEMMA RefreshedIs ==
    ASSUME NEW lines \in Seq(Row), NEW gone \in Nat, NEW q \in Seq(Characters)
    PROVE  /\ Refreshed(lines, gone, q) \in Bars /\ Refreshed(lines, gone, q).dropped = gone
           /\ Refreshed(lines, gone, q).current \in 0 .. Len(Refreshed(lines, gone, q).matches)
<1> DEFINE found == FindMatches(lines, q)
           next == IF Len(found) = 0 THEN 0 ELSE Len(found)
<1>1. found \in Seq(Match) /\ Len(found) \in Nat
  BY FindMatchesAre, LenProperties
<1>2. next \in 0 .. Len(found) /\ next \in Nat
  <2> HIDE DEF found
  <2> QED BY <1>1
<1>3. Refreshed(lines, gone, q) = [query |-> q, matches |-> found, current |-> next, dropped |-> gone]
  BY DEF Refreshed, StepFrom
<1> HIDE DEF found, next
<1> QED BY <1>1, <1>2, <1>3 DEF Bars

\* A bar that is shown over the rows as they are.
LEMMA ShownKeeps ==
    ASSUME ViewInv, UNCHANGED <<buffer, drag>>,
           NEW b \in Bars, b.current \in 0 .. Len(b.matches), b.dropped = dropped,
           Show(b, rows, offset, AsIs)
    PROVE  ViewInv'
<1>1. /\ Grid /\ lost \in Nat /\ Len(rows) \in Nat /\ offset \in Nat /\ offset <= Len(rows) - ScreenRows
      /\ lost' = lost /\ dropped' = dropped
  <2>1. Len(rows) \in Nat
    BY LenProperties DEF ViewInv, Grid
  <2> QED BY <2>1, ViewAssumption DEF ViewInv, Grid, History, buffer
<1>2. SelectedBy(AsIs.selection, AsIs.swept, lost, b.dropped)
  BY DEF ViewInv, Selected, AsIs
<1>3. /\ Sought' /\ offset' \in 0 .. (Len(rows) - ScreenRows)
      /\ SelectedBy(selection', swept', lost, b.dropped)
  BY <1>1, <1>2, ShowKeeps
<1>4. Selected'
  BY <1>1, <1>3 DEF Selected
<1>5. Grid'
  BY <1>1, <1>3, GridKept DEF History
<1>6. Dragging'
  BY <1>1, DragKept DEF ViewInv
<1> QED BY <1>3, <1>4, <1>5, <1>6 DEF ViewInv

LEMMA SearchKeeps == ASSUME ViewInv, NEW q \in Queries, Search(q) PROVE ViewInv'
<1>1. rows \in Seq(Row) /\ dropped \in Nat /\ q \in Seq(Characters)
  BY ViewAssumption DEF ViewInv, Grid
<1> DEFINE b == Refreshed(rows, dropped, q)
<1>2. b \in Bars /\ b.dropped = dropped /\ b.current \in 0 .. Len(b.matches)
  BY <1>1, RefreshedIs
<1>3. Show(b, rows, offset, AsIs) /\ UNCHANGED <<buffer, drag>>
  BY DEF Search
<1> HIDE DEF b
<1> QED BY <1>2, <1>3, ShownKeeps

LEMMA FindKeeps == ASSUME ViewInv, NEW forward \in BOOLEAN, Find(forward) PROVE ViewInv'
<1>1. rows \in Seq(Row) /\ dropped \in Nat /\ bar \in Bars
  BY DEF ViewInv, Grid, Sought, Find, FindAmong
<1> DEFINE found == FindMatches(rows, bar.query)
           same == {i \in DOMAIN found: bar.current # 0 /\ found[i] = bar.matches[bar.current]}
           from == IF same = {} THEN 0 ELSE CHOOSE i \in same: TRUE
           next == StepFrom(from, Len(found), forward)
           b == [bar EXCEPT !.matches = found, !.current = next, !.dropped = dropped]
<1>2. found \in Seq(Match) /\ Len(found) \in Nat /\ DOMAIN found = 1 .. Len(found)
  BY <1>1, FindMatchesAre, LenProperties DEF Bars
<1>3. Show(b, rows, offset, AsIs) /\ UNCHANGED <<buffer, drag>>
  BY DEF Find, FindAmong, StepFromPlace
<1> HIDE DEF found
<1>4. from \in 0 .. Len(found)
  BY <1>2
<1> HIDE DEF from
<1>5. next \in 0 .. Len(found) /\ next \in Nat
  BY <1>2, <1>4, StepFromIs
<1> HIDE DEF next
<1>6. b \in Bars /\ b.dropped = dropped /\ b.current = next /\ b.matches = found
  BY <1>1, <1>2, <1>5 DEF Bars
<1> HIDE DEF b
<1> QED BY <1>3, <1>5, <1>6, ShownKeeps
-----------------------------------------------------------------------------
(* The steps that change the rows.                                         *)

LEMMA OutputKeeps == ASSUME ViewInv, NEW text \in Writings, Output(text) PROVE ViewInv'
<1>1. /\ rows \in Seq(Row) /\ Len(rows) \in Nat /\ text \in Row
      /\ Len(rows) - ScreenRows \in 0..HistoryMax /\ offset \in 0 .. (Len(rows) - ScreenRows)
      /\ dropped \in Nat /\ lost \in Nat
  BY LenProperties, ViewAssumption DEF ViewInv, Grid, History, Row
<1>2. (lost' = lost /\ dropped' = dropped) \/ lost' = lost + 1
  BY DEF Output
<1>3. UNCHANGED drag /\ UNCHANGED <<selection, swept>> /\ bar' = bar
  BY DEF Output
<1>4. Grid'
  <2>1. CASE Len(rows) - ScreenRows = HistoryMax
    <3>1. rows' = Append(Tail(rows), text) /\ dropped' = dropped + 1 /\ lost' = lost + 1
      BY <2>1 DEF Output, History
    <3>2. offset' = IF offset = 0 THEN 0 ELSE IF offset < HistoryMax THEN offset + 1 ELSE offset
      BY DEF Output
    <3>3. Tail(rows) \in Seq(Row) /\ Len(Tail(rows)) = Len(rows) - 1
      BY <1>1, ViewAssumption, HeadTailProperties
    <3>4. rows' \in Seq(Row) /\ Len(rows') = Len(rows)
      BY <1>1, <3>1, <3>3, AppendProperties
    <3>5. offset' \in 0 .. (Len(rows') - ScreenRows)
      BY <1>1, <2>1, <3>2, <3>4, ViewAssumption
    <3> QED BY <1>1, <3>1, <3>4, <3>5 DEF Grid, History
  <2>2. CASE Len(rows) - ScreenRows # HistoryMax
    <3>1. rows' = Append(rows, text) /\ dropped' = dropped /\ lost' = lost
      BY <2>2 DEF Output, History
    <3>2. offset' = IF offset = 0 THEN 0 ELSE IF offset < HistoryMax THEN offset + 1 ELSE offset
      BY DEF Output
    <3>3. rows' \in Seq(Row) /\ Len(rows') = Len(rows) + 1
      BY <1>1, <3>1, AppendProperties
    <3>4. offset' \in 0 .. (Len(rows') - ScreenRows) /\ Len(rows') - ScreenRows \in 0..HistoryMax
      BY <1>1, <2>2, <3>2, <3>3, ViewAssumption
    <3> QED BY <1>1, <3>1, <3>3, <3>4 DEF Grid, History
  <2> QED BY <2>1, <2>2
<1> QED BY <1>2, <1>3, <1>4, DragKept, SelectionKept DEF ViewInv, Sought

LEMMA OverwriteKeeps ==
    ASSUME ViewInv, NEW l \in 1..ScreenRows, NEW text \in Writings, Overwrite(l, text)
    PROVE  ViewInv'
<1>1. rows \in Seq(Row) /\ text \in Row
  BY ViewAssumption DEF ViewInv, Grid, Row
<1>2. /\ rows' = [rows EXCEPT ![History + l] = text]
      /\ lost' = lost /\ dropped' = dropped /\ offset' = offset
      /\ UNCHANGED drag /\ UNCHANGED <<selection, swept>> /\ bar' = bar
  BY DEF Overwrite
<1>3. rows' \in Seq(Row) /\ Len(rows') = Len(rows)
  <2>1. Len(rows) \in Nat
    BY <1>1, LenProperties
  <2>2. History + l \in 1 .. Len(rows)
    BY <2>1, ViewAssumption DEF ViewInv, Grid, History
  <2> QED BY <1>1, <1>2, <2>2, ExceptSeq
<1>4. Grid'
  BY <1>2, <1>3 DEF ViewInv, Grid, History
<1> QED BY <1>2, <1>4, DragKept, SelectionKept DEF ViewInv, Sought

LEMMA BlankRows ==
    ASSUME NEW n \in Nat
    PROVE  [l \in 1..n |-> Blank] \in Seq(Row) /\ Len([l \in 1..n |-> Blank]) = n
<1>1. Blank \in Row
  BY BlankIsRow
<1> QED BY <1>1

LEMMA ResetKeeps == ASSUME ViewInv, Reset PROVE ViewInv'
<1>1. Len(rows) \in Nat /\ dropped \in Nat /\ lost \in Nat
  BY LenProperties DEF ViewInv, Grid
<1>2. /\ rows' = [l \in 1..ScreenRows |-> Blank] /\ offset' = 0
      /\ dropped' = dropped + Len(rows) /\ lost' = lost + 1
      /\ UNCHANGED drag /\ UNCHANGED <<selection, swept>> /\ bar' = bar
  BY DEF Reset
<1>3. rows' \in Seq(Row) /\ Len(rows') = ScreenRows
  BY <1>2, BlankRows, ViewAssumption
<1>4. Grid'
  BY <1>1, <1>2, <1>3, ViewAssumption DEF Grid, History
<1> QED BY <1>2, <1>4, DragKept, SelectionKept DEF ViewInv, Sought

LEMMA ClearScrollbackKeeps == ASSUME ViewInv, ClearScrollback PROVE ViewInv'
<1>1. /\ rows \in Seq(Row) /\ Len(rows) \in Nat /\ Len(rows) - ScreenRows \in 0..HistoryMax
      /\ dropped \in Nat /\ lost \in Nat
  BY LenProperties DEF ViewInv, Grid
<1>2. /\ rows' = SubSeq(rows, Len(rows) - ScreenRows + 1, Len(rows)) /\ offset' = 0
      /\ dropped' = dropped + (Len(rows) - ScreenRows) /\ lost' = lost
      /\ selecting' = FALSE /\ selection' = None /\ swept' = swept /\ bar' = bar
  BY DEF ClearScrollback, Forget, EndDrag, History
<1>3. rows' \in Seq(Row) /\ Len(rows') = ScreenRows
  BY <1>1, <1>2, ViewAssumption, SubSeqProperties
<1>4. Grid'
  BY <1>1, <1>2, <1>3, ViewAssumption DEF Grid, History
<1> QED BY <1>2, <1>4, Deselected DEF ViewInv, Sought, Dragging

LEMMA SetLineFilterKeeps == ASSUME ViewInv, NEW c, SetLineFilter(c) PROVE ViewInv'
<1>1. Grid /\ Len(rows) \in Nat /\ dropped \in Nat /\ lost \in Nat
  BY LenProperties DEF ViewInv, Grid
<1> DEFINE kept == Filtered(c)
<1>2. /\ rows' = kept /\ dropped' = dropped + Len(rows) /\ lost' = lost /\ selecting' = FALSE
  BY DEF SetLineFilter, EndDrag
<1>3. kept \in Seq(Row) /\ Len(kept) - ScreenRows \in 0..HistoryMax
  BY <1>1, FilteredIs
<1>4. Len(kept) \in Nat
  BY <1>3, LenProperties
<1>5. Dragging'
  BY <1>2 DEF Dragging
<1>6. CASE bar = NoBar
  <2>1. selection' = None /\ offset' = 0 /\ bar' = bar /\ swept' = swept
    BY <1>6 DEF SetLineFilter
  <2>2. Grid'
    <3> HIDE DEF kept
    <3> QED BY <1>1, <1>2, <1>3, <1>4, <2>1, ViewAssumption DEF Grid, History
  <2> QED BY <1>2, <1>5, <2>1, <2>2, Deselected DEF ViewInv, Sought
<1>7. CASE bar # NoBar
  <2> DEFINE b == Refreshed(kept, dropped', bar.query)
             other == [selection |-> None, swept |-> swept]
  <2>1. Show(b, kept, 0, other)
    BY <1>7 DEF SetLineFilter
  <2> HIDE DEF kept
  <2>2. bar.query \in Seq(Characters) /\ dropped' \in Nat
    BY <1>1, <1>2, <1>7 DEF ViewInv, Sought, Bars
  <2>3. b \in Bars /\ b.dropped = dropped' /\ b.current \in 0 .. Len(b.matches)
    BY <1>3, <2>2, RefreshedIs
  <2>4. SelectedBy(other.selection, other.swept, lost, dropped')
    BY DEF SelectedBy, ViewInv, Selected
  <2> HIDE DEF b, other
  <2>5. /\ Sought' /\ offset' \in 0 .. (Len(kept) - ScreenRows)
        /\ SelectedBy(selection', swept', lost, dropped')
    BY <1>1, <1>3, <1>4, <2>1, <2>3, <2>4, ShowKeeps, ViewAssumption
  <2>6. Selected'
    BY <1>2, <2>5 DEF Selected
  <2>7. Grid'
    BY <1>1, <1>2, <1>3, <2>2, <2>5 DEF Grid, History
  <2> QED BY <1>5, <2>5, <2>6, <2>7 DEF ViewInv
<1> QED BY <1>6, <1>7
-----------------------------------------------------------------------------
(* The invariant of the view, and what it means.                           *)

LEMMA ViewStart == ViewInit => ViewInv
<1> SUFFICES ASSUME ViewInit PROVE ViewInv
  OBVIOUS
<1>1. /\ rows = FirstRows /\ offset = 0 /\ dropped = 0 /\ lost = 0 /\ selecting = FALSE
      /\ selection = None /\ swept = [range |-> None, lost |-> 0] /\ bar = NoBar
  BY DEF ViewInit, NothingSeen
<1>2. Grid
  BY <1>1, ViewAssumption DEF Grid, History, Row
<1>3. Selected
  BY <1>1 DEF Selected, SelectedBy
<1> QED BY <1>1, <1>2, <1>3 DEF ViewInv, Dragging, Sought

LEMMA ViewStep == ViewInv /\ ViewNext => ViewInv'
<1> SUFFICES ASSUME ViewInv, ViewNext PROVE ViewInv'
  OBVIOUS
<1>1. CASE \E p \in Cells, g \in Takes: MouseDown(p, g)
  BY <1>1, MouseDownKeeps
<1>2. CASE \E p \in Places: DragMove(p)
  BY <1>2, DragMoveKeeps
<1>3. CASE Tick \/ MouseUp \/ SelectVisible \/ Type
  BY <1>3, TickKeeps, MouseUpKeeps, SelectVisibleKeeps, TypeKeeps
<1>4. CASE \E delta \in {-1, 1}: Wheel(delta)
  BY <1>4, WheelKeeps
<1>5. CASE \E up \in 0..History: ScrollLocally(up)
  BY <1>5, ScrollLocallyKeeps
<1>6. CASE OpenSearch \/ CloseSearch
  BY <1>6, OpenSearchKeeps, CloseSearchKeeps
<1>7. CASE \E q \in Queries: Search(q)
  BY <1>7, SearchKeeps
<1>8. CASE \E forward \in BOOLEAN: Find(forward)
  BY <1>8, FindKeeps
<1>9. CASE \E text \in Writings: Output(text) \/ \E l \in 1..ScreenRows: Overwrite(l, text)
  BY <1>9, OutputKeeps, OverwriteKeeps
<1>10. CASE \E c \in {"x", "-"}: SetLineFilter(c)
  BY <1>10, SetLineFilterKeeps
<1>11. CASE Reset \/ ClearScrollback
  BY <1>11, ResetKeeps, ClearScrollbackKeeps
<1> QED BY <1>1, <1>2, <1>3, <1>4, <1>5, <1>6, <1>7, <1>8, <1>9, <1>10, <1>11, Zenon DEF ViewNext

LEMMA ViewHolds == ViewInv => ViewSound
<1> SUFFICES ASSUME ViewInv PROVE ViewSound
  OBVIOUS
<1>1. ViewTypeOK
  <2>1. selecting => anchor # None /\ pointer \in Places
    BY SpotNotNone DEF ViewInv, Dragging
  <2>2. bar.current \in 0..Len(bar.matches)
    <3>1. CASE bar = NoBar
      BY <3>1, EmptySeq DEF NoBar
    <3>2. CASE bar # NoBar
      BY <3>2 DEF ViewInv, Sought
    <3> QED BY <3>1, <3>2
  <2> QED BY <2>1, <2>2 DEF ViewTypeOK, ViewInv, Grid
<1>2. SweptIsSelected
  <2> SUFFICES ASSUME selection # None, swept.lost = lost
               PROVE  <<Place(Normalized[1][1] + dropped, Normalized[1][2]),
                        Place(Normalized[2][1] + dropped, Normalized[2][2])>> = swept.range
    BY DEF SweptIsSelected
  <2>1. MovedDown(Ends(selection), dropped) = swept.range
    BY DEF ViewInv, Selected, SelectedBy
  <2>2. Ends(selection) = Normalized
    BY DEF Ends, Normalized
  <2> QED BY <2>1, <2>2 DEF MovedDown, Shift, Place
<1> QED BY <1>1, <1>2 DEF ViewSound
-----------------------------------------------------------------------------
(* Stepping through the matches.                                           *)

LEMMA Turns ==
    ASSUME NEW n \in Nat \ {0}, NEW i \in 1..n
    PROVE  /\ StepFrom(i, n, TRUE) = IF i = n THEN 1 ELSE i + 1
           /\ StepFrom(i, n, FALSE) = IF i = 1 THEN n ELSE i - 1
<1>1. i % n = IF i = n THEN 0 ELSE i
  OBVIOUS
<1>2. (i + n - 2) % n = IF i = 1 THEN n - 1 ELSE i - 2
  OBVIOUS
<1> QED BY <1>1, <1>2 DEF StepFrom

\* The one after, or before, in reading order.
LEMMA NextOfIs ==
    ASSUME NEW found, Len(found) \in Nat \ {0}, DOMAIN found = 1 .. Len(found), Ascending(found),
           NEW i \in 1 .. Len(found), Before(found[i], found[i])
    PROVE  /\ NextOf(found, found[i], TRUE) = found[IF i = Len(found) THEN 1 ELSE i + 1]
           /\ NextOf(found, found[i], FALSE) = found[IF i = 1 THEN Len(found) ELSE i - 1]
<1> DEFINE n == Len(found)
           m == found[i]
           after == {j \in 1..n : ~Before(found[j], m)}
           before == {j \in 1..n : ~Before(m, found[j])}
           afters == IF after = {} THEN 1..n ELSE after
           befores == IF before = {} THEN 1..n ELSE before
           Least(S) == CHOOSE k \in S : \A j \in S : k <= j
           Greatest(S) == CHOOSE k \in S : \A j \in S : k >= j
<1>1. \A j \in 1..n : Before(found[j], m) <=> j <= i
  BY DEF Ascending
<1>2. \A j \in 1..n : Before(m, found[j]) <=> i <= j
  BY DEF Ascending
<1>3. NextOf(found, m, TRUE) = found[Least(afters)]
  BY Zenon DEF NextOf
<1>4. NextOf(found, m, FALSE) = found[Greatest(befores)]
  BY Zenon DEF NextOf
<1>5. after = (i + 1) .. n /\ before = 1 .. (i - 1)
  <2> HIDE DEF m
  <2> QED BY <1>1, <1>2
<1>6. Least(afters) = IF i = n THEN 1 ELSE i + 1
  <2> DEFINE t == IF i = n THEN 1 ELSE i + 1
  <2>1. afters = IF i = n THEN 1 .. n ELSE (i + 1) .. n
    <3>1. CASE i = n
      <4>1. after = {}
        <5> HIDE DEF after, m
        <5> QED BY <1>5, <3>1
      <4> HIDE DEF after
      <4> QED BY <3>1, <4>1
    <3>2. CASE i # n
      <4>1. i + 1 \in (i + 1) .. n
        <5>1. n \in Nat /\ i \in Nat /\ i <= n
          OBVIOUS
        <5> HIDE DEF n
        <5> QED BY <3>2, <5>1
      <4> HIDE DEF after
      <4> QED BY <1>5, <3>2, <4>1
    <3> QED BY <3>1, <3>2
  <2> HIDE DEF afters
  <2>2. t \in afters /\ afters \subseteq Int /\ \A j \in afters : t <= j
    <3> HIDE DEF n
    <3>1. n \in Nat \ {0} /\ i \in 1 .. n
      BY DEF n
    <3> QED BY <2>1, <3>1
  <2> HIDE DEF t
  <2>3. \A k \in afters : (\A j \in afters : k <= j) => k = t
    BY <2>2
  <2>4. Least(afters) = t
    BY <2>2, <2>3
  <2> QED BY <2>4 DEF t
<1>7. Greatest(befores) = IF i = 1 THEN n ELSE i - 1
  <2> DEFINE t == IF i = 1 THEN n ELSE i - 1
  <2>1. befores = IF i = 1 THEN 1 .. n ELSE 1 .. (i - 1)
    <3> HIDE DEF before
    <3> QED BY <1>5
  <2> HIDE DEF befores
  <2>2. t \in befores /\ befores \subseteq Int /\ \A j \in befores : t >= j
    BY <2>1
  <2> HIDE DEF t
  <2>3. \A k \in befores : (\A j \in befores : k >= j) => k = t
    BY <2>2
  <2>4. Greatest(befores) = t
    BY <2>2, <2>3
  <2> QED BY <2>4 DEF t
<1> QED BY <1>3, <1>4, <1>6, <1>7

LEMMA StepsFromHere ==
    ASSUME ViewInv, bar.current # 0
    PROVE  StepsFrom(bar.matches[bar.current])
<1> DEFINE m == bar.matches[bar.current]
           found == FindMatches(rows, bar.query)
<1> SUFFICES ASSUME NEW forward \in BOOLEAN, Find(forward), NEW i \in DOMAIN found, found[i] = m
             PROVE  bar'.matches[bar'.current] = NextOf(found, m, forward)
  BY DEF StepsFrom, Find
<1>1. rows \in Seq(Row) /\ bar \in Bars /\ bar.query \in Seq(Characters)
  BY DEF ViewInv, Grid, Sought, Find, FindAmong, Bars
<1>2. found \in Seq(Match) /\ Ascending(found)
  BY <1>1, FindMatchesAre
<1>3. Len(found) \in Nat /\ DOMAIN found = 1 .. Len(found)
  BY <1>2, LenProperties
<1> HIDE DEF found
<1>4. i \in 1 .. Len(found) /\ Len(found) \in Nat \ {0}
  BY <1>3
<1>5. \A j \in 1 .. Len(found) : found[j][1] \in Int /\ found[j][2] \in Int
  <2> SUFFICES ASSUME NEW j \in 1 .. Len(found) PROVE found[j][1] \in Int /\ found[j][2] \in Int
    OBVIOUS
  <2>1. found[j] \in Match
    BY <1>2, ElementOfSeq
  <2> QED BY <2>1 DEF Match
<1>6. Before(found[i], found[i])
  BY <1>4, <1>5 DEF Before
<1>7. {j \in DOMAIN found: bar.current # 0 /\ found[j] = m} = {i}
  <2> SUFFICES ASSUME NEW j \in 1 .. Len(found), found[j] = found[i] PROVE j = i
    BY <1>3, <1>4
  <2> QED BY <1>2, <1>4, <1>6 DEF Ascending
<1>8. bar'.matches = found /\ bar'.current = StepFromPlace(found, forward)
  BY <1>1 DEF Find, FindAmong, Show, found, Bars
<1>9. StepFromPlace(found, forward) = StepFrom(i, Len(found), forward)
  BY <1>7 DEF StepFromPlace
<1>10. CASE forward = TRUE
  <2>1. bar'.current = IF i = Len(found) THEN 1 ELSE i + 1
    BY <1>4, <1>8, <1>9, <1>10, Turns
  <2>2. NextOf(found, found[i], TRUE) = found[IF i = Len(found) THEN 1 ELSE i + 1]
    BY <1>2, <1>3, <1>4, <1>6, NextOfIs
  <2> QED BY <1>8, <1>10, <2>1, <2>2
<1>11. CASE forward = FALSE
  <2>1. bar'.current = IF i = 1 THEN Len(found) ELSE i - 1
    BY <1>4, <1>8, <1>9, <1>11, Turns
  <2>2. NextOf(found, found[i], FALSE) = found[IF i = 1 THEN Len(found) ELSE i - 1]
    BY <1>2, <1>3, <1>4, <1>6, NextOfIs
  <2> QED BY <1>8, <1>11, <2>1, <2>2
<1> QED BY <1>10, <1>11

LEMMA RowInView ==
    ASSUME NEW s \in Nat, s >= 2, NEW n \in Nat, n >= s, NEW l \in Nat, l >= 1, l <= n,
           NEW up \in Nat, up <= n - s, NEW moved, NEW to,
           moved = IF l <= n - s - up THEN up + (n - s - up) - l + 2
                   ELSE IF l > (n - s - up) + s THEN up - (l + 1 - ((n - s - up) + s))
                   ELSE up,
           to = IF moved < 0 THEN 0 ELSE IF moved > n - s THEN n - s ELSE moved
    PROVE  l > n - s - to /\ l <= n - to
<1>1. CASE l <= n - s - up
  BY <1>1
<1>2. CASE ~(l <= n - s - up) /\ l > (n - s - up) + s
  BY <1>2
<1>3. CASE ~(l <= n - s - up) /\ ~(l > (n - s - up) + s)
  BY <1>3
<1> QED BY <1>1, <1>2, <1>3

\* On a screen of two rows or more the viewport that shows a match has it.
LEMMA InViewShows ==
    ASSUME ScreenRows >= 2, NEW m, NEW n \in Nat, m[1] \in 1..n, n >= ScreenRows,
           NEW up \in 0 .. (n - ScreenRows),
           NEW to, to = InView(m, n - ScreenRows - up, n - ScreenRows, up)
    PROVE  m[1] > n - ScreenRows - to /\ m[1] <= n - to
<1> DEFINE l == m[1]
           moved == IF l <= n - ScreenRows - up THEN up + (n - ScreenRows - up) - l + 2
                    ELSE IF l > (n - ScreenRows - up) + ScreenRows
                         THEN up - (l + 1 - ((n - ScreenRows - up) + ScreenRows))
                    ELSE up
<1>1. to = IF moved < 0 THEN 0 ELSE IF moved > n - ScreenRows THEN n - ScreenRows ELSE moved
  BY DEF InView
<1>2. /\ ScreenRows \in Nat /\ l \in Nat /\ l >= 1 /\ l <= n
      /\ up \in Nat /\ up <= n - ScreenRows
  BY ViewAssumption
<1>3. l > n - ScreenRows - to /\ l <= n - to
  <2> HIDE DEF l
  <2> QED BY <1>1, <1>2, RowInView
<1> QED BY <1>3

LEMMA ShowsIt ==
    ASSUME ScreenRows >= 2, NEW b, NEW lines, NEW up, NEW other, Show(b, lines, up, other), rows' = lines,
           b.current # 0 => b.matches[b.current][1] \in 1 .. Len(lines),
           Len(lines) \in Nat, Len(lines) >= ScreenRows, up \in 0 .. (Len(lines) - ScreenRows)
    PROVE  ShownInView
<1> SUFFICES ASSUME b.current # 0
             PROVE  LET l == b.matches[b.current][1]
                    IN l > Len(lines) - ScreenRows - offset' /\ l <= Len(lines) - offset'
  BY DEF ShownInView, Show
<1>1. offset' = InView(b.matches[b.current], Len(lines) - ScreenRows - up, Len(lines) - ScreenRows, up)
  BY DEF Show
<1> QED BY <1>1, InViewShows

LEMMA FoundAreHeld ==
    ASSUME NEW lines \in Seq(Row), NEW q \in Seq(Characters), NEW gone \in Nat
    PROVE  LET b == Refreshed(lines, gone, q)
           IN b.current # 0 => b.matches[b.current][1] \in 1 .. Len(lines)
<1> DEFINE b == Refreshed(lines, gone, q)
<1>1. b.matches = FindMatches(lines, q) /\ b.current \in 0 .. Len(b.matches)
  BY RefreshedIs DEF Refreshed
<1>2. Len(b.matches) \in Nat
  BY <1>1, FindMatchesAre, LenProperties
<1> HIDE DEF b
<1>3. ASSUME b.current # 0 PROVE b.matches[b.current][1] \in 1 .. Len(lines)
  <2>1. b.current \in 1 .. Len(FindMatches(lines, q))
    BY <1>1, <1>2, <1>3
  <2> QED BY <1>1, <2>1, FindMatchesAre
<1> QED BY <1>3 DEF b

LEMMA ViewShows == ASSUME ScreenRows >= 2, ViewInv, ViewNext PROVE ShownInView
<1>1. /\ rows \in Seq(Row) /\ Len(rows) \in Nat /\ Len(rows) >= ScreenRows /\ dropped \in Nat
      /\ offset \in 0 .. (Len(rows) - ScreenRows) /\ Grid
  BY LenProperties, ViewAssumption DEF ViewInv, Grid, History
<1>2. CASE bar' = bar
  BY <1>2 DEF ShownInView
<1>3. CASE OpenSearch \/ CloseSearch
  BY <1>3 DEF OpenSearch, CloseSearch, ShownInView, NoBar
<1>4. ASSUME NEW q \in Queries, Search(q) PROVE ShownInView
  <2>1. Show(Refreshed(rows, dropped, q), rows, offset, AsIs) /\ rows' = rows
    BY <1>4 DEF Search, buffer
  <2>2. q \in Seq(Characters)
    BY ViewAssumption
  <2> QED BY <1>1, <2>1, <2>2, FoundAreHeld, ShowsIt
<1>5. ASSUME NEW forward \in BOOLEAN, Find(forward) PROVE ShownInView
  <2> DEFINE found == FindMatches(rows, bar.query)
             next == StepFromPlace(found, forward)
             b == [bar EXCEPT !.matches = found, !.current = next, !.dropped = dropped]
  <2>1. bar \in Bars /\ bar.query \in Seq(Characters)
    BY <1>5 DEF ViewInv, Sought, Find, FindAmong, Bars
  <2>2. Show(b, rows, offset, AsIs) /\ rows' = rows
    BY <1>5 DEF Find, FindAmong, buffer
  <2>3. /\ found \in Seq(Match) /\ Len(found) \in Nat /\ DOMAIN found = 1 .. Len(found)
        /\ \A i \in 1 .. Len(found) : found[i][1] \in 1 .. Len(rows)
    BY <1>1, <2>1, FindMatchesAre, LenProperties
  <2> HIDE DEF found
  <2>4. next \in 0 .. Len(found)
    <3> DEFINE same == {i \in DOMAIN found: bar.current # 0 /\ found[i] = bar.matches[bar.current]}
               from == IF same = {} THEN 0 ELSE CHOOSE i \in same: TRUE
    <3>1. next = StepFrom(from, Len(found), forward)
      BY DEF StepFromPlace
    <3>2. from \in 0 .. Len(found)
      BY <2>3
    <3> HIDE DEF next, from
    <3> QED BY <2>3, <3>1, <3>2, StepFromIs
  <2> HIDE DEF next
  <2>5. b.matches = found /\ b.current = next
    BY <2>1 DEF Bars
  <2> HIDE DEF b
  <2>6. b.current # 0 => b.matches[b.current][1] \in 1 .. Len(rows)
    BY <2>3, <2>4, <2>5
  <2> QED BY <1>1, <2>2, <2>6, ShowsIt
<1>6. ASSUME NEW c, SetLineFilter(c), bar # NoBar PROVE ShownInView
  <2> DEFINE kept == Filtered(c)
             b == Refreshed(kept, dropped', bar.query)
  <2>1. Show(b, kept, 0, [selection |-> None, swept |-> swept]) /\ rows' = kept
    BY <1>6 DEF SetLineFilter
  <2>2. kept \in Seq(Row) /\ Len(kept) - ScreenRows \in 0..HistoryMax
    BY <1>1, FilteredIs
  <2>3. Len(kept) \in Nat /\ dropped' \in Nat /\ bar.query \in Seq(Characters)
    BY <1>1, <1>6, <2>2, LenProperties DEF SetLineFilter, ViewInv, Sought, Bars
  <2> HIDE DEF kept
  <2>4. Len(kept) >= ScreenRows /\ 0 \in 0 .. (Len(kept) - ScreenRows)
    BY <2>2, <2>3, ViewAssumption
  <2>5. b.current # 0 => b.matches[b.current][1] \in 1 .. Len(kept)
    BY <2>2, <2>3, FoundAreHeld
  <2> HIDE DEF b
  <2> QED BY <2>1, <2>3, <2>4, <2>5, ShowsIt
<1>7. \/ bar' = bar \/ OpenSearch \/ CloseSearch
      \/ \E q \in Queries: Search(q)
      \/ \E forward \in BOOLEAN: Find(forward)
      \/ \E c \in {"x", "-"}: SetLineFilter(c) /\ bar # NoBar
  BY DEF ViewNext, MouseDown, DragMove, Tick, MouseUp, SelectVisible, Type, Wheel, ScrollLocally,
         Output, Overwrite, SetLineFilter, Reset, ClearScrollback
<1> QED BY <1>2, <1>3, <1>4, <1>5, <1>6, <1>7
-----------------------------------------------------------------------------
(* The pane.                                                               *)

\* A step of the pane is one of one of its parts, and the others stay as they are.
PaneInv == CardInv /\ ReadsOfTexts /\ MouseInv /\ ViewInv

LEMMA PaneStart == PaneInit => PaneInv
  BY CardStart, TextStart, MouseStart, ViewStart DEF PaneInit, PaneInv

LEMMA PaneStep ==
    PaneInv /\ [PaneNext]_<<part, streamVars, viewVars, mouseState, textState, cardState>> =>
        PaneInv' /\ Asked
<1> SUFFICES ASSUME PaneInv, [PaneNext]_<<part, streamVars, viewVars, mouseState, textState, cardState>>
             PROVE  PaneInv' /\ Asked
  OBVIOUS
<1>1. CardInv'
  BY CardStep, CardSame DEF PaneInv, PaneNext
<1>2. ReadsOfTexts' /\ Asked
  BY TextStep, TextSame DEF PaneInv, PaneNext
<1>3. MouseInv'
  BY MouseStep, MouseSame DEF PaneInv, PaneNext
<1>4. ViewInv'
  BY ViewStep, ViewSame DEF PaneInv, PaneNext
<1> QED BY <1>1, <1>2, <1>3, <1>4 DEF PaneInv

\* Every reachable state of a pane satisfies the inductive invariant.
THEOREM PaneInvariant == PaneSpec => []PaneInv
  BY PaneStart, PaneStep, PTL DEF PaneSpec

\* In a pane that stayed on the screen a half-given answer about a host key belongs to
\* the refusal the card shows.
THEOREM AnswersBelong == PaneSpec => []AskedForThis
<1>1. PaneInv => AskedForThis
  BY DEF PaneInv, CardInv
<1> QED BY <1>1, PaneInvariant, PTL

\* No button stays down for the program, and a drag is the user's or the program's.
THEOREM MouseIsSound == PaneSpec => []MouseSound
<1>1. PaneInv => MouseSound
  BY MouseHolds DEF PaneInv
<1> QED BY <1>1, PaneInvariant, PTL

\* No paste of several lines goes out bare and unasked.
THEOREM PastesAreAsked == PaneSpec => PasteAsked
<1>1. PaneInv /\ [PaneNext]_<<part, streamVars, viewVars, mouseState, textState, cardState>>
         => [Asked]_textState
  BY PaneStep
<1>2. PasteAsked <=> [][Asked]_textState
  BY DEF PasteAsked, Typing!PasteAsked, Asked, textState, Typing!textVars
<1> QED BY <1>1, <1>2, PaneInvariant, PTL DEF PaneSpec

\* A selection is on the rows the gesture that made it passed over, through output,
\* wheel, autoscroll, search and filter, until rows are lost that the view is not told of;
\* and the viewport and the search bar stay within what is held and found.
THEOREM ViewIsSound == PaneSpec => []ViewSound
<1>1. PaneInv => ViewSound
  BY ViewHolds DEF PaneInv
<1> QED BY <1>1, PaneInvariant, PTL

\* Stepping through the matches visits them in reading order from the one selected, and
\* on a screen of two rows or more shows each: on one of a single row the row of context
\* that show_current_match keeps beside a match pushes the match itself out.
THEOREM SearchStepsOn == ScreenRows >= 2 => (PaneSpec => StepsOn)
<1> SUFFICES ASSUME ScreenRows >= 2 PROVE PaneSpec => StepsOn
  OBVIOUS
<1> DEFINE Steps == /\ bar.current # 0 /\ bar.dropped = dropped => StepsFrom(bar.matches[bar.current])
                    /\ ShownInView
<1>1. PaneInv /\ [PaneNext]_<<part, streamVars, viewVars, mouseState, textState, cardState>>
         => [Steps]_viewVars
  <2> SUFFICES ASSUME PaneInv, ViewNext PROVE Steps
    BY DEF PaneNext
  <2> QED BY StepsFromHere, ViewShows DEF PaneInv
<1>2. StepsOn <=> [][Steps]_viewVars
  BY DEF StepsOn
<1> HIDE DEF Steps
<1> QED BY <1>1, <1>2, PaneInvariant, PTL DEF PaneSpec
-----------------------------------------------------------------------------
(* The strip of tabs as a sequence.                                        *)

LEMMA EntriesOf ==
    ASSUME NEW S, NEW s \in Seq(S)
    PROVE  /\ Len(s) \in Nat /\ DOMAIN s = 1 .. Len(s)
           /\ \A i \in 1 .. Len(s) : s[i] \in S
           /\ ToSet(s) = {s[i] : i \in 1 .. Len(s)}
  BY LenProperties DEF ToSet

\* One entry taken out: those behind it move up.
LEMMA TakenOut ==
    ASSUME NEW S, NEW s \in Seq(S), NEW i \in 1 .. Len(s)
    PROVE  /\ RemoveAt(s, i) \in Seq(S)
           /\ Len(RemoveAt(s, i)) = Len(s) - 1
           /\ \A j \in 1 .. (Len(s) - 1) : RemoveAt(s, i)[j] = IF j < i THEN s[j] ELSE s[j + 1]
<1> DEFINE a == SubSeq(s, 1, i - 1)
           b == SubSeq(s, i + 1, Len(s))
<1>0. Len(s) \in Nat /\ \A j \in 1 .. Len(s) : s[j] \in S
  BY EntriesOf
<1>1. /\ a \in Seq(S) /\ Len(a) = i - 1
      /\ \A j \in 1 .. (i - 1) : a[j] = s[j]
  <2>1. \A j \in 1 .. (i - 1) : s[j] \in S
    BY <1>0
  <2>2. /\ a \in Seq(S) /\ Len(a) = IF 1 <= i - 1 THEN (i - 1) - 1 + 1 ELSE 0
        /\ \A j \in 1 .. ((i - 1) - 1 + 1) : a[j] = s[1 + j - 1]
    BY <1>0, <2>1, SubSeqProperties
  <2> QED BY <1>0, <2>2
<1>2. /\ b \in Seq(S) /\ Len(b) = Len(s) - i
      /\ \A j \in 1 .. (Len(s) - i) : b[j] = s[i + j]
  <2>1. \A j \in (i + 1) .. Len(s) : s[j] \in S
    BY <1>0
  <2>2. /\ b \in Seq(S) /\ Len(b) = IF i + 1 <= Len(s) THEN Len(s) - (i + 1) + 1 ELSE 0
        /\ \A j \in 1 .. (Len(s) - (i + 1) + 1) : b[j] = s[(i + 1) + j - 1]
    BY <1>0, <2>1, SubSeqProperties
  <2> QED BY <1>0, <2>2
<1> HIDE DEF a, b
<1>3. /\ a \o b \in Seq(S) /\ Len(a \o b) = Len(a) + Len(b)
      /\ \A j \in 1 .. (Len(a) + Len(b)) :
            (a \o b)[j] = IF j <= Len(a) THEN a[j] ELSE b[j - Len(a)]
  BY <1>1, <1>2, ConcatProperties
<1>4. RemoveAt(s, i) = a \o b
  BY DEF RemoveAt, a, b
<1>5. ASSUME NEW j \in 1 .. (Len(s) - 1)
      PROVE  (a \o b)[j] = IF j < i THEN s[j] ELSE s[j + 1]
  <2>1. CASE j < i
    BY <1>0, <1>1, <1>2, <1>3, <2>1
  <2>2. CASE j >= i
    <3>1. j - (i - 1) \in 1 .. (Len(s) - i) /\ i + (j - (i - 1)) = j + 1
      BY <1>0, <2>2
    <3>2. b[j - (i - 1)] = s[j + 1]
      BY <1>2, <3>1
    <3>3. (a \o b)[j] = b[j - (i - 1)]
      BY <1>0, <1>1, <1>2, <1>3, <2>2
    <3> QED BY <2>2, <3>2, <3>3
  <2>3. j \in Nat /\ i \in Nat /\ (j < i \/ j >= i)
    BY <1>0
  <2> QED BY <2>1, <2>2, <2>3
<1> QED BY <1>0, <1>1, <1>2, <1>3, <1>4, <1>5

\* One entry put in: those behind it move down.
Inserted(r, s, i, e) ==
    /\ Len(r) = Len(s) + 1
    /\ \A j \in 1 .. (Len(s) + 1) : r[j] = IF j < i THEN s[j] ELSE IF j = i THEN e ELSE s[j - 1]

LEMMA PutIn ==
    ASSUME NEW S, NEW s \in Seq(S), NEW i \in 1 .. (Len(s) + 1), NEW e \in S
    PROVE  InsertAt(s, i, e) \in Seq(S) /\ Inserted(InsertAt(s, i, e), s, i, e)
<1> DEFINE a == SubSeq(s, 1, i - 1)
           b == SubSeq(s, i, Len(s))
           c == a \o <<e>>
<1>0. Len(s) \in Nat /\ \A j \in 1 .. Len(s) : s[j] \in S
  BY EntriesOf
<1>1. /\ a \in Seq(S) /\ Len(a) = i - 1
      /\ \A j \in 1 .. (i - 1) : a[j] = s[j]
  <2>1. \A j \in 1 .. (i - 1) : s[j] \in S
    BY <1>0
  <2>2. /\ a \in Seq(S) /\ Len(a) = IF 1 <= i - 1 THEN (i - 1) - 1 + 1 ELSE 0
        /\ \A j \in 1 .. ((i - 1) - 1 + 1) : a[j] = s[1 + j - 1]
    BY <1>0, <2>1, SubSeqProperties
  <2> QED BY <1>0, <2>2
<1>2. /\ b \in Seq(S) /\ Len(b) = Len(s) + 1 - i
      /\ \A j \in 1 .. (Len(s) + 1 - i) : b[j] = s[i + j - 1]
  <2>1. \A j \in i .. Len(s) : s[j] \in S
    BY <1>0
  <2>2. /\ b \in Seq(S) /\ Len(b) = IF i <= Len(s) THEN Len(s) - i + 1 ELSE 0
        /\ \A j \in 1 .. (Len(s) - i + 1) : b[j] = s[i + j - 1]
    BY <1>0, <2>1, SubSeqProperties
  <2> QED BY <1>0, <2>2
<1> HIDE DEF a, b
<1>3. /\ c \in Seq(S) /\ Len(c) = i
      /\ \A j \in 1 .. i : c[j] = IF j < i THEN a[j] ELSE e
  <2>1. <<e>> \in Seq(S) /\ Len(<<e>>) = 1 /\ <<e>>[1] = e
    OBVIOUS
  <2>2. /\ c \in Seq(S) /\ Len(c) = Len(a) + 1
        /\ \A j \in 1 .. (Len(a) + 1) : c[j] = IF j <= Len(a) THEN a[j] ELSE <<e>>[j - Len(a)]
    BY <1>1, <2>1, ConcatProperties
  <2> QED BY <1>0, <1>1, <2>1, <2>2
<1> HIDE DEF c
<1>4. /\ c \o b \in Seq(S) /\ Len(c \o b) = Len(c) + Len(b)
      /\ \A j \in 1 .. (Len(c) + Len(b)) :
            (c \o b)[j] = IF j <= Len(c) THEN c[j] ELSE b[j - Len(c)]
  BY <1>2, <1>3, ConcatProperties
<1>5. InsertAt(s, i, e) = c \o b
  BY DEF InsertAt, a, b, c
<1>6. /\ Len(c \o b) = Len(s) + 1
      /\ \A j \in 1 .. (Len(s) + 1) :
            (c \o b)[j] = IF j < i THEN s[j] ELSE IF j = i THEN e ELSE s[j - 1]
  BY <1>0, <1>1, <1>2, <1>3, <1>4
<1> DEFINE r == c \o b
<1> HIDE DEF r
<1>7. Inserted(r, s, i, e)
  BY <1>6 DEF Inserted, r
<1> QED BY <1>4, <1>5, <1>7 DEF r

LEMMA Injective ==
    ASSUME NEW S, NEW s \in Seq(S)
    PROVE  IsInjective(s) <=> \A i, j \in 1 .. Len(s) : s[i] = s[j] => i = j
  BY LenProperties DEF IsInjective

\* What is once in a sequence is not in it when it was taken out.
LEMMA RemovedFirst ==
    ASSUME NEW S, NEW s \in Seq(S), NEW p, IsInjective(s)
    PROVE  /\ RemoveFirst(s, p) \in Seq(S)
           /\ IsInjective(RemoveFirst(s, p))
           /\ ToSet(RemoveFirst(s, p)) = ToSet(s) \ {p}
           /\ p \in ToSet(s) => Len(RemoveFirst(s, p)) = Len(s) - 1
           /\ p \notin ToSet(s) => RemoveFirst(s, p) = s
           /\ s # << >> /\ Last(s) # p =>
                 RemoveFirst(s, p) # << >> /\ Last(RemoveFirst(s, p)) = Last(s)
<1>0. /\ Len(s) \in Nat /\ ToSet(s) = {s[i] : i \in 1 .. Len(s)}
      /\ \A i, j \in 1 .. Len(s) : s[i] = s[j] => i = j
  BY EntriesOf, Injective
<1>1. CASE p \notin ToSet(s)
  <2>1. ~ \E i \in 1 .. Len(s) : s[i] = p
    BY <1>0, <1>1
  <2>2. RemoveFirst(s, p) = s
    BY <2>1 DEF RemoveFirst
  <2> QED BY <2>2, <1>1
<1>2. CASE p \in ToSet(s)
  <2>1. PICK i \in 1 .. Len(s) : s[i] = p
    BY <1>0, <1>2
  <2>2. {k \in 1 .. Len(s) : s[k] = p} = {i}
    BY <1>0, <2>1
  <2>3. Min({i}) = i
    BY DEF Min
  <2>4. SelectInSeq(s, LAMBDA v : v = p) = i
    BY <2>2, <2>3 DEF SelectInSeq
  <2>5. RemoveFirst(s, p) = RemoveAt(s, i)
    BY <2>1, <2>4 DEF RemoveFirst
  <2> DEFINE r == RemoveAt(s, i)
  <2>6. /\ r \in Seq(S) /\ Len(r) = Len(s) - 1
        /\ \A j \in 1 .. (Len(s) - 1) : r[j] = IF j < i THEN s[j] ELSE s[j + 1]
    BY TakenOut
  <2> HIDE DEF r
  <2>7. IsInjective(r)
    <3>1. ASSUME NEW j \in 1 .. Len(r), NEW k \in 1 .. Len(r), r[j] = r[k] PROVE j = k
      BY <1>0, <2>6, <3>1
    <3> QED BY <3>1, <2>6, Injective
  <2>8. ToSet(r) = {r[j] : j \in 1 .. Len(r)}
    BY <2>6, EntriesOf
  <2>9. ASSUME NEW x \in ToSet(r) PROVE x \in ToSet(s) \ {p}
    <3>1. PICK j \in 1 .. Len(r) : x = r[j]
      BY <2>8
    <3> QED BY <3>1, <2>6, <1>0, <2>1
  <2>10. ASSUME NEW x \in ToSet(s) \ {p} PROVE x \in ToSet(r)
    <3>1. PICK j \in 1 .. Len(s) : x = s[j]
      BY <1>0
    <3>2. j # i
      BY <3>1, <2>1
    <3>3. CASE j < i
      <4>1. j \in 1 .. Len(r) /\ r[j] = x
        BY <3>1, <3>3, <2>6, <1>0
      <4> QED BY <4>1, <2>8
    <3>4. CASE j > i
      <4>1. j - 1 \in 1 .. Len(r) /\ r[j - 1] = x
        BY <3>1, <3>4, <2>6, <1>0
      <4> QED BY <4>1, <2>8
    <3> QED BY <3>2, <3>3, <3>4
  <2>11. ASSUME Last(s) # p PROVE r # << >> /\ Last(r) = Last(s)
    <3>1. i < Len(s)
      BY <2>1, <2>11, <1>0 DEF Last
    <3>2. Len(r) >= 1 /\ r[Len(r)] = s[Len(s)]
      BY <3>1, <2>6, <1>0
    <3> QED BY <3>2, <2>6, EmptySeq DEF Last
  <2> QED BY <1>2, <2>5, <2>6, <2>7, <2>9, <2>10, <2>11 DEF r
<1> QED BY <1>1, <1>2

\* One pane more, at the end.
LEMMA OneMore ==
    ASSUME NEW S, NEW s \in Seq(S), NEW p \in S, IsInjective(s), p \notin ToSet(s),
           NEW r \in Seq(S), Len(r) = Len(s) + 1, r[Len(s) + 1] = p,
           \A i \in 1 .. Len(s) : r[i] = s[i]
    PROVE  IsInjective(r) /\ ToSet(r) = ToSet(s) \union {p}
<1>0. /\ Len(s) \in Nat /\ ToSet(s) = {s[i] : i \in 1 .. Len(s)}
      /\ \A i, j \in 1 .. Len(s) : s[i] = s[j] => i = j
  BY EntriesOf, Injective
<1>1. /\ Len(r) = Len(s) + 1
      /\ \A i \in 1 .. Len(s) : r[i] = s[i]
      /\ r[Len(s) + 1] = p
  OBVIOUS
<1>2. \A i \in 1 .. Len(s) : s[i] # p
  BY <1>0
<1>3. IsInjective(r)
  <2>1. ASSUME NEW j \in 1 .. Len(r), NEW k \in 1 .. Len(r), r[j] = r[k] PROVE j = k
    BY <1>0, <1>1, <1>2, <2>1
  <2> QED BY <2>1, <1>1, Injective
<1>4. ToSet(r) = {r[j] : j \in 1 .. Len(r)}
  BY EntriesOf
<1>5. ToSet(r) = ToSet(s) \union {p}
  <2>1. 1 .. Len(r) = 1 .. Len(s) \union {Len(s) + 1}
    BY <1>0, <1>1
  <2>2. {r[j] : j \in 1 .. Len(s)} = {s[i] : i \in 1 .. Len(s)}
    BY <1>1
  <2> QED BY <1>0, <1>1, <1>4, <2>1, <2>2
<1> QED BY <1>3, <1>5

-----------------------------------------------------------------------------
(* One tab.                                                                *)

\* A tab of panes up to n.
TabUpTo(n) == [id: Nat, panes: Seq(1 .. n), active: 1 .. n, order: Seq(1 .. n)]

\* What TabsSound says of one tab, before it has the focus and after.
PanesSound(t) ==
    IsInjective(t.panes) /\ IsInjective(t.order) /\ ToSet(t.order) \subseteq PanesOf(t)

TabSound(t) == PanesSound(t) /\ t.order # << >> /\ t.active = Last(t.order)

LEMMA LastIn ==
    ASSUME NEW S, NEW s \in Seq(S), s # << >>
    PROVE  Last(s) \in ToSet(s)
<1>1. Len(s) \in 1 .. Len(s)
  BY EmptySeq, LenProperties
<1> QED BY <1>1, EntriesOf DEF Last

LEMMA ActiveInTab ==
    ASSUME NEW n \in Nat, NEW t \in TabUpTo(n)
    PROVE  /\ PanesOf(t) \subseteq 1 .. n
           /\ TabSound(t) => t.active \in PanesOf(t)
<1>1. t.panes \in Seq(1 .. n) /\ t.order \in Seq(1 .. n)
  BY DEF TabUpTo
<1>2. PanesOf(t) \subseteq 1 .. n
  <2>1. PanesOf(t) = {t.panes[i] : i \in 1 .. Len(t.panes)}
    BY <1>1, EntriesOf DEF PanesOf
  <2>2. \A i \in 1 .. Len(t.panes) : t.panes[i] \in 1 .. n
    BY <1>1, EntriesOf
  <2> QED BY <2>1, <2>2
<1>3. TabSound(t) => Last(t.order) \in ToSet(t.order)
  BY <1>1, LastIn DEF TabSound
<1> QED BY <1>2, <1>3 DEF TabSound, PanesSound

LEMMA FocusSound ==
    ASSUME NEW n \in Nat, NEW t \in TabUpTo(n), PanesSound(t), NEW p \in PanesOf(t)
    PROVE  /\ Focus(t, p) \in TabUpTo(n)
           /\ TabSound(Focus(t, p))
           /\ PanesOf(Focus(t, p)) = PanesOf(t) /\ Focus(t, p).id = t.id
<1> DEFINE kept == RemoveFirst(t.order, p)
           order == Append(kept, p)
<1>1. t.order \in Seq(1 .. n) /\ IsInjective(t.order) /\ p \in 1 .. n
  BY ActiveInTab DEF TabUpTo, PanesSound
<1>2. kept \in Seq(1 .. n) /\ IsInjective(kept) /\ ToSet(kept) = ToSet(t.order) \ {p}
  BY <1>1, RemovedFirst
<1> HIDE DEF kept
<1>a. p \notin ToSet(kept)
  BY <1>2
<1>b. /\ order \in Seq(1 .. n) /\ Len(order) = Len(kept) + 1
      /\ \A i \in 1 .. Len(kept) : order[i] = kept[i]
      /\ order[Len(kept) + 1] = p
  BY <1>1, <1>2, AppendProperties
<1>c. order # << >>
  BY <1>b, <1>2, EmptySeq, LenProperties
<1> HIDE DEF order
<1>3. IsInjective(order) /\ ToSet(order) = ToSet(kept) \union {p} /\ Last(order) = p
  <2>1. kept \in Seq(1 .. n) /\ IsInjective(kept) /\ p \in 1 .. n
    BY <1>1, <1>2
  <2>2. order \in Seq(1 .. n) /\ Len(order) = Len(kept) + 1
    BY <1>b
  <2>3. \A i \in 1 .. Len(kept) : order[i] = kept[i]
    BY <1>b
  <2>4. order[Len(kept) + 1] = p
    BY <1>b
  <2>5. IsInjective(order)
    BY ONLY <2>1, <2>2, <2>3, <2>4, <1>a, OneMore
  <2>6. ToSet(order) = ToSet(kept) \union {p}
    BY ONLY <2>1, <2>2, <2>3, <2>4, <1>a, OneMore
  <2> QED BY <2>2, <2>4, <2>5, <2>6 DEF Last
<1>4. Focus(t, p) = [t EXCEPT !.active = p, !.order = order]
  BY DEF Focus, MoveToEnd, kept, order
<1>5. /\ Focus(t, p).panes = t.panes /\ Focus(t, p).order = order
      /\ Focus(t, p).active = p /\ Focus(t, p).id = t.id
      /\ Focus(t, p) \in TabUpTo(n)
  BY <1>1, <1>b, <1>4 DEF TabUpTo
<1>6. PanesOf(Focus(t, p)) = PanesOf(t)
  BY <1>5 DEF PanesOf
<1> QED BY <1>2, <1>3, <1>c, <1>5, <1>6 DEF TabSound, PanesSound

LEMMA OnlyPane ==
    ASSUME NEW S, NEW p \in S
    PROVE  <<p>> \in Seq(S) /\ IsInjective(<<p>>) /\ ToSet(<<p>>) = {p} /\ Last(<<p>>) = p
<1>1. <<p>> \in Seq(S) /\ Len(<<p>>) = 1 /\ <<p>>[1] = p
  OBVIOUS
<1>2. IsInjective(<<p>>)
  BY DEF IsInjective
<1>3. ToSet(<<p>>) = {<<p>>[i] : i \in 1 .. 1}
  BY <1>1, EntriesOf
<1>4. ToSet(<<p>>) = {p}
  BY <1>1, <1>3
<1> QED BY <1>1, <1>2, <1>4 DEF Last

LEMMA SingleSound ==
    ASSUME NEW n \in Nat, NEW p \in 1 .. n, nextTab \in Nat
    PROVE  /\ Single(p) \in TabUpTo(n) /\ TabSound(Single(p))
           /\ PanesOf(Single(p)) = {p} /\ Single(p).id = nextTab
<1>1. /\ <<p>> \in Seq(1 .. n) /\ IsInjective(<<p>>) /\ ToSet(<<p>>) = {p}
      /\ Last(<<p>>) = p /\ <<p>> # << >>
  BY OnlyPane
<1>2. /\ Single(p).panes = <<p>> /\ Single(p).order = <<p>>
      /\ Single(p).active = p /\ Single(p).id = nextTab
      /\ Single(p) \in TabUpTo(n)
  BY <1>1 DEF Single, TabUpTo
<1> QED BY <1>1, <1>2 DEF TabSound, PanesSound, PanesOf

\* The pane that takes the focus is another one of the tab.
LEMMA SuccessorIs ==
    ASSUME NEW n \in Nat, NEW t \in TabUpTo(n), PanesSound(t), NEW p \in PanesOf(t),
           Len(t.panes) >= 2
    PROVE  Successor(t, p) \in PanesOf(t) \ {p}
<1> DEFINE kept == RemoveFirst(t.order, p)
           place == CHOOSE i \in 1 .. Len(t.panes) : t.panes[i] = p
           next == (place % Len(t.panes)) + 1
<1>1. /\ t.order \in Seq(1 .. n) /\ IsInjective(t.order)
      /\ t.panes \in Seq(1 .. n) /\ IsInjective(t.panes)
  BY DEF TabUpTo, PanesSound
<1>2. kept \in Seq(1 .. n) /\ ToSet(kept) = ToSet(t.order) \ {p}
  BY <1>1, RemovedFirst
<1>3. Successor(t, p) = IF kept # << >> THEN Last(kept) ELSE t.panes[next]
  BY DEF Successor
<1>4. place \in 1 .. Len(t.panes) /\ t.panes[place] = p
  <2>1. \E i \in 1 .. Len(t.panes) : t.panes[i] = p
    BY <1>1, EntriesOf DEF PanesOf
  <2> QED BY <2>1
<1> HIDE DEF kept, place
<1>5. CASE kept # << >>
  BY <1>2, <1>3, <1>5, LastIn DEF PanesSound
<1>6. CASE kept = << >>
  <2>1. Len(t.panes) \in Nat
    BY <1>1, LenProperties
  <2>2. next \in 1 .. Len(t.panes) /\ next # place
    <3> DEFINE l == Len(t.panes)
    <3>1. l \in Nat /\ l >= 2 /\ place \in 1 .. l /\ next = (place % l) + 1
      BY <1>4, <2>1
    <3> HIDE DEF l, next
    <3>2. \A k \in Nat \ {0} : k % k = 0 /\ \A j \in Nat : j < k => j % k = j
      OBVIOUS
    <3>3. CASE place = l
      <4>1. place % l = 0
        BY <3>1, <3>2, <3>3
      <4>2. next = 1 /\ next # place
        BY <3>1, <3>3, <4>1
      <4>3. Len(t.panes) = l
        BY DEF l
      <4> QED BY <3>1, <4>2, <4>3
    <3>4. CASE place < l
      <4>1. place % l = place
        BY <3>1, <3>2, <3>4
      <4>2. next = place + 1 /\ next \in 1 .. l /\ next # place
        BY <3>1, <3>4, <4>1
      <4>3. Len(t.panes) = l
        BY DEF l
      <4> QED BY <3>1, <4>2, <4>3
    <3> QED BY <3>1, <3>3, <3>4
  <2> HIDE DEF next
  <2>3. t.panes[next] # p
    BY <1>1, <1>4, <2>2, Injective
  <2>4. t.panes[next] \in PanesOf(t)
    BY <1>1, <2>2, EntriesOf DEF PanesOf
  <2> QED BY <1>3, <1>6, <2>3, <2>4
<1> QED BY <1>5, <1>6

LEMMA WithoutSound ==
    ASSUME NEW n \in Nat, NEW t \in TabUpTo(n), TabSound(t), NEW p \in PanesOf(t),
           Len(t.panes) >= 2
    PROVE  /\ WithoutPane(t, p) \in TabUpTo(n) /\ TabSound(WithoutPane(t, p))
           /\ PanesOf(WithoutPane(t, p)) = PanesOf(t) \ {p}
           /\ WithoutPane(t, p).id = t.id
<1> DEFINE ps == RemoveFirst(t.panes, p)
           os == RemoveFirst(t.order, p)
           rest == [t EXCEPT !.panes = ps, !.order = os]
<1>1. /\ t.order \in Seq(1 .. n) /\ IsInjective(t.order)
      /\ t.panes \in Seq(1 .. n) /\ IsInjective(t.panes)
      /\ PanesSound(t) /\ t.order # << >> /\ t.active = Last(t.order)
      /\ ToSet(t.order) \subseteq PanesOf(t)
  BY DEF TabUpTo, PanesSound, TabSound
<1>2. /\ ps \in Seq(1 .. n) /\ IsInjective(ps) /\ ToSet(ps) = ToSet(t.panes) \ {p}
      /\ os \in Seq(1 .. n) /\ IsInjective(os) /\ ToSet(os) = ToSet(t.order) \ {p}
      /\ Last(t.order) # p => os # << >> /\ Last(os) = Last(t.order)
  BY <1>1, RemovedFirst
<1> HIDE DEF ps, os
<1>3. /\ rest \in TabUpTo(n) /\ rest.panes = ps /\ rest.order = os
      /\ rest.active = t.active /\ rest.id = t.id
  BY <1>2 DEF TabUpTo
<1>4. WithoutPane(t, p) = IF t.active = p THEN Focus(rest, Successor(t, p)) ELSE rest
  BY DEF WithoutPane, ps, os
<1> HIDE DEF rest
<1>5. PanesOf(rest) = PanesOf(t) \ {p} /\ PanesSound(rest)
  BY <1>1, <1>2, <1>3 DEF PanesOf, PanesSound
<1>6. CASE t.active = p
  <2>1. Successor(t, p) \in PanesOf(rest)
    BY <1>1, <1>5, SuccessorIs
  <2> QED BY <1>3, <1>4, <1>5, <1>6, <2>1, FocusSound
<1>7. CASE t.active # p
  <2>1. TabSound(rest)
    BY <1>1, <1>2, <1>3, <1>5, <1>7 DEF TabSound
  <2> QED BY <1>3, <1>4, <1>5, <1>7, <2>1
<1> QED BY <1>6, <1>7

\* The panes with others put in beside the active one.
LEMMA BesideIs ==
    ASSUME NEW n \in Nat, NEW t \in TabUpTo(n), TabSound(t),
           NEW new \in Seq(1 .. n), IsInjective(new), ToSet(new) \intersect PanesOf(t) = {}
    PROVE  /\ Beside(t, new) \in Seq(1 .. n) /\ IsInjective(Beside(t, new))
           /\ ToSet(Beside(t, new)) = PanesOf(t) \union ToSet(new)
<1> DEFINE s == t.panes
           place == CHOOSE i \in 1 .. Len(s) : s[i] = t.active
           a == SubSeq(s, 1, place)
           b == SubSeq(s, place + 1, Len(s))
           c == a \o new
           r == c \o b
<1>1. /\ s \in Seq(1 .. n) /\ Len(s) \in Nat /\ PanesOf(t) = {s[i] : i \in 1 .. Len(s)}
      /\ \A i, j \in 1 .. Len(s) : s[i] = s[j] => i = j
      /\ \A i \in 1 .. Len(s) : s[i] \in 1 .. n
  BY EntriesOf, Injective DEF TabUpTo, TabSound, PanesSound, PanesOf
<1>2. place \in 1 .. Len(s)
  <2>1. \E i \in 1 .. Len(s) : s[i] = t.active
    BY <1>1, ActiveInTab
  <2> QED BY <2>1
<1>3. Beside(t, new) = r
  BY DEF Beside
<1> HIDE DEF s, place
<1>4. /\ a \in Seq(1 .. n) /\ Len(a) = place /\ \A j \in 1 .. place : a[j] = s[j]
  <2>1. \A j \in 1 .. place : s[j] \in 1 .. n
    BY <1>1, <1>2
  <2>2. /\ a \in Seq(1 .. n) /\ Len(a) = IF 1 <= place THEN place - 1 + 1 ELSE 0
        /\ \A j \in 1 .. (place - 1 + 1) : a[j] = s[1 + j - 1]
    BY <1>1, <1>2, <2>1, SubSeqProperties
  <2> QED BY <1>1, <1>2, <2>2
<1>5. /\ b \in Seq(1 .. n) /\ Len(b) = Len(s) - place
      /\ \A j \in 1 .. (Len(s) - place) : b[j] = s[place + j]
  <2>1. \A j \in (place + 1) .. Len(s) : s[j] \in 1 .. n
    BY <1>1, <1>2
  <2>2. /\ b \in Seq(1 .. n) /\ Len(b) = IF place + 1 <= Len(s) THEN Len(s) - (place + 1) + 1 ELSE 0
        /\ \A j \in 1 .. (Len(s) - (place + 1) + 1) : b[j] = s[(place + 1) + j - 1]
    BY <1>1, <1>2, <2>1, SubSeqProperties
  <2> QED BY <1>1, <1>2, <2>2
<1> HIDE DEF a, b
<1> DEFINE m == Len(new)
<1>6. /\ m \in Nat /\ ToSet(new) = {new[i] : i \in 1 .. m}
      /\ \A i, j \in 1 .. m : new[i] = new[j] => i = j
  BY EntriesOf, Injective
<1>7. /\ c \in Seq(1 .. n) /\ Len(c) = place + m
      /\ \A j \in 1 .. (place + m) : c[j] = IF j <= place THEN a[j] ELSE new[j - place]
  BY <1>4, ConcatProperties
<1> HIDE DEF c, m
<1>8. /\ r \in Seq(1 .. n) /\ Len(r) = (place + m) + (Len(s) - place)
      /\ \A j \in 1 .. ((place + m) + (Len(s) - place)) :
            r[j] = IF j <= place + m THEN c[j] ELSE b[j - (place + m)]
  <2>1. /\ r \in Seq(1 .. n) /\ Len(r) = Len(c) + Len(b)
        /\ \A j \in 1 .. (Len(c) + Len(b)) :
              r[j] = IF j <= Len(c) THEN c[j] ELSE b[j - Len(c)]
    BY <1>5, <1>7, ConcatProperties
  <2> HIDE DEF r
  <2> QED BY <2>1, <1>5, <1>7
<1> HIDE DEF r
<1>m. /\ m \in Nat /\ place \in Nat /\ 1 <= place /\ place <= Len(s) /\ Len(s) \in Nat
      /\ (place + m) + (Len(s) - place) = Len(s) + m
  BY <1>1, <1>2, <1>6
<1>9. /\ Len(r) = Len(s) + m
      /\ \A j \in 1 .. place : r[j] = s[j]
      /\ \A j \in 1 .. m : r[place + j] = new[j]
      /\ \A j \in (place + 1) .. Len(s) : r[m + j] = s[j]
  <2>1. Len(r) = Len(s) + m
    BY <1>1, <1>2, <1>5, <1>7, <1>8, <1>m
  <2>2. ASSUME NEW j \in 1 .. place PROVE r[j] = s[j]
    <3>1. j \in 1 .. (place + m) /\ j \in 1 .. ((place + m) + (Len(s) - place)) /\ j <= place /\ j <= place + m
      BY <1>m
    <3> QED BY <3>1, <1>4, <1>7, <1>8
  <2>3. ASSUME NEW j \in 1 .. m PROVE r[place + j] = new[j]
    <3>1. place + j \in 1 .. (place + m) /\ ~(place + j <= place) /\ (place + j) - place = j
      BY <1>2, <1>m
    <3>2. c[place + j] = new[j]
      BY <1>7, <1>m, <3>1
    <3>3. place + j \in 1 .. ((place + m) + (Len(s) - place)) /\ place + j <= place + m
      BY <1>m
    <3> QED BY <3>2, <3>3, <1>8
  <2>4. ASSUME NEW j \in (place + 1) .. Len(s) PROVE r[m + j] = s[j]
    <3>1. /\ m + j \in 1 .. ((place + m) + (Len(s) - place)) /\ ~(m + j <= place + m)
          /\ (m + j) - (place + m) = j - place /\ j - place \in 1 .. (Len(s) - place) /\ place + (j - place) = j
      BY <1>m
    <3>2. b[j - place] = s[j]
      BY <1>5, <3>1
    <3> QED BY <3>1, <3>2, <1>8
  <2> QED BY <2>1, <2>2, <2>3, <2>4
<1>10. ToSet(r) = {r[j] : j \in 1 .. Len(r)}
  BY <1>8, EntriesOf
<1>11. ASSUME NEW j \in 1 .. Len(r)
       PROVE  \/ j \in 1 .. place /\ r[j] = s[j]
              \/ j - place \in 1 .. m /\ r[j] = new[j - place]
              \/ j - m \in (place + 1) .. Len(s) /\ r[j] = s[j - m]
  <2>1. CASE j <= place
    BY <1>1, <1>2, <1>9, <2>1
  <2>2. CASE j > place /\ j <= place + m
    <3>1. j - place \in 1 .. m /\ place + (j - place) = j
      BY <1>2, <1>m, <2>2
    <3> QED BY <1>9, <3>1
  <2>3. CASE j > place + m
    <3>1. j - m \in (place + 1) .. Len(s) /\ m + (j - m) = j
      BY <1>1, <1>2, <1>9, <1>m, <2>3
    <3> QED BY <1>9, <3>1
  <2>4. j \in Nat /\ place \in Nat /\ m \in Nat
    BY <1>1, <1>2, <1>9, <1>m
  <2> QED BY <2>1, <2>2, <2>3, <2>4
<1>12. ToSet(r) = PanesOf(t) \union ToSet(new)
  <2>1. ASSUME NEW x \in ToSet(r) PROVE x \in PanesOf(t) \union ToSet(new)
    <3>1. PICK j \in 1 .. Len(r) : x = r[j]
      BY <1>10
    <3>2. CASE j \in 1 .. place /\ r[j] = s[j]
      BY <3>1, <3>2, <1>1, <1>m
    <3>3. CASE j - place \in 1 .. m /\ r[j] = new[j - place]
      BY <3>1, <3>3, <1>6
    <3>4. CASE j - m \in (place + 1) .. Len(s) /\ r[j] = s[j - m]
      <4>1. j - m \in 1 .. Len(s)
        BY <3>4, <1>m
      <4> QED BY <3>1, <3>4, <4>1, <1>1
    <3> QED BY <3>2, <3>3, <3>4, <1>11
  <2>2. ASSUME NEW x \in PanesOf(t) PROVE x \in ToSet(r)
    <3>1. PICK j \in 1 .. Len(s) : x = s[j]
      BY <1>1
    <3>2. CASE j <= place
      BY <1>1, <1>2, <1>9, <1>10, <1>m, <3>1, <3>2
    <3>3. CASE j > place
      <4>1. m + j \in 1 .. Len(r) /\ r[m + j] = x
        BY <1>1, <1>2, <1>9, <1>m, <3>1, <3>3
      <4> QED BY <4>1, <1>10
    <3> QED BY <1>2, <3>2, <3>3
  <2>3. ASSUME NEW x \in ToSet(new) PROVE x \in ToSet(r)
    <3>1. PICK j \in 1 .. m : x = new[j]
      BY <1>6
    <3>2. place + j \in 1 .. Len(r) /\ r[place + j] = x
      BY <1>9, <1>m, <3>1
    <3> QED BY <3>2, <1>10
  <2> QED BY <2>1, <2>2, <2>3
<1>13. IsInjective(r)
  <2>1. \A i \in 1 .. Len(s), j \in 1 .. m : s[i] # new[j]
    <3> SUFFICES ASSUME NEW i \in 1 .. Len(s), NEW j \in 1 .. m, s[i] = new[j] PROVE FALSE
      OBVIOUS
    <3>1. s[i] \in PanesOf(t)
      BY <1>1
    <3>2. new[j] \in ToSet(new)
      BY <1>6
    <3> QED BY <3>1, <3>2
  <2>2. ASSUME NEW i \in 1 .. Len(r), NEW j \in 1 .. Len(r), r[i] = r[j] PROVE i = j
    <3>1. /\ place \in Nat /\ m \in Nat /\ Len(s) \in Nat /\ place <= Len(s) /\ i \in Nat /\ j \in Nat
      BY <1>1, <1>2, <1>9, <1>m
    <3>2. \A k \in 1 .. place : k \in 1 .. Len(s)
      BY <3>1
    <3>3. \A k \in (place + 1) .. Len(s) : k \in 1 .. Len(s)
      BY <3>1
    <3>4. CASE i \in 1 .. place /\ r[i] = s[i]
      <4>1. CASE j \in 1 .. place /\ r[j] = s[j]
        BY <1>1, <2>2, <3>2, <3>4, <4>1
      <4>2. CASE j - place \in 1 .. m /\ r[j] = new[j - place]
        BY <2>1, <2>2, <3>2, <3>4, <4>2
      <4>3. CASE j - m \in (place + 1) .. Len(s) /\ r[j] = s[j - m]
        <5>1. i = j - m
          BY <1>1, <2>2, <3>2, <3>3, <3>4, <4>3
        <5> QED BY <5>1, <3>1, <3>4, <4>3
      <4> QED BY <4>1, <4>2, <4>3, <1>11
    <3>5. CASE i - place \in 1 .. m /\ r[i] = new[i - place]
      <4>1. CASE j \in 1 .. place /\ r[j] = s[j]
        BY <2>1, <2>2, <3>2, <3>5, <4>1
      <4>2. CASE j - place \in 1 .. m /\ r[j] = new[j - place]
        <5>1. i - place = j - place
          BY <1>6, <1>m, <2>2, <3>5, <4>2
        <5> QED BY <5>1, <3>1
      <4>3. CASE j - m \in (place + 1) .. Len(s) /\ r[j] = s[j - m]
        BY <2>1, <2>2, <3>3, <3>5, <4>3
      <4> QED BY <4>1, <4>2, <4>3, <1>11
    <3>6. CASE i - m \in (place + 1) .. Len(s) /\ r[i] = s[i - m]
      <4>1. CASE j \in 1 .. place /\ r[j] = s[j]
        <5>1. j = i - m
          BY <1>1, <2>2, <3>2, <3>3, <3>6, <4>1
        <5> QED BY <5>1, <3>1, <3>6, <4>1
      <4>2. CASE j - place \in 1 .. m /\ r[j] = new[j - place]
        BY <2>1, <2>2, <3>3, <3>6, <4>2
      <4>3. CASE j - m \in (place + 1) .. Len(s) /\ r[j] = s[j - m]
        <5>1. i - m = j - m
          BY <1>1, <2>2, <3>3, <3>6, <4>3
        <5> QED BY <5>1, <3>1
      <4> QED BY <4>1, <4>2, <4>3, <1>11
    <3> QED BY <3>4, <3>5, <3>6, <1>11
  <2> QED BY <2>2, <1>8, Injective
<1> QED BY <1>3, <1>8, <1>12, <1>13

-----------------------------------------------------------------------------
(* The strip.                                                              *)

Apart(t, u) == t.id # u.id /\ PanesOf(t) \intersect PanesOf(u) = {}

\* A strip of sound tabs of panes up to n and of ids below m, no two of which share
\* one.
StripSound(ts, n, m) ==
    /\ ts \in Seq(TabUpTo(n))
    /\ \A i \in 1 .. Len(ts) : TabSound(ts[i]) /\ ts[i].id \in 1 .. (m - 1)
    /\ \A i, j \in 1 .. Len(ts) : i # j => Apart(ts[i], ts[j])

ShownIn(ts) == UNION {PanesOf(ts[i]) : i \in 1 .. Len(ts)}

LEMMA TabGrows ==
    ASSUME NEW n \in Nat, NEW k \in Nat, n <= k
    PROVE  TabUpTo(n) \subseteq TabUpTo(k)
<1>1. 1 .. n \subseteq 1 .. k
  OBVIOUS
<1>2. Seq(1 .. n) \subseteq Seq(1 .. k)
  BY <1>1, SeqMonotonic
<1> QED BY <1>1, <1>2 DEF TabUpTo

LEMMA StripGrows ==
    ASSUME NEW n \in Nat, NEW k \in Nat, n <= k, NEW m \in Nat, NEW l \in Nat, m <= l,
           NEW ts, StripSound(ts, n, m)
    PROVE  StripSound(ts, k, l)
<1>1. Seq(TabUpTo(n)) \subseteq Seq(TabUpTo(k))
  BY TabGrows, SeqMonotonic
<1>2. 1 .. (m - 1) \subseteq 1 .. (l - 1)
  OBVIOUS
<1> QED BY <1>1, <1>2 DEF StripSound

\* Some of the tabs, each once, in whatever order: f tells which.
SomeOf(us, ts, f) ==
    /\ f \in [1 .. Len(us) -> 1 .. Len(ts)]
    /\ \A j \in 1 .. Len(us) : us[j] = ts[f[j]]
    /\ \A j, k \in 1 .. Len(us) : f[j] = f[k] => j = k

LEMMA StripOfSome ==
    ASSUME NEW n \in Nat, NEW m \in Nat, NEW ts, StripSound(ts, n, m),
           NEW us \in Seq(TabUpTo(n)), NEW f, SomeOf(us, ts, f)
    PROVE  StripSound(us, n, m)
<1>1. /\ \A j \in 1 .. Len(us) : f[j] \in 1 .. Len(ts) /\ us[j] = ts[f[j]]
      /\ \A j, k \in 1 .. Len(us) : f[j] = f[k] => j = k
  BY DEF SomeOf
<1>2. \A j \in 1 .. Len(us) : TabSound(us[j]) /\ us[j].id \in 1 .. (m - 1)
  BY <1>1 DEF StripSound
<1>3. ASSUME NEW j \in 1 .. Len(us), NEW k \in 1 .. Len(us), j # k
      PROVE  Apart(us[j], us[k])
  <2>1. f[j] \in 1 .. Len(ts) /\ f[k] \in 1 .. Len(ts) /\ f[j] # f[k]
    BY <1>1, <1>3
  <2>2. Apart(ts[f[j]], ts[f[k]])
    BY <2>1 DEF StripSound
  <2> QED BY <1>1, <2>2
<1> QED BY <1>2, <1>3 DEF StripSound

LEMMA StripWithout ==
    ASSUME NEW n \in Nat, NEW m \in Nat, NEW ts, StripSound(ts, n, m),
           NEW i \in 1 .. Len(ts), NEW us, us = RemoveAt(ts, i)
    PROVE  /\ StripSound(us, n, m) /\ Len(us) = Len(ts) - 1
           /\ \A j \in 1 .. (Len(ts) - 1) : us[j] = IF j < i THEN ts[j] ELSE ts[j + 1]
           /\ ShownIn(us) = ShownIn(ts) \ PanesOf(ts[i])
<1>1. ts \in Seq(TabUpTo(n)) /\ Len(ts) \in Nat
  BY LenProperties DEF StripSound
<1>2. /\ us \in Seq(TabUpTo(n)) /\ Len(us) = Len(ts) - 1
      /\ \A j \in 1 .. (Len(ts) - 1) : us[j] = IF j < i THEN ts[j] ELSE ts[j + 1]
  BY <1>1, TakenOut
<1> DEFINE f == [j \in 1 .. Len(us) |-> IF j < i THEN j ELSE j + 1]
<1>3. /\ f \in [1 .. Len(us) -> 1 .. Len(ts)]
      /\ \A j \in 1 .. Len(us) : f[j] = IF j < i THEN j ELSE j + 1
  BY <1>1, <1>2
<1> HIDE DEF f
<1>4. /\ \A j \in 1 .. Len(us) : us[j] = ts[f[j]]
      /\ \A j, k \in 1 .. Len(us) : f[j] = f[k] => j = k
  BY <1>1, <1>2, <1>3
<1>5. StripSound(us, n, m)
  <2>1. SomeOf(us, ts, f)
    BY <1>3, <1>4 DEF SomeOf
  <2> QED BY <1>2, <2>1, StripOfSome
<1>6. ASSUME NEW x \in ShownIn(us) PROVE x \in ShownIn(ts) \ PanesOf(ts[i])
  <2>1. PICK j \in 1 .. Len(us) : x \in PanesOf(us[j])
    BY DEF ShownIn
  <2>2. f[j] \in 1 .. Len(ts) /\ f[j] # i /\ us[j] = ts[f[j]]
    BY <1>1, <1>2, <1>3, <1>4
  <2>3. Apart(ts[f[j]], ts[i])
    BY <2>2 DEF StripSound
  <2> QED BY <2>1, <2>2, <2>3 DEF ShownIn, Apart
<1>7. ASSUME NEW x \in ShownIn(ts) \ PanesOf(ts[i]) PROVE x \in ShownIn(us)
  <2>1. PICK j \in 1 .. Len(ts) : x \in PanesOf(ts[j])
    BY DEF ShownIn
  <2>2. j # i
    BY <2>1
  <2>3. CASE j < i
    <3>1. j \in 1 .. Len(us) /\ us[j] = ts[j]
      BY <1>1, <1>2, <2>3
    <3> QED BY <2>1, <3>1 DEF ShownIn
  <2>4. CASE j > i
    <3>1. j - 1 \in 1 .. Len(us) /\ us[j - 1] = ts[(j - 1) + 1] /\ (j - 1) + 1 = j
      BY <1>1, <1>2, <2>4
    <3> QED BY <2>1, <3>1 DEF ShownIn
  <2> QED BY <1>1, <2>2, <2>3, <2>4
<1> QED BY <1>2, <1>5, <1>6, <1>7

\* A tab that can stand for the one at i.
StandsFor(t, ts, i) ==
    /\ TabSound(t) /\ t.id = ts[i].id
    /\ \A j \in 1 .. Len(ts) : j # i => PanesOf(t) \intersect PanesOf(ts[j]) = {}

Replaced(us, ts, i, t) ==
    /\ Len(us) = Len(ts)
    /\ \A j \in 1 .. Len(ts) : us[j] = IF j = i THEN t ELSE ts[j]
    /\ ShownIn(us) = (ShownIn(ts) \ PanesOf(ts[i])) \union PanesOf(t)

LEMMA StripReplaced ==
    ASSUME NEW n \in Nat, NEW m \in Nat, NEW ts, StripSound(ts, n, m),
           NEW i \in 1 .. Len(ts), NEW t \in TabUpTo(n), StandsFor(t, ts, i),
           NEW us, us = [ts EXCEPT ![i] = t]
    PROVE  StripSound(us, n, m) /\ Replaced(us, ts, i, t)
<1>1. ts \in Seq(TabUpTo(n)) /\ Len(ts) \in Nat
  BY LenProperties DEF StripSound
<1>2. /\ us \in Seq(TabUpTo(n)) /\ Len(us) = Len(ts)
      /\ \A j \in 1 .. Len(ts) : us[j] = IF j = i THEN t ELSE ts[j]
  BY <1>1, ExceptSeq
<1>3. StripSound(us, n, m)
  <2>1. \A j \in 1 .. Len(us) : TabSound(us[j]) /\ us[j].id \in 1 .. (m - 1)
    BY <1>2 DEF StripSound, StandsFor
  <2>2. ASSUME NEW j \in 1 .. Len(us), NEW k \in 1 .. Len(us), j # k
        PROVE  Apart(us[j], us[k])
    <3>1. Apart(ts[j], ts[k])
      BY <1>2, <2>2 DEF StripSound
    <3> QED BY <1>2, <2>2, <3>1 DEF Apart, StandsFor
  <2> QED BY <1>2, <2>1, <2>2 DEF StripSound
<1>4. ASSUME NEW x \in ShownIn(us)
      PROVE  x \in (ShownIn(ts) \ PanesOf(ts[i])) \union PanesOf(t)
  <2>1. PICK j \in 1 .. Len(us) : x \in PanesOf(us[j])
    BY DEF ShownIn
  <2>2. CASE j = i
    BY <1>2, <2>1, <2>2
  <2>3. CASE j # i
    <3>1. Apart(ts[j], ts[i]) /\ us[j] = ts[j]
      BY <1>2, <2>3 DEF StripSound
    <3> QED BY <1>2, <2>1, <3>1 DEF Apart, ShownIn
  <2> QED BY <2>2, <2>3
<1>5. ASSUME NEW x \in (ShownIn(ts) \ PanesOf(ts[i])) \union PanesOf(t)
      PROVE  x \in ShownIn(us)
  <2>1. CASE x \in PanesOf(t)
    BY <1>2, <2>1 DEF ShownIn
  <2>2. CASE x \in ShownIn(ts) \ PanesOf(ts[i])
    <3>1. PICK j \in 1 .. Len(ts) : x \in PanesOf(ts[j]) /\ j # i
      BY <2>2 DEF ShownIn
    <3> QED BY <1>2, <3>1 DEF ShownIn
  <2> QED BY <2>1, <2>2
<1> QED BY <1>2, <1>3, <1>4, <1>5 DEF Replaced

\* A tab that can be put beside those.
CanJoin(t, ts) == TabSound(t) /\ \A j \in 1 .. Len(ts) : Apart(t, ts[j])

Joined(us, ts, t) ==
    Len(us) = Len(ts) + 1 /\ ShownIn(us) = ShownIn(ts) \union PanesOf(t)

LEMMA StripInserted ==
    ASSUME NEW n \in Nat, NEW m \in Nat, NEW ts, StripSound(ts, n, m),
           NEW i \in 1 .. (Len(ts) + 1), NEW t \in TabUpTo(n), CanJoin(t, ts),
           t.id \in 1 .. (m - 1),
           NEW us, us = InsertAt(ts, i, t)
    PROVE  StripSound(us, n, m) /\ Joined(us, ts, t)
<1>1. ts \in Seq(TabUpTo(n)) /\ Len(ts) \in Nat
  BY LenProperties DEF StripSound
<1>2. /\ us \in Seq(TabUpTo(n)) /\ Len(us) = Len(ts) + 1
      /\ \A j \in 1 .. (Len(ts) + 1) :
            us[j] = IF j < i THEN ts[j] ELSE IF j = i THEN t ELSE ts[j - 1]
  <2>1. InsertAt(ts, i, t) \in Seq(TabUpTo(n)) /\ Inserted(InsertAt(ts, i, t), ts, i, t)
    BY <1>1, PutIn
  <2> QED BY <2>1 DEF Inserted
<1> DEFINE from(j) == IF j < i THEN j ELSE j - 1
<1>3. \A j \in 1 .. Len(us) : j # i => from(j) \in 1 .. Len(ts) /\ us[j] = ts[from(j)]
  BY <1>1, <1>2
<1>4. \A j, k \in 1 .. Len(us) : j # i /\ k # i /\ j # k => from(j) # from(k)
  BY <1>1, <1>2
<1>5. us[i] = t /\ i \in 1 .. Len(us)
  BY <1>1, <1>2
<1> HIDE DEF from
<1>6. StripSound(us, n, m)
  <2>1. ASSUME NEW j \in 1 .. Len(us) PROVE TabSound(us[j]) /\ us[j].id \in 1 .. (m - 1)
    <3>1. CASE j = i
      BY <1>5, <3>1 DEF CanJoin
    <3>2. CASE j # i
      BY <1>3, <3>2 DEF StripSound
    <3> QED BY <3>1, <3>2
  <2>2. ASSUME NEW j \in 1 .. Len(us), NEW k \in 1 .. Len(us), j # k
        PROVE  Apart(us[j], us[k])
    <3>1. CASE j = i
      BY <1>3, <1>5, <2>2, <3>1 DEF CanJoin
    <3>2. CASE k = i
      <4>1. Apart(us[k], us[j])
        BY <1>3, <1>5, <2>2, <3>2 DEF CanJoin
      <4> QED BY <4>1 DEF Apart
    <3>3. CASE j # i /\ k # i
      BY <1>3, <1>4, <2>2, <3>3 DEF StripSound
    <3> QED BY <3>1, <3>2, <3>3
  <2> QED BY <1>2, <2>1, <2>2 DEF StripSound
<1>7. ASSUME NEW x \in ShownIn(us) PROVE x \in ShownIn(ts) \union PanesOf(t)
  <2>1. PICK j \in 1 .. Len(us) : x \in PanesOf(us[j])
    BY DEF ShownIn
  <2>2. CASE j = i
    BY <1>5, <2>1, <2>2
  <2>3. CASE j # i
    BY <1>3, <2>1, <2>3 DEF ShownIn
  <2> QED BY <2>2, <2>3
<1>8. ASSUME NEW x \in ShownIn(ts) \union PanesOf(t) PROVE x \in ShownIn(us)
  <2>1. CASE x \in PanesOf(t)
    BY <1>5, <2>1 DEF ShownIn
  <2>2. CASE x \in ShownIn(ts)
    <3>1. PICK j \in 1 .. Len(ts) : x \in PanesOf(ts[j])
      BY <2>2 DEF ShownIn
    <3>2. CASE j < i
      <4>1. j \in 1 .. Len(us) /\ us[j] = ts[j]
        BY <1>1, <1>2, <3>2
      <4> QED BY <3>1, <4>1 DEF ShownIn
    <3>3. CASE j >= i
      <4>1. j + 1 \in 1 .. Len(us) /\ us[j + 1] = ts[(j + 1) - 1] /\ (j + 1) - 1 = j
        BY <1>1, <1>2, <3>3
      <4> QED BY <3>1, <4>1 DEF ShownIn
    <3>4. j < i \/ j >= i
      BY <1>1
    <3> QED BY <3>2, <3>3, <3>4
  <2> QED BY <2>1, <2>2
<1> QED BY <1>2, <1>6, <1>7, <1>8 DEF Joined

LEMMA StripUpTo ==
    ASSUME NEW n \in Nat, NEW m \in Nat, NEW ts, StripSound(ts, n, m)
    PROVE  /\ ShownIn(ts) \subseteq 1 .. n
           /\ Len(ts) \in Nat
           /\ \A i \in 1 .. Len(ts) : ts[i] \in TabUpTo(n) /\ PanesOf(ts[i]) \subseteq 1 .. n
<1>1. ts \in Seq(TabUpTo(n)) /\ Len(ts) \in Nat
  BY LenProperties DEF StripSound
<1>2. \A i \in 1 .. Len(ts) : ts[i] \in TabUpTo(n)
  BY <1>1
<1>3. \A i \in 1 .. Len(ts) : PanesOf(ts[i]) \subseteq 1 .. n
  BY <1>2, ActiveInTab
<1> QED BY <1>1, <1>2, <1>3 DEF ShownIn

-----------------------------------------------------------------------------
(* Many tabs closed, from the last to the first.                           *)

Visits(h, closing, survivor, n) ==
    h = [k \in 0 .. n |->
            IF k = 0 THEN [tabs |-> tabs, active |-> active, kept |-> survivor]
            ELSE LET before == h[k - 1]
                     o == Len(tabs) + 1 - k
                 IN IF o \notin closing THEN before
                    ELSE [tabs |-> RemoveAt(before.tabs, o),
                          active |-> ActiveAfterClose(before.active, o, before.kept),
                          kept |-> Shifted(before.kept, o)]]

LEMMA VisitsExist ==
    ASSUME NEW closing, NEW survivor
    PROVE  \A n \in Nat : \E h : Visits(h, closing, survivor, n)
<1> DEFINE T == {n \in Nat : \E h : Visits(h, closing, survivor, n)}
           first == [tabs |-> tabs, active |-> active, kept |-> survivor]
           step(b, o) == IF o \notin closing THEN b
                         ELSE [tabs |-> RemoveAt(b.tabs, o),
                               active |-> ActiveAfterClose(b.active, o, b.kept),
                               kept |-> Shifted(b.kept, o)]
<1>0. ASSUME NEW h, NEW n
      PROVE  Visits(h, closing, survivor, n) <=>
                h = [k \in 0 .. n |-> IF k = 0 THEN first ELSE step(h[k - 1], Len(tabs) + 1 - k)]
  BY DEF Visits
<1> HIDE DEF first, step
<1>1. 0 \in T
  <2> DEFINE h == [k \in 0 .. 0 |-> first]
  <2>1. h = [k \in 0 .. 0 |-> IF k = 0 THEN first ELSE step(h[k - 1], Len(tabs) + 1 - k)]
    OBVIOUS
  <2> HIDE DEF h
  <2>2. Visits(h, closing, survivor, 0)
    BY <2>1, <1>0
  <2> QED BY <2>2
<1>2. ASSUME NEW n \in Nat, n \in T PROVE n + 1 \in T
  <2>1. PICK f : Visits(f, closing, survivor, n)
    BY <1>2
  <2>2. f = [k \in 0 .. n |-> IF k = 0 THEN first ELSE step(f[k - 1], Len(tabs) + 1 - k)]
    BY <2>1, <1>0
  <2> DEFINE h == [k \in 0 .. (n + 1) |->
                      IF k = n + 1 THEN step(f[n], Len(tabs) + 1 - k) ELSE f[k]]
  <2>3. \A k \in 0 .. (n + 1) :
           h[k] = IF k = 0 THEN first ELSE step(h[k - 1], Len(tabs) + 1 - k)
    <3> SUFFICES ASSUME NEW k \in 0 .. (n + 1)
                 PROVE  h[k] = IF k = 0 THEN first ELSE step(h[k - 1], Len(tabs) + 1 - k)
      OBVIOUS
    <3>1. CASE k = n + 1
      BY <3>1
    <3>2. CASE k # n + 1 /\ k # 0
      <4>1. k \in 0 .. n /\ k - 1 \in 0 .. (n + 1) /\ k - 1 # n + 1 /\ k \in 0 .. (n + 1)
        BY <3>2
      <4>2. h[k] = f[k] /\ h[k - 1] = f[k - 1]
        BY <3>2, <4>1
      <4> HIDE DEF h
      <4>3. f[k] = step(f[k - 1], Len(tabs) + 1 - k)
        BY <2>2, <3>2, <4>1
      <4> QED BY <3>2, <4>2, <4>3
    <3>3. CASE k = 0
      <4>1. h[0] = f[0]
        OBVIOUS
      <4> HIDE DEF h
      <4>2. f[0] = first
        BY <2>2
      <4> QED BY <3>3, <4>1, <4>2
    <3> QED BY <3>1, <3>2, <3>3
  <2>4. h = [k \in 0 .. (n + 1) |-> h[k]]
    OBVIOUS
  <2> HIDE DEF h
  <2>5. h = [k \in 0 .. (n + 1) |->
                IF k = 0 THEN first ELSE step(h[k - 1], Len(tabs) + 1 - k)]
    BY <2>3, <2>4
  <2>6. Visits(h, closing, survivor, n + 1)
    BY <2>5, <1>0
  <2> QED BY <2>6
<1> HIDE DEF T
<1>3. Nat \subseteq T
  BY <1>1, <1>2, SetInduction
<1> QED BY <1>3 DEF T

\* The tabs still there after the last n were visited.
Standing(closing, n) == {j \in Indices : j > Len(tabs) - n => j \notin closing}

\* What is left of the strip is those, in the order they were in; where each came from
\* is f.  The survivor and the active tab are where b says.
Follows(b, f, closing, survivor, n) ==
    /\ f \in [1 .. Len(b.tabs) -> Standing(closing, n)]
    /\ \A j \in 1 .. Len(b.tabs) : b.tabs[j] = tabs[f[j]]
    /\ \A j, k \in 1 .. Len(b.tabs) : j < k => f[j] < f[k]
    /\ \A s \in Standing(closing, n) : \E j \in 1 .. Len(b.tabs) : f[j] = s
    /\ b.kept \in 1 .. Len(b.tabs) /\ f[b.kept] = survivor
    /\ b.active \in 1 .. Len(b.tabs)
    /\ f[b.active] = IF active \in Standing(closing, n) THEN active ELSE survivor

\* The tabs not visited yet are where they were.
Untouched(b, f, n) == \A j \in 1 .. (Len(tabs) - n) : j \in 1 .. Len(b.tabs) /\ f[j] = j

LEMMA VisitFollows ==
    ASSUME NEW K \in Nat, NEW m \in Nat, StripSound(tabs, K, m),
           NEW closing \in SUBSET Indices, NEW survivor \in Indices \ closing,
           NEW n \in Nat, n < Len(tabs), NEW b, NEW f, b.tabs \in Seq(TabUpTo(K)),
           Follows(b, f, closing, survivor, n), Untouched(b, f, n),
           Len(tabs) - n \in closing,
           NEW c, c = [tabs |-> RemoveAt(b.tabs, Len(tabs) - n),
                       active |-> ActiveAfterClose(b.active, Len(tabs) - n, b.kept),
                       kept |-> Shifted(b.kept, Len(tabs) - n)]
    PROVE  /\ c.tabs \in Seq(TabUpTo(K))
           /\ \E g : Follows(c, g, closing, survivor, n + 1) /\ Untouched(c, g, n + 1)
<1> DEFINE o == Len(tabs) - n
           l == Len(b.tabs)
           g == [j \in 1 .. (l - 1) |-> IF j < o THEN f[j] ELSE f[j + 1]]
           us == RemoveAt(b.tabs, o)
<1>1. l \in Nat /\ Len(tabs) \in Nat
  BY StripUpTo, LenProperties
<1>2. o \in 1 .. l /\ f[o] = o /\ o \in 1 .. Len(tabs) /\ o \in closing
  <2>1. o \in 1 .. (Len(tabs) - n)
    BY <1>1
  <2> QED BY <2>1, <1>1 DEF Untouched
<1>3. /\ us \in Seq(TabUpTo(K)) /\ Len(us) = l - 1
      /\ \A j \in 1 .. (l - 1) : us[j] = IF j < o THEN b.tabs[j] ELSE b.tabs[j + 1]
  BY <1>2, TakenOut
<1>4. \A j \in 1 .. (l - 1) : g[j] = IF j < o THEN f[j] ELSE f[j + 1]
  OBVIOUS
<1>5. /\ c.tabs = us /\ c.active = ActiveAfterClose(b.active, o, b.kept)
      /\ c.kept = Shifted(b.kept, o)
  OBVIOUS
<1>6. /\ \A j \in 1 .. l : f[j] \in Standing(closing, n) /\ b.tabs[j] = tabs[f[j]]
      /\ \A j, k \in 1 .. l : j < k => f[j] < f[k]
      /\ \A s \in Standing(closing, n) : \E j \in 1 .. l : f[j] = s
      /\ b.kept \in 1 .. l /\ f[b.kept] = survivor
      /\ b.active \in 1 .. l
      /\ f[b.active] = IF active \in Standing(closing, n) THEN active ELSE survivor
      /\ \A j \in 1 .. (Len(tabs) - n) : j \in 1 .. l /\ f[j] = j
  BY DEF Follows, Untouched
<1>7. /\ \A s \in Standing(closing, n + 1) : s \in Standing(closing, n) /\ s # o
      /\ \A s \in Standing(closing, n) : s # o => s \in Standing(closing, n + 1)
      /\ survivor \in Standing(closing, n + 1) /\ survivor # o
      /\ Standing(closing, n) \subseteq Int
      /\ o \in Standing(closing, n)
  <2>1. /\ Standing(closing, n) = {j \in 1 .. Len(tabs) : j > o => j \notin closing}
        /\ Standing(closing, n + 1) = {j \in 1 .. Len(tabs) : j > o - 1 => j \notin closing}
    BY <1>1 DEF Standing, Indices
  <2>2. survivor \in 1 .. Len(tabs) /\ survivor \notin closing
    BY DEF Indices
  <2> HIDE DEF o
  <2> QED BY <1>1, <1>2, <2>1, <2>2
<1>a. g = [j \in 1 .. (l - 1) |-> g[j]]
  OBVIOUS
<1> HIDE DEF l, o, g, us
<1>8. \A j, k \in 1 .. l : f[j] = f[k] => j = k
  <2> SUFFICES ASSUME NEW j \in 1 .. l, NEW k \in 1 .. l, f[j] = f[k], j # k PROVE FALSE
    OBVIOUS
  <2>1. f[j] \in Int /\ f[k] \in Int
    BY <1>6, <1>7
  <2>2. j < k \/ k < j
    BY <1>1
  <2> QED BY <1>6, <2>1, <2>2
<1> DEFINE down(j) == IF j < o THEN j ELSE j + 1
           up(x) == IF o < x THEN x - 1 ELSE x
<1>9. \A x \in 1 .. l : x # o => up(x) \in 1 .. (l - 1) /\ g[up(x)] = f[x]
  <2> SUFFICES ASSUME NEW x \in 1 .. l, x # o PROVE up(x) \in 1 .. (l - 1) /\ g[up(x)] = f[x]
    OBVIOUS
  <2>1. CASE o < x
    <3>1. x - 1 \in 1 .. (l - 1) /\ ~(x - 1 < o) /\ (x - 1) + 1 = x
      BY <1>1, <1>2, <2>1
    <3> QED BY <2>1, <3>1, <1>4
  <2>2. CASE ~(o < x)
    <3>1. x \in 1 .. (l - 1) /\ x < o
      BY <1>1, <1>2, <2>2
    <3> QED BY <2>2, <3>1, <1>4
  <2> QED BY <2>1, <2>2
<1>10. \A j \in 1 .. (l - 1) :
          /\ down(j) \in 1 .. l /\ down(j) # o
          /\ g[j] = f[down(j)] /\ us[j] = b.tabs[down(j)]
  <2> SUFFICES ASSUME NEW j \in 1 .. (l - 1)
               PROVE  /\ down(j) \in 1 .. l /\ down(j) # o
                      /\ g[j] = f[down(j)] /\ us[j] = b.tabs[down(j)]
    OBVIOUS
  <2>1. CASE j < o
    BY <1>1, <1>2, <1>3, <1>4, <2>1
  <2>2. CASE ~(j < o)
    <3>1. j + 1 \in 1 .. l /\ j + 1 # o
      BY <1>1, <1>2, <2>2
    <3> QED BY <1>3, <1>4, <2>2, <3>1
  <2> QED BY <2>1, <2>2
<1>11. g \in [1 .. (l - 1) -> Standing(closing, n + 1)]
  <2>1. ASSUME NEW j \in 1 .. (l - 1) PROVE g[j] \in Standing(closing, n + 1)
    <3>1. PICK x \in 1 .. l : x # o /\ g[j] = f[x]
      BY <1>10
    <3>2. f[x] # o
      BY <3>1, <1>2, <1>8
    <3> QED BY <3>1, <3>2, <1>6, <1>7
  <2> QED BY <1>a, <2>1
<1>12. \A j \in 1 .. (l - 1) : us[j] = tabs[g[j]]
  <2> SUFFICES ASSUME NEW j \in 1 .. (l - 1) PROVE us[j] = tabs[g[j]]
    OBVIOUS
  <2>1. PICK x \in 1 .. l : g[j] = f[x] /\ us[j] = b.tabs[x]
    BY <1>10
  <2> QED BY <2>1, <1>6
<1>13. \A j, k \in 1 .. (l - 1) : j < k => g[j] < g[k]
  <2> SUFFICES ASSUME NEW j \in 1 .. (l - 1), NEW k \in 1 .. (l - 1), j < k PROVE g[j] < g[k]
    OBVIOUS
  <2> DEFINE x == down(j)
             y == down(k)
  <2>1. x \in 1 .. l /\ y \in 1 .. l /\ g[j] = f[x] /\ g[k] = f[y]
    BY <1>10
  <2>2. x < y
    BY <1>1, <1>2
  <2> QED BY <2>1, <2>2, <1>6
<1>14. \A s \in Standing(closing, n + 1) : \E j \in 1 .. (l - 1) : g[j] = s
  <2> SUFFICES ASSUME NEW s \in Standing(closing, n + 1)
               PROVE  \E j \in 1 .. (l - 1) : g[j] = s
    OBVIOUS
  <2>1. PICK x \in 1 .. l : f[x] = s
    BY <1>6, <1>7
  <2>2. x # o
    BY <2>1, <1>2, <1>7
  <2> QED BY <2>1, <2>2, <1>9
<1>15. b.kept # o /\ c.kept = up(b.kept)
  BY <1>2, <1>5, <1>6, <1>7 DEF Shifted
<1>16. c.kept \in 1 .. (l - 1) /\ g[c.kept] = survivor
  BY <1>6, <1>9, <1>15
<1>17. /\ c.active \in 1 .. (l - 1)
       /\ g[c.active] = IF active \in Standing(closing, n + 1) THEN active ELSE survivor
  <2>1. CASE b.active = o
    <3>1. c.active = up(b.kept)
      BY <1>5, <2>1 DEF ActiveAfterClose, Shifted
    <3>2. c.active \in 1 .. (l - 1) /\ g[c.active] = survivor
      BY <3>1, <1>15, <1>16
    <3>3. active \notin Standing(closing, n + 1)
      BY <1>2, <1>6, <1>7, <2>1
    <3> QED BY <3>2, <3>3
  <2>2. CASE b.active # o
    <3>1. c.active = up(b.active)
      BY <1>5, <2>2 DEF ActiveAfterClose, Shifted
    <3>2. c.active \in 1 .. (l - 1) /\ g[c.active] = f[b.active]
      BY <3>1, <2>2, <1>6, <1>9
    <3>3. f[b.active] # o
      BY <2>2, <1>2, <1>6, <1>8
    <3>4. active \in Standing(closing, n) <=> active \in Standing(closing, n + 1)
      BY <3>3, <1>6, <1>7
    <3> QED BY <3>2, <3>4, <1>6
  <2> QED BY <2>1, <2>2
<1>18. Follows(c, g, closing, survivor, n + 1)
  <2>1. c.tabs = us /\ Len(c.tabs) = l - 1
    BY <1>3, <1>5
  <2> QED BY <2>1, <1>11, <1>12, <1>13, <1>14, <1>16, <1>17 DEF Follows
<1>19. Untouched(c, g, n + 1)
  <2> SUFFICES ASSUME NEW j \in 1 .. (Len(tabs) - (n + 1))
               PROVE  j \in 1 .. Len(c.tabs) /\ g[j] = j
    BY DEF Untouched
  <2>1. j < o /\ j \in 1 .. (Len(tabs) - n)
    BY <1>1 DEF o
  <2>2. j \in 1 .. (l - 1)
    BY <1>1, <1>2, <2>1
  <2> QED BY <2>1, <2>2, <1>3, <1>4, <1>5, <1>6
<1> QED BY <1>3, <1>5, <1>18, <1>19

LEMMA BulkFollows ==
    ASSUME NEW K \in Nat, NEW m \in Nat, StripSound(tabs, K, m), active \in Indices,
           NEW closing \in SUBSET Indices, NEW survivor \in Indices \ closing,
           NEW b, b = BulkClosed(closing, survivor)[Len(tabs)]
    PROVE  /\ b.tabs \in Seq(TabUpTo(K))
           /\ \E f : Follows(b, f, closing, survivor, Len(tabs))
<1> DEFINE h == CHOOSE h : Visits(h, closing, survivor, Len(tabs))
           fits(c, n) == /\ c.tabs \in Seq(TabUpTo(K))
                         /\ \E f : Follows(c, f, closing, survivor, n) /\ Untouched(c, f, n)
           T == {n \in Nat : n <= Len(tabs) => fits(h[n], n)}
<1>1. Len(tabs) \in Nat /\ tabs \in Seq(TabUpTo(K))
  BY StripUpTo DEF StripSound
<1>2. Visits(h, closing, survivor, Len(tabs))
  <2>1. \E g : Visits(g, closing, survivor, Len(tabs))
    BY <1>1, VisitsExist
  <2> QED BY <2>1, Zenon
<1>3. BulkClosed(closing, survivor) = h
  BY Zenon DEF BulkClosed, Visits
<1> HIDE DEF h
<1>4. ASSUME NEW k \in 0 .. Len(tabs)
      PROVE  h[k] = IF k = 0 THEN [tabs |-> tabs, active |-> active, kept |-> survivor]
                    ELSE LET before == h[k - 1]
                             o == Len(tabs) + 1 - k
                         IN IF o \notin closing THEN before
                            ELSE [tabs |-> RemoveAt(before.tabs, o),
                                  active |-> ActiveAfterClose(before.active, o, before.kept),
                                  kept |-> Shifted(before.kept, o)]
  BY <1>2 DEF Visits
<1>5. 0 \in T
  <2> DEFINE c == [tabs |-> tabs, active |-> active, kept |-> survivor]
             f == [j \in 1 .. Len(tabs) |-> j]
  <2>1. h[0] = c
    <3>1. 0 \in 0 .. Len(tabs)
      BY <1>1
    <3> QED BY <1>4, <3>1
  <2>2. c.tabs = tabs /\ c.active = active /\ c.kept = survivor
    OBVIOUS
  <2> HIDE DEF c
  <2>3. Standing(closing, 0) = 1 .. Len(tabs)
    <3>1. \A j \in 1 .. Len(tabs) : ~(j > Len(tabs) - 0)
      BY <1>1
    <3> QED BY <3>1 DEF Standing, Indices
  <2>4. /\ f \in [1 .. Len(tabs) -> 1 .. Len(tabs)]
        /\ \A j \in 1 .. Len(tabs) : f[j] = j
    OBVIOUS
  <2> HIDE DEF f
  <2>5. Follows(c, f, closing, survivor, 0)
    <3>1. /\ f \in [1 .. Len(c.tabs) -> Standing(closing, 0)]
          /\ \A j \in 1 .. Len(c.tabs) : c.tabs[j] = tabs[f[j]]
          /\ \A j, k \in 1 .. Len(c.tabs) : j < k => f[j] < f[k]
          /\ \A s \in Standing(closing, 0) : \E j \in 1 .. Len(c.tabs) : f[j] = s
      BY <2>2, <2>3, <2>4
    <3>2. /\ c.kept \in 1 .. Len(c.tabs) /\ f[c.kept] = survivor
          /\ c.active \in 1 .. Len(c.tabs) /\ f[c.active] = active
          /\ active \in Standing(closing, 0)
      BY <2>2, <2>3, <2>4 DEF Indices
    <3> QED BY <3>1, <3>2 DEF Follows
  <2>6. Untouched(c, f, 0)
    BY <1>1, <2>2, <2>4 DEF Untouched
  <2> QED BY <1>1, <2>1, <2>2, <2>5, <2>6
<1>6. ASSUME NEW n \in Nat, n \in T PROVE n + 1 \in T
  <2> SUFFICES ASSUME n + 1 <= Len(tabs) PROVE fits(h[n + 1], n + 1)
    OBVIOUS
  <2> DEFINE c == h[n]
             d == h[n + 1]
  <2>1. fits(c, n)
    BY <1>1, <1>6
  <2>2. PICK f : Follows(c, f, closing, survivor, n) /\ Untouched(c, f, n)
    BY <2>1
  <2>3. /\ n + 1 \in 0 .. Len(tabs) /\ n + 1 # 0 /\ (n + 1) - 1 = n
        /\ Len(tabs) + 1 - (n + 1) = Len(tabs) - n
    BY <1>1
  <2>4. d = IF Len(tabs) - n \notin closing THEN c
            ELSE [tabs |-> RemoveAt(c.tabs, Len(tabs) - n),
                  active |-> ActiveAfterClose(c.active, Len(tabs) - n, c.kept),
                  kept |-> Shifted(c.kept, Len(tabs) - n)]
    BY <1>4, <2>3
  <2> HIDE DEF c, d
  <2>5. CASE Len(tabs) - n \notin closing
    <3>1. Standing(closing, n + 1) = Standing(closing, n)
      <4>1. ASSUME NEW j \in 1 .. Len(tabs), j > Len(tabs) - (n + 1), ~(j > Len(tabs) - n)
            PROVE  j \notin closing
        <5>1. j = Len(tabs) - n
          BY <1>1, <4>1
        <5> QED BY <2>5, <5>1
      <4>2. \A j \in 1 .. Len(tabs) : j > Len(tabs) - n => j > Len(tabs) - (n + 1)
        BY <1>1
      <4> QED BY <4>1, <4>2 DEF Standing, Indices
    <3>2. Follows(c, f, closing, survivor, n + 1)
      BY <2>2, <3>1 DEF Follows
    <3>3. Untouched(c, f, n + 1)
      BY <1>1, <2>2 DEF Untouched
    <3>4. d = c
      BY <2>4, <2>5
    <3>5. fits(d, n + 1)
      BY <2>1, <3>2, <3>3, <3>4
    <3> QED BY <3>5 DEF d
  <2>6. CASE Len(tabs) - n \in closing
    <3>1. d = [tabs |-> RemoveAt(c.tabs, Len(tabs) - n),
               active |-> ActiveAfterClose(c.active, Len(tabs) - n, c.kept),
               kept |-> Shifted(c.kept, Len(tabs) - n)]
      BY <2>4, <2>6
    <3>2. n < Len(tabs) /\ c.tabs \in Seq(TabUpTo(K))
      BY <1>1, <2>1
    <3>3. fits(d, n + 1)
      BY <2>2, <2>6, <3>1, <3>2, VisitFollows
    <3> QED BY <3>3 DEF d
  <2> QED BY <2>5, <2>6
<1> HIDE DEF T, fits
<1>7. Nat \subseteq T
  BY <1>5, <1>6, SetInduction
<1>8. fits(h[Len(tabs)], Len(tabs))
  BY <1>1, <1>7 DEF T
<1> QED BY <1>3, <1>8 DEF fits

-----------------------------------------------------------------------------
(* The inductive invariant of the window.                                  *)

Kinds == {"terminal", "editor", "tail"}

\* The active one of a strip is one of it, and zero when it is empty.
ActiveIn(ts, a) == a \in 0 .. Len(ts) /\ (a = 0 <=> Len(ts) = 0)

WindowInv ==
    /\ nextTab \in Nat \ {0}
    /\ kind \in Seq(Kinds)
    /\ StripSound(tabs, Len(kind), nextTab)
    /\ ActiveIn(tabs, active)
    /\ live \union dirty \union elsewhere \subseteq 1 .. Len(kind)
    /\ closeConfirm \in 0 .. Len(kind)
    /\ live \union dirty \subseteq ShownIn(tabs) \union elsewhere

LEMMA WindowInvIs ==
    ASSUME WindowInv
    PROVE  /\ Len(kind) \in Nat /\ Len(tabs) \in Nat /\ nextTab \in Nat /\ nextTab >= 1
           /\ Indices = 1 .. Len(tabs) /\ Opened = 1 .. Len(kind)
           /\ Shown = ShownIn(tabs) /\ Shown \subseteq 1 .. Len(kind)
           /\ \A i \in Indices : /\ tabs[i] \in TabUpTo(Len(kind)) /\ TabSound(tabs[i])
                                 /\ PanesOf(tabs[i]) \subseteq Shown
                                 /\ tabs[i].active \in PanesOf(tabs[i])
                                 /\ tabs[i].id \in 1 .. (nextTab - 1)
           /\ \A i, j \in Indices : i # j => Apart(tabs[i], tabs[j])
           /\ active > 0 => active \in Indices
           /\ Indices # {} => active \in Indices
<1>1. Len(kind) \in Nat /\ nextTab \in Nat /\ nextTab >= 1 /\ StripSound(tabs, Len(kind), nextTab)
  BY LenProperties DEF WindowInv
<1>2. /\ ShownIn(tabs) \subseteq 1 .. Len(kind) /\ Len(tabs) \in Nat
      /\ \A i \in 1 .. Len(tabs) : tabs[i] \in TabUpTo(Len(kind))
  BY <1>1, StripUpTo
<1>3. Shown = ShownIn(tabs)
  BY DEF Shown, ShownIn, Indices
<1>4. \A i \in Indices : TabSound(tabs[i]) /\ tabs[i].id \in 1 .. (nextTab - 1)
  BY <1>1 DEF StripSound, Indices
<1>5. \A i \in Indices : tabs[i].active \in PanesOf(tabs[i])
  BY <1>1, <1>2, <1>4, ActiveInTab DEF Indices
<1>6. \A i \in Indices : PanesOf(tabs[i]) \subseteq Shown
  BY DEF Shown
<1>7. \A i, j \in Indices : i # j => Apart(tabs[i], tabs[j])
  BY <1>1 DEF StripSound, Indices
<1>8. /\ active > 0 => active \in Indices
      /\ Indices # {} => active \in Indices
  BY <1>2 DEF WindowInv, ActiveIn, Indices
<1> QED BY <1>1, <1>2, <1>3, <1>4, <1>5, <1>6, <1>7, <1>8 DEF Indices, Opened

LEMMA WindowStarts == Init => WindowInv
<1> SUFFICES ASSUME Init PROVE WindowInv
  OBVIOUS
<1>1. tabs = << >> /\ kind = << >> /\ active = 0 /\ live = {} /\ dirty = {} /\ elsewhere = {}
      /\ nextTab = 1 /\ closeConfirm = 0
  BY DEF Init
<1>2. << >> \in Seq(TabUpTo(0)) /\ << >> \in Seq(Kinds) /\ Len(<< >>) = 0
  OBVIOUS
<1>3. StripSound(<< >>, 0, 1)
  BY <1>2 DEF StripSound
<1> QED BY <1>1, <1>2, <1>3 DEF WindowInv, ActiveIn

\* Nothing of the strip, or only which tab is active.
LEMMA StripStays ==
    ASSUME WindowInv, tabs' = tabs, kind' = kind, nextTab' = nextTab,
           ActiveIn(tabs, active'), live' \union dirty' \union elsewhere' \subseteq Opened,
           live' \union dirty' \subseteq Shown \union elsewhere',
           closeConfirm' \in 0 .. Len(kind)
    PROVE  WindowInv'
<1>1. Opened = 1 .. Len(kind) /\ Shown = ShownIn(tabs) /\ ShownIn(tabs)' = ShownIn(tabs)
  BY WindowInvIs DEF ShownIn
<1>2. StripSound(tabs, Len(kind), nextTab)'
  BY DEF WindowInv, StripSound
<1>3. ActiveIn(tabs, active)'
  BY DEF ActiveIn
<1> QED BY <1>1, <1>2, <1>3 DEF WindowInv

LEMMA WindowSame ==
    ASSUME WindowInv, UNCHANGED vars PROVE WindowInv'
<1>1. /\ tabs' = tabs /\ kind' = kind /\ nextTab' = nextTab /\ active' = active
      /\ live' = live /\ dirty' = dirty /\ elsewhere' = elsewhere
      /\ closeConfirm' = closeConfirm
  BY DEF vars, strip, panes
<1> QED BY <1>1, StripStays, WindowInvIs DEF WindowInv

\* A strip of sound tabs, of the panes there are now.
LEMMA StripChanges ==
    ASSUME WindowInv, NEW n \in Nat, Len(kind') = n, kind' \in Seq(Kinds), Len(kind) <= n,
           NEW m \in Nat, nextTab' = m, nextTab <= m,
           StripSound(tabs', n, m), ActiveIn(tabs', active'),
           live' \union dirty' \union elsewhere' \subseteq 1 .. n,
           live' \union dirty' \subseteq ShownIn(tabs') \union elsewhere',
           closeConfirm' \in 0 .. n
    PROVE  WindowInv'
<1>1. StripSound(tabs, Len(kind), nextTab)'
  BY DEF StripSound
<1>2. ActiveIn(tabs, active)'
  BY DEF ActiveIn
<1>3. ShownIn(tabs)' = ShownIn(tabs')
  BY DEF ShownIn
<1>4. nextTab' \in Nat \ {0}
  BY WindowInvIs
<1> QED BY <1>1, <1>2, <1>3, <1>4 DEF WindowInv

-----------------------------------------------------------------------------
(* Opening.                                                                *)

LEMMA OneOpens ==
    ASSUME WindowInv, NEW k \in Kinds, Open(<<k>>)
    PROVE  /\ kind' \in Seq(Kinds) /\ Len(kind') = Len(kind) + 1
           /\ live' \subseteq live \union {NewPane}
           /\ dirty' = dirty /\ elsewhere' = elsewhere
<1>1. kind \in Seq(Kinds) /\ <<k>> \in Seq(Kinds) /\ Len(<<k>>) = 1 /\ Len(kind) \in Nat
  BY WindowInvIs DEF WindowInv
<1>2. kind' = kind \o <<k>> /\ dirty' = dirty /\ elsewhere' = elsewhere
  BY DEF Open
<1>3. kind \o <<k>> \in Seq(Kinds) /\ Len(kind \o <<k>>) = Len(kind) + 1
  BY <1>1, ConcatProperties
<1>4. live' \subseteq live \union ((Len(kind) + 1) .. (Len(kind) + 1))
  BY <1>1 DEF Open
<1>5. (Len(kind) + 1) .. (Len(kind) + 1) = {NewPane}
  BY <1>1 DEF NewPane
<1> QED BY <1>2, <1>3, <1>4, <1>5

\* A tab of new panes is put into the strip.
LEMMA InsertKeeps ==
    ASSUME WindowInv, NEW n \in Nat, Len(kind') = n, kind' \in Seq(Kinds), Len(kind) <= n,
           NEW t \in TabUpTo(n), TabSound(t), t.id = nextTab,
           PanesOf(t) \intersect (1 .. Len(kind)) = {},
           NEW i \in 1 .. (Len(tabs) + 1), Insert(i, t),
           live' \subseteq live \union PanesOf(t), dirty' = dirty, elsewhere' = elsewhere,
           closeConfirm' = closeConfirm
    PROVE  WindowInv'
<1>1. /\ Len(kind) \in Nat /\ Len(tabs) \in Nat /\ nextTab \in Nat /\ nextTab >= 1
      /\ StripSound(tabs, Len(kind), nextTab) /\ ShownIn(tabs) \subseteq 1 .. Len(kind)
      /\ \A j \in 1 .. Len(tabs) : /\ tabs[j].id \in 1 .. (nextTab - 1)
                                   /\ PanesOf(tabs[j]) \subseteq 1 .. Len(kind)
  BY WindowInvIs DEF WindowInv
<1>2. StripSound(tabs, n, nextTab + 1)
  <2>1. nextTab + 1 \in Nat /\ nextTab <= nextTab + 1
    BY <1>1
  <2> QED BY <1>1, <2>1, StripGrows
<1>3. tabs' = InsertAt(tabs, i, t) /\ active' = i /\ nextTab' = nextTab + 1
  BY DEF Insert
<1>4. CanJoin(t, tabs)
  BY <1>1 DEF CanJoin, Apart
<1>5. t.id \in 1 .. ((nextTab + 1) - 1) /\ nextTab + 1 \in Nat
  BY <1>1
<1>6. /\ StripSound(tabs', n, nextTab + 1) /\ Len(tabs') = Len(tabs) + 1
      /\ ShownIn(tabs') = ShownIn(tabs) \union PanesOf(t)
  BY <1>2, <1>3, <1>4, <1>5, StripInserted DEF Joined
<1>7. ActiveIn(tabs', active')
  BY <1>1, <1>3, <1>6 DEF ActiveIn
<1>8. PanesOf(t) \subseteq 1 .. n
  BY ActiveInTab
<1>9. live' \union dirty' \union elsewhere' \subseteq 1 .. n
  BY <1>1, <1>8 DEF WindowInv
<1>10. live' \union dirty' \subseteq ShownIn(tabs') \union elsewhere'
  BY <1>6 DEF WindowInv
<1>11. closeConfirm' \in 0 .. n
  BY <1>1 DEF WindowInv
<1> QED BY <1>1, <1>3, <1>5, <1>6, <1>7, <1>9, <1>10, <1>11, StripChanges

LEMMA SingleOpens ==
    ASSUME WindowInv, NEW k \in Kinds, Open(<<k>>),
           NEW i \in 1 .. (Len(tabs) + 1), Insert(i, Single(NewPane)),
           closeConfirm' = closeConfirm
    PROVE  WindowInv'
<1> DEFINE n == Len(kind) + 1
           t == Single(NewPane)
<1>1. Len(kind) \in Nat /\ nextTab \in Nat /\ n \in Nat /\ NewPane = n
  BY WindowInvIs DEF NewPane
<1>2. /\ kind' \in Seq(Kinds) /\ Len(kind') = n /\ live' \subseteq live \union {NewPane}
      /\ dirty' = dirty /\ elsewhere' = elsewhere
  BY OneOpens
<1>3. NewPane \in 1 .. n
  BY <1>1
<1>4. t \in TabUpTo(n) /\ TabSound(t) /\ PanesOf(t) = {NewPane} /\ t.id = nextTab
  BY <1>1, <1>3, SingleSound
<1>5. NewPane \notin 1 .. Len(kind) /\ Len(kind) <= n
  BY <1>1
<1> HIDE DEF n, t
<1>6. Insert(i, t)
  BY DEF t
<1> QED BY <1>1, <1>2, <1>4, <1>5, <1>6, InsertKeeps

LEMMA OpenSessionKeeps == ASSUME WindowInv, OpenSession PROVE WindowInv'
<1>1. Len(tabs) + 1 \in 1 .. (Len(tabs) + 1)
  BY WindowInvIs
<1> QED BY <1>1, SingleOpens DEF OpenSession, Kinds

LEMMA OpenEditorKeeps == ASSUME WindowInv, OpenEditor PROVE WindowInv'
<1>1. active + 1 \in 1 .. (Len(tabs) + 1)
  BY WindowInvIs DEF WindowInv, ActiveIn
<1> QED BY <1>1, SingleOpens DEF OpenEditor, Kinds

LEMMA DuplicateKeeps ==
    ASSUME WindowInv, NEW i \in Indices, Duplicate(i), closeConfirm' = closeConfirm
    PROVE  WindowInv'
<1>1. i + 1 \in 1 .. (Len(tabs) + 1)
  BY WindowInvIs DEF Indices
<1>2. PICK p \in WithSession(tabs[i]) : Open(<<kind[p]>>)
  BY DEF Duplicate
<1>3. Insert(i + 1, Single(NewPane))
  BY DEF Duplicate
<1>4. p \in PanesOf(tabs[i])
  <2>1. tabs[i].active \in PanesOf(tabs[i])
    BY WindowInvIs
  <2>2. \A j \in DOMAIN tabs[i].panes : tabs[i].panes[j] \in PanesOf(tabs[i])
    BY DEF PanesOf, ToSet
  <2> QED BY <1>2, <2>1, <2>2 DEF WithSession
<1>5. kind[p] \in Kinds
  <2>1. p \in 1 .. Len(kind)
    BY <1>4, WindowInvIs
  <2> QED BY <2>1 DEF WindowInv
<1> QED BY <1>1, <1>2, <1>3, <1>5, SingleOpens

LEMMA OpenWithTailKeeps == ASSUME WindowInv, OpenWithTail PROVE WindowInv'
<1> DEFINE n == Len(kind) + 2
           p == NewPane
           ks == <<"terminal", "tail">>
           ps == <<p, p + 1>>
           t == [Single(p) EXCEPT !.panes = ps]
<1>1. Len(kind) \in Nat /\ nextTab \in Nat /\ n \in Nat /\ p = Len(kind) + 1 /\ p \in 1 .. n
      /\ p + 1 \in 1 .. n /\ Len(tabs) \in Nat
  BY WindowInvIs DEF NewPane
<1>2. kind \in Seq(Kinds) /\ ks \in Seq(Kinds) /\ Len(ks) = 2
  BY DEF WindowInv, Kinds
<1>3. Open(ks) /\ Insert(Len(tabs) + 1, t) /\ closeConfirm' = closeConfirm
  BY DEF OpenWithTail
<1>4. kind' \in Seq(Kinds) /\ Len(kind') = n
  <2>1. kind' = kind \o ks
    BY <1>3 DEF Open
  <2>2. kind \o ks \in Seq(Kinds) /\ Len(kind \o ks) = Len(kind) + Len(ks)
    BY <1>2, ConcatProperties
  <2> QED BY <1>2, <2>1, <2>2
<1>5. live' \subseteq live \union {p, p + 1} /\ dirty' = dirty /\ elsewhere' = elsewhere
  <2>1. live' \subseteq live \union ((Len(kind) + 1) .. (Len(kind) + Len(ks)))
    BY <1>3 DEF Open
  <2>2. (Len(kind) + 1) .. (Len(kind) + Len(ks)) = {p, p + 1}
    BY <1>1, <1>2
  <2>3. dirty' = dirty /\ elsewhere' = elsewhere
    BY <1>3 DEF Open
  <2> QED BY <2>1, <2>2, <2>3
<1>6. /\ ps \in Seq(1 .. n) /\ Len(ps) = 2 /\ ps[1] = p /\ ps[2] = p + 1
  BY <1>1
<1>7. IsInjective(ps) /\ ToSet(ps) = {p, p + 1}
  <2> HIDE DEF ps
  <2>1. \A i, j \in 1 .. Len(ps) : ps[i] = ps[j] => i = j
    BY <1>1, <1>6
  <2>2. ToSet(ps) = {ps[i] : i \in 1 .. Len(ps)}
    BY <1>6, EntriesOf
  <2>3. 1 .. Len(ps) = {1, 2}
    BY <1>6
  <2> QED BY <1>6, <2>1, <2>2, <2>3, Injective
<1>8. /\ Single(p) \in TabUpTo(n) /\ TabSound(Single(p))
      /\ PanesOf(Single(p)) = {p} /\ Single(p).id = nextTab
  BY <1>1, SingleSound
<1> HIDE DEF ps, p, ks
<1>9. /\ t \in TabUpTo(n) /\ t.panes = ps /\ t.order = Single(p).order
      /\ t.active = Single(p).active /\ t.id = nextTab
  BY <1>6, <1>8 DEF TabUpTo
<1> HIDE DEF t
<1>10. TabSound(t) /\ PanesOf(t) = {p, p + 1}
  BY <1>7, <1>8, <1>9 DEF TabSound, PanesSound, PanesOf
<1>11. PanesOf(t) \intersect (1 .. Len(kind)) = {} /\ Len(kind) <= n
  BY <1>1, <1>10
<1>12. Len(tabs) + 1 \in 1 .. (Len(tabs) + 1)
  BY <1>1
<1> HIDE DEF n
<1> QED BY <1>1, <1>3, <1>4, <1>5, <1>9, <1>10, <1>11, <1>12, InsertKeeps

-----------------------------------------------------------------------------
(* One tab changed, or taken out.                                          *)

\* A tab that shows no pane it did not show; those it does not show any more are gone.
LEMMA ReplaceKeeps ==
    ASSUME WindowInv, NEW i \in Indices, NEW t \in TabUpTo(Len(kind)), TabSound(t),
           t.id = tabs[i].id, PanesOf(t) \subseteq PanesOf(tabs[i]),
           tabs' = [tabs EXCEPT ![i] = t], active' \in Indices,
           kind' = kind, nextTab' = nextTab, elsewhere' = elsewhere,
           live' \union dirty' \subseteq
               (live \union dirty) \ (PanesOf(tabs[i]) \ PanesOf(t)),
           closeConfirm' \in 0 .. Len(kind)
    PROVE  WindowInv'
<1>1. /\ Len(kind) \in Nat /\ Len(tabs) \in Nat /\ nextTab \in Nat
      /\ i \in 1 .. Len(tabs) /\ Indices = 1 .. Len(tabs)
      /\ StripSound(tabs, Len(kind), nextTab)
      /\ \A j \in Indices : j # i => PanesOf(tabs[i]) \intersect PanesOf(tabs[j]) = {}
  BY WindowInvIs DEF WindowInv, Apart
<1>2. StandsFor(t, tabs, i)
  BY <1>1 DEF StandsFor
<1>3. StripSound(tabs', Len(kind), nextTab) /\ Replaced(tabs', tabs, i, t)
  BY <1>1, <1>2, StripReplaced
<1>4. ActiveIn(tabs', active')
  BY <1>1, <1>3 DEF ActiveIn, Replaced
<1>5. live' \union dirty' \union elsewhere' \subseteq 1 .. Len(kind)
  BY DEF WindowInv
<1>6. live' \union dirty' \subseteq ShownIn(tabs') \union elsewhere'
  BY <1>3 DEF WindowInv, Replaced
<1>7. kind' \in Seq(Kinds) /\ Len(kind) <= Len(kind) /\ nextTab <= nextTab
  BY <1>1 DEF WindowInv
<1> QED BY <1>1, <1>3, <1>4, <1>5, <1>6, <1>7, StripChanges

LEMMA ShowEditorKeeps == ASSUME WindowInv, ShowEditor PROVE WindowInv'
<1>1. PICK i \in Indices : \E p \in PanesOf(tabs[i]) :
         tabs' = [tabs EXCEPT ![i] = Focus(@, p)] /\ active' = i
  BY DEF ShowEditor
<1>2. PICK p \in PanesOf(tabs[i]) : tabs' = [tabs EXCEPT ![i] = Focus(tabs[i], p)]
  BY <1>1
<1> DEFINE t == Focus(tabs[i], p)
<1>3. tabs[i] \in TabUpTo(Len(kind)) /\ PanesSound(tabs[i]) /\ Len(kind) \in Nat
  BY WindowInvIs DEF TabSound
<1>4. /\ t \in TabUpTo(Len(kind)) /\ TabSound(t)
      /\ PanesOf(t) = PanesOf(tabs[i]) /\ t.id = tabs[i].id
  BY <1>3, FocusSound
<1> HIDE DEF t
<1>5. tabs' = [tabs EXCEPT ![i] = t]
  BY <1>2 DEF t
<1>6. /\ kind' = kind /\ live' = live /\ dirty' = dirty /\ elsewhere' = elsewhere
      /\ nextTab' = nextTab /\ closeConfirm' \in 0 .. Len(kind)
  BY DEF ShowEditor, panes, WindowInv
<1> QED BY <1>1, <1>4, <1>5, <1>6, ReplaceKeeps

LEMMA FocusPaneKeeps == ASSUME WindowInv, FocusPane PROVE WindowInv'
<1>1. PICK i \in Indices : \E p \in PanesOf(tabs[i]) :
         tabs' = [tabs EXCEPT ![i] = Focus(@, p)]
  BY DEF FocusPane
<1>2. PICK p \in PanesOf(tabs[i]) : tabs' = [tabs EXCEPT ![i] = Focus(tabs[i], p)]
  BY <1>1
<1> DEFINE t == Focus(tabs[i], p)
<1>3. tabs[i] \in TabUpTo(Len(kind)) /\ PanesSound(tabs[i]) /\ Len(kind) \in Nat
  BY WindowInvIs DEF TabSound
<1>4. /\ t \in TabUpTo(Len(kind)) /\ TabSound(t)
      /\ PanesOf(t) = PanesOf(tabs[i]) /\ t.id = tabs[i].id
  BY <1>3, FocusSound
<1> HIDE DEF t
<1>5. tabs' = [tabs EXCEPT ![i] = t]
  BY <1>2 DEF t
<1>6. /\ kind' = kind /\ live' = live /\ dirty' = dirty /\ elsewhere' = elsewhere
      /\ nextTab' = nextTab /\ closeConfirm' \in 0 .. Len(kind) /\ active' \in Indices
  BY WindowInvIs DEF FocusPane, panes, WindowInv
<1> QED BY <1>4, <1>5, <1>6, ReplaceKeeps

\* A tab that goes: its panes do, or are another window's.
LEMMA TakeKeeps ==
    ASSUME WindowInv, NEW i \in Indices, tabs' = RemoveAt(tabs, i),
           active' = IF Shifted(active, i) > Len(tabs) - 1 THEN Len(tabs) - 1
                     ELSE Shifted(active, i),
           kind' = kind, nextTab' = nextTab,
           elsewhere' \subseteq 1 .. Len(kind), elsewhere \subseteq elsewhere',
           live' \union dirty' \subseteq
               ((live \union dirty) \ PanesOf(tabs[i])) \union elsewhere',
           closeConfirm' \in 0 .. Len(kind)
    PROVE  WindowInv'
<1>1. /\ Len(kind) \in Nat /\ Len(tabs) \in Nat /\ nextTab \in Nat
      /\ i \in 1 .. Len(tabs) /\ active \in 1 .. Len(tabs)
      /\ StripSound(tabs, Len(kind), nextTab)
  BY WindowInvIs DEF WindowInv
<1>2. /\ StripSound(tabs', Len(kind), nextTab) /\ Len(tabs') = Len(tabs) - 1
      /\ ShownIn(tabs') = ShownIn(tabs) \ PanesOf(tabs[i])
  BY <1>1, StripWithout
<1>3. ActiveIn(tabs', active')
  BY <1>1, <1>2 DEF ActiveIn, Shifted
<1>4. live' \union dirty' \union elsewhere' \subseteq 1 .. Len(kind)
  BY DEF WindowInv
<1>5. live' \union dirty' \subseteq ShownIn(tabs') \union elsewhere'
  BY <1>2 DEF WindowInv
<1>6. kind' \in Seq(Kinds) /\ Len(kind) <= Len(kind) /\ nextTab <= nextTab
  BY <1>1 DEF WindowInv
<1> QED BY <1>1, <1>2, <1>3, <1>4, <1>5, <1>6, StripChanges

LEMMA CloseTabNowKeeps ==
    ASSUME WindowInv, NEW i \in Indices, CloseTabNow(i), nextTab' = nextTab,
           closeConfirm' \in 0 .. Len(kind)
    PROVE  WindowInv'
<1>1. /\ tabs' = RemoveAt(tabs, i)
      /\ active' = IF Shifted(active, i) > Len(tabs) - 1 THEN Len(tabs) - 1
                   ELSE Shifted(active, i)
      /\ live' = live \ PanesOf(tabs[i]) /\ dirty' = dirty \ PanesOf(tabs[i])
      /\ kind' = kind /\ elsewhere' = elsewhere
  BY DEF CloseTabNow, Retire
<1>2. elsewhere \subseteq 1 .. Len(kind)
  BY DEF WindowInv
<1> QED BY <1>1, <1>2, TakeKeeps

LEMMA RemovePaneKeeps ==
    ASSUME WindowInv, NEW i \in Indices, NEW p \in PanesOf(tabs[i]), RemovePane(i, p),
           nextTab' = nextTab, closeConfirm' \in 0 .. Len(kind)
    PROVE  WindowInv'
<1>1. CASE Len(tabs[i].panes) < 2
  BY <1>1, CloseTabNowKeeps DEF RemovePane
<1>2. CASE ~(Len(tabs[i].panes) < 2)
  <2> DEFINE t == WithoutPane(tabs[i], p)
  <2>1. tabs[i] \in TabUpTo(Len(kind)) /\ TabSound(tabs[i]) /\ Len(kind) \in Nat
    BY WindowInvIs
  <2>2. Len(tabs[i].panes) >= 2
    <3>1. Len(tabs[i].panes) \in Nat
      BY <2>1, LenProperties DEF TabUpTo
    <3> QED BY <1>2, <3>1
  <2>3. /\ t \in TabUpTo(Len(kind)) /\ TabSound(t)
        /\ PanesOf(t) = PanesOf(tabs[i]) \ {p} /\ t.id = tabs[i].id
    BY <2>1, <2>2, WithoutSound
  <2> HIDE DEF t
  <2>4. /\ tabs' = [tabs EXCEPT ![i] = t] /\ active' = active
        /\ live' = live \ {p} /\ dirty' = dirty \ {p} /\ kind' = kind /\ elsewhere' = elsewhere
    BY <1>2 DEF RemovePane, Retire, t
  <2>5. active' \in Indices
    BY <2>4, WindowInvIs
  <2>6. live' \union dirty' \subseteq (live \union dirty) \ (PanesOf(tabs[i]) \ PanesOf(t))
    BY <2>3, <2>4
  <2> QED BY <2>3, <2>4, <2>5, <2>6, ReplaceKeeps
<1> QED BY <1>1, <1>2

LEMMA CloseTabKeeps ==
    ASSUME WindowInv, NEW i \in Indices, CloseTab(i), nextTab' = nextTab PROVE WindowInv'
<1>1. CASE Len(tabs[i].panes) = 1 /\ tabs[i].panes[1] \in dirty
  <2>1. closeConfirm' = tabs[i].panes[1] /\ UNCHANGED <<strip, panes>>
    BY <1>1 DEF CloseTab
  <2>2. /\ tabs' = tabs /\ active' = active /\ kind' = kind /\ live' = live
        /\ dirty' = dirty /\ elsewhere' = elsewhere
    BY <2>1 DEF strip, panes
  <2>3. closeConfirm' \in 0 .. Len(kind) /\ Opened = 1 .. Len(kind) /\ Shown = ShownIn(tabs)
    BY <1>1, <2>1, WindowInvIs DEF WindowInv
  <2> QED BY <2>2, <2>3, StripStays DEF WindowInv
<1>2. CASE ~(Len(tabs[i].panes) = 1 /\ tabs[i].panes[1] \in dirty)
  BY <1>2, CloseTabNowKeeps DEF CloseTab, WindowInv
<1> QED BY <1>1, <1>2

LEMMA ClosePaneKeeps == ASSUME WindowInv, ClosePane PROVE WindowInv'
<1> DEFINE p == tabs[active].active
<1>1. active \in Indices /\ p \in PanesOf(tabs[active]) /\ nextTab' = nextTab
  BY WindowInvIs DEF ClosePane
<1>2. CASE p \in dirty
  <2>1. closeConfirm' = p /\ UNCHANGED <<strip, panes>>
    BY <1>2 DEF ClosePane
  <2>2. /\ tabs' = tabs /\ active' = active /\ kind' = kind /\ live' = live
        /\ dirty' = dirty /\ elsewhere' = elsewhere
    BY <2>1 DEF strip, panes
  <2>3. closeConfirm' \in 0 .. Len(kind) /\ Opened = 1 .. Len(kind) /\ Shown = ShownIn(tabs)
    BY <1>2, <2>1, WindowInvIs DEF WindowInv
  <2> QED BY <1>1, <2>2, <2>3, StripStays DEF WindowInv
<1>3. CASE p \notin dirty
  <2>1. RemovePane(active, p) /\ closeConfirm' = closeConfirm
    BY <1>3 DEF ClosePane
  <2> QED BY <1>1, <2>1, RemovePaneKeeps DEF WindowInv
<1> QED BY <1>2, <1>3

LEMMA AnswerKeeps == ASSUME WindowInv, Answer PROVE WindowInv'
<1>1. closeConfirm' \in 0 .. Len(kind) /\ nextTab' = nextTab
  BY WindowInvIs DEF Answer
<1>2. CASE UNCHANGED <<strip, panes>>
  <2>1. /\ tabs' = tabs /\ active' = active /\ kind' = kind /\ live' = live
        /\ dirty' = dirty /\ elsewhere' = elsewhere
    BY <1>2 DEF strip, panes
  <2>2. Opened = 1 .. Len(kind) /\ Shown = ShownIn(tabs)
    BY WindowInvIs
  <2> QED BY <1>1, <2>1, <2>2, StripStays DEF WindowInv
<1>3. CASE \E i \in Indices : closeConfirm \in PanesOf(tabs[i]) /\ RemovePane(i, closeConfirm)
  BY <1>1, <1>3, RemovePaneKeeps
<1> QED BY <1>2, <1>3 DEF Answer

LEMMA SessionEndsKeeps == ASSUME WindowInv, SessionEnds PROVE WindowInv'
<1>1. PICK i \in Indices : \E p \in PanesOf(tabs[i]) : RemovePane(i, p)
  BY DEF SessionEnds
<1>2. closeConfirm' \in 0 .. Len(kind) /\ nextTab' = nextTab
  BY DEF SessionEnds, WindowInv
<1> QED BY <1>1, <1>2, RemovePaneKeeps

LEMMA CloseFromStripKeeps == ASSUME WindowInv, CloseFromStrip PROVE WindowInv'
  BY CloseTabKeeps DEF CloseFromStrip

LEMMA DetachKeeps ==
    ASSUME WindowInv, NEW i \in Indices, Detach(i), kind' = kind, live' = live, dirty' = dirty,
           nextTab' = nextTab, closeConfirm' = closeConfirm
    PROVE  WindowInv'
<1>1. /\ tabs' = RemoveAt(tabs, i)
      /\ active' = IF Shifted(active, i) > Len(tabs) - 1 THEN Len(tabs) - 1
                   ELSE Shifted(active, i)
      /\ elsewhere' = elsewhere \union PanesOf(tabs[i])
  BY DEF Detach
<1>2. elsewhere' \subseteq 1 .. Len(kind)
  BY <1>1, WindowInvIs DEF WindowInv
<1>3. closeConfirm' \in 0 .. Len(kind)
  BY DEF WindowInv
<1>4. live' \union dirty' \subseteq ((live \union dirty) \ PanesOf(tabs[i])) \union elsewhere'
  BY <1>1
<1> QED BY <1>1, <1>2, <1>3, <1>4, TakeKeeps

-----------------------------------------------------------------------------
(* What leaves the strip as it is.                                         *)

LEMMA IdleStepsKeep ==
    ASSUME WindowInv,
           SelectTab \/ PickUp \/ DragOver \/ EndTabDrag \/ TailEnds \/ ReconnectSession \/ Edit
           \/ OpenMenu \/ CloseMenu
    PROVE  WindowInv'
<1>1. /\ Opened = 1 .. Len(kind) /\ Shown = ShownIn(tabs) /\ Shown \subseteq Opened
      /\ Len(tabs) \in Nat /\ Indices = 1 .. Len(tabs)
  BY WindowInvIs
<1>2. tabs' = tabs /\ kind' = kind /\ nextTab' = nextTab /\ elsewhere' = elsewhere
      /\ closeConfirm' \in 0 .. Len(kind)
  BY DEF SelectTab, PickUp, DragOver, EndTabDrag, TailEnds, ReconnectSession, Edit, OpenMenu,
         CloseMenu, strip, panes, WindowInv
<1>3. ActiveIn(tabs, active')
  <2>1. CASE SelectTab
    BY <1>1, <2>1 DEF SelectTab, ActiveIn
  <2>2. CASE active' = active
    BY <2>2 DEF WindowInv
  <2> QED BY <2>1, <2>2 DEF PickUp, DragOver, EndTabDrag, TailEnds, ReconnectSession, Edit,
                            OpenMenu, CloseMenu, strip
<1>4. live' \union dirty' \subseteq live \union dirty \union Shown
  BY DEF SelectTab, PickUp, DragOver, EndTabDrag, TailEnds, ReconnectSession, Edit, OpenMenu,
         CloseMenu, strip, panes
<1> QED BY <1>1, <1>2, <1>3, <1>4, StripStays DEF WindowInv

-----------------------------------------------------------------------------
(* A tab split, and a pane broken out of one.                              *)

\* The active tab, among the others.
LEMMA ActiveTab ==
    ASSUME WindowInv, active > 0
    PROVE  /\ active \in 1 .. Len(tabs)
           /\ tabs[active] \in TabUpTo(Len(kind)) /\ TabSound(tabs[active])
           /\ tabs[active].active \in PanesOf(tabs[active])
           /\ PanesOf(tabs[active]) \subseteq 1 .. Len(kind)
           /\ PanesOf(tabs[active]) \subseteq ShownIn(tabs)
           /\ tabs[active].id \in 1 .. (nextTab - 1)
           /\ \A j \in 1 .. Len(tabs) :
                 j # active => /\ Apart(tabs[active], tabs[j])
                               /\ PanesOf(tabs[active]) \intersect PanesOf(tabs[j]) = {}
<1>1. active \in 1 .. Len(tabs) /\ Indices = 1 .. Len(tabs)
  BY WindowInvIs
<1>2. /\ tabs[active] \in TabUpTo(Len(kind)) /\ TabSound(tabs[active])
      /\ tabs[active].active \in PanesOf(tabs[active])
      /\ PanesOf(tabs[active]) \subseteq Shown /\ Shown = ShownIn(tabs)
      /\ Shown \subseteq 1 .. Len(kind) /\ tabs[active].id \in 1 .. (nextTab - 1)
  BY <1>1, WindowInvIs
<1>3. \A j \in 1 .. Len(tabs) : j # active => Apart(tabs[active], tabs[j])
  BY <1>1, WindowInvIs
<1> QED BY <1>1, <1>2, <1>3 DEF Apart

LEMMA DuplicateSplitKeeps == ASSUME WindowInv, DuplicateSplit PROVE WindowInv'
<1> DEFINE n == Len(kind) + 1
           p == NewPane
           t0 == tabs[active]
           mid == [t0 EXCEPT !.panes = Beside(t0, <<p>>)]
           t == Focus(mid, p)
<1>1. /\ Len(kind) \in Nat /\ Len(tabs) \in Nat /\ nextTab \in Nat /\ n \in Nat
      /\ active \in 1 .. Len(tabs) /\ p = n /\ p \in 1 .. n /\ Len(kind) <= n
      /\ p \notin 1 .. Len(kind)
      /\ StripSound(tabs, Len(kind), nextTab)
      /\ \A j \in 1 .. Len(tabs) : PanesOf(tabs[j]) \subseteq 1 .. Len(kind)
      /\ \A j \in 1 .. Len(tabs) : j # active => PanesOf(t0) \intersect PanesOf(tabs[j]) = {}
      /\ t0 \in TabUpTo(Len(kind)) /\ TabSound(t0)
  <2>1. active > 0
    BY DEF DuplicateSplit, ActiveIs
  <2>2. Len(kind) \in Nat /\ Len(tabs) \in Nat /\ nextTab \in Nat
    BY WindowInvIs
  <2>3. StripSound(tabs, Len(kind), nextTab)
    BY DEF WindowInv
  <2>4. \A j \in 1 .. Len(tabs) : PanesOf(tabs[j]) \subseteq 1 .. Len(kind)
    BY <2>2, <2>3, StripUpTo
  <2>5. n \in Nat /\ p = n /\ p \in 1 .. n /\ Len(kind) <= n /\ p \notin 1 .. Len(kind)
    BY <2>2 DEF NewPane
  <2> QED BY <2>1, <2>2, <2>3, <2>4, <2>5, ActiveTab
<1>2. /\ kind' \in Seq(Kinds) /\ Len(kind') = n /\ live' \subseteq live \union {p}
      /\ dirty' = dirty /\ elsewhere' = elsewhere
  <2>1. Open(<<"terminal">>) /\ "terminal" \in Kinds
    BY DEF DuplicateSplit, Kinds
  <2> QED BY <2>1, OneOpens
<1>3. /\ tabs' = [tabs EXCEPT ![active] = t] /\ active' = active /\ nextTab' = nextTab
      /\ closeConfirm' = closeConfirm
  BY DEF DuplicateSplit
<1> HIDE DEF n, p, t0
<1>4. t0 \in TabUpTo(n) /\ StripSound(tabs, n, nextTab)
  <2>1. nextTab <= nextTab
    BY <1>1
  <2> QED BY <1>1, <2>1, TabGrows, StripGrows
<1>5. <<p>> \in Seq(1 .. n) /\ IsInjective(<<p>>) /\ ToSet(<<p>>) = {p}
  BY <1>1, OnlyPane
<1>6. {p} \intersect PanesOf(t0) = {}
  <2>1. PanesOf(t0) \subseteq 1 .. Len(kind)
    BY <1>1, ActiveInTab
  <2> QED BY <1>1, <2>1
<1> DEFINE new == <<p>>
<1> HIDE DEF new
<1>7. /\ Beside(t0, <<p>>) \in Seq(1 .. n) /\ IsInjective(Beside(t0, <<p>>))
      /\ ToSet(Beside(t0, <<p>>)) = PanesOf(t0) \union {p}
  <2>1. new \in Seq(1 .. n) /\ IsInjective(new) /\ ToSet(new) = {p}
    BY <1>5 DEF new
  <2>2. ToSet(new) \intersect PanesOf(t0) = {}
    BY <1>6, <2>1
  <2>3. /\ Beside(t0, new) \in Seq(1 .. n) /\ IsInjective(Beside(t0, new))
        /\ ToSet(Beside(t0, new)) = PanesOf(t0) \union ToSet(new)
    BY ONLY <1>1, <1>4, <2>1, <2>2, BesideIs
  <2> QED BY <2>1, <2>3 DEF new
<1>8. /\ mid \in TabUpTo(n) /\ mid.panes = Beside(t0, <<p>>) /\ mid.order = t0.order
      /\ mid.id = t0.id
  BY <1>4, <1>7 DEF TabUpTo
<1> HIDE DEF mid
<1>9. PanesSound(mid) /\ PanesOf(mid) = PanesOf(t0) \union {p}
  BY <1>1, <1>7, <1>8 DEF PanesSound, TabSound, PanesOf
<1>10. /\ t \in TabUpTo(n) /\ TabSound(t) /\ PanesOf(t) = PanesOf(t0) \union {p}
       /\ t.id = t0.id
  BY <1>1, <1>8, <1>9, FocusSound
<1> HIDE DEF t
<1>11. StandsFor(t, tabs, active)
  BY <1>1, <1>10 DEF StandsFor, t0
<1>12. StripSound(tabs', n, nextTab) /\ Replaced(tabs', tabs, active, t)
  BY <1>1, <1>3, <1>4, <1>10, <1>11, StripReplaced
<1>13. ActiveIn(tabs', active')
  BY <1>1, <1>3, <1>12 DEF ActiveIn, Replaced
<1>14. ShownIn(tabs') = ShownIn(tabs) \union {p}
  <2>1. ShownIn(tabs') = (ShownIn(tabs) \ PanesOf(t0)) \union PanesOf(t)
    BY <1>12 DEF Replaced, t0
  <2>2. PanesOf(t0) \subseteq ShownIn(tabs)
    BY <1>1 DEF ShownIn, t0
  <2> QED BY <1>10, <2>1, <2>2
<1>15. live' \union dirty' \union elsewhere' \subseteq 1 .. n
  BY <1>1, <1>2 DEF WindowInv
<1>16. live' \union dirty' \subseteq ShownIn(tabs') \union elsewhere'
  BY <1>2, <1>14 DEF WindowInv
<1>17. closeConfirm' \in 0 .. n /\ nextTab <= nextTab
  BY <1>1, <1>3 DEF WindowInv
<1> QED BY <1>1, <1>2, <1>3, <1>12, <1>13, <1>15, <1>16, <1>17, StripChanges

LEMMA BreakOutKeeps == ASSUME WindowInv, BreakOut PROVE WindowInv'
<1> DEFINE n == Len(kind)
           p == tabs[active].active
           t == WithoutPane(tabs[active], p)
           mid == [tabs EXCEPT ![active] = t]
           s == Single(p)
<1>1. /\ n \in Nat /\ Len(tabs) \in Nat /\ nextTab \in Nat /\ nextTab + 1 \in Nat
      /\ active \in 1 .. Len(tabs) /\ p \in PanesOf(tabs[active]) /\ p \in 1 .. n
      /\ StripSound(tabs, n, nextTab)
      /\ \A j \in 1 .. Len(tabs) : /\ tabs[j].id \in 1 .. (nextTab - 1)
                                   /\ j # active =>
                                        PanesOf(tabs[active]) \intersect PanesOf(tabs[j]) = {}
      /\ tabs[active] \in TabUpTo(n) /\ TabSound(tabs[active])
  <2>1. active > 0
    BY DEF BreakOut
  <2>2. n \in Nat /\ Len(tabs) \in Nat /\ nextTab \in Nat /\ nextTab + 1 \in Nat
    BY WindowInvIs
  <2>3. StripSound(tabs, n, nextTab)
    BY DEF WindowInv
  <2>4. \A j \in 1 .. Len(tabs) : tabs[j].id \in 1 .. (nextTab - 1)
    BY <2>3 DEF StripSound
  <2>5. p \in PanesOf(tabs[active]) /\ p \in 1 .. n
    BY <2>1, ActiveTab
  <2> HIDE DEF n, p
  <2> QED BY <2>1, <2>2, <2>3, <2>4, <2>5, ActiveTab DEF n
<1>2. Len(tabs[active].panes) >= 2
  <2>1. Len(tabs[active].panes) \in Nat
    BY <1>1, LenProperties DEF TabUpTo
  <2> QED BY <2>1 DEF BreakOut
<1>3. /\ tabs' = InsertAt(mid, active + 1, s) /\ active' = active + 1
      /\ nextTab' = nextTab + 1 /\ closeConfirm' = closeConfirm
      /\ kind' = kind /\ live' = live /\ dirty' = dirty /\ elsewhere' = elsewhere
  BY DEF BreakOut, panes
<1> HIDE DEF n, p
<1>4. /\ t \in TabUpTo(n) /\ TabSound(t) /\ t.id = tabs[active].id
      /\ PanesOf(t) = PanesOf(tabs[active]) \ {p}
  BY <1>1, <1>2, WithoutSound
<1>5. s \in TabUpTo(n) /\ TabSound(s) /\ PanesOf(s) = {p} /\ s.id = nextTab
  BY <1>1, SingleSound
<1> HIDE DEF t, s
<1>6. StandsFor(t, tabs, active)
  BY <1>1, <1>4 DEF StandsFor
<1>7. StripSound(mid, n, nextTab) /\ Replaced(mid, tabs, active, t)
  BY <1>1, <1>4, <1>6, StripReplaced
<1> HIDE DEF mid
<1>8. /\ Len(mid) = Len(tabs) /\ \A j \in 1 .. Len(mid) : mid[j] = IF j = active THEN t ELSE tabs[j]
      /\ ShownIn(mid) = (ShownIn(tabs) \ PanesOf(tabs[active])) \union PanesOf(t)
  BY <1>7 DEF Replaced
<1>9. StripSound(mid, n, nextTab + 1)
  <2>1. nextTab <= nextTab + 1 /\ n <= n
    BY <1>1
  <2> QED BY <1>1, <1>7, <2>1, StripGrows
<1>10. CanJoin(s, mid)
  <2> SUFFICES ASSUME NEW j \in 1 .. Len(mid) PROVE Apart(s, mid[j])
    BY <1>5 DEF CanJoin
  <2>1. CASE j = active
    BY <1>1, <1>4, <1>5, <1>8, <2>1 DEF Apart
  <2>2. CASE j # active
    BY <1>1, <1>5, <1>8, <2>2 DEF Apart
  <2> QED BY <2>1, <2>2
<1>11. active + 1 \in 1 .. (Len(mid) + 1) /\ s.id \in 1 .. ((nextTab + 1) - 1)
  <2>1. nextTab >= 1
    BY WindowInvIs
  <2> QED BY <1>1, <1>5, <1>8, <2>1
<1>12. /\ StripSound(tabs', n, nextTab + 1) /\ Len(tabs') = Len(mid) + 1
       /\ ShownIn(tabs') = ShownIn(mid) \union PanesOf(s)
  <2> DEFINE us == InsertAt(mid, active + 1, s)
             m == nextTab + 1
             i == active + 1
  <2>1. us = InsertAt(mid, i, s) /\ tabs' = us /\ i \in 1 .. (Len(mid) + 1)
    BY <1>3, <1>11
  <2>2. m \in Nat /\ StripSound(mid, n, m) /\ s.id \in 1 .. (m - 1)
    BY <1>1, <1>9, <1>11
  <2> HIDE DEF us, m, i
  <2>3. StripSound(us, n, m) /\ Joined(us, mid, s)
    BY <1>1, <1>5, <1>10, <2>1, <2>2, StripInserted
  <2> QED BY <2>1, <2>3 DEF Joined, m
<1>13. ActiveIn(tabs', active')
  BY <1>1, <1>3, <1>8, <1>12 DEF ActiveIn
<1>14. ShownIn(tabs) \subseteq ShownIn(tabs')
  BY <1>4, <1>5, <1>8, <1>12
<1>15. live' \union dirty' \union elsewhere' \subseteq 1 .. n
  BY <1>3 DEF WindowInv, n
<1>16. live' \union dirty' \subseteq ShownIn(tabs') \union elsewhere'
  BY <1>3, <1>14 DEF WindowInv
<1>17. closeConfirm' \in 0 .. n /\ kind' \in Seq(Kinds) /\ Len(kind') = n /\ Len(kind) <= n
       /\ nextTab <= nextTab + 1
  BY <1>1, <1>3 DEF WindowInv, n
<1> QED BY <1>1, <1>3, <1>12, <1>13, <1>15, <1>16, <1>17, StripChanges

-----------------------------------------------------------------------------
(* A tab moved to another place in the strip.                              *)

\* The strip us is ts with the tab at "from" put at "at"; f tells where each was.
Rearranged(us, ts, f, from, place) ==
    /\ Len(us) = Len(ts)
    /\ f \in [1 .. Len(us) -> 1 .. Len(ts)]
    /\ \A j \in 1 .. Len(us) : us[j] = ts[f[j]]
    /\ \A j \in 1 .. Len(ts) : \E k \in 1 .. Len(us) : f[k] = j
    /\ f[place] = from
    /\ \A j, k \in 1 .. Len(us) : f[j] = f[k] => j = k
    /\ \A j, k \in 1 .. Len(us) : j # place /\ k # place /\ j < k => f[j] < f[k]
    /\ \A a \in 1 .. Len(ts) :
          ActiveAfterMove(a, from, place) \in 1 .. Len(us) /\ f[ActiveAfterMove(a, from, place)] = a

LEMMA MoveIs ==
    ASSUME NEW n \in Nat, NEW ts \in Seq(TabUpTo(n)), NEW from \in 1 .. Len(ts),
           NEW place \in 1 .. Len(ts), NEW us, us = InsertAt(RemoveAt(ts, from), place, ts[from])
    PROVE  us \in Seq(TabUpTo(n)) /\ \E f : Rearranged(us, ts, f, from, place)
<1> DEFINE l == Len(ts)
           rest == RemoveAt(ts, from)
           f == [j \in 1 .. l |-> IF j = place THEN from
                                  ELSE IF j < place THEN IF j < from THEN j ELSE j + 1
                                  ELSE IF j - 1 < from THEN j - 1 ELSE j]
<1>1. l \in Nat /\ ts[from] \in TabUpTo(n)
  BY LenProperties
<1>2. /\ rest \in Seq(TabUpTo(n)) /\ Len(rest) = l - 1
      /\ \A j \in 1 .. (l - 1) : rest[j] = IF j < from THEN ts[j] ELSE ts[j + 1]
  BY TakenOut
<1>3. us = InsertAt(rest, place, ts[from])
  OBVIOUS
<1> HIDE DEF rest
<1>4. us \in Seq(TabUpTo(n)) /\ Inserted(us, rest, place, ts[from])
  <2>1. place \in 1 .. (Len(rest) + 1)
    BY <1>1, <1>2
  <2> QED BY <1>1, <1>2, <1>3, <2>1, PutIn
<1>5. Len(us) = l
  BY <1>1, <1>2, <1>4 DEF Inserted
<1>6. \A j \in 1 .. l :
         f[j] = IF j = place THEN from
                ELSE IF j < place THEN IF j < from THEN j ELSE j + 1
                ELSE IF j - 1 < from THEN j - 1 ELSE j
  OBVIOUS
<1>7. f \in [1 .. l -> 1 .. l]
  <2>1. \A j \in 1 .. l : f[j] \in 1 .. l
    BY <1>1
  <2> QED BY <2>1
<1> HIDE DEF f, l
<1>8. ASSUME NEW j \in 1 .. l PROVE us[j] = ts[f[j]]
  <2>1. us[j] = IF j < place THEN rest[j] ELSE IF j = place THEN ts[from] ELSE rest[j - 1]
    BY <1>1, <1>2, <1>4 DEF Inserted, l
  <2>2. CASE j = place
    BY <1>1, <1>6, <2>1, <2>2
  <2>3. CASE j < place
    <3>1. j \in 1 .. (l - 1)
      BY <1>1, <2>3 DEF l
    <3>2. us[j] = rest[j]
      BY <2>1, <2>3
    <3>3. f[j] = IF j < from THEN j ELSE j + 1
      BY <1>1, <1>6, <2>3
    <3> QED BY <1>2, <3>1, <3>2, <3>3
  <2>4. CASE j > place
    <3>1. j - 1 \in 1 .. (l - 1) /\ (j - 1) + 1 = j
      BY <1>1, <2>4 DEF l
    <3>2. us[j] = rest[j - 1]
      BY <1>1, <2>1, <2>4
    <3>3. f[j] = IF j - 1 < from THEN j - 1 ELSE j
      BY <1>1, <1>6, <2>4
    <3> QED BY <1>2, <3>1, <3>2, <3>3
  <2>5. j < place \/ j = place \/ j > place
    BY <1>1
  <2> QED BY <2>2, <2>3, <2>4, <2>5
<1>9. /\ \A j, k \in 1 .. l : f[j] = f[k] => j = k
      /\ \A j, k \in 1 .. l : j # place /\ k # place /\ j < k => f[j] < f[k]
      /\ f[place] = from /\ place \in 1 .. l /\ from \in 1 .. l
  BY <1>1, <1>6 DEF l
<1>10. \A a \in 1 .. l :
          ActiveAfterMove(a, from, place) \in 1 .. l /\ f[ActiveAfterMove(a, from, place)] = a
  <2> SUFFICES ASSUME NEW a \in 1 .. l
               PROVE  /\ ActiveAfterMove(a, from, place) \in 1 .. l
                      /\ f[ActiveAfterMove(a, from, place)] = a
    OBVIOUS
  <2>1. CASE a = from
    BY <1>9, <2>1 DEF ActiveAfterMove
  <2>2. CASE a # from
    <3> DEFINE s == Shifted(a, from)
    <3>1. s = IF from < a THEN a - 1 ELSE a
      BY DEF Shifted
    <3>2. s \in 1 .. (l - 1)
      BY <1>1, <1>9, <2>2, <3>1
    <3>3. ActiveAfterMove(a, from, place) = IF place <= s THEN s + 1 ELSE s
      BY <2>2, <3>2 DEF ActiveAfterMove
    <3> HIDE DEF s
    <3>4. CASE place <= s
      <4>1. s + 1 \in 1 .. l /\ s + 1 # place /\ ~(s + 1 < place) /\ (s + 1) - 1 = s
        BY <1>1, <1>9, <3>2, <3>4
      <4>2. f[s + 1] = IF s < from THEN s ELSE s + 1
        BY <1>6, <4>1
      <4>3. f[s + 1] = a
        BY <1>1, <1>9, <2>2, <3>1, <4>2
      <4> QED BY <3>3, <3>4, <4>1, <4>3
    <3>5. CASE ~(place <= s)
      <4>1. s \in 1 .. l /\ s # place /\ s < place
        BY <1>1, <1>9, <3>2, <3>5
      <4>2. f[s] = IF s < from THEN s ELSE s + 1
        BY <1>6, <4>1
      <4>3. f[s] = a
        BY <1>1, <1>9, <2>2, <3>1, <4>2
      <4> QED BY <3>3, <3>5, <4>1, <4>3
    <3> QED BY <3>4, <3>5
  <2> QED BY <2>1, <2>2
<1>11. \A j \in 1 .. l : \E k \in 1 .. l : f[k] = j
  BY <1>10
<1>12. Rearranged(us, ts, f, from, place)
  BY <1>5, <1>7, <1>8, <1>9, <1>10, <1>11 DEF Rearranged, l
<1> QED BY <1>4, <1>12

LEMMA StripMoved ==
    ASSUME NEW n \in Nat, NEW m \in Nat, NEW ts, StripSound(ts, n, m),
           NEW us \in Seq(TabUpTo(n)), NEW f, NEW from, NEW place,
           Rearranged(us, ts, f, from, place)
    PROVE  StripSound(us, n, m) /\ ShownIn(us) = ShownIn(ts) /\ Len(us) = Len(ts)
<1>1. /\ f \in [1 .. Len(us) -> 1 .. Len(ts)] /\ Len(us) = Len(ts)
      /\ \A j \in 1 .. Len(us) : us[j] = ts[f[j]]
      /\ \A j, k \in 1 .. Len(us) : f[j] = f[k] => j = k
      /\ \A j \in 1 .. Len(ts) : \E k \in 1 .. Len(us) : f[k] = j
  BY DEF Rearranged
<1>2. StripSound(us, n, m)
  <2>1. SomeOf(us, ts, f)
    BY <1>1 DEF SomeOf
  <2> QED BY <2>1, StripOfSome
<1>3. ASSUME NEW x \in ShownIn(us) PROVE x \in ShownIn(ts)
  <2>1. PICK j \in 1 .. Len(us) : x \in PanesOf(us[j])
    BY DEF ShownIn
  <2>2. f[j] \in 1 .. Len(ts) /\ us[j] = ts[f[j]]
    BY <1>1
  <2> QED BY <2>1, <2>2 DEF ShownIn
<1>4. ASSUME NEW x \in ShownIn(ts) PROVE x \in ShownIn(us)
  <2>1. PICK j \in 1 .. Len(ts) : x \in PanesOf(ts[j])
    BY DEF ShownIn
  <2>2. PICK k \in 1 .. Len(us) : f[k] = j
    BY <1>1
  <2> QED BY <1>1, <2>1, <2>2 DEF ShownIn
<1> QED BY <1>1, <1>2, <1>3, <1>4

LEMMA MoveTabKeeps ==
    ASSUME WindowInv, NEW from \in Indices, NEW to \in 1 .. (Len(tabs) + 1), MoveTab(from, to),
           kind' = kind, live' = live, dirty' = dirty, elsewhere' = elsewhere,
           nextTab' = nextTab, closeConfirm' = closeConfirm
    PROVE  WindowInv'
<1>1. /\ Len(kind) \in Nat /\ Len(tabs) \in Nat /\ nextTab \in Nat /\ Indices = 1 .. Len(tabs)
      /\ active \in 1 .. Len(tabs) /\ Opened = 1 .. Len(kind) /\ Shown = ShownIn(tabs)
  BY WindowInvIs
<1>2. CASE UNCHANGED strip
  <2>1. tabs' = tabs /\ active' = active
    BY <1>2 DEF strip
  <2> QED BY <1>1, <2>1, StripStays DEF WindowInv
<1>3. CASE ~(from = to \/ from + 1 = to)
  <2> DEFINE place == IF from < to THEN to - 1 ELSE to
             n == Len(kind)
  <2>1. place \in 1 .. Len(tabs)
    BY <1>1, <1>3
  <2>2. /\ tabs' = InsertAt(RemoveAt(tabs, from), place, tabs[from])
        /\ active' = ActiveAfterMove(active, from, place)
    BY <1>3 DEF MoveTab
  <2>3. n \in Nat /\ StripSound(tabs, n, nextTab) /\ tabs \in Seq(TabUpTo(n))
        /\ from \in 1 .. Len(tabs)
    BY <1>1 DEF WindowInv, StripSound
  <2> HIDE DEF place, n
  <2>4. tabs' \in Seq(TabUpTo(n)) /\ \E f : Rearranged(tabs', tabs, f, from, place)
    BY <2>1, <2>2, <2>3, MoveIs
  <2>5. PICK f : Rearranged(tabs', tabs, f, from, place)
    BY <2>4
  <2>6. StripSound(tabs', n, nextTab) /\ ShownIn(tabs') = ShownIn(tabs) /\ Len(tabs') = Len(tabs)
    BY <1>1, <2>3, <2>4, <2>5, StripMoved
  <2>7. ActiveIn(tabs', active')
    <3>1. active' \in 1 .. Len(tabs')
      BY <1>1, <2>2, <2>5 DEF Rearranged
    <3> QED BY <1>1, <2>6, <3>1 DEF ActiveIn
  <2>8. live' \union dirty' \union elsewhere' \subseteq 1 .. n
    BY DEF WindowInv, n
  <2>9. live' \union dirty' \subseteq ShownIn(tabs') \union elsewhere'
    BY <2>6 DEF WindowInv
  <2>10. kind' \in Seq(Kinds) /\ Len(kind') = n /\ Len(kind) <= n /\ nextTab <= nextTab
         /\ closeConfirm' \in 0 .. n
    BY <1>1 DEF WindowInv, n
  <2> QED BY <1>1, <2>3, <2>6, <2>7, <2>8, <2>9, <2>10, StripChanges
<1> QED BY <1>2, <1>3 DEF MoveTab

LEMMA DropKeeps == ASSUME WindowInv, Drop PROVE WindowInv'
<1>1. /\ kind' = kind /\ live' = live /\ dirty' = dirty /\ elsewhere' = elsewhere
      /\ nextTab' = nextTab /\ closeConfirm' = closeConfirm
  BY DEF Drop, panes
<1>2. CASE UNCHANGED strip
  <2>1. tabs' = tabs /\ active' = active
    BY <1>2 DEF strip
  <2>2. Opened = 1 .. Len(kind) /\ Shown = ShownIn(tabs)
    BY WindowInvIs
  <2> QED BY <1>1, <2>1, <2>2, StripStays DEF WindowInv
<1>3. CASE \E from \in Held(over), to \in 1 .. (Len(tabs) + 1) : MoveTab(from, to)
  <2>1. Held(over) \subseteq Indices
    BY DEF Held
  <2> QED BY <1>1, <1>3, <2>1, MoveTabKeeps
<1> QED BY <1>2, <1>3 DEF Drop

LEMMA AppendIsInsert ==
    ASSUME NEW S, NEW s \in Seq(S), NEW e \in S
    PROVE  Append(s, e) = InsertAt(s, Len(s) + 1, e)
<1> DEFINE r == InsertAt(s, Len(s) + 1, e)
           a == Append(s, e)
<1>1. Len(s) \in Nat /\ Len(s) + 1 \in 1 .. (Len(s) + 1)
  BY LenProperties
<1>2. r \in Seq(S) /\ Inserted(r, s, Len(s) + 1, e)
  BY <1>1, PutIn
<1>3. /\ a \in Seq(S) /\ Len(a) = Len(s) + 1
      /\ \A j \in 1 .. Len(s) : a[j] = s[j]
      /\ a[Len(s) + 1] = e
  BY AppendProperties
<1> HIDE DEF r, a
<1>4. Len(r) = Len(a) /\ \A j \in 1 .. Len(a) : r[j] = a[j]
  <2>1. Len(r) = Len(a)
    BY <1>2, <1>3 DEF Inserted
  <2>2. ASSUME NEW j \in 1 .. Len(a) PROVE r[j] = a[j]
    <3>1. r[j] = IF j < Len(s) + 1 THEN s[j] ELSE IF j = Len(s) + 1 THEN e ELSE s[j - 1]
      BY <1>2, <1>3 DEF Inserted
    <3>2. CASE j = Len(s) + 1
      BY <1>1, <1>3, <3>1, <3>2
    <3>3. CASE j \in 1 .. Len(s)
      BY <1>1, <1>3, <3>1, <3>3
    <3> QED BY <1>1, <1>3, <3>2, <3>3
  <2> QED BY <2>1, <2>2
<1>5. a = r
  BY <1>2, <1>3, <1>4, SeqEqual
<1> QED BY <1>5 DEF a, r

LEMMA AdoptAgainKeeps ==
    ASSUME WindowInv, NEW i \in Indices, AdoptAgain(i),
           kind' = kind, live' = live, dirty' = dirty,
           nextTab' = nextTab, closeConfirm' = closeConfirm
    PROVE  WindowInv'
<1> DEFINE n == Len(kind)
           rest == RemoveAt(tabs, i)
<1>1. /\ n \in Nat /\ Len(tabs) \in Nat /\ nextTab \in Nat /\ i \in 1 .. Len(tabs)
      /\ Len(tabs) \in 1 .. Len(tabs)
  BY WindowInvIs
<1>2. StripSound(tabs, n, nextTab) /\ tabs \in Seq(TabUpTo(n)) /\ tabs[i] \in TabUpTo(n)
  BY <1>1 DEF WindowInv, StripSound
<1>3. tabs' = Append(rest, tabs[i]) /\ active' = Len(tabs) /\ elsewhere' = elsewhere
  BY DEF AdoptAgain
<1>4. rest \in Seq(TabUpTo(n)) /\ Len(rest) = Len(tabs) - 1
  BY <1>1, <1>2, TakenOut
<1>5. tabs' = InsertAt(rest, Len(tabs), tabs[i])
  <2>1. Len(rest) + 1 = Len(tabs)
    BY <1>1, <1>4
  <2>2. Append(rest, tabs[i]) = InsertAt(rest, Len(rest) + 1, tabs[i])
    BY <1>2, <1>4, AppendIsInsert
  <2> QED BY <1>3, <2>1, <2>2
<1> HIDE DEF n
<1>6. tabs' \in Seq(TabUpTo(n)) /\ \E f : Rearranged(tabs', tabs, f, i, Len(tabs))
  BY <1>1, <1>2, <1>5, MoveIs
<1>7. StripSound(tabs', n, nextTab) /\ ShownIn(tabs') = ShownIn(tabs) /\ Len(tabs') = Len(tabs)
  BY <1>1, <1>2, <1>6, StripMoved
<1>8. ActiveIn(tabs', active')
  BY <1>1, <1>3, <1>7 DEF ActiveIn
<1>9. live' \union dirty' \union elsewhere' \subseteq 1 .. n
  BY <1>3 DEF WindowInv, n
<1>10. live' \union dirty' \subseteq ShownIn(tabs') \union elsewhere'
  BY <1>3, <1>7 DEF WindowInv
<1>11. kind' \in Seq(Kinds) /\ Len(kind') = n /\ Len(kind) <= n /\ nextTab <= nextTab
       /\ closeConfirm' \in 0 .. n
  BY <1>1 DEF WindowInv, n
<1> QED BY <1>1, <1>7, <1>8, <1>9, <1>10, <1>11, StripChanges
-----------------------------------------------------------------------------
(* Tabs closed from the menu of another.                                   *)

\* The tabs of "closing" went, at the command of the one at i; f tells where each of
\* the others was.
BulkLeft(closing, i, f) ==
    /\ closing \in SUBSET Indices /\ i \in Indices \ closing
    /\ \A o \in closing : ~HoldsUnsaved(o)
    /\ f \in [1 .. Len(tabs') -> Indices \ closing]
    /\ \A j \in 1 .. Len(tabs') : tabs'[j] = tabs[f[j]]
    /\ \A j, k \in 1 .. Len(tabs') : j < k => f[j] < f[k]
    /\ \A s \in Indices \ closing : \E j \in 1 .. Len(tabs') : f[j] = s
    /\ active' \in 1 .. Len(tabs')
    /\ f[active'] = IF active \in Indices \ closing THEN active ELSE i
    /\ live' = live \ UNION {PanesOf(tabs[o]) : o \in closing}
    /\ dirty' = dirty \ UNION {PanesOf(tabs[o]) : o \in closing}
    /\ kind' = kind /\ elsewhere' = elsewhere /\ closeConfirm' = closeConfirm

LEMMA BulkIs ==
    ASSUME WindowInv, NEW i \in Indices, Bulk(i)
    PROVE  /\ tabs' \in Seq(TabUpTo(Len(kind)))
           /\ \E closing, f : BulkLeft(closing, i, f)
<1> DEFINE n == Len(kind)
<1>1. PICK all \in {Indices \ {i}, {j \in Indices : j > i}} :
         BulkClose({j \in all : ~HoldsUnsaved(j)}, i) /\ UNCHANGED closeConfirm
  BY DEF Bulk
<1> DEFINE closing == {j \in all : ~HoldsUnsaved(j)}
           b == BulkClosed(closing, i)[Len(tabs)]
<1>2. /\ n \in Nat /\ Len(tabs) \in Nat /\ nextTab \in Nat /\ active \in Indices
      /\ Indices = 1 .. Len(tabs)
  BY WindowInvIs
<1>3. /\ closing \in SUBSET Indices /\ i \in Indices \ closing
      /\ \A o \in closing : ~HoldsUnsaved(o)
  BY <1>2
<1>4. /\ tabs' = b.tabs /\ active' = b.active
      /\ live' = live \ UNION {PanesOf(tabs[o]) : o \in closing}
      /\ dirty' = dirty \ UNION {PanesOf(tabs[o]) : o \in closing}
      /\ kind' = kind /\ elsewhere' = elsewhere /\ closeConfirm' = closeConfirm
  BY <1>1 DEF BulkClose, Retire
<1>5. StripSound(tabs, n, nextTab)
  BY DEF WindowInv
<1> HIDE DEF n, closing, b
<1>6. b.tabs \in Seq(TabUpTo(n)) /\ \E f : Follows(b, f, closing, i, Len(tabs))
  BY <1>2, <1>3, <1>5, BulkFollows DEF b
<1>7. PICK f : Follows(b, f, closing, i, Len(tabs))
  BY <1>6
<1>8. Standing(closing, Len(tabs)) = Indices \ closing
  BY <1>2 DEF Standing
<1>9. /\ f \in [1 .. Len(b.tabs) -> Indices \ closing]
      /\ \A j \in 1 .. Len(b.tabs) : b.tabs[j] = tabs[f[j]]
      /\ \A j, k \in 1 .. Len(b.tabs) : j < k => f[j] < f[k]
      /\ \A s \in Indices \ closing : \E j \in 1 .. Len(b.tabs) : f[j] = s
      /\ b.active \in 1 .. Len(b.tabs)
      /\ f[b.active] = IF active \in Indices \ closing THEN active ELSE i
  BY <1>7, <1>8 DEF Follows
<1>10. BulkLeft(closing, i, f)
  BY <1>3, <1>4, <1>9 DEF BulkLeft
<1> QED BY <1>4, <1>6, <1>10 DEF n

LEMMA BulkKeeps ==
    ASSUME WindowInv, NEW i \in Indices, Bulk(i), nextTab' = nextTab
    PROVE  WindowInv'
<1> DEFINE n == Len(kind)
<1>1. PICK closing, f : BulkLeft(closing, i, f)
  BY BulkIs
<1>2. /\ n \in Nat /\ Len(tabs) \in Nat /\ nextTab \in Nat /\ Indices = 1 .. Len(tabs)
  BY WindowInvIs
<1>3. StripSound(tabs, n, nextTab) /\ tabs' \in Seq(TabUpTo(n))
  BY BulkIs DEF WindowInv
<1>4. /\ live' = live \ UNION {PanesOf(tabs[o]) : o \in closing}
      /\ dirty' = dirty \ UNION {PanesOf(tabs[o]) : o \in closing}
      /\ kind' = kind /\ elsewhere' = elsewhere /\ closeConfirm' = closeConfirm
  BY <1>1 DEF BulkLeft
<1>5. /\ f \in [1 .. Len(tabs') -> Indices \ closing]
      /\ \A j \in 1 .. Len(tabs') : tabs'[j] = tabs[f[j]]
      /\ \A j, k \in 1 .. Len(tabs') : j < k => f[j] < f[k]
      /\ \A s \in Indices \ closing : \E j \in 1 .. Len(tabs') : f[j] = s
      /\ active' \in 1 .. Len(tabs')
  BY <1>1 DEF BulkLeft
<1> HIDE DEF n
<1>6. SomeOf(tabs', tabs, f)
  <2>1. f \in [1 .. Len(tabs') -> 1 .. Len(tabs)]
    BY <1>2, <1>5
  <2>2. \A j, k \in 1 .. Len(tabs') : f[j] = f[k] => j = k
    <3> SUFFICES ASSUME NEW j \in 1 .. Len(tabs'), NEW k \in 1 .. Len(tabs'), f[j] = f[k], j # k
                 PROVE  FALSE
      OBVIOUS
    <3>1. f[j] \in Int /\ f[k] \in Int
      BY <2>1, <1>2
    <3>2. j < k \/ k < j
      OBVIOUS
    <3> QED BY <1>5, <3>1, <3>2
  <2> QED BY <1>5, <2>1, <2>2 DEF SomeOf
<1>7. StripSound(tabs', n, nextTab)
  BY <1>2, <1>3, <1>6, StripOfSome
<1>8. ASSUME NEW x \in ShownIn(tabs), x \notin UNION {PanesOf(tabs[o]) : o \in closing}
      PROVE  x \in ShownIn(tabs')
  <2>1. PICK s \in Indices : x \in PanesOf(tabs[s])
    BY <1>2 DEF ShownIn
  <2>2. s \notin closing
    BY <1>8, <2>1
  <2>3. PICK j \in 1 .. Len(tabs') : f[j] = s
    BY <1>5, <2>2
  <2>4. tabs'[j] = tabs[s]
    BY <1>5, <2>3
  <2> QED BY <2>1, <2>3, <2>4 DEF ShownIn
<1>9. ActiveIn(tabs', active')
  <2>1. Len(tabs') \in Nat
    BY <1>3, LenProperties
  <2> QED BY <1>5, <2>1 DEF ActiveIn
<1>10. live' \union dirty' \union elsewhere' \subseteq 1 .. n
  BY <1>4 DEF WindowInv, n
<1>11. live' \union dirty' \subseteq ShownIn(tabs') \union elsewhere'
  BY <1>4, <1>8 DEF WindowInv
<1>12. kind' \in Seq(Kinds) /\ Len(kind') = n /\ Len(kind) <= n /\ nextTab <= nextTab
       /\ closeConfirm' \in 0 .. n
  BY <1>2, <1>4 DEF WindowInv, n
<1> QED BY <1>2, <1>7, <1>9, <1>10, <1>11, <1>12, StripChanges

-----------------------------------------------------------------------------
(* A tab merged into the active one.                                       *)

\* Changing one tab and taking out another is taking out the other first.
LEMMA ChangedThenTaken ==
    ASSUME NEW S, NEW ts \in Seq(S), NEW t \in S, NEW a \in 1 .. Len(ts), NEW i \in 1 .. Len(ts),
           i # a, NEW rest, rest = RemoveAt(ts, i),
           NEW changed, changed = [ts EXCEPT ![a] = t]
    PROVE  RemoveAt(changed, i) = [rest EXCEPT ![Shifted(a, i)] = t]
<1> DEFINE k == Shifted(a, i)
           l == Len(ts)
           r == RemoveAt(changed, i)
           q == [rest EXCEPT ![k] = t]
<1>1. l \in Nat /\ k = (IF i < a THEN a - 1 ELSE a) /\ k \in 1 .. (l - 1)
  BY LenProperties DEF Shifted
<1>2. /\ changed \in Seq(S) /\ Len(changed) = l
      /\ \A j \in 1 .. l : changed[j] = IF j = a THEN t ELSE ts[j]
  BY ExceptSeq
<1>3. /\ rest \in Seq(S) /\ Len(rest) = l - 1
      /\ \A j \in 1 .. (l - 1) : rest[j] = IF j < i THEN ts[j] ELSE ts[j + 1]
  BY TakenOut
<1>4. /\ r \in Seq(S) /\ Len(r) = l - 1
      /\ \A j \in 1 .. (l - 1) : r[j] = IF j < i THEN changed[j] ELSE changed[j + 1]
  <2>1. i \in 1 .. Len(changed) /\ changed \in Seq(S)
    BY <1>2
  <2>2. /\ r \in Seq(S) /\ Len(r) = Len(changed) - 1
        /\ \A j \in 1 .. (Len(changed) - 1) :
              r[j] = IF j < i THEN changed[j] ELSE changed[j + 1]
    BY ONLY <2>1, TakenOut
  <2>3. Len(changed) = l
    BY <1>2
  <2> HIDE DEF l, r
  <2> QED BY ONLY <2>2, <2>3
<1> HIDE DEF k
<1>5. /\ q \in Seq(S) /\ Len(q) = l - 1
      /\ \A j \in 1 .. (l - 1) : q[j] = IF j = k THEN t ELSE rest[j]
  BY <1>1, <1>3, ExceptSeq
<1> HIDE DEF l, r, q
<1>6. ASSUME NEW j \in 1 .. (l - 1) PROVE r[j] = q[j]
  <2>1. CASE j < i
    <3>1. r[j] = changed[j] /\ rest[j] = ts[j] /\ j \in 1 .. l
      BY <1>1, <1>3, <1>4, <2>1
    <3>2. j = k <=> j = a
      BY <1>1, <2>1 DEF l
    <3> QED BY <1>2, <1>5, <3>1, <3>2
  <2>2. CASE ~(j < i)
    <3>1. r[j] = changed[j + 1] /\ rest[j] = ts[j + 1] /\ j + 1 \in 1 .. l
      BY <1>1, <1>3, <1>4, <2>2
    <3>2. j = k <=> j + 1 = a
      BY <1>1, <2>2 DEF l
    <3> QED BY <1>2, <1>5, <3>1, <3>2
  <2> QED BY <2>1, <2>2
<1>7. r = q
  BY <1>1, <1>4, <1>5, <1>6, SeqEqual
<1> QED BY <1>7 DEF r, q, k

\* The panes and the order of one tab after those of another.
Distinct(a, b) ==
    IsInjective(a) /\ IsInjective(b) /\ ToSet(a) \intersect ToSet(b) = {}

Both(c, a, b) == IsInjective(c) /\ ToSet(c) = ToSet(a) \union ToSet(b)

LEMMA OneAfterOther ==
    ASSUME NEW n \in Nat, NEW a \in Seq(1 .. n), NEW b \in Seq(1 .. n), Distinct(a, b)
    PROVE  a \o b \in Seq(1 .. n) /\ Both(a \o b, a, b)
<1> DEFINE c == a \o b
<1>0. IsInjective(a) /\ IsInjective(b) /\ ToSet(a) \intersect ToSet(b) = {}
  BY DEF Distinct
<1>1. Len(a) \in Nat /\ Len(b) \in Nat
  BY LenProperties
<1>2. /\ c \in Seq(1 .. n) /\ Len(c) = Len(a) + Len(b)
      /\ \A j \in 1 .. (Len(a) + Len(b)) : c[j] = IF j <= Len(a) THEN a[j] ELSE b[j - Len(a)]
  BY ConcatProperties
<1> HIDE DEF c
<1>3. /\ ToSet(a) = {a[j] : j \in 1 .. Len(a)} /\ ToSet(b) = {b[j] : j \in 1 .. Len(b)}
      /\ ToSet(c) = {c[j] : j \in 1 .. Len(c)}
  <2>1. ToSet(a) = {a[j] : j \in 1 .. Len(a)}
    BY ONLY a \in Seq(1 .. n), EntriesOf
  <2>2. ToSet(b) = {b[j] : j \in 1 .. Len(b)}
    BY ONLY b \in Seq(1 .. n), EntriesOf
  <2>3. ToSet(c) = {c[j] : j \in 1 .. Len(c)}
    <3>1. c \in Seq(1 .. n)
      BY <1>2
    <3> QED BY ONLY <3>1, EntriesOf
  <2> QED BY <2>1, <2>2, <2>3
<1>4. /\ \A i, j \in 1 .. Len(a) : a[i] = a[j] => i = j
      /\ \A i, j \in 1 .. Len(b) : b[i] = b[j] => i = j
  BY <1>0, Injective
<1>5. \A i \in 1 .. Len(a), j \in 1 .. Len(b) : a[i] # b[j]
  BY <1>0, <1>3
<1>6. ASSUME NEW i \in 1 .. Len(c), NEW j \in 1 .. Len(c), c[i] = c[j] PROVE i = j
  <2>1. CASE i <= Len(a) /\ j <= Len(a)
    <3>1. i \in 1 .. Len(a) /\ j \in 1 .. Len(a) /\ a[i] = a[j]
      BY <1>1, <1>2, <1>6, <2>1
    <3> QED BY <1>4, <3>1
  <2>2. CASE ~(i <= Len(a)) /\ ~(j <= Len(a))
    <3>1. i - Len(a) \in 1 .. Len(b) /\ j - Len(a) \in 1 .. Len(b)
      BY <1>1, <1>2, <2>2
    <3>2. b[i - Len(a)] = b[j - Len(a)]
      BY <1>2, <1>6, <2>2
    <3>3. i - Len(a) = j - Len(a)
      BY <1>4, <3>1, <3>2
    <3> QED BY <1>1, <3>3
  <2>3. CASE i <= Len(a) /\ ~(j <= Len(a))
    <3>1. i \in 1 .. Len(a) /\ j - Len(a) \in 1 .. Len(b)
      BY <1>1, <1>2, <2>3
    <3>2. a[i] = b[j - Len(a)]
      BY <1>2, <1>6, <2>3
    <3> QED BY <1>5, <3>1, <3>2
  <2>4. CASE ~(i <= Len(a)) /\ j <= Len(a)
    <3>1. j \in 1 .. Len(a) /\ i - Len(a) \in 1 .. Len(b)
      BY <1>1, <1>2, <2>4
    <3>2. a[j] = b[i - Len(a)]
      BY <1>2, <1>6, <2>4
    <3> QED BY <1>5, <3>1, <3>2
  <2> QED BY <2>1, <2>2, <2>3, <2>4
<1>7. IsInjective(c)
  BY <1>2, <1>6, Injective
<1>8. ASSUME NEW x \in ToSet(c) PROVE x \in ToSet(a) \union ToSet(b)
  <2>1. PICK j \in 1 .. Len(c) : x = c[j]
    BY <1>3
  <2>2. CASE j <= Len(a)
    <3>1. j \in 1 .. Len(a) /\ x = a[j]
      BY <1>1, <1>2, <2>1, <2>2
    <3> QED BY <1>3, <3>1
  <2>3. CASE ~(j <= Len(a))
    <3>1. j - Len(a) \in 1 .. Len(b) /\ x = b[j - Len(a)]
      BY <1>1, <1>2, <2>1, <2>3
    <3> QED BY <1>3, <3>1
  <2> QED BY <2>2, <2>3
<1>9. ASSUME NEW x \in ToSet(a) PROVE x \in ToSet(c)
  <2>1. PICK j \in 1 .. Len(a) : x = a[j]
    BY <1>3
  <2>2. j \in 1 .. Len(c) /\ c[j] = x
    BY <1>1, <1>2, <2>1
  <2> QED BY <1>3, <2>2
<1>10. ASSUME NEW x \in ToSet(b) PROVE x \in ToSet(c)
  <2>1. PICK j \in 1 .. Len(b) : x = b[j]
    BY <1>3
  <2>2. /\ j + Len(a) \in 1 .. Len(c) /\ ~(j + Len(a) <= Len(a))
        /\ (j + Len(a)) - Len(a) = j
    BY <1>1, <1>2
  <2>3. c[j + Len(a)] = x
    BY <1>2, <2>1, <2>2
  <2> QED BY <1>3, <2>2, <2>3
<1>11. ToSet(c) = ToSet(a) \union ToSet(b)
  BY <1>8, <1>9, <1>10
<1>12. c \in Seq(1 .. n) /\ Both(c, a, b)
  BY <1>2, <1>7, <1>11 DEF Both
<1> QED BY <1>12 DEF c

\* The tab merged into, with the focus where the other one had it.
MergedInto(t, u) ==
    Focus([t EXCEPT !.panes = Beside(t, u.panes), !.order = @ \o u.order], u.active)

LEMMA MergedSound ==
    ASSUME NEW n \in Nat, NEW t \in TabUpTo(n), NEW u \in TabUpTo(n), TabSound(t), TabSound(u),
           PanesOf(t) \intersect PanesOf(u) = {}
    PROVE  /\ MergedInto(t, u) \in TabUpTo(n) /\ TabSound(MergedInto(t, u))
           /\ PanesOf(MergedInto(t, u)) = PanesOf(t) \union PanesOf(u)
           /\ MergedInto(t, u).id = t.id
<1> DEFINE ps == Beside(t, u.panes)
           os == t.order \o u.order
           mid == [t EXCEPT !.panes = ps, !.order = os]
<1>1. /\ u.panes \in Seq(1 .. n) /\ IsInjective(u.panes) /\ ToSet(u.panes) = PanesOf(u)
      /\ u.order \in Seq(1 .. n) /\ IsInjective(u.order) /\ ToSet(u.order) \subseteq PanesOf(u)
      /\ t.order \in Seq(1 .. n) /\ IsInjective(t.order) /\ ToSet(t.order) \subseteq PanesOf(t)
  BY DEF TabUpTo, TabSound, PanesSound, PanesOf
<1>2. ToSet(u.panes) \intersect PanesOf(t) = {} /\ ToSet(t.order) \intersect ToSet(u.order) = {}
  BY <1>1
<1>3. ps \in Seq(1 .. n) /\ IsInjective(ps) /\ ToSet(ps) = PanesOf(t) \union PanesOf(u)
  <2> DEFINE new == u.panes
  <2>1. new \in Seq(1 .. n) /\ IsInjective(new) /\ ToSet(new) = PanesOf(u)
    BY <1>1
  <2>2. ToSet(new) \intersect PanesOf(t) = {} /\ ps = Beside(t, new)
    BY <1>2
  <2> HIDE DEF new, ps
  <2>3. /\ Beside(t, new) \in Seq(1 .. n) /\ IsInjective(Beside(t, new))
        /\ ToSet(Beside(t, new)) = PanesOf(t) \union ToSet(new)
    BY <2>1, <2>2, BesideIs
  <2> QED BY <2>1, <2>2, <2>3
<1>4. os \in Seq(1 .. n) /\ Both(os, t.order, u.order)
  BY <1>1, <1>2, OneAfterOther DEF Distinct
<1> HIDE DEF ps, os
<1>5. mid \in TabUpTo(n) /\ mid.panes = ps /\ mid.order = os /\ mid.id = t.id
  BY <1>3, <1>4 DEF TabUpTo
<1>6. MergedInto(t, u) = Focus(mid, u.active)
  BY DEF MergedInto, ps, os
<1> HIDE DEF mid
<1>7. PanesSound(mid) /\ PanesOf(mid) = PanesOf(t) \union PanesOf(u)
  BY <1>1, <1>3, <1>4, <1>5 DEF Both, PanesSound, PanesOf
<1>8. u.active \in PanesOf(mid)
  BY <1>7, ActiveInTab
<1>9. /\ Focus(mid, u.active) \in TabUpTo(n) /\ TabSound(Focus(mid, u.active))
      /\ PanesOf(Focus(mid, u.active)) = PanesOf(mid) /\ Focus(mid, u.active).id = mid.id
  BY <1>5, <1>7, <1>8, FocusSound
<1> QED BY <1>5, <1>6, <1>7, <1>9

LEMMA MergeKeeps ==
    ASSUME WindowInv, NEW i \in Indices, Merge(i), nextTab' = nextTab, closeConfirm' = closeConfirm
    PROVE  WindowInv'
<1> DEFINE n == Len(kind)
           u == tabs[i]
           t == MergedInto(tabs[active], u)
           changed == [tabs EXCEPT ![active] = t]
           rest == RemoveAt(tabs, i)
           k == Shifted(active, i)
<1>1. /\ i # active /\ tabs' = RemoveAt(changed, i) /\ active' = k
      /\ kind' = kind /\ live' = live /\ dirty' = dirty /\ elsewhere' = elsewhere
  BY DEF Merge, MergedInto, panes
<1>2. /\ n \in Nat /\ Len(tabs) \in Nat /\ nextTab \in Nat /\ i \in 1 .. Len(tabs)
      /\ active \in 1 .. Len(tabs) /\ StripSound(tabs, n, nextTab) /\ tabs \in Seq(TabUpTo(n))
  BY WindowInvIs DEF WindowInv, StripSound
<1>3. /\ u \in TabUpTo(n) /\ TabSound(u) /\ tabs[active] \in TabUpTo(n) /\ TabSound(tabs[active])
      /\ PanesOf(tabs[active]) \intersect PanesOf(u) = {}
  <2>1. u \in TabUpTo(n) /\ tabs[active] \in TabUpTo(n)
    <3> HIDE DEF n
    <3> QED BY <1>2
  <2>2. TabSound(u) /\ TabSound(tabs[active])
    BY <1>2 DEF StripSound
  <2>3. Apart(tabs[active], u)
    BY <1>1, <1>2 DEF StripSound
  <2> QED BY <2>1, <2>2, <2>3 DEF Apart
<1>4. /\ t \in TabUpTo(n) /\ TabSound(t) /\ t.id = tabs[active].id
      /\ PanesOf(t) = PanesOf(tabs[active]) \union PanesOf(u)
  BY <1>2, <1>3, MergedSound
<1>5. k \in 1 .. (Len(tabs) - 1) /\ k = IF i < active THEN active - 1 ELSE active
  BY <1>1, <1>2 DEF Shifted
<1> HIDE DEF n, t
<1>6. RemoveAt(changed, i) = [rest EXCEPT ![k] = t]
  BY <1>1, <1>2, <1>4, ChangedThenTaken
<1> HIDE DEF changed, k
<1>7. /\ Len(rest) = Len(tabs) - 1
      /\ \A j \in 1 .. (Len(tabs) - 1) : rest[j] = IF j < i THEN tabs[j] ELSE tabs[j + 1]
  BY <1>2, TakenOut
<1>8. StripSound(rest, n, nextTab) /\ ShownIn(rest) = ShownIn(tabs) \ PanesOf(u)
  <2>1. rest = RemoveAt(tabs, i)
    OBVIOUS
  <2> HIDE DEF rest, u
  <2>2. StripSound(rest, n, nextTab)
    BY <1>2, <2>1, StripWithout
  <2>3. ShownIn(rest) = ShownIn(tabs) \ PanesOf(tabs[i])
    BY <1>2, <2>1, StripWithout
  <2> QED BY <2>2, <2>3 DEF u
<1> HIDE DEF rest
<1>9. StandsFor(t, rest, k)
  <2>1. rest[k] = tabs[active]
    BY <1>1, <1>2, <1>5, <1>7
  <2>2. ASSUME NEW j \in 1 .. Len(rest), j # k PROVE PanesOf(t) \intersect PanesOf(rest[j]) = {}
    <3>1. PICK s \in 1 .. Len(tabs) : rest[j] = tabs[s] /\ s # i /\ s # active
      <4>1. CASE j < i
        BY <1>1, <1>2, <1>5, <1>7, <2>2, <4>1
      <4>2. CASE ~(j < i)
        <5>1. j + 1 \in 1 .. Len(tabs) /\ j + 1 # i /\ j + 1 # active /\ rest[j] = tabs[j + 1]
          BY <1>1, <1>2, <1>5, <1>7, <2>2, <4>2
        <5> QED BY <5>1
      <4> QED BY <4>1, <4>2
    <3>2. Apart(tabs[s], tabs[i]) /\ Apart(tabs[s], tabs[active])
      BY <1>2, <3>1 DEF StripSound
    <3> QED BY <1>4, <3>1, <3>2 DEF Apart
  <2> QED BY <1>4, <2>1, <2>2 DEF StandsFor
<1>10. StripSound(tabs', n, nextTab) /\ Replaced(tabs', rest, k, t)
  <2>1. k \in 1 .. Len(rest) /\ tabs' = [rest EXCEPT ![k] = t]
    BY <1>1, <1>5, <1>6, <1>7
  <2> QED BY <1>2, <1>4, <1>8, <1>9, <2>1, StripReplaced
<1>11. ShownIn(tabs') = ShownIn(tabs)
  <2>1. rest[k] = tabs[active]
    BY <1>1, <1>2, <1>5, <1>7
  <2>2. ShownIn(tabs') = (ShownIn(rest) \ PanesOf(tabs[active])) \union PanesOf(t)
    BY <1>10, <2>1 DEF Replaced
  <2>3. PanesOf(tabs[active]) \subseteq ShownIn(tabs) /\ PanesOf(u) \subseteq ShownIn(tabs)
    BY <1>2 DEF ShownIn
  <2> QED BY <1>4, <1>8, <2>2, <2>3
<1>12. ActiveIn(tabs', active')
  BY <1>1, <1>2, <1>5, <1>7, <1>10 DEF ActiveIn, Replaced
<1>13. live' \union dirty' \union elsewhere' \subseteq 1 .. n
  BY <1>1 DEF WindowInv, n
<1>14. live' \union dirty' \subseteq ShownIn(tabs') \union elsewhere'
  BY <1>1, <1>11 DEF WindowInv
<1>15. kind' \in Seq(Kinds) /\ Len(kind') = n /\ Len(kind) <= n /\ nextTab <= nextTab
       /\ closeConfirm' \in 0 .. n
  BY <1>1, <1>2 DEF WindowInv, n
<1> QED BY <1>2, <1>10, <1>12, <1>13, <1>14, <1>15, StripChanges

LEMMA MenuCommandKeeps == ASSUME WindowInv, MenuCommand PROVE WindowInv'
<1>1. menu.index \in Indices
  BY DEF MenuCommand
<1>2. CASE CloseTab(menu.index) /\ UNCHANGED nextTab
  BY <1>1, <1>2, CloseTabKeeps
<1>3. CASE Bulk(menu.index) /\ UNCHANGED nextTab
  BY <1>1, <1>3, BulkKeeps
<1>4. CASE Merge(menu.index) /\ UNCHANGED <<closeConfirm, nextTab>>
  BY <1>1, <1>4, MergeKeeps
<1>5. CASE MoveOut(menu.index) /\ UNCHANGED <<closeConfirm, nextTab>>
  BY <1>1, <1>5, DetachKeeps, AdoptAgainKeeps DEF MoveOut
<1>6. CASE Duplicate(menu.index) /\ UNCHANGED closeConfirm
  BY <1>1, <1>6, DuplicateKeeps
<1> QED BY <1>2, <1>3, <1>4, <1>5, <1>6 DEF MenuCommand

LEMMA WindowStep == ASSUME WindowInv, [Next]_vars PROVE WindowInv'
<1>1. CASE UNCHANGED vars
  BY <1>1, WindowSame
<1>2. CASE OpenSession \/ OpenWithTail \/ OpenEditor
  BY <1>2, OpenSessionKeeps, OpenWithTailKeeps, OpenEditorKeeps
<1>3. CASE ShowEditor \/ DuplicateSplit \/ FocusPane \/ BreakOut
  BY <1>3, ShowEditorKeeps, DuplicateSplitKeeps, FocusPaneKeeps, BreakOutKeeps
<1>4. CASE Drop \/ CloseFromStrip \/ ClosePane \/ Answer \/ SessionEnds
  BY <1>4, DropKeeps, CloseFromStripKeeps, ClosePaneKeeps, AnswerKeeps, SessionEndsKeeps
<1>5. CASE \/ SelectTab \/ PickUp \/ DragOver \/ EndTabDrag \/ TailEnds \/ ReconnectSession
           \/ Edit \/ OpenMenu \/ CloseMenu
  BY <1>5, IdleStepsKeep
<1>6. CASE MenuCommand
  BY <1>6, MenuCommandKeeps
<1> QED BY <1>1, <1>2, <1>3, <1>4, <1>5, <1>6 DEF Next

LEMMA WindowInvIsSound == WindowInv => WindowSound
<1> SUFFICES ASSUME WindowInv PROVE WindowSound
  OBVIOUS
<1>1. /\ Len(kind) \in Nat /\ Len(tabs) \in Nat /\ nextTab \in Nat /\ nextTab >= 1
      /\ Indices = 1 .. Len(tabs) /\ Opened = 1 .. Len(kind) /\ Shown = ShownIn(tabs)
      /\ StripSound(tabs, Len(kind), nextTab)
  BY WindowInvIs DEF WindowInv
<1>2. TypeOK
  <2>1. \A i \in Indices : tabs[i] \in Tab
    <3> SUFFICES ASSUME NEW i \in Indices PROVE tabs[i] \in Tab
      OBVIOUS
    <3>1. tabs[i] \in TabUpTo(Len(kind)) /\ tabs[i].id \in 1 .. nextTab
      BY <1>1, WindowInvIs
    <3> QED BY <1>1, <3>1 DEF TabUpTo, Tab
  <2>2. active \in 0 .. Len(tabs) /\ (active = 0 <=> tabs = << >>)
    <3>1. tabs = << >> <=> Len(tabs) = 0
      BY <1>1, EmptySeq DEF StripSound
    <3> QED BY <3>1 DEF WindowInv, ActiveIn
  <2>3. kind \in Seq({"terminal", "editor", "tail"})
    BY DEF WindowInv, Kinds
  <2>4. live \union dirty \union elsewhere \subseteq Opened /\ closeConfirm \in 0 .. Len(kind)
    BY <1>1 DEF WindowInv
  <2> QED BY <2>1, <2>2, <2>3, <2>4 DEF TypeOK
<1>3. TabsSound
  <2>1. \A i, j \in Indices : i # j => Apart(tabs[i], tabs[j])
    BY <1>1 DEF StripSound
  <2>2. \A i \in Indices : TabSound(tabs[i])
    BY <1>1 DEF StripSound
  <2> QED BY <2>1, <2>2 DEF TabsSound, Apart, TabSound, PanesSound
<1>4. NothingLeftBehind
  BY <1>1 DEF WindowInv, NothingLeftBehind
<1> QED BY <1>2, <1>3, <1>4 DEF WindowSound

\* In every reachable state of a window the invariant of its strip holds.
THEOREM WindowInvariant == Spec => []WindowInv
  BY WindowStarts, WindowStep, PTL DEF Spec

\* Whatever was opened, split, merged, broken out, dragged, moved or closed, each pane
\* is in one place of one tab, the focus has somewhere to go, and nothing that is
\* connected or unsaved is outside every window (tab_model.rs, tabs.rs).
THEOREM WindowIsSound == Spec => []WindowSound
  BY WindowInvariant, WindowInvIsSound, PTL
-----------------------------------------------------------------------------
(* What is left of the other tabs.                                         *)

LEMMA IdsOf ==
    ASSUME NEW us, NEW x
    PROVE  x \in ToSet(Ids(us)) <=> \E j \in 1 .. Len(us) : us[j].id = x
  BY DEF ToSet, Ids

\* The tab that is active goes on being it, if it is still there.
StaysActive ==
    \A i \in Indices : i = active /\ tabs[i].id \in ToSet(Ids(tabs')) =>
        tabs'[active'].id = tabs[i].id

LEMMA StripSameStays == ASSUME UNCHANGED strip PROVE StaysActive
  BY DEF StaysActive, strip

\* Each tab of the strip is one there was: a tab that went does not come back.
LEMMA WhoeverIsThere ==
    ASSUME WindowInv, active \in Indices, NEW f, \A j \in 1 .. Len(tabs') : f[j] \in Indices,
           \A j \in 1 .. Len(tabs') : tabs'[j].id = tabs[f[j]].id,
           \/ f[active'] = active /\ active' \in 1 .. Len(tabs')
           \/ \A j \in 1 .. Len(tabs') : f[j] # active
    PROVE  StaysActive
<1>1. CASE f[active'] = active /\ active' \in 1 .. Len(tabs')
  BY <1>1 DEF StaysActive
<1>2. CASE \A j \in 1 .. Len(tabs') : f[j] # active
  <2>1. \A j \in 1 .. Len(tabs') : tabs'[j].id # tabs[active].id
    <3> SUFFICES ASSUME NEW j \in 1 .. Len(tabs') PROVE tabs'[j].id # tabs[active].id
      OBVIOUS
    <3>1. f[j] \in Indices /\ f[j] # active /\ tabs'[j].id = tabs[f[j]].id
      BY <1>2
    <3>2. Apart(tabs[f[j]], tabs[active])
      BY <3>1, WindowInvIs
    <3> QED BY <3>1, <3>2 DEF Apart
  <2>2. tabs[active].id \notin ToSet(Ids(tabs'))
    BY <2>1, IdsOf
  <2> QED BY <2>2 DEF StaysActive
<1> QED BY <1>1, <1>2

LEMMA CloseTabNowStays ==
    ASSUME WindowInv, NEW i \in Indices, CloseTabNow(i) PROVE StaysActive
<1> DEFINE l == Len(tabs)
           f == [j \in 1 .. Len(tabs') |-> IF j < i THEN j ELSE j + 1]
<1>1. l \in Nat /\ Indices = 1 .. l /\ active \in 1 .. l /\ StripSound(tabs, Len(kind), nextTab)
  BY WindowInvIs DEF WindowInv
<1>2. /\ Len(tabs') = l - 1
      /\ \A j \in 1 .. (l - 1) : tabs'[j] = IF j < i THEN tabs[j] ELSE tabs[j + 1]
  <2>1. tabs \in Seq(TabUpTo(Len(kind))) /\ i \in 1 .. Len(tabs) /\ tabs' = RemoveAt(tabs, i)
    BY <1>1 DEF StripSound, CloseTabNow
  <2> QED BY <2>1, TakenOut
<1>3. active' = IF Shifted(active, i) > l - 1 THEN l - 1 ELSE Shifted(active, i)
  BY DEF CloseTabNow
<1>4. Shifted(active, i) = IF i < active THEN active - 1 ELSE active
  BY DEF Shifted
<1>5. \A j \in 1 .. Len(tabs') : f[j] = IF j < i THEN j ELSE j + 1
  OBVIOUS
<1> HIDE DEF l, f
<1>6. \A j \in 1 .. Len(tabs') : f[j] \in Indices /\ f[j] # i /\ tabs'[j].id = tabs[f[j]].id
  BY <1>1, <1>2, <1>5
<1>7. CASE active = i
  BY <1>1, <1>6, <1>7, WhoeverIsThere
<1>8. CASE active # i
  <2>1. active' \in 1 .. (l - 1) /\ f[active'] = active
    <3>1. Shifted(active, i) \in 1 .. (l - 1)
      BY <1>1, <1>4, <1>8
    <3>2. active' = Shifted(active, i)
      BY <1>1, <1>3, <3>1
    <3>3. f[active'] = IF active' < i THEN active' ELSE active' + 1
      BY <1>2, <1>5, <3>1, <3>2
    <3> QED BY <1>1, <1>4, <1>8, <3>1, <3>2, <3>3
  <2> QED BY <1>1, <1>2, <1>6, <2>1, WhoeverIsThere
<1> QED BY <1>7, <1>8

LEMMA RemovePaneStays ==
    ASSUME WindowInv, NEW i \in Indices, NEW p \in PanesOf(tabs[i]), RemovePane(i, p)
    PROVE  StaysActive
<1>1. CASE Len(tabs[i].panes) < 2
  BY <1>1, CloseTabNowStays DEF RemovePane
<1>2. CASE ~(Len(tabs[i].panes) < 2)
  <2> DEFINE t == WithoutPane(tabs[i], p)
  <2>1. tabs[i] \in TabUpTo(Len(kind)) /\ TabSound(tabs[i]) /\ Len(kind) \in Nat
    BY WindowInvIs
  <2>2. Len(tabs[i].panes) >= 2
    <3>1. Len(tabs[i].panes) \in Nat
      BY <2>1, LenProperties DEF TabUpTo
    <3> QED BY <1>2, <3>1
  <2>3. t \in TabUpTo(Len(kind)) /\ t.id = tabs[i].id
    BY <2>1, <2>2, WithoutSound
  <2>4. tabs' = [tabs EXCEPT ![i] = t] /\ active' = active
    BY <1>2 DEF RemovePane
  <2> HIDE DEF t
  <2>5. tabs \in Seq(TabUpTo(Len(kind))) /\ Indices = 1 .. Len(tabs) /\ active \in Indices
    BY WindowInvIs DEF WindowInv, StripSound
  <2>6. tabs'[active].id = tabs[active].id
    BY <2>3, <2>4, <2>5, ExceptSeq
  <2> QED BY <2>4, <2>6 DEF StaysActive
<1> QED BY <1>1, <1>2

LEMMA MoveTabStays ==
    ASSUME WindowInv, NEW from \in Indices, NEW to \in 1 .. (Len(tabs) + 1), MoveTab(from, to)
    PROVE  /\ StaysActive
           /\ \/ UNCHANGED tabs
              \/ /\ tabs' \in Seq(TabUpTo(Len(kind)))
                 /\ \E f, place : Rearranged(tabs', tabs, f, from, place)
<1>1. Len(tabs) \in Nat /\ active \in 1 .. Len(tabs) /\ Indices = 1 .. Len(tabs)
  BY WindowInvIs
<1>2. CASE UNCHANGED strip
  BY <1>2, StripSameStays DEF strip
<1>3. CASE ~(from = to \/ from + 1 = to)
  <2> DEFINE place == IF from < to THEN to - 1 ELSE to
             n == Len(kind)
  <2>1. place \in 1 .. Len(tabs)
    BY <1>1, <1>3
  <2>2. /\ tabs' = InsertAt(RemoveAt(tabs, from), place, tabs[from])
        /\ active' = ActiveAfterMove(active, from, place)
    BY <1>3 DEF MoveTab
  <2>3. n \in Nat /\ tabs \in Seq(TabUpTo(n)) /\ from \in 1 .. Len(tabs)
    BY <1>1, WindowInvIs DEF WindowInv, StripSound
  <2> HIDE DEF place, n
  <2>4. tabs' \in Seq(TabUpTo(n)) /\ \E f : Rearranged(tabs', tabs, f, from, place)
    BY <2>1, <2>2, <2>3, MoveIs
  <2>5. PICK f : Rearranged(tabs', tabs, f, from, place)
    BY <2>4
  <2>6. /\ \A j \in 1 .. Len(tabs') : f[j] \in Indices /\ tabs'[j].id = tabs[f[j]].id
        /\ active' \in 1 .. Len(tabs') /\ f[active'] = active
    BY <1>1, <2>2, <2>5 DEF Rearranged
  <2>7. StaysActive
    BY <1>1, <2>6, WhoeverIsThere
  <2> QED BY <2>4, <2>5, <2>7 DEF n
<1> QED BY <1>2, <1>3 DEF MoveTab

LEMMA BulkStays ==
    ASSUME WindowInv, NEW i \in Indices, Bulk(i) PROVE StaysActive /\ dirty' = dirty
<1>1. PICK closing, f : BulkLeft(closing, i, f)
  BY BulkIs
<1>2. active \in Indices
  BY WindowInvIs
<1>3. /\ \A j \in 1 .. Len(tabs') : f[j] \in Indices \ closing /\ tabs'[j].id = tabs[f[j]].id
      /\ active' \in 1 .. Len(tabs')
      /\ f[active'] = IF active \in Indices \ closing THEN active ELSE i
  BY <1>1 DEF BulkLeft
<1>4. StaysActive
  <2>1. CASE active \in closing
    BY <1>2, <1>3, <2>1, WhoeverIsThere
  <2>2. CASE active \notin closing
    BY <1>2, <1>3, <2>2, WhoeverIsThere
  <2> QED BY <2>1, <2>2
<1>5. dirty' = dirty
  <2>1. /\ \A o \in closing : ~HoldsUnsaved(o)
        /\ dirty' = dirty \ UNION {PanesOf(tabs[o]) : o \in closing}
    BY <1>1 DEF BulkLeft
  <2>2. \A o \in closing : PanesOf(tabs[o]) \intersect dirty = {}
    BY <2>1 DEF HoldsUnsaved
  <2> QED BY <2>1, <2>2
<1> QED BY <1>4, <1>5

LEMMA CloseTabStays == ASSUME WindowInv, NEW i \in Indices, CloseTab(i) PROVE StaysActive
  BY CloseTabNowStays, StripSameStays DEF CloseTab

LEMMA ActiveStaysAlways == ASSUME WindowInv PROVE ActiveStays
<1>1. CASE SessionEnds
  <2>1. PICK i \in Indices : \E p \in PanesOf(tabs[i]) : RemovePane(i, p)
    BY <1>1 DEF SessionEnds
  <2> QED BY <2>1, RemovePaneStays DEF ActiveStays, StaysActive
<1>2. CASE CloseFromStrip
  <2>1. PICK i \in Indices : CloseTab(i)
    BY <1>2 DEF CloseFromStrip
  <2> QED BY <2>1, CloseTabStays DEF ActiveStays, StaysActive
<1>3. CASE Answer
  <2>1. StaysActive
    <3>1. CASE UNCHANGED <<strip, panes>>
      BY <3>1, StripSameStays
    <3>2. CASE \E i \in Indices : closeConfirm \in PanesOf(tabs[i]) /\ RemovePane(i, closeConfirm)
      BY <3>2, RemovePaneStays
    <3> QED BY <1>3, <3>1, <3>2 DEF Answer
  <2> QED BY <2>1 DEF ActiveStays, StaysActive
<1>4. CASE Drop
  <2>1. StaysActive
    <3>1. CASE UNCHANGED strip
      BY <3>1, StripSameStays
    <3>2. CASE \E from \in Held(over), to \in 1 .. (Len(tabs) + 1) : MoveTab(from, to)
      <4>1. Held(over) \subseteq Indices
        BY DEF Held
      <4> QED BY <3>2, <4>1, MoveTabStays
    <3> QED BY <1>4, <3>1, <3>2 DEF Drop
  <2> QED BY <2>1 DEF ActiveStays, StaysActive
<1>5. CASE menu.index \in Indices /\ Bulk(menu.index)
  BY <1>5, BulkStays DEF ActiveStays, StaysActive
<1> QED BY <1>1, <1>2, <1>3, <1>4, <1>5 DEF ActiveStays

LEMMA OrderOfTheOthers ==
    ASSUME NEW us, NEW ts, NEW f, NEW from \in 1 .. Len(ts), NEW place, Len(ts) \in Nat,
           Rearranged(us, ts, f, from, place),
           NEW t, NEW u, t # ts[from], u # ts[from]
    PROVE  InFrontOf(ts, t, u) <=> InFrontOf(us, t, u)
<1>1. /\ Len(us) = Len(ts) /\ \A j \in 1 .. Len(us) : f[j] \in 1 .. Len(ts) /\ us[j] = ts[f[j]]
      /\ \A j \in 1 .. Len(ts) : \E k \in 1 .. Len(us) : f[k] = j
      /\ f[place] = from
      /\ \A j, k \in 1 .. Len(us) : j # place /\ k # place /\ j < k => f[j] < f[k]
  BY DEF Rearranged
<1>2. ASSUME InFrontOf(ts, t, u) PROVE InFrontOf(us, t, u)
  <2>1. PICK i \in 1 .. Len(ts), j \in 1 .. Len(ts) : i < j /\ ts[i] = t /\ ts[j] = u
    BY <1>2 DEF InFrontOf
  <2>2. PICK a \in 1 .. Len(us) : f[a] = i
    BY <1>1
  <2>3. PICK b \in 1 .. Len(us) : f[b] = j
    BY <1>1
  <2>4. a # place /\ b # place
    BY <1>1, <2>1, <2>2, <2>3
  <2>5. a < b
    <3>1. ~(b < a)
      <4>1. b < a => j < i
        BY <1>1, <2>2, <2>3, <2>4
      <4>2. i \in Nat /\ j \in Nat
        OBVIOUS
      <4> QED BY <2>1, <4>1, <4>2
    <3>2. a # b
      BY <2>1, <2>2, <2>3
    <3> QED BY <3>1, <3>2
  <2>6. us[a] = t /\ us[b] = u
    BY <1>1, <2>1, <2>2, <2>3
  <2> QED BY <2>5, <2>6 DEF InFrontOf
<1>3. ASSUME InFrontOf(us, t, u) PROVE InFrontOf(ts, t, u)
  <2>1. PICK a \in 1 .. Len(us), b \in 1 .. Len(us) : a < b /\ us[a] = t /\ us[b] = u
    BY <1>3 DEF InFrontOf
  <2>2. a # place /\ b # place /\ f[a] \in 1 .. Len(ts) /\ f[b] \in 1 .. Len(ts)
    BY <1>1, <2>1
  <2>3. f[a] < f[b] /\ ts[f[a]] = t /\ ts[f[b]] = u
    BY <1>1, <2>1, <2>2
  <2> QED BY <2>2, <2>3 DEF InFrontOf
<1> QED BY <1>2, <1>3

LEMMA DropMovesHeldAlways == ASSUME WindowInv PROVE DropMovesHeld
<1> SUFFICES ASSUME Drop
             PROVE  /\ ToSet(tabs') = ToSet(tabs)
                    /\ \A t, u \in {t \in ToSet(tabs) : t.id # over.id} :
                          InFrontOf(tabs, t, u) <=> InFrontOf(tabs', t, u)
  BY Zenon DEF DropMovesHeld
<1>1. CASE tabs' = tabs
  BY <1>1
<1>2. CASE tabs' # tabs
  <2>1. PICK from \in Held(over), to \in 1 .. (Len(tabs) + 1) : MoveTab(from, to)
    BY <1>2 DEF Drop, strip
  <2>2. from \in Indices /\ tabs[from].id = over.id
    BY DEF Held
  <2>3. /\ tabs' \in Seq(TabUpTo(Len(kind)))
        /\ \E f, place : Rearranged(tabs', tabs, f, from, place)
    BY <1>2, <2>1, <2>2, MoveTabStays
  <2>a. PICK f, place : Rearranged(tabs', tabs, f, from, place)
    BY <2>3
  <2>4. Len(tabs) \in Nat /\ Indices = 1 .. Len(tabs) /\ tabs \in Seq(TabUpTo(Len(kind)))
    BY WindowInvIs DEF WindowInv, StripSound
  <2>5. ASSUME NEW t \in ToSet(tabs), NEW u \in ToSet(tabs), t.id # over.id, u.id # over.id
        PROVE  InFrontOf(tabs, t, u) <=> InFrontOf(tabs', t, u)
    <3>1. t # tabs[from] /\ u # tabs[from]
      BY <2>2, <2>5
    <3> QED BY <2>2, <2>a, <2>4, <3>1, OrderOfTheOthers
  <2>6. ToSet(tabs') = ToSet(tabs)
    <3>1. /\ ToSet(tabs') = {tabs'[j] : j \in 1 .. Len(tabs')}
          /\ ToSet(tabs) = {tabs[j] : j \in 1 .. Len(tabs)}
      BY <2>3, <2>4, EntriesOf
    <3>2. \A j \in 1 .. Len(tabs') : f[j] \in 1 .. Len(tabs) /\ tabs'[j] = tabs[f[j]]
      BY <2>a DEF Rearranged
    <3>3. \A j \in 1 .. Len(tabs) : \E k \in 1 .. Len(tabs') : tabs'[k] = tabs[j]
      BY <2>a DEF Rearranged
    <3> QED BY <3>1, <3>2, <3>3
  <2> QED BY <2>5, <2>6
<1> QED BY <1>1, <1>2

LEMMA OthersStayStep ==
    ASSUME WindowInv PROVE ActiveStays /\ DropMovesHeld /\ BulkKeepsUnsaved
<1>1. BulkKeepsUnsaved
  BY BulkStays DEF BulkKeepsUnsaved
<1> QED BY <1>1, ActiveStaysAlways, DropMovesHeldAlways

\* The user keeps the tab he is in, a drop moves the tab that was held and no other,
\* and a bulk close takes no unsaved file, whatever closed in between
\* (active_after_close, move_tab, drop_tab, close_other_tabs).
THEOREM OthersAreLeft == Spec => OthersStay
<1>1. WindowInv => [ActiveStays /\ DropMovesHeld /\ BulkKeepsUnsaved]_vars
  BY OthersStayStep
<1> QED BY <1>1, WindowInvariant, PTL DEF OthersStay
=============================================================================
