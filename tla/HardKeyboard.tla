---------------------------- MODULE HardKeyboard ----------------------------
(***************************************************************************)
(* The input method for hardware keyboards (HardKeyboard.java) with its    *)
(* automaton, and the editor it types into.  The input method keeps its    *)
(* own idea of the text being composed, mComposing; the editor marks that  *)
(* text, the span, and reports every change of its cursor or of the span.  *)
(* A report takes its time: more keys may be typed before it is handled.   *)
(***************************************************************************)
EXTENDS HangulAutomata

CONSTANTS
  Letters,         \* the letters of the two-set layout that are typed
  MaxReports       \* bound on the reports under way when a key is typed

ASSUME KeyboardAssumption ==
  /\ Letters \subseteq TypedLetter
  /\ MaxReports \in Nat

VARIABLES
  automata,
  mComposing,      \* the characters being composed, as the input method sees it
  hangulMode,
  span,            \* the text the editor has marked as being composed
  reports          \* FIFO: is the cursor at the end of the span?

vars == <<automata, mComposing, hangulMode, span, reports>>

Init ==
  /\ automata = Reset
  /\ mComposing = << >>
  /\ hangulMode \in BOOLEAN
  /\ span = << >>
  /\ reports = << >>

\* A letter that composes nothing.
Latin == Jamo(97)

Typed == Len(reports) < MaxReports

Shown(char) == IF char = NoChar THEN << >> ELSE <<char>>

\* The editor replaces the span by a text, and marks the text that follows it.
EditorShows(composing) ==
  /\ span' = composing
  /\ reports' = Append(reports, composing # << >>)

\* handleCharacter in hangulMode, for a letter: what is complete is committed, in the
\* place of the span, and the working character alone is composed on.
TypeHangul(code) ==
  /\ Typed
  /\ hangulMode
  /\ automata' = AppendLetter(automata, code).automata
  /\ mComposing' = Shown(automata'.working)
  /\ EditorShows(mComposing')
  /\ UNCHANGED hangulMode

\* handleCharacter for anything else: in hangulMode saveUnknownCharacter completes what is
\* composed; both modes commit in the place of the span.
TypeDigit ==
  /\ Typed
  /\ automata' = IF hangulMode THEN Reset ELSE automata
  /\ mComposing' = IF hangulMode THEN << >> ELSE mComposing
  /\ EditorShows(<< >>)
  /\ UNCHANGED hangulMode

\* handleCharacter for a letter otherwise: it is shown as being composed and then
\* committed, in the place of the span, and stays in mComposing.
TypeLatin ==
  /\ Typed
  /\ ~hangulMode
  /\ mComposing' = Append(mComposing, Latin)
  /\ EditorShows(<< >>)
  /\ UNCHANGED <<automata, hangulMode>>

\* onKey with a word separator: commitTyped, then the separator itself.
TypeSeparator ==
  /\ Typed
  /\ mComposing' = << >>
  /\ automata' = IF hangulMode /\ mComposing # << >> THEN Reset ELSE automata
  /\ EditorShows(<< >>)
  /\ UNCHANGED hangulMode

\* onKeyDown leaves ENTER and SPACE to the application, which writes behind the span.
TypeSpace ==
  /\ Typed
  /\ automata' = IF hangulMode THEN Reset ELSE automata
  /\ reports' = Append(reports, FALSE)
  /\ UNCHANGED <<mComposing, hangulMode, span>>

\* handleBackspace, of several characters.
DeleteLast ==
  /\ Typed
  /\ Len(mComposing) > 1
  /\ automata' = IF hangulMode THEN deleteCharacter(automata) ELSE automata
  /\ mComposing' = SubSeq(mComposing, 1, Len(mComposing) - 1)
                     \o (IF hangulMode THEN Shown(automata'.working) ELSE << >>)
  /\ EditorShows(mComposing')
  /\ UNCHANGED hangulMode

\* handleBackspace, of the only character: a syllable goes as a whole.
DeleteOnly ==
  /\ Typed
  /\ Len(mComposing) = 1
  /\ automata' = IF hangulMode THEN Reset ELSE automata
  /\ mComposing' = << >>
  /\ EditorShows(<< >>)
  /\ UNCHANGED hangulMode

switchLanguage ==
  /\ Typed
  /\ automata' = Reset
  /\ hangulMode' = ~hangulMode
  /\ UNCHANGED <<mComposing, span, reports>>

\* BACK with the input view shown, and onFinishInputView.
HideView ==
  /\ automata' = Reset
  /\ UNCHANGED <<mComposing, hangulMode, span, reports>>

\* onFinishInput and onStartInput, for another editor.
SwitchEditor ==
  /\ automata' = Reset
  /\ mComposing' = << >>
  /\ span' = << >>
  /\ reports' = << >>
  /\ UNCHANGED hangulMode

\* mutant: the composition is dropped here, but not in the editor
onUpdateSelectionKeepsSpan ==
  /\ reports # << >>
  /\ IF mComposing # << >> /\ ~Head(reports)
       THEN /\ mComposing' = << >>
            /\ automata' = IF hangulMode THEN Reset ELSE automata
       ELSE UNCHANGED <<mComposing, automata>>
  /\ reports' = Tail(reports)
  /\ UNCHANGED <<hangulMode, span>>

\* A cursor that is not behind the span ends the composition.
onUpdateSelection ==
  /\ reports # << >>
  /\ IF mComposing # << >> /\ ~Head(reports)
       THEN /\ mComposing' = << >>
            /\ span' = << >>
            /\ automata' = IF hangulMode THEN Reset ELSE automata
            /\ reports' = Tail(reports) \o (IF span # << >> THEN <<FALSE>> ELSE << >>)
       ELSE /\ reports' = Tail(reports)
            /\ UNCHANGED <<mComposing, span, automata>>
  /\ UNCHANGED hangulMode

Next ==
  \/ \E code \in Letters : TypeHangul(code)
  \/ TypeDigit \/ TypeLatin \/ TypeSeparator \/ TypeSpace
  \/ DeleteLast \/ DeleteOnly
  \/ switchLanguage
  \/ HideView
  \/ SwitchEditor
  \/ onUpdateSelection

Spec == Init /\ [][Next]_vars

------------------------------------------------------------------------------
(* Properties *)

Character ==
  [cho : Consonant \cup {None, 97}, jung : PREF_JUNG \cup {None}, jong : PREF_JONG \cup {None}]

\* In every state the automaton can reach its buffer has the letters the state says,
\* so that no character is computed from the index of a letter that is not there.
KeyboardTypeOK ==
  /\ IsAutomaton(automata)
  /\ mComposing \in Seq(Character)
  /\ hangulMode \in BOOLEAN
  /\ span \in Seq(Character)
  /\ reports \in Seq(BOOLEAN)

\* onUpdateSelection brings the two ideas of the text being composed together, however
\* many keys were typed before it ran: when no report is under way, the editor marks
\* what the input method believes it composes, and what the automaton works on.
EditorAgrees ==
  reports = << >> =>
    /\ span = mComposing
    /\ automata.working # NoChar => span = <<automata.working>>

\* deleteCharacter undoes appendCharacter, for any letter that completed nothing.
DeleteUndoesAppend ==
  \A code \in Letters :
    LET r == AppendLetter(automata, code)
    IN  r.completed = NoChar => deleteCharacter(r.automata) = automata

\* The keys a composition stands for, the hidden final consonant included.
Keys(a) == decode(makeHangul(a.buffer)) \o (IF HiddenFinal(a) THEN <<a.buffer.jong>> ELSE << >>)

\* Every letter typed is in what is completed or in what is composed, in its place,
\* wherever the automaton moves it; the one exception is a final consonant that can
\* end no syllable, when another consonant follows.
LettersKept ==
  \A code \in Letters :
    LET r == AppendLetter(automata, code)
    IN  ~(HiddenFinal(automata) /\ code \in PREF_CHO) =>
          decode(r.completed) \o Keys(r.automata) = Append(Keys(automata), code)

\* The characters that differ from one in one part.
Neighbours(char) ==
  {[char EXCEPT !.cho = c] : c \in Consonant} \cup {[char EXCEPT !.jung = v] : v \in PREF_JUNG}
    \cup {[char EXCEPT !.jong = c] : c \in PREF_JONG}

\* A character of Unicode: a syllable or a lone letter.
IsCharacter(char) ==
  \/ char.cho \in PREF_CHO /\ char.jung \in PREF_JUNG /\ char.jong \in PREF_JONG \cup {None}
  \/ char.cho \in Consonant /\ char.jung = None /\ char.jong = None
  \/ char.cho = None /\ char.jung \in PREF_JUNG /\ char.jong = None

\* The automaton completes a character only when it must: as long as there is a
\* character for the letters typed so far and the next one, it composes that.
ComposesWhatItCan ==
  \A code \in Letters :
    (\E char \in Neighbours(automata.working) :
       IsCharacter(char) /\ decode(char) = Append(Keys(automata), code))
    => LET r == AppendLetter(automata, code)
       IN  r.completed = NoChar /\ decode(r.automata.working) = Append(Keys(automata), code)
==============================================================================
