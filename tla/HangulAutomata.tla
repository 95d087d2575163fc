--------------------------- MODULE HangulAutomata ---------------------------
(***************************************************************************)
(* The composition automaton of the Hangul input method                    *)
(* (HangulAutomata.java): letters typed on a two-set keyboard become       *)
(* syllables of an initial consonant (cho), a vowel (jung) and an optional *)
(* final consonant (jong).  The object is a record, and each method a      *)
(* function of it.                                                         *)
(*                                                                         *)
(* A character is the record of the parts one sees in it: a syllable has   *)
(* cho, jung and perhaps jong, a lone letter one part, and -1 stands for   *)
(* no part, as in mHangulCharBuffer.                                       *)
(***************************************************************************)
EXTENDS Integers, Sequences

None == -1

NoChar == [cho |-> None, jung |-> None, jong |-> None]

PREF_CHO  == {12593, 12594, 12596, 12599, 12600, 12601, 12609, 12610, 12611} \cup 12613 .. 12622
PREF_JUNG == 12623 .. 12643
PREF_JONG == (12593 .. 12622) \ {12600, 12611, 12617}

\* What the keys of the two-set layout give: no final cluster, and none of the
\* vowels that are composed of two.
TypedLetter == PREF_CHO \cup (PREF_JUNG \ {12632, 12633, 12634, 12637, 12638, 12639, 12642})

\* <<first, second, both>>: the final consonants and the vowels made of two letters.
JongseongPair ==
  { <<12593, 12613, 12595>>, <<12596, 12616, 12597>>, <<12596, 12622, 12598>>,
    <<12601, 12593, 12602>>, <<12601, 12609, 12603>>, <<12601, 12610, 12604>>,
    <<12601, 12613, 12605>>, <<12601, 12620, 12606>>, <<12601, 12621, 12607>>,
    <<12601, 12622, 12608>>, <<12610, 12613, 12612>> }

JungseongPair ==
  { <<12631, 12623, 12632>>, <<12631, 12624, 12633>>, <<12631, 12643, 12634>>,
    <<12636, 12627, 12637>>, <<12636, 12628, 12638>>, <<12636, 12643, 12639>>,
    <<12641, 12643, 12642>> }

Composed(pairs, v1, v2) ==
  IF \E p \in pairs : p[1] = v1 /\ p[2] = v2
    THEN (CHOOSE p \in pairs : p[1] = v1 /\ p[2] = v2)[3]
    ELSE None

getJongseongPair(v1, v2) == Composed(JongseongPair, v1, v2)
getJungseongPair(v1, v2) == Composed(JungseongPair, v1, v2)

isJongseongPair(v) == \E p \in JongseongPair : p[3] = v
isJungseongPair(v) == \E p \in JungseongPair : p[3] = v

resolveJongseongPair(v) == CHOOSE p \in JongseongPair : p[3] = v
resolveJungseongPair(v) == CHOOSE p \in JungseongPair : p[3] = v

\* A letter by itself.
Jamo(code) ==
  IF code \in PREF_JUNG THEN [NoChar EXCEPT !.jung = code] ELSE [NoChar EXCEPT !.cho = code]

\* A final consonant that is not in PREF_JONG gets the index 0, which is none.
makeHangul(buffer) ==
  [buffer EXCEPT !.jong = IF @ \in PREF_JONG THEN @ ELSE None]

\* The keys a part of a character stands for.
LettersOf(pairs, code) ==
  CASE code = None                  -> << >>
    [] \E p \in pairs : p[3] = code -> LET p == CHOOSE p \in pairs : p[3] = code
                                       IN  <<p[1], p[2]>>
    [] OTHER                        -> <<code>>

\* What the keys were that a character was composed of.
decode(char) ==
  LettersOf(JongseongPair, char.cho) \o LettersOf(JungseongPair, char.jung)
    \o LettersOf(JongseongPair, char.jong)

------------------------------------------------------------------------------
(* The automaton *)

\* reset()
Reset == [state |-> "NONE", buffer |-> NoChar, working |-> NoChar]

\* The automaton a call leaves behind, and the completed character it returns.
Done(state, buffer, working, completed) ==
  [automata |-> [state |-> state, buffer |-> buffer, working |-> working],
   completed |-> completed]

\* mutant: a syllable ends at a composed vowel
AfterDiphthongEnds == "FINISH2"

\* The state a consonant after a composed vowel leads to: whatever it is, it is taken
\* for a final one.
AfterDiphthong == "JONG1"

\* The state an initial or final consonant leads to.
AfterJaeum(a, code) ==
  CASE a.state = "NONE"  -> "CHO1"
    [] a.state = "CHO1"  -> IF getJongseongPair(a.buffer.cho, code) # None
                              THEN "CHO2" ELSE "FINISH1"
    [] a.state = "JUNG1" -> IF code \in {12611, 12617} THEN "FINISH2" ELSE "JONG1"
    [] a.state = "JUNG2" -> AfterDiphthong
    [] a.state = "JONG1" -> IF getJongseongPair(a.buffer.jong, code) # None
                              THEN "JONG2" ELSE "FINISH1"
    [] a.state \in {"CHO2", "JONG2"} -> "FINISH1"

\* The state a vowel leads to.
AfterMoeum(a, code) ==
  CASE a.state \in {"NONE", "CHO1", "CHO2"} -> "JUNG1"
    [] a.state = "JUNG1" -> IF getJungseongPair(a.buffer.jung, code) # None
                              THEN "JUNG2" ELSE "FINISH3"
    [] a.state = "JUNG2" -> "FINISH3"
    [] a.state \in {"JONG1", "JONG2"} -> "FINISH4"

\* A vowel takes the second letter of a cluster for its initial consonant.
SaveJung1(buffer, code) ==
  LET b == [buffer EXCEPT !.jung = code]
      p == resolveJongseongPair(b.cho)
  IN  CASE b.cho = None            -> Done("JUNG1", b, Jamo(code), NoChar)
        [] isJongseongPair(b.cho)  -> LET c == [b EXCEPT !.cho = p[2]]
                                      IN  Done("JUNG1", c, makeHangul(c), Jamo(p[1]))
        [] OTHER                   -> Done("JUNG1", b, makeHangul(b), NoChar)

\* mutant: a consonant after a lone vowel is taken for a final one
SaveJongAlways(state, buffer, jong) ==
  LET b == [buffer EXCEPT !.jong = jong]
  IN  Done(state, b, makeHangul(b), NoChar)

\* A final consonant (state "JONG1" or "JONG2"), which after a lone vowel starts a
\* new character instead.
SaveJong(state, buffer, jong) ==
  LET b == [buffer EXCEPT !.jong = jong]
  IN  IF b.cho # None /\ b.jung # None
        THEN Done(state, b, makeHangul(b), NoChar)
        ELSE Done(IF state = "JONG1" THEN "CHO1" ELSE "CHO2",
                  [NoChar EXCEPT !.cho = jong], Jamo(jong), Jamo(b.jung))

\* mutant: the first letter of a cluster moves to the vowel
SaveFinish4MovesFirst(buffer, code) ==
  LET p    == resolveJongseongPair(buffer.jong)
      stay == IF isJongseongPair(buffer.jong) THEN p[2] ELSE None
      move == IF isJongseongPair(buffer.jong) THEN p[1] ELSE buffer.jong
      next == [cho |-> move, jung |-> code, jong |-> None]
  IN  Done("JUNG1", next, makeHangul(next), makeHangul([buffer EXCEPT !.jong = stay]))

\* A vowel after a final consonant takes it, or the second letter of a cluster, away.
SaveFinish4(buffer, code) ==
  LET p    == resolveJongseongPair(buffer.jong)
      stay == IF isJongseongPair(buffer.jong) THEN p[1] ELSE None
      move == IF isJongseongPair(buffer.jong) THEN p[2] ELSE buffer.jong
      next == [cho |-> move, jung |-> code, jong |-> None]
  IN  Done("JUNG1", next, makeHangul(next),
           IF stay # None /\ (buffer.cho = None \/ buffer.jung = None)
             THEN Jamo(stay) ELSE makeHangul([buffer EXCEPT !.jong = stay]))

saveCharacter(state, b, code) ==
  CASE state = "CHO1"    -> Done("CHO1", [b EXCEPT !.cho = code], Jamo(code), NoChar)
    [] state = "CHO2"    -> LET both == getJongseongPair(b.cho, code)
                            IN  Done("CHO2", [b EXCEPT !.cho = both], Jamo(both), NoChar)
    [] state = "JUNG1"   -> SaveJung1(b, code)
    [] state = "JUNG2"   -> LET c == [b EXCEPT !.jung = getJungseongPair(b.jung, code)]
                            IN  Done("JUNG2", c, IF b.cho # None THEN makeHangul(c)
                                                                 ELSE Jamo(c.jung), NoChar)
    [] state = "JONG1"   -> SaveJong("JONG1", b, code)
    [] state = "JONG2"   -> SaveJong("JONG2", b, getJongseongPair(b.jong, code))
    [] state = "FINISH1" -> Done("CHO1", [NoChar EXCEPT !.cho = code], Jamo(code),
                                 IF b.jung # None THEN makeHangul(b) ELSE Jamo(b.cho))
    [] state = "FINISH2" -> Done("CHO1", [NoChar EXCEPT !.cho = code], Jamo(code),
                                 IF b.cho # None /\ b.jung # None THEN makeHangul(b)
                                                                  ELSE Jamo(b.jung))
    [] state = "FINISH3" -> Done("JUNG1", [NoChar EXCEPT !.jung = code], Jamo(code),
                                 IF b.cho = None THEN Jamo(b.jung) ELSE makeHangul(b))
    [] state = "FINISH4" -> SaveFinish4(b, code)

\* appendCharacter for a letter of the layout: ret[1] is completed, ret[2] the working
\* character of the automaton it leaves behind.
AppendLetter(a, code) ==
  saveCharacter(IF code \in PREF_CHO THEN AfterJaeum(a, code) ELSE AfterMoeum(a, code),
                a.buffer, code)

\* The first letter of what is composed of two.
FirstLetter(pairs, v) ==
  IF \E p \in pairs : p[3] = v THEN (CHOOSE p \in pairs : p[3] = v)[1] ELSE None

\* mutant: a composed vowel is forgotten
StateOfVowelIsJung1(jung) == "JUNG1"

\* The state a syllable without a final consonant is in.
StateOfVowel(jung) == IF isJungseongPair(jung) THEN "JUNG2" ELSE "JUNG1"

\* deleteCharacter(): the last part loses its second letter, or goes.
deleteCharacter(a) ==
  LET b    == a.buffer
      cho  == IF a.state = "CHO2"  THEN FirstLetter(JongseongPair, b.cho)  ELSE None
      jung == IF a.state = "JUNG2" THEN FirstLetter(JungseongPair, b.jung) ELSE None
      jong == IF a.state = "JONG2" THEN FirstLetter(JongseongPair, b.jong) ELSE None
      Back(state, buffer, working) == [state |-> state, buffer |-> buffer, working |-> working]
  IN
    CASE a.state \in {"CHO1", "CHO2"} ->
           Back(IF cho # None THEN "CHO1" ELSE "NONE", [b EXCEPT !.cho = cho], Jamo(cho))
      [] a.state \in {"JUNG1", "JUNG2"} /\ jung = None ->
           Back(IF b.cho # None THEN "CHO1" ELSE "NONE", [b EXCEPT !.jung = None], Jamo(b.cho))
      [] a.state \in {"JUNG1", "JUNG2"} /\ jung # None ->
           Back("JUNG1", [b EXCEPT !.jung = jung],
                IF b.cho # None THEN makeHangul([b EXCEPT !.jung = jung]) ELSE Jamo(jung))
      [] a.state \in {"JONG1", "JONG2"} ->
           Back(IF jong # None THEN "JONG1" ELSE StateOfVowel(b.jung),
                [b EXCEPT !.jong = jong], makeHangul([b EXCEPT !.jong = jong]))
      [] a.state = "NONE" -> a

------------------------------------------------------------------------------
(* What the automaton may look like *)

Cluster     == {p[3] : p \in JongseongPair}
Diphthong   == {p[3] : p \in JungseongPair}
SimpleVowel == PREF_JUNG \ Diphthong
Consonant   == PREF_CHO \cup Cluster

\* The letters each state has in its buffer.
Shape(state, b) ==
  \/ state = "NONE"  /\ b = NoChar
  \/ state = "CHO1"  /\ b \in [cho : PREF_CHO, jung : {None}, jong : {None}]
  \/ state = "CHO2"  /\ b \in [cho : Cluster, jung : {None}, jong : {None}]
  \/ state = "JUNG1" /\ b \in [cho : PREF_CHO \cup {None}, jung : SimpleVowel, jong : {None}]
  \/ state = "JUNG2" /\ b \in [cho : PREF_CHO \cup {None}, jung : Diphthong, jong : {None}]
  \/ state = "JONG1" /\ b \in [cho : PREF_CHO, jung : PREF_JUNG, jong : PREF_CHO]
                     /\ (b.jung \in SimpleVowel => b.jong \notin {12611, 12617})
  \/ state = "JONG2" /\ b \in [cho : PREF_CHO, jung : PREF_JUNG, jong : Cluster]

\* The character shown is the syllable in the buffer, or its lone letter: never one
\* that makeHangul computed from the index -1 of a missing part.
IsAutomaton(a) ==
  /\ a = [state |-> a.state, buffer |-> a.buffer, working |-> a.working]
  /\ Shape(a.state, a.buffer)
  /\ a.working = makeHangul(a.buffer)

\* A consonant that can end no syllable stays in the buffer as a final one all the
\* same; makeHangul shows the syllable without it.
HiddenFinal(a) == a.buffer.jong # None /\ a.buffer.jong \notin PREF_JONG
==============================================================================
