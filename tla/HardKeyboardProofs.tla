------------------------- MODULE HardKeyboardProofs -------------------------
(***************************************************************************)
(* Theorems about HardKeyboard, for any letters of the layout and any      *)
(* number of late reports: the automaton keeps its shape, deleting undoes  *)
(* typing, no letter is lost, what fits is composed, and the editor and    *)
(* the input method agree.                                                 *)
(***************************************************************************)
EXTENDS HardKeyboard, SequenceTheorems, TLAPS

------------------------------------------------------------------------------
(* The tables *)

\* Clusters are made of consonants the keyboard has, and are final consonants.
LEMMA JongseongTable ==
  ASSUME NEW p \in JongseongPair
  PROVE  /\ p[1] \in PREF_CHO /\ p[2] \in PREF_CHO
         /\ p[3] \in PREF_JONG /\ p[3] \notin PREF_CHO
BY DEF JongseongPair, PREF_CHO, PREF_JONG

LEMMA JungseongTable ==
  ASSUME NEW p \in JungseongPair
  PROVE  p[1] \in PREF_JUNG /\ p[3] \in PREF_JUNG
BY DEF JungseongPair, PREF_JUNG

\* What letters there are of which kind.
LEMMA Letterkinds ==
  /\ Cluster \subseteq PREF_JONG /\ Cluster \cap PREF_CHO = {}
  /\ Diphthong \subseteq PREF_JUNG /\ SimpleVowel \subseteq PREF_JUNG
  /\ PREF_CHO \cap PREF_JUNG = {} /\ PREF_JONG \cap PREF_JUNG = {}
  /\ None \notin PREF_CHO \cup PREF_JUNG \cup PREF_JONG
  /\ 97 \notin PREF_JUNG /\ None # 97
  /\ PREF_CHO \ {12600, 12611, 12617} \subseteq PREF_JONG
  /\ \A c \in TypedLetter : c \notin PREF_CHO => c \in SimpleVowel
<1>1. Cluster \subseteq PREF_JONG /\ Cluster \cap PREF_CHO = {}
  BY JongseongTable DEF Cluster
<1>2. Diphthong \subseteq PREF_JUNG /\ SimpleVowel \subseteq PREF_JUNG
  BY JungseongTable DEF Diphthong, SimpleVowel
<1>3. /\ PREF_CHO \cap PREF_JUNG = {} /\ PREF_JONG \cap PREF_JUNG = {}
      /\ None \notin PREF_CHO \cup PREF_JUNG \cup PREF_JONG
      /\ 97 \notin PREF_JUNG /\ None # 97
  BY DEF PREF_CHO, PREF_JUNG, PREF_JONG, None
<1>4. PREF_CHO \ {12600, 12611, 12617} \subseteq PREF_JONG
  BY DEF PREF_CHO, PREF_JONG
<1>5. \A c \in TypedLetter : c \notin PREF_CHO => c \in SimpleVowel
  <2>1. \A p \in JungseongPair : p[3] \in {12632, 12633, 12634, 12637, 12638, 12639, 12642}
    BY DEF JungseongPair
  <2> QED BY <2>1 DEF TypedLetter, SimpleVowel, Diphthong
<1> QED BY <1>1, <1>2, <1>3, <1>4, <1>5

\* What a table composes is in the table.
LEMMA ComposedFound ==
  ASSUME NEW pairs, NEW v1, NEW v2, Composed(pairs, v1, v2) # None
  PROVE  \E p \in pairs : p[1] = v1 /\ p[2] = v2 /\ p[3] = Composed(pairs, v1, v2)
<1>1. \E p \in pairs : p[1] = v1 /\ p[2] = v2
  BY DEF Composed
<1>2. Composed(pairs, v1, v2) = (CHOOSE p \in pairs : p[1] = v1 /\ p[2] = v2)[3]
  BY <1>1 DEF Composed
<1> QED BY <1>1, <1>2

LEMMA ComposedKind ==
  ASSUME NEW v1, NEW v2
  PROVE  /\ getJongseongPair(v1, v2) \in Cluster \cup {None}
         /\ getJungseongPair(v1, v2) \in Diphthong \cup {None}
BY ComposedFound DEF getJongseongPair, getJungseongPair, Cluster, Diphthong

\* A cluster resolves into two consonants.
LEMMA Resolved ==
  ASSUME NEW v
  PROVE  /\ isJongseongPair(v) <=> v \in Cluster
         /\ v \in Cluster => /\ resolveJongseongPair(v)[1] \in PREF_CHO
                             /\ resolveJongseongPair(v)[2] \in PREF_CHO
<1>1. isJongseongPair(v) <=> v \in Cluster
  BY DEF isJongseongPair, Cluster
<1>2. ASSUME v \in Cluster PROVE resolveJongseongPair(v) \in JongseongPair
  BY <1>2 DEF resolveJongseongPair, Cluster
<1> QED BY <1>1, <1>2, JongseongTable

\* A composed letter names the letters it is composed of.
LEMMA ComposedOnce ==
  /\ \A p, q \in JongseongPair : p[3] = q[3] => p[1] = q[1] /\ p[2] = q[2]
  /\ \A p, q \in JungseongPair : p[3] = q[3] => p[1] = q[1] /\ p[2] = q[2]
<1>1. ASSUME NEW p \in JongseongPair, NEW q \in JongseongPair, p[3] = q[3]
      PROVE  p[1] = q[1] /\ p[2] = q[2]
  BY <1>1 DEF JongseongPair
<1>2. ASSUME NEW p \in JungseongPair, NEW q \in JungseongPair, p[3] = q[3]
      PROVE  p[1] = q[1] /\ p[2] = q[2]
  BY <1>2 DEF JungseongPair
<1> QED BY <1>1, <1>2

------------------------------------------------------------------------------
(* The keys a character stands for *)

ConsonantKeys(v) == LettersOf(JongseongPair, v)
VowelKeys(v)     == LettersOf(JungseongPair, v)

\* A composed letter stands for its two letters.
LEMMA KeysOfPair ==
  /\ \A p \in JongseongPair : ConsonantKeys(p[3]) = <<p[1], p[2]>>
  /\ \A p \in JungseongPair : VowelKeys(p[3]) = <<p[1], p[2]>>
<1>1. ASSUME NEW pairs, NEW p \in pairs, p[3] # None,
             \A q, r \in pairs : q[3] = r[3] => q[1] = r[1] /\ q[2] = r[2]
      PROVE  LettersOf(pairs, p[3]) = <<p[1], p[2]>>
  <2> DEFINE q == CHOOSE q \in pairs : q[3] = p[3]
  <2>1. q \in pairs /\ q[3] = p[3]
    OBVIOUS
  <2>2. q[1] = p[1] /\ q[2] = p[2]
    BY <1>1, <2>1
  <2>3. LettersOf(pairs, p[3]) = <<q[1], q[2]>>
    BY <1>1, Zenon DEF LettersOf
  <2> QED BY <2>2, <2>3
<1>2. \A p \in JongseongPair : p[3] # None
  BY JongseongTable DEF PREF_JONG, None
<1>3. \A p \in JungseongPair : p[3] # None
  BY JungseongTable DEF PREF_JUNG, None
<1> QED BY <1>1, <1>2, <1>3, ComposedOnce DEF ConsonantKeys, VowelKeys

\* What a table composes of two letters stands for the two.
LEMMA KeysOfComposed ==
  ASSUME NEW v1, NEW v2
  PROVE  /\ getJongseongPair(v1, v2) # None => ConsonantKeys(getJongseongPair(v1, v2)) = <<v1, v2>>
         /\ getJungseongPair(v1, v2) # None => VowelKeys(getJungseongPair(v1, v2)) = <<v1, v2>>
BY ComposedFound, KeysOfPair DEF getJongseongPair, getJungseongPair

\* Any other letter stands for itself, and a missing one for none.
LEMMA KeysOfLetter ==
  /\ ConsonantKeys(None) = << >> /\ VowelKeys(None) = << >>
  /\ \A c \in PREF_CHO : ConsonantKeys(c) = <<c>>
  /\ \A v \in SimpleVowel : VowelKeys(v) = <<v>>
  /\ \A v \in Cluster : ConsonantKeys(v) = <<resolveJongseongPair(v)[1], resolveJongseongPair(v)[2]>>
<1>1. ConsonantKeys(None) = << >> /\ VowelKeys(None) = << >>
  <2>1. ~(\E p \in JongseongPair : p[3] = None) /\ ~\E p \in JungseongPair : p[3] = None
    BY JongseongTable, JungseongTable, Letterkinds
  <2> QED BY <2>1 DEF ConsonantKeys, VowelKeys, LettersOf
<1>2. ASSUME NEW c \in PREF_CHO PROVE ConsonantKeys(c) = <<c>>
  <2>1. c # None /\ ~\E p \in JongseongPair : p[3] = c
    BY Letterkinds, JongseongTable
  <2> QED BY <2>1 DEF ConsonantKeys, LettersOf
<1>3. ASSUME NEW v \in SimpleVowel PROVE VowelKeys(v) = <<v>>
  <2>1. v # None /\ ~\E p \in JungseongPair : p[3] = v
    BY Letterkinds DEF SimpleVowel, Diphthong
  <2> QED BY <2>1 DEF VowelKeys, LettersOf
<1>4. ASSUME NEW v \in Cluster
      PROVE  ConsonantKeys(v) = <<resolveJongseongPair(v)[1], resolveJongseongPair(v)[2]>>
  <2>1. resolveJongseongPair(v) \in JongseongPair /\ resolveJongseongPair(v)[3] = v
    BY DEF resolveJongseongPair, Cluster
  <2> QED BY <2>1, KeysOfPair
<1> QED BY <1>1, <1>2, <1>3, <1>4

\* Keys are a sequence of letters.
LEMMA KeysTyped ==
  /\ \A c \in Consonant \cup {None} : ConsonantKeys(c) \in Seq(Int)
  /\ \A v \in PREF_JUNG \cup {None} : VowelKeys(v) \in Seq(Int)
<1>1. PREF_CHO \subseteq Int /\ PREF_JUNG \subseteq Int
  BY DEF PREF_CHO, PREF_JUNG
<1>2. \A v, w \in Int : <<v>> \in Seq(Int) /\ <<v, w>> \in Seq(Int) /\ << >> \in Seq(Int)
  OBVIOUS
<1>3. ASSUME NEW c \in Consonant \cup {None} PROVE ConsonantKeys(c) \in Seq(Int)
  <2>1. CASE c = None
    BY <1>2, <2>1, KeysOfLetter
  <2>2. CASE c \in PREF_CHO
    BY <1>1, <1>2, <2>2, KeysOfLetter
  <2>3. CASE c \in Cluster
    <3>1. resolveJongseongPair(c)[1] \in Int /\ resolveJongseongPair(c)[2] \in Int
      BY <1>1, <2>3, Resolved
    <3>2. ConsonantKeys(c) = <<resolveJongseongPair(c)[1], resolveJongseongPair(c)[2]>>
      BY <2>3, KeysOfLetter
    <3> QED BY <1>2, <3>1, <3>2
  <2> QED BY <2>1, <2>2, <2>3 DEF Consonant
<1>4. ASSUME NEW v \in PREF_JUNG \cup {None} PROVE VowelKeys(v) \in Seq(Int)
  <2>1. ASSUME v \in Diphthong PROVE VowelKeys(v) \in Seq(Int)
    <3>1. PICK p \in JungseongPair : p[3] = v
      BY <2>1 DEF Diphthong
    <3>2. p[1] \in Int /\ p[2] \in Int
      BY DEF JungseongPair
    <3> QED BY <1>2, <3>1, <3>2, KeysOfPair
  <2>2. ASSUME v \in SimpleVowel PROVE VowelKeys(v) \in Seq(Int)
    <3>1. v \in Int /\ VowelKeys(v) = <<v>>
      BY <1>1, <2>2, KeysOfLetter, Letterkinds
    <3> QED BY <1>2, <3>1
  <2>3. VowelKeys(None) \in Seq(Int)
    BY <1>2, KeysOfLetter
  <2> QED BY <2>1, <2>2, <2>3 DEF SimpleVowel
<1> QED BY <1>3, <1>4

------------------------------------------------------------------------------
(* appendCharacter keeps the shape of the automaton *)

\* A buffer without a final consonant is shown as it is.
LEMMA ShownAsIs ==
  ASSUME NEW b \in [cho : Consonant \cup {None}, jung : PREF_JUNG \cup {None}, jong : {None}]
  PROVE  makeHangul(b) = b
BY Letterkinds DEF makeHangul

\* A letter by itself is what a buffer with nothing else shows.
LEMMA LoneConsonant ==
  ASSUME NEW c \in Consonant
  PROVE  /\ Jamo(c) = [cho |-> c, jung |-> None, jong |-> None]
         /\ [NoChar EXCEPT !.cho = c] = Jamo(c)
         /\ makeHangul(Jamo(c)) = Jamo(c)
<1>1. c \notin PREF_JUNG
  BY Letterkinds DEF Consonant
<1>2. Jamo(c) = [cho |-> c, jung |-> None, jong |-> None]
  BY <1>1 DEF Jamo, NoChar
<1>3. Jamo(c) \in [cho : Consonant \cup {None}, jung : PREF_JUNG \cup {None}, jong : {None}]
  BY <1>2
<1> QED BY <1>1, <1>2, <1>3, ShownAsIs DEF Jamo

LEMMA LoneVowel ==
  ASSUME NEW v \in PREF_JUNG
  PROVE  /\ Jamo(v) = [cho |-> None, jung |-> v, jong |-> None]
         /\ [NoChar EXCEPT !.jung = v] = Jamo(v)
         /\ makeHangul(Jamo(v)) = Jamo(v)
<1>1. Jamo(v) = [cho |-> None, jung |-> v, jong |-> None]
  BY DEF Jamo, NoChar
<1>2. Jamo(v) \in [cho : Consonant \cup {None}, jung : PREF_JUNG \cup {None}, jong : {None}]
  BY <1>1
<1> QED BY <1>1, <1>2, ShownAsIs DEF Jamo

LEMMA ConsonantsAreNumbers == PREF_CHO \subseteq Int
BY DEF PREF_CHO

\* Two letters after each other.
LEMMA TwoLetters ==
  ASSUME NEW v \in Int, NEW w \in Int
  PROVE  <<v>> \o <<w>> = <<v, w>> /\ Append(<<v>>, w) = <<v, w>> /\ <<v>> \in Seq(Int)
<1>1. <<v>> \in Seq(Int)
  OBVIOUS
<1>2. Append(<<v>>, w) = <<v>> \o <<w>>
  BY <1>1, AppendIsConcat
<1>3. Append(<<v>>, w) = <<v, w>>
  <2>1. Append(<<v>>, w) \in Seq(Int) /\ <<v, w>> \in Seq(Int)
    BY <1>1, AppendProperties
  <2>2. Len(Append(<<v>>, w)) = 2 /\ Len(<<v, w>>) = 2 /\ Append(<<v>>, w)[1] = v /\ Append(<<v>>, w)[2] = w
    BY <1>1, AppendProperties
  <2>3. \A i \in 1 .. 2 : i = 1 \/ i = 2
    OBVIOUS
  <2>4. \A i \in 1 .. 2 : Append(<<v>>, w)[i] = <<v, w>>[i]
    BY <2>2, <2>3
  <2> QED BY <2>1, <2>2, <2>4, SeqEqual
<1> QED BY <1>1, <1>2, <1>3

\* What a buffer stands for.
LEMMA Decoded ==
  ASSUME NEW cho \in Consonant \cup {None}, NEW jung \in PREF_JUNG \cup {None},
         NEW jong \in Consonant \cup {None}
  PROVE  /\ decode([cho |-> cho, jung |-> jung, jong |-> jong])
              = (ConsonantKeys(cho) \o VowelKeys(jung)) \o ConsonantKeys(jong)
         /\ ConsonantKeys(cho) \o VowelKeys(jung) \in Seq(Int)
         /\ decode([cho |-> cho, jung |-> jung, jong |-> jong]) \in Seq(Int)
<1> DEFINE front == ConsonantKeys(cho) \o VowelKeys(jung)
<1>1. decode([cho |-> cho, jung |-> jung, jong |-> jong]) = front \o ConsonantKeys(jong)
  BY DEF decode, ConsonantKeys, VowelKeys
<1>2. ConsonantKeys(cho) \in Seq(Int) /\ VowelKeys(jung) \in Seq(Int) /\ ConsonantKeys(jong) \in Seq(Int)
  BY KeysTyped
<1>3. front \in Seq(Int)
  BY <1>2, ConcatProperties
<1> HIDE DEF front
<1>4. front \o ConsonantKeys(jong) \in Seq(Int)
  BY <1>2, <1>3, ConcatProperties
<1> QED BY <1>1, <1>3, <1>4 DEF front

\* Without a final consonant
LEMMA DecodedOpen ==
  ASSUME NEW cho \in Consonant \cup {None}, NEW jung \in PREF_JUNG \cup {None}
  PROVE  /\ decode([cho |-> cho, jung |-> jung, jong |-> None])
              = ConsonantKeys(cho) \o VowelKeys(jung)
         /\ ConsonantKeys(cho) \o VowelKeys(jung) \in Seq(Int)
<1> DEFINE front == ConsonantKeys(cho) \o VowelKeys(jung)
<1>1. decode([cho |-> cho, jung |-> jung, jong |-> None]) = front \o ConsonantKeys(None)
      /\ front \in Seq(Int)
  BY Decoded
<1> HIDE DEF front
<1>2. front \o << >> = front
  BY <1>1, ConcatEmptySeq
<1> QED BY <1>1, <1>2, KeysOfLetter DEF front

\* A letter by itself
LEMMA DecodedLetter ==
  /\ \A c \in Consonant : decode(Jamo(c)) = ConsonantKeys(c)
  /\ \A v \in PREF_JUNG : decode(Jamo(v)) = VowelKeys(v)
  /\ decode(NoChar) = << >>
<1>1. ASSUME NEW s \in Seq(Int) PROVE s \o << >> = s /\ << >> \o s = s
  BY ConcatEmptySeq
<1>2. << >> \in Seq(Int)
  OBVIOUS
<1>3. ASSUME NEW c \in Consonant PROVE decode(Jamo(c)) = ConsonantKeys(c)
  <2>1. decode(Jamo(c)) = ConsonantKeys(c) \o VowelKeys(None)
    BY DecodedOpen, LoneConsonant
  <2> QED BY <1>1, <2>1, KeysTyped, KeysOfLetter
<1>4. ASSUME NEW v \in PREF_JUNG PROVE decode(Jamo(v)) = VowelKeys(v)
  <2>1. decode(Jamo(v)) = ConsonantKeys(None) \o VowelKeys(v)
    BY DecodedOpen, LoneVowel
  <2> QED BY <1>1, <2>1, KeysTyped, KeysOfLetter
<1>5. decode(NoChar) = << >>
  <2>1. decode(NoChar) = ConsonantKeys(None) \o VowelKeys(None)
    BY DecodedOpen DEF NoChar
  <2> QED BY <1>1, <1>2, <2>1, KeysOfLetter
<1> QED BY <1>3, <1>4, <1>5

\* The automaton a call leaves behind.
LEMMA DoneIs ==
  ASSUME NEW state, NEW buffer, NEW completed, NEW working, Shape(state, buffer),
         working = makeHangul(buffer)
  PROVE  IsAutomaton(Done(state, buffer, working, completed).automata)
BY DEF Done, IsAutomaton

\* A letter by itself is in the buffer where its state says.
LEMMA LoneShape ==
  ASSUME NEW letter
  PROVE  /\ letter \in PREF_CHO    => Shape("CHO1", Jamo(letter))
         /\ letter \in Cluster     => Shape("CHO2", Jamo(letter))
         /\ letter \in SimpleVowel => Shape("JUNG1", Jamo(letter))
BY LoneConsonant, LoneVowel, Letterkinds DEF Shape, Consonant

\* What is in the buffer.
LEMMA BufferKind ==
  ASSUME NEW a, IsAutomaton(a)
  PROVE  a.buffer \in [cho : Consonant \cup {None}, jung : PREF_JUNG \cup {None},
                       jong : Consonant \cup {None}]
BY Letterkinds DEF IsAutomaton, Shape, NoChar, Consonant

\* What a letter does: it joins the character in the buffer, or completes one and starts
\* the next.
Joins(r, state, b)  == r = Done(state, b, makeHangul(b), NoChar)
Starts(r, state, b, completed) ==
  completed # NoChar /\ r = Done(state, b, makeHangul(b), completed)

\* A consonant may end the syllable in the buffer.
Ends(a, code) ==
  /\ a.state \in {"JUNG1", "JUNG2"} /\ a.buffer.cho # None
  /\ a.state = "JUNG1" => code \notin {12611, 12617}

\* A consonant joins as a letter of its own or as the second of a cluster, or all that
\* is shown is completed.
ConsonantOutcome(a, code, r) ==
  \/ a.state = "NONE" /\ Joins(r, "CHO1", Jamo(code))
  \/ a.state = "CHO1" /\ \E both \in Cluster :
       both = getJongseongPair(a.buffer.cho, code) /\ Joins(r, "CHO2", Jamo(both))
  \/ Ends(a, code) /\ Joins(r, "JONG1", [a.buffer EXCEPT !.jong = code])
  \/ a.state = "JONG1" /\ \E both \in Cluster :
       /\ both = getJongseongPair(a.buffer.jong, code)
       /\ Joins(r, "JONG2", [a.buffer EXCEPT !.jong = both])
  \/ Starts(r, "CHO1", Jamo(code), makeHangul(a.buffer))

\* What is completed and what is taken along are the keys there were.
TakesAlong(b, cho, completed) ==
  decode(completed) \in Seq(Int) /\ decode(completed) \o ConsonantKeys(cho) = decode(b)

\* A vowel may take a consonant along to the character it starts.
VowelOutcome(a, code, r) ==
  \/ a.state = "NONE" /\ Joins(r, "JUNG1", Jamo(code))
  \/ a.state = "CHO1" /\ Joins(r, "JUNG1", [a.buffer EXCEPT !.jung = code])
  \/ a.state = "JUNG1" /\ \E both \in Diphthong :
       /\ both = getJungseongPair(a.buffer.jung, code)
       /\ Joins(r, "JUNG2", [a.buffer EXCEPT !.jung = both])
  \/ \E cho \in PREF_CHO \cup {None} : \E completed :
       /\ Starts(r, "JUNG1", [cho |-> cho, jung |-> code, jong |-> None], completed)
       /\ TakesAlong(a.buffer, cho, completed)

\* The same with a letter by itself, which is shown as it is.
LEMMA LoneOutcome ==
  ASSUME NEW r, NEW state, NEW letter \in Consonant \cup PREF_JUNG, NEW completed,
         r = Done(state, Jamo(letter), Jamo(letter), completed)
  PROVE  /\ completed = NoChar => Joins(r, state, Jamo(letter))
         /\ completed # NoChar => Starts(r, state, Jamo(letter), completed)
<1>1. makeHangul(Jamo(letter)) = Jamo(letter)
  BY LoneConsonant, LoneVowel
<1> QED BY <1>1 DEF Joins, Starts

\* A character with a part is not the empty one.
LEMMA NotEmpty ==
  /\ \A c \in Consonant : Jamo(c) # NoChar
  /\ \A v \in PREF_JUNG : Jamo(v) # NoChar
  /\ \A b \in [cho : Consonant \cup {None}, jung : PREF_JUNG \cup {None},
               jong : Consonant \cup {None}] :
       b.cho # None \/ b.jung # None => makeHangul(b) # NoChar
<1>1. ASSUME NEW c \in Consonant PROVE Jamo(c) # NoChar
  BY LoneConsonant, Letterkinds DEF NoChar, Consonant
<1>2. ASSUME NEW v \in PREF_JUNG PROVE Jamo(v) # NoChar
  BY LoneVowel, Letterkinds DEF NoChar
<1>3. ASSUME NEW b \in [cho : Consonant \cup {None}, jung : PREF_JUNG \cup {None},
                        jong : Consonant \cup {None}],
             b.cho # None \/ b.jung # None
      PROVE  makeHangul(b) # NoChar
  <2>1. makeHangul(b).cho = b.cho /\ makeHangul(b).jung = b.jung
    BY DEF makeHangul
  <2>2. NoChar.cho = None /\ NoChar.jung = None
    BY DEF NoChar
  <2> QED BY <1>3, <2>1, <2>2
<1> QED BY <1>1, <1>2, <1>3

\* A vowel by itself is shown.
LEMMA LoneVowelShown ==
  ASSUME NEW b \in [cho : PREF_CHO \cup {None}, jung : PREF_JUNG, jong : {None}], b.cho = None
  PROVE  makeHangul(b) = Jamo(b.jung)
<1>1. b = Jamo(b.jung)
  BY LoneVowel
<1> QED BY <1>1, LoneVowel

\* A consonant.
LEMMA Consonants ==
  ASSUME NEW a, IsAutomaton(a), NEW code \in PREF_CHO
  PROVE  ConsonantOutcome(a, code, AppendLetter(a, code))
<1> DEFINE b    == a.buffer
           next == AfterJaeum(a, code)
           r    == saveCharacter(next, b, code)
<1>1. Shape(a.state, b) /\ AppendLetter(a, code) = r
  BY DEF IsAutomaton, AppendLetter
<1>2. code \in Consonant
  BY DEF Consonant
<1>3. b \in [cho : Consonant \cup {None}, jung : PREF_JUNG \cup {None},
             jong : Consonant \cup {None}]
  BY BufferKind
<1>4. ASSUME next = "FINISH1", a.state # "NONE" PROVE ConsonantOutcome(a, code, r)
  <2>1. CASE b.jung = None
    <3>1. r = Done("CHO1", Jamo(code), Jamo(code), Jamo(b.cho))
      BY <1>2, <1>4, <2>1, LoneConsonant DEF saveCharacter
    <3>2. b.cho \in Consonant
      BY <1>1, <1>4, <2>1, Letterkinds DEF Shape, Consonant
    <3> HIDE DEF r
    <3>3. Jamo(b.cho) = makeHangul(b)
      <4>1. b.jong = None
        BY <1>1, <2>1, Letterkinds DEF Shape, NoChar
      <4>2. b = Jamo(b.cho)
        BY <1>3, <2>1, <3>2, <4>1, LoneConsonant
      <4> QED BY <3>2, <4>2, LoneConsonant
    <3> QED BY <1>2, <3>1, <3>2, <3>3, NotEmpty, LoneOutcome DEF ConsonantOutcome, Ends
  <2>2. CASE b.jung # None
    <3>1. r = Done("CHO1", Jamo(code), Jamo(code), makeHangul(b))
      BY <1>2, <1>4, <2>2, LoneConsonant DEF saveCharacter
    <3>2. makeHangul(b) # NoChar
      BY <1>3, <2>2, NotEmpty
    <3> HIDE DEF r
    <3> QED BY <1>2, <3>1, <3>2, LoneOutcome DEF ConsonantOutcome, Ends
  <2> QED BY <2>1, <2>2
<1>5. CASE a.state = "NONE"
  <2>1. next = "CHO1" /\ b = NoChar
    BY <1>1, <1>5 DEF AfterJaeum, Shape
  <2>2. r = Done("CHO1", Jamo(code), Jamo(code), NoChar)
    BY <1>2, <2>1, LoneConsonant DEF saveCharacter
  <2> HIDE DEF r
  <2> QED BY <1>1, <1>2, <1>5, <2>2, LoneOutcome DEF ConsonantOutcome, Ends
<1>6. CASE a.state = "CHO1"
  <2>1. b \in [cho : PREF_CHO, jung : {None}, jong : {None}]
    BY <1>1, <1>6 DEF Shape
  <2> DEFINE both == getJongseongPair(b.cho, code)
  <2>2. CASE both = None
    BY <1>1, <1>4, <1>6, <2>2 DEF AfterJaeum
  <2>3. CASE both # None
    <3>1. both \in Cluster /\ both \in Consonant
      BY <2>3, ComposedKind DEF Consonant
    <3>2. [b EXCEPT !.cho = both] = Jamo(both)
      BY <2>1, <3>1, LoneConsonant
    <3>3. r = Done("CHO2", Jamo(both), Jamo(both), NoChar)
      BY <1>6, <2>3, <3>2 DEF AfterJaeum, saveCharacter
    <3> HIDE DEF r
    <3> QED BY <1>1, <1>6, <3>1, <3>3, LoneOutcome DEF ConsonantOutcome, Ends
  <2> QED BY <2>2, <2>3
<1>7. CASE a.state \in {"CHO2", "JONG2"}
  BY <1>1, <1>4, <1>7 DEF AfterJaeum
<1>8. CASE a.state \in {"JUNG1", "JUNG2"}
  <2>1. b \in [cho : PREF_CHO \cup {None}, jung : PREF_JUNG, jong : {None}]
    BY <1>1, <1>8, Letterkinds DEF Shape
  <2>2. CASE next = "FINISH2"
    <3>1. r = Done("CHO1", Jamo(code), Jamo(code),
                   IF b.cho # None /\ b.jung # None THEN makeHangul(b) ELSE Jamo(b.jung))
      BY <1>2, <2>2, LoneConsonant DEF saveCharacter
    <3>2. makeHangul(b) # NoChar
      BY <1>3, <2>1, NotEmpty, Letterkinds
    <3>3. b.cho = None => Jamo(b.jung) = makeHangul(b)
      BY <2>1, LoneVowelShown
    <3>4. b.jung # None
      BY <2>1, Letterkinds
    <3> HIDE DEF r
    <3> QED BY <1>1, <1>2, <3>1, <3>2, <3>3, <3>4, LoneOutcome DEF ConsonantOutcome, Ends
  <2>3. CASE next # "FINISH2"
    <3> DEFINE c == [b EXCEPT !.jong = code]
    <3>1. r = SaveJong("JONG1", b, code) /\ (a.state = "JUNG1" => code \notin {12611, 12617})
      BY <1>8, <2>3 DEF AfterJaeum, AfterDiphthong, saveCharacter
    <3>2. c.cho = b.cho /\ c.jung = b.jung /\ b.jung # None
      BY <2>1, Letterkinds
    <3>3. CASE b.cho # None
      <4>1. Joins(r, "JONG1", c)
        BY <3>1, <3>2, <3>3 DEF SaveJong, Joins
      <4> HIDE DEF r
      <4> QED BY <1>1, <1>8, <3>1, <3>3, <4>1 DEF ConsonantOutcome, Ends
    <3>4. CASE b.cho = None
      <4>1. r = Done("CHO1", Jamo(code), Jamo(code), Jamo(b.jung))
        BY <1>2, <3>1, <3>2, <3>4, LoneConsonant DEF SaveJong
      <4>2. Jamo(b.jung) # NoChar /\ Jamo(b.jung) = makeHangul(b)
        BY <2>1, <3>4, NotEmpty, LoneVowelShown
      <4> HIDE DEF r
      <4> QED BY <1>1, <1>2, <4>1, <4>2, LoneOutcome DEF ConsonantOutcome, Ends
    <3> QED BY <3>3, <3>4
  <2> QED BY <2>2, <2>3
<1>9. CASE a.state = "JONG1"
  <2>1. b \in [cho : PREF_CHO, jung : PREF_JUNG, jong : PREF_CHO]
    BY <1>1, <1>9 DEF Shape
  <2> DEFINE both == getJongseongPair(b.jong, code)
             c    == [b EXCEPT !.jong = both]
  <2>2. CASE both = None
    BY <1>1, <1>4, <1>9, <2>2 DEF AfterJaeum
  <2>3. CASE both # None
    <3>1. both \in Cluster
      BY <2>3, ComposedKind
    <3>2. c.cho # None /\ c.jung # None
      BY <2>1, Letterkinds
    <3>3. Joins(r, "JONG2", c)
      BY <1>9, <2>3, <3>2 DEF AfterJaeum, saveCharacter, SaveJong, Joins
    <3> HIDE DEF r
    <3> QED BY <1>1, <1>9, <3>1, <3>3 DEF ConsonantOutcome, Ends
  <2> QED BY <2>2, <2>3
<1> QED BY <1>1, <1>5, <1>6, <1>7, <1>8, <1>9 DEF Shape

\* A vowel after consonants, or alone.
LEMMA VowelJoins ==
  ASSUME NEW b \in [cho : Consonant \cup {None}, jung : {None}, jong : {None}],
         NEW code \in SimpleVowel
  PROVE  /\ b.cho = None => Joins(SaveJung1(b, code), "JUNG1", Jamo(code))
         /\ b.cho \in PREF_CHO => Joins(SaveJung1(b, code), "JUNG1", [b EXCEPT !.jung = code])
         /\ b.cho \in Cluster =>
              \E cho \in PREF_CHO : \E completed :
                /\ Starts(SaveJung1(b, code), "JUNG1",
                          [cho |-> cho, jung |-> code, jong |-> None], completed)
                /\ TakesAlong(b, cho, completed)
<1> DEFINE c == [b EXCEPT !.jung = code]
           p == resolveJongseongPair(c.cho)
<1>1. c = [cho |-> b.cho, jung |-> code, jong |-> None]
  OBVIOUS
<1>2. code \in PREF_JUNG
  BY Letterkinds
<1>3. ASSUME b.cho = None PROVE Joins(SaveJung1(b, code), "JUNG1", Jamo(code))
  <2>1. c = Jamo(code) /\ c.cho = None
    BY <1>1, <1>2, <1>3, LoneVowel
  <2>2. ~isJongseongPair(c.cho)
    BY <2>1, Resolved, Letterkinds
  <2>3. SaveJung1(b, code) = Done("JUNG1", c, Jamo(code), NoChar)
    BY <2>1, <2>2 DEF SaveJung1
  <2> QED BY <1>2, <2>1, <2>3, LoneOutcome
<1>4. ASSUME b.cho \in Cluster
      PROVE  \E cho \in PREF_CHO : \E completed :
               /\ Starts(SaveJung1(b, code), "JUNG1",
                         [cho |-> cho, jung |-> code, jong |-> None], completed)
               /\ TakesAlong(b, cho, completed)
  <2> DEFINE d == [c EXCEPT !.cho = p[2]]
  <2>1. c.cho # None /\ isJongseongPair(c.cho) /\ p[2] \in PREF_CHO /\ p[1] \in PREF_CHO
    BY <1>1, <1>4, Resolved, Letterkinds
  <2>2. SaveJung1(b, code) = Done("JUNG1", d, makeHangul(d), Jamo(p[1]))
    BY <2>1 DEF SaveJung1
  <2>3. d = [cho |-> p[2], jung |-> code, jong |-> None]
    <3>1. ASSUME NEW x PROVE [c EXCEPT !.cho = x] = [cho |-> x, jung |-> code, jong |-> None]
      <4> HIDE DEF c
      <4> QED BY <1>1
    <3> QED BY <3>1
  <2>4. Jamo(p[1]) # NoChar
    BY <2>1, NotEmpty DEF Consonant
  <2>5. Starts(SaveJung1(b, code), "JUNG1", d, Jamo(p[1]))
    BY <2>2, <2>4 DEF Starts
  <2>6. TakesAlong(b, p[2], Jamo(p[1]))
    <3>1. c.cho = b.cho /\ p = resolveJongseongPair(b.cho)
      BY <1>1
    <3>2. ConsonantKeys(b.cho) = <<p[1], p[2]>>
      BY <1>4, <3>1, KeysOfLetter
    <3>3. ConsonantKeys(p[1]) = <<p[1]>> /\ ConsonantKeys(p[2]) = <<p[2]>>
      BY <2>1, KeysOfLetter
    <3>4. decode(Jamo(p[1])) = <<p[1]>> /\ <<p[1]>> \in Seq(Int)
      BY <2>1, <3>3, KeysTyped, DecodedLetter DEF Consonant
    <3>5. decode(b) = <<p[1], p[2]>>
      <4>1. b = Jamo(b.cho) /\ b.cho \in Consonant
        BY <1>4, LoneConsonant DEF Consonant
      <4> QED BY <3>2, <4>1, DecodedLetter
    <3>6. <<p[1]>> \o <<p[2]>> = <<p[1], p[2]>>
      BY <2>1, ConsonantsAreNumbers, TwoLetters
    <3> HIDE DEF p
    <3> QED BY <3>3, <3>4, <3>5, <3>6 DEF TakesAlong
  <2> HIDE DEF d, p
  <2> QED BY <2>1, <2>3, <2>5, <2>6
<1>5. ASSUME b.cho \in PREF_CHO
      PROVE  Joins(SaveJung1(b, code), "JUNG1", c)
  <2>1. c.cho # None /\ ~isJongseongPair(c.cho)
    BY <1>1, <1>5, Resolved, Letterkinds
  <2> QED BY <2>1 DEF SaveJung1, Joins
<1> QED BY <1>3, <1>4, <1>5

\* The first letter of a cluster can end a syllable.
LEMMA FirstEnds ==
  ASSUME NEW v, isJongseongPair(v)
  PROVE  resolveJongseongPair(v)[1] \in PREF_JONG
<1>1. resolveJongseongPair(v) \in JongseongPair
  BY DEF isJongseongPair, resolveJongseongPair
<1>2. \A p \in JongseongPair : p[1] \in PREF_JONG
  BY DEF JongseongPair, PREF_JONG
<1> QED BY <1>1, <1>2

\* A vowel takes a final consonant along.
LEMMA VowelTakes ==
  ASSUME NEW b \in [cho : PREF_CHO, jung : PREF_JUNG, jong : Consonant],
         NEW code \in SimpleVowel
  PROVE  \E cho \in PREF_CHO : \E completed :
           /\ Starts(SaveFinish4(b, code), "JUNG1",
                     [cho |-> cho, jung |-> code, jong |-> None], completed)
           /\ TakesAlong(b, cho, completed)
<1> DEFINE p    == resolveJongseongPair(b.jong)
           stay == IF isJongseongPair(b.jong) THEN p[1] ELSE None
           move == IF isJongseongPair(b.jong) THEN p[2] ELSE b.jong
           next == [cho |-> move, jung |-> code, jong |-> None]
<1>1. move \in PREF_CHO /\ stay \in PREF_CHO \cup {None}
  BY Resolved DEF Consonant
<1>2. b.cho # None /\ b.jung # None
  BY Letterkinds
<1>3. SaveFinish4(b, code) =
        Done("JUNG1", next, makeHangul(next), makeHangul([b EXCEPT !.jong = stay]))
  BY <1>2 DEF SaveFinish4
<1>4. makeHangul([b EXCEPT !.jong = stay]) # NoChar
  <2>1. ASSUME NEW x \in PREF_CHO \cup {None} PROVE makeHangul([b EXCEPT !.jong = x]) # NoChar
    <3>1. [b EXCEPT !.jong = x] \in [cho : Consonant \cup {None}, jung : PREF_JUNG \cup {None},
                                     jong : Consonant \cup {None}]
          /\ [b EXCEPT !.jong = x].cho = b.cho
      BY DEF Consonant
    <3> QED BY <1>2, <3>1, NotEmpty
  <2> QED BY <1>1, <2>1
<1>5. Starts(SaveFinish4(b, code), "JUNG1", next, makeHangul([b EXCEPT !.jong = stay]))
  BY <1>3, <1>4 DEF Starts
<1>6. TakesAlong(b, move, makeHangul([b EXCEPT !.jong = stay]))
  <2> DEFINE front == ConsonantKeys(b.cho) \o VowelKeys(b.jung)
  <2>1. /\ b = [cho |-> b.cho, jung |-> b.jung, jong |-> b.jong]
        /\ b.cho \in Consonant \cup {None} /\ b.jung \in PREF_JUNG \cup {None}
        /\ b.jong \in Consonant \cup {None}
    BY DEF Consonant
  <2>2. front \in Seq(Int) /\ decode(b) = front \o ConsonantKeys(b.jong)
    BY <2>1, Decoded
  <2>3. makeHangul([b EXCEPT !.jong = stay]) = [cho |-> b.cho, jung |-> b.jung, jong |-> stay]
    <3>1. stay \in PREF_JONG \cup {None}
      BY Resolved, FirstEnds
    <3>2. ASSUME NEW x \in PREF_JONG \cup {None}
          PROVE  makeHangul([b EXCEPT !.jong = x]) = [cho |-> b.cho, jung |-> b.jung, jong |-> x]
      <4>1. [b EXCEPT !.jong = x] = [cho |-> b.cho, jung |-> b.jung, jong |-> x]
        OBVIOUS
      <4>2. makeHangul([cho |-> b.cho, jung |-> b.jung, jong |-> x])
              = [cho |-> b.cho, jung |-> b.jung, jong |-> x]
        BY <3>2 DEF makeHangul
      <4> QED BY <4>1, <4>2
    <3> QED BY <3>1, <3>2
  <2>4. decode(makeHangul([b EXCEPT !.jong = stay])) = front \o ConsonantKeys(stay)
    <3>1. stay \in Consonant \cup {None}
      BY <1>1 DEF Consonant
    <3>2. ASSUME NEW x \in Consonant \cup {None}
          PROVE  decode([cho |-> b.cho, jung |-> b.jung, jong |-> x]) = front \o ConsonantKeys(x)
      BY <2>1, Decoded
    <3> HIDE DEF front
    <3>3. decode([cho |-> b.cho, jung |-> b.jung, jong |-> stay]) = front \o ConsonantKeys(stay)
      BY <3>1, <3>2
    <3> QED BY <2>3, <3>3
  <2>5. ConsonantKeys(stay) \o ConsonantKeys(move) = ConsonantKeys(b.jong)
        /\ ConsonantKeys(stay) \in Seq(Int) /\ ConsonantKeys(move) \in Seq(Int)
    <3>1. CASE b.jong \in Cluster
      <4>1. stay = p[1] /\ move = p[2] /\ p[1] \in PREF_CHO /\ p[2] \in PREF_CHO
        BY <3>1, Resolved
      <4>2. ConsonantKeys(stay) = <<p[1]>> /\ ConsonantKeys(move) = <<p[2]>>
        BY <4>1, KeysOfLetter
      <4>3. ConsonantKeys(b.jong) = <<p[1], p[2]>>
        BY <3>1, KeysOfLetter
      <4>4. <<p[1]>> \o <<p[2]>> = <<p[1], p[2]>>
        BY <4>1, ConsonantsAreNumbers, TwoLetters
      <4>5. ConsonantKeys(stay) \in Seq(Int) /\ ConsonantKeys(move) \in Seq(Int)
        BY <4>1, KeysTyped DEF Consonant
      <4> HIDE DEF p, stay, move
      <4> QED BY <4>2, <4>3, <4>4, <4>5
    <3>2. CASE b.jong \notin Cluster
      <4>1. stay = None /\ move = b.jong
        BY <3>2, Resolved
      <4>2. ConsonantKeys(move) \in Seq(Int) /\ << >> \in Seq(Int)
        BY <2>1, <4>1, KeysTyped
      <4> HIDE DEF stay, move
      <4> QED BY <4>1, <4>2, KeysOfLetter, ConcatEmptySeq
    <3> QED BY <3>1, <3>2
  <2>6. (front \o ConsonantKeys(stay)) \o ConsonantKeys(move)
          = front \o (ConsonantKeys(stay) \o ConsonantKeys(move))
    <3>1. ASSUME NEW x \in Seq(Int), NEW y \in Seq(Int), NEW z \in Seq(Int)
          PROVE  (x \o y) \o z = x \o (y \o z)
      BY ConcatAssociative, SMTT(15)
    <3> HIDE DEF front, stay, move
    <3> QED BY <2>2, <2>5, <3>1
  <2>7. front \o ConsonantKeys(stay) \in Seq(Int)
    <3> HIDE DEF front, stay
    <3> QED BY <2>2, <2>5, ConcatProperties
  <2> HIDE DEF front, stay, move
  <2> QED BY <2>2, <2>4, <2>5, <2>6, <2>7 DEF TakesAlong
<1> HIDE DEF stay, move
<1> QED BY <1>1, <1>5, <1>6

\* A vowel.
LEMMA Vowels ==
  ASSUME NEW a, IsAutomaton(a), NEW code \in SimpleVowel
  PROVE  VowelOutcome(a, code, AppendLetter(a, code))
<1> DEFINE b    == a.buffer
           next == AfterMoeum(a, code)
           r    == saveCharacter(next, b, code)
<1>1. Shape(a.state, b) /\ AppendLetter(a, code) = r
  BY Letterkinds DEF IsAutomaton, AppendLetter
<1>2. code \in PREF_JUNG
  BY Letterkinds
<1>3. ASSUME next = "FINISH3", a.state \in {"JUNG1", "JUNG2"} PROVE VowelOutcome(a, code, r)
  <2>1. b \in [cho : PREF_CHO \cup {None}, jung : PREF_JUNG, jong : {None}]
    BY <1>1, <1>3, Letterkinds DEF Shape
  <2>2. r = Done("JUNG1", Jamo(code), Jamo(code),
                 IF b.cho = None THEN Jamo(b.jung) ELSE makeHangul(b))
    BY <1>2, <1>3, LoneVowel DEF saveCharacter
  <2>3. Jamo(b.jung) # NoChar /\ makeHangul(b) # NoChar
    BY <2>1, NotEmpty, BufferKind, Letterkinds
  <2>4. b.cho = None => Jamo(b.jung) = makeHangul(b)
    BY <2>1, LoneVowelShown
  <2>5. Starts(r, "JUNG1", Jamo(code), makeHangul(b))
    <3> HIDE DEF r
    <3> QED BY <1>2, <2>2, <2>3, <2>4, LoneOutcome
  <2>6. Jamo(code) = [cho |-> None, jung |-> code, jong |-> None]
    BY <1>2, LoneVowel
  <2>7. TakesAlong(b, None, makeHangul(b))
    <3>1. makeHangul(b) = b
      BY <2>1, ShownAsIs DEF Consonant
    <3>2. b = [cho |-> b.cho, jung |-> b.jung, jong |-> None]
          /\ b.cho \in Consonant \cup {None} /\ b.jung \in PREF_JUNG \cup {None}
      BY <2>1 DEF Consonant
    <3>3. decode(b) \in Seq(Int)
      BY <3>2, DecodedOpen
    <3> QED BY <3>1, <3>3, KeysOfLetter, ConcatEmptySeq DEF TakesAlong
  <2> HIDE DEF r
  <2> QED BY <2>5, <2>6, <2>7 DEF VowelOutcome
<1>4. CASE a.state \in {"NONE", "CHO1", "CHO2"}
  <2>1. /\ b \in [cho : Consonant \cup {None}, jung : {None}, jong : {None}]
        /\ a.state = "NONE" => b.cho = None
        /\ a.state = "CHO1" => b.cho \in PREF_CHO
        /\ a.state = "CHO2" => b.cho \in Cluster
    BY <1>1, <1>4 DEF Shape, NoChar, Consonant
  <2>2. r = SaveJung1(b, code)
    BY <1>4 DEF AfterMoeum, saveCharacter
  <2> HIDE DEF r
  <2>3. CASE a.state = "NONE"
    <3>1. Joins(r, "JUNG1", Jamo(code))
      BY <2>1, <2>2, <2>3, VowelJoins
    <3> QED BY <1>1, <2>3, <3>1 DEF VowelOutcome
  <2>4. CASE a.state = "CHO1"
    <3>1. Joins(r, "JUNG1", [b EXCEPT !.jung = code])
      <4>1. Joins(SaveJung1(b, code), "JUNG1", [b EXCEPT !.jung = code])
        BY <2>1, <2>4, VowelJoins
      <4> QED BY <2>2, <4>1, Zenon
    <3> QED BY <1>1, <2>4, <3>1, Zenon DEF VowelOutcome
  <2>5. CASE a.state = "CHO2"
    <3>1. \E cho \in PREF_CHO : \E completed :
            /\ Starts(r, "JUNG1", [cho |-> cho, jung |-> code, jong |-> None], completed)
            /\ TakesAlong(b, cho, completed)
      BY <2>1, <2>2, <2>5, VowelJoins
    <3> QED BY <1>1, <3>1 DEF VowelOutcome
  <2> QED BY <1>4, <2>3, <2>4, <2>5
<1>5. CASE a.state = "JUNG1"
  <2>1. b \in [cho : PREF_CHO \cup {None}, jung : SimpleVowel, jong : {None}]
    BY <1>1, <1>5 DEF Shape
  <2> DEFINE both == getJungseongPair(b.jung, code)
             c    == [b EXCEPT !.jung = both]
  <2>2. CASE both = None
    BY <1>1, <1>3, <1>5, <2>2 DEF AfterMoeum
  <2>3. CASE both # None
    <3>1. both \in Diphthong /\ both \in PREF_JUNG
      BY <2>3, ComposedKind, Letterkinds
    <3>2. c = [cho |-> b.cho, jung |-> both, jong |-> None] /\ b.cho \in PREF_CHO \cup {None}
      BY <2>1
    <3>3. r = Done("JUNG2", c, IF b.cho # None THEN makeHangul(c) ELSE Jamo(c.jung), NoChar)
      BY <1>5, <2>3 DEF AfterMoeum, saveCharacter
    <3>4. ASSUME b.cho = None PROVE Jamo(c.jung) = makeHangul(c)
      <4>1. c = Jamo(both) /\ c.jung = both
        BY <3>1, <3>2, <3>4, LoneVowel
      <4> QED BY <3>1, <4>1, LoneVowel
    <3>5. Joins(r, "JUNG2", c)
      <4> HIDE DEF c, r
      <4> QED BY <3>3, <3>4 DEF Joins
    <3> HIDE DEF r
    <3> QED BY <1>1, <1>5, <3>1, <3>5 DEF VowelOutcome
  <2> QED BY <2>2, <2>3
<1>6. CASE a.state = "JUNG2"
  BY <1>1, <1>3, <1>6 DEF AfterMoeum
<1>7. CASE a.state \in {"JONG1", "JONG2"}
  <2>1. b \in [cho : PREF_CHO, jung : PREF_JUNG, jong : Consonant]
    BY <1>1, <1>7 DEF Shape, Consonant
  <2>2. r = SaveFinish4(b, code)
    BY <1>7 DEF AfterMoeum, saveCharacter
  <2> HIDE DEF r
  <2> QED BY <1>1, <2>1, <2>2, VowelTakes DEF VowelOutcome
<1> QED BY <1>1, <1>4, <1>5, <1>6, <1>7 DEF Shape

\* The automaton a letter leaves behind, if its buffer has the shape.
LEMMA OutcomeShape ==
  ASSUME NEW r, NEW state, NEW b, NEW completed, Shape(state, b),
         Joins(r, state, b) \/ Starts(r, state, b, completed)
  PROVE  IsAutomaton(r.automata)
BY DoneIs DEF Joins, Starts

LEMMA ConsonantShape ==
  ASSUME NEW a, IsAutomaton(a), NEW code \in PREF_CHO, NEW r, ConsonantOutcome(a, code, r)
  PROVE  IsAutomaton(r.automata)
<1>1. Shape(a.state, a.buffer)
  BY DEF IsAutomaton
<1>2. Shape("CHO1", Jamo(code)) /\ \A both \in Cluster : Shape("CHO2", Jamo(both))
  BY LoneShape
<1>3. ASSUME Ends(a, code)
      PROVE  Shape("JONG1", [a.buffer EXCEPT !.jong = code])
  <2>1. a.buffer \in [cho : PREF_CHO, jung : PREF_JUNG, jong : {None}]
        /\ (a.buffer.jung \in SimpleVowel => a.state = "JUNG1")
    BY <1>1, <1>3, Letterkinds DEF Ends, Shape, SimpleVowel
  <2> QED BY <1>3, <2>1 DEF Ends, Shape
<1>4. ASSUME a.state = "JONG1", NEW both \in Cluster
      PROVE  Shape("JONG2", [a.buffer EXCEPT !.jong = both])
  <2>1. a.buffer \in [cho : PREF_CHO, jung : PREF_JUNG, jong : PREF_CHO]
    BY <1>1, <1>4 DEF Shape
  <2> QED BY <2>1 DEF Shape
<1>5. \E state, b, completed :
        Shape(state, b) /\ (Joins(r, state, b) \/ Starts(r, state, b, completed))
  BY <1>2, <1>3, <1>4, Zenon DEF ConsonantOutcome
<1> QED BY <1>5, OutcomeShape

LEMMA VowelShape ==
  ASSUME NEW a, IsAutomaton(a), NEW code \in SimpleVowel, NEW r, VowelOutcome(a, code, r)
  PROVE  IsAutomaton(r.automata)
<1>1. Shape(a.state, a.buffer)
  BY DEF IsAutomaton
<1>2. /\ Shape("JUNG1", Jamo(code))
      /\ \A cho \in PREF_CHO \cup {None} :
           Shape("JUNG1", [cho |-> cho, jung |-> code, jong |-> None])
  BY LoneShape DEF Shape
<1>3. ASSUME a.state = "CHO1" PROVE Shape("JUNG1", [a.buffer EXCEPT !.jung = code])
  <2>1. a.buffer \in [cho : PREF_CHO, jung : {None}, jong : {None}]
    BY <1>1, <1>3 DEF Shape
  <2> QED BY <1>3, <2>1 DEF Shape
<1>4. ASSUME a.state = "JUNG1", NEW both \in Diphthong
      PROVE  Shape("JUNG2", [a.buffer EXCEPT !.jung = both])
  <2>1. a.buffer \in [cho : PREF_CHO \cup {None}, jung : SimpleVowel, jong : {None}]
    BY <1>1, <1>4 DEF Shape
  <2> QED BY <2>1 DEF Shape
<1>5. \E state, b, completed :
        Shape(state, b) /\ (Joins(r, state, b) \/ Starts(r, state, b, completed))
  BY <1>2, <1>3, <1>4, Zenon DEF VowelOutcome
<1> QED BY <1>5, OutcomeShape

\* appendCharacter leaves an automaton behind whose buffer has the letters its state says.
LEMMA AppendShape ==
  ASSUME NEW a, IsAutomaton(a), NEW code \in TypedLetter
  PROVE  IsAutomaton(AppendLetter(a, code).automata)
<1> DEFINE r == AppendLetter(a, code)
<1>2. ASSUME code \in PREF_CHO PROVE IsAutomaton(r.automata)
  <2>1. ConsonantOutcome(a, code, r)
    BY <1>2, Consonants
  <2> HIDE DEF r
  <2> QED BY <1>2, <2>1, ConsonantShape
<1>3. ASSUME code \in SimpleVowel PROVE IsAutomaton(r.automata)
  <2>1. VowelOutcome(a, code, r)
    BY <1>3, Vowels
  <2> HIDE DEF r
  <2> QED BY <1>3, <2>1, VowelShape
<1> QED BY <1>2, <1>3, Letterkinds

\* An automaton that shows nothing is empty.
LEMMA ShowsNothing ==
  ASSUME NEW a, IsAutomaton(a), a.working = NoChar
  PROVE  a = Reset
<1>1. a.buffer.cho = None /\ a.buffer.jung = None
  <2>1. ASSUME NEW b \in [cho : Consonant \cup {None}, jung : PREF_JUNG \cup {None},
                          jong : Consonant \cup {None}]
        PROVE  makeHangul(b).cho = b.cho /\ makeHangul(b).jung = b.jung
    BY DEF makeHangul
  <2>2. NoChar.cho = None /\ NoChar.jung = None
    BY DEF NoChar
  <2> QED BY <2>1, <2>2, BufferKind DEF IsAutomaton
<1>2. a.state = "NONE" /\ a.buffer = NoChar
  BY <1>1, Letterkinds DEF IsAutomaton, Shape, Consonant
<1> QED BY <1>2 DEF IsAutomaton, Reset

\* The character it shows is one of those the text is made of.
LEMMA ShownCharacter ==
  ASSUME NEW a, IsAutomaton(a)
  PROVE  a.working \in Character
<1>1. ASSUME NEW b \in [cho : Consonant \cup {None}, jung : PREF_JUNG \cup {None},
                        jong : Consonant \cup {None}]
      PROVE  makeHangul(b) \in Character
  BY DEF makeHangul, Character
<1> QED BY <1>1, BufferKind DEF IsAutomaton

------------------------------------------------------------------------------
(* deleteCharacter undoes appendCharacter *)

LEMMA FirstOfComposed ==
  ASSUME NEW pairs, NEW v1, NEW v2, Composed(pairs, v1, v2) # None,
         \A p, q \in pairs : p[3] = q[3] => p[1] = q[1] /\ p[2] = q[2]
  PROVE  FirstLetter(pairs, Composed(pairs, v1, v2)) = v1
<1> DEFINE both == Composed(pairs, v1, v2)
<1>1. PICK p \in pairs : p[1] = v1 /\ p[3] = both
  BY ComposedFound
<1> HIDE DEF both
<1>2. (CHOOSE q \in pairs : q[3] = both) \in pairs
      /\ (CHOOSE q \in pairs : q[3] = both)[3] = both
  BY <1>1
<1>3. (CHOOSE q \in pairs : q[3] = both)[1] = v1
  BY <1>1, <1>2
<1>4. FirstLetter(pairs, both) = v1
  BY <1>1, <1>3 DEF FirstLetter
<1> QED BY <1>4 DEF both

\* The automaton a letter that joins leaves behind.
LEMMA JoinsIs ==
  ASSUME NEW r, NEW state, NEW b, Joins(r, state, b)
  PROVE  r.automata = [state |-> state, buffer |-> b, working |-> makeHangul(b)]
BY DEF Joins, Done

LEMMA StartsIs ==
  ASSUME NEW r, NEW state, NEW b, NEW completed, Starts(r, state, b, completed)
  PROVE  r.completed # NoChar
BY DEF Starts, Done

LEMMA ConsonantUndone ==
  ASSUME NEW a, IsAutomaton(a), NEW code \in PREF_CHO, NEW r, ConsonantOutcome(a, code, r),
         r.completed = NoChar
  PROVE  deleteCharacter(r.automata) = a
<1> DEFINE b == a.buffer
<1>1. Shape(a.state, b) /\ a.working = makeHangul(b)
      /\ a = [state |-> a.state, buffer |-> b, working |-> a.working]
  BY DEF IsAutomaton
<1>2. Jamo(None) = NoChar /\ makeHangul(NoChar) = NoChar
  BY Letterkinds DEF Jamo, NoChar, makeHangul
<1>3. CASE a.state = "NONE" /\ Joins(r, "CHO1", Jamo(code))
  <2>1. b = NoChar
    BY <1>1, <1>3 DEF Shape
  <2> DEFINE c == Jamo(code)
  <2>2. [c EXCEPT !.cho = None] = NoChar
    BY LoneConsonant DEF Consonant, NoChar
  <2>3. r.automata = [state |-> "CHO1", buffer |-> c, working |-> makeHangul(c)]
    BY <1>3, JoinsIs
  <2> HIDE DEF c
  <2>4. deleteCharacter(r.automata) = [state |-> "NONE", buffer |-> NoChar, working |-> NoChar]
    BY <1>2, <2>2, <2>3 DEF deleteCharacter
  <2> QED BY <1>1, <1>2, <1>3, <2>1, <2>4
<1>4. CASE a.state = "CHO1" /\ \E both \in Cluster :
             both = getJongseongPair(b.cho, code) /\ Joins(r, "CHO2", Jamo(both))
  <2>1. PICK both \in Cluster :
          both = getJongseongPair(b.cho, code) /\ Joins(r, "CHO2", Jamo(both))
    BY <1>4
  <2>2. b \in [cho : PREF_CHO, jung : {None}, jong : {None}]
    BY <1>1, <1>4 DEF Shape
  <2>3. both # None /\ both \in Consonant /\ b.cho \in Consonant /\ b.cho # None
    BY <2>2, Letterkinds DEF Consonant
  <2>4. FirstLetter(JongseongPair, both) = b.cho
    BY <2>1, <2>3, FirstOfComposed, ComposedOnce DEF getJongseongPair
  <2> DEFINE c == Jamo(both)
  <2>5. [c EXCEPT !.cho = b.cho] = b /\ c.cho = both
    BY <2>2, <2>3, LoneConsonant
  <2>6. makeHangul(b) = Jamo(b.cho)
    BY <2>2, <2>3, LoneConsonant
  <2>7. r.automata = [state |-> "CHO2", buffer |-> c, working |-> makeHangul(c)]
    BY <2>1, JoinsIs
  <2> HIDE DEF c
  <2>8. deleteCharacter(r.automata) = [state |-> "CHO1", buffer |-> b, working |-> Jamo(b.cho)]
    BY <2>3, <2>4, <2>5, <2>7 DEF deleteCharacter
  <2> QED BY <1>1, <1>4, <2>6, <2>8
<1>5. CASE Ends(a, code) /\ Joins(r, "JONG1", [b EXCEPT !.jong = code])
  <2>1. /\ b \in [cho : PREF_CHO, jung : PREF_JUNG, jong : {None}]
        /\ a.state = IF b.jung \in Diphthong THEN "JUNG2" ELSE "JUNG1"
    BY <1>1, <1>5, Letterkinds DEF Ends, Shape, SimpleVowel
  <2>2. StateOfVowel(b.jung) = a.state
    BY <2>1 DEF StateOfVowel, isJungseongPair, Diphthong
  <2> DEFINE c == [b EXCEPT !.jong = code]
  <2>3. [c EXCEPT !.jong = None] = b /\ c.jung = b.jung
    BY <2>1
  <2>4. r.automata = [state |-> "JONG1", buffer |-> c, working |-> makeHangul(c)]
    BY <1>5, JoinsIs
  <2> HIDE DEF c
  <2>5. deleteCharacter(r.automata) = [state |-> a.state, buffer |-> b, working |-> makeHangul(b)]
    BY <2>2, <2>3, <2>4 DEF deleteCharacter
  <2> QED BY <1>1, <2>5
<1>6. CASE a.state = "JONG1" /\ \E both \in Cluster :
             /\ both = getJongseongPair(b.jong, code)
             /\ Joins(r, "JONG2", [b EXCEPT !.jong = both])
  <2>1. PICK both \in Cluster : /\ both = getJongseongPair(b.jong, code)
                                /\ Joins(r, "JONG2", [b EXCEPT !.jong = both])
    BY <1>6
  <2>2. b \in [cho : PREF_CHO, jung : PREF_JUNG, jong : PREF_CHO]
    BY <1>1, <1>6 DEF Shape
  <2>3. both # None /\ b.jong # None
    BY <2>2, Letterkinds
  <2>4. FirstLetter(JongseongPair, both) = b.jong
    BY <2>1, <2>3, FirstOfComposed, ComposedOnce DEF getJongseongPair
  <2> DEFINE c == [b EXCEPT !.jong = both]
  <2>5. [c EXCEPT !.jong = b.jong] = b /\ c.jong = both
    BY <2>2
  <2>6. r.automata = [state |-> "JONG2", buffer |-> c, working |-> makeHangul(c)]
    BY <2>1, JoinsIs
  <2> HIDE DEF c
  <2>7. deleteCharacter(r.automata) = [state |-> "JONG1", buffer |-> b, working |-> makeHangul(b)]
    BY <2>3, <2>4, <2>5, <2>6 DEF deleteCharacter
  <2> QED BY <1>1, <1>6, <2>7
<1>7. ~Starts(r, "CHO1", Jamo(code), makeHangul(b))
  BY StartsIs
<1> QED BY <1>3, <1>4, <1>5, <1>6, <1>7, Zenon DEF ConsonantOutcome

LEMMA VowelUndone ==
  ASSUME NEW a, IsAutomaton(a), NEW code \in SimpleVowel, NEW r, VowelOutcome(a, code, r),
         r.completed = NoChar
  PROVE  deleteCharacter(r.automata) = a
<1> DEFINE b == a.buffer
<1>1. Shape(a.state, b) /\ a.working = makeHangul(b)
      /\ a = [state |-> a.state, buffer |-> b, working |-> a.working]
  BY DEF IsAutomaton
<1>2. Jamo(None) = NoChar /\ makeHangul(NoChar) = NoChar /\ code \in PREF_JUNG
  BY Letterkinds DEF Jamo, NoChar, makeHangul
<1>3. CASE a.state = "NONE" /\ Joins(r, "JUNG1", Jamo(code))
  <2>1. b = NoChar
    BY <1>1, <1>3 DEF Shape
  <2> DEFINE c == Jamo(code)
  <2>2. [c EXCEPT !.jung = None] = NoChar /\ c.cho = None
    BY <1>2, LoneVowel DEF NoChar
  <2>3. r.automata = [state |-> "JUNG1", buffer |-> c, working |-> makeHangul(c)]
    BY <1>3, JoinsIs
  <2> HIDE DEF c
  <2>4. deleteCharacter(r.automata) = [state |-> "NONE", buffer |-> NoChar, working |-> NoChar]
    BY <1>2, <2>2, <2>3 DEF deleteCharacter
  <2> QED BY <1>1, <1>2, <1>3, <2>1, <2>4
<1>4. CASE a.state = "CHO1" /\ Joins(r, "JUNG1", [b EXCEPT !.jung = code])
  <2>1. b \in [cho : PREF_CHO, jung : {None}, jong : {None}]
    BY <1>1, <1>4 DEF Shape
  <2>2. b.cho \in Consonant /\ b.cho # None
    BY <2>1, Letterkinds DEF Consonant
  <2>3. makeHangul(b) = Jamo(b.cho)
    BY <2>1, <2>2, LoneConsonant
  <2> DEFINE c == [b EXCEPT !.jung = code]
  <2>4. [c EXCEPT !.jung = None] = b /\ c.cho = b.cho
    BY <2>1
  <2>5. r.automata = [state |-> "JUNG1", buffer |-> c, working |-> makeHangul(c)]
    BY <1>4, JoinsIs
  <2> HIDE DEF c
  <2>6. deleteCharacter(r.automata) = [state |-> "CHO1", buffer |-> b, working |-> Jamo(b.cho)]
    BY <2>2, <2>4, <2>5 DEF deleteCharacter
  <2> QED BY <1>1, <1>4, <2>3, <2>6
<1>5. CASE a.state = "JUNG1" /\ \E both \in Diphthong :
             /\ both = getJungseongPair(b.jung, code)
             /\ Joins(r, "JUNG2", [b EXCEPT !.jung = both])
  <2>1. PICK both \in Diphthong : /\ both = getJungseongPair(b.jung, code)
                                  /\ Joins(r, "JUNG2", [b EXCEPT !.jung = both])
    BY <1>5
  <2>2. b \in [cho : PREF_CHO \cup {None}, jung : SimpleVowel, jong : {None}]
    BY <1>1, <1>5 DEF Shape
  <2>3. both # None /\ b.jung # None /\ b.jung \in PREF_JUNG
    BY <2>2, Letterkinds
  <2>4. FirstLetter(JungseongPair, both) = b.jung
    BY <2>1, <2>3, FirstOfComposed, ComposedOnce DEF getJungseongPair
  <2> DEFINE c == [b EXCEPT !.jung = both]
  <2>5. [c EXCEPT !.jung = b.jung] = b /\ c.jung = both /\ c.cho = b.cho
    BY <2>2
  <2>6. r.automata = [state |-> "JUNG2", buffer |-> c, working |-> makeHangul(c)]
    BY <2>1, JoinsIs
  <2>7. b.cho = None => makeHangul(b) = Jamo(b.jung)
    <3>1. b.cho = None => b = Jamo(b.jung)
      BY <2>2, <2>3, LoneVowel
    <3> QED BY <2>3, <3>1, LoneVowel
  <2> HIDE DEF c
  <2>8. deleteCharacter(r.automata)
          = [state |-> "JUNG1", buffer |-> b,
             working |-> IF b.cho # None THEN makeHangul(b) ELSE Jamo(b.jung)]
    BY <2>3, <2>4, <2>5, <2>6 DEF deleteCharacter
  <2> QED BY <1>1, <1>5, <2>7, <2>8
<1>6. ~\E cho \in PREF_CHO \cup {None} : \E completed :
         Starts(r, "JUNG1", [cho |-> cho, jung |-> code, jong |-> None], completed)
  BY StartsIs
<1> QED BY <1>3, <1>4, <1>5, <1>6, Zenon DEF VowelOutcome

------------------------------------------------------------------------------
(* No letter is lost *)

\* A letter more is one at the end.
LEMMA LetterAdded ==
  ASSUME NEW s \in Seq(Int), NEW t \in Seq(Int), NEW code \in Int
  PROVE  /\ Append(s, code) = s \o <<code>>
         /\ s \o Append(t, code) = Append(s \o t, code)
         /\ << >> \o s = s /\ s \o << >> = s /\ Append(<< >>, code) = <<code>>
<1>1. /\ <<code>> \in Seq(Int) /\ << >> \in Seq(Int)
      /\ \A u \in Seq(Int) : Append(u, code) = u \o <<code>>
  BY AppendIsConcat
<1>2. s \o t \in Seq(Int)
  BY ConcatProperties
<1>3. (s \o t) \o <<code>> = s \o (t \o <<code>>)
  BY <1>1, ConcatAssociative
<1>4. << >> \o s = s /\ s \o << >> = s /\ << >> \o <<code>> = <<code>>
  BY <1>1, ConcatEmptySeq
<1> QED BY <1>1, <1>2, <1>3, <1>4

\* A buffer is shown as it is, unless it hides a final consonant.
LEMMA NotHidden ==
  ASSUME NEW a, IsAutomaton(a), ~HiddenFinal(a)
  PROVE  makeHangul(a.buffer) = a.buffer
<1>1. \A b \in [cho : Consonant \cup {None}, jung : PREF_JUNG \cup {None}, jong : PREF_JONG \cup {None}] :
        makeHangul(b) = b
  BY Letterkinds DEF makeHangul
<1>2. a.buffer \in [cho : Consonant \cup {None}, jung : PREF_JUNG \cup {None},
                    jong : Consonant \cup {None}]
  BY BufferKind
<1>3. a.buffer.jong \in PREF_JONG \cup {None}
  BY DEF HiddenFinal
<1> QED BY <1>1, <1>2, <1>3

\* The keys of a composition are those of its buffer.
LEMMA KeysAre ==
  ASSUME NEW a, IsAutomaton(a)
  PROVE  Keys(a) = decode(a.buffer) /\ Keys(a) \in Seq(Int)
<1> DEFINE b == a.buffer
<1>1. b = [cho |-> b.cho, jung |-> b.jung, jong |-> b.jong]
      /\ b.cho \in Consonant \cup {None} /\ b.jung \in PREF_JUNG \cup {None}
      /\ b.jong \in Consonant \cup {None}
  BY BufferKind
<1>2. decode(b) \in Seq(Int) /\ decode(b) = (ConsonantKeys(b.cho) \o VowelKeys(b.jung)) \o ConsonantKeys(b.jong)
  <2>1. ASSUME NEW c \in Consonant \cup {None}, NEW v \in PREF_JUNG \cup {None},
               NEW j \in Consonant \cup {None}
        PROVE  /\ decode([cho |-> c, jung |-> v, jong |-> j]) \in Seq(Int)
               /\ decode([cho |-> c, jung |-> v, jong |-> j])
                    = (ConsonantKeys(c) \o VowelKeys(v)) \o ConsonantKeys(j)
    BY Decoded
  <2>2. decode(b) = decode([cho |-> b.cho, jung |-> b.jung, jong |-> b.jong])
    BY <1>1, Zenon
  <2> QED BY <1>1, <2>1, <2>2
<1>3. CASE ~HiddenFinal(a)
  <2>1. Keys(a) = decode(b) \o << >>
    BY <1>3, NotHidden DEF Keys
  <2> QED BY <1>2, <2>1, ConcatEmptySeq
<1>4. CASE HiddenFinal(a)
  <2>1. b.jong \in PREF_CHO /\ b.jong \notin PREF_JONG
    BY <1>1, <1>4, Letterkinds DEF HiddenFinal, Consonant
  <2>2. makeHangul(b) = [cho |-> b.cho, jung |-> b.jung, jong |-> None]
    <3>1. makeHangul([cho |-> b.cho, jung |-> b.jung, jong |-> b.jong])
            = [cho |-> b.cho, jung |-> b.jung, jong |-> None]
      BY <2>1 DEF makeHangul
    <3> QED BY <1>1, <3>1
  <2>3. decode(makeHangul(b)) = ConsonantKeys(b.cho) \o VowelKeys(b.jung)
    BY <1>1, <2>2, DecodedOpen
  <2>4. ConsonantKeys(b.jong) = <<b.jong>>
    BY <2>1, KeysOfLetter
  <2> QED BY <1>2, <1>4, <2>3, <2>4 DEF Keys
<1> QED BY <1>3, <1>4

\* Nothing is completed: the letter must be in the buffer.
LEMMA JoinKept ==
  ASSUME NEW a, IsAutomaton(a), NEW code \in Int, NEW r, IsAutomaton(r.automata),
         NEW state, NEW b, Joins(r, state, b), decode(b) = Append(decode(a.buffer), code)
  PROVE  decode(r.completed) \o Keys(r.automata) = Append(Keys(a), code)
<1>1. r.completed = NoChar /\ r.automata.buffer = b
  BY DEF Joins, Done
<1>2. Keys(r.automata) = decode(b) /\ Keys(r.automata) \in Seq(Int) /\ Keys(a) = decode(a.buffer)
  BY <1>1, KeysAre
<1> QED BY <1>1, <1>2, DecodedLetter, ConcatEmptySeq

\* What is completed and what is started are the letters there were and the letter.
LEMMA StartKept ==
  ASSUME NEW a, IsAutomaton(a), NEW code \in Int, NEW r, IsAutomaton(r.automata),
         NEW state, NEW b, NEW completed, Starts(r, state, b, completed),
         NEW s \in Seq(Int), decode(b) = Append(s, code),
         decode(completed) \in Seq(Int), decode(completed) \o s = decode(a.buffer)
  PROVE  decode(r.completed) \o Keys(r.automata) = Append(Keys(a), code)
<1>1. r.completed = completed /\ r.automata.buffer = b
  BY DEF Starts, Done
<1>2. Keys(r.automata) = decode(b) /\ Keys(a) = decode(a.buffer)
  BY <1>1, KeysAre
<1>3. ASSUME NEW d \in Seq(Int) PROVE d \o Append(s, code) = Append(d \o s, code)
  BY LetterAdded
<1>4. decode(completed) \o Append(s, code) = Append(decode(completed) \o s, code)
  BY <1>3
<1>5. decode(r.completed) \o Keys(r.automata) = decode(completed) \o Append(s, code)
  BY <1>1, <1>2
<1> QED BY <1>2, <1>4, <1>5

\* A consonant is kept.
LEMMA ConsonantKept ==
  ASSUME NEW a, IsAutomaton(a), NEW code \in PREF_CHO, NEW r, ConsonantOutcome(a, code, r),
         IsAutomaton(r.automata), ~HiddenFinal(a)
  PROVE  decode(r.completed) \o Keys(r.automata) = Append(Keys(a), code)
<1> DEFINE b == a.buffer
           front == ConsonantKeys(b.cho) \o VowelKeys(b.jung)
<1>1. /\ b = [cho |-> b.cho, jung |-> b.jung, jong |-> b.jong]
      /\ b.cho \in Consonant \cup {None} /\ b.jung \in PREF_JUNG \cup {None}
      /\ b.jong \in Consonant \cup {None}
  BY BufferKind
<1>2. /\ front \in Seq(Int) /\ decode(b) = front \o ConsonantKeys(b.jong) /\ decode(b) \in Seq(Int)
      /\ \A x \in Consonant \cup {None} :
           decode([cho |-> b.cho, jung |-> b.jung, jong |-> x]) = front \o ConsonantKeys(x)
  <2>1. ASSUME NEW x \in Consonant \cup {None}
        PROVE  /\ decode([cho |-> b.cho, jung |-> b.jung, jong |-> x]) = front \o ConsonantKeys(x)
               /\ front \in Seq(Int)
               /\ decode([cho |-> b.cho, jung |-> b.jung, jong |-> x]) \in Seq(Int)
    BY <1>1, Decoded
  <2>2. decode(b) = decode([cho |-> b.cho, jung |-> b.jung, jong |-> b.jong])
    BY <1>1, Zenon
  <2> HIDE DEF front
  <2> QED BY <1>1, <2>1, <2>2
<1>3. code \in Int /\ ConsonantKeys(code) = <<code>> /\ code \in Consonant
  BY ConsonantsAreNumbers, KeysOfLetter DEF Consonant
<1>4. Shape(a.state, b)
  BY DEF IsAutomaton
<1>5. decode(Jamo(code)) = <<code>> /\ << >> \in Seq(Int) /\ Append(<< >>, code) = <<code>>
  BY <1>3, DecodedLetter, LetterAdded
<1>6. CASE a.state = "NONE" /\ Joins(r, "CHO1", Jamo(code))
  <2>1. decode(b) = << >>
    BY <1>4, <1>6, DecodedLetter DEF Shape
  <2> QED BY <1>3, <1>5, <1>6, <2>1, JoinKept
<1>7. CASE a.state = "CHO1" /\ \E both \in Cluster :
             both = getJongseongPair(b.cho, code) /\ Joins(r, "CHO2", Jamo(both))
  <2>1. PICK both \in Cluster : both = getJongseongPair(b.cho, code) /\ Joins(r, "CHO2", Jamo(both))
    BY <1>7
  <2>2. b.cho \in PREF_CHO /\ b = Jamo(b.cho) /\ b.cho \in Consonant /\ b.cho \in Int
    <3>1. b \in [cho : PREF_CHO, jung : {None}, jong : {None}]
      BY <1>4, <1>7 DEF Shape
    <3> QED BY <3>1, LoneConsonant, ConsonantsAreNumbers DEF Consonant
  <2>3. decode(b) = <<b.cho>>
    BY <2>2, DecodedLetter, KeysOfLetter
  <2>4. decode(Jamo(both)) = <<b.cho, code>>
    <3>1. both # None /\ both \in Consonant
      BY Letterkinds DEF Consonant
    <3> QED BY <2>1, <3>1, DecodedLetter, KeysOfComposed
  <2>5. Append(<<b.cho>>, code) = <<b.cho, code>>
    BY <1>3, <2>2, TwoLetters
  <2> QED BY <1>3, <2>1, <2>3, <2>4, <2>5, JoinKept
<1>8. CASE Ends(a, code) /\ Joins(r, "JONG1", [b EXCEPT !.jong = code])
  <2>1. b.jong = None
    BY <1>4, <1>8 DEF Ends, Shape
  <2>2. decode(b) = front
    BY <1>2, <2>1, KeysOfLetter, ConcatEmptySeq
  <2>3. [b EXCEPT !.jong = code] = [cho |-> b.cho, jung |-> b.jung, jong |-> code]
    BY <1>1
  <2>4. decode([b EXCEPT !.jong = code]) = front \o <<code>>
    BY <1>2, <1>3, <2>3
  <2>5. front \o <<code>> = Append(front, code)
    BY <1>2, <1>3, LetterAdded
  <2> HIDE DEF front
  <2>6. decode([b EXCEPT !.jong = code]) = Append(decode(b), code)
    BY <2>2, <2>4, <2>5
  <2> QED BY <1>3, <1>8, <2>6, JoinKept
<1>9. CASE a.state = "JONG1" /\ \E both \in Cluster :
             /\ both = getJongseongPair(b.jong, code)
             /\ Joins(r, "JONG2", [b EXCEPT !.jong = both])
  <2>1. PICK both \in Cluster : /\ both = getJongseongPair(b.jong, code)
                                /\ Joins(r, "JONG2", [b EXCEPT !.jong = both])
    BY <1>9
  <2>2. b.jong \in PREF_CHO /\ b.jong \in Int
    BY <1>4, <1>9, ConsonantsAreNumbers DEF Shape
  <2>3. decode(b) = front \o <<b.jong>> /\ <<b.jong>> \in Seq(Int)
    <3>1. <<b.jong>> \in Seq(Int)
      BY <2>2, TwoLetters
    <3>2. ConsonantKeys(b.jong) = <<b.jong>>
      BY <2>2, KeysOfLetter
    <3> QED BY <1>2, <3>1, <3>2
  <2>4. decode([b EXCEPT !.jong = both]) = front \o <<b.jong, code>>
    <3>1. both # None /\ both \in Consonant \cup {None}
      BY Letterkinds DEF Consonant
    <3>2. [b EXCEPT !.jong = both] = [cho |-> b.cho, jung |-> b.jung, jong |-> both]
      BY <1>1
    <3>3. ConsonantKeys(both) = <<b.jong, code>>
      BY <2>1, <3>1, KeysOfComposed
    <3> QED BY <1>2, <3>1, <3>2, <3>3
  <2>5. Append(<<b.jong>>, code) = <<b.jong, code>>
    BY <1>3, <2>2, TwoLetters
  <2>6. front \o Append(<<b.jong>>, code) = Append(front \o <<b.jong>>, code)
    <3>1. front \in Seq(Int) /\ <<b.jong>> \in Seq(Int) /\ code \in Int
      BY <1>2, <1>3, <2>3
    <3> HIDE DEF front
    <3> QED BY <3>1, LetterAdded
  <2> HIDE DEF front
  <2>7. decode([b EXCEPT !.jong = both]) = Append(decode(b), code)
    BY <2>3, <2>4, <2>5, <2>6
  <2> QED BY <1>3, <2>1, <2>7, JoinKept, Zenon
<1>10. CASE Starts(r, "CHO1", Jamo(code), makeHangul(b))
  <2>1. makeHangul(b) = b
    BY NotHidden
  <2>2. decode(b) \o << >> = decode(b)
    BY <1>2, ConcatEmptySeq
  <2>3. Starts(r, "CHO1", Jamo(code), b) /\ decode(b) \in Seq(Int) /\ decode(Jamo(code)) = Append(<< >>, code)
    BY <1>2, <1>5, <1>10, <2>1
  <2> QED BY <1>3, <1>5, <2>2, <2>3, StartKept
<1> QED BY <1>6, <1>7, <1>8, <1>9, <1>10, Zenon DEF ConsonantOutcome

\* A vowel is kept, and so is the consonant it takes along.
LEMMA VowelKept ==
  ASSUME NEW a, IsAutomaton(a), NEW code \in SimpleVowel, NEW r, VowelOutcome(a, code, r),
         IsAutomaton(r.automata)
  PROVE  decode(r.completed) \o Keys(r.automata) = Append(Keys(a), code)
<1> DEFINE b == a.buffer
<1>1. code \in PREF_JUNG /\ code \in Int /\ VowelKeys(code) = <<code>>
  <2>1. PREF_JUNG \subseteq Int
    BY DEF PREF_JUNG
  <2> QED BY <2>1, Letterkinds, KeysOfLetter
<1>2. Shape(a.state, b)
  BY DEF IsAutomaton
<1>3. decode(Jamo(code)) = <<code>> /\ << >> \in Seq(Int) /\ Append(<< >>, code) = <<code>>
  BY <1>1, DecodedLetter, LetterAdded
<1>4. ASSUME NEW cho \in PREF_CHO \cup {None}
      PROVE  /\ ConsonantKeys(cho) \in Seq(Int)
             /\ decode([cho |-> cho, jung |-> code, jong |-> None]) = Append(ConsonantKeys(cho), code)
  <2>1. ConsonantKeys(cho) \in Seq(Int)
    BY KeysTyped DEF Consonant
  <2>2. decode([cho |-> cho, jung |-> code, jong |-> None]) = ConsonantKeys(cho) \o <<code>>
    BY <1>1, DecodedOpen DEF Consonant
  <2> QED BY <1>1, <2>1, <2>2, LetterAdded
<1>5. CASE a.state = "NONE" /\ Joins(r, "JUNG1", Jamo(code))
  <2>1. decode(b) = << >>
    BY <1>2, <1>5, DecodedLetter DEF Shape
  <2> QED BY <1>1, <1>3, <1>5, <2>1, JoinKept
<1>6. CASE a.state = "CHO1" /\ Joins(r, "JUNG1", [b EXCEPT !.jung = code])
  <2>1. b \in [cho : PREF_CHO, jung : {None}, jong : {None}]
    BY <1>2, <1>6 DEF Shape
  <2>2. b = Jamo(b.cho) /\ b.cho \in Consonant
    BY <2>1, LoneConsonant DEF Consonant
  <2>3. decode(b) = ConsonantKeys(b.cho)
    BY <2>2, DecodedLetter
  <2>4. [b EXCEPT !.jung = code] = [cho |-> b.cho, jung |-> code, jong |-> None]
    BY <2>1
  <2>5. decode([b EXCEPT !.jung = code]) = Append(decode(b), code)
    BY <1>4, <2>1, <2>3, <2>4
  <2> QED BY <1>1, <1>6, <2>5, JoinKept
<1>7. CASE a.state = "JUNG1" /\ \E both \in Diphthong :
             /\ both = getJungseongPair(b.jung, code)
             /\ Joins(r, "JUNG2", [b EXCEPT !.jung = both])
  <2>1. PICK both \in Diphthong : /\ both = getJungseongPair(b.jung, code)
                                  /\ Joins(r, "JUNG2", [b EXCEPT !.jung = both])
    BY <1>7
  <2>2. b \in [cho : PREF_CHO \cup {None}, jung : SimpleVowel, jong : {None}]
    BY <1>2, <1>7 DEF Shape
  <2>3. both # None /\ both \in PREF_JUNG /\ b.jung \in PREF_JUNG /\ b.jung \in Int
    <3>1. both \in PREF_JUNG /\ b.jung \in PREF_JUNG /\ both # None
      BY <2>2, Letterkinds
    <3> QED BY <3>1 DEF PREF_JUNG
  <2>4. VowelKeys(b.jung) = <<b.jung>> /\ VowelKeys(both) = <<b.jung, code>> /\ <<b.jung>> \in Seq(Int)
    BY <2>1, <2>2, <2>3, KeysOfLetter, KeysOfComposed
  <2>5. [b EXCEPT !.jung = both] = [cho |-> b.cho, jung |-> both, jong |-> None]
        /\ b = [cho |-> b.cho, jung |-> b.jung, jong |-> None]
        /\ b.cho \in Consonant \cup {None}
    BY <2>2 DEF Consonant
  <2>6. decode(b) = ConsonantKeys(b.cho) \o <<b.jung>>
        /\ decode([b EXCEPT !.jung = both]) = ConsonantKeys(b.cho) \o <<b.jung, code>>
    <3>1. ASSUME NEW v \in PREF_JUNG
          PROVE  decode([cho |-> b.cho, jung |-> v, jong |-> None]) = ConsonantKeys(b.cho) \o VowelKeys(v)
      BY <2>5, DecodedOpen
    <3>2. decode(b) = ConsonantKeys(b.cho) \o VowelKeys(b.jung)
      BY <2>3, <2>5, <3>1
    <3>3. decode([b EXCEPT !.jung = both]) = ConsonantKeys(b.cho) \o VowelKeys(both)
      BY <2>3, <2>5, <3>1
    <3> QED BY <2>4, <3>2, <3>3
  <2>7. Append(<<b.jung>>, code) = <<b.jung, code>>
    BY <1>1, <2>3, TwoLetters
  <2>8. ConsonantKeys(b.cho) \o Append(<<b.jung>>, code) = Append(ConsonantKeys(b.cho) \o <<b.jung>>, code)
    BY <1>1, <2>4, <2>5, KeysTyped, LetterAdded
  <2>9. decode([b EXCEPT !.jung = both]) = Append(decode(b), code)
    BY <2>6, <2>7, <2>8
  <2> QED BY <1>1, <2>1, <2>9, JoinKept, Zenon
<1>8. CASE \E cho \in PREF_CHO \cup {None} : \E completed :
             /\ Starts(r, "JUNG1", [cho |-> cho, jung |-> code, jong |-> None], completed)
             /\ TakesAlong(b, cho, completed)
  BY <1>1, <1>4, <1>8, StartKept DEF TakesAlong
<1> QED BY <1>5, <1>6, <1>7, <1>8, Zenon DEF VowelOutcome

------------------------------------------------------------------------------
(* No longer character is missed *)

AllIn(s, S) == \A i \in 1 .. Len(s) : s[i] \in S

\* A final consonant is one key, or a cluster.
LEMMA FinalConsonants == PREF_JONG \subseteq Consonant
<1>1. ASSUME NEW v \in PREF_JONG, v \notin PREF_CHO
      PROVE  v \in {12595, 12597, 12598, 12602, 12603, 12604, 12605, 12606, 12607, 12608, 12612}
  BY <1>1 DEF PREF_JONG, PREF_CHO
<1>2. \A v \in {12595, 12597, 12598, 12602, 12603, 12604, 12605, 12606, 12607, 12608, 12612} :
        \E p \in JongseongPair : p[3] = v
  BY DEF JongseongPair
<1> QED BY <1>1, <1>2 DEF Consonant, Cluster

\* The keys of a consonant are one consonant, or the two of its pair.
LEMMA ConsonantKeysAre ==
  ASSUME NEW c \in Consonant
  PROVE  \/ c \in PREF_CHO /\ ConsonantKeys(c) = <<c>>
         \/ c \in Cluster /\ \E p \in JongseongPair :
              p[3] = c /\ p[1] \in PREF_CHO /\ p[2] \in PREF_CHO /\ ConsonantKeys(c) = <<p[1], p[2]>>
<1>1. CASE c \in PREF_CHO
  BY <1>1, KeysOfLetter
<1>2. CASE c \in Cluster
  <2>1. PICK p \in JongseongPair : p[3] = c
    BY <1>2 DEF Cluster
  <2> QED BY <1>2, <2>1, JongseongTable, KeysOfPair
<1> QED BY <1>1, <1>2 DEF Consonant

LEMMA VowelKeysAre ==
  ASSUME NEW v \in PREF_JUNG
  PROVE  \/ v \in SimpleVowel /\ VowelKeys(v) = <<v>>
         \/ v \in Diphthong /\ \E p \in JungseongPair :
              p[3] = v /\ p[1] \in PREF_JUNG /\ p[2] \in PREF_JUNG /\ VowelKeys(v) = <<p[1], p[2]>>
<1>1. CASE v \in SimpleVowel
  BY <1>1, KeysOfLetter
<1>2. CASE v \in Diphthong
  <2>1. PICK p \in JungseongPair : p[3] = v
    BY <1>2 DEF Diphthong
  <2>2. p[2] \in PREF_JUNG
    BY DEF JungseongPair, PREF_JUNG
  <2> QED BY <1>2, <2>1, <2>2, JungseongTable, KeysOfPair
<1> QED BY <1>1, <1>2 DEF SimpleVowel

\* The keys of a consonant are consonants, those of a vowel are vowels.
LEMMA KindOfKeys ==
  /\ \A c \in Consonant : AllIn(ConsonantKeys(c), PREF_CHO) /\ Len(ConsonantKeys(c)) \in {1, 2}
  /\ \A v \in PREF_JUNG : AllIn(VowelKeys(v), PREF_JUNG) /\ Len(VowelKeys(v)) \in {1, 2}
<1>1. ASSUME NEW S, NEW x \in S, NEW y \in S
      PROVE  AllIn(<<x>>, S) /\ Len(<<x>>) = 1 /\ AllIn(<<x, y>>, S) /\ Len(<<x, y>>) = 2
  <2>1. \A i \in 1 .. 2 : i = 1 \/ i = 2
    OBVIOUS
  <2>2. \A i \in 1 .. 1 : i = 1
    OBVIOUS
  <2>3. Len(<<x>>) = 1 /\ Len(<<x, y>>) = 2 /\ <<x>>[1] = x /\ <<x, y>>[1] = x /\ <<x, y>>[2] = y
    OBVIOUS
  <2> QED BY <2>1, <2>2, <2>3 DEF AllIn
<1>2. ASSUME NEW c \in Consonant
      PROVE  AllIn(ConsonantKeys(c), PREF_CHO) /\ Len(ConsonantKeys(c)) \in {1, 2}
  <2>1. CASE c \in PREF_CHO /\ ConsonantKeys(c) = <<c>>
    BY <1>1, <2>1
  <2>2. ASSUME NEW p \in JongseongPair, p[1] \in PREF_CHO, p[2] \in PREF_CHO,
               ConsonantKeys(c) = <<p[1], p[2]>>
        PROVE  AllIn(ConsonantKeys(c), PREF_CHO) /\ Len(ConsonantKeys(c)) = 2
    <3>1. AllIn(<<p[1], p[2]>>, PREF_CHO) /\ Len(<<p[1], p[2]>>) = 2
      BY <1>1, <2>2
    <3> QED BY <2>2, <3>1
  <2> QED BY <2>1, <2>2, ConsonantKeysAre
<1>3. ASSUME NEW v \in PREF_JUNG
      PROVE  AllIn(VowelKeys(v), PREF_JUNG) /\ Len(VowelKeys(v)) \in {1, 2}
  <2>1. CASE VowelKeys(v) = <<v>>
    BY <1>1, <2>1
  <2>2. ASSUME NEW p \in JungseongPair, p[1] \in PREF_JUNG, p[2] \in PREF_JUNG,
               VowelKeys(v) = <<p[1], p[2]>>
        PROVE  AllIn(VowelKeys(v), PREF_JUNG) /\ Len(VowelKeys(v)) = 2
    <3>1. AllIn(<<p[1], p[2]>>, PREF_JUNG) /\ Len(<<p[1], p[2]>>) = 2
      BY <1>1, <2>2
    <3> QED BY <2>2, <3>1
  <2> QED BY <2>1, <2>2, VowelKeysAre
<1> QED BY <1>2, <1>3

\* The keys of three parts after each other.
Parts(w, c, v, j) ==
  /\ Len(w) = Len(c) + Len(v) + Len(j)
  /\ \A i \in 1 .. Len(c) : w[i] = c[i]
  /\ \A i \in 1 .. Len(v) : w[Len(c) + i] = v[i]
  /\ \A i \in 1 .. Len(j) : w[Len(c) + Len(v) + i] = j[i]

LEMMA ThreeParts ==
  ASSUME NEW c \in Seq(Int), NEW v \in Seq(Int), NEW j \in Seq(Int)
  PROVE  Parts((c \o v) \o j, c, v, j)
<1> DEFINE front == c \o v
           w     == front \o j
<1>1. /\ Len(front) = Len(c) + Len(v)
      /\ \A i \in 1 .. Len(front) : front[i] = IF i <= Len(c) THEN c[i] ELSE v[i - Len(c)]
  BY ConcatProperties
<1>2. /\ Len(w) = Len(front) + Len(j)
      /\ \A i \in 1 .. Len(w) : w[i] = IF i <= Len(front) THEN front[i] ELSE j[i - Len(front)]
  <2>1. front \in Seq(Int)
    BY ConcatProperties
  <2> HIDE DEF front
  <2> QED BY <2>1, ConcatProperties
<1> HIDE DEF front
<1>3. Len(c) \in Nat /\ Len(v) \in Nat /\ Len(j) \in Nat
  BY LenProperties
<1> HIDE DEF w
<1>4. ASSUME NEW i \in 1 .. Len(c) PROVE w[i] = c[i]
  BY <1>1, <1>2, <1>3
<1>5. ASSUME NEW i \in 1 .. Len(v) PROVE w[Len(c) + i] = v[i]
  <2>1. /\ Len(c) + i \in 1 .. Len(front) /\ ~(Len(c) + i <= Len(c)) /\ (Len(c) + i) - Len(c) = i
        /\ Len(c) + i \in 1 .. Len(w) /\ Len(c) + i <= Len(front)
    BY <1>1, <1>2, <1>3
  <2> QED BY <1>1, <1>2, <2>1
<1>6. ASSUME NEW i \in 1 .. Len(j) PROVE w[Len(c) + Len(v) + i] = j[i]
  <2>1. /\ Len(c) + Len(v) + i \in 1 .. Len(w) /\ ~(Len(c) + Len(v) + i <= Len(front))
        /\ (Len(c) + Len(v) + i) - Len(front) = i
    BY <1>1, <1>2, <1>3
  <2> QED BY <1>2, <2>1
<1>7. Len(w) = Len(c) + Len(v) + Len(j)
  BY <1>1, <1>2
<1> QED BY <1>4, <1>5, <1>6, <1>7 DEF Parts, w, front

\* The first vowel is where the first part ends.
LEMMA PartsBegin ==
  ASSUME NEW w,
         NEW c \in Seq(Int), NEW v \in Seq(Int), NEW j \in Seq(Int), Parts(w, c, v, j),
         AllIn(v, PREF_JUNG), Len(v) # 0,
         NEW d \in Seq(Int), NEW u \in Seq(Int), NEW k \in Seq(Int), Parts(w, d, u, k),
         AllIn(d, PREF_CHO)
  PROVE  ~(Len(c) < Len(d))
<1>1. SUFFICES ASSUME Len(c) < Len(d) PROVE FALSE
  OBVIOUS
<1>2. 1 \in 1 .. Len(v) /\ Len(c) + 1 \in 1 .. Len(d)
  BY <1>1, LenProperties
<1>3. w[Len(c) + 1] = v[1] /\ w[Len(c) + 1] = d[Len(c) + 1]
  BY <1>2 DEF Parts
<1>4. v[1] \in PREF_JUNG /\ d[Len(c) + 1] \in PREF_CHO
  BY <1>2 DEF AllIn
<1> QED BY <1>3, <1>4, Letterkinds

\* A consonant after a vowel is where the second part ends.
LEMMA PartsGoOn ==
  ASSUME NEW w,
         NEW c \in Seq(Int), NEW v \in Seq(Int), NEW j \in Seq(Int), Parts(w, c, v, j),
         AllIn(j, PREF_CHO),
         NEW d \in Seq(Int), NEW u \in Seq(Int), NEW k \in Seq(Int), Parts(w, d, u, k),
         AllIn(u, PREF_JUNG), Len(c) = Len(d)
  PROVE  ~(Len(v) < Len(u))
<1>1. SUFFICES ASSUME Len(v) < Len(u) PROVE FALSE
  OBVIOUS
<1>2. /\ Len(c) \in Nat /\ Len(v) \in Nat /\ Len(j) \in Nat
      /\ Len(u) \in Nat /\ Len(k) \in Nat
  BY LenProperties
<1>3. 1 \in 1 .. Len(j) /\ Len(v) + 1 \in 1 .. Len(u)
  BY <1>1, <1>2 DEF Parts
<1>4. w[Len(c) + Len(v) + 1] = j[1] /\ w[Len(d) + (Len(v) + 1)] = u[Len(v) + 1]
  BY <1>3 DEF Parts
<1>5. Len(c) + Len(v) + 1 = Len(d) + (Len(v) + 1)
  BY <1>2
<1>6. j[1] \in PREF_CHO /\ u[Len(v) + 1] \in PREF_JUNG
  BY <1>3 DEF AllIn
<1> QED BY <1>4, <1>5, <1>6, Letterkinds

\* A vowel is no consonant, so that keys with a vowel in them tell the three parts apart.
LEMMA PartsAreTold ==
  ASSUME NEW w,
         NEW c \in Seq(Int), NEW v \in Seq(Int), NEW j \in Seq(Int), Parts(w, c, v, j),
         AllIn(c, PREF_CHO), AllIn(v, PREF_JUNG), AllIn(j, PREF_CHO), Len(v) # 0,
         NEW d \in Seq(Int), NEW u \in Seq(Int), NEW k \in Seq(Int), Parts(w, d, u, k),
         AllIn(d, PREF_CHO), AllIn(u, PREF_JUNG), AllIn(k, PREF_CHO), Len(u) # 0
  PROVE  c = d /\ v = u /\ j = k
<1>2. /\ Len(c) \in Nat /\ Len(v) \in Nat /\ Len(j) \in Nat
      /\ Len(d) \in Nat /\ Len(u) \in Nat /\ Len(k) \in Nat
  BY LenProperties
<1>3. ~(Len(c) < Len(d)) /\ ~(Len(d) < Len(c))
  BY <1>2, PartsBegin
<1>4. Len(c) = Len(d)
  BY <1>2, <1>3
<1>5. ~(Len(v) < Len(u)) /\ ~(Len(u) < Len(v))
  BY <1>4, PartsGoOn
<1>6. Len(v) = Len(u)
  BY <1>2, <1>5
<1>7. Len(j) = Len(k)
  BY <1>2, <1>4, <1>6 DEF Parts
<1>8. c = d
  <2>1. \A i \in 1 .. Len(c) : c[i] = d[i]
    BY <1>4 DEF Parts
  <2> QED BY <1>4, <2>1, SeqEqual
<1>9. v = u
  <2>1. \A i \in 1 .. Len(v) : v[i] = u[i]
    BY <1>4, <1>6 DEF Parts
  <2> QED BY <1>6, <2>1, SeqEqual
<1>10. j = k
  <2>1. \A i \in 1 .. Len(j) : j[i] = k[i]
    BY <1>4, <1>6, <1>7 DEF Parts
  <2> QED BY <1>7, <2>1, SeqEqual
<1> QED BY <1>8, <1>9, <1>10

\* The parts of keys with a vowel in them, and of keys without.
LEMMA VowelSeen ==
  ASSUME NEW w,
         NEW c \in Seq(Int), NEW v \in Seq(Int), NEW j \in Seq(Int), Parts(w, c, v, j),
         AllIn(v, PREF_JUNG), Len(v) # 0,
         NEW d \in Seq(Int), NEW u \in Seq(Int), NEW k \in Seq(Int), Parts(w, d, u, k),
         AllIn(d, PREF_CHO), AllIn(k, PREF_CHO)
  PROVE  Len(u) # 0
<1>1. SUFFICES ASSUME Len(u) = 0 PROVE FALSE
  OBVIOUS
<1>2. /\ Len(c) \in Nat /\ Len(v) \in Nat /\ Len(j) \in Nat /\ Len(d) \in Nat /\ Len(k) \in Nat
  BY LenProperties
<1>3. 1 \in 1 .. Len(v)
  BY <1>2
<1>4. w[Len(c) + 1] = v[1] /\ v[1] \in PREF_JUNG
  BY <1>3 DEF Parts, AllIn
<1>5. Len(c) + 1 <= Len(d) + Len(k)
  BY <1>1, <1>2 DEF Parts
<1>6. CASE Len(c) + 1 <= Len(d)
  <2>1. Len(c) + 1 \in 1 .. Len(d)
    BY <1>2, <1>6
  <2>2. w[Len(c) + 1] = d[Len(c) + 1] /\ d[Len(c) + 1] \in PREF_CHO
    BY <2>1 DEF Parts, AllIn
  <2> QED BY <1>4, <2>2, Letterkinds
<1>7. CASE ~(Len(c) + 1 <= Len(d))
  <2> DEFINE i == (Len(c) + 1) - Len(d)
  <2>1. i \in 1 .. Len(k) /\ Len(d) + Len(u) + i = Len(c) + 1
    BY <1>1, <1>2, <1>5, <1>7
  <2> HIDE DEF i
  <2>2. w[Len(d) + Len(u) + i] = k[i] /\ k[i] \in PREF_CHO
    BY <2>1 DEF Parts, AllIn
  <2> QED BY <1>4, <2>1, <2>2, Letterkinds
<1> QED BY <1>6, <1>7

\* A vowel that follows a final consonant is in no character.
LEMMA VowelAfterFinal ==
  ASSUME NEW w, NEW code \in PREF_JUNG,
         NEW c \in Seq(Int), NEW v \in Seq(Int), NEW j \in Seq(Int), Parts(w, c, v, Append(j, code)),
         AllIn(v, PREF_JUNG), Len(v) # 0, AllIn(j, PREF_CHO), Len(j) # 0,
         NEW d \in Seq(Int), NEW u \in Seq(Int), NEW k \in Seq(Int), Parts(w, d, u, k),
         AllIn(d, PREF_CHO), AllIn(u, PREF_JUNG), AllIn(k, PREF_CHO)
  PROVE  FALSE
<1>1. /\ Len(c) \in Nat /\ Len(v) \in Nat /\ Len(j) \in Nat
      /\ Len(d) \in Nat /\ Len(u) \in Nat /\ Len(k) \in Nat
  BY LenProperties
<1>2. code \in Int
  BY DEF PREF_JUNG
<1>3. /\ Len(Append(j, code)) = Len(j) + 1
      /\ Append(j, code)[1] = j[1] /\ Append(j, code)[Len(j) + 1] = code
  BY <1>1, <1>2, AppendProperties
<1>4. Len(c) + Len(v) + Len(j) + 1 = Len(d) + Len(u) + Len(k)
  <2>1. ASSUME NEW s, Parts(w, c, v, s), Len(s) = Len(j) + 1
        PROVE  Len(c) + Len(v) + (Len(j) + 1) = Len(d) + Len(u) + Len(k)
    BY <2>1 DEF Parts
  <2>2. Len(c) + Len(v) + (Len(j) + 1) = Len(d) + Len(u) + Len(k)
    BY <1>3, <2>1
  <2> QED BY <1>1, <2>2
<1>5. w[Len(c) + 1] = v[1] /\ v[1] \in PREF_JUNG
  <2>1. 1 \in 1 .. Len(v)
    BY <1>1
  <2> QED BY <2>1 DEF Parts, AllIn
<1>6. w[Len(c) + Len(v) + 1] = j[1] /\ j[1] \in PREF_CHO
  <2>1. 1 \in 1 .. Len(j) /\ 1 \in 1 .. Len(Append(j, code))
    BY <1>1, <1>3
  <2>2. w[Len(c) + Len(v) + 1] = Append(j, code)[1]
    BY <2>1 DEF Parts
  <2> QED BY <1>3, <2>1, <2>2 DEF AllIn
<1>7. w[Len(c) + Len(v) + (Len(j) + 1)] = code
  <2>1. Len(j) + 1 \in 1 .. Len(Append(j, code))
    BY <1>1, <1>3
  <2>2. w[Len(c) + Len(v) + (Len(j) + 1)] = Append(j, code)[Len(j) + 1]
    BY <2>1 DEF Parts
  <2> QED BY <1>3, <2>2
<1>8. Len(k) = 0
  <2>1. SUFFICES ASSUME Len(k) # 0 PROVE FALSE
    OBVIOUS
  <2>2. Len(k) \in 1 .. Len(k) /\ Len(d) + Len(u) + Len(k) = Len(c) + Len(v) + (Len(j) + 1)
    BY <1>1, <1>4, <2>1
  <2>3. w[Len(d) + Len(u) + Len(k)] = k[Len(k)] /\ k[Len(k)] \in PREF_CHO
    BY <2>2 DEF Parts, AllIn
  <2> QED BY <1>7, <2>2, <2>3, Letterkinds
<1>9. Len(d) < Len(c) + 1
  <2>1. SUFFICES ASSUME Len(c) + 1 <= Len(d) PROVE FALSE
    BY <1>1
  <2>2. Len(c) + 1 \in 1 .. Len(d)
    BY <1>1, <2>1
  <2>3. w[Len(c) + 1] = d[Len(c) + 1] /\ d[Len(c) + 1] \in PREF_CHO
    BY <2>2 DEF Parts, AllIn
  <2> QED BY <1>5, <2>3, Letterkinds
<1> DEFINE i == (Len(c) + Len(v) + 1) - Len(d)
<1>10. i \in 1 .. Len(u) /\ Len(d) + i = Len(c) + Len(v) + 1
  BY <1>1, <1>4, <1>8, <1>9
<1> HIDE DEF i
<1>11. w[Len(d) + i] = u[i] /\ u[i] \in PREF_JUNG
  BY <1>10 DEF Parts, AllIn
<1>12. w[Len(c) + Len(v) + 1] = u[i]
  BY <1>10, <1>11
<1> QED BY <1>6, <1>11, <1>12, Letterkinds

\* Keys that are those of consonants, of vowels and of consonants again.
Keyed(w, c, v, j) ==
  /\ Parts(w, c, v, j)
  /\ c \in Seq(Int) /\ v \in Seq(Int) /\ j \in Seq(Int)
  /\ AllIn(c, PREF_CHO) /\ AllIn(v, PREF_JUNG) /\ AllIn(j, PREF_CHO)

LEMMA KeysAreTold ==
  ASSUME NEW w, NEW c, NEW v, NEW j, NEW d, NEW u, NEW k,
         Keyed(w, c, v, j), Keyed(w, d, u, k), Len(v) # 0
  PROVE  c = d /\ v = u /\ j = k
<1>1. /\ c \in Seq(Int) /\ v \in Seq(Int) /\ j \in Seq(Int) /\ Parts(w, c, v, j)
      /\ AllIn(c, PREF_CHO) /\ AllIn(v, PREF_JUNG) /\ AllIn(j, PREF_CHO)
      /\ d \in Seq(Int) /\ u \in Seq(Int) /\ k \in Seq(Int) /\ Parts(w, d, u, k)
      /\ AllIn(d, PREF_CHO) /\ AllIn(u, PREF_JUNG) /\ AllIn(k, PREF_CHO)
  BY DEF Keyed
<1>2. Len(u) # 0
  BY <1>1, VowelSeen
<1> QED BY <1>1, <1>2, PartsAreTold

\* The parts when a letter is added to the last of them.
LEMMA PartsAdded ==
  ASSUME NEW w \in Seq(Int), NEW code \in Int,
         NEW c \in Seq(Int), NEW v \in Seq(Int), NEW j \in Seq(Int), w = (c \o v) \o j
  PROVE  /\ Parts(Append(w, code), c, v, Append(j, code))
         /\ j = << >> => Parts(Append(w, code), c, Append(v, code), j)
<1>1. c \o v \in Seq(Int) /\ Append(j, code) \in Seq(Int) /\ Append(v, code) \in Seq(Int)
  BY ConcatProperties, AppendProperties
<1> DEFINE front == c \o v
<1>2. Append(w, code) = front \o Append(j, code)
  <2>1. front \in Seq(Int) /\ w = front \o j
    BY <1>1
  <2> HIDE DEF front
  <2>2. front \o Append(j, code) = Append(front \o j, code)
    BY <2>1, LetterAdded
  <2> QED BY <2>1, <2>2
<1>3. ASSUME j = << >> PROVE Append(w, code) = (c \o Append(v, code)) \o j
  <2>1. w = c \o v
    BY <1>1, <1>3, ConcatEmptySeq
  <2>2. c \o Append(v, code) = Append(c \o v, code)
    BY LetterAdded
  <2>3. c \o Append(v, code) \in Seq(Int)
    BY <1>1, ConcatProperties
  <2>4. Append(w, code) = c \o Append(v, code)
    BY <2>1, <2>2
  <2>5. ASSUME NEW s \in Seq(Int) PROVE s = s \o << >>
    BY ConcatEmptySeq
  <2> QED BY <1>3, <2>3, <2>4, <2>5
<1>4. Parts((c \o v) \o Append(j, code), c, v, Append(j, code))
  BY <1>1, ThreeParts
<1>5. Parts((c \o Append(v, code)) \o j, c, Append(v, code), j)
  BY <1>1, ThreeParts
<1> QED BY <1>2, <1>3, <1>4, <1>5

\* A character's keys have the kinds of its parts.
LEMMA CharacterParts ==
  ASSUME NEW cho \in Consonant \cup {None}, NEW jung \in PREF_JUNG \cup {None},
         NEW jong \in Consonant \cup {None}
  PROVE  /\ ConsonantKeys(cho) \in Seq(Int) /\ VowelKeys(jung) \in Seq(Int)
         /\ ConsonantKeys(jong) \in Seq(Int)
         /\ AllIn(ConsonantKeys(cho), PREF_CHO) /\ AllIn(VowelKeys(jung), PREF_JUNG)
         /\ AllIn(ConsonantKeys(jong), PREF_CHO)
         /\ Len(ConsonantKeys(cho)) = 0 <=> cho = None
         /\ Len(VowelKeys(jung)) = 0 <=> jung = None
         /\ Len(ConsonantKeys(jong)) = 0 <=> jong = None
<1>1. Len(<< >>) = 0 /\ AllIn(<< >>, PREF_CHO) /\ AllIn(<< >>, PREF_JUNG)
  BY DEF AllIn
<1>2. ASSUME NEW c \in Consonant \cup {None}
      PROVE  AllIn(ConsonantKeys(c), PREF_CHO) /\ (Len(ConsonantKeys(c)) = 0 <=> c = None)
  <2>1. CASE c = None
    BY <1>1, <2>1, KeysOfLetter
  <2>2. CASE c \in Consonant
    <3>1. c # None
      BY <2>2, Letterkinds DEF Consonant
    <3>2. AllIn(ConsonantKeys(c), PREF_CHO) /\ Len(ConsonantKeys(c)) \in {1, 2}
      BY <2>2, KindOfKeys
    <3>3. Len(ConsonantKeys(c)) # 0
      BY <3>2
    <3> QED BY <3>1, <3>2, <3>3
  <2> QED BY <2>1, <2>2
<1>3. AllIn(VowelKeys(jung), PREF_JUNG) /\ (Len(VowelKeys(jung)) = 0 <=> jung = None)
  <2>1. CASE jung = None
    BY <1>1, <2>1, KeysOfLetter
  <2>2. CASE jung \in PREF_JUNG
    <3>1. jung # None
      BY <2>2, Letterkinds
    <3>2. AllIn(VowelKeys(jung), PREF_JUNG) /\ Len(VowelKeys(jung)) \in {1, 2}
      BY <2>2, KindOfKeys
    <3>3. Len(VowelKeys(jung)) # 0
      BY <3>2
    <3> QED BY <3>1, <3>2, <3>3
  <2> QED BY <2>1, <2>2
<1> QED BY <1>2, <1>3, KeysTyped

LEMMA ThreeKeys ==
  ASSUME NEW s \in Seq(Int), NEW code \in Int, Len(s) = 2
  PROVE  Len(Append(s, code)) = 3
<1>1. Len(Append(s, code)) = Len(s) + 1
  BY AppendProperties
<1> QED BY <1>1

\* Two keys that are those of one consonant, or of one vowel, are a pair.
LEMMA PairFound ==
  ASSUME NEW x, NEW y
  PROVE  /\ \A c \in Consonant : ConsonantKeys(c) = <<x, y>> => getJongseongPair(x, y) # None
         /\ \A v \in PREF_JUNG : VowelKeys(v) = <<x, y>> => getJungseongPair(x, y) # None
<1>1. ASSUME NEW z PROVE <<z>> # <<x, y>>
  <2>1. Len(<<z>>) = 1 /\ Len(<<x, y>>) = 2
    OBVIOUS
  <2> QED BY <2>1
<1>2. ASSUME NEW pairs, NEW p \in pairs, p[1] = x, p[2] = y, \A q \in pairs : q[3] # None
      PROVE  Composed(pairs, x, y) # None
  <2> DEFINE q == CHOOSE q \in pairs : q[1] = x /\ q[2] = y
  <2>1. q \in pairs
    BY <1>2
  <2>2. Composed(pairs, x, y) = q[3]
    BY <1>2 DEF Composed
  <2> QED BY <1>2, <2>1, <2>2
<1>3. ASSUME NEW c \in Consonant, ConsonantKeys(c) = <<x, y>>
      PROVE  getJongseongPair(x, y) # None
  <2>1. PICK p \in JongseongPair : ConsonantKeys(c) = <<p[1], p[2]>>
    BY <1>1, <1>3, ConsonantKeysAre
  <2>2. p[1] = x /\ p[2] = y
    BY <1>3, <2>1
  <2>3. \A q \in JongseongPair : q[3] # None
    BY JongseongTable, Letterkinds
  <2> QED BY <1>2, <2>2, <2>3 DEF getJongseongPair
<1>4. ASSUME NEW v \in PREF_JUNG, VowelKeys(v) = <<x, y>>
      PROVE  getJungseongPair(x, y) # None
  <2>1. PICK p \in JungseongPair : VowelKeys(v) = <<p[1], p[2]>>
    BY <1>1, <1>4, VowelKeysAre
  <2>2. p[1] = x /\ p[2] = y
    BY <1>4, <2>1
  <2>3. \A q \in JungseongPair : q[3] # None
    BY JungseongTable, Letterkinds
  <2> QED BY <1>2, <2>2, <2>3 DEF getJungseongPair
<1> QED BY <1>3, <1>4

\* A consonant or vowel whose keys are those of another and one key more.
LEMMA ConsonantLonger ==
  ASSUME NEW b \in Consonant \cup {None}, NEW code \in PREF_CHO, NEW c \in Consonant,
         ConsonantKeys(c) = Append(ConsonantKeys(b), code)
  PROVE  \/ b = None /\ c = code
         \/ b \in PREF_CHO /\ getJongseongPair(b, code) # None
<1>1. code \in Int /\ PREF_CHO \subseteq Int
  BY ConsonantsAreNumbers
<1>2. CASE b = None
  <2>1. ConsonantKeys(c) = <<code>>
    BY <1>1, <1>2, KeysOfLetter, LetterAdded
  <2>2. ASSUME NEW x, NEW y PROVE <<x, y>> # <<code>>
    <3>1. Len(<<x, y>>) = 2 /\ Len(<<code>>) = 1
      OBVIOUS
    <3> QED BY <3>1
  <2>3. ConsonantKeys(c) = <<c>>
    BY <2>1, <2>2, ConsonantKeysAre
  <2> QED BY <1>2, <2>1, <2>3
<1>3. CASE b \in PREF_CHO
  <2>1. ConsonantKeys(c) = <<b, code>>
    BY <1>1, <1>3, KeysOfLetter, TwoLetters
  <2> QED BY <1>3, <2>1, PairFound
<1>4. CASE b \in Cluster
  <2>1. PICK p \in JongseongPair : /\ p[1] \in PREF_CHO /\ p[2] \in PREF_CHO
                                   /\ ConsonantKeys(b) = <<p[1], p[2]>>
    BY <1>4, JongseongTable, KeysOfPair DEF Cluster
  <2>2. ConsonantKeys(b) \in Seq(Int) /\ Len(ConsonantKeys(b)) = 2
    BY <2>1, KeysTyped
  <2>3. Len(ConsonantKeys(c)) = 3
    <3>1. Len(Append(ConsonantKeys(b), code)) = 3
      BY <1>1, <2>2, ThreeKeys
    <3> QED BY <3>1
  <2>4. Len(ConsonantKeys(c)) \in {1, 2}
    BY KindOfKeys
  <2> QED BY <2>3, <2>4
<1> QED BY <1>2, <1>3, <1>4 DEF Consonant

LEMMA VowelLonger ==
  ASSUME NEW b \in PREF_JUNG, NEW code \in SimpleVowel, NEW v \in PREF_JUNG,
         VowelKeys(v) = Append(VowelKeys(b), code)
  PROVE  b \in SimpleVowel /\ getJungseongPair(b, code) # None
<1>1. code \in Int /\ PREF_JUNG \subseteq Int
  <2>1. PREF_JUNG \subseteq Int
    BY DEF PREF_JUNG
  <2> QED BY <2>1, Letterkinds
<1>2. CASE b \in SimpleVowel
  <2>1. VowelKeys(v) = <<b, code>>
    BY <1>1, <1>2, KeysOfLetter, TwoLetters
  <2> QED BY <1>2, <2>1, PairFound
<1>3. CASE b \in Diphthong
  <2>1. PICK p \in JungseongPair : VowelKeys(b) = <<p[1], p[2]>>
    BY <1>3, KeysOfPair DEF Diphthong
  <2>2. VowelKeys(b) \in Seq(Int) /\ Len(VowelKeys(b)) = 2
    BY <2>1, KeysTyped
  <2>3. Len(VowelKeys(v)) = 3
    <3>1. Len(Append(VowelKeys(b), code)) = 3
      BY <1>1, <2>2, ThreeKeys
    <3> QED BY <3>1
  <2>4. Len(VowelKeys(v)) \in {1, 2}
    BY KindOfKeys
  <2> QED BY <2>3, <2>4
<1> QED BY <1>2, <1>3 DEF SimpleVowel

\* What of the automaton lets a letter join the character.
TakesConsonant(a, code) ==
  \/ a.state = "NONE"
  \/ a.state = "CHO1" /\ getJongseongPair(a.buffer.cho, code) # None
  \/ Ends(a, code) /\ code \in PREF_JONG
  \/ a.state = "JONG1" /\ getJongseongPair(a.buffer.jong, code) # None

TakesVowel(a, code) ==
  \/ a.state \in {"NONE", "CHO1"}
  \/ a.state = "JUNG1" /\ getJungseongPair(a.buffer.jung, code) # None

\* A character next to what is shown.
LEMMA CharacterIs ==
  ASSUME NEW working \in [cho : Consonant \cup {None}, jung : PREF_JUNG \cup {None},
                          jong : Consonant \cup {None}],
         NEW char \in Neighbours(working), IsCharacter(char)
  PROVE  /\ char = [cho |-> char.cho, jung |-> char.jung, jong |-> char.jong]
         /\ char.cho \in Consonant \cup {None} /\ char.jung \in PREF_JUNG \cup {None}
         /\ char.jong \in PREF_JONG \cup {None}
<1>1. char = [cho |-> char.cho, jung |-> char.jung, jong |-> char.jong]
  BY DEF Neighbours
<1>2. PREF_CHO \subseteq Consonant
  BY DEF Consonant
<1> QED BY <1>1, <1>2 DEF IsCharacter

LEMMA AllInMore ==
  ASSUME NEW s \in Seq(Int), NEW S, AllIn(s, S), NEW code \in S, code \in Int
  PROVE  AllIn(Append(s, code), S) /\ Len(Append(s, code)) # 0 /\ Append(s, code) \in Seq(Int)
<1>1. /\ Append(s, code) \in Seq(Int) /\ Len(Append(s, code)) = Len(s) + 1
      /\ \A i \in 1 .. Len(s) : Append(s, code)[i] = s[i]
      /\ Append(s, code)[Len(s) + 1] = code
  BY AppendProperties
<1>2. ASSUME NEW i \in 1 .. Len(s) + 1 PROVE Append(s, code)[i] \in S
  <2>1. i \in 1 .. Len(s) \/ i = Len(s) + 1
    BY LenProperties
  <2> QED BY <1>1, <2>1 DEF AllIn
<1>3. AllIn(Append(s, code), S)
  BY <1>1, <1>2 DEF AllIn
<1>4. Len(Append(s, code)) # 0
  BY <1>1, LenProperties
<1> QED BY <1>1, <1>3, <1>4

\* What the keys of a character and of a composition are made of.
LEMMA CharacterKeyed ==
  ASSUME NEW cho \in Consonant \cup {None}, NEW jung \in PREF_JUNG \cup {None},
         NEW jong \in Consonant \cup {None}
  PROVE  Keyed(decode([cho |-> cho, jung |-> jung, jong |-> jong]),
               ConsonantKeys(cho), VowelKeys(jung), ConsonantKeys(jong))
<1>1. /\ ConsonantKeys(cho) \in Seq(Int) /\ VowelKeys(jung) \in Seq(Int)
      /\ ConsonantKeys(jong) \in Seq(Int)
      /\ AllIn(ConsonantKeys(cho), PREF_CHO) /\ AllIn(VowelKeys(jung), PREF_JUNG)
      /\ AllIn(ConsonantKeys(jong), PREF_CHO)
  BY CharacterParts
<1>2. Parts(decode([cho |-> cho, jung |-> jung, jong |-> jong]),
            ConsonantKeys(cho), VowelKeys(jung), ConsonantKeys(jong))
  BY <1>1, Decoded, ThreeParts
<1> QED BY <1>1, <1>2 DEF Keyed

LEMMA LongerParts ==
  ASSUME NEW a, IsAutomaton(a), NEW code \in PREF_CHO \cup SimpleVowel
  PROVE  LET w == Append(Keys(a), code)
             b == a.buffer
         IN  /\ Parts(w, ConsonantKeys(b.cho), VowelKeys(b.jung), Append(ConsonantKeys(b.jong), code))
             /\ code \in PREF_CHO =>
                  Keyed(w, ConsonantKeys(b.cho), VowelKeys(b.jung), Append(ConsonantKeys(b.jong), code))
             /\ code \in SimpleVowel /\ b.jong = None =>
                  Keyed(w, ConsonantKeys(b.cho), Append(VowelKeys(b.jung), code), ConsonantKeys(b.jong))
<1> DEFINE b == a.buffer
           w == Append(Keys(a), code)
           C == ConsonantKeys(b.cho)
           V == VowelKeys(b.jung)
           J == ConsonantKeys(b.jong)
<1>1. code \in Int /\ (code \in SimpleVowel => code \in PREF_JUNG)
  <2>1. PREF_JUNG \subseteq Int
    BY DEF PREF_JUNG
  <2> QED BY <2>1, ConsonantsAreNumbers, Letterkinds
<1>2. b = [cho |-> b.cho, jung |-> b.jung, jong |-> b.jong]
      /\ b.cho \in Consonant \cup {None} /\ b.jung \in PREF_JUNG \cup {None}
      /\ b.jong \in Consonant \cup {None}
  BY BufferKind
<1>3. Keys(a) \in Seq(Int) /\ Keys(a) = decode(b)
  BY KeysAre
<1>4. C \in Seq(Int) /\ V \in Seq(Int) /\ J \in Seq(Int)
      /\ AllIn(C, PREF_CHO) /\ AllIn(V, PREF_JUNG) /\ AllIn(J, PREF_CHO)
  BY <1>2, CharacterParts
<1>5. Keys(a) = (C \o V) \o J
  <2>1. decode([cho |-> b.cho, jung |-> b.jung, jong |-> b.jong]) = (C \o V) \o J
    BY <1>2, Decoded
  <2>2. decode(b) = decode([cho |-> b.cho, jung |-> b.jung, jong |-> b.jong])
    BY <1>2, Zenon
  <2> QED BY <1>3, <2>1, <2>2
<1>6. b.jong = None => J = << >>
  BY KeysOfLetter
<1> HIDE DEF C, V, J
<1>7. /\ Parts(w, C, V, Append(J, code))
      /\ J = << >> => Parts(w, C, Append(V, code), J)
  BY <1>1, <1>3, <1>4, <1>5, PartsAdded
<1>8. ASSUME code \in PREF_CHO PROVE Keyed(w, C, V, Append(J, code))
  <2>1. Append(J, code) \in Seq(Int) /\ AllIn(Append(J, code), PREF_CHO)
    BY <1>1, <1>4, <1>8, AllInMore
  <2> HIDE DEF w
  <2> QED BY <1>4, <1>7, <2>1 DEF Keyed
<1>9. ASSUME code \in SimpleVowel, b.jong = None PROVE Keyed(w, C, Append(V, code), J)
  <2>1. Append(V, code) \in Seq(Int) /\ AllIn(Append(V, code), PREF_JUNG)
    BY <1>1, <1>4, <1>9, AllInMore
  <2>2. Parts(w, C, Append(V, code), J)
    BY <1>6, <1>7, <1>9
  <2> HIDE DEF w
  <2> QED BY <1>4, <2>1, <2>2 DEF Keyed
<1> QED BY <1>7, <1>8, <1>9 DEF C, V, J

\* A longer character takes the consonant as a final one, or as the second of a cluster.
LEMMA ConsonantFits ==
  ASSUME NEW a, IsAutomaton(a), NEW code \in PREF_CHO, NEW char, IsCharacter(char),
         char = [cho |-> char.cho, jung |-> char.jung, jong |-> char.jong],
         decode(char) = Append(Keys(a), code)
  PROVE  TakesConsonant(a, code)
<1> DEFINE b == a.buffer
           w == Append(Keys(a), code)
<1>1. /\ char.cho \in Consonant \cup {None} /\ char.jung \in PREF_JUNG \cup {None}
      /\ char.jong \in Consonant \cup {None} /\ char.jong \in PREF_JONG \cup {None}
  BY FinalConsonants DEF IsCharacter, Consonant
<1>2. /\ b.cho \in Consonant \cup {None} /\ b.jung \in PREF_JUNG \cup {None}
      /\ b.jong \in Consonant \cup {None} /\ Shape(a.state, b)
  BY BufferKind DEF IsAutomaton
<1>3. code \in Int
  BY ConsonantsAreNumbers
<1>4. /\ Keyed(w, ConsonantKeys(char.cho), VowelKeys(char.jung), ConsonantKeys(char.jong))
      /\ Keyed(w, ConsonantKeys(b.cho), VowelKeys(b.jung), Append(ConsonantKeys(b.jong), code))
  <2>1. Keyed(decode([cho |-> char.cho, jung |-> char.jung, jong |-> char.jong]),
              ConsonantKeys(char.cho), VowelKeys(char.jung), ConsonantKeys(char.jong))
    BY <1>1, CharacterKeyed
  <2> QED BY <2>1, LongerParts
<1> HIDE DEF w
<1>5. ASSUME NEW c \in Consonant \cup {None}, NEW v \in PREF_JUNG \cup {None},
             NEW j \in Consonant \cup {None}
      PROVE  /\ ConsonantKeys(c) \in Seq(Int) /\ VowelKeys(v) \in Seq(Int)
             /\ ConsonantKeys(j) \in Seq(Int)
             /\ AllIn(ConsonantKeys(c), PREF_CHO) /\ AllIn(VowelKeys(v), PREF_JUNG)
             /\ AllIn(ConsonantKeys(j), PREF_CHO)
             /\ Len(ConsonantKeys(c)) = 0 <=> c = None
             /\ Len(VowelKeys(v)) = 0 <=> v = None
             /\ Len(ConsonantKeys(j)) = 0 <=> j = None
  BY CharacterParts
<1>6. Len(Append(ConsonantKeys(b.jong), code)) # 0
  BY <1>2, <1>3, <1>5, AllInMore
<1>7. CASE b.jung # None
  <2>1. Len(VowelKeys(b.jung)) # 0
    BY <1>2, <1>5, <1>7
  <2>3. /\ ConsonantKeys(char.cho) = ConsonantKeys(b.cho)
        /\ ConsonantKeys(char.jong) = Append(ConsonantKeys(b.jong), code)
    <3> DEFINE longer == Append(ConsonantKeys(b.jong), code)
    <3>1. Keyed(w, ConsonantKeys(b.cho), VowelKeys(b.jung), longer)
      BY <1>4
    <3>2. Keyed(w, ConsonantKeys(char.cho), VowelKeys(char.jung), ConsonantKeys(char.jong))
      BY <1>4
    <3> HIDE DEF longer
    <3>3. ConsonantKeys(char.cho) = ConsonantKeys(b.cho) /\ ConsonantKeys(char.jong) = longer
      BY <2>1, <3>1, <3>2, KeysAreTold
    <3> QED BY <3>3 DEF longer
  <2>4. char.jong # None
    BY <1>1, <1>5, <1>6, <2>3
  <2>5. b.cho # None
    <3>1. char.cho # None
      BY <2>4, Letterkinds DEF IsCharacter
    <3> QED BY <1>1, <1>2, <1>5, <2>3, <3>1
  <2>6. \/ b.jong = None /\ char.jong = code
        \/ b.jong \in PREF_CHO /\ getJongseongPair(b.jong, code) # None
    BY <1>1, <1>2, <2>3, <2>4, ConsonantLonger
  <2>7. code \in PREF_JONG => code \notin {12611, 12617}
    BY DEF PREF_JONG
  <2> QED BY <1>1, <1>2, <1>7, <2>4, <2>5, <2>6, <2>7, Letterkinds
          DEF Shape, TakesConsonant, Ends, NoChar
<1>8. CASE b.jung = None
  <2>1. Len(VowelKeys(b.jung)) = 0
    BY <1>2, <1>5, <1>8
  <2>2. Len(VowelKeys(char.jung)) = 0
    BY <1>4, <2>1, KeysAreTold
  <2>3. char.jung = None
    BY <1>1, <1>5, <2>2
  <2>4. char.cho \in Consonant /\ char.jong = None
    BY <2>3, Letterkinds DEF IsCharacter
  <2>5. decode(char) = ConsonantKeys(char.cho)
    <3>1. char = Jamo(char.cho)
      BY <2>3, <2>4, LoneConsonant
    <3> QED BY <2>4, <3>1, DecodedLetter
  <2>6. Keys(a) = ConsonantKeys(b.cho)
    <3>1. b = [cho |-> b.cho, jung |-> None, jong |-> None]
      BY <1>2, <1>8, Letterkinds DEF Shape, NoChar
    <3>2. decode(b) = ConsonantKeys(b.cho) \o VowelKeys(None)
      BY <1>2, <3>1, DecodedOpen
    <3> QED BY <1>2, <1>5, <3>2, KeysAre, KeysOfLetter, ConcatEmptySeq
  <2>7. \/ b.cho = None /\ char.cho = code
        \/ b.cho \in PREF_CHO /\ getJongseongPair(b.cho, code) # None
    BY <1>2, <2>4, <2>5, <2>6, ConsonantLonger
  <2> QED BY <1>2, <1>8, <2>7, Letterkinds DEF Shape, TakesConsonant, NoChar
<1> QED BY <1>7, <1>8

\* A longer character takes the vowel after its consonant, or as the second of two.
LEMMA VowelFits ==
  ASSUME NEW a, IsAutomaton(a), NEW code \in SimpleVowel, NEW char, IsCharacter(char),
         char = [cho |-> char.cho, jung |-> char.jung, jong |-> char.jong],
         decode(char) = Append(Keys(a), code)
  PROVE  TakesVowel(a, code)
<1> DEFINE b == a.buffer
           w == Append(Keys(a), code)
<1>1. /\ char.cho \in Consonant \cup {None} /\ char.jung \in PREF_JUNG \cup {None}
      /\ char.jong \in Consonant \cup {None}
  BY FinalConsonants DEF IsCharacter, Consonant
<1>2. /\ b.cho \in Consonant \cup {None} /\ b.jung \in PREF_JUNG \cup {None}
      /\ b.jong \in Consonant \cup {None} /\ Shape(a.state, b)
  BY BufferKind DEF IsAutomaton
<1>3. code \in PREF_JUNG /\ code \in Int
  <2>1. PREF_JUNG \subseteq Int
    BY DEF PREF_JUNG
  <2> QED BY <2>1, Letterkinds
<1>4. /\ Keyed(w, ConsonantKeys(char.cho), VowelKeys(char.jung), ConsonantKeys(char.jong))
      /\ Parts(w, ConsonantKeys(b.cho), VowelKeys(b.jung), Append(ConsonantKeys(b.jong), code))
      /\ b.jong = None =>
           Keyed(w, ConsonantKeys(b.cho), Append(VowelKeys(b.jung), code), ConsonantKeys(b.jong))
  <2>1. Keyed(decode([cho |-> char.cho, jung |-> char.jung, jong |-> char.jong]),
              ConsonantKeys(char.cho), VowelKeys(char.jung), ConsonantKeys(char.jong))
    BY <1>1, CharacterKeyed
  <2> QED BY <2>1, LongerParts
<1> HIDE DEF w
<1>5. ASSUME NEW c \in Consonant \cup {None}, NEW v \in PREF_JUNG \cup {None},
             NEW j \in Consonant \cup {None}
      PROVE  /\ ConsonantKeys(c) \in Seq(Int) /\ VowelKeys(v) \in Seq(Int)
             /\ ConsonantKeys(j) \in Seq(Int)
             /\ AllIn(ConsonantKeys(c), PREF_CHO) /\ AllIn(VowelKeys(v), PREF_JUNG)
             /\ AllIn(ConsonantKeys(j), PREF_CHO)
             /\ Len(ConsonantKeys(c)) = 0 <=> c = None
             /\ Len(VowelKeys(v)) = 0 <=> v = None
             /\ Len(ConsonantKeys(j)) = 0 <=> j = None
  BY CharacterParts
<1>6. CASE b.jong = None
  <2>1. Len(Append(VowelKeys(b.jung), code)) # 0
    BY <1>2, <1>3, <1>5, AllInMore
  <2>3. /\ ConsonantKeys(char.cho) = ConsonantKeys(b.cho)
        /\ VowelKeys(char.jung) = Append(VowelKeys(b.jung), code)
    BY <1>4, <1>6, <2>1, KeysAreTold
  <2>4. char.jung \in PREF_JUNG
    BY <1>1, <1>5, <2>1, <2>3
  <2>5. CASE b.jung \in PREF_JUNG
    <3>1. b.jung \in SimpleVowel /\ getJungseongPair(b.jung, code) # None
      BY <2>3, <2>4, <2>5, VowelLonger
    <3>2. b.jung \notin Diphthong /\ b.jung # None
      BY <3>1, Letterkinds DEF SimpleVowel
    <3>3. a.state = "JUNG1"
      BY <1>2, <1>6, <3>2, Letterkinds DEF Shape, NoChar, Consonant
    <3> QED BY <3>1, <3>3 DEF TakesVowel
  <2>6. CASE b.jung = None
    <3>1. char.cho \in PREF_CHO \cup {None}
      BY <2>4, Letterkinds DEF IsCharacter
    <3>2. b.cho \notin Cluster
      <4>1. SUFFICES ASSUME b.cho \in Cluster PROVE FALSE
        OBVIOUS
      <4>2. PICK p \in JongseongPair : ConsonantKeys(b.cho) = <<p[1], p[2]>>
        BY <4>1, KeysOfPair DEF Cluster
      <4>3. CASE char.cho = None
        BY <2>3, <4>2, <4>3, KeysOfLetter
      <4>4. CASE char.cho \in PREF_CHO
        <5>1. <<char.cho>> = <<p[1], p[2]>>
          BY <2>3, <4>2, <4>4, KeysOfLetter
        <5>2. Len(<<char.cho>>) = 1 /\ Len(<<p[1], p[2]>>) = 2
          OBVIOUS
        <5> QED BY <5>1, <5>2
      <4> QED BY <3>1, <4>3, <4>4
    <3> QED BY <1>2, <2>6, <3>2, Letterkinds DEF Shape, TakesVowel
  <2> QED BY <1>2, <2>5, <2>6
<1>7. CASE b.jong # None
  <2>1. b.jung # None
    BY <1>2, <1>7, Letterkinds DEF Shape, NoChar
  <2>2. Len(VowelKeys(b.jung)) # 0 /\ Len(ConsonantKeys(b.jong)) # 0
    BY <1>2, <1>5, <1>7, <2>1
  <2>3. FALSE
    <3>1. ASSUME NEW c, NEW v, NEW j, NEW d, NEW u, NEW k, Keyed(w, d, u, k),
                 c \in Seq(Int), v \in Seq(Int), j \in Seq(Int), Parts(w, c, v, Append(j, code)),
                 AllIn(v, PREF_JUNG), Len(v) # 0, AllIn(j, PREF_CHO), Len(j) # 0
          PROVE  FALSE
      <4>1. /\ d \in Seq(Int) /\ u \in Seq(Int) /\ k \in Seq(Int) /\ Parts(w, d, u, k)
            /\ AllIn(d, PREF_CHO) /\ AllIn(u, PREF_JUNG) /\ AllIn(k, PREF_CHO)
        BY <3>1 DEF Keyed
      <4> QED BY <1>3, <3>1, <4>1, VowelAfterFinal
    <3>2. /\ ConsonantKeys(b.cho) \in Seq(Int) /\ VowelKeys(b.jung) \in Seq(Int)
          /\ ConsonantKeys(b.jong) \in Seq(Int)
          /\ AllIn(VowelKeys(b.jung), PREF_JUNG) /\ AllIn(ConsonantKeys(b.jong), PREF_CHO)
      BY <1>2, <1>5
    <3> QED BY <1>4, <2>2, <3>1, <3>2
  <2> QED BY <2>3
<1> QED BY <1>6, <1>7

\* The automaton takes what fits.
LEMMA ConsonantTaken ==
  ASSUME NEW a, IsAutomaton(a), NEW code \in PREF_CHO, TakesConsonant(a, code)
  PROVE  AppendLetter(a, code).completed = NoChar /\ ~HiddenFinal(a)
<1> DEFINE b    == a.buffer
           next == AfterJaeum(a, code)
           r    == saveCharacter(next, b, code)
<1>1. AppendLetter(a, code) = r /\ Shape(a.state, b)
  BY DEF IsAutomaton, AppendLetter
<1>2. ASSUME NEW state, NEW c, NEW working
      PROVE  Done(state, c, working, NoChar).completed = NoChar
  BY DEF Done
<1>3. CASE a.state = "NONE"
  <2>1. next = "CHO1"
    BY <1>3 DEF AfterJaeum
  <2>2. r.completed = NoChar
    BY <1>2, <2>1 DEF saveCharacter
  <2>3. ~HiddenFinal(a)
    BY <1>1, <1>3 DEF Shape, HiddenFinal, NoChar
  <2> QED BY <1>1, <2>2, <2>3
<1>4. CASE a.state = "CHO1" /\ getJongseongPair(b.cho, code) # None
  <2>1. next = "CHO2"
    BY <1>4 DEF AfterJaeum
  <2>2. r.completed = NoChar
    BY <1>2, <2>1 DEF saveCharacter
  <2>3. ~HiddenFinal(a)
    BY <1>1, <1>4 DEF Shape, HiddenFinal
  <2> QED BY <1>1, <2>2, <2>3
<1>5. CASE Ends(a, code)
  <2>1. next = "JONG1"
    BY <1>5 DEF AfterJaeum, AfterDiphthong, Ends
  <2>2. b.cho # None /\ b.jung # None /\ b.jong = None
    BY <1>1, <1>5, Letterkinds DEF Shape, Ends, SimpleVowel
  <2>3. SaveJong("JONG1", b, code).completed = NoChar
    <3> DEFINE c == [b EXCEPT !.jong = code]
    <3>1. c.cho # None /\ c.jung # None
      BY <2>2
    <3> QED BY <1>2, <3>1 DEF SaveJong
  <2>4. r.completed = NoChar
    BY <2>1, <2>3 DEF saveCharacter
  <2> QED BY <1>1, <2>2, <2>4 DEF HiddenFinal
<1>6. CASE a.state = "JONG1" /\ getJongseongPair(b.jong, code) # None
  <2> DEFINE both == getJongseongPair(b.jong, code)
  <2>1. next = "JONG2"
    BY <1>6 DEF AfterJaeum
  <2>2. b.cho # None /\ b.jung # None
    BY <1>1, <1>6, Letterkinds DEF Shape
  <2>3. SaveJong("JONG2", b, both).completed = NoChar
    <3> DEFINE c == [b EXCEPT !.jong = both]
    <3>1. c.cho # None /\ c.jung # None
      BY <2>2
    <3> QED BY <1>2, <3>1 DEF SaveJong
  <2>4. r.completed = NoChar
    BY <2>1, <2>3 DEF saveCharacter
  <2>5. b.jong \in PREF_JONG
    <3>1. \A p \in JongseongPair : p[1] \in PREF_JONG
      BY DEF JongseongPair, PREF_JONG
    <3> QED BY <1>6, <3>1, ComposedFound DEF getJongseongPair
  <2> QED BY <1>1, <2>4, <2>5 DEF HiddenFinal
<1> QED BY <1>3, <1>4, <1>5, <1>6 DEF TakesConsonant

LEMMA VowelTaken ==
  ASSUME NEW a, IsAutomaton(a), NEW code \in SimpleVowel, TakesVowel(a, code)
  PROVE  AppendLetter(a, code).completed = NoChar
<1> DEFINE b    == a.buffer
           next == AfterMoeum(a, code)
           r    == saveCharacter(next, b, code)
<1>1. AppendLetter(a, code) = r /\ Shape(a.state, b)
  BY Letterkinds DEF IsAutomaton, AppendLetter
<1>2. ASSUME NEW state, NEW c, NEW working
      PROVE  Done(state, c, working, NoChar).completed = NoChar
  BY DEF Done
<1>3. CASE a.state \in {"NONE", "CHO1"}
  <2>1. next = "JUNG1"
    BY <1>3 DEF AfterMoeum
  <2>2. r = SaveJung1(b, code)
    BY <2>1 DEF saveCharacter
  <2>3. b \in [cho : Consonant \cup {None}, jung : {None}, jong : {None}] /\ b.cho \in PREF_CHO \cup {None}
    BY <1>1, <1>3 DEF Shape, NoChar, Consonant
  <2>4. \E c : Joins(SaveJung1(b, code), "JUNG1", c)
    BY <2>3, VowelJoins
  <2>5. SaveJung1(b, code).completed = NoChar
    BY <1>2, <2>4 DEF Joins
  <2> QED BY <1>1, <2>2, <2>5
<1>4. CASE a.state = "JUNG1" /\ getJungseongPair(b.jung, code) # None
  <2>1. next = "JUNG2"
    BY <1>4 DEF AfterMoeum
  <2>2. r.completed = NoChar
    BY <1>2, <2>1 DEF saveCharacter
  <2> QED BY <1>1, <2>2
<1> QED BY <1>3, <1>4 DEF TakesVowel

\* What joins the character is shown, unless it is a final consonant that ends no syllable.
LEMMA ConsonantShown ==
  ASSUME NEW a, IsAutomaton(a), NEW code \in PREF_CHO, TakesConsonant(a, code), NEW r,
         ConsonantOutcome(a, code, r), r.completed = NoChar
  PROVE  ~HiddenFinal(r.automata)
<1>1. ASSUME NEW state, NEW c, Joins(r, state, c) PROVE r.automata.buffer = c
  BY <1>1 DEF Joins, Done
<1>2. ~Starts(r, "CHO1", Jamo(code), makeHangul(a.buffer))
  BY DEF Starts, Done
<1>3. ASSUME NEW c \in Consonant PROVE Jamo(c).jong = None
  BY LoneConsonant
<1>4. CASE a.state = "NONE" /\ Joins(r, "CHO1", Jamo(code))
  BY <1>1, <1>3, <1>4 DEF HiddenFinal, Consonant
<1>5. CASE a.state = "CHO1" /\ \E both \in Cluster :
             both = getJongseongPair(a.buffer.cho, code) /\ Joins(r, "CHO2", Jamo(both))
  BY <1>1, <1>3, <1>5 DEF HiddenFinal, Consonant
<1>6. CASE Ends(a, code) /\ Joins(r, "JONG1", [a.buffer EXCEPT !.jong = code])
  <2>1. code \in PREF_JONG
    BY <1>6 DEF TakesConsonant, Ends
  <2>2. r.automata.buffer = [a.buffer EXCEPT !.jong = code]
    BY <1>1, <1>6
  <2>3. [a.buffer EXCEPT !.jong = code].jong = code
    BY BufferKind
  <2> QED BY <2>1, <2>2, <2>3 DEF HiddenFinal
<1>7. CASE a.state = "JONG1" /\ \E both \in Cluster :
             /\ both = getJongseongPair(a.buffer.jong, code)
             /\ Joins(r, "JONG2", [a.buffer EXCEPT !.jong = both])
  <2>1. PICK both \in Cluster : Joins(r, "JONG2", [a.buffer EXCEPT !.jong = both])
    BY <1>7
  <2>2. r.automata.buffer = [a.buffer EXCEPT !.jong = both]
    BY <1>1, <2>1
  <2>3. [a.buffer EXCEPT !.jong = both].jong = both
    BY BufferKind
  <2> QED BY <2>2, <2>3, Letterkinds DEF HiddenFinal
<1> QED BY <1>2, <1>4, <1>5, <1>6, <1>7 DEF ConsonantOutcome

LEMMA VowelShown ==
  ASSUME NEW a, IsAutomaton(a), NEW code \in SimpleVowel, TakesVowel(a, code), NEW r,
         VowelOutcome(a, code, r), r.completed = NoChar
  PROVE  ~HiddenFinal(r.automata)
<1>1. ASSUME NEW state, NEW c, Joins(r, state, c) PROVE r.automata.buffer = c
  BY <1>1 DEF Joins, Done
<1>2. \A cho, completed :
        ~Starts(r, "JUNG1", [cho |-> cho, jung |-> code, jong |-> None], completed)
  BY DEF Starts, Done
<1>3. a.buffer.jong = None
  BY Letterkinds DEF TakesVowel, IsAutomaton, Shape, NoChar
<1>4. Jamo(code).jong = None
  BY LoneVowel, Letterkinds
<1>5. \A v : [a.buffer EXCEPT !.jung = v].jong = a.buffer.jong
  BY BufferKind
<1>6. \/ Joins(r, "JUNG1", Jamo(code))
      \/ \E state, v : Joins(r, state, [a.buffer EXCEPT !.jung = v])
  BY <1>2 DEF VowelOutcome
<1>7. r.automata.buffer.jong = None
  BY <1>1, <1>3, <1>4, <1>5, <1>6
<1> QED BY <1>7 DEF HiddenFinal

LEMMA ShownKind ==
  ASSUME NEW a, IsAutomaton(a)
  PROVE  a.working \in [cho : Consonant \cup {None}, jung : PREF_JUNG \cup {None},
                        jong : Consonant \cup {None}]
<1>1. a.working = [a.buffer EXCEPT !.jong = IF a.buffer.jong \in PREF_JONG THEN a.buffer.jong ELSE None]
  BY DEF IsAutomaton, makeHangul
<1> QED BY <1>1, BufferKind

\* When nothing is completed and nothing hidden, what is shown has all the keys.
LEMMA ShownWhole ==
  ASSUME NEW r, IsAutomaton(r.automata), r.completed = NoChar, ~HiddenFinal(r.automata),
         NEW keys, decode(r.completed) \o Keys(r.automata) = keys
  PROVE  decode(r.automata.working) = keys
<1>1. Keys(r.automata) = decode(r.automata.buffer) /\ Keys(r.automata) \in Seq(Int)
  BY KeysAre
<1>2. r.automata.working = r.automata.buffer
  BY NotHidden DEF IsAutomaton
<1>3. << >> \o Keys(r.automata) = Keys(r.automata)
  BY <1>1, ConcatEmptySeq
<1> QED BY <1>1, <1>2, <1>3, DecodedLetter

------------------------------------------------------------------------------
(* The input method and the editor *)

\* Only Hangul is composed by the automaton, which is then all that is being composed.
Composing ==
  /\ ~hangulMode => automata = Reset
  /\ automata.working # NoChar => mComposing = <<automata.working>>

\* The editor marks what is being composed, or a report is under way that ends it.
Marked ==
  span # mComposing =>
    /\ span = << >> /\ mComposing # << >>
    /\ \E n \in DOMAIN reports : reports[n] = FALSE

KeyboardInv == KeyboardTypeOK /\ Composing /\ Marked

\* What is shown of an automaton is text, and all there is to show of it.
LEMMA ShownText ==
  ASSUME NEW a, IsAutomaton(a)
  PROVE  /\ Shown(a.working) \in Seq(Character)
         /\ a.working # NoChar => Shown(a.working) = <<a.working>>
BY ShownCharacter DEF Shown

LEMMA ResetIs == IsAutomaton(Reset) /\ Reset.working = NoChar
<1>1. makeHangul(NoChar) = NoChar
  BY Letterkinds DEF makeHangul, NoChar
<1> QED BY <1>1 DEF IsAutomaton, Reset, Shape

\* A composition that the editor shows is marked.
LEMMA ShowsMarked ==
  ASSUME KeyboardTypeOK, NEW composing \in Seq(Character), EditorShows(composing)
  PROVE  /\ span' \in Seq(Character) /\ reports' \in Seq(BOOLEAN)
         /\ span' = composing
         /\ composing = << >> => \E n \in DOMAIN reports' : reports'[n] = FALSE
<1>1. ASSUME NEW r \in BOOLEAN
      PROVE  Append(reports, r) \in Seq(BOOLEAN) /\ Append(reports, r)[Len(reports) + 1] = r
             /\ Len(reports) + 1 \in DOMAIN Append(reports, r)
  BY DEF KeyboardTypeOK
<1>2. reports' = Append(reports, composing # << >>)
  BY DEF EditorShows
<1>3. CASE composing = << >>
  <2>1. reports' = Append(reports, FALSE)
    BY <1>2, <1>3
  <2> QED BY <1>1, <2>1 DEF EditorShows
<1>4. CASE composing # << >>
  <2>1. reports' = Append(reports, TRUE)
    BY <1>2, <1>4
  <2> QED BY <1>1, <1>4, <2>1 DEF EditorShows
<1> QED BY <1>3, <1>4

\* A report more does not take one away.
LEMMA ReportsStay ==
  ASSUME reports \in Seq(BOOLEAN), NEW r \in BOOLEAN, reports' = Append(reports, r)
  PROVE  /\ reports' \in Seq(BOOLEAN)
         /\ \A n \in DOMAIN reports : n \in DOMAIN reports' /\ reports'[n] = reports[n]
OBVIOUS

\* What the editor shows keeps it in step with the input method.
LEMMA MarkedAfter ==
  ASSUME KeyboardTypeOK, NEW composing \in Seq(Character), EditorShows(composing),
         composing = mComposing' \/ composing = << >>
  PROVE  Marked' /\ span' \in Seq(Character) /\ reports' \in Seq(BOOLEAN)
BY ShowsMarked DEF Marked

LEMMA EmptyText == << >> \in Seq(Character)
OBVIOUS

\* A key leaves the automaton as it is, or empty.
LEMMA KeysWithoutLetter ==
  ASSUME KeyboardInv, TypeDigit \/ TypeLatin \/ TypeSeparator \/ DeleteOnly
  PROVE  KeyboardInv'
<1>1. KeyboardTypeOK /\ Composing
  BY DEF KeyboardInv
<1>2. Marked' /\ span' \in Seq(Character) /\ reports' \in Seq(BOOLEAN)
  BY <1>1, EmptyText, MarkedAfter DEF TypeDigit, TypeLatin, TypeSeparator, DeleteOnly
<1>3. UNCHANGED hangulMode
  BY DEF TypeDigit, TypeLatin, TypeSeparator, DeleteOnly
<1>4. automata' = Reset
  <2>1. CASE hangulMode
    <3>1. mComposing = << >> => automata = Reset
      BY <1>1, ShowsNothing DEF Composing, KeyboardTypeOK
    <3> QED BY <2>1, <3>1 DEF TypeDigit, TypeLatin, TypeSeparator, DeleteOnly
  <2>2. CASE ~hangulMode
    BY <1>1, <2>2 DEF Composing, TypeDigit, TypeLatin, TypeSeparator, DeleteOnly
  <2> QED BY <2>1, <2>2
<1>5. mComposing' \in Seq(Character)
  <2>1. Latin \in Character
    BY Letterkinds DEF Latin, Jamo, NoChar, Character
  <2>2. mComposing' \in {<< >>, mComposing, Append(mComposing, Latin)}
    BY DEF TypeDigit, TypeLatin, TypeSeparator, DeleteOnly
  <2>3. mComposing \in Seq(Character) /\ Append(mComposing, Latin) \in Seq(Character)
    BY <1>1, <2>1 DEF KeyboardTypeOK
  <2> QED BY <2>2, <2>3, EmptyText
<1> QED BY <1>1, <1>2, <1>3, <1>4, <1>5, ResetIs DEF KeyboardInv, KeyboardTypeOK, Composing

\* A letter in the Hangul mode.
LEMMA LetterTyped ==
  ASSUME KeyboardInv, NEW code \in Letters, TypeHangul(code)
  PROVE  KeyboardInv'
<1>1. KeyboardTypeOK
  BY DEF KeyboardInv
<1>2. IsAutomaton(automata')
  BY <1>1, AppendShape, KeyboardAssumption DEF KeyboardTypeOK, TypeHangul
<1>3. /\ mComposing' \in Seq(Character)
      /\ automata'.working # NoChar => mComposing' = <<automata'.working>>
  BY <1>2, ShownText DEF TypeHangul
<1>4. Marked' /\ span' \in Seq(Character) /\ reports' \in Seq(BOOLEAN)
  BY <1>1, <1>3, MarkedAfter DEF TypeHangul
<1>5. hangulMode /\ hangulMode' = hangulMode
  BY DEF TypeHangul
<1> QED BY <1>1, <1>2, <1>3, <1>4, <1>5 DEF KeyboardInv, KeyboardTypeOK, Composing

\* The automaton is empty when more than one character is composed.
LEMMA LastDeleted ==
  ASSUME KeyboardInv, DeleteLast
  PROVE  KeyboardInv'
<1>1. KeyboardTypeOK /\ Composing
  BY DEF KeyboardInv
<1>2. automata = Reset
  <2>1. automata.working = NoChar
    <3>1. Len(mComposing) > 1
      BY DEF DeleteLast
    <3>2. ASSUME automata.working # NoChar PROVE Len(mComposing) = 1
      <4>1. mComposing = <<automata.working>>
        BY <1>1, <3>2 DEF Composing
      <4>2. Len(<<automata.working>>) = 1
        OBVIOUS
      <4> QED BY <4>1, <4>2
    <3>3. ~(1 > 1)
      OBVIOUS
    <3> QED BY <3>1, <3>2, <3>3
  <2> QED BY <1>1, <2>1, ShowsNothing DEF KeyboardTypeOK
<1>3. automata' = Reset
  BY <1>2 DEF DeleteLast, deleteCharacter, Reset
<1>4. mComposing' \in Seq(Character)
  <2>1. SubSeq(mComposing, 1, Len(mComposing) - 1) \in Seq(Character)
    BY <1>1 DEF KeyboardTypeOK, DeleteLast
  <2>2. Shown(automata'.working) = << >>
    BY <1>3, ResetIs DEF Shown
  <2>3. mComposing' = SubSeq(mComposing, 1, Len(mComposing) - 1) \o << >>
    BY <2>2 DEF DeleteLast
  <2> QED BY <2>1, <2>3, EmptyText, ConcatProperties
<1>5. Marked' /\ span' \in Seq(Character) /\ reports' \in Seq(BOOLEAN)
  BY <1>1, <1>4, MarkedAfter DEF DeleteLast
<1>6. UNCHANGED hangulMode
  BY DEF DeleteLast
<1> QED BY <1>1, <1>3, <1>4, <1>5, <1>6, ResetIs DEF KeyboardInv, KeyboardTypeOK, Composing

\* The application writes a space, and reports.
LEMMA SpaceTyped ==
  ASSUME KeyboardInv, TypeSpace
  PROVE  KeyboardInv'
<1>1. KeyboardTypeOK /\ Composing /\ Marked
  BY DEF KeyboardInv
<1>2. automata' = Reset
  BY <1>1 DEF Composing, TypeSpace
<1>3. /\ reports' \in Seq(BOOLEAN)
      /\ \A n \in DOMAIN reports : n \in DOMAIN reports' /\ reports'[n] = reports[n]
  BY <1>1, ReportsStay DEF KeyboardTypeOK, TypeSpace
<1>4. UNCHANGED <<mComposing, span, hangulMode>>
  BY DEF TypeSpace
<1> QED BY <1>1, <1>2, <1>3, <1>4, ResetIs DEF KeyboardInv, KeyboardTypeOK, Composing, Marked

\* The calls that only empty the automaton, and the change to another editor.
LEMMA OthersKeep ==
  ASSUME KeyboardInv, switchLanguage \/ HideView \/ SwitchEditor
  PROVE  KeyboardInv'
<1>1. CASE switchLanguage \/ HideView
  BY <1>1, ResetIs DEF KeyboardInv, KeyboardTypeOK, Composing, Marked, switchLanguage, HideView
<1>2. CASE SwitchEditor
  BY <1>2, ResetIs DEF KeyboardInv, KeyboardTypeOK, Composing, Marked, SwitchEditor
<1> QED BY <1>1, <1>2

\* A report that is handled.
LEMMA ReportHandled ==
  ASSUME KeyboardInv, onUpdateSelection
  PROVE  KeyboardInv'
<1>1. KeyboardTypeOK /\ Composing /\ Marked
  BY DEF KeyboardInv
<1>2. /\ reports \in Seq(BOOLEAN) /\ reports # << >> /\ Tail(reports) \in Seq(BOOLEAN)
      /\ \A n \in DOMAIN reports : n # 1 => n - 1 \in DOMAIN Tail(reports)
                                            /\ Tail(reports)[n - 1] = reports[n]
      /\ Head(reports) = reports[1]
  <2>1. reports \in Seq(BOOLEAN) /\ reports # << >>
    BY <1>1 DEF KeyboardTypeOK, onUpdateSelection
  <2>2. /\ Tail(reports) \in Seq(BOOLEAN) /\ Len(Tail(reports)) = Len(reports) - 1
        /\ \A n \in 1 .. Len(Tail(reports)) : Tail(reports)[n] = reports[n + 1]
    BY <2>1, HeadTailProperties
  <2>3. /\ DOMAIN reports = 1 .. Len(reports) /\ Len(reports) \in Nat
        /\ DOMAIN Tail(reports) = 1 .. Len(Tail(reports)) /\ Head(reports) = reports[1]
    BY <2>1, <2>2, LenProperties
  <2>4. ASSUME NEW n \in DOMAIN reports, n # 1
        PROVE  n - 1 \in DOMAIN Tail(reports) /\ Tail(reports)[n - 1] = reports[n]
    <3>1. n \in Int /\ n - 1 \in 1 .. Len(Tail(reports)) /\ (n - 1) + 1 = n
      BY <2>2, <2>3, <2>4
    <3>2. Tail(reports)[n - 1] = reports[(n - 1) + 1]
      BY <2>2, <3>1
    <3> QED BY <2>3, <3>1, <3>2
  <2> QED BY <2>1, <2>2, <2>3, <2>4
<1>3. CASE mComposing # << >> /\ ~Head(reports)
  <2>1. mComposing' = << >> /\ span' = << >> /\ automata' = Reset /\ UNCHANGED hangulMode
    BY <1>1, <1>3 DEF onUpdateSelection, Composing
  <2>2. reports' \in Seq(BOOLEAN)
    <3>1. << >> \in Seq(BOOLEAN) /\ <<FALSE>> \in Seq(BOOLEAN)
      OBVIOUS
    <3>2. PICK more \in {<< >>, <<FALSE>>} : reports' = Tail(reports) \o more
      BY <1>3 DEF onUpdateSelection
    <3> QED BY <1>2, <3>1, <3>2, ConcatProperties
  <2> QED BY <2>1, <2>2, EmptyText, ResetIs DEF KeyboardInv, KeyboardTypeOK, Composing, Marked
<1>4. CASE ~(mComposing # << >> /\ ~Head(reports))
  <2>1. reports' = Tail(reports) /\ UNCHANGED <<mComposing, span, automata, hangulMode>>
    BY <1>4 DEF onUpdateSelection
  <2>2. ASSUME span # mComposing
        PROVE  \E n \in DOMAIN reports' : reports'[n] = FALSE
    <3>1. PICK n \in DOMAIN reports : reports[n] = FALSE
      BY <1>1, <2>2 DEF Marked
    <3>2. n # 1
      BY <1>1, <1>2, <1>4, <2>2, <3>1 DEF Marked
    <3> QED BY <1>2, <2>1, <3>1, <3>2
  <2> QED BY <1>1, <1>2, <2>1, <2>2 DEF KeyboardInv, KeyboardTypeOK, Composing, Marked
<1> QED BY <1>3, <1>4

------------------------------------------------------------------------------
(* Theorems *)

LEMMA KeyboardInit == Init => KeyboardInv
BY ResetIs DEF Init, KeyboardInv, KeyboardTypeOK, Composing, Marked

LEMMA KeyboardNext == KeyboardInv /\ [Next]_vars => KeyboardInv'
<1>1. ASSUME KeyboardInv, UNCHANGED vars PROVE KeyboardInv'
  BY <1>1 DEF vars, KeyboardInv, KeyboardTypeOK, Composing, Marked
<1>2. ASSUME KeyboardInv, Next PROVE KeyboardInv'
  BY <1>2, KeysWithoutLetter, LetterTyped, LastDeleted, SpaceTyped, OthersKeep, ReportHandled
     DEF Next
<1> QED BY <1>1, <1>2

LEMMA KeyboardAlways == Spec => []KeyboardInv
BY KeyboardInit, KeyboardNext, PTL DEF Spec

\* Whatever is typed and in whatever order reports are handled, the buffer of the
\* automaton has the letters its state says (appendCharacter, deleteCharacter), so that
\* makeHangul never computes a character from the index of a letter that is not there.
THEOREM KeyboardTypeCorrect == Spec => []KeyboardTypeOK
BY KeyboardAlways, PTL DEF KeyboardInv

\* When no report of the editor is under way, what it has marked is what the input
\* method composes, and that is what the automaton works on (onUpdateSelection).
THEOREM EditorAlwaysAgrees == Spec => []EditorAgrees
<1>1. KeyboardInv => EditorAgrees
  BY DEF KeyboardInv, Composing, Marked, EditorAgrees
<1> QED BY <1>1, KeyboardAlways, PTL

\* Deleting undoes typing: in every state, and for every letter of the layout, a letter
\* that completed nothing is taken back by deleteCharacter, to the same automaton.
THEOREM DeleteAlwaysUndoes == Spec => []DeleteUndoesAppend
<1>1. KeyboardInv => DeleteUndoesAppend
  <2>1. ASSUME KeyboardInv, NEW code \in Letters,
               AppendLetter(automata, code).completed = NoChar
        PROVE  deleteCharacter(AppendLetter(automata, code).automata) = automata
    <3>1. IsAutomaton(automata)
      BY <2>1 DEF KeyboardInv, KeyboardTypeOK
    <3>2. code \in PREF_CHO \/ code \in SimpleVowel
      BY KeyboardAssumption, Letterkinds
    <3>3. CASE code \in PREF_CHO
      BY <2>1, <3>1, <3>3, Consonants, ConsonantUndone
    <3>4. CASE code \in SimpleVowel
      BY <2>1, <3>1, <3>4, Vowels, VowelUndone
    <3> QED BY <3>2, <3>3, <3>4
  <2> QED BY <2>1 DEF DeleteUndoesAppend
<1> QED BY <1>1, KeyboardAlways, PTL

\* No letter is lost: in every state, and for every letter of the layout, the letters
\* completed and those in the buffer are those there were, and the letter, in the order
\* typed; but for a final consonant that can end no syllable, when another consonant
\* follows (appendCharacter, makeHangul).
THEOREM LettersAlwaysKept == Spec => []LettersKept
<1>1. KeyboardInv => LettersKept
  <2>1. ASSUME KeyboardInv, NEW code \in Letters, ~(HiddenFinal(automata) /\ code \in PREF_CHO)
        PROVE  LET r == AppendLetter(automata, code)
               IN  decode(r.completed) \o Keys(r.automata) = Append(Keys(automata), code)
    <3> DEFINE r == AppendLetter(automata, code)
    <3>1. IsAutomaton(automata)
      BY <2>1 DEF KeyboardInv, KeyboardTypeOK
    <3>2. code \in PREF_CHO \/ code \in SimpleVowel
      BY KeyboardAssumption, Letterkinds
    <3>3. IsAutomaton(r.automata)
      BY <3>1, AppendShape, KeyboardAssumption
    <3>4. CASE code \in PREF_CHO
      <4>1. ConsonantOutcome(automata, code, r)
        BY <3>1, <3>4, Consonants
      <4> HIDE DEF r
      <4>2. decode(r.completed) \o Keys(r.automata) = Append(Keys(automata), code)
        BY <2>1, <3>1, <3>3, <3>4, <4>1, ConsonantKept
      <4> QED BY <4>2 DEF r
    <3>5. CASE code \in SimpleVowel
      <4>1. VowelOutcome(automata, code, r)
        BY <3>1, <3>5, Vowels
      <4> HIDE DEF r
      <4>2. decode(r.completed) \o Keys(r.automata) = Append(Keys(automata), code)
        BY <3>1, <3>3, <3>5, <4>1, VowelKept
      <4> QED BY <4>2 DEF r
    <3> QED BY <3>2, <3>4, <3>5
  <2> QED BY <2>1 DEF LettersKept
<1> QED BY <1>1, KeyboardAlways, PTL

\* No syllable is broken off early: in every state, and for every letter of the layout, the
\* letter joins what is composed when there is any character next to it (one that differs
\* in one part) for the keys typed so far and this one (appendCharacter, with the tables
\* of clusters and diphthongs).
THEOREM AlwaysComposesWhatItCan == Spec => []ComposesWhatItCan
<1>1. KeyboardInv => ComposesWhatItCan
  <2>1. ASSUME KeyboardInv, NEW code \in Letters, NEW char \in Neighbours(automata.working),
               IsCharacter(char), decode(char) = Append(Keys(automata), code)
        PROVE  /\ AppendLetter(automata, code).completed = NoChar
               /\ decode(AppendLetter(automata, code).automata.working)
                    = Append(Keys(automata), code)
    <3> DEFINE a == automata
               r == AppendLetter(a, code)
    <3>1. IsAutomaton(a)
      BY <2>1 DEF KeyboardInv, KeyboardTypeOK
    <3>2. code \in PREF_CHO \/ code \in SimpleVowel
      BY KeyboardAssumption, Letterkinds
    <3>3. IsAutomaton(r.automata)
      BY <3>1, AppendShape, KeyboardAssumption
    <3>4. char = [cho |-> char.cho, jung |-> char.jung, jong |-> char.jong]
      BY <2>1, <3>1, ShownKind, CharacterIs
    <3>5. CASE code \in PREF_CHO
      <4>1. TakesConsonant(a, code)
        BY <2>1, <3>1, <3>4, <3>5, ConsonantFits
      <4>2. r.completed = NoChar /\ ~HiddenFinal(a)
        BY <3>1, <3>5, <4>1, ConsonantTaken
      <4>3. ConsonantOutcome(a, code, r)
        BY <3>1, <3>5, Consonants
      <4> HIDE DEF r
      <4>4. ~HiddenFinal(r.automata)
        BY <3>1, <3>5, <4>1, <4>2, <4>3, ConsonantShown
      <4>5. decode(r.completed) \o Keys(r.automata) = Append(Keys(a), code)
        BY <3>1, <3>3, <3>5, <4>2, <4>3, ConsonantKept
      <4>6. decode(r.automata.working) = Append(Keys(a), code)
        BY <3>3, <4>2, <4>4, <4>5, ShownWhole
      <4> QED BY <4>2, <4>6 DEF r
    <3>6. CASE code \in SimpleVowel
      <4>1. TakesVowel(a, code)
        BY <2>1, <3>1, <3>4, <3>6, VowelFits
      <4>2. r.completed = NoChar
        BY <3>1, <3>6, <4>1, VowelTaken
      <4>3. VowelOutcome(a, code, r)
        BY <3>1, <3>6, Vowels
      <4> HIDE DEF r
      <4>4. ~HiddenFinal(r.automata)
        BY <3>1, <3>6, <4>1, <4>2, <4>3, VowelShown
      <4>5. decode(r.completed) \o Keys(r.automata) = Append(Keys(a), code)
        BY <3>1, <3>3, <3>6, <4>3, VowelKept
      <4>6. decode(r.automata.working) = Append(Keys(a), code)
        BY <3>3, <4>2, <4>4, <4>5, ShownWhole
      <4> QED BY <4>2, <4>6 DEF r
    <3> QED BY <3>2, <3>5, <3>6
  <2> QED BY <2>1 DEF ComposesWhatItCan
<1> QED BY <1>1, KeyboardAlways, PTL
==============================================================================
