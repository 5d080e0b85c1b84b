--------------------------- MODULE ConversionProofs ---------------------------
(***************************************************************************)
(* Proofs about the conversions, for texts and packets of any length and   *)
(* for any numbers: what ConfigFile sets comes back from the file it       *)
(* writes, a write that is cut short loses settings only from the end, and *)
(* the functions of Conversions agree with their reference definitions.    *)
(*                                                                         *)
(* The functions are recursive.  Recursion says that such a function       *)
(* exists and satisfies its equation, StepInduction and SetInduction carry *)
(* a statement, as the set of the numbers it holds for, through it.        *)
(***************************************************************************)
EXTENDS ConfigFile, Conversions, SequenceTheorems, WellFoundedInduction, TLAPS

-----------------------------------------------------------------------------
(* Induction and recursion.                                                *)

\* A set of natural numbers has a least one.
LEMMA LeastNat ==
  ASSUME NEW S, S \subseteq Nat, S # {}
  PROVE  \E m \in S : \A n \in S : m <= n
<1> DEFINE R == OpToRel(<, Nat)
<1>1. \A x, y : <<x, y>> \in R <=> x \in Nat /\ y \in Nat /\ x < y
  BY DEF OpToRel
<1>2. IsWellFoundedOn(R, Nat)
  BY NatLessThanWellFounded
<1> HIDE DEF R
<1>3. PICK m \in S : \A y \in S : ~(<<y, m>> \in R)
  BY <1>2, WFMin
<1>4. ASSUME NEW n \in S PROVE m <= n
  <2>1. ~(n < m)
    BY <1>1, <1>3
  <2>2. QED
    BY <2>1
<1>5. QED
  BY <1>4

\* Course-of-values induction, the statement being a set.
LEMMA SetInduction ==
  ASSUME NEW S, \A n \in Nat : 0..(n - 1) \subseteq S => n \in S
  PROVE  Nat \subseteq S
<1> SUFFICES ASSUME Nat \ S # {} PROVE FALSE
  OBVIOUS
<1>1. PICK m \in Nat \ S : \A n \in Nat \ S : m <= n
  BY LeastNat
<1>2. 0..(m - 1) \subseteq S
  <2>1. ASSUME NEW k \in 0..(m - 1) PROVE k \in S
    BY <1>1
  <2>2. QED
    BY <2>1
<1>3. QED
  BY <1>1, <1>2

\* Step by step induction, the statement being a set.
LEMMA StepInduction ==
  ASSUME NEW S, 0 \in S, \A n \in Nat : n \in S => n + 1 \in S
  PROVE  Nat \subseteq S
<1>1. ASSUME NEW n \in Nat, 0..(n - 1) \subseteq S PROVE n \in S
  <2>1. CASE n = 0
    BY <2>1
  <2>2. CASE n > 0
    <3>1. n - 1 \in Nat /\ n - 1 \in 0..(n - 1)
      BY <2>2
    <3>2. (n - 1) + 1 \in S
      BY <3>1, <1>1
    <3>3. QED
      BY <3>2
  <2>3. QED
    BY <2>1, <2>2
<1>2. QED
  BY <1>1, SetInduction

\* f is base on stop, and elsewhere goes by the one other argument that next names.
Recurses(f, D, stop, base, next, step) ==
  \A d \in D : f[d] = IF d \in stop THEN base[d] ELSE step[<<d, f[next[d]]>>]

\* That argument is smaller.
Descends(D, stop, next, measure) ==
  /\ measure \in [D -> Nat]
  /\ \A d \in D \ stop : measure[next[d]] < measure[d]

\* Such a function exists.
LEMMA Recursion ==
  ASSUME NEW D, NEW V, NEW stop, NEW base \in [D -> V], NEW next \in [D -> D],
         NEW step \in [D \X V -> V], NEW measure, Descends(D, stop, next, measure)
  PROVE  \E f \in [D -> V] : Recurses(f, D, stop, base, next, step)
<1> USE DEF Descends
<1> DEFINE Upto(n) == {d \in D : measure[d] < n}
           Good(n, f) == \A d \in Upto(n) :
                           f[d] = IF d \in stop THEN base[d] ELSE step[<<d, f[next[d]]>>]
           Part(n) == {f \in [D -> V] : Good(n, f)}
<1>1. \A n \in Nat : Part(n) # {}
  <2> DEFINE S == {n \in Nat : Part(n) # {}}
  <2>1. 0 \in S
    <3>1. Upto(0) = {}
      OBVIOUS
    <3>2. base \in Part(0)
      BY <3>1
    <3>3. QED
      BY <3>2
  <2>2. ASSUME NEW n \in Nat, n \in S PROVE n + 1 \in S
    <3>1. PICK f \in Part(n) : TRUE
      BY <2>2
    <3> DEFINE g == [d \in D |-> IF d \in stop THEN base[d] ELSE step[<<d, f[next[d]]>>]]
    <3>2. g \in [D -> V]
      BY <3>1
    <3>3. \A d \in Upto(n) : g[d] = f[d]
      BY <3>1
    <3>4. \A d \in Upto(n + 1) \ stop : next[d] \in Upto(n)
      OBVIOUS
    <3>5. Good(n + 1, g)
      BY <3>3, <3>4
    <3>6. g \in Part(n + 1)
      BY <3>2, <3>5
    <3> HIDE DEF g, Part
    <3>7. QED
      BY <3>6
  <2> HIDE DEF S
  <2>3. Nat \subseteq S
    BY <2>1, <2>2, StepInduction
  <2>4. QED
    BY <2>3 DEF S
<1>2. \A k, n \in Nat : \A f \in Part(k), g \in Part(n) :
        \A d \in D : measure[d] < k /\ measure[d] < n => f[d] = g[d]
  <2> SUFFICES ASSUME NEW k \in Nat, NEW n \in Nat, NEW f \in Part(k), NEW g \in Part(n)
               PROVE  \A d \in D : measure[d] < k /\ measure[d] < n => f[d] = g[d]
    OBVIOUS
  <2> DEFINE S == {i \in Nat : \A d \in D : measure[d] = i /\ i < k /\ i < n => f[d] = g[d]}
  <2>1. ASSUME NEW i \in Nat, 0..(i - 1) \subseteq S PROVE i \in S
    <3> SUFFICES ASSUME NEW d \in D, measure[d] = i, i < k, i < n PROVE f[d] = g[d]
      OBVIOUS
    <3>1. CASE d \in stop
      BY <3>1
    <3>2. CASE d \notin stop
      <4>1. measure[next[d]] \in 0..(i - 1) /\ next[d] \in D
        BY <3>2
      <4>2. f[next[d]] = g[next[d]]
        BY <4>1, <2>1
      <4>3. QED
        BY <3>2, <4>2
    <3>3. QED
      BY <3>1, <3>2
  <2> HIDE DEF S
  <2>2. Nat \subseteq S
    BY <2>1, SetInduction
  <2>3. QED
    BY <2>2 DEF S
<1> DEFINE p(n) == CHOOSE f \in Part(n) : TRUE
           F == [d \in D |-> p(measure[d] + 1)[d]]
<1>3. \A n \in Nat : p(n) \in Part(n)
  BY <1>1
<1> HIDE DEF p, Part
<1>4. F \in [D -> V]
  <2>1. ASSUME NEW d \in D PROVE p(measure[d] + 1)[d] \in V
    <3>1. p(measure[d] + 1) \in Part(measure[d] + 1)
      BY <1>3
    <3>2. QED
      BY <3>1 DEF Part
  <2>2. QED
    BY <2>1
<1>5. ASSUME NEW d \in D
      PROVE  F[d] = IF d \in stop THEN base[d] ELSE step[<<d, F[next[d]]>>]
  <2> DEFINE f == p(measure[d] + 1)
  <2>1. f \in Part(measure[d] + 1)
    BY <1>3
  <2>2. F[d] = f[d]
    OBVIOUS
  <2>3. f[d] = IF d \in stop THEN base[d] ELSE step[<<d, f[next[d]]>>]
    BY <2>1 DEF Part
  <2>4. ASSUME d \notin stop PROVE F[next[d]] = f[next[d]]
    <3> DEFINE e == next[d]
    <3>1. e \in D /\ measure[e] \in Nat /\ measure[d] \in Nat /\ measure[e] < measure[d]
      BY <2>4
    <3>2. p(measure[e] + 1) \in Part(measure[e] + 1)
      BY <3>1, <1>3
    <3>3. measure[e] + 1 \in Nat /\ measure[d] + 1 \in Nat
          /\ measure[e] < measure[e] + 1 /\ measure[e] < measure[d] + 1
      BY <3>1
    <3> HIDE DEF e, f
    <3>4. p(measure[e] + 1)[e] = f[e]
      BY <3>1, <3>2, <3>3, <2>1, <1>2
    <3>5. QED
      BY <3>1, <3>4 DEF e
  <2>5. QED
    BY <2>2, <2>3, <2>4
<1>6. QED
  BY <1>4, <1>5 DEF Recurses

-----------------------------------------------------------------------------
(* Texts.                                                                  *)

Maps == UNION {[D -> CString] : D \in SUBSET CString}

\* A set of natural numbers that has a bound has a greatest one.
LEMMA GreatestNat ==
  ASSUME NEW n \in Nat, NEW S, S \subseteq 0..n, S # {}
  PROVE  \E m \in S : \A k \in S : k <= m
<1> DEFINE T == {n - k : k \in S}
<1>1. PICK t \in T : \A u \in T : t <= u
  <2>1. \A k \in S : n - k \in Nat
    OBVIOUS
  <2>2. T \subseteq Nat /\ T # {}
    BY <2>1
  <2>3. QED
    BY <2>2, LeastNat
<1>2. PICK m \in S : t = n - m
  OBVIOUS
<1>3. \A k \in S : n - m <= n - k
  BY <1>1, <1>2
<1>4. QED
  BY <1>3

LEMMA FirstAtFacts ==
  ASSUME NEW s \in CString, NEW c
  PROVE  LET i == FirstAt(s, c) IN
         /\ i \in 1..(Len(s) + 1)
         /\ i <= Len(s) => s[i] = c
         /\ \A j \in 1..(i - 1) : s[j] # c
<1> DEFINE S == {i \in 1..(Len(s) + 1) : i <= Len(s) => s[i] = c}
<1>1. Len(s) \in Nat
  BY DEF CString
<1>2. Len(s) + 1 \in S
  BY <1>1
<1>3. S \subseteq Nat
  BY <1>1
<1>4. PICK m \in S : \A n \in S : m <= n
  BY <1>2, <1>3, LeastNat
<1>5. \A j \in 1..(m - 1) : s[j] # c
  BY <1>1, <1>4
<1>6. QED
  BY <1>4, <1>5 DEF FirstAt

LEMMA FirstAtIs ==
  ASSUME NEW s \in CString, NEW c, NEW k \in 1..(Len(s) + 1),
         k <= Len(s) => s[k] = c, \A j \in 1..(k - 1) : s[j] # c
  PROVE  FirstAt(s, c) = k
<1> DEFINE i == FirstAt(s, c)
<1>1. /\ i \in 1..(Len(s) + 1)
      /\ i <= Len(s) => s[i] = c
      /\ \A j \in 1..(i - 1) : s[j] # c
  BY FirstAtFacts
<1>2. Len(s) \in Nat
  BY DEF CString
<1> HIDE DEF i
<1>3. ~(i < k) /\ ~(k < i)
  BY <1>1, <1>2
<1>4. QED
  BY <1>1, <1>2, <1>3 DEF i

\* Two texts together.
LEMMA Together ==
  ASSUME NEW s \in CString, NEW t \in CString
  PROVE  /\ s \o t \in CString /\ Len(s \o t) = Len(s) + Len(t)
         /\ \A i \in 1..(Len(s) + Len(t)) :
              (s \o t)[i] = IF i <= Len(s) THEN s[i] ELSE t[i - Len(s)]
BY ConcatProperties DEF CString

\* A part of a text.
LEMMA PartOfText ==
  ASSUME NEW s \in CString, NEW a \in 1..(Len(s) + 1), NEW b \in 0..Len(s)
  PROVE  /\ SubSeq(s, a, b) \in CString
         /\ a <= b + 1 => Len(SubSeq(s, a, b)) = b - a + 1
         /\ a > b => SubSeq(s, a, b) = <<>>
         /\ \A i \in 1..(b - a + 1) : SubSeq(s, a, b)[i] = s[a + i - 1]
<1>1. Len(s) \in Nat /\ \A i \in 1..Len(s) : s[i] \in 1..255
  BY ElementOfSeq, LenProperties DEF CString
<1>2. a \in Int /\ b \in Int /\ \A i \in a..b : s[i] \in 1..255
  BY <1>1
<1>3. QED
  BY <1>1, <1>2, SubSeqProperties, SubSeqEmpty DEF CString

LEMMA TrimSpaceType ==
  ASSUME NEW s \in CString
  PROVE  TrimSpace(s) \in CString
<1> DEFINE kept == {i \in DOMAIN s : s[i] \notin Blanks}
           a == CHOOSE i \in kept : \A j \in kept : i <= j
           b == CHOOSE i \in kept : \A j \in kept : j <= i
<1>1. Len(s) \in Nat /\ DOMAIN s = 1..Len(s)
  BY DEF CString
<1>2. CASE kept = {}
  BY <1>2 DEF TrimSpace, CString
<1>3. CASE kept # {}
  <2>1. kept \subseteq Nat /\ kept \subseteq 0..Len(s) /\ kept \subseteq 1..Len(s)
    BY <1>1
  <2>2. a \in kept
    <3>1. \E i \in kept : \A j \in kept : i <= j
      BY <1>3, <2>1, LeastNat
    <3>2. QED
      BY <3>1
  <2>3. b \in kept
    <3>1. \E i \in kept : \A j \in kept : j <= i
      BY <1>1, <1>3, <2>1, GreatestNat
    <3>2. QED
      BY <3>1
  <2>4. TrimSpace(s) = SubSeq(s, a, b)
    BY <1>3 DEF TrimSpace
  <2> HIDE DEF kept, a, b
  <2>5. a \in 1..(Len(s) + 1) /\ b \in 0..Len(s)
    BY <1>1, <2>1, <2>2, <2>3
  <2>6. QED
    BY <2>4, <2>5, PartOfText
<1>4. QED
  BY <1>2, <1>3

LEMMA BareType ==
  ASSUME NEW s \in CString
  PROVE  Bare(s) \in CString
<1> DEFINE t == SubSeq(s, 1, FirstAt(s, NL) - 1)
<1>1. Len(s) \in Nat
  BY DEF CString
<1>2. t \in CString
  <2>1. FirstAt(s, NL) - 1 \in 0..Len(s) /\ 1 \in 1..(Len(s) + 1)
    BY <1>1, FirstAtFacts
  <2>2. QED
    BY <2>1, PartOfText
<1> HIDE DEF t
<1>3. Len(t) \in Nat
  BY <1>2 DEF CString
<1>4. FirstAt(t, Hash) - 1 \in 0..Len(t) /\ 1 \in 1..(Len(t) + 1)
  BY <1>2, <1>3, FirstAtFacts
<1>5. SubSeq(t, 1, FirstAt(t, Hash) - 1) \in CString
  BY <1>2, <1>4, PartOfText
<1>6. QED
  BY <1>5 DEF Bare, t

LEMMA ParseLineType ==
  ASSUME NEW s \in CString
  PROVE  ParseLine(s) \in Maps
<1> DEFINE p == FirstAt(s, Equals)
           key == TrimSpace(SubSeq(s, 1, p - 1))
           value == TrimSpace(SubSeq(s, p + 1, Len(s)))
<1>1. Len(s) \in Nat
  BY DEF CString
<1>2. p \in 1..(Len(s) + 1)
  BY FirstAtFacts
<1> HIDE DEF p
<1>3. CASE p > Len(s)
  BY <1>3 DEF ParseLine, NoSettings, Maps, p
<1>4. CASE p <= Len(s)
  <2>1. SubSeq(s, 1, p - 1) \in CString
    <3>1. 1 \in 1..(Len(s) + 1) /\ p - 1 \in 0..Len(s)
      BY <1>1, <1>2
    <3>2. QED
      BY <3>1, PartOfText
  <2>2. SubSeq(s, p + 1, Len(s)) \in CString
    <3>1. p + 1 \in 1..(Len(s) + 1) /\ Len(s) \in 0..Len(s)
      BY <1>1, <1>2, <1>4
    <3>2. QED
      BY <3>1, PartOfText
  <2>3. key \in CString /\ value \in CString
    BY <2>1, <2>2, TrimSpaceType
  <2> HIDE DEF key, value
  <2>4. NoSettings \in Maps /\ [n \in {key} |-> value] \in Maps
    <3>1. NoSettings \in [{} -> CString]
      BY DEF NoSettings
    <3>2. [n \in {key} |-> value] \in [{key} -> CString]
      BY <2>3
    <3>3. {} \in SUBSET CString /\ {key} \in SUBSET CString
      BY <2>3
    <3>4. QED
      BY <3>1, <3>2, <3>3 DEF Maps
  <2>5. ParseLine(s) \in {NoSettings, [n \in {key} |-> value]}
    BY DEF ParseLine, key, value, p
  <2>6. QED
    BY <2>4, <2>5
<1>5. QED
  BY <1>1, <1>2, <1>3, <1>4

LEMMA InsertFacts ==
  ASSUME NEW f \in Maps, NEW g \in Maps
  PROVE  /\ Insert(f, g) \in Maps
         /\ DOMAIN Insert(f, g) = DOMAIN f \cup DOMAIN g
         /\ \A n \in DOMAIN f : Insert(f, g)[n] = f[n]
         /\ \A n \in DOMAIN g : n \notin DOMAIN f => Insert(f, g)[n] = g[n]
<1>1. /\ DOMAIN f \subseteq CString /\ \A n \in DOMAIN f : f[n] \in CString
      /\ DOMAIN g \subseteq CString /\ \A n \in DOMAIN g : g[n] \in CString
  BY DEF Maps
<1> DEFINE D == DOMAIN f \cup DOMAIN g
<1>2. Insert(f, g) \in [D -> CString]
  BY <1>1 DEF Insert
<1>3. D \in SUBSET CString
  BY <1>1
<1>4. QED
  BY <1>2, <1>3 DEF Insert, Maps

LEMMA InsertAssociates ==
  ASSUME NEW f \in Maps, NEW g \in Maps, NEW h \in Maps
  PROVE  Insert(f, Insert(g, h)) = Insert(Insert(f, g), h)
<1> DEFINE D == DOMAIN f \cup DOMAIN g \cup DOMAIN h
           v(n) == IF n \in DOMAIN f THEN f[n]
                   ELSE IF n \in DOMAIN g THEN g[n] ELSE h[n]
<1>1. Insert(f, Insert(g, h)) = [n \in D |-> v(n)]
  BY DEF Insert
<1>2. Insert(Insert(f, g), h) = [n \in D |-> v(n)]
  BY DEF Insert
<1>3. QED
  BY <1>1, <1>2

LEMMA InsertNone ==
  ASSUME NEW f \in Maps
  PROVE  Insert(f, NoSettings) = f /\ Insert(NoSettings, f) = f
<1>1. f = [n \in DOMAIN f |-> f[n]]
  BY DEF Maps
<1>2. Insert(f, NoSettings) = [n \in DOMAIN f |-> f[n]]
  BY DEF Insert, NoSettings
<1>3. Insert(NoSettings, f) = [n \in DOMAIN f |-> f[n]]
  BY DEF Insert, NoSettings
<1>4. QED
  BY <1>1, <1>2, <1>3

LEMMA NoSettingsType == NoSettings \in Maps
<1>1. NoSettings \in [{} -> CString]
  BY DEF NoSettings
<1>2. QED
  BY <1>1 DEF Maps

\* Where a line ends.
EndsLine(text, p, e) ==
  /\ e \in p..Len(text)
  /\ text[e] = NL \/ e = p + LineMax - 1 \/ e = Len(text)
  /\ \A i \in p..(e - 1) : text[i] # NL /\ i # p + LineMax - 1

LEMMA LineEndFacts ==
  ASSUME NEW text \in CString, NEW p \in 1..Len(text)
  PROVE  EndsLine(text, p, LineEnd(text, p))
<1> DEFINE S == {e \in p..Len(text) : text[e] = NL \/ e = p + LineMax - 1 \/ e = Len(text)}
<1>1. Len(text) \in Nat /\ LineMax \in Nat
  BY ConfigAssumption DEF CString
<1>2. Len(text) \in S /\ S \subseteq Nat
  BY <1>1
<1>3. PICK m \in S : \A n \in S : m <= n
  BY <1>2, LeastNat
<1>4. \A i \in p..(m - 1) : text[i] # NL /\ i # p + LineMax - 1
  BY <1>1, <1>3
<1>5. EndsLine(text, p, m)
  BY <1>3, <1>4 DEF EndsLine
<1>6. QED
  BY <1>5 DEF EndsLine, LineEnd

LEMMA LineEndIs ==
  ASSUME NEW text \in CString, NEW p \in 1..Len(text), NEW e, EndsLine(text, p, e)
  PROVE  LineEnd(text, p) = e
<1> DEFINE d == LineEnd(text, p)
<1>1. EndsLine(text, p, d)
  BY LineEndFacts
<1> HIDE DEF d
<1>2. Len(text) \in Nat /\ LineMax \in Nat
  BY ConfigAssumption DEF CString
<1>3. d \in Int /\ e \in Int /\ ~(d < e) /\ ~(e < d)
  BY <1>1, <1>2 DEF EndsLine
<1>4. d = e
  BY <1>3
<1>5. QED
  BY <1>4 DEF d

\* The setting in the line of text that begins at p.
LineAt(text, p) == ParseLine(Bare(SubSeq(text, p, LineEnd(text, p))))

LEMMA LineAtType ==
  ASSUME NEW text \in CString, NEW p \in 1..Len(text)
  PROVE  LineAt(text, p) \in Maps
<1>1. Len(text) \in Nat /\ LineEnd(text, p) \in p..Len(text)
  BY LineEndFacts DEF EndsLine, CString
<1>2. SubSeq(text, p, LineEnd(text, p)) \in CString
  <2>1. p \in 1..(Len(text) + 1) /\ LineEnd(text, p) \in 0..Len(text)
    BY <1>1
  <2>2. QED
    BY <2>1, PartOfText
<1>3. QED
  BY <1>2, BareType, ParseLineType DEF LineAt

\* LoadFile's loop takes one line after the other.
LEMMA LoadedFrom ==
  ASSUME NEW text \in CString
  PROVE  \E from \in [1..(Len(text) + 1) -> Maps] :
           /\ Loaded(text) = from[1]
           /\ from[Len(text) + 1] = NoSettings
           /\ \A p \in 1..Len(text) :
                from[p] = Insert(LineAt(text, p), from[LineEnd(text, p) + 1])
<1> DEFINE D == 1..(Len(text) + 1)
           L == Len(text)
           Eq(f) == f = [p \in D |-> IF p > Len(text) THEN NoSettings
                                     ELSE LET e == LineEnd(text, p)
                                          IN  Insert(ParseLine(Bare(SubSeq(text, p, e))), f[e + 1])]
           stop == {L + 1}
           base == [p \in D |-> NoSettings]
           next == [p \in D |-> IF p \in stop THEN p ELSE LineEnd(text, p) + 1]
           step == [x \in D \X Maps |-> IF x[1] \in stop THEN NoSettings
                                        ELSE Insert(LineAt(text, x[1]), x[2])]
           measure == [p \in D |-> L + 1 - p]
<1>1. L \in Nat
  BY DEF CString
<1>2. \A p \in D \ stop : p \in 1..L /\ LineEnd(text, p) \in p..L
  <2>1. \A p \in D \ stop : p \in 1..Len(text)
    BY <1>1
  <2>2. QED
    BY <2>1, LineEndFacts DEF EndsLine
<1>3. \E f \in [D -> Maps] : Recurses(f, D, stop, base, next, step)
  <2>1. base \in [D -> Maps]
    BY NoSettingsType
  <2>2. next \in [D -> D]
    BY <1>1, <1>2
  <2>3. step \in [D \X Maps -> Maps]
    <3>1. ASSUME NEW x \in D \X Maps PROVE step[x] \in Maps
      <4>1. CASE x[1] \in stop
        BY <4>1, NoSettingsType
      <4>2. CASE x[1] \notin stop
        <5>1. x[1] \in 1..Len(text) /\ x[2] \in Maps
          BY <4>2, <1>2
        <5>2. QED
          BY <4>2, <5>1, LineAtType, InsertFacts
      <4>3. QED
        BY <4>1, <4>2
    <3>2. QED
      BY <3>1
  <2>4. measure \in [D -> Nat]
    BY <1>1
  <2>5. \A d \in D \ stop : measure[next[d]] < measure[d]
    <3>1. ASSUME NEW d \in D \ stop PROVE measure[next[d]] < measure[d]
      <4>1. next[d] = LineEnd(text, d) + 1 /\ next[d] \in D /\ d \in 1..L
        BY <1>1, <1>2
      <4>2. measure[next[d]] = L + 1 - (LineEnd(text, d) + 1)
        BY <4>1
      <4>3. QED
        BY <1>1, <1>2, <4>2
    <3>2. QED
      BY <3>1
  <2>6. Descends(D, stop, next, measure)
    BY <2>4, <2>5 DEF Descends
  <2> HIDE DEF D, stop, base, next, step, measure
  <2>7. QED
    BY <2>1, <2>2, <2>3, <2>6, Recursion
<1>4. PICK f \in [D -> Maps] :
        \A d \in D : f[d] = IF d \in stop THEN base[d] ELSE step[<<d, f[next[d]]>>]
  BY <1>3 DEF Recurses
<1>5. ASSUME NEW d \in D
      PROVE  f[d] = IF d > Len(text) THEN NoSettings
                    ELSE LET e == LineEnd(text, d)
                         IN  Insert(ParseLine(Bare(SubSeq(text, d, e))), f[e + 1])
  <2>1. CASE d \in stop
    <3>1. f[d] = NoSettings
      BY <1>4, <2>1
    <3>2. d > Len(text)
      BY <1>1, <2>1
    <3>3. QED
      BY <3>1, <3>2
  <2>2. CASE d \notin stop
    <3>1. next[d] = LineEnd(text, d) + 1 /\ next[d] \in D
      BY <1>1, <1>2, <2>2
    <3>2. f[next[d]] \in Maps
      BY <3>1, <1>4
    <3>3. f[d] = step[<<d, f[next[d]]>>] /\ <<d, f[next[d]]>> \in D \X Maps
      BY <1>4, <2>2, <3>2
    <3>4. f[d] = Insert(LineAt(text, d), f[LineEnd(text, d) + 1])
      BY <2>2, <3>1, <3>3
    <3>5. d <= Len(text)
      BY <1>1, <2>2
    <3>6. QED
      BY <3>4, <3>5 DEF LineAt
  <2>3. QED
    BY <2>1, <2>2
<1>6. Eq(f)
  BY <1>4, <1>5
<1> DEFINE from == CHOOSE g : Eq(g)
<1>7. Eq(from)
  BY <1>6
<1>8. Loaded(text) = from[1]
  BY DEF Loaded
<1> HIDE DEF from
<1>9. from[L + 1] = NoSettings
  BY <1>1, <1>7
<1>10. \A p \in 1..L : from[p] = Insert(LineAt(text, p), from[LineEnd(text, p) + 1])
  <2>1. \A p \in 1..L : p \in D /\ ~(p > Len(text))
    BY <1>1
  <2>2. \A p \in D : from[p] = IF p > Len(text) THEN NoSettings
                              ELSE LET e == LineEnd(text, p)
                                   IN  Insert(ParseLine(Bare(SubSeq(text, p, e))), from[e + 1])
    BY <1>7, Zenon
  <2> HIDE DEF D, L
  <2>3. QED
    BY <2>1, <2>2, Zenon DEF LineAt
<1>11. from \in [D -> Maps]
  <2> DEFINE S == {n \in Nat : n <= L => from[L + 1 - n] \in Maps}
  <2>1. ASSUME NEW n \in Nat, 0..(n - 1) \subseteq S PROVE n \in S
    <3>1. CASE n = 0
      BY <1>1, <1>9, <3>1, NoSettingsType
    <3>2. CASE n \in 1..L
      <4> DEFINE p == L + 1 - n
                 e == LineEnd(text, p)
      <4>1. p \in 1..L
        BY <1>1, <3>2
      <4>2. e \in p..L
        BY <4>1, LineEndFacts DEF EndsLine
      <4>3. from[p] = Insert(LineAt(text, p), from[e + 1])
        BY <4>1, <1>10
      <4> HIDE DEF e
      <4>4. L - e \in 0..(n - 1) /\ L - e <= L /\ L + 1 - (L - e) = e + 1
        BY <1>1, <4>1, <4>2, <3>2
      <4>5. from[e + 1] \in Maps
        BY <4>4, <2>1
      <4>6. LineAt(text, p) \in Maps
        BY <4>1, LineAtType
      <4>7. from[p] \in Maps
        BY <4>3, <4>5, <4>6, InsertFacts
      <4>8. QED
        BY <4>7
    <3>3. CASE n > L
      BY <3>3, <1>1
    <3>4. QED
      BY <1>1, <3>1, <3>2, <3>3
  <2> HIDE DEF S
  <2>2. Nat \subseteq S
    BY <2>1, SetInduction
  <2>3. ASSUME NEW p \in D PROVE from[p] \in Maps
    <3>1. L + 1 - p \in Nat /\ L + 1 - p <= L /\ L + 1 - (L + 1 - p) = p
      BY <1>1
    <3>2. L + 1 - p \in S
      BY <2>2, <3>1
    <3>3. QED
      BY <3>1, <3>2 DEF S
  <2>4. QED
    BY <1>7, <2>3
<1>12. QED
  BY <1>8, <1>9, <1>10, <1>11

LEMMA LoadedType ==
  ASSUME NEW text \in CString
  PROVE  Loaded(text) \in Maps
<1>1. 1 \in 1..(Len(text) + 1)
  BY DEF CString
<1>2. QED
  BY <1>1, LoadedFrom

\* Lines that end in a newline stay the same when more is written behind them.
LEMMA LineAtAppend ==
  ASSUME NEW t \in CString, NEW u \in CString, t[Len(t)] = NL, NEW p \in 1..Len(t)
  PROVE  /\ LineEnd(t \o u, p) = LineEnd(t, p)
         /\ LineAt(t \o u, p) = LineAt(t, p)
<1> DEFINE w == t \o u
           e == LineEnd(t, p)
<1>1. /\ Len(t) \in Nat /\ Len(u) \in Nat /\ w \in CString
      /\ Len(w) = Len(t) + Len(u)
      /\ \A i \in 1..Len(t) : w[i] = t[i]
  BY ConcatProperties DEF CString
<1>2. EndsLine(t, p, e)
  BY LineEndFacts
<1> HIDE DEF w, e
<1>3. p \in 1..Len(w)
  BY <1>1
<1>4. EndsLine(w, p, e)
  <2>1. e \in p..Len(t) /\ e \in p..Len(w)
    BY <1>1, <1>2 DEF EndsLine
  <2>2. w[e] = NL \/ e = p + LineMax - 1 \/ e = Len(w)
    BY <1>1, <1>2, <2>1 DEF EndsLine
  <2>3. \A i \in p..(e - 1) : w[i] # NL /\ i # p + LineMax - 1
    BY <1>1, <1>2, <2>1 DEF EndsLine
  <2>4. QED
    BY <2>1, <2>2, <2>3 DEF EndsLine
<1>5. LineEnd(w, p) = e
  BY <1>1, <1>3, <1>4, LineEndIs
<1>6. SubSeq(w, p, e) = SubSeq(t, p, e)
  <2>1. p \in 1..Len(t) /\ e \in 1..Len(t)
    BY <1>1, <1>2 DEF EndsLine
  <2>2. QED
    BY <2>1, SubSeqOfConcat1 DEF w, CString
<1>7. QED
  BY <1>5, <1>6 DEF LineAt, w, e

\* A line written behind whole lines is one more line to load, and no more than that; it need
\* not be whole itself.
LEMMA LoadedAppend ==
  ASSUME NEW t \in CString, t = <<>> \/ t[Len(t)] = NL,
         NEW u \in CString, Len(u) \in 1..LineMax, \A i \in 1..(Len(u) - 1) : u[i] # NL
  PROVE  Loaded(t \o u) = Insert(Loaded(t), ParseLine(Bare(u)))
<1> DEFINE w == t \o u
           L == Len(t)
           N == L + Len(u)
           P == ParseLine(Bare(u))
<1>1. /\ L \in Nat /\ Len(u) \in Nat /\ w \in CString /\ Len(w) = N /\ LineMax \in Nat
      /\ \A i \in 1..N : w[i] = IF i <= L THEN t[i] ELSE u[i - L]
  BY ConcatProperties, ConfigAssumption DEF CString
<1> HIDE DEF w
<1>2. LineEnd(w, L + 1) = N
  <2>1. L + 1 \in 1..Len(w)
    BY <1>1
  <2>2. \A i \in (L + 1)..(N - 1) : w[i] # NL /\ i # (L + 1) + LineMax - 1
    <3>1. ASSUME NEW i \in (L + 1)..(N - 1) PROVE w[i] # NL /\ i # (L + 1) + LineMax - 1
      <4>1. w[i] = u[i - L] /\ i - L \in 1..(Len(u) - 1)
        BY <1>1
      <4>2. QED
        BY <1>1, <4>1
    <3>2. QED
      BY <3>1
  <2>3. EndsLine(w, L + 1, N)
    BY <1>1, <2>2 DEF EndsLine
  <2>4. QED
    BY <1>1, <2>1, <2>3, LineEndIs
<1>3. LineAt(w, L + 1) = P
  <2>1. SubSeq(w, L + 1, N) = u
    <3>1. L + 1 \in 1..(Len(w) + 1) /\ N \in 0..Len(w)
      BY <1>1
    <3>2. /\ SubSeq(w, L + 1, N) \in CString
          /\ Len(SubSeq(w, L + 1, N)) = N - (L + 1) + 1
          /\ \A i \in 1..(N - (L + 1) + 1) : SubSeq(w, L + 1, N)[i] = w[L + 1 + i - 1]
      BY <1>1, <3>1, PartOfText
    <3>3. N - (L + 1) + 1 = Len(u) /\ \A i \in 1..Len(u) : w[L + 1 + i - 1] = u[i]
      <4>1. ASSUME NEW i \in 1..Len(u) PROVE w[L + 1 + i - 1] = u[i]
        <5>1. L + 1 + i - 1 = L + i /\ L + i \in 1..N /\ ~(L + i <= L) /\ L + i - L = i
          BY <1>1
        <5>2. QED
          BY <1>1, <5>1
      <4>2. QED
        BY <1>1, <4>1
    <3>4. QED
      BY <3>2, <3>3, SeqEqual DEF CString
  <2>2. QED
    BY <1>2, <2>1 DEF LineAt
<1>4. P \in Maps
  BY BareType, ParseLineType
<1>5. PICK f \in [1..(L + 1) -> Maps] :
        /\ Loaded(t) = f[1]
        /\ f[L + 1] = NoSettings
        /\ \A p \in 1..L : f[p] = Insert(LineAt(t, p), f[LineEnd(t, p) + 1])
  BY LoadedFrom
<1>6. PICK g \in [1..(N + 1) -> Maps] :
        /\ Loaded(w) = g[1]
        /\ g[N + 1] = NoSettings
        /\ \A p \in 1..N : g[p] = Insert(LineAt(w, p), g[LineEnd(w, p) + 1])
  BY <1>1, LoadedFrom
<1> HIDE DEF P
<1>7. g[L + 1] = P
  <2>1. g[L + 1] = Insert(P, NoSettings)
    <3>1. L + 1 \in 1..N
      BY <1>1
    <3>2. QED
      BY <1>2, <1>3, <1>6, <3>1
  <2>2. QED
    BY <2>1, <1>4, InsertNone
<1> DEFINE S == {n \in Nat : n <= L => g[L + 1 - n] = Insert(f[L + 1 - n], P)}
<1>8. ASSUME NEW n \in Nat, 0..(n - 1) \subseteq S PROVE n \in S
  <2>1. CASE n = 0
    <3>1. Insert(f[L + 1], P) = P
      BY <1>4, <1>5, InsertNone
    <3>2. L + 1 - n = L + 1
      BY <1>1, <2>1
    <3>3. QED
      BY <1>7, <3>1, <3>2
  <2>2. CASE n \in 1..L
    <3> DEFINE p == L + 1 - n
               e == LineEnd(t, p)
    <3>1. p \in 1..L /\ p \in 1..N
      BY <1>1, <2>2
    <3>2. e \in p..L
      BY <3>1, LineEndFacts DEF EndsLine
    <3>3. t[Len(t)] = NL
      <4>1. t # <<>>
        BY <1>1, <3>1
      <4>2. QED
        BY <4>1
    <3>4. LineEnd(w, p) = e /\ LineAt(w, p) = LineAt(t, p)
      BY <3>1, <3>3, LineAtAppend DEF w
    <3> HIDE DEF e
    <3>5. f[p] = Insert(LineAt(t, p), f[e + 1])
      BY <1>5, <3>1 DEF e
    <3>6. g[p] = Insert(LineAt(t, p), g[e + 1])
      BY <1>6, <3>1, <3>4
    <3>7. g[e + 1] = Insert(f[e + 1], P)
      <4>1. L - e \in 0..(n - 1) /\ L - e \in Nat /\ L - e <= L /\ L + 1 - (L - e) = e + 1
        BY <1>1, <3>1, <3>2, <2>2
      <4>2. L - e \in S
        BY <4>1, <1>8
      <4>3. QED
        BY <4>1, <4>2
    <3>8. f[e + 1] \in Maps /\ LineAt(t, p) \in Maps
      <4>1. e + 1 \in 1..(L + 1)
        BY <1>1, <3>1, <3>2
      <4>2. QED
        BY <4>1, <1>5, <3>1, LineAtType
    <3>9. g[p] = Insert(f[p], P)
      BY <1>4, <3>5, <3>6, <3>7, <3>8, InsertAssociates
    <3>10. QED
      BY <3>9
  <2>3. CASE n > L
    BY <1>1, <2>3
  <2>4. QED
    BY <1>1, <2>1, <2>2, <2>3
<1>9. L \in S
  <2> HIDE DEF S
  <2>1. Nat \subseteq S
    BY <1>8, SetInduction
  <2>2. QED
    BY <1>1, <2>1
<1>10. L + 1 - L = 1
  BY <1>1
<1>11. g[1] = Insert(f[1], P)
  BY <1>1, <1>9, <1>10
<1>12. QED
  BY <1>5, <1>6, <1>11 DEF w, P

LEMMA LoadedNothing == Loaded(<<>>) = NoSettings
<1>1. <<>> \in CString /\ Len(<<>>) = 0
  BY DEF CString
<1>2. QED
  BY <1>1, LoadedFrom

-----------------------------------------------------------------------------
(* The line of a setting, and what is left of it when it is cut.           *)

\* A setting that a file can hold.
TidyPair(n, v) ==
  /\ n \in CString /\ v \in CString
  /\ n # <<>> /\ TrimSpace(n) = n
  /\ \A c \in {NL, Hash, Equals} : c \notin ToSet(n)
  /\ NL \notin ToSet(v)
  /\ Len(n) + Len(v) + 2 <= PairMax

LEMMA PairLineFacts ==
  ASSUME NEW n, NEW v, TidyPair(n, v)
  PROVE  LET line == PairLine(<<n, v>>) IN
         /\ line \in CString
         /\ Len(line) = Len(n) + Len(v) + 2
         /\ \A i \in 1..Len(n) : line[i] = n[i] /\ line[i] \notin {NL, Hash, Equals}
         /\ line[Len(n) + 1] = Equals
         /\ \A i \in 1..Len(v) : line[Len(n) + 1 + i] = v[i] /\ v[i] # NL
         /\ line[Len(n) + Len(v) + 2] = NL
<1> DEFINE x == n \o <<Equals>>
           y == x \o v
           line == y \o <<NL>>
<1>1. /\ Len(n) \in Nat /\ Len(v) \in Nat /\ PairMax \in Nat
      /\ Len(n) + Len(v) + 2 <= PairMax
  BY ConfigAssumption DEF TidyPair, CString
<1>2. /\ <<Equals>> \in CString /\ Len(<<Equals>>) = 1 /\ <<Equals>>[1] = Equals
      /\ <<NL>> \in CString /\ Len(<<NL>>) = 1 /\ <<NL>>[1] = NL
  BY DEF Equals, NL, CString
<1>3. /\ x \in CString /\ Len(x) = Len(n) + 1
      /\ \A i \in 1..(Len(n) + 1) : x[i] = IF i <= Len(n) THEN n[i] ELSE Equals
  BY <1>1, <1>2, ConcatProperties DEF TidyPair, CString
<1> HIDE DEF x
<1>4. /\ y \in CString /\ Len(y) = Len(x) + Len(v)
      /\ \A i \in 1..(Len(x) + Len(v)) : y[i] = IF i <= Len(x) THEN x[i] ELSE v[i - Len(x)]
  <2>1. x \in CString /\ v \in CString
    BY <1>3 DEF TidyPair
  <2>2. QED
    BY <2>1, Together
<1> HIDE DEF y
<1>5. /\ line \in CString /\ Len(line) = Len(y) + 1
      /\ \A i \in 1..(Len(y) + 1) : line[i] = IF i <= Len(y) THEN y[i] ELSE NL
  <2>1. /\ line \in CString /\ Len(line) = Len(y) + Len(<<NL>>)
        /\ \A i \in 1..(Len(y) + Len(<<NL>>)) :
             line[i] = IF i <= Len(y) THEN y[i] ELSE <<NL>>[i - Len(y)]
    BY <1>2, <1>4, ConcatProperties DEF CString
  <2>2. Len(y) \in Nat /\ \A i \in 1..(Len(y) + 1) : i <= Len(y) \/ i - Len(y) = 1
    BY <1>1, <1>3, <1>4
  <2>3. QED
    BY <1>2, <2>1, <2>2
<1>6. PairLine(<<n, v>>) = line
  <2>1. PairLine(<<n, v>>) = SubSeq(line, 1, IF Len(line) < PairMax THEN Len(line) ELSE PairMax)
    BY DEF PairLine, line, y, x
  <2> HIDE DEF line
  <2>2. (IF Len(line) < PairMax THEN Len(line) ELSE PairMax) = Len(line)
    BY <1>1, <1>3, <1>4, <1>5
  <2>3. SubSeq(line, 1, Len(line)) = line
    BY <1>5, SubSeqFull DEF CString
  <2>4. QED
    BY <2>1, <2>2, <2>3
<1> HIDE DEF line
<1>7. \A i \in 1..Len(n) : n[i] \notin {NL, Hash, Equals}
  BY LenProperties DEF TidyPair, ToSet, CString
<1>8. \A i \in 1..Len(v) : v[i] # NL
  BY LenProperties DEF TidyPair, ToSet, CString
<1>9. Len(line) = Len(n) + Len(v) + 2
  BY <1>1, <1>3, <1>4, <1>5
<1>10. \A i \in 1..Len(n) : line[i] = n[i]
  BY <1>1, <1>3, <1>4, <1>5
<1>11. line[Len(n) + 1] = Equals
  BY <1>1, <1>3, <1>4, <1>5
<1>12. \A i \in 1..Len(v) : line[Len(n) + 1 + i] = v[i]
  <2>1. ASSUME NEW i \in 1..Len(v) PROVE line[Len(n) + 1 + i] = v[i]
    <3>1. /\ Len(n) + 1 + i \in 1..Len(y) /\ ~(Len(n) + 1 + i <= Len(x))
          /\ Len(n) + 1 + i - Len(x) = i
      BY <1>1, <1>3, <1>4
    <3>2. line[Len(n) + 1 + i] = y[Len(n) + 1 + i]
      BY <1>1, <1>3, <1>4, <1>5, <3>1
    <3>3. QED
      BY <1>1, <1>3, <1>4, <3>1, <3>2
  <2>2. QED
    BY <2>1
<1>13. line[Len(n) + Len(v) + 2] = NL
  BY <1>1, <1>3, <1>4, <1>5
<1>14. QED
  BY <1>5, <1>6, <1>7, <1>8, <1>9, <1>10, <1>11, <1>12, <1>13

\* The first k characters of a setting's line, what they hold of its value, and the setting
\* they give.
Cut(n, v, k) == SubSeq(PairLine(<<n, v>>), 1, k)

CutValue(n, v, k) ==
  SubSeq(v, 1, IF k - Len(n) - 1 < Len(v) THEN k - Len(n) - 1 ELSE Len(v))

CutSetting(n, v, k) ==
  IF k - Len(n) - 1 < 0 \/ Back(CutValue(n, v, k)) = <<>> THEN NoSettings
  ELSE [x \in {n} |-> Back(CutValue(n, v, k))]

LEMMA CutLine ==
  ASSUME NEW n, NEW v, TidyPair(n, v), NEW k \in 1..Len(PairLine(<<n, v>>))
  PROVE  /\ Cut(n, v, k) \in CString /\ Len(Cut(n, v, k)) = k
         /\ \A i \in 1..(k - 1) : Cut(n, v, k)[i] # NL
         /\ ParseLine(Bare(Cut(n, v, k))) = CutSetting(n, v, k)
<1> DEFINE line == PairLine(<<n, v>>)
           ln == Len(n)
           lv == Len(v)
           u == SubSeq(line, 1, k)
           m == IF k < ln + lv + 2 THEN k ELSE ln + lv + 1
           t == SubSeq(u, 1, m)
<1>1. /\ ln \in Nat /\ lv \in Nat /\ n \in CString /\ v \in CString /\ n # <<>>
  BY DEF TidyPair, CString
<1>2. /\ line \in CString
      /\ Len(line) = ln + lv + 2
      /\ \A i \in 1..ln : line[i] = n[i] /\ line[i] \notin {NL, Hash, Equals}
      /\ line[ln + 1] = Equals
      /\ \A i \in 1..lv : line[ln + 1 + i] = v[i] /\ v[i] # NL
      /\ line[ln + lv + 2] = NL
  BY PairLineFacts
<1> HIDE DEF line
<1>3. /\ k \in 1..(ln + lv + 2) /\ m \in 1..k /\ m <= ln + lv + 1
      /\ m < k => k = ln + lv + 2 /\ m + 1 = k
  BY <1>1, <1>2 DEF line
<1>4. /\ u \in CString /\ Len(u) = k
      /\ \A i \in 1..k : u[i] = line[i]
  <2>1. /\ 1 \in 1..(Len(line) + 1) /\ k \in 0..Len(line)
        /\ 1 <= k + 1 /\ k - 1 + 1 = k
    BY <1>1, <1>2, <1>3
  <2>2. \A i \in 1..k : 1 + i - 1 = i
    BY <1>3
  <2>3. QED
    BY <1>2, <2>1, <2>2, PartOfText
<1> HIDE DEF u
<1>5. \A i \in 1..(ln + lv + 1) : line[i] # NL
  <2>1. ASSUME NEW i \in 1..(ln + lv + 1) PROVE line[i] # NL
    <3>1. CASE i <= ln
      BY <1>1, <1>2, <3>1
    <3>2. CASE i = ln + 1
      BY <1>2, <3>2 DEF Equals, NL
    <3>3. CASE i > ln + 1
      <4> DEFINE q == i - ln - 1
      <4>1. q \in 1..lv /\ ln + 1 + q = i
        BY <1>1, <3>3
      <4> HIDE DEF q
      <4>2. line[ln + 1 + q] # NL
        BY <1>2, <4>1
      <4>3. QED
        BY <4>1, <4>2
    <3>4. QED
      BY <1>1, <3>1, <3>2, <3>3
  <2>2. QED
    BY <2>1
<1>6. FirstAt(u, NL) = m + 1
  <2>1. m + 1 \in 1..(Len(u) + 1)
    BY <1>1, <1>3, <1>4
  <2>2. m + 1 <= Len(u) => u[m + 1] = NL
    BY <1>1, <1>2, <1>3, <1>4
  <2>3. \A i \in 1..((m + 1) - 1) : u[i] # NL
    BY <1>1, <1>3, <1>4, <1>5
  <2>4. QED
    BY <1>4, <2>1, <2>2, <2>3, FirstAtIs
<1> HIDE DEF m
<1>7. /\ t \in CString /\ Len(t) = m
      /\ \A i \in 1..m : t[i] = line[i]
  <2>1. /\ 1 \in 1..(Len(u) + 1) /\ m \in 0..Len(u) /\ m \in Nat
        /\ 1 <= m + 1 /\ m - 1 + 1 = m
    BY <1>1, <1>3, <1>4
  <2>2. \A i \in 1..m : 1 + i - 1 = i /\ i \in 1..k
    BY <1>3
  <2>3. /\ t \in CString /\ Len(t) = m - 1 + 1
        /\ \A i \in 1..(m - 1 + 1) : t[i] = u[1 + i - 1]
    BY <1>4, <2>1, PartOfText
  <2> HIDE DEF t
  <2>4. QED
    BY <1>4, <2>1, <2>2, <2>3
<1> HIDE DEF t
<1>8. Bare(u) = SubSeq(t, 1, FirstAt(t, Hash) - 1)
  <2>1. FirstAt(u, NL) - 1 = m
    BY <1>3, <1>6
  <2>2. SubSeq(u, 1, FirstAt(u, NL) - 1) = t
    BY <2>1 DEF t
  <2>3. QED
    BY <2>2 DEF Bare
<1> DEFINE j == k - ln - 1
           lb == IF j < lv THEN j ELSE lv
           b == SubSeq(v, 1, lb)
           h == FirstAt(t, Hash)
           r == SubSeq(t, 1, h - 1)
<1>9. /\ h \in 1..(m + 1)
      /\ h <= m => t[h] = Hash
      /\ \A i \in 1..(h - 1) : t[i] # Hash
  BY <1>7, FirstAtFacts
<1> HIDE DEF h
<1>10. /\ r \in CString /\ Len(r) = h - 1
       /\ \A i \in 1..(h - 1) : r[i] = line[i]
  <2>1. /\ 1 \in 1..(Len(t) + 1) /\ h - 1 \in 0..Len(t) /\ h - 1 \in Nat
        /\ 1 <= h - 1 + 1 /\ h - 1 - 1 + 1 = h - 1
    BY <1>3, <1>7, <1>9
  <2>2. \A i \in 1..(h - 1) : 1 + i - 1 = i /\ i \in 1..m
    BY <1>3, <1>9
  <2>3. QED
    BY <1>7, <2>1, <2>2, PartOfText
<1> HIDE DEF r
<1>11. Bare(u) = r
  BY <1>8 DEF r, h
<1>12. CASE j < 0
  <2>1. k <= ln /\ m = k
    BY <1>1, <1>3, <1>12
  <2>2. \A i \in 1..(h - 1) : r[i] # Equals
    BY <1>2, <1>3, <1>9, <1>10, <2>1
  <2>3. FirstAt(r, Equals) = Len(r) + 1
    <3>1. /\ Len(r) + 1 \in 1..(Len(r) + 1) /\ ~(Len(r) + 1 <= Len(r))
          /\ Len(r) + 1 - 1 = h - 1
      BY <1>3, <1>9, <1>10
    <3>2. QED
      BY <1>10, <2>2, <3>1, FirstAtIs
  <2>4. Len(r) + 1 > Len(r)
    BY <1>3, <1>9, <1>10
  <2>5. ParseLine(r) = NoSettings
    BY <2>3, <2>4 DEF ParseLine
  <2>6. CutSetting(n, v, k) = NoSettings
    BY <1>12 DEF CutSetting
  <2>7. \A i \in 1..(k - 1) : u[i] # NL
    BY <1>1, <1>3, <1>4, <1>5
  <2>8. QED
    BY <1>4, <1>11, <2>5, <2>6, <2>7 DEF Cut, u, line
<1>13. CASE j >= 0
  <2>1. /\ lb \in 0..lv /\ m = ln + 1 + lb
    <3>1. k \in Int /\ ln \in Int /\ lv \in Int /\ 0 <= lv /\ j \in Int /\ 0 <= j /\ j <= lv + 1
      BY <1>1, <1>3, <1>13
    <3>2. k = ln + 1 + j
      BY <3>1
    <3> HIDE DEF j
    <3>3. m = IF j <= lv THEN ln + 1 + j ELSE ln + 1 + lv
      BY <3>1, <3>2 DEF m
    <3>4. lb \in 0..lv
      <4>1. CASE j < lv
        BY <3>1, <4>1
      <4>2. CASE ~(j < lv)
        BY <3>1, <4>2
      <4>3. QED
        BY <4>1, <4>2
    <3>5. m = ln + 1 + lb
      <4>1. CASE j < lv
        <5>1. lb = j /\ m = ln + 1 + j
          BY <3>1, <3>3, <4>1
        <5> HIDE DEF lb
        <5>2. QED
          BY <5>1
      <4>2. CASE ~(j < lv)
        <5>1. lb = lv
          BY <4>2
        <5>2. m = ln + 1 + lv
          BY <3>1, <3>3, <4>2
        <5> HIDE DEF lb
        <5>3. QED
          BY <5>1, <5>2
      <4>3. QED
        BY <4>1, <4>2
    <3>6. QED
      BY <3>4, <3>5
  <2>2. /\ b \in CString /\ Len(b) = lb /\ \A i \in 1..lb : b[i] = v[i]
    <3>1. /\ 1 \in 1..(Len(v) + 1) /\ lb \in 0..Len(v) /\ 1 <= lb + 1 /\ lb - 1 + 1 = lb
      BY <1>1, <2>1
    <3>2. \A i \in 1..lb : 1 + i - 1 = i
      BY <2>1
    <3>3. QED
      BY <1>1, <3>1, <3>2, PartOfText
  <2> HIDE DEF b, lb
  <2>3. \A i \in 1..lb : t[ln + 1 + i] = b[i]
    <3>1. ASSUME NEW i \in 1..lb PROVE t[ln + 1 + i] = b[i]
      <4>1. ln + 1 + i \in 1..m /\ i \in 1..lv
        BY <1>1, <2>1
      <4>2. QED
        BY <1>2, <1>7, <2>2, <4>1
    <3>2. QED
      BY <3>1
  <2>4. h > ln + 1
    <3>1. \A i \in 1..(ln + 1) : t[i] # Hash
      BY <1>1, <1>2, <1>7, <2>1 DEF Equals, Hash
    <3>2. QED
      BY <1>1, <1>3, <1>9, <2>1, <3>1
  <2> DEFINE g == h - ln - 1
  <2>5. FirstAt(b, Hash) = g
    <3>1. g \in 1..(Len(b) + 1)
      BY <1>1, <1>3, <1>9, <2>1, <2>2, <2>4
    <3>2. g <= Len(b) => b[g] = Hash
      <4>1. ASSUME g <= Len(b) PROVE b[g] = Hash
        <5>1. g \in 1..lb /\ ln + 1 + g = h /\ h <= m
          BY <1>1, <1>9, <1>3, <2>1, <2>2, <3>1, <4>1
        <5>2. QED
          BY <1>9, <2>3, <5>1
      <4>2. QED
        BY <4>1
    <3>3. \A i \in 1..(g - 1) : b[i] # Hash
      <4>1. ASSUME NEW i \in 1..(g - 1) PROVE b[i] # Hash
        <5>1. ln + 1 + i \in 1..(h - 1) /\ i \in 1..lb
          BY <1>1, <1>3, <1>9, <2>1, <2>4
        <5>2. QED
          BY <1>9, <2>3, <5>1
      <4>2. QED
        BY <4>1
    <3>4. QED
      BY <2>2, <3>1, <3>2, <3>3, FirstAtIs
  <2>6. FirstAt(r, Equals) = ln + 1
    <3> DEFINE q == ln + 1
    <3>1. q \in 1..(Len(r) + 1) /\ q <= h - 1 /\ q \in 1..(h - 1)
      BY <1>1, <1>3, <1>9, <1>10, <2>4
    <3>2. r[q] = Equals
      BY <1>2, <1>10, <3>1
    <3>3. \A i \in 1..(q - 1) : r[i] # Equals
      <4>1. \A i \in 1..(q - 1) : i \in 1..ln /\ i \in 1..(h - 1)
        BY <1>1, <1>3, <1>9, <3>1
      <4>2. QED
        BY <1>2, <1>10, <4>1
    <3> HIDE DEF q
    <3>4. FirstAt(r, Equals) = q
      BY <1>10, <3>1, <3>2, <3>3, FirstAtIs
    <3>5. QED
      BY <3>4 DEF q
  <2>7. SubSeq(r, 1, (ln + 1) - 1) = n
    <3>1. (ln + 1) - 1 = ln /\ 1 \in 1..(Len(r) + 1) /\ ln \in 0..Len(r) /\ 1 <= ln + 1
          /\ ln - 1 + 1 = ln
      BY <1>1, <1>3, <1>9, <1>10, <2>4
    <3>2. /\ SubSeq(r, 1, ln) \in CString /\ Len(SubSeq(r, 1, ln)) = ln
          /\ \A i \in 1..ln : SubSeq(r, 1, ln)[i] = r[1 + i - 1]
      BY <1>10, <3>1, PartOfText
    <3>3. \A i \in 1..ln : r[1 + i - 1] = n[i]
      <4>1. ASSUME NEW i \in 1..ln PROVE r[1 + i - 1] = n[i]
        <5>1. 1 + i - 1 = i /\ i \in 1..(h - 1)
          BY <1>1, <1>9, <1>3, <2>4
        <5>2. QED
          BY <1>2, <1>10, <5>1
      <4>2. QED
        BY <4>1
    <3>4. SubSeq(r, 1, ln) = n
      BY <1>1, <3>2, <3>3, SeqEqual DEF CString
    <3>5. QED
      BY <3>1, <3>4
  <2>8. SubSeq(r, (ln + 1) + 1, Len(r)) = SubSeq(b, 1, g - 1)
    <3> DEFINE c == SubSeq(r, (ln + 1) + 1, Len(r))
               d == SubSeq(b, 1, g - 1)
    <3>1. /\ (ln + 1) + 1 \in 1..(Len(r) + 1) /\ Len(r) \in 0..Len(r)
          /\ (ln + 1) + 1 <= Len(r) + 1 /\ Len(r) - ((ln + 1) + 1) + 1 = g - 1
      BY <1>1, <1>3, <1>9, <1>10, <2>4
    <3>2. /\ c \in CString /\ Len(c) = g - 1
          /\ \A i \in 1..(g - 1) : c[i] = r[(ln + 1) + 1 + i - 1]
      BY <1>10, <3>1, PartOfText
    <3>3. /\ 1 \in 1..(Len(b) + 1) /\ g - 1 \in 0..Len(b) /\ 1 <= (g - 1) + 1
          /\ (g - 1) - 1 + 1 = g - 1
      BY <1>1, <1>3, <1>9, <2>1, <2>2, <2>4
    <3>4. /\ d \in CString /\ Len(d) = g - 1
          /\ \A i \in 1..(g - 1) : d[i] = b[1 + i - 1]
      BY <2>2, <3>3, PartOfText
    <3> HIDE DEF c, d
    <3>5. ASSUME NEW i \in 1..(g - 1) PROVE c[i] = d[i]
      <4>1. /\ (ln + 1) + 1 + i - 1 = ln + 1 + i /\ 1 + i - 1 = i
            /\ ln + 1 + i \in 1..(h - 1) /\ i \in 1..lb /\ ln + 1 + i \in 1..m
        BY <1>1, <1>3, <1>9, <2>1, <2>2, <2>4
      <4>2. c[i] = line[ln + 1 + i]
        BY <1>10, <3>2, <4>1
      <4>3. d[i] = t[ln + 1 + i]
        BY <2>3, <3>4, <4>1
      <4>4. QED
        BY <1>7, <4>1, <4>2, <4>3
    <3>6. QED
      BY <3>2, <3>4, <3>5, SeqEqual DEF CString, c, d
  <2>9. Back(b) = TrimSpace(SubSeq(b, 1, g - 1))
    BY <2>5 DEF Back
  <2>10. ~(ln + 1 > Len(r))
    BY <1>1, <1>3, <1>9, <1>10, <2>4
  <2>11. TrimSpace(n) = n
    BY DEF TidyPair
  <2>12. ParseLine(r) = IF Back(b) = <<>> THEN NoSettings ELSE [x \in {n} |-> Back(b)]
    BY <1>1, <2>6, <2>7, <2>8, <2>9, <2>10, <2>11 DEF ParseLine
  <2>13. CutValue(n, v, k) = b
    BY DEF CutValue, b, lb
  <2>14. ~(j < 0)
    BY <1>1, <1>3, <1>13
  <2>15. CutSetting(n, v, k) = ParseLine(r)
    BY <2>12, <2>13, <2>14 DEF CutSetting
  <2>16. \A i \in 1..(k - 1) : u[i] # NL
    BY <1>1, <1>3, <1>4, <1>5
  <2>17. QED
    BY <1>4, <1>11, <2>15, <2>16 DEF Cut, u, line
<1>14. QED
  BY <1>1, <1>3, <1>12, <1>13

-----------------------------------------------------------------------------
(* ConfigFile.  What the invariant says of a write: the stream holds whole *)
(* lines, those of the names that come first, and a file that held any     *)
(* beginning of it would load as LossIsAtTheEnd says.                      *)

ConfigTypeOK ==
  /\ file \in CString
  /\ m_has_load \in BOOLEAN
  /\ m_config_map \in Maps
  /\ at \in {"none", "ready", "writing"}
  /\ left \in SUBSET CString
  /\ stream \in CString
  /\ setResult \in {0, -1}

\* The settings of new are those of old, less some at the end, the last one perhaps cut.
Partial(old, new) ==
  /\ DOMAIN new \subseteq DOMAIN old
  /\ \A n \in DOMAIN new :
       /\ \E s \in Beginnings(old[n]) : new[n] = Back(s)
       /\ \A m \in DOMAIN old : Less(m, n) /\ Back(old[m]) # <<>> =>
            m \in DOMAIN new /\ new[m] = Back(old[m])

\* The text holds the settings of map but for those of the names in rest.
WholeLines(text, map, rest) ==
  /\ text = <<>> \/ text[Len(text)] = NL
  /\ DOMAIN Loaded(text) = {n \in DOMAIN map \ rest : Back(map[n]) # <<>>}
  /\ \A n \in DOMAIN Loaded(text) : Loaded(text)[n] = Back(map[n])
  /\ \A s \in Beginnings(text) : Partial(map, Loaded(s))

Progressed(text, map, rest) ==
  /\ \A n \in DOMAIN map \ rest, m \in rest : Less(n, m)
  /\ WholeLines(text, map, rest)

ConfigInv ==
  /\ ConfigTypeOK
  /\ at # "writing" => left = {} /\ stream = <<>>
  /\ at = "writing" =>
       /\ m_has_load /\ file = <<>> /\ left \subseteq DOMAIN m_config_map
       /\ Tidy(m_config_map) => Progressed(stream, m_config_map, left)

LEMMA LessAsymmetric ==
  ASSUME NEW s \in CString, NEW t \in CString, Less(s, t)
  PROVE  ~Less(t, s)
<1>1. /\ Len(s) \in Nat /\ Len(t) \in Nat
      /\ DOMAIN s = 1..Len(s) /\ DOMAIN t = 1..Len(t)
      /\ \A i \in 1..Len(s) : s[i] \in Int
      /\ \A i \in 1..Len(t) : t[i] \in Int
  <2>1. /\ Len(s) \in Nat /\ Len(t) \in Nat
        /\ DOMAIN s = 1..Len(s) /\ DOMAIN t = 1..Len(t)
    BY LenProperties DEF CString
  <2>2. \A i \in 1..Len(s) : s[i] \in 1..255
    BY ElementOfSeq DEF CString
  <2>3. \A i \in 1..Len(t) : t[i] \in 1..255
    BY ElementOfSeq DEF CString
  <2>4. 1..255 \subseteq Int
    OBVIOUS
  <2>5. \A i \in 1..Len(s) : s[i] \in Int
    BY <2>2, <2>4, Zenon
  <2>6. \A i \in 1..Len(t) : t[i] \in Int
    BY <2>3, <2>4, Zenon
  <2>7. QED
    BY <2>1, <2>5, <2>6
<1>2. PICK i \in 1..(Len(s) + 1) :
        /\ \A j \in 1..(i - 1) : j \in DOMAIN t /\ s[j] = t[j]
        /\ i <= Len(t)
        /\ i <= Len(s) => s[i] < t[i]
  BY DEF Less
<1> SUFFICES ASSUME NEW k \in 1..(Len(t) + 1),
                    \A j \in 1..(k - 1) : j \in DOMAIN s /\ t[j] = s[j],
                    k <= Len(s),
                    k <= Len(t) => t[k] < s[k]
             PROVE  FALSE
  BY DEF Less
<1>3. CASE i < k
  <2>1. i \in 1..(k - 1) /\ i \in 1..Len(s) /\ i \in 1..Len(t)
    BY <1>1, <1>2, <1>3
  <2>2. t[i] = s[i] /\ s[i] < t[i]
    BY <1>2, <2>1
  <2>3. QED
    BY <1>1, <2>1, <2>2
<1>4. CASE k < i
  <2>1. k \in 1..(i - 1) /\ k \in 1..Len(s) /\ k \in 1..Len(t)
    BY <1>1, <1>2, <1>4
  <2>2. t[k] = s[k] /\ t[k] < s[k]
    BY <1>2, <2>1
  <2>3. QED
    BY <1>1, <2>1, <2>2
<1>5. CASE i = k
  <2>1. k \in 1..Len(s) /\ k \in 1..Len(t)
    BY <1>1, <1>2, <1>5
  <2>2. t[k] < s[k] /\ s[k] < t[k]
    BY <1>2, <1>5, <2>1
  <2>3. QED
    BY <1>1, <2>1, <2>2
<1>6. QED
  BY <1>1, <1>2, <1>3, <1>4, <1>5

LEMMA PairLineType ==
  ASSUME NEW n \in CString, NEW v \in CString
  PROVE  PairLine(<<n, v>>) \in CString
<1> DEFINE line == n \o <<Equals>> \o v \o <<NL>>
           k == IF Len(line) < PairMax THEN Len(line) ELSE PairMax
<1>1. <<Equals>> \in CString /\ <<NL>> \in CString
  BY DEF Equals, NL, CString
<1>2. line \in CString
  BY <1>1, ConcatProperties DEF CString
<1>3. PairLine(<<n, v>>) = SubSeq(line, 1, k)
  BY DEF PairLine
<1> HIDE DEF line
<1>4. Len(line) \in Nat /\ PairMax \in Nat
  BY <1>2, ConfigAssumption DEF CString
<1>5. 1 \in 1..(Len(line) + 1) /\ k \in 0..Len(line)
  BY <1>4
<1> HIDE DEF k
<1>6. QED
  BY <1>2, <1>3, <1>5, PartOfText

LEMMA BeginningsFacts ==
  ASSUME NEW t \in CString, NEW s \in Beginnings(t)
  PROVE  s \in CString
<1>1. PICK k \in 0..Len(t) : s = SubSeq(t, 1, k)
  BY DEF Beginnings
<1>2. 1 \in 1..(Len(t) + 1)
  BY DEF CString
<1>3. QED
  BY <1>1, <1>2, PartOfText

\* What begins a text and what is written behind it: the text's, or all of it and what begins
\* the rest.
LEMMA BeginningsAppend ==
  ASSUME NEW t \in CString, NEW u \in CString, NEW s \in Beginnings(t \o u)
  PROVE  s \in Beginnings(t) \/ \E k \in 1..Len(u) : s = t \o SubSeq(u, 1, k)
<1> DEFINE w == t \o u
<1>1. /\ Len(t) \in Nat /\ Len(u) \in Nat /\ w \in CString /\ Len(w) = Len(t) + Len(u)
      /\ \A i \in 1..(Len(t) + Len(u)) : w[i] = IF i <= Len(t) THEN t[i] ELSE u[i - Len(t)]
  BY ConcatProperties DEF CString
<1>2. PICK k \in 0..Len(w) : s = SubSeq(w, 1, k)
  BY DEF Beginnings
<1> HIDE DEF w
<1>3. /\ s \in CString /\ Len(s) = k /\ \A i \in 1..k : s[i] = w[i]
  <2>1. 1 \in 1..(Len(w) + 1) /\ 1 <= k + 1 /\ k - 1 + 1 = k
    BY <1>1
  <2>2. /\ s \in CString /\ Len(s) = k /\ \A i \in 1..k : s[i] = w[1 + i - 1]
    BY <1>1, <1>2, <2>1, PartOfText
  <2>3. \A i \in 1..k : 1 + i - 1 = i
    OBVIOUS
  <2>4. QED
    BY <2>2, <2>3
<1>4. CASE k <= Len(t)
  <2> DEFINE b == SubSeq(t, 1, k)
  <2>1. /\ b \in CString /\ Len(b) = k /\ \A i \in 1..k : b[i] = t[i]
    <3>1. 1 \in 1..(Len(t) + 1) /\ k \in 0..Len(t) /\ 1 <= k + 1 /\ k - 1 + 1 = k
      BY <1>1, <1>4
    <3>2. /\ b \in CString /\ Len(b) = k /\ \A i \in 1..k : b[i] = t[1 + i - 1]
      BY <3>1, PartOfText
    <3>3. \A i \in 1..k : 1 + i - 1 = i
      OBVIOUS
    <3>4. QED
      BY <3>2, <3>3
  <2>2. b \in Beginnings(t)
    BY <1>1, <1>4 DEF Beginnings
  <2> HIDE DEF b
  <2>3. \A i \in 1..k : s[i] = b[i]
    BY <1>1, <1>3, <1>4, <2>1
  <2>4. s = b
    BY <1>3, <2>1, <2>3, SeqEqual DEF CString
  <2>5. QED
    BY <2>2, <2>4
<1>5. CASE k > Len(t)
  <2> DEFINE l == k - Len(t)
             b == SubSeq(u, 1, l)
             r == t \o b
  <2>1. l \in 1..Len(u) /\ k = Len(t) + l
    BY <1>1, <1>5
  <2> HIDE DEF l
  <2>2. /\ b \in CString /\ Len(b) = l /\ \A i \in 1..l : b[i] = u[i]
    <3>1. 1 \in 1..(Len(u) + 1) /\ l \in 0..Len(u) /\ 1 <= l + 1 /\ l - 1 + 1 = l
      BY <1>1, <2>1
    <3>2. /\ b \in CString /\ Len(b) = l /\ \A i \in 1..l : b[i] = u[1 + i - 1]
      BY <3>1, PartOfText
    <3>3. \A i \in 1..l : 1 + i - 1 = i
      BY <2>1
    <3>4. QED
      BY <3>2, <3>3
  <2> HIDE DEF b
  <2>3. /\ r \in CString /\ Len(r) = k
        /\ \A i \in 1..k : r[i] = IF i <= Len(t) THEN t[i] ELSE b[i - Len(t)]
    BY <2>1, <2>2, Together
  <2> HIDE DEF r
  <2>4. ASSUME NEW i \in 1..k PROVE s[i] = r[i]
    <3>1. CASE i <= Len(t)
      BY <1>1, <1>3, <2>3, <3>1
    <3>2. CASE i > Len(t)
      <4>1. i - Len(t) \in 1..l /\ i \in 1..(Len(t) + Len(u))
        BY <1>1, <2>1, <3>2
      <4>2. s[i] = u[i - Len(t)]
        BY <1>1, <1>3, <3>2, <4>1
      <4>3. r[i] = b[i - Len(t)]
        BY <1>1, <2>3, <3>2
      <4>4. QED
        BY <2>2, <4>1, <4>2, <4>3
    <3>3. QED
      BY <1>1, <3>1, <3>2
  <2>5. s = r
    BY <1>3, <2>3, <2>4, SeqEqual DEF CString
  <2>6. QED
    BY <2>1, <2>5 DEF r, b
<1>6. k <= Len(t) \/ k > Len(t)
  BY <1>1
<1>7. QED
  BY <1>4, <1>5, <1>6

\* The beginning of the line of the next name, written behind the lines of the names before
\* it, adds nothing to what is loaded, or that name and a beginning of its value.
LEMMA CutPair ==
  ASSUME NEW text \in CString, NEW map \in Maps, NEW rest, NEW n \in DOMAIN map \cap rest,
         TidyPair(n, map[n]), WholeLines(text, map, rest),
         NEW k \in 1..Len(PairLine(<<n, map[n]>>))
  PROVE  Loaded(text \o Cut(n, map[n], k)) = Insert(Loaded(text), CutSetting(n, map[n], k))
<1> DEFINE u == Cut(n, map[n], k)
<1>1. /\ u \in CString /\ Len(u) = k
      /\ \A i \in 1..(k - 1) : u[i] # NL
      /\ ParseLine(Bare(u)) = CutSetting(n, map[n], k)
  BY CutLine
<1>2. k \in 1..LineMax
  <2>1. Len(PairLine(<<n, map[n]>>)) = Len(n) + Len(map[n]) + 2
    BY PairLineFacts
  <2>2. Len(n) + Len(map[n]) + 2 <= PairMax /\ Len(n) \in Nat /\ Len(map[n]) \in Nat
    BY DEF TidyPair, CString
  <2>3. QED
    BY <2>1, <2>2, ConfigAssumption
<1>3. text = <<>> \/ text[Len(text)] = NL
  BY DEF WholeLines
<1> HIDE DEF u
<1>4. Loaded(text \o u) = Insert(Loaded(text), ParseLine(Bare(u)))
  BY <1>1, <1>2, <1>3, LoadedAppend
<1>5. QED
  BY <1>1, <1>4 DEF u

\* Back of a text is a text.
LEMMA BackType ==
  ASSUME NEW s \in CString
  PROVE  Back(s) \in CString
<1>1. FirstAt(s, Hash) - 1 \in 0..Len(s) /\ 1 \in 1..(Len(s) + 1)
  <2>1. Len(s) \in Nat
    BY DEF CString
  <2>2. QED
    BY <2>1, FirstAtFacts
<1>2. SubSeq(s, 1, FirstAt(s, Hash) - 1) \in CString
  BY <1>1, PartOfText
<1>3. QED
  BY <1>2, TrimSpaceType DEF Back

LEMMA TidyIsTidy ==
  ASSUME NEW map \in Maps, Tidy(map), NEW n \in DOMAIN map
  PROVE  TidyPair(n, map[n])
<1>1. n \in CString /\ map[n] \in CString
  BY DEF Maps
<1>2. QED
  BY <1>1 DEF Tidy, TidyPair

\* However far the line of the next name comes, what is on the disk is partial.
LEMMA CutIsPartial ==
  ASSUME NEW text \in CString, NEW map \in Maps, Tidy(map),
         NEW rest \in SUBSET DOMAIN map, NEW n \in Least(rest),
         Progressed(text, map, rest), NEW s \in Beginnings(text \o PairLine(<<n, map[n]>>))
  PROVE  Partial(map, Loaded(s))
<1> DEFINE line == PairLine(<<n, map[n]>>)
           F == Loaded(text)
<1>1. n \in rest /\ n \in DOMAIN map /\ \A m \in rest \ {n} : Less(n, m)
  BY DEF Least
<1>2. TidyPair(n, map[n])
  BY <1>1, TidyIsTidy
<1>3. DOMAIN map \subseteq CString /\ \A m \in DOMAIN map : map[m] \in CString
  BY DEF Maps
<1>4. WholeLines(text, map, rest)
  BY DEF Progressed
<1>5. /\ F \in Maps
      /\ DOMAIN F = {m \in DOMAIN map \ rest : Back(map[m]) # <<>>}
      /\ \A m \in DOMAIN F : F[m] = Back(map[m])
      /\ \A b \in Beginnings(text) : Partial(map, Loaded(b))
  BY <1>4, LoadedType DEF WholeLines
<1>6. line \in CString
  BY <1>2, PairLineFacts
<1> HIDE DEF line
<1>7. CASE s \in Beginnings(text)
  BY <1>5, <1>7
<1>8. ASSUME NEW k \in 1..Len(line), s = text \o SubSeq(line, 1, k)
      PROVE  Partial(map, Loaded(s))
  <2> DEFINE j == k - Len(n) - 1
             lb == IF j < Len(map[n]) THEN j ELSE Len(map[n])
             b == SubSeq(map[n], 1, lb)
             P == [x \in {n} |-> Back(b)]
  <2>1. Loaded(s) = Insert(F, IF j < 0 \/ Back(b) = <<>> THEN NoSettings ELSE P)
    <3>1. k \in 1..Len(PairLine(<<n, map[n]>>)) /\ n \in DOMAIN map \cap rest
      BY <1>1 DEF line
    <3>2. Loaded(text \o Cut(n, map[n], k)) = Insert(F, CutSetting(n, map[n], k))
      BY <1>2, <1>4, <3>1, CutPair
    <3>3. s = text \o Cut(n, map[n], k)
      BY <1>8 DEF Cut, line
    <3>4. QED
      BY <3>2, <3>3 DEF CutSetting, CutValue
  <2>2. Partial(map, F)
    <3>1. text \in Beginnings(text)
      <4>1. text = SubSeq(text, 1, Len(text)) /\ Len(text) \in 0..Len(text)
        BY SubSeqFull, LenProperties DEF CString
      <4>2. QED
        BY <4>1 DEF Beginnings
    <3>2. QED
      BY <1>5, <3>1
  <2> HIDE DEF F
  <2>3. CASE j < 0 \/ Back(b) = <<>>
    <3>1. Loaded(s) = F
      BY <1>5, <2>1, <2>3, InsertNone
    <3>2. QED
      BY <2>2, <3>1
  <2>4. CASE ~(j < 0 \/ Back(b) = <<>>)
    <3>1. /\ Len(n) \in Nat /\ Len(map[n]) \in Nat /\ k \in Int
      <4>1. Len(n) \in Nat /\ Len(map[n]) \in Nat
        BY <1>1, <1>3 DEF CString
      <4>2. QED
        BY <4>1
    <3>2. lb \in 0..Len(map[n])
      <4>1. j \in Int /\ 0 <= j
        BY <2>4, <3>1
      <4> HIDE DEF j
      <4>2. QED
        BY <3>1, <4>1
    <3>3. b \in Beginnings(map[n])
      BY <3>2 DEF Beginnings
    <3>4. P \in Maps
      <4>1. b \in CString
        BY <1>1, <1>3, <3>3, BeginningsFacts
      <4>2. Back(b) \in CString /\ n \in CString
        BY <1>1, <1>3, <4>1, BackType
      <4>3. P \in [{n} -> CString] /\ {n} \in SUBSET CString
        BY <4>2
      <4>4. QED
        BY <4>3 DEF Maps
    <3> DEFINE G == Loaded(s)
    <3>5. G = Insert(F, P)
      BY <2>1, <2>4
    <3>6. DOMAIN P = {n} /\ P[n] = Back(b)
      OBVIOUS
    <3> HIDE DEF G, P, b, lb, j
    <3>7. /\ DOMAIN G = DOMAIN F \cup {n}
          /\ \A m \in DOMAIN F : G[m] = F[m]
          /\ n \notin DOMAIN F
          /\ G[n] = Back(b)
      <4>1. n \notin DOMAIN F
        BY <1>1, <1>5
      <4>2. /\ DOMAIN Insert(F, P) = DOMAIN F \cup DOMAIN P
            /\ \A m \in DOMAIN F : Insert(F, P)[m] = F[m]
            /\ \A m \in DOMAIN P : m \notin DOMAIN F => Insert(F, P)[m] = P[m]
        BY <1>5, <3>4, InsertFacts
      <4>3. QED
        BY <3>5, <3>6, <4>1, <4>2
    <3>8. DOMAIN G \subseteq DOMAIN map
      BY <1>1, <1>5, <3>7
    <3>9. ASSUME NEW x \in DOMAIN G
          PROVE  /\ \E t \in Beginnings(map[x]) : G[x] = Back(t)
                 /\ \A m \in DOMAIN map : Less(m, x) /\ Back(map[m]) # <<>> =>
                      m \in DOMAIN G /\ G[m] = Back(map[m])
      <4>1. CASE x \in DOMAIN F
        BY <2>2, <3>7, <4>1 DEF Partial
      <4>2. CASE x = n
        <5>1. \E t \in Beginnings(map[x]) : G[x] = Back(t)
          BY <3>3, <3>7, <4>2
        <5>2. ASSUME NEW m \in DOMAIN map, Less(m, x), Back(map[m]) # <<>>
              PROVE  m \in DOMAIN G /\ G[m] = Back(map[m])
          <6>1. ~Less(n, m)
            BY <1>1, <1>3, <4>2, <5>2, LessAsymmetric
          <6>2. m # n
            BY <4>2, <5>2, <6>1
          <6>3. m \notin rest
            BY <1>1, <6>1, <6>2
          <6>4. m \in DOMAIN F
            BY <1>5, <5>2, <6>3
          <6>5. QED
            BY <1>5, <3>7, <6>4
        <5>3. QED
          BY <5>1, <5>2
      <4>3. QED
        BY <3>7, <4>1, <4>2
    <3>10. QED
      BY <3>8, <3>9 DEF Partial, G
  <2>5. QED
    BY <2>3, <2>4
<1>9. QED
  BY <1>6, <1>7, <1>8, BeginningsAppend DEF line

\* When its line is whole, one more setting is on the disk.
LEMMA PairIsWritten ==
  ASSUME NEW text \in CString, NEW map \in Maps, Tidy(map),
         NEW rest \in SUBSET DOMAIN map, NEW n \in Least(rest),
         Progressed(text, map, rest)
  PROVE  Progressed(text \o PairLine(<<n, map[n]>>), map, rest \ {n})
<1> DEFINE line == PairLine(<<n, map[n]>>)
           F == Loaded(text)
           v == map[n]
           w == text \o line
           G == Loaded(w)
<1>1. n \in rest /\ n \in DOMAIN map /\ \A m \in rest \ {n} : Less(n, m)
  BY DEF Least
<1>2. TidyPair(n, v)
  BY <1>1, TidyIsTidy
<1>3. n \in CString /\ v \in CString /\ Len(n) \in Nat /\ Len(v) \in Nat
  BY <1>2 DEF TidyPair, CString
<1>4. WholeLines(text, map, rest)
  BY DEF Progressed
<1>5. /\ F \in Maps
      /\ DOMAIN F = {m \in DOMAIN map \ rest : Back(map[m]) # <<>>}
      /\ \A m \in DOMAIN F : F[m] = Back(map[m])
  BY <1>4, LoadedType DEF WholeLines
<1>6. /\ line \in CString /\ Len(line) = Len(n) + Len(v) + 2
      /\ line[Len(n) + Len(v) + 2] = NL
  BY <1>2, PairLineFacts
<1>7. \A m \in DOMAIN map \ (rest \ {n}), x \in rest \ {n} : Less(m, x)
  BY <1>1 DEF Progressed
<1>8. w[Len(w)] = NL
  <2> HIDE DEF line
  <2>1. /\ Len(w) = Len(text) + Len(line)
        /\ \A i \in 1..(Len(text) + Len(line)) :
             w[i] = IF i <= Len(text) THEN text[i] ELSE line[i - Len(text)]
    BY <1>6, ConcatProperties DEF CString
  <2>2. Len(text) \in Nat /\ Len(line) \in Nat /\ Len(line) >= 2
    BY <1>3, <1>6 DEF CString
  <2> HIDE DEF w
  <2>3. w[Len(w)] = line[Len(line)]
    <3>1. /\ Len(w) \in 1..(Len(text) + Len(line)) /\ ~(Len(w) <= Len(text))
          /\ Len(w) - Len(text) = Len(line)
      BY <2>1, <2>2
    <3>2. QED
      BY <2>1, <3>1
  <2>4. QED
    BY <1>6, <2>3
<1>9. G = Insert(F, IF Back(v) = <<>> THEN NoSettings ELSE [x \in {n} |-> Back(v)])
  <2> DEFINE k == Len(line)
             j == k - Len(n) - 1
             lb == IF j < Len(v) THEN j ELSE Len(v)
             b == SubSeq(v, 1, lb)
             u == SubSeq(line, 1, k)
  <2>1. k \in 1..Len(line)
    BY <1>3, <1>6
  <2>2. Loaded(text \o u) = Insert(F, IF j < 0 \/ Back(b) = <<>> THEN NoSettings
                                      ELSE [x \in {n} |-> Back(b)])
    <3>1. n \in DOMAIN map \cap rest
      BY <1>1
    <3>2. Loaded(text \o Cut(n, v, k)) = Insert(F, CutSetting(n, v, k))
      BY <1>2, <1>4, <2>1, <3>1, CutPair
    <3>3. QED
      BY <3>2 DEF Cut, CutSetting, CutValue
  <2>3. u = line
    BY <1>6, SubSeqFull DEF CString
  <2>4. j = Len(v) + 1
    <3> HIDE DEF line
    <3>1. QED
      BY <1>3, <1>6
  <2>5. ~(j < 0) /\ lb = Len(v)
    <3> HIDE DEF j
    <3>1. QED
      BY <1>3, <2>4
  <2>6. b = v
    <3>1. SubSeq(v, 1, Len(v)) = v
      BY <1>3, SubSeqFull DEF CString
    <3> HIDE DEF lb
    <3>2. QED
      BY <2>5, <3>1
  <2> HIDE DEF u, b, j
  <2>7. QED
    BY <2>2, <2>3, <2>5, <2>6
<1>10. n \notin DOMAIN F
  BY <1>1, <1>5
<1> DEFINE rest2 == rest \ {n}
           Now == {m \in DOMAIN map \ rest2 : Back(map[m]) # <<>>}
<1>11. DOMAIN G = Now /\ \A m \in DOMAIN G : G[m] = Back(map[m])
  <2> HIDE DEF G, F
  <2>1. CASE Back(v) = <<>>
    <3>1. G = F
      BY <1>5, <1>9, <2>1, InsertNone
    <3>2. Now = {m \in DOMAIN map \ rest : Back(map[m]) # <<>>}
      BY <1>1, <2>1
    <3>3. QED
      BY <1>5, <3>1, <3>2
  <2>2. CASE Back(v) # <<>>
    <3> DEFINE P == [x \in {n} |-> Back(v)]
    <3>1. P \in Maps /\ DOMAIN P = {n} /\ P[n] = Back(v)
      <4>1. Back(v) \in CString
        BY <1>3, BackType
      <4>2. P \in [{n} -> CString] /\ {n} \in SUBSET CString
        BY <1>3, <4>1
      <4>3. QED
        BY <4>2 DEF Maps
    <3>2. G = Insert(F, P)
      BY <1>9, <2>2
    <3> HIDE DEF P
    <3>3. /\ DOMAIN G = DOMAIN F \cup {n}
          /\ \A m \in DOMAIN F : G[m] = F[m]
          /\ G[n] = Back(v)
      <4>1. /\ DOMAIN Insert(F, P) = DOMAIN F \cup DOMAIN P
            /\ \A m \in DOMAIN F : Insert(F, P)[m] = F[m]
            /\ \A m \in DOMAIN P : m \notin DOMAIN F => Insert(F, P)[m] = P[m]
        BY <1>5, <3>1, InsertFacts
      <4>2. QED
        BY <1>10, <3>1, <3>2, <4>1
    <3>4. Now = DOMAIN F \cup {n}
      BY <1>1, <1>5, <2>2
    <3>5. QED
      BY <1>5, <3>3, <3>4
  <2>3. QED
    BY <2>1, <2>2
<1>12. \A s \in Beginnings(w) : Partial(map, Loaded(s))
  BY CutIsPartial
<1>13. WholeLines(w, map, rest2)
  BY <1>8, <1>11, <1>12 DEF WholeLines
<1>14. QED
  BY <1>7, <1>13 DEF Progressed

\* A file that is begun holds nothing, and everything is still to write.
LEMMA NothingWritten ==
  ASSUME NEW map \in Maps
  PROVE  Progressed(<<>>, map, DOMAIN map)
<1>1. DOMAIN Loaded(<<>>) = {}
  BY LoadedNothing DEF NoSettings
<1>2. \A s \in Beginnings(<<>>) : s = <<>>
  BY DEF Beginnings
<1>3. \A s \in Beginnings(<<>>) : Partial(map, Loaded(s))
  BY <1>1, <1>2 DEF Partial
<1>4. WholeLines(<<>>, map, DOMAIN map)
  BY <1>1, <1>3 DEF WholeLines
<1>5. QED
  BY <1>4 DEF Progressed

LEMMA OverNothing ==
  ASSUME NEW s \in CString
  PROVE  Over(s, <<>>) = s
<1>1. SubSeq(<<>>, Len(s) + 1, Len(<<>>)) = <<>>
  <2>1. Len(s) + 1 \in Int /\ Len(<<>>) \in Int /\ Len(<<>>) < Len(s) + 1
    BY DEF CString
  <2>2. QED
    BY <2>1, SubSeqEmpty
<1>2. QED
  BY <1>1, ConcatEmptySeq DEF Over, CString

LEMMA ConfigInitInv == ConfigInit => ConfigInv
<1> SUFFICES ASSUME ConfigInit PROVE ConfigInv
  OBVIOUS
<1>1. <<>> \in CString
  BY DEF CString
<1>2. QED
  BY <1>1, ConfigAssumption, NoSettingsType DEF ConfigInit, ConfigInv, ConfigTypeOK

\* LoadFile and SetConfigValue.
LEMMA LoadFileInv ==
  ASSUME ConfigInv, NEW ok \in BOOLEAN, LoadFile(ok)
  PROVE  ConfigInv'
<1>1. m_config_map' \in Maps /\ m_has_load' \in BOOLEAN
  BY LoadedType, NoSettingsType DEF LoadFile, ConfigInv, ConfigTypeOK
<1>2. QED
  BY <1>1 DEF LoadFile, ConfigInv, ConfigTypeOK

LEMMA SetConfigValueInv ==
  ASSUME ConfigInv, NEW s \in Settings, NEW ok \in BOOLEAN, SetConfigValue(s[1], s[2], ok)
  PROVE  ConfigInv'
<1> USE DEF ConfigInv, ConfigTypeOK
<1>1. m_config_map' \in Maps
  <2>1. CASE ~m_has_load
    BY <2>1 DEF SetConfigValue
  <2>2. CASE m_has_load
    <3> DEFINE f == [n \in {s[1]} |-> s[2]]
    <3>1. s[1] \in CString /\ s[2] \in CString
      BY ConfigAssumption
    <3>2. f \in [{s[1]} -> CString] /\ {s[1]} \in SUBSET CString
      BY <3>1
    <3>3. f \in Maps
      BY <3>2 DEF Maps
    <3>4. m_config_map' = Insert(f, m_config_map)
      BY <2>2 DEF SetConfigValue
    <3> HIDE DEF f
    <3>5. QED
      BY <3>3, <3>4, InsertFacts
  <2>3. QED
    BY <2>1, <2>2
<1>2. CASE m_has_load /\ ok
  <2>1. /\ file' = <<>> /\ stream' = <<>> /\ left' = DOMAIN m_config_map' /\ at' = "writing"
        /\ UNCHANGED <<m_has_load, setResult>>
    BY <1>2 DEF SetConfigValue, Truncated
  <2>2. left' \in SUBSET CString /\ <<>> \in CString
    BY <1>1, <2>1 DEF Maps, CString
  <2>3. Progressed(<<>>, m_config_map', DOMAIN m_config_map')
    BY <1>1, NothingWritten
  <2>4. QED
    BY <1>1, <1>2, <2>1, <2>2, <2>3
<1>3. CASE ~(m_has_load /\ ok)
  <2>1. /\ UNCHANGED <<file, at, left, stream, m_has_load>> /\ at = "ready" /\ setResult' = -1
    BY <1>3 DEF SetConfigValue
  <2>2. QED
    BY <1>1, <2>1
<1>4. QED
  BY <1>2, <1>3

LEMMA WritePairInv ==
  ASSUME ConfigInv, WritePair
  PROVE  ConfigInv'
<1> USE DEF ConfigInv, ConfigTypeOK
<1>1. PICK n \in Least(left) :
        /\ stream' = stream \o PairLine(<<n, m_config_map[n]>>)
        /\ left' = left \ {n}
  BY DEF WritePair
<1>2. /\ at = "writing" /\ UNCHANGED <<file, m_has_load, m_config_map, at, setResult>>
  BY DEF WritePair
<1>3. n \in CString /\ m_config_map[n] \in CString
  BY <1>2 DEF Least, Maps
<1>4. stream' \in CString
  BY <1>1, <1>3, PairLineType, ConcatProperties DEF CString
<1>5. ASSUME Tidy(m_config_map) PROVE Progressed(stream', m_config_map, left')
  BY <1>1, <1>2, <1>5, PairIsWritten
<1>6. QED
  BY <1>1, <1>2, <1>4, <1>5

\* What every end of a write leaves on the disk.
LEMMA EndOfWrite ==
  ASSUME ConfigInv, at = "writing", [ConfigNext]_cfgVars, at' # "writing"
  PROVE  /\ file' \in CString
         /\ Tidy(m_config_map) => Partial(m_config_map, Loaded(file'))
<1> USE DEF ConfigInv, ConfigTypeOK
<1>1. stream \in Beginnings(stream)
  <2>1. stream = SubSeq(stream, 1, Len(stream)) /\ Len(stream) \in 0..Len(stream)
    BY SubSeqFull, LenProperties DEF CString
  <2>2. QED
    BY <2>1 DEF Beginnings
<1>2. ASSUME NEW s \in Beginnings(stream), file' = Over(s, file)
      PROVE  /\ file' \in CString
             /\ Tidy(m_config_map) => Partial(m_config_map, Loaded(file'))
  <2>1. s \in CString
    BY BeginningsFacts
  <2>2. file' = s
    BY <1>2, <2>1, OverNothing
  <2>3. QED
    BY <2>1, <2>2 DEF Progressed, WholeLines
<1>3. CASE WriteFails
  <2> DEFINE w(n) == stream \o PairLine(<<n, m_config_map[n]>>)
  <2>0. PICK n \in Least(left) : \E s \in Beginnings(w(n)) : file' = Over(s, file)
    BY <1>3 DEF WriteFails
  <2>1. PICK s \in Beginnings(w(n)) : file' = Over(s, file)
    BY <2>0
  <2>2. n \in CString /\ m_config_map[n] \in CString
    BY DEF Least, Maps
  <2>3. stream \o PairLine(<<n, m_config_map[n]>>) \in CString
    BY <2>2, PairLineType, ConcatProperties DEF CString
  <2>4. s \in CString
    BY <2>3, BeginningsFacts
  <2>5. file' = s
    BY <2>1, <2>4, OverNothing
  <2>6. Tidy(m_config_map) => Partial(m_config_map, Loaded(s))
    BY CutIsPartial
  <2>7. QED
    BY <2>4, <2>5, <2>6
<1>4. CASE \E ok \in BOOLEAN : CloseFile(ok)
  <2>1. \E s \in Beginnings(stream) : file' = Over(s, file)
    BY <1>1, <1>4 DEF CloseFile
  <2>2. QED
    BY <1>2, <2>1
<1>5. CASE Dies
  <2>1. \E s \in Beginnings(stream) : file' = Over(s, file)
    BY <1>5 DEF Dies
  <2>2. QED
    BY <1>2, <2>1
<1>6. WriteFails \/ (\E ok \in BOOLEAN : CloseFile(ok)) \/ Dies
  <2>1. ConfigNext
    BY DEF cfgVars
  <2>2. \A ok \in BOOLEAN : ~LoadFile(ok)
    BY DEF LoadFile
  <2>3. \A s \in Settings, ok \in BOOLEAN : ~SetConfigValue(s[1], s[2], ok)
    BY DEF SetConfigValue
  <2>4. ~WritePair
    BY DEF WritePair
  <2>5. QED
    BY <2>1, <2>2, <2>3, <2>4 DEF ConfigNext
<1>7. QED
  BY <1>3, <1>4, <1>5, <1>6

\* When no write is going on, nothing but the file matters.
LEMMA EndInv ==
  ASSUME ConfigInv, WriteFails \/ (\E ok \in BOOLEAN : CloseFile(ok)) \/ Dies
  PROVE  ConfigInv'
<1> USE DEF ConfigInv, ConfigTypeOK
<1>1. <<>> \in CString
  BY DEF CString
<1>2. /\ at' \in {"none", "ready"} /\ left' = {} /\ stream' = <<>>
      /\ m_config_map' \in Maps /\ m_has_load' \in BOOLEAN /\ setResult' \in {0, -1}
  BY NoSettingsType DEF WriteFails, CloseFile, Dies
<1>3. file' \in CString
  <2>1. CASE at = "writing"
    <3>1. [ConfigNext]_cfgVars
      BY DEF ConfigNext
    <3>2. QED
      BY <1>2, <2>1, <3>1, EndOfWrite
  <2>2. CASE at # "writing"
    <3>1. Dies /\ stream = <<>>
      BY <2>2 DEF WriteFails, CloseFile
    <3>2. PICK s \in Beginnings(<<>>) : file' = Over(s, file)
      BY <3>1 DEF Dies
    <3>3. s = <<>>
      BY DEF Beginnings
    <3>4. Over(<<>>, file) = SubSeq(file, 1, Len(file))
      <4>1. SubSeq(file, Len(<<>>) + 1, Len(file)) \in CString
        <5>1. Len(<<>>) + 1 \in 1..(Len(file) + 1) /\ Len(file) \in 0..Len(file)
          BY DEF CString
        <5>2. QED
          BY <5>1, PartOfText
      <4>2. Len(<<>>) + 1 = 1
        OBVIOUS
      <4>3. QED
        BY <4>1, <4>2, ConcatEmptySeq DEF Over, CString
    <3>5. SubSeq(file, 1, Len(file)) = file
      BY SubSeqFull DEF CString
    <3>6. QED
      BY <3>2, <3>3, <3>4, <3>5
  <2>3. QED
    BY <2>1, <2>2
<1>4. QED
  BY <1>1, <1>2, <1>3

LEMMA ConfigStepInv == ConfigInv /\ [ConfigNext]_cfgVars => ConfigInv'
<1> SUFFICES ASSUME ConfigInv, [ConfigNext]_cfgVars PROVE ConfigInv'
  OBVIOUS
<1>1. ASSUME NEW ok \in BOOLEAN, LoadFile(ok) PROVE ConfigInv'
  BY <1>1, LoadFileInv
<1>2. ASSUME NEW s \in Settings, NEW ok \in BOOLEAN, SetConfigValue(s[1], s[2], ok)
      PROVE  ConfigInv'
  BY <1>2, SetConfigValueInv
<1>3. CASE WritePair
  BY <1>3, WritePairInv
<1>4. CASE WriteFails \/ (\E ok \in BOOLEAN : CloseFile(ok)) \/ Dies
  BY <1>4, EndInv
<1>5. CASE UNCHANGED cfgVars
  BY <1>5 DEF cfgVars, ConfigInv, ConfigTypeOK
<1>6. QED
  BY <1>1, <1>2, <1>3, <1>4, <1>5 DEF ConfigNext

\* ConfigInv always holds: all that a write has put out so far is the lines of the names that
\* come first (ConfigFileReader.cpp:107).
THEOREM ConfigInvariance == ConfigSpec => []ConfigInv
<1>1. QED
  BY ConfigInitInv, ConfigStepInv, PTL DEF ConfigSpec

\* SettingsSurvive, for settings and files of any number and length and any buffers of which
\* fgets has the larger (ConfigFileReader.cpp:92, 54).
THEOREM WhatIsSetComesBack == ConfigSpec => SettingsSurvive
<1>1. ASSUME ConfigInv, CloseFile(FALSE), Tidy(m_config_map)
      PROVE  LET new == Loaded(file')
             IN  /\ DOMAIN new = {n \in DOMAIN m_config_map : Back(m_config_map[n]) # <<>>}
                 /\ \A n \in DOMAIN new : new[n] = Back(GetConfigName(n))
  <2>1. at = "writing" /\ left = {} /\ file' = Over(stream, file)
    BY <1>1 DEF CloseFile
  <2>2. m_has_load /\ file = <<>> /\ stream \in CString /\ WholeLines(stream, m_config_map, {})
    BY <1>1, <2>1 DEF ConfigInv, ConfigTypeOK, Progressed
  <2>3. file' = stream
    BY <2>1, <2>2, OverNothing
  <2>4. /\ DOMAIN Loaded(stream) = {n \in DOMAIN m_config_map : Back(m_config_map[n]) # <<>>}
        /\ \A n \in DOMAIN Loaded(stream) : Loaded(stream)[n] = Back(m_config_map[n])
    BY <2>2 DEF WholeLines
  <2>5. \A n \in DOMAIN m_config_map : GetConfigName(n) = m_config_map[n]
    BY <2>2 DEF GetConfigName
  <2>6. QED
    BY <2>3, <2>4, <2>5
<1>2. QED
  BY <1>1, ConfigInvariance, PTL DEF SettingsSurvive

\* LossIsAtTheEnd, wherever a write is cut (ConfigFileReader.cpp:97, 113).
THEOREM LossIsOnlyAtTheEnd == ConfigSpec => LossIsAtTheEnd
<1>1. ASSUME ConfigInv, [ConfigNext]_cfgVars,
             at = "writing", at' # "writing", Tidy(m_config_map)
      PROVE  LET old == m_config_map
                 new == Loaded(file')
             IN  /\ DOMAIN new \subseteq DOMAIN old
                 /\ \A n \in DOMAIN new :
                      /\ \E s \in Beginnings(old[n]) : new[n] = Back(s)
                      /\ \A m \in DOMAIN old : Less(m, n) /\ Back(old[m]) # <<>> =>
                           m \in DOMAIN new /\ new[m] = Back(old[m])
  BY <1>1, EndOfWrite DEF Partial
<1>2. QED
  BY <1>1, ConfigInvariance, PTL DEF ConfigSpec, LossIsAtTheEnd

-----------------------------------------------------------------------------
(* The checksum.                                                           *)

Bytes == Seq(0..255)

LEMMA ByteFacts ==
  ASSUME NEW s \in Bytes
  PROVE  Len(s) \in Nat /\ \A i \in 1..Len(s) : s[i] \in 0..255 /\ s[i] \in Nat
<1>1. Len(s) \in Nat /\ \A i \in 1..Len(s) : s[i] \in 0..255
  BY ElementOfSeq, LenProperties DEF Bytes
<1>2. 0..255 \subseteq Nat
  OBVIOUS
<1>3. QED
  BY <1>1, <1>2, Zenon

LEMMA BytesTogether ==
  ASSUME NEW s \in Bytes, NEW t \in Bytes
  PROVE  /\ s \o t \in Bytes /\ Len(s \o t) = Len(s) + Len(t)
         /\ \A i \in 1..(Len(s) + Len(t)) :
              (s \o t)[i] = IF i <= Len(s) THEN s[i] ELSE t[i - Len(s)]
BY ConcatProperties DEF Bytes

LEMMA WordType ==
  ASSUME NEW a \in Nat, NEW b \in Nat, NEW c \in Nat
  PROVE  a + 256 * b + c \in Nat
OBVIOUS

\* sum is what the words of s from each place on amount to; a last byte is added alone.
Sums(s, sum) ==
  /\ sum \in [1..(Len(s) + 2) -> Nat]
  /\ sum[Len(s) + 1] = 0 /\ sum[Len(s) + 2] = 0
  /\ Len(s) > 0 => sum[Len(s)] = s[Len(s)]
  /\ \A i \in 1..(Len(s) - 1) : sum[i] = s[i] + 256 * s[i + 1] + sum[i + 2]

LEMMA WordTotalFrom ==
  ASSUME NEW s \in Bytes
  PROVE  \E sum : Sums(s, sum) /\ WordTotal(s) = sum[1]
<1> DEFINE L == Len(s)
           D == 1..(Len(s) + 2)
           Eq(f) == f = [i \in D |-> IF i > Len(s) THEN 0
                                     ELSE IF i = Len(s) THEN s[i]
                                     ELSE s[i] + 256 * s[i + 1] + f[i + 2]]
           stop == L..(L + 2)
           base == [i \in D |-> IF i > L THEN 0 ELSE s[i]]
           next == [i \in D |-> IF i \in stop THEN i ELSE i + 2]
           step == [x \in D \X Nat |-> IF x[1] \in stop THEN 0
                                       ELSE s[x[1]] + 256 * s[x[1] + 1] + x[2]]
           measure == [i \in D |-> L + 2 - i]
<1>1. L \in Nat /\ \A i \in 1..L : s[i] \in Nat
  BY ByteFacts
<1>2. \A i \in D : i \in stop \/ (i \in 1..L /\ i + 1 \in 1..L /\ i + 2 \in D)
  BY <1>1
<1>3. \E f \in [D -> Nat] : Recurses(f, D, stop, base, next, step)
  <2>1. base \in [D -> Nat]
    <3>1. ASSUME NEW i \in D PROVE base[i] \in Nat
      <4>1. CASE i > L
        BY <4>1
      <4>2. CASE ~(i > L)
        <5>1. i \in 1..L
          BY <1>1, <4>2
        <5>2. QED
          BY <1>1, <4>2, <5>1
      <4>3. QED
        BY <4>1, <4>2
    <3>2. base = [i \in D |-> base[i]]
      OBVIOUS
    <3> HIDE DEF base, D
    <3>3. QED
      BY <3>1, <3>2
  <2>2. next \in [D -> D]
    BY <1>1, <1>2
  <2>3. step \in [D \X Nat -> Nat]
    <3>1. ASSUME NEW x \in D \X Nat PROVE step[x] \in Nat
      <4>1. CASE x[1] \in stop
        BY <4>1
      <4>2. CASE x[1] \notin stop
        <5>1. s[x[1]] \in Nat /\ s[x[1] + 1] \in Nat /\ x[2] \in Nat
          BY <1>1, <1>2, <4>2
        <5>2. step[x] = s[x[1]] + 256 * s[x[1] + 1] + x[2]
          BY <4>2
        <5>3. s[x[1]] + 256 * s[x[1] + 1] + x[2] \in Nat
          BY <5>1, WordType
        <5>4. QED
          BY <5>2, <5>3, Zenon
      <4>3. QED
        BY <4>1, <4>2
    <3>2. QED
      BY <3>1
  <2>4. Descends(D, stop, next, measure)
    <3>1. measure \in [D -> Nat]
      BY <1>1
    <3>2. ASSUME NEW i \in D \ stop PROVE measure[next[i]] < measure[i]
      BY <1>1, <1>2
    <3>3. QED
      BY <3>1, <3>2 DEF Descends
  <2> HIDE DEF D, stop, base, next, step, measure
  <2>5. QED
    BY <2>1, <2>2, <2>3, <2>4, Recursion
<1>4. PICK f \in [D -> Nat] :
        \A i \in D : f[i] = IF i \in stop THEN base[i] ELSE step[<<i, f[next[i]]>>]
  BY <1>3 DEF Recurses
<1>5. ASSUME NEW i \in D
      PROVE  f[i] = IF i > Len(s) THEN 0
                    ELSE IF i = Len(s) THEN s[i]
                    ELSE s[i] + 256 * s[i + 1] + f[i + 2]
  <2>1. CASE i > L
    <3>1. i \in stop /\ base[i] = 0
      BY <1>1, <2>1
    <3>2. f[i] = 0
      BY <1>4, <3>1, Zenon
    <3>3. QED
      BY <2>1, <3>2
  <2>2. CASE i = L
    <3>1. i \in stop /\ base[i] = s[i] /\ ~(i > L)
      BY <1>1, <2>2
    <3>2. f[i] = s[i]
      BY <1>4, <3>1, Zenon
    <3>3. QED
      BY <2>2, <3>1, <3>2, Zenon
  <2>3. CASE i < L
    <3>1. i \notin stop /\ next[i] = i + 2 /\ i + 2 \in D /\ ~(i > L) /\ i # L
      BY <1>1, <2>3
    <3>2. <<i, f[i + 2]>> \in D \X Nat
      BY <1>4, <3>1
    <3>3. f[i] = step[<<i, f[i + 2]>>]
      <4> HIDE DEF D, stop, base, next, step
      <4>1. QED
        BY <1>4, <3>1, Zenon
    <3>4. f[i] = s[i] + 256 * s[i + 1] + f[i + 2]
      BY <3>1, <3>2, <3>3
    <3>5. QED
      BY <3>1, <3>4, Zenon
  <2>4. QED
    BY <1>1, <2>1, <2>2, <2>3
<1>6. Eq(f)
  BY <1>4, <1>5, Zenon
<1> DEFINE sum == CHOOSE g : Eq(g)
<1>7. WordTotal(s) = sum[1]
  BY DEF WordTotal
<1> HIDE DEF Eq
<1>8. Eq(sum)
  BY <1>6, Zenon
<1> HIDE DEF sum
<1>9. \A i \in D : sum[i] = IF i > L THEN 0
                         ELSE IF i = L THEN s[i] ELSE s[i] + 256 * s[i + 1] + sum[i + 2]
  BY <1>8, Zenon DEF Eq
<1>10. /\ sum[L + 1] = 0 /\ sum[L + 2] = 0
       /\ L > 0 => sum[L] = s[L]
       /\ \A i \in 1..(L - 1) : sum[i] = s[i] + 256 * s[i + 1] + sum[i + 2]
  <2>1. /\ L + 1 \in D /\ L + 1 > L /\ L + 2 \in D /\ L + 2 > L
        /\ L > 0 => L \in D /\ ~(L > L)
        /\ \A i \in 1..(L - 1) : i \in D /\ ~(i > L) /\ i # L
    BY <1>1
  <2> HIDE DEF D, L
  <2>2. sum[L + 1] = 0 /\ sum[L + 2] = 0 /\ (L > 0 => sum[L] = s[L])
    BY <1>9, <2>1, Zenon
  <2>3. \A i \in 1..(L - 1) : sum[i] = s[i] + 256 * s[i + 1] + sum[i + 2]
    BY <1>9, <2>1, Zenon
  <2>4. QED
    BY <2>2, <2>3, Zenon
<1>11. sum \in [D -> Nat]
  <2> DEFINE S == {n \in Nat : n <= L + 1 => sum[L + 2 - n] \in Nat}
  <2>1. ASSUME NEW n \in Nat, 0..(n - 1) \subseteq S PROVE n \in S
    <3>1. CASE n = 0
      BY <1>1, <1>10, <3>1
    <3>2. CASE n = 1
      <4>1. L + 2 - n = L + 1
        BY <1>1, <3>2
      <4>2. QED
        BY <1>10, <4>1
    <3>3. CASE n = 2 /\ n <= L + 1
      <4>1. L + 2 - n = L /\ L > 0 /\ L \in 1..L
        BY <1>1, <3>3
      <4>2. sum[L] \in Nat
        BY <1>1, <1>10, <4>1
      <4>3. QED
        BY <4>1, <4>2
    <3>4. CASE n \in 3..(L + 1)
      <4> DEFINE i == L + 2 - n
      <4>1. i \in 1..(L - 1) /\ i \in 1..L /\ i + 1 \in 1..L
        BY <1>1, <3>4
      <4>2. n - 2 \in 0..(n - 1) /\ n - 2 <= L + 1 /\ L + 2 - (n - 2) = i + 2
        BY <1>1, <3>4
      <4>3. sum[i + 2] \in Nat
        BY <2>1, <4>2
      <4>4. sum[i] = s[i] + 256 * s[i + 1] + sum[i + 2]
        BY <1>10, <4>1
      <4>5. s[i] \in Nat /\ s[i + 1] \in Nat
        BY <1>1, <4>1
      <4>6. s[i] + 256 * s[i + 1] + sum[i + 2] \in Nat
        BY <4>3, <4>5, WordType
      <4> HIDE DEF i
      <4>7. sum[i] \in Nat
        BY <4>4, <4>6, Zenon
      <4>8. QED
        BY <4>7 DEF i
    <3>5. CASE n > L + 1
      BY <1>1, <3>5
    <3>6. QED
      BY <1>1, <3>1, <3>2, <3>3, <3>4, <3>5
  <2> HIDE DEF S
  <2>2. Nat \subseteq S
    BY <2>1, SetInduction
  <2>3. ASSUME NEW i \in D PROVE sum[i] \in Nat
    <3>1. L + 2 - i \in Nat /\ L + 2 - i <= L + 1 /\ L + 2 - (L + 2 - i) = i
      BY <1>1
    <3>2. L + 2 - i \in S
      BY <2>2, <3>1
    <3>3. QED
      BY <3>1, <3>2 DEF S
  <2>4. QED
    BY <1>8, <2>3 DEF Eq
<1>12. QED
  <2>1. Sums(s, sum)
    BY <1>10, <1>11, Zenon DEF Sums
  <2>2. QED
    BY <1>7, <2>1, Zenon

\* A byte left over counts as a word whose other byte is zero.
LEMMA WordTotalPadded ==
  ASSUME NEW s \in Bytes, Len(s) % 2 = 1
  PROVE  WordTotal(s \o <<0>>) = WordTotal(s)
<1> DEFINE L == Len(s)
           t == s \o <<0>>
<1>1. L \in Nat /\ L % 2 = 1 /\ \A i \in 1..L : s[i] \in Nat
  BY ByteFacts
<1>2. /\ t \in Bytes /\ Len(t) = L + 1
      /\ \A i \in 1..L : t[i] = s[i]
      /\ t[L + 1] = 0
  <2>1. <<0>> \in Bytes /\ Len(<<0>>) = 1 /\ <<0>>[1] = 0
    BY DEF Bytes
  <2>2. /\ t \in Bytes /\ Len(t) = L + Len(<<0>>)
        /\ \A i \in 1..(L + Len(<<0>>)) : t[i] = IF i <= L THEN s[i] ELSE <<0>>[i - L]
    BY <2>1, BytesTogether
  <2>3. L + 1 \in 1..(L + 1) /\ ~(L + 1 <= L) /\ (L + 1) - L = 1
        /\ \A i \in 1..L : i \in 1..(L + 1) /\ i <= L
    BY <1>1
  <2>4. /\ \A i \in 1..(L + 1) : t[i] = IF i <= L THEN s[i] ELSE <<0>>[i - L]
        /\ Len(t) = L + 1
    BY <2>1, <2>2, Zenon
  <2>5. \A i \in 1..L : t[i] = s[i]
    BY <2>3, <2>4, Zenon
  <2>6. t[L + 1] = <<0>>[(L + 1) - L]
    <3>1. ASSUME NEW i \in 1..(L + 1), ~(i <= L) PROVE t[i] = <<0>>[i - L]
      BY <2>4, <3>1, Zenon
    <3> HIDE DEF L, t
    <3>2. QED
      BY <2>3, <3>1, Zenon
  <2> HIDE DEF L, t
  <2>7. t[L + 1] = 0
    BY <2>1, <2>3, <2>6, Zenon
  <2>8. QED
    BY <2>2, <2>4, <2>5, <2>7, Zenon
<1> HIDE DEF t
<1>3. PICK f : Sums(s, f) /\ WordTotal(s) = f[1]
  BY WordTotalFrom, Zenon
<1>4. PICK g : Sums(t, g) /\ WordTotal(t) = g[1]
  BY <1>2, WordTotalFrom, Zenon
<1>5. /\ f[L + 2] = 0 /\ (L > 0 => f[L] = s[L])
      /\ g[Len(t) + 1] = 0
  BY <1>3, <1>4, Zenon DEF Sums
<1>6. \A i \in 1..(L - 1) : f[i] = s[i] + 256 * s[i + 1] + f[i + 2]
  BY <1>3, Zenon DEF Sums
<1>7. \A i \in 1..(Len(t) - 1) : g[i] = t[i] + 256 * t[i + 1] + g[i + 2]
  BY <1>4, Zenon DEF Sums
<1> DEFINE S == {n \in Nat : 2 * n < L => g[L - 2 * n] = f[L - 2 * n]}
<1>8. 0 \in S
  <2>1. L > 0 /\ L \in 1..(Len(t) - 1) /\ L + 2 = Len(t) + 1 /\ L \in 1..L
    BY <1>1, <1>2
  <2> HIDE DEF L
  <2>2. g[L] = t[L] + 256 * t[L + 1] + g[L + 2]
    BY <1>7, <2>1, Zenon
  <2>3. t[L] = s[L] /\ t[L + 1] = 0 /\ g[L + 2] = 0 /\ f[L] = s[L] /\ s[L] \in Nat
    BY <1>1, <1>2, <1>5, <2>1, Zenon
  <2>4. g[L] = f[L]
    BY <2>2, <2>3
  <2>5. L - 2 * 0 = L
    BY <1>1
  <2>6. QED
    BY <2>4, <2>5
<1>9. ASSUME NEW n \in Nat, n \in S PROVE n + 1 \in S
  <2> SUFFICES ASSUME 2 * (n + 1) < L PROVE g[L - 2 * (n + 1)] = f[L - 2 * (n + 1)]
    OBVIOUS
  <2> DEFINE i == L - 2 * (n + 1)
  <2>1. /\ i \in 1..(L - 1) /\ i \in 1..(Len(t) - 1) /\ i \in 1..L /\ i + 1 \in 1..L
        /\ i + 2 = L - 2 * n /\ 2 * n < L
    BY <1>1, <1>2
  <2>2. g[i + 2] = f[i + 2]
    BY <1>9, <2>1
  <2> HIDE DEF i
  <2>3. g[i] = f[i]
    BY <1>2, <1>6, <1>7, <2>1, <2>2
  <2>4. QED
    BY <2>3 DEF i
<1> HIDE DEF S
<1>10. Nat \subseteq S
  BY <1>8, <1>9, StepInduction
<1>11. PICK n \in Nat : L = 2 * n + 1
  <2>1. L = 2 * (L \div 2) + (L % 2) /\ L \div 2 \in Nat
    BY <1>1
  <2>2. QED
    BY <1>1, <2>1
<1>12. n \in S /\ 2 * n < L /\ L - 2 * n = 1
  BY <1>1, <1>10, <1>11
<1>13. g[1] = f[1]
  BY <1>12 DEF S
<1>14. QED
  BY <1>3, <1>4, <1>13 DEF t

\* A word behind whole words is added to them.
LEMMA WordTotalAppend ==
  ASSUME NEW s \in Bytes, Len(s) % 2 = 0,
         NEW a \in Nat, NEW b \in Nat, <<a, b>> \in Bytes
  PROVE  WordTotal(s \o <<a, b>>) = WordTotal(s) + (a + 256 * b)
<1> DEFINE L == Len(s)
           t == s \o <<a, b>>
           w == a + 256 * b
<1>1. L \in Nat /\ L % 2 = 0 /\ \A i \in 1..L : s[i] \in Nat
  BY ByteFacts
<1>2. /\ t \in Bytes /\ Len(t) = L + 2
      /\ \A i \in 1..L : t[i] = s[i]
      /\ t[L + 1] = a /\ t[L + 2] = b
  <2> DEFINE z == <<a, b>>
  <2>1. z \in Bytes /\ Len(z) = 2 /\ z[1] = a /\ z[2] = b
    OBVIOUS
  <2> HIDE DEF z
  <2>2. /\ s \o z \in Bytes /\ Len(s \o z) = L + Len(z)
        /\ \A i \in 1..(L + Len(z)) : (s \o z)[i] = IF i <= L THEN s[i] ELSE z[i - L]
    BY <2>1, BytesTogether
  <2>3. /\ L + 1 \in 1..(L + 2) /\ ~(L + 1 <= L) /\ (L + 1) - L = 1
        /\ L + 2 \in 1..(L + 2) /\ ~(L + 2 <= L) /\ (L + 2) - L = 2
        /\ \A i \in 1..L : i \in 1..(L + 2) /\ i <= L
    BY <1>1
  <2>4. t = s \o z
    BY DEF z
  <2>5. /\ \A i \in 1..(L + 2) : t[i] = IF i <= L THEN s[i] ELSE z[i - L]
        /\ Len(t) = L + 2 /\ t \in Bytes
    BY <2>1, <2>2, <2>4, Zenon
  <2>6. \A i \in 1..L : t[i] = s[i]
    BY <2>3, <2>5, Zenon
  <2>7. t[L + 1] = z[(L + 1) - L] /\ t[L + 2] = z[(L + 2) - L]
    <3>1. ASSUME NEW i \in 1..(L + 2), ~(i <= L) PROVE t[i] = z[i - L]
      BY <2>5, <3>1, Zenon
    <3> HIDE DEF L, t
    <3>2. QED
      BY <2>3, <3>1, Zenon
  <2> HIDE DEF L, t
  <2>8. t[L + 1] = a /\ t[L + 2] = b
    BY <2>1, <2>3, <2>7, Zenon
  <2>9. QED
    BY <2>5, <2>6, <2>8, Zenon
<1> HIDE DEF t
<1>3. PICK f : Sums(s, f) /\ WordTotal(s) = f[1]
  BY WordTotalFrom, Zenon
<1>4. PICK g : Sums(t, g) /\ WordTotal(t) = g[1]
  BY <1>2, WordTotalFrom, Zenon
<1>5. /\ f \in [1..(L + 2) -> Nat] /\ f[L + 1] = 0
      /\ g[Len(t) + 1] = 0
  BY <1>3, <1>4, Zenon DEF Sums
<1>6. \A i \in 1..(L - 1) : f[i] = s[i] + 256 * s[i + 1] + f[i + 2]
  BY <1>3, Zenon DEF Sums
<1>7. \A i \in 1..(Len(t) - 1) : g[i] = t[i] + 256 * t[i + 1] + g[i + 2]
  BY <1>4, Zenon DEF Sums
<1> DEFINE S == {n \in Nat : 2 * n <= L => g[L + 1 - 2 * n] = f[L + 1 - 2 * n] + w}
<1>8. 0 \in S
  <2>1. L + 1 \in 1..(Len(t) - 1) /\ (L + 1) + 2 = Len(t) + 1 /\ (L + 1) + 1 = L + 2
    BY <1>1, <1>2
  <2> HIDE DEF L
  <2>2. g[L + 1] = t[L + 1] + 256 * t[(L + 1) + 1] + g[(L + 1) + 2]
    BY <1>7, <2>1, Zenon
  <2>3. t[L + 1] = a /\ t[L + 2] = b /\ g[(L + 1) + 2] = 0 /\ f[L + 1] = 0
    BY <1>2, <1>5, <2>1, Zenon
  <2>4. g[L + 1] = f[L + 1] + w
    BY <2>1, <2>2, <2>3
  <2>5. L + 1 - 2 * 0 = L + 1
    BY <1>1
  <2>6. QED
    BY <2>4, <2>5
<1>9. ASSUME NEW n \in Nat, n \in S PROVE n + 1 \in S
  <2> SUFFICES ASSUME 2 * (n + 1) <= L
               PROVE  g[L + 1 - 2 * (n + 1)] = f[L + 1 - 2 * (n + 1)] + w
    OBVIOUS
  <2> DEFINE i == L + 1 - 2 * (n + 1)
  <2>1. /\ i \in 1..(L - 1) /\ i \in 1..(Len(t) - 1) /\ i \in 1..L /\ i + 1 \in 1..L
        /\ i + 2 \in 1..(L + 2)
        /\ i + 2 = L + 1 - 2 * n /\ 2 * n <= L
    BY <1>1, <1>2
  <2>2. g[i + 2] = f[i + 2] + w
    BY <1>9, <2>1
  <2> HIDE DEF i
  <2>3. g[i] = s[i] + 256 * s[i + 1] + g[i + 2]
    BY <1>2, <1>7, <2>1
  <2>4. f[i] = s[i] + 256 * s[i + 1] + f[i + 2]
    BY <1>6, <2>1
  <2>5. s[i] \in Nat /\ s[i + 1] \in Nat /\ f[i + 2] \in Nat
    BY <1>1, <1>5, <2>1
  <2>6. w \in Nat
    OBVIOUS
  <2> HIDE DEF w
  <2> DEFINE x == s[i]
             y == s[i + 1]
             z == f[i + 2]
  <2>7. /\ g[i] = x + 256 * y + (z + w) /\ f[i] = x + 256 * y + z
        /\ x \in Nat /\ y \in Nat /\ z \in Nat
    BY <2>2, <2>3, <2>4, <2>5, Zenon
  <2> HIDE DEF x, y, z
  <2>8. g[i] = f[i] + w
    BY <2>6, <2>7
  <2>9. QED
    BY <2>8 DEF i
<1> HIDE DEF S
<1>10. Nat \subseteq S
  BY <1>8, <1>9, StepInduction
<1>11. PICK n \in Nat : L = 2 * n
  <2>1. L = 2 * (L \div 2) + (L % 2) /\ L \div 2 \in Nat
    BY <1>1
  <2>2. QED
    BY <1>1, <2>1
<1>12. n \in S /\ 2 * n <= L /\ L + 1 - 2 * n = 1
  BY <1>1, <1>10, <1>11
<1>13. g[1] = f[1] + w
  BY <1>12 DEF S
<1>14. QED
  BY <1>3, <1>4, <1>13 DEF t

LEMMA WordTotalType ==
  ASSUME NEW s \in Bytes
  PROVE  WordTotal(s) \in Nat
<1>1. PICK sum : Sums(s, sum) /\ WordTotal(s) = sum[1]
  BY WordTotalFrom, Zenon
<1>2. 1 \in 1..(Len(s) + 2)
  BY ByteFacts
<1>3. sum \in [1..(Len(s) + 2) -> Nat]
  BY <1>1, Zenon DEF Sums
<1>4. QED
  BY <1>1, <1>2, <1>3

\* No word is more than 2^16 - 1.
LEMMA WordTotalBound ==
  ASSUME NEW s \in Bytes, Len(s) % 2 = 0
  PROVE  2 * WordTotal(s) <= 65535 * Len(s)
<1> DEFINE L == Len(s)
<1>1. L \in Nat /\ L % 2 = 0 /\ \A i \in 1..L : s[i] \in 0..255
  BY ByteFacts
<1>2. PICK f : Sums(s, f) /\ WordTotal(s) = f[1]
  BY WordTotalFrom, Zenon
<1>3. f \in [1..(L + 2) -> Nat] /\ f[L + 1] = 0
  BY <1>2, Zenon DEF Sums
<1>4. \A i \in 1..(L - 1) : f[i] = s[i] + 256 * s[i + 1] + f[i + 2]
  BY <1>2, Zenon DEF Sums
<1> DEFINE S == {n \in Nat : 2 * n <= L => f[L + 1 - 2 * n] <= 65535 * n}
<1>5. 0 \in S
  BY <1>1, <1>3
<1>6. ASSUME NEW n \in Nat, n \in S PROVE n + 1 \in S
  <2> SUFFICES ASSUME 2 * (n + 1) <= L
               PROVE  f[L + 1 - 2 * (n + 1)] <= 65535 * (n + 1)
    OBVIOUS
  <2> DEFINE i == L + 1 - 2 * (n + 1)
  <2>1. /\ i \in 1..(L - 1) /\ i \in 1..L /\ i + 1 \in 1..L /\ i + 2 \in 1..(L + 2)
        /\ i + 2 = L + 1 - 2 * n /\ 2 * n <= L
    BY <1>1
  <2>2. f[i + 2] <= 65535 * n
    BY <1>6, <2>1
  <2> HIDE DEF i
  <2>3. f[i] = s[i] + 256 * s[i + 1] + f[i + 2]
    BY <1>4, <2>1
  <2>4. s[i] \in 0..255 /\ s[i + 1] \in 0..255 /\ f[i + 2] \in Nat
    BY <1>1, <1>3, <2>1
  <2> DEFINE x == s[i]
             y == s[i + 1]
             z == f[i + 2]
  <2>5. f[i] = x + 256 * y + z /\ x \in 0..255 /\ y \in 0..255 /\ z \in Nat
    BY <2>3, <2>4
  <2>6. z <= 65535 * n
    BY <2>2
  <2> HIDE DEF x, y, z
  <2>7. f[i] <= 65535 * (n + 1)
    BY <2>5, <2>6, SMT
  <2>8. QED
    BY <2>7 DEF i
<1> HIDE DEF S
<1>7. Nat \subseteq S
  BY <1>5, <1>6, StepInduction
<1>8. PICK n \in Nat : L = 2 * n
  <2>1. L = 2 * (L \div 2) + (L % 2) /\ L \div 2 \in Nat
    BY <1>1
  <2>2. QED
    BY <1>1, <2>1
<1>9. n \in S /\ 2 * n <= L /\ L + 1 - 2 * n = 1
  BY <1>1, <1>7, <1>8
<1>10. f[1] <= 65535 * n
  BY <1>9 DEF S
<1>11. f[1] \in Nat
  BY <1>1, <1>3
<1>12. QED
  BY <1>2, <1>8, <1>10, <1>11

-----------------------------------------------------------------------------
(* Adding the carries keeps the sum modulo 2^16 - 1, and never makes it    *)
(* zero.                                                                   *)

Word == 65536
Ones == 65535

Carry(d) == (d \div Word) + (d % Word)

Folds16(d, r) ==
  /\ r \in Nat /\ r <= Ones
  /\ d > 0 => r > 0
  /\ \E q \in Nat : d = r + Ones * q

LEMMA WordIs == Word = 2^16 /\ Word > 0
BY SMT DEF Word

LEMMA CarryLess ==
  ASSUME NEW d \in Nat, ~(d < Word)
  PROVE  /\ Carry(d) \in Nat /\ Carry(d) < d /\ Carry(d) > 0
         /\ d \div Word \in Nat
         /\ d = Carry(d) + Ones * (d \div Word)
BY SMT DEF Word, Ones, Carry

LEMMA CarryFolds ==
  ASSUME NEW d \in Nat, ~(d < Word), NEW r, Folds16(Carry(d), r)
  PROVE  Folds16(d, r)
<1> DEFINE e == Carry(d)
           h == d \div Word
<1>1. /\ e \in Nat /\ e > 0 /\ h \in Nat
      /\ d = e + Ones * h
  BY CarryLess
<1>2. Folds16(e, r)
  OBVIOUS
<1> HIDE DEF e, h
<1>3. PICK q \in Nat : e = r + Ones * q
  BY <1>2, Zenon DEF Folds16
<1>4. r \in Nat /\ r <= Ones /\ r > 0
  BY <1>1, <1>2, Zenon DEF Folds16
<1>5. q + h \in Nat /\ d = r + Ones * (q + h)
  BY <1>1, <1>3, <1>4, SMT DEF Ones
<1>6. \E x \in Nat : d = r + Ones * x
  BY <1>5, Zenon
<1>7. QED
  BY <1>4, <1>6, Zenon DEF Folds16

LEMMA CarriedFolds ==
  ASSUME NEW c \in Nat
  PROVE  Folds16(c, Carried(c))
<1> DEFINE K == 2^16
           Eq(f) == f = [d \in Nat |-> IF d < K THEN d ELSE f[(d \div K) + (d % K)]]
           stop == {d \in Nat : d < Word}
           base == [d \in Nat |-> d]
           next == [d \in Nat |-> IF d < Word THEN d ELSE Carry(d)]
           step == [x \in Nat \X Nat |-> x[2]]
<1>1. K = Word
  BY WordIs, Zenon
<1>2. /\ \A d \in Nat : base[d] = d
      /\ \A d \in Nat : d \in stop <=> d < Word
      /\ \A d \in Nat : ~(d < Word) => next[d] = Carry(d)
      /\ \A d, r \in Nat : <<d, r>> \in Nat \X Nat /\ step[<<d, r>>] = r
  BY SMT
<1>3. \E f \in [Nat -> Nat] : Recurses(f, Nat, stop, base, next, step)
  <2>1. base \in [Nat -> Nat] /\ step \in [Nat \X Nat -> Nat]
    BY SMT
  <2>2. next \in [Nat -> Nat]
    <3>1. ASSUME NEW d \in Nat
          PROVE  (IF d < Word THEN d ELSE Carry(d)) \in Nat
      BY CarryLess
    <3>2. QED
      BY <3>1
  <2>3. Descends(Nat, stop, next, base)
    <3>1. ASSUME NEW d \in Nat \ stop PROVE base[next[d]] < base[d]
      <4>1. d \in Nat /\ ~(d < Word)
        OBVIOUS
      <4>2. Carry(d) \in Nat /\ Carry(d) < d
        BY <4>1, CarryLess
      <4> HIDE DEF stop, base, next
      <4>3. next[d] = Carry(d) /\ base[d] = d /\ base[Carry(d)] = Carry(d)
        BY <1>2, <4>1, <4>2
      <4>4. QED
        BY <4>2, <4>3
    <3> HIDE DEF stop, base, next
    <3>2. QED
      BY <2>1, <3>1, Zenon DEF Descends
  <2> HIDE DEF stop, base, next, step
  <2>4. QED
    BY <2>1, <2>2, <2>3, Recursion
<1> HIDE DEF stop, base, next, step
<1>4. PICK f \in [Nat -> Nat] :
        \A d \in Nat : f[d] = IF d \in stop THEN base[d] ELSE step[<<d, f[next[d]]>>]
  BY <1>3, Zenon DEF Recurses
<1> DEFINE add == CHOOSE g : Eq(g)
<1>5. Carried(c) = add[c]
  BY DEF Carried
<1> HIDE DEF K
<1>6. Eq(f)
  <2>1. ASSUME NEW d \in Nat
        PROVE  f[d] = IF d < K THEN d ELSE f[(d \div K) + (d % K)]
    <3>1. CASE d < Word
      <4>1. f[d] = d
        BY <1>2, <1>4, <3>1, Zenon
      <4>2. QED
        BY <1>1, <3>1, <4>1, Zenon
    <3>2. CASE ~(d < Word)
      <4>1. Carry(d) \in Nat /\ (d \div K) + (d % K) = Carry(d)
        BY <1>1, <3>2, CarryLess DEF Carry
      <4>2. f[d] = step[<<d, f[Carry(d)]>>] /\ f[Carry(d)] \in Nat
        BY <1>2, <1>4, <3>2, <4>1, Zenon
      <4>3. f[d] = f[Carry(d)]
        BY <1>2, <4>1, <4>2, Zenon
      <4>4. QED
        BY <1>1, <3>2, <4>1, <4>3, Zenon
    <3>3. QED
      BY <3>1, <3>2, Zenon
  <2>2. QED
    BY <1>4, <2>1, Zenon
<1>7. Eq(add)
  BY <1>6
<1> HIDE DEF add
<1>8. \A d \in Nat : add[d] = IF d < Word THEN d ELSE add[Carry(d)]
  BY <1>1, <1>7, Zenon DEF Carry
<1> DEFINE S == {d \in Nat : Folds16(d, add[d])}
<1>9. ASSUME NEW d \in Nat, 0..(d - 1) \subseteq S PROVE d \in S
  <2>1. CASE d < Word
    <3>1. add[d] = d
      BY <1>8, <2>1, Zenon
    <3>2. \E q \in Nat : d = d + Ones * q
      <4>1. d = d + Ones * 0
        BY SMT DEF Ones
      <4>2. QED
        BY <4>1, Zenon
    <3>3. d <= Ones
      BY <2>1, SMT DEF Word, Ones
    <3>4. Folds16(d, d)
      BY <3>2, <3>3, Zenon DEF Folds16
    <3>5. QED
      BY <3>1, <3>4, Zenon
  <2>2. CASE ~(d < Word)
    <3> DEFINE e == Carry(d)
    <3>1. e \in Nat /\ e < d
      BY <2>2, CarryLess
    <3> HIDE DEF e
    <3>2. e \in 0..(d - 1)
      BY <3>1
    <3>3. Folds16(e, add[e])
      BY <1>9, <3>2
    <3>4. add[d] = add[e]
      BY <1>8, <2>2, Zenon DEF e
    <3>5. Folds16(d, add[e])
      BY <2>2, <3>3, CarryFolds, Zenon DEF e
    <3>6. QED
      BY <3>4, <3>5, Zenon
  <2>3. QED
    BY <2>1, <2>2
<1> HIDE DEF S
<1>10. Nat \subseteq S
  BY <1>9, SetInduction
<1>11. QED
  BY <1>5, <1>10, Zenon DEF S

\* The only positive multiple of 2^16 - 1 that sixteen bits hold.
LEMMA FoldedMultiple ==
  ASSUME NEW q \in Nat, NEW m, m = Ones * (q + 1), NEW r, Folds16(m, r)
  PROVE  r = Ones
<1>1. PICK p \in Nat : m = r + Ones * p
  BY Zenon DEF Folds16
<1>2. r \in Nat /\ r <= Ones /\ r > 0
  <2>1. m > 0
    BY SMT DEF Ones
  <2>2. QED
    BY <2>1, Zenon DEF Folds16
<1> DEFINE z == (q + 1) - p
<1>3. z \in Int /\ r = Ones * z
  BY <1>1, <1>2, SMT DEF Ones
<1> HIDE DEF z
<1>4. z = 1
  <2>1. CASE z <= 0
    BY <1>2, <1>3, <2>1, SMT DEF Ones
  <2>2. CASE z >= 2
    BY <1>2, <1>3, <2>2, SMT DEF Ones
  <2>3. QED
    BY <1>3, <2>1, <2>2, SMT
<1>5. QED
  BY <1>3, <1>4, SMT DEF Ones

\* A packet whose sum does not wrap sums to zero with its checksum.
LEMMA ChecksumOfFitting ==
  ASSUME NEW s \in Bytes, Fits(s)
  PROVE  Checksum(WithChecksum(s)) = 0
<1> DEFINE p == s \o (IF Len(s) % 2 = 1 THEN <<0>> ELSE <<>>)
           W == WordTotal(s)
           V == WordSum(s)
           r == Carried(V)
           c == Checksum(s)
           a == c % 256
           b == c \div 256
<1>1. p \in Bytes /\ Len(p) % 2 = 0 /\ WordTotal(p) = W
  <2>1. CASE Len(s) % 2 = 1
    <3>1. p = s \o <<0>>
      BY <2>1
    <3>2. <<0>> \in Bytes /\ Len(<<0>>) = 1
      BY DEF Bytes
    <3>3. s \o <<0>> \in Bytes /\ Len(s \o <<0>>) = Len(s) + 1
      BY <3>2, ConcatProperties DEF Bytes
    <3>4. Len(s) \in Nat
      BY ByteFacts
    <3>5. (Len(s) + 1) % 2 = 0
      BY <2>1, <3>4
    <3>6. WordTotal(s \o <<0>>) = W
      BY <2>1, WordTotalPadded
    <3> HIDE DEF p, W
    <3>7. QED
      BY <3>1, <3>3, <3>5, <3>6
  <2>2. CASE Len(s) % 2 # 1
    <3>1. p = s
      BY <2>2, ConcatEmptySeq DEF Bytes
    <3>2. Len(s) % 2 = 0
      BY <2>2, ByteFacts
    <3>3. QED
      BY <3>1, <3>2
  <2>3. QED
    BY <2>1, <2>2
<1>2. W \in Nat /\ V = W % UInt /\ V \in Nat
  <2>1. W \in Nat /\ V = W % UInt
    BY WordTotalType DEF WordSum
  <2> HIDE DEF W, V
  <2>2. QED
    BY <2>1, PackingAssumption DEF PackingAssumption
<1>3. c = 2^16 - 1 - r
  BY DEF Checksum
<1>4. WithChecksum(s) = p \o <<a, b>>
  BY DEF WithChecksum
<1> HIDE DEF p, W, V, c
<1>5. Folds16(V, r)
  BY <1>2, CarriedFolds, Zenon
<1> HIDE DEF r
<1>6. r \in Nat /\ r <= Ones
  BY <1>5, Zenon DEF Folds16
<1>7. c = Ones - r /\ c \in Nat /\ c <= Ones
  BY <1>3, <1>6, SMT DEF Ones
<1>8. a \in 0..255 /\ b \in 0..255 /\ a + 256 * b = c
  <2>1. c \in Nat /\ c <= 65535
    BY <1>7, SMT DEF Ones
  <2>2. a \in Nat /\ a < 256 /\ b \in Nat /\ b < 256 /\ c = 256 * b + a
    BY <2>1, SMT
  <2> HIDE DEF a, b
  <2>3. QED
    BY <2>1, <2>2, SMT
<1> HIDE DEF a, b
<1>9. WordTotal(p \o <<a, b>>) = W + (a + 256 * b)
  <2>1. a \in Nat /\ b \in Nat /\ <<a, b>> \in Bytes
    BY <1>8 DEF Bytes
  <2>2. WordTotal(p \o <<a, b>>) = WordTotal(p) + (a + 256 * b)
    BY <1>1, <2>1, WordTotalAppend
  <2>3. QED
    BY <1>1, <2>2, Zenon
<1> DEFINE m == WordTotal(WithChecksum(s))
<1>10. m = W + (a + 256 * b) /\ m < UInt
  BY <1>4, <1>9, Zenon DEF Fits
<1> HIDE DEF m
<1>11. V = W /\ m % UInt = m
  <2>1. W <= m /\ m \in Nat
    BY <1>2, <1>8, <1>10
  <2>2. QED
    BY <1>2, <1>10, <2>1, PackingAssumption DEF PackingAssumption
<1>12. Checksum(WithChecksum(s)) = 2^16 - 1 - Carried(m)
  <2>1. WordSum(WithChecksum(s)) = m
    BY <1>11 DEF WordSum, m
  <2>2. QED
    BY <2>1, Zenon DEF Checksum
<1>13. PICK q \in Nat : W = r + Ones * q
  BY <1>5, <1>11, Zenon DEF Folds16
<1>14. m = Ones * (q + 1) /\ m \in Nat
  <2>1. m = W + c /\ r \in Int
    BY <1>6, <1>8, <1>10, SMT
  <2>2. QED
    BY <1>6, <1>13, <1>7, <2>1, SMT DEF Ones
<1>15. Folds16(m, Carried(m))
  BY <1>14, CarriedFolds, Zenon
<1>16. Carried(m) = Ones
  BY <1>14, <1>15, FoldedMultiple, Zenon
<1>17. QED
  BY <1>12, <1>16, SMT DEF Ones

\* A short packet's sum does not wrap.
LEMMA ShortFits ==
  ASSUME NEW s \in Bytes, 65535 * (Len(s) + 3) < 2 * UInt
  PROVE  Fits(s)
<1> DEFINE c == Checksum(s)
           a == c % 256
           b == c \div 256
           z == <<a, b>>
           p == s \o (IF Len(s) % 2 = 1 THEN <<0>> ELSE <<>>)
           t == WithChecksum(s)
<1>1. Len(s) \in Nat /\ UInt \in Nat /\ UInt >= 2^16
  BY ByteFacts, PackingAssumption DEF PackingAssumption
<1>2. p \in Bytes /\ Len(p) % 2 = 0 /\ Len(p) <= Len(s) + 1 /\ Len(p) \in Nat
  <2>1. CASE Len(s) % 2 = 1
    <3>1. <<0>> \in Bytes /\ Len(<<0>>) = 1
      BY DEF Bytes
    <3>2. s \o <<0>> \in Bytes /\ Len(s \o <<0>>) = Len(s) + 1
      BY <3>1, ConcatProperties DEF Bytes
    <3>3. p = s \o <<0>>
      BY <2>1
    <3> HIDE DEF p
    <3>4. QED
      BY <1>1, <2>1, <3>2, <3>3
  <2>2. CASE Len(s) % 2 # 1
    <3>1. p = s
      BY <2>2, ConcatEmptySeq DEF Bytes
    <3> HIDE DEF p
    <3>2. QED
      BY <1>1, <2>2, <3>1
  <2> HIDE DEF p
  <2>3. QED
    BY <2>1, <2>2
<1>3. z \in Bytes /\ Len(z) = 2
  <2>1. WordSum(s) \in Nat
    <3>1. WordTotal(s) \in Nat
      BY WordTotalType
    <3>2. QED
      BY <1>1, <3>1 DEF WordSum
  <2>2. Folds16(WordSum(s), Carried(WordSum(s)))
    BY <2>1, CarriedFolds
  <2>3. Carried(WordSum(s)) \in Nat /\ Carried(WordSum(s)) <= 65535
    BY <2>2, SMT DEF Folds16, Ones
  <2>4. c \in Nat /\ c <= 65535
    BY <2>3 DEF Checksum
  <2> HIDE DEF c
  <2>5. a \in 0..255 /\ b \in 0..255
    BY <2>4
  <2> HIDE DEF a, b
  <2>6. QED
    BY <2>5 DEF Bytes
<1>4. t = p \o z
  BY DEF WithChecksum
<1> HIDE DEF p, z, t
<1>5. t \in Bytes /\ Len(t) = Len(p) + 2
  <2>1. p \in Bytes /\ z \in Bytes
    BY <1>2, <1>3
  <2>2. p \o z \in Bytes /\ Len(p \o z) = Len(p) + Len(z)
    BY ONLY <2>1, BytesTogether
  <2>3. QED
    BY <2>2, <1>3, <1>4
<1>6. Len(t) % 2 = 0 /\ Len(t) <= Len(s) + 3 /\ Len(t) \in Nat
  BY <1>1, <1>2, <1>5
<1>7. 2 * WordTotal(t) <= 65535 * Len(t) /\ WordTotal(t) \in Nat
  BY <1>5, <1>6, WordTotalBound, WordTotalType
<1>8. WordTotal(t) < UInt
  BY <1>1, <1>6, <1>7
<1>9. QED
  BY <1>8 DEF Fits, t

\* A packet of any bytes, of even or odd length, sums to zero with its checksum, whatever
\* carries the sum makes, as long as it is too short for its sum to wrap: for 2^32, up to
\* 131071 bytes (ProtocoIStream.cpp:9).
THEOREM ChecksumOfBytes ==
  ASSUME NEW s \in Bytes, 65535 * (Len(s) + 3) < 2 * UInt
  PROVE  Checksum(WithChecksum(s)) = 0
BY ChecksumOfFitting, ShortFits

-----------------------------------------------------------------------------
(* The seven-bit groups of a number.                                       *)

\* value is what the groups of e from each place on amount to.
Groups(e, value) ==
  /\ value \in [1..(Len(e) + 1) -> Nat]
  /\ value[Len(e) + 1] = 0
  /\ \A i \in 1..Len(e) : value[i] = (e[i] % 128) + 128 * value[i + 1]

\* e is what the number w is written as.
Writes(w, e) ==
  /\ e \in Seq(Nat) /\ Len(e) >= 1
  /\ \A i \in 1..Len(e) : e[i] >= 128 <=> i < Len(e)
  /\ w > 0 => e[Len(e)] # 0
  /\ Len(e) > 1 => w > 0
  /\ \E value : Groups(e, value) /\ value[1] = w

LEMMA Prepended ==
  ASSUME NEW x \in Nat, NEW r \in Seq(Nat)
  PROVE  /\ <<x>> \o r \in Seq(Nat) /\ Len(<<x>> \o r) = Len(r) + 1 /\ Len(r) \in Nat
         /\ (<<x>> \o r)[1] = x
         /\ \A i \in 1..Len(r) : r[i] \in Nat /\ (<<x>> \o r)[i + 1] = r[i]
<1> DEFINE t == <<x>> \o r
<1>1. Len(r) \in Nat /\ \A i \in 1..Len(r) : r[i] \in Nat
  BY ElementOfSeq, LenProperties
<1>2. <<x>> \in Seq(Nat) /\ Len(<<x>>) = 1 /\ <<x>>[1] = x
  OBVIOUS
<1>3. /\ t \in Seq(Nat) /\ Len(t) = 1 + Len(r)
      /\ \A i \in 1..(1 + Len(r)) : t[i] = IF i <= 1 THEN <<x>>[i] ELSE r[i - 1]
  BY <1>2, ConcatProperties
<1> HIDE DEF t
<1>4. t[1] = x
  BY <1>1, <1>2, <1>3
<1>5. ASSUME NEW i \in 1..Len(r) PROVE t[i + 1] = r[i]
  <2>1. i + 1 \in 1..(1 + Len(r)) /\ ~(i + 1 <= 1) /\ (i + 1) - 1 = i
    BY <1>1
  <2>2. t[i + 1] = r[(i + 1) - 1]
    BY <1>3, <2>1
  <2>3. QED
    BY <2>1, <2>2
<1>6. QED
  BY <1>1, <1>3, <1>4, <1>5 DEF t

\* One group before the groups of a number that is not zero.
LEMMA WritesMore ==
  ASSUME NEW w \in Nat, ~(w < 128), NEW r, Writes(w \div 128, r)
  PROVE  Writes(w, <<(w % 128) + 128>> \o r)
<1> DEFINE x == (w % 128) + 128
           h == w \div 128
           t == <<x>> \o r
           L == Len(r)
<1>1. x \in Nat /\ x >= 128 /\ h \in Nat /\ h > 0 /\ (x % 128) + 128 * h = w /\ w > 0
  OBVIOUS
<1>2. Writes(h, r)
  OBVIOUS
<1> HIDE DEF x, h
<1>3. r \in Seq(Nat) /\ L >= 1 /\ (\A i \in 1..L : r[i] >= 128 <=> i < L) /\ r[L] # 0
  BY <1>1, <1>2 DEF Writes
<1>4. /\ t \in Seq(Nat) /\ Len(t) = L + 1 /\ L \in Nat /\ t[1] = x
      /\ \A i \in 1..L : t[i + 1] = r[i]
  BY <1>1, <1>3, Prepended
<1>5. PICK v : Groups(r, v) /\ v[1] = h
  BY <1>2, Zenon DEF Writes
<1>6. v \in [1..(L + 1) -> Nat] /\ v[L + 1] = 0
      /\ \A i \in 1..L : v[i] = (r[i] % 128) + 128 * v[i + 1]
  BY <1>5, Zenon DEF Groups
<1> HIDE DEF t, L
<1> DEFINE u == [i \in 1..(L + 2) |-> IF i = 1 THEN w ELSE v[i - 1]]
<1>7. Groups(t, u)
  <2>1. u \in [1..(L + 2) -> Nat]
    <3>1. ASSUME NEW i \in 1..(L + 2), i # 1 PROVE v[i - 1] \in Nat
      <4>1. i - 1 \in 1..(L + 1)
        BY <1>4, <3>1
      <4>2. QED
        BY <1>6, <4>1
    <3>2. QED
      BY <3>1
  <2>2. u[L + 2] = 0
    <3>1. L + 2 \in 1..(L + 2) /\ L + 2 # 1 /\ (L + 2) - 1 = L + 1
      BY <1>4
    <3>2. u[L + 2] = v[(L + 2) - 1]
      BY <3>1
    <3>3. QED
      BY <1>6, <3>1, <3>2
  <2>3. ASSUME NEW i \in 1..(L + 1) PROVE u[i] = (t[i] % 128) + 128 * u[i + 1]
    <3>1. CASE i = 1
      <4>1. u[1] = w /\ u[1 + 1] = v[1]
        BY <1>4
      <4>2. QED
        BY <1>1, <1>4, <1>5, <3>1, <4>1
    <3>2. CASE i # 1
      <4> DEFINE k == i - 1
      <4>1. k \in 1..L /\ k + 1 = i /\ i \in 1..(L + 2) /\ i + 1 \in 1..(L + 2)
            /\ i + 1 # 1 /\ (i + 1) - 1 = i
        BY <1>4, <3>2
      <4>2. u[i] = v[k] /\ u[i + 1] = v[i]
        BY <3>2, <4>1
      <4> HIDE DEF k, u
      <4>3. t[i] = r[k] /\ v[k] = (r[k] % 128) + 128 * v[i]
        BY <1>4, <1>6, <4>1
      <4>4. QED
        BY <4>2, <4>3, Zenon
    <3>3. QED
      BY <3>1, <3>2, Zenon
  <2>4. (L + 1) + 1 = L + 2
    BY <1>4
  <2> HIDE DEF u
  <2>5. QED
    BY <1>4, <2>1, <2>2, <2>3, <2>4, Zenon DEF Groups
<1>8. u[1] = w
  BY <1>4
<1> HIDE DEF u
<1>9. ASSUME NEW i \in 1..(L + 1) PROVE t[i] >= 128 <=> i < L + 1
  <2>1. CASE i = 1
    BY <1>1, <1>3, <1>4, <2>1
  <2>2. CASE i # 1
    <3> DEFINE k == i - 1
    <3>1. k \in 1..L /\ k + 1 = i
      BY <1>4, <2>2
    <3> HIDE DEF k
    <3>2. t[i] = r[k] /\ (r[k] >= 128 <=> k < L)
      BY <1>3, <1>4, <3>1, Zenon DEF L
    <3>3. k < L <=> i < L + 1
      BY <1>4, <3>1
    <3>4. QED
      BY <3>2, <3>3
  <2>3. QED
    BY <2>1, <2>2
<1>10. t[L + 1] # 0
  <2>1. L \in 1..L
    BY <1>3, <1>4
  <2>2. QED
    BY <1>3, <1>4, <2>1
<1>11. Len(t) >= 1
  BY <1>4
<1>12. Writes(w, t)
  BY <1>1, <1>4, <1>7, <1>8, <1>9, <1>10, <1>11, Zenon DEF Writes
<1>13. QED
  BY <1>12 DEF t, x

LEMMA WritesOne ==
  ASSUME NEW w \in Nat, w < 128
  PROVE  Writes(w, <<w>>)
<1> DEFINE e == <<w>>
           u == [i \in 1..2 |-> IF i = 1 THEN w ELSE 0]
<1>1. e \in Seq(Nat) /\ Len(e) = 1 /\ e[1] = w
  OBVIOUS
<1>2. u \in [1..2 -> Nat] /\ u[1] = w /\ u[2] = 0
  OBVIOUS
<1>3. w = (w % 128) + 128 * 0 /\ ~(w >= 128)
  OBVIOUS
<1> HIDE DEF e, u
<1>4. Groups(e, u)
  <2>1. 1 + 1 = 2 /\ \A i \in 1..1 : i = 1
    OBVIOUS
  <2>2. QED
    BY <1>1, <1>2, <1>3, <2>1 DEF Groups
<1>5. \A i \in 1..1 : i = 1 /\ ~(i < 1)
  OBVIOUS
<1>6. ~(1 > 1) /\ 1 >= 1 /\ (w > 0 => w # 0)
  OBVIOUS
<1>7. Writes(w, e)
  BY <1>1, <1>2, <1>3, <1>4, <1>5, <1>6, Zenon DEF Writes
<1>8. QED
  BY <1>7 DEF e

LEMMA EncodeWrites ==
  ASSUME NEW v \in Nat
  PROVE  Writes(v, Write7BitEncode(v))
<1> DEFINE Eq(f) == f = [w \in Nat |-> IF w < 128 THEN <<w>>
                                       ELSE <<(w % 128) + 128>> \o f[w \div 128]]
           V == Seq(Nat)
           stop == {w \in Nat : w < 128}
           base == [w \in Nat |-> <<w>>]
           next == [w \in Nat |-> w \div 128]
           step == [x \in Nat \X V |-> <<(x[1] % 128) + 128>> \o x[2]]
           measure == [w \in Nat |-> w]
<1>1. \A w \in Nat : w \div 128 \in Nat /\ (w % 128) + 128 \in Nat
  OBVIOUS
<1>2. \E f \in [Nat -> V] : Recurses(f, Nat, stop, base, next, step)
  <2>1. base \in [Nat -> V] /\ next \in [Nat -> Nat]
    BY <1>1
  <2>2. step \in [Nat \X V -> V]
    <3>1. ASSUME NEW x \in Nat \X V PROVE <<(x[1] % 128) + 128>> \o x[2] \in V
      <4>1. x[1] \in Nat /\ x[2] \in V
        OBVIOUS
      <4>2. (x[1] % 128) + 128 \in Nat
        BY <1>1, <4>1
      <4>3. QED
        BY <4>1, <4>2, Prepended
    <3>2. QED
      BY <3>1, Zenon
  <2>3. Descends(Nat, stop, next, measure)
    <3>1. ASSUME NEW w \in Nat \ stop PROVE w \div 128 < w
      OBVIOUS
    <3>2. QED
      BY <1>1, <3>1 DEF Descends
  <2> HIDE DEF V, stop, base, next, step, measure
  <2>4. QED
    BY <2>1, <2>2, <2>3, Recursion
<1>3. PICK f \in [Nat -> V] :
        \A w \in Nat : f[w] = IF w \in stop THEN base[w] ELSE step[<<w, f[next[w]]>>]
  BY <1>2, Zenon DEF Recurses
<1>4. ASSUME NEW w \in Nat
      PROVE  f[w] = IF w < 128 THEN <<w>> ELSE <<(w % 128) + 128>> \o f[w \div 128]
  <2>1. CASE w < 128
    <3>1. w \in stop /\ base[w] = <<w>>
      BY <2>1
    <3>2. QED
      BY <1>3, <2>1, <3>1, Zenon
  <2>2. CASE ~(w < 128)
    <3> DEFINE k == w \div 128
    <3>1. w \notin stop /\ next[w] = k /\ k \in Nat
      BY <1>1, <2>2
    <3> HIDE DEF stop, base, next, k
    <3>2. <<w, f[k]>> \in Nat \X V /\ f[w] = step[<<w, f[k]>>]
      BY <1>3, <3>1
    <3>3. f[w] = <<(w % 128) + 128>> \o f[k]
      BY <3>2
    <3>4. QED
      BY <2>2, <3>3, Zenon DEF k
  <2>3. QED
    BY <2>1, <2>2, Zenon
<1>5. Eq(f)
  BY <1>3, <1>4, Zenon
<1> DEFINE write == CHOOSE g : Eq(g)
<1>6. Eq(write)
  BY <1>5
<1>7. Write7BitEncode(v) = write[v]
  BY DEF Write7BitEncode
<1> HIDE DEF write
<1>8. \A w \in Nat : write[w] = IF w < 128 THEN <<w>>
                                ELSE <<(w % 128) + 128>> \o write[w \div 128]
  BY <1>6
<1> DEFINE S == {w \in Nat : Writes(w, write[w])}
<1>9. ASSUME NEW w \in Nat, 0..(w - 1) \subseteq S PROVE w \in S
  <2>1. CASE w < 128
    BY <1>8, <2>1, WritesOne
  <2>2. CASE ~(w < 128)
    <3>1. w \div 128 \in 0..(w - 1)
      BY <2>2
    <3>2. Writes(w \div 128, write[w \div 128])
      BY <1>9, <3>1
    <3>3. Writes(w, <<(w % 128) + 128>> \o write[w \div 128])
      BY <2>2, <3>2, WritesMore
    <3>4. QED
      BY <1>8, <2>2, <3>3
  <2>3. QED
    BY <2>1, <2>2
<1> HIDE DEF S
<1>10. Nat \subseteq S
  BY <1>9, SetInduction
<1>11. QED
  BY <1>7, <1>10, Zenon DEF S

\* The groups have one value, the one the recursion finds.
LEMMA GroupsValue ==
  ASSUME NEW e, Len(e) \in Nat, NEW u, Groups(e, u), NEW v,
         \A i \in 1..(Len(e) + 1) : v[i] = IF i > Len(e) THEN 0
                                           ELSE (e[i] % 128) + 128 * v[i + 1]
  PROVE  v[1] = u[1]
<1> DEFINE L == Len(e)
           S == {n \in Nat : n <= L => v[(L + 1) - n] = u[(L + 1) - n]}
<1>1. \A i \in 1..(L + 1) : v[i] = IF i > L THEN 0 ELSE (e[i] % 128) + 128 * v[i + 1]
  BY Zenon
<1>2. u[L + 1] = 0 /\ \A i \in 1..L : u[i] = (e[i] % 128) + 128 * u[i + 1]
  BY Zenon DEF Groups
<1>3. L \in Nat
  OBVIOUS
<1> HIDE DEF L
<1>4. 0 \in S
  <2>1. (L + 1) - 0 = L + 1 /\ L + 1 \in 1..(L + 1) /\ L + 1 > L
    BY <1>3
  <2>2. v[L + 1] = u[L + 1]
    BY <1>1, <1>2, <2>1, Zenon
  <2>3. QED
    BY <2>1, <2>2
<1>5. ASSUME NEW n \in Nat, n \in S PROVE n + 1 \in S
  <2> SUFFICES ASSUME n + 1 <= L PROVE v[(L + 1) - (n + 1)] = u[(L + 1) - (n + 1)]
    OBVIOUS
  <2> DEFINE i == (L + 1) - (n + 1)
  <2>1. i \in 1..L /\ i \in 1..(L + 1) /\ ~(i > L) /\ i + 1 = (L + 1) - n /\ n <= L
    BY <1>3
  <2>2. v[i + 1] = u[i + 1]
    BY <1>5, <2>1
  <2> HIDE DEF i
  <2>3. /\ v[i] = (e[i] % 128) + 128 * v[i + 1]
        /\ u[i] = (e[i] % 128) + 128 * u[i + 1]
    BY <1>1, <1>2, <2>1, Zenon
  <2>4. v[i] = u[i]
    BY <2>2, <2>3, Zenon
  <2>5. QED
    BY <2>4 DEF i
<1> HIDE DEF S
<1>6. L \in S
  BY <1>3, <1>4, <1>5, StepInduction
<1>7. (L + 1) - L = 1
  BY <1>3
<1>8. QED
  BY <1>3, <1>6, <1>7 DEF S

\* Every natural number is decoded from the groups it is written as, which end where the
\* number ends and are as few as can be (ProtocoIStream.cpp:27, 38).
THEOREM EncodeDecodes ==
  ASSUME number \in Nat
  PROVE  SevenBitsDecode
<1> DEFINE e == Write7BitEncode(number)
           Eq(f) == f = [i \in 1..(Len(e) + 1) |-> IF i > Len(e) THEN 0
                                                   ELSE (e[i] % 128) + 128 * f[i + 1]]
           value == CHOOSE f : Eq(f)
<1>1. Writes(number, e)
  BY EncodeWrites
<1> HIDE DEF e
<1>2. PICK u : Groups(e, u) /\ u[1] = number
  BY <1>1, Zenon DEF Writes
<1>3. e \in Seq(Nat) /\ Len(e) \in Nat /\ DOMAIN e = 1..Len(e)
  BY <1>1, LenProperties DEF Writes
<1>4. Eq(u)
  <2>1. ASSUME NEW i \in 1..(Len(e) + 1)
        PROVE  u[i] = IF i > Len(e) THEN 0 ELSE (e[i] % 128) + 128 * u[i + 1]
    <3>1. CASE i > Len(e)
      <4>1. i = Len(e) + 1
        BY <1>3, <3>1
      <4>2. QED
        BY <1>2, <3>1, <4>1, Zenon DEF Groups
    <3>2. CASE ~(i > Len(e))
      <4>1. i \in 1..Len(e)
        BY <1>3, <3>2
      <4>2. QED
        BY <1>2, <3>2, <4>1, Zenon DEF Groups
    <3>3. QED
      BY <3>1, <3>2
  <2>2. QED
    BY <1>2, <2>1, Zenon DEF Groups
<1>5. Eq(value)
  BY <1>4
<1> HIDE DEF value
<1>6. value[1] = number
  <2>1. \A i \in 1..(Len(e) + 1) : value[i] = IF i > Len(e) THEN 0
                                              ELSE (e[i] % 128) + 128 * value[i + 1]
    BY <1>5, Zenon
  <2>2. Len(e) \in Nat /\ Groups(e, u)
    BY <1>2, <1>3, Zenon
  <2>3. value[1] = u[1]
    BY <2>1, <2>2, GroupsValue
  <2>4. QED
    BY <1>2, <2>3, Zenon
<1>7. /\ Len(e) >= 1
      /\ \A i \in DOMAIN e : e[i] >= 128 <=> i < Len(e)
      /\ Len(e) > 1 => e[Len(e)] # 0
  BY <1>1, <1>3 DEF Writes
<1>8. QED
  BY <1>6, <1>7, Zenon DEF SevenBitsDecode, e, value

-----------------------------------------------------------------------------
(* The searches for ends of lines.                                         *)

LEMMA FirstIs ==
  ASSUME NEW P, P \subseteq Nat
  PROVE  /\ P = {} => First(P) = NoPlace
         /\ P # {} => First(P) \in P /\ \A q \in P : First(P) <= q
<1>1. CASE P = {}
  BY <1>1 DEF First
<1>2. CASE P # {}
  <2>1. \E p \in P : \A q \in P : p <= q
    BY <1>2, LeastNat
  <2>2. First(P) = CHOOSE p \in P : \A q \in P : p <= q
    BY <1>2, Zenon DEF First
  <2>3. QED
    BY <1>2, <2>1, <2>2, Zenon
<1>3. QED
  BY <1>1, <1>2

\* find names the first of the places P from i on.
FirstFrom(find, P, L) ==
  \A i \in 0..L :
    /\ find[i] = NoPlace => \A p \in P : p < i
    /\ find[i] # NoPlace => i <= find[i] /\ \A p \in P : i <= p => find[i] <= p

\* Ends of len bytes in L bytes, none within another.
Apart(P, L, len) ==
  /\ \A p \in P : p \in Nat /\ p + len <= L
  /\ \A p, q \in P : p < q => p + len <= q

\* next[i] is the i-th place that a reader finds.
Walks(next, find, L, len) ==
  \A i \in 0..L : next[i] = IF i = 0 THEN find[0]
                            ELSE IF next[i - 1] = NoPlace THEN NoPlace
                            ELSE find[next[i - 1] + len]

\* It comes to all of them.
LEMMA WalkFindsAll ==
  ASSUME NEW L \in Nat, NEW len \in Nat \ {0}, NEW P, Apart(P, L, len),
         NEW find, FirstFrom(find, P, L),
         NEW next, Walks(next, find, L, len),
         \A i \in 0..L : next[i] \in P \cup {NoPlace}
  PROVE  {next[i] : i \in 0..L} \ {NoPlace} = P
<1>1. ASSUME NEW e \in P, \A i \in 0..L : next[i] # e PROVE FALSE
  <2> DEFINE S == {n \in Nat : n <= L => next[n] \in P /\ n <= next[n] /\ next[n] < e}
  <2>1. e \in Nat /\ e + len <= L
    BY DEF Apart
  <2>2. \A i \in 0..L : i <= e => /\ find[i] # NoPlace
                                  /\ i <= find[i] /\ find[i] <= e
    BY <2>1 DEF FirstFrom
  <2>3. 0 \in S
    <3>1. 0 \in 0..L /\ 0 <= e
      BY <2>1
    <3>2. next[0] = find[0]
      BY <3>1, Zenon DEF Walks
    <3>3. next[0] \in P /\ next[0] \in Nat /\ 0 <= next[0] /\ next[0] <= e /\ next[0] # e
      BY <1>1, <2>2, <3>1, <3>2 DEF Apart
    <3>4. next[0] < e
      BY <2>1, <3>3
    <3>5. QED
      BY <3>3, <3>4
  <2>4. ASSUME NEW n \in Nat, n \in S PROVE n + 1 \in S
    <3> SUFFICES ASSUME n + 1 <= L
                 PROVE  next[n + 1] \in P /\ n + 1 <= next[n + 1] /\ next[n + 1] < e
      OBVIOUS
    <3> DEFINE p == next[n]
               i == p + len
    <3>1. p \in P /\ n <= p /\ p < e
      BY <2>4
    <3>2. p \in Nat /\ p + len <= e
      BY <3>1 DEF Apart
    <3>3. i \in 0..L /\ i <= e /\ n + 1 <= i
      BY <2>1, <3>1, <3>2
    <3>4. p # NoPlace
      BY <3>2 DEF NoPlace
    <3>5. n + 1 \in 0..L /\ n + 1 # 0 /\ (n + 1) - 1 = n
      OBVIOUS
    <3>6. next[n + 1] = find[i]
      BY <3>4, <3>5 DEF Walks
    <3> HIDE DEF p, i
    <3>7. find[i] # NoPlace /\ i <= find[i] /\ find[i] <= e
      BY <2>2, <3>3
    <3>8. next[n + 1] \in P /\ next[n + 1] \in Nat /\ next[n + 1] # e
      BY <1>1, <3>5, <3>6, <3>7 DEF Apart
    <3>9. QED
      BY <2>1, <3>3, <3>6, <3>7, <3>8
  <2> HIDE DEF S
  <2>5. L \in S
    BY <2>3, <2>4, StepInduction
  <2>6. next[L] \in P /\ L <= next[L] /\ next[L] < e
    BY <2>5 DEF S
  <2>7. next[L] \in Nat
    BY <2>6 DEF Apart
  <2>8. QED
    BY <2>1, <2>6, <2>7
<1>2. NoPlace \notin P
  BY DEF Apart, NoPlace
<1>3. QED
  BY <1>1, <1>2

\* A reader who goes on behind each end he found gets somewhere.
LEMMA WalkExists ==
  ASSUME NEW L \in Nat, NEW find \in [Int -> Int], NEW len \in Nat
  PROVE  \E next \in [0..L -> Int] : Walks(next, find, L, len)
<1> DEFINE D == 0..L
           stop == {0}
           base == [i \in D |-> find[0]]
           prev == [i \in D |-> IF i = 0 THEN 0 ELSE i - 1]
           step == [x \in D \X Int |-> IF x[2] = NoPlace THEN NoPlace ELSE find[x[2] + len]]
           measure == [i \in D |-> i]
<1>1. NoPlace \in Int
  BY DEF NoPlace
<1>2. \E f \in [D -> Int] : Recurses(f, D, stop, base, prev, step)
  <2>1. base \in [D -> Int] /\ prev \in [D -> D] /\ step \in [D \X Int -> Int]
    BY <1>1
  <2>2. Descends(D, stop, prev, measure)
    BY DEF Descends
  <2> HIDE DEF D, stop, base, prev, step, measure
  <2>3. QED
    BY <2>1, <2>2, Recursion
<1>3. PICK f \in [D -> Int] :
        \A i \in D : f[i] = IF i \in stop THEN base[i] ELSE step[<<i, f[prev[i]]>>]
  BY <1>2, Zenon DEF Recurses
<1>4. ASSUME NEW i \in D
      PROVE  f[i] = IF i = 0 THEN find[0]
                    ELSE IF f[i - 1] = NoPlace THEN NoPlace ELSE find[f[i - 1] + len]
  <2>1. CASE i = 0
    BY <1>3, <2>1
  <2>2. CASE i # 0
    <3>1. i \notin stop /\ prev[i] = i - 1 /\ i - 1 \in D
      BY <2>2
    <3> HIDE DEF stop, base, prev
    <3>2. f[i] = step[<<i, f[i - 1]>>] /\ <<i, f[i - 1]>> \in D \X Int
      BY <1>3, <3>1
    <3>3. f[i] = IF f[i - 1] = NoPlace THEN NoPlace ELSE find[f[i - 1] + len]
      BY <3>2
    <3>4. QED
      BY <2>2, <3>3
  <2>3. QED
    BY <2>1, <2>2, Zenon
<1>5. QED
  BY <1>3, <1>4, Zenon DEF Walks

-----------------------------------------------------------------------------
(* Where the lines of s end.                                               *)

CRLFPlaces(s) == {p \in 0..(Len(s) - 2) : s[p + 1] = CR /\ s[p + 2] = LF}
LFPlaces(s) == {p \in 0..(Len(s) - 1) : s[p + 1] = LF}

LEMMA CRLFFound ==
  ASSUME NEW s \in Bytes
  PROVE  LET P == CRLFPlaces(s)
         IN  /\ Apart(P, Len(s), 2)
             /\ \A x : FindCRLF(s, x) \in P \cup {NoPlace}
             /\ FirstFrom([x \in Int |-> FindCRLF(s, x)], P, Len(s))
<1> DEFINE L == Len(s)
           P == CRLFPlaces(s)
           Q(x) == {p \in x..(L - 2) : s[p + 1] = CR /\ s[p + 2] = LF}
<1>1. L \in Nat
  BY ByteFacts
<1>2. P = {p \in 0..(L - 2) : s[p + 1] = CR /\ s[p + 2] = LF}
  BY DEF CRLFPlaces
<1> HIDE DEF L, P
<1>3. \A p \in P : p \in Nat /\ p + 2 <= L
  BY <1>1, <1>2
<1>4. Apart(P, L, 2)
  <2>1. ASSUME NEW p \in P, NEW q \in P, p < q PROVE p + 2 <= q
    <3>1. CASE q = p + 1
      <4>1. s[p + 2] = LF /\ s[q + 1] = CR /\ q + 1 = p + 2
        BY <1>2, <1>3, <3>1
      <4>2. QED
        BY <4>1 DEF CR, LF
    <3>2. QED
      BY <1>3, <2>1, <3>1
  <2>2. QED
    BY <1>3, <2>1, Zenon DEF Apart
<1>5. \A x : x \notin 0..L => FindCRLF(s, x) = NoPlace
  BY Zenon DEF FindCRLF, L
<1>6. ASSUME NEW x \in 0..L
      PROVE  /\ Q(x) \subseteq P /\ \A p \in P : x <= p => p \in Q(x)
             /\ \A p \in Q(x) : x <= p /\ p \in Nat
             /\ FindCRLF(s, x) = First(Q(x))
  <2>1. FindCRLF(s, x) = First(Q(x))
    BY DEF FindCRLF, L
  <2>2. /\ \A p \in x..(L - 2) : p \in 0..(L - 2) /\ x <= p /\ p \in Nat
        /\ \A p \in 0..(L - 2) : x <= p => p \in x..(L - 2)
    BY <1>1
  <2>3. QED
    BY <1>2, <2>1, <2>2
<1> HIDE DEF Q
<1>7. ASSUME NEW x \in 0..L
      PROVE  /\ FindCRLF(s, x) = NoPlace => \A p \in P : p < x
             /\ FindCRLF(s, x) # NoPlace => /\ x <= FindCRLF(s, x) /\ FindCRLF(s, x) \in P
                                       /\ \A p \in P : x <= p => FindCRLF(s, x) <= p
  <2>1. Q(x) \subseteq Nat
    BY <1>6
  <2>2. CASE Q(x) = {}
    <3>1. FindCRLF(s, x) = NoPlace
      BY <1>6, <2>1, <2>2, FirstIs
    <3>2. \A p \in P : p < x
      BY <1>3, <1>6, <2>2
    <3>3. QED
      BY <3>1, <3>2
  <2>3. CASE Q(x) # {}
    <3>1. FindCRLF(s, x) \in Q(x) /\ \A q \in Q(x) : FindCRLF(s, x) <= q
      BY <1>6, <2>1, <2>3, FirstIs
    <3>2. FindCRLF(s, x) \in Nat
      BY <1>6, <3>1
    <3>3. FindCRLF(s, x) # NoPlace
      BY <3>2 DEF NoPlace
    <3>4. QED
      BY <1>6, <3>1, <3>3
  <2>4. QED
    BY <2>2, <2>3
<1>8. ASSUME NEW x PROVE FindCRLF(s, x) \in P \cup {NoPlace}
  BY <1>5, <1>7, Zenon
<1> DEFINE find == [x \in Int |-> FindCRLF(s, x)]
<1>9. \A x \in 0..L : find[x] = FindCRLF(s, x)
  BY <1>1
<1> HIDE DEF find
<1>10. FirstFrom(find, P, L)
  BY <1>7, <1>9, Zenon DEF FirstFrom
<1>11. QED
  BY <1>4, <1>8, <1>10 DEF find, L, P

LEMMA CRLFEndsFound ==
  ASSUME NEW s \in Bytes
  PROVE  EndsFrom(FindCRLF, s, 2) = CRLFPlaces(s)
<1> DEFINE P == CRLFPlaces(s)
           L == Len(s)
           find == [x \in Int |-> FindCRLF(s, x)]
           Eq(f) == f = [i \in 0..Len(s) |-> IF i = 0 THEN FindCRLF(s, 0)
                                             ELSE IF f[i - 1] = NoPlace THEN NoPlace
                                             ELSE FindCRLF(s, f[i - 1] + 2)]
           next == CHOOSE f : Eq(f)
<1>1. EndsFrom(FindCRLF, s, 2) = {next[i] : i \in 0..Len(s)} \ {NoPlace}
  BY DEF EndsFrom
<1>2. L \in Nat
  BY ByteFacts
<1>3. Apart(P, L, 2) /\ FirstFrom(find, P, L)
  BY CRLFFound
<1>4. \A x : FindCRLF(s, x) \in P \cup {NoPlace}
  BY CRLFFound
<1> HIDE DEF P, L
<1>5. NoPlace \in Int /\ P \cup {NoPlace} \subseteq Int
  BY <1>3 DEF NoPlace, Apart
<1>6. \A x \in Int : find[x] = FindCRLF(s, x)
  BY Zenon
<1>7. find \in [Int -> Int]
  <2>1. \A x \in Int : FindCRLF(s, x) \in Int
    BY <1>4, <1>5, Zenon
  <2>2. QED
    BY <2>1
<1> HIDE DEF find
<1>8. PICK f \in [0..L -> Int] : Walks(f, find, L, 2)
  BY <1>2, <1>7, WalkExists
<1>9. Eq(f)
  <2>1. ASSUME NEW i \in 0..L
        PROVE  f[i] = IF i = 0 THEN FindCRLF(s, 0) ELSE IF f[i - 1] = NoPlace THEN NoPlace
                      ELSE FindCRLF(s, f[i - 1] + 2)
    <3>1. f[i] = IF i = 0 THEN find[0] ELSE IF f[i - 1] = NoPlace THEN NoPlace
                 ELSE find[f[i - 1] + 2]
      BY <1>8, Zenon DEF Walks
    <3>2. find[0] = FindCRLF(s, 0)
      BY <1>6
    <3>3. ASSUME i # 0 PROVE find[f[i - 1] + 2] = FindCRLF(s, f[i - 1] + 2)
      <4>1. i - 1 \in 0..L
        BY <1>2, <3>3
      <4>2. f[i - 1] + 2 \in Int
        BY <1>8, <4>1
      <4>3. QED
        BY <1>6, <4>2, Zenon
    <3>4. QED
      BY <3>1, <3>2, <3>3, Zenon
  <2>2. QED
    BY <1>8, <2>1, Zenon DEF L
<1>10. Eq(next)
  BY <1>9
<1> HIDE DEF next
<1>11. \A i \in 0..L : next[i] = IF i = 0 THEN FindCRLF(s, 0)
                                 ELSE IF next[i - 1] = NoPlace THEN NoPlace
                                 ELSE FindCRLF(s, next[i - 1] + 2)
  BY <1>10, Zenon DEF L
<1>12. ASSUME NEW i \in 0..L PROVE next[i] \in P \cup {NoPlace}
  BY <1>4, <1>11, Zenon
<1>13. Walks(next, find, L, 2)
  <2>1. ASSUME NEW i \in 0..L
        PROVE  next[i] = IF i = 0 THEN find[0] ELSE IF next[i - 1] = NoPlace THEN NoPlace
                         ELSE find[next[i - 1] + 2]
    <3>1. find[0] = FindCRLF(s, 0)
      BY <1>6
    <3>2. ASSUME i # 0 PROVE find[next[i - 1] + 2] = FindCRLF(s, next[i - 1] + 2)
      <4>1. i - 1 \in 0..L
        BY <1>2, <3>2
      <4>2. next[i - 1] \in Int
        BY <1>5, <1>12, <4>1, Zenon
      <4>3. next[i - 1] + 2 \in Int
        BY <4>2
      <4>4. QED
        BY <1>6, <4>3, Zenon
    <3>3. QED
      BY <1>11, <3>1, <3>2, Zenon
  <2>2. QED
    BY <2>1, Zenon DEF Walks
<1>14. 2 \in Nat \ {0}
  OBVIOUS
<1>15. {next[i] : i \in 0..L} \ {NoPlace} = P
  BY <1>2, <1>3, <1>12, <1>13, <1>14, WalkFindsAll
<1>16. QED
  BY <1>1, <1>15 DEF L, P

LEMMA LFFound ==
  ASSUME NEW s \in Bytes
  PROVE  LET P == LFPlaces(s)
         IN  /\ Apart(P, Len(s), 1)
             /\ \A x : FindEOF(s, x) \in P \cup {NoPlace}
             /\ FirstFrom([x \in Int |-> FindEOF(s, x)], P, Len(s))
<1> DEFINE L == Len(s)
           P == LFPlaces(s)
           Q(x) == {p \in x..(L - 1) : s[p + 1] = LF}
<1>1. L \in Nat
  BY ByteFacts
<1>2. P = {p \in 0..(L - 1) : s[p + 1] = LF}
  BY DEF LFPlaces
<1> HIDE DEF L, P
<1>3. \A p \in P : p \in Nat /\ p + 1 <= L
  BY <1>1, <1>2
<1>4. Apart(P, L, 1)
  BY <1>3 DEF Apart
<1>5. \A x : x \notin 0..L => FindEOF(s, x) = NoPlace
  BY Zenon DEF FindEOF, L
<1>6. ASSUME NEW x \in 0..L
      PROVE  /\ Q(x) \subseteq P /\ \A p \in P : x <= p => p \in Q(x)
             /\ \A p \in Q(x) : x <= p /\ p \in Nat
             /\ FindEOF(s, x) = First(Q(x))
  <2>1. FindEOF(s, x) = First(Q(x))
    BY DEF FindEOF, L
  <2>2. /\ \A p \in x..(L - 1) : p \in 0..(L - 1) /\ x <= p /\ p \in Nat
        /\ \A p \in 0..(L - 1) : x <= p => p \in x..(L - 1)
    BY <1>1
  <2>3. QED
    BY <1>2, <2>1, <2>2
<1> HIDE DEF Q
<1>7. ASSUME NEW x \in 0..L
      PROVE  /\ FindEOF(s, x) = NoPlace => \A p \in P : p < x
             /\ FindEOF(s, x) # NoPlace => /\ x <= FindEOF(s, x) /\ FindEOF(s, x) \in P
                                       /\ \A p \in P : x <= p => FindEOF(s, x) <= p
  <2>1. Q(x) \subseteq Nat
    BY <1>6
  <2>2. CASE Q(x) = {}
    <3>1. FindEOF(s, x) = NoPlace
      BY <1>6, <2>1, <2>2, FirstIs
    <3>2. \A p \in P : p < x
      BY <1>3, <1>6, <2>2
    <3>3. QED
      BY <3>1, <3>2
  <2>3. CASE Q(x) # {}
    <3>1. FindEOF(s, x) \in Q(x) /\ \A q \in Q(x) : FindEOF(s, x) <= q
      BY <1>6, <2>1, <2>3, FirstIs
    <3>2. FindEOF(s, x) \in Nat
      BY <1>6, <3>1
    <3>3. FindEOF(s, x) # NoPlace
      BY <3>2 DEF NoPlace
    <3>4. QED
      BY <1>6, <3>1, <3>3
  <2>4. QED
    BY <2>2, <2>3
<1>8. ASSUME NEW x PROVE FindEOF(s, x) \in P \cup {NoPlace}
  BY <1>5, <1>7, Zenon
<1> DEFINE find == [x \in Int |-> FindEOF(s, x)]
<1>9. \A x \in 0..L : find[x] = FindEOF(s, x)
  BY <1>1
<1> HIDE DEF find
<1>10. FirstFrom(find, P, L)
  BY <1>7, <1>9, Zenon DEF FirstFrom
<1>11. QED
  BY <1>4, <1>8, <1>10 DEF find, L, P

LEMMA LFEndsFound ==
  ASSUME NEW s \in Bytes
  PROVE  EndsFrom(FindEOF, s, 1) = LFPlaces(s)
<1> DEFINE P == LFPlaces(s)
           L == Len(s)
           find == [x \in Int |-> FindEOF(s, x)]
           Eq(f) == f = [i \in 0..Len(s) |-> IF i = 0 THEN FindEOF(s, 0)
                                             ELSE IF f[i - 1] = NoPlace THEN NoPlace
                                             ELSE FindEOF(s, f[i - 1] + 1)]
           next == CHOOSE f : Eq(f)
<1>1. EndsFrom(FindEOF, s, 1) = {next[i] : i \in 0..Len(s)} \ {NoPlace}
  BY DEF EndsFrom
<1>2. L \in Nat
  BY ByteFacts
<1>3. Apart(P, L, 1) /\ FirstFrom(find, P, L)
  BY LFFound
<1>4. \A x : FindEOF(s, x) \in P \cup {NoPlace}
  BY LFFound
<1> HIDE DEF P, L
<1>5. NoPlace \in Int /\ P \cup {NoPlace} \subseteq Int
  BY <1>3 DEF NoPlace, Apart
<1>6. \A x \in Int : find[x] = FindEOF(s, x)
  BY Zenon
<1>7. find \in [Int -> Int]
  <2>1. \A x \in Int : FindEOF(s, x) \in Int
    BY <1>4, <1>5, Zenon
  <2>2. QED
    BY <2>1
<1> HIDE DEF find
<1>8. PICK f \in [0..L -> Int] : Walks(f, find, L, 1)
  BY <1>2, <1>7, WalkExists
<1>9. Eq(f)
  <2>1. ASSUME NEW i \in 0..L
        PROVE  f[i] = IF i = 0 THEN FindEOF(s, 0) ELSE IF f[i - 1] = NoPlace THEN NoPlace
                      ELSE FindEOF(s, f[i - 1] + 1)
    <3>1. f[i] = IF i = 0 THEN find[0] ELSE IF f[i - 1] = NoPlace THEN NoPlace
                 ELSE find[f[i - 1] + 1]
      BY <1>8, Zenon DEF Walks
    <3>2. find[0] = FindEOF(s, 0)
      BY <1>6
    <3>3. ASSUME i # 0 PROVE find[f[i - 1] + 1] = FindEOF(s, f[i - 1] + 1)
      <4>1. i - 1 \in 0..L
        BY <1>2, <3>3
      <4>2. f[i - 1] + 1 \in Int
        BY <1>8, <4>1
      <4>3. QED
        BY <1>6, <4>2, Zenon
    <3>4. QED
      BY <3>1, <3>2, <3>3, Zenon
  <2>2. QED
    BY <1>8, <2>1, Zenon DEF L
<1>10. Eq(next)
  BY <1>9
<1> HIDE DEF next
<1>11. \A i \in 0..L : next[i] = IF i = 0 THEN FindEOF(s, 0)
                                 ELSE IF next[i - 1] = NoPlace THEN NoPlace
                                 ELSE FindEOF(s, next[i - 1] + 1)
  BY <1>10, Zenon DEF L
<1>12. ASSUME NEW i \in 0..L PROVE next[i] \in P \cup {NoPlace}
  BY <1>4, <1>11, Zenon
<1>13. Walks(next, find, L, 1)
  <2>1. ASSUME NEW i \in 0..L
        PROVE  next[i] = IF i = 0 THEN find[0] ELSE IF next[i - 1] = NoPlace THEN NoPlace
                         ELSE find[next[i - 1] + 1]
    <3>1. find[0] = FindEOF(s, 0)
      BY <1>6
    <3>2. ASSUME i # 0 PROVE find[next[i - 1] + 1] = FindEOF(s, next[i - 1] + 1)
      <4>1. i - 1 \in 0..L
        BY <1>2, <3>2
      <4>2. next[i - 1] \in Int
        BY <1>5, <1>12, <4>1, Zenon
      <4>3. next[i - 1] + 1 \in Int
        BY <4>2
      <4>4. QED
        BY <1>6, <4>3, Zenon
    <3>3. QED
      BY <1>11, <3>1, <3>2, Zenon
  <2>2. QED
    BY <2>1, Zenon DEF Walks
<1>14. 1 \in Nat \ {0}
  OBVIOUS
<1>15. {next[i] : i \in 0..L} \ {NoPlace} = P
  BY <1>2, <1>3, <1>12, <1>13, <1>14, WalkFindsAll
<1>16. QED
  BY <1>1, <1>15 DEF L, P

\* A reader of any bytes who goes on behind each end he found finds the ends of all lines, and
\* nothing else (Buffer.h:87, 101).
THEOREM BytesLinesFound ==
  ASSUME NEW s \in Bytes
  PROVE  LinesAreFound(s)
<1>1. Len(s) \in Nat /\ \A i \in 1..Len(s) : s[i] \in 0..255
  BY ByteFacts
<1>2. ASSUME NEW p \in 0..(Len(s) - 2)
      PROVE  SubSeq(s, p + 1, p + 2) = <<CR, LF>> <=> s[p + 1] = CR /\ s[p + 2] = LF
  <2> DEFINE t == SubSeq(s, p + 1, p + 2)
  <2>1. p + 1 \in Int /\ p + 2 \in Int /\ (\A i \in (p + 1)..(p + 2) : i \in 1..Len(s))
        /\ p + 1 <= p + 2 /\ (p + 2) - (p + 1) + 1 = 2
    BY <1>1
  <2>2. /\ t \in Seq(0..255)
        /\ Len(t) = 2
        /\ \A i \in 1..2 : t[i] = s[(p + 1) + i - 1]
    BY <1>1, <2>1, SubSeqProperties
  <2>3. t[1] = s[p + 1] /\ t[2] = s[p + 2]
    BY <2>1, <2>2
  <2> HIDE DEF t
  <2>4. t = <<t[1], t[2]>>
    BY <2>2
  <2>5. QED
    BY <2>3, <2>4 DEF t
<1>3. CRLFPlaces(s) = {p \in 0..(Len(s) - 2) : SubSeq(s, p + 1, p + 2) = <<CR, LF>>}
  BY <1>2, Zenon DEF CRLFPlaces
<1>4. FindCRLF(s, Len(s) + 1) = NoPlace /\ FindEOF(s, Len(s) + 1) = NoPlace
  <2>1. Len(s) + 1 \notin 0..Len(s)
    BY <1>1
  <2>2. QED
    BY <2>1, Zenon DEF FindCRLF, FindEOF
<1>5. QED
  BY <1>3, <1>4, CRLFEndsFound, LFEndsFound, Zenon DEF LinesAreFound, LFPlaces

-----------------------------------------------------------------------------
(* The conversions.                                                        *)

\* A packet of an instance is a sequence of bytes, a number a natural number.
LEMMA Arguments ==
  ASSUME PackingInit
  PROVE  packet \in Bytes /\ number \in Nat
<1>1. PICK n \in 0..MaxOctets : packet \in [1..n -> Octets]
  BY Zenon DEF PackingInit
<1>2. n \in Nat /\ Octets \subseteq 0..255 /\ Numbers \subseteq Nat
  BY PackingAssumption DEF PackingAssumption
<1>3. packet \in [1..n -> 0..255]
  BY <1>1, <1>2
<1>4. packet \in Seq(0..255)
  BY <1>2, <1>3
<1>5. QED
  BY <1>2, <1>4 DEF Bytes, PackingInit

\* For packets of any bytes and any length and numbers of any size: a packet whose sum does
\* not wrap sums to zero with its checksum, a number is decoded from its seven-bit groups, and
\* a reader finds the end of every line (ProtocoIStream.cpp:9, 27; Buffer.h:87, 101).
THEOREM ConversionsCorrect == PackingSpec => []ConversionsAgree
<1> DEFINE Inv == packet \in Bytes /\ number \in Nat
<1>1. PackingInit => Inv
  BY Arguments
<1>2. Inv /\ [FALSE]_packingVars => Inv'
  BY DEF packingVars
<1>3. ASSUME Inv PROVE ConversionsAgree
  <2>1. ChecksumVerifies
    BY <1>3, ChecksumOfFitting DEF ChecksumVerifies
  <2>2. SevenBitsDecode
    BY <1>3, EncodeDecodes
  <2>3. LinesAreFound(packet)
    BY <1>3, BytesLinesFound
  <2>4. QED
    BY <2>1, <2>2, <2>3 DEF ConversionsAgree
<1>4. QED
  BY <1>1, <1>2, <1>3, PTL DEF PackingSpec
==============================================================================
