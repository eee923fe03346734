---------------------------- MODULE IgnoreProofs ----------------------------
(***************************************************************************)
(* The mapping between the two name spaces loses nothing; and the ignore   *)
(* lists keep what they are told.                                          *)
(***************************************************************************)
EXTENDS Ignore, WellFoundedInduction, TLAPS

-----------------------------------------------------------------------------
(* Names and paths                                                         *)

(* decode_source_rel_path undoes filepath_in_source_dir on every component *)
LEMMA DecodeEncode ==
  ASSUME NEW n \in Names
  PROVE  Encode(n) \in Names /\ Decode(Encode(n), TRUE) = n
<1> DEFINE m == n.marks
<1>1. m \in Seq(Marks) /\ n = [marks |-> m, stem |-> n.stem]
  BY DEF Names
<1>2. CASE Marked(n, ".")
  <2>1. m # <<>> /\ Head(m) = "." /\ Tail(m) \in Seq(Marks)
    BY <1>1, <1>2 DEF Marked
  <2>2. m = <<".">> \o Tail(m)
    BY <1>1, <2>1
  <2>3. <<"dot_">> \o Tail(m) \in Seq(Marks)
    BY <2>1 DEF Marks
  <2>4. Encode(n) = [marks |-> <<"dot_">> \o Tail(m), stem |-> n.stem]
    BY <1>1, <1>2 DEF Encode, Under, Without
  <2>5. /\ <<"dot_">> \o Tail(m) # <<>>
        /\ Head(<<"dot_">> \o Tail(m)) = "dot_"
        /\ Tail(<<"dot_">> \o Tail(m)) = Tail(m)
    BY <2>1
  <2>6. ~Marked(Encode(n), "~") /\ Marked(Encode(n), "dot_")
    BY <2>4, <2>5 DEF Marked
  <2>7. Without(Encode(n)) = [marks |-> Tail(m), stem |-> n.stem]
    <3>1. Encode(n).marks = <<"dot_">> \o Tail(m) /\ Encode(n).stem = n.stem
      BY <2>4
    <3>2. Tail(Encode(n).marks) = Tail(m)
      BY <3>1, <2>5
    <3> QED
      BY <3>1, <3>2 DEF Without
  <2>8. Under(".", Without(Encode(n))) = [marks |-> <<".">> \o Tail(m), stem |-> n.stem]
    BY <2>7 DEF Under
  <2>9. Decode(Encode(n), TRUE) = n
    BY <1>1, <2>2, <2>6, <2>8 DEF Decode
  <2>10. Encode(n) \in Names
    BY <2>3, <2>4 DEF Names
  <2> QED
    BY <2>9, <2>10
<1>3. CASE ~Marked(n, ".") /\ (Marked(n, "dot_") \/ Marked(n, "~"))
  <2>1. Encode(n) = [marks |-> <<"~">> \o m, stem |-> n.stem]
    BY <1>1, <1>3 DEF Encode, Under
  <2>2. /\ <<"~">> \o m \in Seq(Marks) /\ <<"~">> \o m # <<>>
        /\ Head(<<"~">> \o m) = "~" /\ Tail(<<"~">> \o m) = m
    BY <1>1 DEF Marks
  <2> QED
    BY <1>1, <2>1, <2>2 DEF Decode, Marked, Without, Names
<1>4. CASE ~Marked(n, ".") /\ ~Marked(n, "dot_") /\ ~Marked(n, "~")
  BY <1>4 DEF Encode, Decode
<1> QED
  BY <1>2, <1>3, <1>4

(* No two targets share a source path, and every target is found again     *)
(* from its source ("The mapping must be injective", filepath_in_source_   *)
(* dir) - as far as the dots go; the postfixes are not part of this model. *)
THEOREM MappingIsInjective ==
  ASSUME NEW p \in Seq(Names), NEW q \in Seq(Names)
  PROVE  /\ TargetOf(SourceOf(p)) = p
         /\ SourceOf(p) = SourceOf(q) => p = q
<1>1. ASSUME NEW r \in Seq(Names)
      PROVE  TargetOf(SourceOf(r)) = r
  <2>1. DOMAIN SourceOf(r) = DOMAIN r
    BY DEF SourceOf
  <2>2. \A i \in DOMAIN r : r[i] \in Names /\ SourceOf(r)[i] = Encode(r[i])
    BY DEF SourceOf
  <2>3. TargetOf(SourceOf(r)) = [i \in DOMAIN r |-> r[i]]
    BY <2>1, <2>2, DecodeEncode DEF TargetOf
  <2> QED
    BY <2>3
<1> QED
  BY <1>1

-----------------------------------------------------------------------------
(* Induction over a range of numbers: the least counterexample             *)

LEMMA Least ==
  ASSUME NEW T, T \subseteq Nat, T # {}
  PROVE  \E x \in T : \A y \in T : x <= y
<1> DEFINE Less == {p \in Nat \X Nat : p[1] < p[2]}
<1>1. IsWellFoundedOn(Less, Nat)
  BY NatLessThanWellFounded DEF OpToRel
<1>2. \E x \in T : \A y \in T : ~ (<<y, x>> \in Less)
  <2> HIDE DEF Less
  <2> QED
    BY <1>1, WFMin, Zenon
<1>3. PICK x \in T : \A y \in T : ~ (<<y, x>> \in Less)
  BY <1>2
<1>4. ASSUME NEW y \in T
      PROVE  x <= y
  <2>1. x \in Nat /\ y \in Nat /\ <<y, x>> \notin Less
    BY <1>3
  <2>2. ~(y < x)
    BY <2>1
  <2> QED
    BY <2>1, <2>2
<1> QED
  BY <1>4

LEMMA AppendRange ==
  ASSUME NEW S, NEW s \in Seq(S), NEW e \in S
  PROVE  Range(Append(s, e)) = Range(s) \cup {e}
<1>1. DOMAIN Append(s, e) = 1..(Len(s) + 1) /\ DOMAIN s = 1..Len(s)
  OBVIOUS
<1>2. Append(s, e)[Len(s) + 1] = e /\ \A i \in 1..Len(s) : Append(s, e)[i] = s[i]
  OBVIOUS
<1> QED
  BY <1>1, <1>2 DEF Range

(* The lines of a list that are kept are those of the set, no others *)
LEMMA FilteredFacts ==
  ASSUME NEW S, NEW lines \in Seq(S), NEW stays
  PROVE  /\ Filtered(lines, stays) \in Seq(S)
         /\ Range(Filtered(lines, stays)) = Range(lines) \cap stays
<1> DEFINE Step(g, n) == IF n = 0 THEN <<>>
                         ELSE IF lines[n] \in stays THEN Append(g[n - 1], lines[n])
                         ELSE g[n - 1]
           Is(g, m) == g = [n \in 0..m |-> Step(g, n)]
           kept == CHOOSE g : Is(g, Len(lines))
           Right(n) == /\ kept[n] \in Seq(S)
                       /\ Range(kept[n]) = {lines[i] : i \in 1..n} \cap stays
<1> HIDE DEF Step
<1>1. ASSUME NEW m \in 0..Len(lines)
      PROVE  \E g : Is(g, m)
  <2> DEFINE Bad == {b \in 0..Len(lines) : ~ \E g : Is(g, b)}
  <2>1. SUFFICES ASSUME NEW b \in Bad, \A c \in Bad : b <= c
                 PROVE  FALSE
    <3>1. Bad \subseteq Nat
      OBVIOUS
    <3>2. Bad = {} => \E g : Is(g, m)
      OBVIOUS
    <3> HIDE DEF Bad
    <3> QED
      BY <3>1, <3>2, Least
  <2>2. CASE b = 0
    <3>1. Is([n \in 0..0 |-> <<>>], 0)
      BY DEF Step
    <3> QED
      BY <2>2, <3>1
  <2>3. CASE b # 0
    <3>1. b - 1 \in 0..Len(lines) /\ b - 1 \notin Bad
      BY <2>1, <2>3
    <3>2. PICK g : Is(g, b - 1)
      BY <3>1
    <3> DEFINE h == [n \in 0..b |-> IF n = b THEN Step(g, n) ELSE g[n]]
    <3>3. \A n \in 0..b : Step(h, n) = Step(g, n)
      BY DEF Step
    <3>4. \A n \in 0..(b - 1) : g[n] = Step(g, n)
      BY <3>2
    <3>5. Is(h, b)
      BY <3>3, <3>4
    <3> HIDE DEF h
    <3> QED
      BY <3>5
  <2> QED
    BY <2>2, <2>3
<1>2. Is(kept, Len(lines))
  <2> HIDE DEF Is
  <2> QED
    BY <1>1
<1>3. \A n \in 0..Len(lines) : kept[n] = Step(kept, n)
  <2> HIDE DEF kept
  <2> QED
    BY <1>2
<1>4. Filtered(lines, stays) = kept[Len(lines)]
  BY DEF Filtered, Step
<1> HIDE DEF kept
<1>5. ASSUME NEW m \in 0..Len(lines)
      PROVE  Right(m)
  <2> DEFINE Bad == {b \in 0..Len(lines) : ~Right(b)}
  <2>1. SUFFICES ASSUME NEW b \in Bad, \A c \in Bad : b <= c
                 PROVE  FALSE
    <3>1. Bad \subseteq Nat
      OBVIOUS
    <3>2. Bad = {} => Right(m)
      <4> HIDE DEF Right
      <4> QED
        OBVIOUS
    <3> HIDE DEF Bad
    <3> QED
      BY <3>1, <3>2, Least
  <2>2. CASE b = 0
    <3>1. kept[b] = <<>>
      BY <1>3, <2>2 DEF Step
    <3>2. Range(<<>>) = {} /\ {lines[i] : i \in 1..b} = {}
      BY <2>2 DEF Range
    <3>3. Range(kept[b]) = {lines[i] : i \in 1..b} \cap stays
      BY <3>1, <3>2
    <3>4. kept[b] \in Seq(S)
      BY <3>1
    <3> QED
      BY <3>3, <3>4
  <2>3. CASE b # 0
    <3>1. b - 1 \in 0..Len(lines) /\ Right(b - 1)
      <4> HIDE DEF Right
      <4> QED
        BY <2>1, <2>3
    <3>2. lines[b] \in S /\ {lines[i] : i \in 1..b} = {lines[i] : i \in 1..(b - 1)} \cup {lines[b]}
      BY <2>3
    <3>3. CASE lines[b] \in stays
      <4>1. kept[b] = Append(kept[b - 1], lines[b])
        BY <1>3, <2>3, <3>3 DEF Step
      <4>2. Range(Append(kept[b - 1], lines[b])) = Range(kept[b - 1]) \cup {lines[b]}
        <5>1. kept[b - 1] \in Seq(S) /\ lines[b] \in S
          BY <3>1, <3>2
        <5> QED
          BY <5>1, AppendRange
      <4>3. kept[b] \in Seq(S)
        BY <3>1, <3>2, <4>1
      <4>4. Range(kept[b]) = ({lines[i] : i \in 1..(b - 1)} \cap stays) \cup {lines[b]}
        BY <3>1, <4>1, <4>2
      <4>5. Range(kept[b]) = {lines[i] : i \in 1..b} \cap stays
        BY <3>2, <3>3, <4>4
      <4> QED
        BY <4>3, <4>5
    <3>4. CASE lines[b] \notin stays
      <4>1. kept[b] = kept[b - 1]
        BY <1>3, <2>3, <3>4 DEF Step
      <4> QED
        BY <3>1, <3>2, <3>4, <4>1
    <3> QED
      BY <3>3, <3>4
  <2> QED
    BY <2>2, <2>3
<1>6. Range(lines) = {lines[i] : i \in 1..Len(lines)}
  BY DEF Range
<1>7. Len(lines) \in 0..Len(lines)
  OBVIOUS
<1> QED
  <2> HIDE DEF Step
  <2> QED
    BY <1>4, <1>5, <1>6, <1>7

-----------------------------------------------------------------------------
(* Paths and patterns                                                      *)

LEMMA DecodedIsName ==
  ASSUME NEW n \in Names
  PROVE  Encode(n) \in Names /\ Decode(Encode(n), FALSE) \in Names
<1>1. Encode(n) \in Names
  BY DecodeEncode
<1>2. Decode(Encode(n), FALSE) \in {Encode(n), Without(Encode(n))}
  BY DEF Decode
<1>3. Encode(n).marks # <<>> => Without(Encode(n)) \in Names
  BY <1>1 DEF Without, Names
<1>4. Decode(Encode(n), FALSE) = Without(Encode(n)) => Encode(n).marks # <<>> \/ Decode(Encode(n), FALSE) = Encode(n)
  BY DEF Decode, Marked
<1> QED
  BY <1>1, <1>2, <1>3, <1>4

(* A path has a name at least, and all its names are in use *)
LEMMA PathFacts ==
  ASSUME NEW t \in AllPaths
  PROVE  /\ t \in Seq(Names) /\ DOMAIN t = 1..Len(t) /\ Len(t) \in Nat \ {0}
         /\ \A i \in 1..Len(t) :
              /\ t[i] \in Names /\ t[i] \in UsedNames
              /\ Encode(t[i]) \in UsedNames /\ Decode(Encode(t[i]), FALSE) \in UsedNames
<1>0. PICK f \in Files : t \in PrefixesOf(f)
  BY DEF AllPaths
<1>1. PICK n \in 1..Len(f) : t = SubSeq(f, 1, n)
  BY <1>0 DEF PrefixesOf
<1>2. f \in Seq(Names)
  BY IgnoreAssumption DEF IsPath
<1>3. t \in Seq(Names) /\ Len(t) = n /\ \A i \in 1..n : t[i] = f[i]
  BY <1>1, <1>2
<1>4. ASSUME NEW i \in 1..n
      PROVE  {f[i], Encode(f[i]), Decode(Encode(f[i]), FALSE)} \subseteq UsedNames
  <2>1. f[i] \in Range(f)
    BY <1>2 DEF Range
  <2>2. f[i] \in UNION {Range(g) : g \in Files}
    BY <2>1
  <2> QED
    BY <2>2 DEF UsedNames
<1>5. ASSUME NEW i \in 1..Len(t)
      PROVE  /\ t[i] \in Names /\ t[i] \in UsedNames
             /\ Encode(t[i]) \in UsedNames /\ Decode(Encode(t[i]), FALSE) \in UsedNames
  <2>1. i \in 1..n /\ t[i] = f[i] /\ t[i] \in Names
    BY <1>3
  <2> QED
    BY <2>1, <1>4
<1>6. DOMAIN t = 1..Len(t) /\ Len(t) \in Nat \ {0}
  BY <1>1, <1>2, <1>3
<1> QED
  BY <1>3, <1>5, <1>6

LEMMA FilesArePaths == Files \subseteq AllPaths
<1>1. ASSUME NEW f \in Files
      PROVE  f \in AllPaths
  <2>1. f \in Seq(Names) /\ f # <<>>
    BY IgnoreAssumption DEF IsPath
  <2>2. f = SubSeq(f, 1, Len(f)) /\ Len(f) \in 1..Len(f)
    BY <2>1
  <2>3. f \in PrefixesOf(f)
    BY <2>2 DEF PrefixesOf
  <2> QED
    BY <2>3 DEF AllPaths
<1> QED
  BY <1>1

LEMMA HoldsItself ==
  ASSUME NEW n \in Names
  PROVE  Holds(n, n)
<1>1. n.marks \in Seq(Marks)
  BY DEF Names
<1>2. Len(Reverse(n.marks)) = Len(n.marks) /\ Len(n.marks) \in Nat
  BY <1>1 DEF Reverse
<1> QED
  BY <1>2 DEF Holds, IsSuffix, IsPrefix

LEMMA WordFacts ==
  ASSUME NEW n \in Names, n \in UsedNames
  PROVE  /\ Word(n) \in [whole : SUBSET UsedNames, within : SUBSET UsedNames]
         /\ Word(n).whole = {n} /\ Word(n).whole \subseteq Word(n).within
BY HoldsItself DEF Word

(* What a pattern needs for the proofs *)
LEMMA PatternFacts ==
  ASSUME NEW p \in Patterns
  PROVE  /\ p.parts \in Seq([whole : SUBSET UsedNames, within : SUBSET UsedNames]) \ {<<>>}
         /\ \A k \in DOMAIN p.parts : p.parts[k].whole \subseteq p.parts[k].within
<1> DEFINE Parts == [whole : SUBSET UsedNames, within : SUBSET UsedNames]
<1>1. ASSUME NEW q \in Seq(Names), q # <<>>, \A i \in DOMAIN q : q[i] \in UsedNames
      PROVE  /\ Words(q) \in Seq(Parts) \ {<<>>}
             /\ \A k \in DOMAIN Words(q) : Words(q)[k].whole \subseteq Words(q)[k].within
  <2>1. \A i \in DOMAIN q : Word(q[i]) \in Parts /\ Word(q[i]).whole \subseteq Word(q[i]).within
    BY <1>1, WordFacts
  <2>2. DOMAIN Words(q) = 1..Len(q) /\ \A i \in 1..Len(q) : Words(q)[i] = Word(q[i])
    BY <1>1 DEF Words
  <2>3. Words(q) = [i \in 1..Len(q) |-> Word(q[i])]
    BY <1>1 DEF Words
  <2> HIDE DEF Parts
  <2>4. Words(q) \in Seq(Parts) /\ Len(Words(q)) = Len(q)
    BY <1>1, <2>1, <2>3
  <2> QED
    BY <1>1, <2>1, <2>2, <2>4
<1>2. ASSUME NEW t \in AllPaths, p \in {Literal(t), Literal(SourceOf(t)), SourceEntry(t)}
      PROVE  \E q \in {t, SourceOf(t), Dotless(SourceOf(t))} : p.parts = Words(q)
  BY <1>2 DEF Literal, SourceEntry, Canonical
<1>3. ASSUME NEW t \in AllPaths, NEW q \in {t, SourceOf(t), Dotless(SourceOf(t))}
      PROVE  q \in Seq(Names) /\ q # <<>> /\ \A i \in DOMAIN q : q[i] \in UsedNames
  <2>0. /\ t \in Seq(Names) /\ DOMAIN t = 1..Len(t) /\ Len(t) \in Nat \ {0}
        /\ \A i \in 1..Len(t) :
             /\ t[i] \in Names /\ t[i] \in UsedNames
             /\ Encode(t[i]) \in UsedNames /\ Decode(Encode(t[i]), FALSE) \in UsedNames
    BY PathFacts
  <2>1. \A i \in 1..Len(t) : Encode(t[i]) \in Names /\ Decode(Encode(t[i]), FALSE) \in Names
    BY <2>0, DecodedIsName
  <2>2. SourceOf(t) = [i \in 1..Len(t) |-> Encode(t[i])]
    BY <2>0 DEF SourceOf
  <2>3. Dotless(SourceOf(t)) = [i \in 1..Len(t) |-> Decode(Encode(t[i]), FALSE)]
    BY <2>2 DEF Dotless
  <2>4. /\ SourceOf(t) \in Seq(Names) /\ Len(SourceOf(t)) = Len(t)
        /\ Dotless(SourceOf(t)) \in Seq(Names) /\ Len(Dotless(SourceOf(t))) = Len(t)
    <3>1. ASSUME NEW n \in Nat, NEW e \in [1..n -> Names]
          PROVE  e \in Seq(Names) /\ Len(e) = n
      OBVIOUS
    <3>2. SourceOf(t) \in [1..Len(t) -> Names] /\ Dotless(SourceOf(t)) \in [1..Len(t) -> Names]
      BY <2>1, <2>2, <2>3
    <3> QED
      BY <2>0, <3>1, <3>2
  <2>5. \A i \in 1..Len(t) : SourceOf(t)[i] \in UsedNames /\ Dotless(SourceOf(t))[i] \in UsedNames
    BY <2>0, <2>2, <2>3
  <2>6. ASSUME NEW r \in Seq(Names), Len(r) = Len(t), \A i \in 1..Len(t) : r[i] \in UsedNames
        PROVE  r # <<>> /\ \A i \in DOMAIN r : r[i] \in UsedNames
    BY <2>0, <2>6
  <2>7. CASE q = t
    BY <2>0, <2>6, <2>7
  <2>8. CASE q = SourceOf(t)
    BY <2>4, <2>5, <2>6, <2>8
  <2>9. CASE q = Dotless(SourceOf(t))
    BY <2>4, <2>5, <2>6, <2>9
  <2> QED
    BY <2>7, <2>8, <2>9
<1>4. CASE p \in UserPatterns
  BY <1>4, IgnoreAssumption
<1>5. CASE \E t \in AllPaths : p \in {Literal(t), Literal(SourceOf(t)), SourceEntry(t)}
  BY <1>1, <1>2, <1>3, <1>5
<1> QED
  BY <1>4, <1>5 DEF Patterns

LEMMA BeginsFacts ==
  ASSUME NEW t \in Seq(Names), NEW f \in Seq(Names), Begins(t, f)
  PROVE  /\ Len(t) <= Len(f) /\ Len(t) \in Nat /\ Len(f) \in Nat
         /\ \A i \in 1..Len(t) : f[i] = t[i]
BY DEF Begins

(* The literal entry of a path catches what is below it, and nothing else  *)
LEMMA LiteralReaches ==
  ASSUME NEW t \in AllPaths, NEW f \in Seq(Names), Begins(t, f)
  PROVE  MatchesComponents(Literal(t), f) /\ Found(Literal(t), f)
<1> DEFINE p == Literal(t)
<1>0. /\ t \in Seq(Names) /\ DOMAIN t = 1..Len(t) /\ Len(t) \in Nat
      /\ \A k \in 1..Len(t) : t[k] \in Names /\ t[k] \in UsedNames /\ f[k] = t[k]
  BY PathFacts, BeginsFacts
<1>1. /\ Len(p.parts) = Len(t) /\ DOMAIN p.parts = 1..Len(t) /\ ~p.start /\ ~p.end /\ ~p.deep
      /\ \A k \in 1..Len(t) : p.parts[k] = Word(t[k])
  BY <1>0 DEF Literal, Words
<1>2. \A k \in 1..Len(t) : f[k] \in p.parts[k].whole /\ f[k] \in p.parts[k].within
  BY <1>0, <1>1, WordFacts
<1>3. MatchesComponents(p, f)
  BY <1>0, <1>1, <1>2, BeginsFacts DEF MatchesComponents, Component
<1>4. 0 \in 0..(Len(f) - Len(p.parts)) /\ \A k \in 1..Len(t) : 0 + k = k
  BY <1>0, <1>1, BeginsFacts
<1> HIDE DEF p
<1>5. Found(p, f)
  BY <1>1, <1>2, <1>4 DEF Found
<1> QED
  BY <1>3, <1>5 DEF p

LEMMA LiteralIsExact ==
  ASSUME NEW t \in AllPaths, NEW f \in Seq(Names), MatchesComponents(Literal(t), f)
  PROVE  Begins(t, f)
<1>0. t \in Seq(Names) /\ DOMAIN t = 1..Len(t) /\ Len(t) \in Nat
  BY PathFacts
<1>1. Len(Literal(t).parts) = Len(t) /\ DOMAIN Literal(t).parts = 1..Len(t) /\ ~Literal(t).deep
      /\ ~Literal(t).end
  BY <1>0 DEF Literal, Words
<1>2. Len(t) <= Len(f) /\ \A k \in 1..Len(t) : f[k] \in Literal(t).parts[k].whole
  BY <1>1 DEF MatchesComponents, Component
<1>3. \A k \in 1..Len(t) : Literal(t).parts[k].whole = {t[k]}
  BY <1>0 DEF Literal, Words, Word
<1> QED
  BY <1>0, <1>2, <1>3 DEF Begins

(* The entry of a source path catches that path *)
LEMMA CanonicalReaches ==
  ASSUME NEW q, q = [i \in 1..Len(q) |-> q[i]], Len(q) \in Nat \ {0},
         Canonical(q) \in Patterns
  PROVE  MatchesComponents(Canonical(q), q) /\ Found(Canonical(q), q)
<1> DEFINE p == Canonical(q)
<1>1. p.parts = [i \in 1..Len(q) |-> Word(q[i])] /\ p.start /\ p.end /\ p.deep
  BY DEF Canonical, Words
<1>2. Len(p.parts) = Len(q) /\ DOMAIN p.parts = 1..Len(q)
  BY <1>1
<1>3. \A k \in 1..Len(q) : q[k] \in p.parts[k].whole
  BY <1>1 DEF Word
<1>8. \A k \in 1..Len(q) : q[k] \in Component(p, k)
  BY <1>2, <1>3, PatternFacts DEF Component
<1>4. 1 \in 1..Len(q) /\ DOMAIN q = 1..Len(q)
  OBVIOUS
<1>5. 0 \in 0..(Len(q) - Len(p.parts)) /\ 0 + Len(p.parts) = Len(q) /\ \A k \in 1..Len(q) : 0 + k = k
  BY <1>2
<1> HIDE DEF p
<1>6. MatchesComponents(p, q)
  BY <1>1, <1>2, <1>3, <1>4, <1>8 DEF MatchesComponents, Component
<1>7. Found(p, q)
  BY <1>1, <1>2, <1>3, <1>5 DEF Found
<1> QED
  BY <1>6, <1>7 DEF p

(* A pattern anchored at neither end that matches a path reaches below it  *)
LEMMA UnanchoredReaches ==
  ASSUME NEW p \in Patterns, ~p.start, ~p.end, NEW t \in AllPaths, NEW f \in Seq(Names),
         Begins(t, f), MatchesComponents(p, t)
  PROVE  MatchesComponents(p, f) /\ Found(p, f)
<1>1. /\ t \in Seq(Names) /\ Len(t) <= Len(f) /\ Len(t) \in Nat /\ Len(f) \in Nat
      /\ DOMAIN t = 1..Len(t) /\ DOMAIN f = 1..Len(f)
      /\ \A i \in 1..Len(t) : f[i] = t[i]
  <2>1. t \in Seq(Names) /\ DOMAIN t = 1..Len(t)
    BY PathFacts
  <2>2. DOMAIN f = 1..Len(f)
    OBVIOUS
  <2> QED
    BY <2>1, <2>2, BeginsFacts
<1>2. /\ DOMAIN p.parts = 1..Len(p.parts) /\ Len(p.parts) \in Nat
      /\ \A k \in 1..Len(p.parts) : p.parts[k].whole \subseteq p.parts[k].within
  BY PatternFacts
<1>3. CASE Len(p.parts) = 1 /\ p.deep
  <2>1. PICK i \in 1..Len(t) : t[i] \in p.parts[1].whole
    BY <1>1, <1>3 DEF MatchesComponents
  <2>2. f[i] \in p.parts[1].whole /\ f[i] \in p.parts[1].within /\ i \in 1..Len(f)
    BY <1>1, <1>2, <1>3, <2>1
  <2>3. MatchesComponents(p, f)
    BY <1>1, <1>3, <2>2 DEF MatchesComponents
  <2>4. i - 1 \in 0..(Len(f) - Len(p.parts)) /\ (i - 1) + 1 = i /\ DOMAIN p.parts = {1}
    BY <1>1, <1>2, <1>3, <2>2
  <2>5. Found(p, f)
    BY <2>2, <2>4 DEF Found
  <2> QED
    BY <2>3, <2>5
<1>4. CASE ~(Len(p.parts) = 1 /\ p.deep)
  <2>1. Len(p.parts) <= Len(t) /\ \A k \in 1..Len(p.parts) : t[k] \in p.parts[k].whole
    BY <1>2, <1>4 DEF MatchesComponents, Component
  <2>2. \A k \in 1..Len(p.parts) : f[k] \in p.parts[k].whole /\ f[k] \in p.parts[k].within
    BY <1>1, <1>2, <2>1
  <2>3. MatchesComponents(p, f)
    BY <1>1, <1>2, <1>4, <2>1, <2>2 DEF MatchesComponents, Component
  <2>4. 0 \in 0..(Len(f) - Len(p.parts)) /\ \A k \in 1..Len(p.parts) : 0 + k = k
    BY <1>1, <1>2, <2>1
  <2>5. Found(p, f)
    BY <1>2, <2>2, <2>4 DEF Found
  <2> QED
    BY <2>3, <2>5
<1> QED
  BY <1>3, <1>4

-----------------------------------------------------------------------------
(* The lists                                                               *)

Lines == [pat : Patterns \cup {NoPattern}, noted : BOOLEAN]

LEMMA ListFacts ==
  ASSUME NEW list, ListTypeOK(list)
  PROVE  /\ list = [lines |-> list.lines, open |-> list.open]
         /\ list.lines \in Seq(Lines) /\ list.open \in BOOLEAN
         /\ DOMAIN list.lines = 1..Len(list.lines) /\ Len(list.lines) \in Nat
         /\ Entries(list) \subseteq 1..Len(list.lines)
         /\ \A i \in Entries(list) : list.lines[i].pat \in Patterns
<1>1. list \in [lines : Seq(Lines), open : BOOLEAN]
  BY DEF ListTypeOK, Lines
<1>2. list.lines \in Seq(Lines) /\ list.open \in BOOLEAN /\ list = [lines |-> list.lines, open |-> list.open]
  BY <1>1
<1>3. DOMAIN list.lines = 1..Len(list.lines) /\ Len(list.lines) \in Nat /\ \A i \in 1..Len(list.lines) : list.lines[i] \in Lines
  BY <1>2
<1> QED
  BY <1>2, <1>3 DEF Entries, Lines

LEMMA LineFacts ==
  ASSUME NEW p \in Patterns
  PROVE  Line(p) \in Lines /\ Line(p).pat = p /\ ~Line(p).noted /\ p # NoPattern
BY IgnoreAssumption DEF Line, Lines

(* The answer is an entry that matches component by component, and there   *)
(* is one when some entry does and some entry is found in the whole path   *)
LEMMA MatchingFacts ==
  ASSUME NEW list, ListTypeOK(list), NEW path
  PROVE  /\ Ignored(list, path) =>
              \E i \in Entries(list) : /\ MatchesComponents(list.lines[i].pat, path)
                                       /\ Matching(list, path) = list.lines[i].pat
         /\ \A i, j \in Entries(list) :
              MatchesComponents(list.lines[i].pat, path) /\ Found(list.lines[j].pat, path)
                => Ignored(list, path)
<1> DEFINE hits == {i \in Entries(list) : MatchesComponents(list.lines[i].pat, path)}
<1>1. hits \subseteq Nat
  BY ListFacts
<1>2. hits # {} => Min(hits) \in hits
  <2> HIDE DEF hits
  <2>1. ASSUME hits # {}
        PROVE  \E x \in hits : \A y \in hits : x <= y
    BY <1>1, <2>1, Least
  <2> QED
    BY <2>1 DEF Min
<1>3. CASE hits = {} \/ \A i \in Entries(list) : ~Found(list.lines[i].pat, path)
  BY <1>3 DEF Ignored, Matching
<1>4. CASE hits # {} /\ \E i \in Entries(list) : Found(list.lines[i].pat, path)
  <2>1. Matching(list, path) = list.lines[Min(hits)].pat
    BY <1>4 DEF Matching
  <2>2. Min(hits) \in Entries(list) /\ MatchesComponents(list.lines[Min(hits)].pat, path)
    BY <1>2, <1>4
  <2>3. list.lines[Min(hits)].pat # NoPattern
    BY <2>2 DEF Entries
  <2> QED
    BY <2>1, <2>2, <2>3 DEF Ignored
<1> QED
  BY <1>3, <1>4

LEMMA AppendedFacts ==
  ASSUME NEW list, ListTypeOK(list), NEW ps \in Seq(Patterns)
  PROVE  /\ ListTypeOK(Appended(list, ps))
         /\ Range(list.lines) \subseteq Range(Appended(list, ps).lines)
         /\ \A i \in Entries(Appended(list, ps)) :
              \/ i \in Entries(list) /\ Appended(list, ps).lines[i] = list.lines[i]
              \/ \E k \in DOMAIN ps : Appended(list, ps).lines[i] = Line(ps[k])
         /\ \A k \in DOMAIN ps : \E i \in Entries(Appended(list, ps)) : Appended(list, ps).lines[i].pat = ps[k]
         /\ ps = <<>> => Appended(list, ps) = list
<1> DEFINE new == [i \in DOMAIN ps |-> Line(ps[i])]
           n == Len(list.lines)
           after == Appended(list, ps)
<1>1. new \in Seq(Lines) /\ Len(new) = Len(ps) /\ \A k \in 1..Len(ps) : new[k] = Line(ps[k])
  <2>1. \A i \in 1..Len(ps) : Line(ps[i]) \in Lines
    BY LineFacts
  <2>2. new = [i \in 1..Len(ps) |-> Line(ps[i])]
    OBVIOUS
  <2> QED
    BY <2>1, <2>2
<1>2. after.lines = list.lines \o new /\ after.open = (list.open /\ ps = <<>>) /\ after \in [lines : {after.lines}, open : {after.open}]
  BY DEF Appended
<1> HIDE DEF new
<1>3. /\ after.lines \in Seq(Lines) /\ Len(after.lines) = n + Len(ps) /\ n \in Nat
      /\ \A i \in 1..n : after.lines[i] = list.lines[i]
      /\ \A k \in 1..Len(ps) : after.lines[n + k] = Line(ps[k])
  <2>1. list.lines \in Seq(Lines)
    BY ListFacts
  <2>2. ASSUME NEW a \in Seq(Lines), NEW b \in Seq(Lines)
        PROVE  /\ a \o b \in Seq(Lines) /\ Len(a \o b) = Len(a) + Len(b) /\ Len(a) \in Nat
               /\ \A i \in 1..Len(a) : (a \o b)[i] = a[i]
               /\ \A k \in 1..Len(b) : (a \o b)[Len(a) + k] = b[k]
    OBVIOUS
  <2>3. /\ list.lines \o new \in Seq(Lines) /\ Len(list.lines \o new) = n + Len(new) /\ n \in Nat
        /\ \A i \in 1..n : (list.lines \o new)[i] = list.lines[i]
        /\ \A k \in 1..Len(new) : (list.lines \o new)[n + k] = new[k]
    BY <1>1, <2>1, <2>2
  <2> QED
    BY <1>1, <1>2, <2>3
<1>4. ps = <<>> => after.lines = list.lines
  BY <1>1, <1>2, ListFacts
<1>5. ListTypeOK(after)
  <2>1. after.open \in BOOLEAN /\ (after.open => list.open /\ ps = <<>>)
    BY <1>2, ListFacts
  <2>2. after \in [lines : Seq(Lines), open : BOOLEAN]
    BY <1>2, <1>3, <2>1
  <2> QED
    BY <1>4, <2>1, <2>2 DEF ListTypeOK, Lines
<1> HIDE DEF after
<1>6. DOMAIN after.lines = 1..(n + Len(ps)) /\ DOMAIN list.lines = 1..n /\ DOMAIN ps = 1..Len(ps) /\ Len(ps) \in Nat
  BY <1>3, ListFacts
<1>7. Range(list.lines) \subseteq Range(after.lines)
  BY <1>3, <1>6 DEF Range
<1>8. ASSUME NEW i \in Entries(after)
      PROVE  \/ i \in Entries(list) /\ after.lines[i] = list.lines[i]
             \/ \E k \in DOMAIN ps : after.lines[i] = Line(ps[k])
  <2>1. i \in 1..(n + Len(ps)) /\ after.lines[i].pat # NoPattern
    BY <1>6 DEF Entries
  <2>2. CASE i \in 1..n
    BY <1>3, <1>6, <2>1, <2>2 DEF Entries
  <2>3. CASE i \notin 1..n
    <3>1. i - n \in 1..Len(ps) /\ i = n + (i - n)
      BY <1>3, <1>6, <2>1, <2>3
    <3> QED
      BY <1>3, <1>6, <3>1
  <2> QED
    BY <2>2, <2>3
<1>9. ASSUME NEW k \in DOMAIN ps
      PROVE  \E i \in Entries(after) : after.lines[i].pat = ps[k]
  <2>1. n + k \in 1..(n + Len(ps)) /\ after.lines[n + k] = Line(ps[k]) /\ ps[k] \in Patterns
    BY <1>3, <1>6
  <2>2. n + k \in Entries(after)
    BY <1>6, <2>1, LineFacts DEF Entries
  <2> QED
    BY <2>1, <2>2, LineFacts
<1>10. ps = <<>> => after = list
  <2>1. after = [lines |-> after.lines, open |-> after.open]
    BY <1>5, ListFacts
  <2> QED
    BY <1>2, <1>4, <2>1, ListFacts
<1> QED
  BY <1>5, <1>7, <1>8, <1>9, <1>10 DEF after

LEMMA StayingFacts ==
  ASSUME NEW list, ListTypeOK(list), NEW ps
  PROVE  /\ Staying(list, ps) \subseteq Range(list.lines)
         /\ Filtered(list.lines, Staying(list, ps)) \in Seq(Lines)
         /\ Range(Filtered(list.lines, Staying(list, ps))) = Staying(list, ps)
<1>1. Staying(list, ps) \subseteq Range(list.lines)
  BY DEF Staying
<1>2. list.lines \in Seq(Lines)
  BY ListFacts
<1>3. /\ Filtered(list.lines, Staying(list, ps)) \in Seq(Lines)
      /\ Range(Filtered(list.lines, Staying(list, ps))) = Range(list.lines) \cap Staying(list, ps)
  BY <1>2, FilteredFacts
<1> QED
  BY <1>1, <1>3

LEMMA PrunedFacts ==
  ASSUME NEW list, ListTypeOK(list), NEW ps
  PROVE  /\ ListTypeOK(Pruned(list, ps))
         /\ \A l \in Range(list.lines) \ Range(Pruned(list, ps).lines) : ~l.noted /\ l.pat \in ps
<1> DEFINE kept == Filtered(list.lines, Staying(list, ps))
<1>1. Staying(list, ps) = Range(list.lines) => Pruned(list, ps) = list
  BY DEF Pruned
<1>2. Staying(list, ps) # Range(list.lines) => Pruned(list, ps) = [lines |-> kept, open |-> kept # <<>>]
  BY DEF Pruned
<1>3. kept \in Seq(Lines) /\ Range(kept) = Staying(list, ps)
  BY StayingFacts
<1> HIDE DEF kept
<1>4. ListTypeOK([lines |-> kept, open |-> kept # <<>>])
  <2>1. (kept # <<>>) \in BOOLEAN
    OBVIOUS
  <2> QED
    BY <1>3, <2>1 DEF ListTypeOK, Lines
<1>5. Range(Pruned(list, ps).lines) = Staying(list, ps)
  BY <1>1, <1>2, <1>3
<1>6. \A l \in Range(list.lines) \ Staying(list, ps) : ~l.noted /\ l.pat \in ps
  BY DEF Staying
<1> QED
  BY <1>1, <1>2, <1>4, <1>5, <1>6

LEMMA MigratedFacts ==
  ASSUME NEW list, ListTypeOK(list), NEW old, NEW new \in Patterns
  PROVE  /\ ListTypeOK(Migrated(list, old, new))
         /\ \A l \in Range(list.lines) \ Range(Migrated(list, old, new).lines) : ~l.noted /\ l.pat = old
         /\ \E i \in Entries(Migrated(list, old, new)) : Migrated(list, old, new).lines[i].pat = new
<1> DEFINE kept == Filtered(list.lines, Staying(list, {old}))
           after == Migrated(list, old, new)
<1>1. kept \in Seq(Lines) /\ Range(kept) = Staying(list, {old})
  BY StayingFacts
<1>2. after = [lines |-> IF Line(new) \in Range(kept) THEN kept ELSE Append(kept, Line(new)), open |-> FALSE]
  BY DEF Migrated
<1> HIDE DEF kept, after
<1>3. Line(new) \in Lines
  BY LineFacts
<1>4. after.lines \in Seq(Lines) /\ Range(after.lines) = Range(kept) \cup {Line(new)}
  <2>1. CASE Line(new) \in Range(kept)
    BY <1>1, <1>2, <2>1
  <2>2. CASE Line(new) \notin Range(kept)
    <3>1. after.lines = Append(kept, Line(new))
      BY <1>2, <2>2
    <3> QED
      BY <1>1, <1>3, <3>1, AppendRange
  <2> QED
    BY <2>1, <2>2
<1>5. ListTypeOK(after)
  BY <1>2, <1>4 DEF ListTypeOK, Lines
<1>6. \A l \in Range(list.lines) \ Range(after.lines) : ~l.noted /\ l.pat = old
  BY <1>1, <1>4 DEF Staying
<1>7. PICK i \in DOMAIN after.lines : after.lines[i] = Line(new)
  BY <1>4 DEF Range
<1>8. i \in Entries(after) /\ after.lines[i].pat = new
  BY <1>7, LineFacts DEF Entries
<1> QED
  BY <1>5, <1>6, <1>8 DEF after

-----------------------------------------------------------------------------
(* The lines ignore writes                                                 *)

LEMMA TargetLinesFacts ==
  ASSUME ListTypeOK(tlist), NEW t \in AllPaths, NEW ts \in {<<>>, <<t>>}
  PROVE  /\ TargetLines(ts) \in Seq(Patterns)
         /\ \A k \in DOMAIN TargetLines(ts) : ts = <<t>> /\ TargetLines(ts)[k] = Literal(t)
         /\ ts = <<t>> => Ignored(tlist, t) \/ TargetLines(ts) = <<Literal(t)>>
         /\ TargetLines(ts) # <<>> => ~Ignored(tlist, t)
<1>1. Literal(t) \in Patterns
  BY DEF Patterns
<1>2. <<t>> # <<>> /\ <<t>>[1] = t
  OBVIOUS
<1>3. \/ TargetLines(ts) = <<>>
      \/ ts = <<t>> /\ ~Ignored(tlist, t) /\ TargetLines(ts) = <<Literal(t)>>
  <2>1. CASE ts = <<>>
    BY <2>1 DEF TargetLines
  <2>2. CASE ts = <<t>>
    BY <1>2, <2>2 DEF TargetLines
  <2> QED
    BY <2>1, <2>2
<1>4. ts = <<t>> => Ignored(tlist, t) \/ TargetLines(ts) = <<Literal(t)>>
  BY <1>2 DEF TargetLines
<1>5. <<Literal(t)>> \in Seq(Patterns) /\ DOMAIN <<Literal(t)>> = {1} /\ <<Literal(t)>>[1] = Literal(t)
  BY <1>1
<1>6. <<>> \in Seq(Patterns) /\ DOMAIN <<>> = {}
  OBVIOUS
<1> QED
  BY <1>3, <1>4, <1>5, <1>6

(* The entry of a source path ignores the source                           *)
LEMMA SourceEntryHolds ==
  ASSUME NEW list, ListTypeOK(list), NEW s \in AllPaths,
         NEW i \in Entries(list), list.lines[i].pat = SourceEntry(s)
  PROVE  MatchingSource(list, s) # NoPattern
<1> DEFINE q == Dotless(SourceOf(s))
<1>1. q = [k \in 1..Len(q) |-> q[k]] /\ Len(q) \in Nat \ {0}
  <2>1. DOMAIN s = 1..Len(s) /\ Len(s) \in Nat \ {0}
    BY PathFacts
  <2>2. q = [k \in 1..Len(s) |-> Decode(SourceOf(s)[k], FALSE)]
    BY <2>1 DEF Dotless, SourceOf
  <2>3. Len(q) = Len(s)
    BY <2>1, <2>2
  <2> QED
    BY <2>1, <2>2, <2>3
<1>2. MatchesComponents(SourceEntry(s), q) /\ Found(SourceEntry(s), q)
  <2>1. Canonical(q) \in Patterns
    BY DEF Patterns, SourceEntry
  <2> QED
    BY <1>1, <2>1, CanonicalReaches DEF SourceEntry
<1> HIDE DEF q
<1>3. Ignored(list, q)
  BY <1>2, MatchingFacts
<1> QED
  BY <1>3 DEF MatchingSource, Ignored, q

LEMMA SourceFacts ==
  ASSUME ListTypeOK(slist), NEW s \in AllPaths
  PROVE  /\ ListTypeOK(Checked(s)) /\ SourceLines(s) \in Seq(Patterns)
         /\ SourceLines(s) # <<>> => Checked(s) = slist
         /\ ListTypeOK(Appended(Checked(s), SourceLines(s)))
         /\ MatchingSource(Appended(Checked(s), SourceLines(s)), s) # NoPattern
         /\ \A l \in Range(slist.lines) \ Range(Appended(Checked(s), SourceLines(s)).lines) : ~l.noted
<1> DEFINE old == MatchingSource(slist, s)
           after == Appended(Checked(s), SourceLines(s))
<1>1. SourceEntry(s) \in Patterns
  BY DEF Patterns
<1>2. CASE old = NoPattern
  <2>1. Checked(s) = slist /\ SourceLines(s) = <<SourceEntry(s)>>
    BY <1>2 DEF Checked, SourceLines
  <2>2. <<SourceEntry(s)>> \in Seq(Patterns) /\ 1 \in DOMAIN <<SourceEntry(s)>> /\ <<SourceEntry(s)>>[1] = SourceEntry(s)
    BY <1>1
  <2> HIDE DEF old
  <2>3. /\ ListTypeOK(after) /\ Range(slist.lines) \subseteq Range(after.lines)
        /\ \E i \in Entries(after) : after.lines[i].pat = SourceEntry(s)
    <3>1. ASSUME NEW ps \in Seq(Patterns), 1 \in DOMAIN ps
          PROVE  /\ ListTypeOK(Appended(slist, ps)) /\ Range(slist.lines) \subseteq Range(Appended(slist, ps).lines)
                 /\ \E i \in Entries(Appended(slist, ps)) : Appended(slist, ps).lines[i].pat = ps[1]
      <4>1. ListTypeOK(Appended(slist, ps)) /\ Range(slist.lines) \subseteq Range(Appended(slist, ps).lines)
        BY AppendedFacts
      <4>2. \A k \in DOMAIN ps : \E i \in Entries(Appended(slist, ps)) : Appended(slist, ps).lines[i].pat = ps[k]
        BY AppendedFacts
      <4> QED
        BY <3>1, <4>1, <4>2
    <3>2. after = Appended(slist, <<SourceEntry(s)>>)
      BY <2>1
    <3> QED
      BY <2>2, <3>1, <3>2
  <2>4. MatchingSource(after, s) # NoPattern
    BY <2>3, SourceEntryHolds
  <2> QED
    BY <2>1, <2>2, <2>3, <2>4
<1>3. CASE old # NoPattern
  <2>1. SourceLines(s) = <<>> /\ <<>> \in Seq(Patterns)
    BY <1>3 DEF SourceLines
  <2>2. /\ ListTypeOK(Checked(s)) /\ MatchingSource(Checked(s), s) # NoPattern
        /\ \A l \in Range(slist.lines) \ Range(Checked(s).lines) : ~l.noted
    <3>1. CASE old = SourceEntry(s)
      BY <1>3, <3>1 DEF Checked
    <3>2. CASE old # SourceEntry(s)
      <4>1. Checked(s) = Migrated(slist, old, SourceEntry(s))
        BY <1>3, <3>2 DEF Checked
      <4> HIDE DEF old
      <4>2. /\ ListTypeOK(Checked(s))
            /\ \A l \in Range(slist.lines) \ Range(Checked(s).lines) : ~l.noted
            /\ \E i \in Entries(Checked(s)) : Checked(s).lines[i].pat = SourceEntry(s)
        BY <1>1, <4>1, MigratedFacts
      <4>3. MatchingSource(Checked(s), s) # NoPattern
        BY <4>2, SourceEntryHolds
      <4> QED
        BY <4>2, <4>3
    <3> QED
      BY <3>1, <3>2
  <2>3. after = Checked(s)
    BY <2>1, <2>2, AppendedFacts
  <2> HIDE DEF after, old
  <2> QED
    BY <2>1, <2>2, <2>3 DEF after
<1> QED
  BY <1>2, <1>3

(* A path that ignore was given is ignored, with what is below, if no      *)
(* anchored pattern is in the way                                          *)
LEMMA TargetHolds ==
  ASSUME ListTypeOK(tlist), NEW t \in AllPaths,
         NEW after, after = Appended(tlist, TargetLines(<<t>>))
  PROVE  /\ Ignored(after, t)
         /\ \/ Matching(after, t).start \/ Matching(after, t).end
            \/ \A f \in Below(t) : Ignored(after, f)
<1>1. \A f \in Below(t) : f \in Seq(Names) /\ Begins(t, f)
  BY FilesArePaths, PathFacts DEF Below
<1>2. TargetLines(<<t>>) \in Seq(Patterns) /\ (Ignored(tlist, t) \/ TargetLines(<<t>>) = <<Literal(t)>>)
  BY TargetLinesFacts
<1>3. ListTypeOK(after)
  BY <1>2, AppendedFacts
<1>4. CASE TargetLines(<<t>>) = <<Literal(t)>>
  <2>1. 1 \in DOMAIN <<Literal(t)>> /\ <<Literal(t)>>[1] = Literal(t)
    OBVIOUS
  <2>2. PICK i \in Entries(after) : after.lines[i].pat = Literal(t)
    BY <1>2, <1>4, <2>1, AppendedFacts
  <2>3. ASSUME NEW f \in Seq(Names), Begins(t, f)
        PROVE  Ignored(after, f)
    BY <1>3, <2>2, <2>3, LiteralReaches, MatchingFacts
  <2>4. t \in Seq(Names) /\ Begins(t, t)
    <3>1. t \in Seq(Names)
      BY PathFacts
    <3> QED
      BY <3>1 DEF Begins
  <2> QED
    BY <1>1, <2>3, <2>4
<1>5. CASE TargetLines(<<t>>) # <<Literal(t)>>
  <2>1. Ignored(tlist, t) /\ TargetLines(<<t>>) = <<>>
    BY <1>2, <1>5, TargetLinesFacts DEF TargetLines
  <2>2. after = tlist
    BY <1>2, <2>1, AppendedFacts
  <2>3. PICK i \in Entries(after) : /\ MatchesComponents(after.lines[i].pat, t)
                                   /\ Matching(after, t) = after.lines[i].pat
    BY <1>3, <2>1, <2>2, MatchingFacts
  <2>4. after.lines[i].pat \in Patterns
    BY <1>3, ListFacts
  <2>5. ASSUME ~after.lines[i].pat.start, ~after.lines[i].pat.end, NEW f \in Below(t)
        PROVE  Ignored(after, f)
    <3>1. MatchesComponents(after.lines[i].pat, f) /\ Found(after.lines[i].pat, f)
      BY <1>1, <2>3, <2>4, <2>5, UnanchoredReaches
    <3> QED
      BY <1>3, <3>1, MatchingFacts
  <2> QED
    BY <2>1, <2>2, <2>3, <2>5
<1> QED
  BY <1>4, <1>5

-----------------------------------------------------------------------------
(* The steps                                                               *)

(* ignore: both lists keep their form, what was named is ignored, nothing  *)
(* else is, and no entry is lost but an old one of the source              *)
LEMMA IgnoreStep ==
  ASSUME IgnoreTypeOK, NEW t \in AllPaths, NEW ts \in {<<>>, <<t>>}, NEW ss \in {<<>>, <<t>>},
         IgnorePaths(ts, ss)
  PROVE  /\ ListTypeOK(tlist') /\ ListTypeOK(slist')
         /\ last'.op = "ignore" /\ last'.target = ts /\ last'.source = ss
         /\ tlist' = Appended(tlist, TargetLines(ts))
         /\ Range(tlist.lines) \subseteq Range(tlist'.lines)
         /\ last'.ok /\ ss = <<t>> => MatchingSource(slist', t) # NoPattern
         /\ \A l \in Range(slist.lines) \ Range(slist'.lines) :
              ~l.noted /\ ss = <<t>> /\ MatchingSource(slist', t) # NoPattern
<1>1. ListTypeOK(tlist) /\ ListTypeOK(slist)
  BY DEF IgnoreTypeOK
<1>2. tlist' = Appended(tlist, TargetLines(ts)) /\ last'.op = "ignore" /\ last'.target = ts /\ last'.source = ss
  BY DEF IgnorePaths, Did
<1>3. ListTypeOK(tlist') /\ Range(tlist.lines) \subseteq Range(tlist'.lines)
  BY <1>1, <1>2, TargetLinesFacts, AppendedFacts
<1>4. CASE ss = <<>>
  <2>1. slist' = Appended(slist, <<>>)
    BY <1>4 DEF IgnorePaths
  <2>2. <<>> \in Seq(Patterns) /\ <<>> # <<t>>
    OBVIOUS
  <2>3. slist' = slist
    BY <1>1, <2>1, <2>2, AppendedFacts
  <2> QED
    BY <1>1, <1>2, <1>3, <1>4, <2>2, <2>3
<1>5. CASE ss = <<t>>
  <2>1. ss # <<>> /\ ss[1] = t
    BY <1>5
  <2>2. \/ slist' = Appended(Checked(t), SourceLines(t))
        \/ slist' = Checked(t) /\ SourceLines(t) # <<>> /\ last'.ok = FALSE
    BY <2>1 DEF IgnorePaths, Did
  <2>3. CASE slist' = Appended(Checked(t), SourceLines(t))
    BY <1>1, <1>2, <1>3, <1>5, <2>3, SourceFacts
  <2>4. CASE slist' = Checked(t) /\ SourceLines(t) # <<>> /\ last'.ok = FALSE
    <3>1. slist' = slist
      BY <1>1, <2>4, SourceFacts
    <3> QED
      BY <1>1, <1>2, <1>3, <2>4, <3>1
  <2> QED
    BY <2>2, <2>3, <2>4
<1> QED
  BY <1>4, <1>5

(* add and pull: only entries that match a file below the root go          *)
LEMMA CopyStep ==
  ASSUME IgnoreTypeOK, NEW op, NEW root, NEW walk, walk \subseteq Below(root), NEW force,
         Copy(op, root, walk, force)
  PROVE  /\ ListTypeOK(tlist')
         /\ last'.op = op /\ last'.target = <<root>>
         /\ \A l \in Range(tlist.lines) \ Range(tlist'.lines) :
              ~l.noted /\ \E f \in Below(root) : MatchesComponents(l.pat, f)
<1> DEFINE patterns == {Matching(tlist, f) : f \in {f \in walk : Ignored(tlist, f)}}
<1>1. ListTypeOK(tlist)
  BY DEF IgnoreTypeOK
<1>2. last'.op = op /\ last'.target = <<root>>
  BY DEF Copy, Did
<1>3. tlist' = tlist \/ tlist' = Pruned(tlist, patterns)
  BY DEF Copy
<1>4. \A p \in patterns : \E f \in Below(root) : MatchesComponents(p, f)
  BY <1>1, MatchingFacts
<1> HIDE DEF patterns
<1>5. CASE tlist' = tlist
  BY <1>1, <1>2, <1>5
<1>6. CASE tlist' = Pruned(tlist, patterns)
  BY <1>1, <1>2, <1>4, <1>6, PrunedFacts
<1> QED
  BY <1>3, <1>5, <1>6

LEMMA WalkFacts ==
  ASSUME NEW root
  PROVE  AddWalk(tlist, root) \subseteq Below(root) /\ PullWalk(root) \subseteq Below(root)
BY DEF AddWalk, PullWalk

(* An edit adds a line at the end                                          *)
LEMMA EditFacts ==
  ASSUME NEW list, ListTypeOK(list), NEW l \in Lines,
         NEW after \in [lines : {Append(list.lines, l)}, open : BOOLEAN]
  PROVE  ListTypeOK(after) /\ Range(list.lines) \subseteq Range(after.lines)
<1>1. list.lines \in Seq(Lines)
  BY ListFacts
<1>2. Append(list.lines, l) \in Seq(Lines) /\ Append(list.lines, l) # <<>>
  BY <1>1
<1>3. Range(Append(list.lines, l)) = Range(list.lines) \cup {l}
  BY <1>1, AppendRange
<1> QED
  BY <1>2, <1>3 DEF ListTypeOK, Lines

(* What the other steps do to the lists                                    *)
OtherStep ==
  /\ ListTypeOK(tlist') /\ slist' = slist
  /\ last'.op # "ignore"
  /\ \A l \in Range(tlist.lines) \ Range(tlist'.lines) :
       /\ ~l.noted
       /\ \/ /\ last'.op = "remove"
             /\ \A k \in Range(tlist.lines) \ Range(tlist'.lines) : k = l
          \/ last'.op \in {"add", "pull"} /\ \E f \in Below(last'.target[1]) : MatchesComponents(l.pat, f)

(* The user's edit of the source list                                      *)
SourceEdit ==
  /\ tlist' = tlist /\ ListTypeOK(slist')
  /\ last'.op # "ignore"
  /\ Range(slist.lines) \subseteq Range(slist'.lines)

LEMMA StepCases ==
  ASSUME IgnoreTypeOK, [Next]_vars
  PROVE  \/ UNCHANGED vars
         \/ \E t \in AllPaths : \E ts, ss \in {<<>>, <<t>>} : IgnorePaths(ts, ss)
         \/ OtherStep
         \/ SourceEdit
<1>1. ListTypeOK(tlist) /\ ListTypeOK(slist)
  BY DEF IgnoreTypeOK
<1>2. ASSUME NEW p \in UserPatterns, IgnorePattern(p)
      PROVE  OtherStep
  <2>1. <<p>> \in Seq(Patterns)
    BY DEF Patterns
  <2>2. tlist' = Appended(tlist, <<p>>) /\ slist' = slist /\ last'.op = "pattern"
    BY <1>2 DEF IgnorePattern, Did
  <2> QED
    BY <1>1, <2>1, <2>2, AppendedFacts DEF OtherStep
<1>3. ASSUME NEW p, RemoveRecord(p)
      PROVE  OtherStep
  <2>1. tlist' = Pruned(tlist, {p}) /\ slist' = slist /\ last'.op = "remove"
    BY <1>3 DEF RemoveRecord, Did
  <2>2. \A l \in Range(tlist.lines) \ Range(tlist'.lines) : l = Line(p)
    <3>1. \A l \in Range(tlist.lines) \ Range(tlist'.lines) : ~l.noted /\ l.pat = p /\ l \in Lines
      <4>1. tlist.lines \in Seq(Lines)
        BY <1>1, ListFacts
      <4>2. Range(tlist.lines) \subseteq Lines
        BY <4>1 DEF Range
      <4> QED
        BY <1>1, <2>1, <4>2, PrunedFacts
    <3> QED
      BY <3>1 DEF Lines, Line
  <2> QED
    BY <1>1, <2>1, <2>2, PrunedFacts DEF OtherStep
<1>4. ASSUME NEW root, NEW force, Add(root, force) \/ Pull(root, force)
      PROVE  OtherStep
  <2>1. CASE Add(root, force)
    <3>1. Copy("add", root, AddWalk(tlist, root), force) /\ slist' = slist
      BY <2>1 DEF Add
    <3>2. /\ ListTypeOK(tlist') /\ last'.op = "add" /\ last'.target = <<root>>
          /\ \A l \in Range(tlist.lines) \ Range(tlist'.lines) :
               ~l.noted /\ \E f \in Below(root) : MatchesComponents(l.pat, f)
      BY <3>1, CopyStep, WalkFacts
    <3>3. last'.target[1] = root
      BY <3>2
    <3> QED
      BY <3>1, <3>2, <3>3 DEF OtherStep
  <2>2. CASE Pull(root, force)
    <3>1. Copy("pull", root, PullWalk(root), force) /\ slist' = slist
      BY <2>2 DEF Pull
    <3>2. /\ ListTypeOK(tlist') /\ last'.op = "pull" /\ last'.target = <<root>>
          /\ \A l \in Range(tlist.lines) \ Range(tlist'.lines) :
               ~l.noted /\ \E f \in Below(root) : MatchesComponents(l.pat, f)
      BY <3>1, CopyStep, WalkFacts
    <3>3. last'.target[1] = root
      BY <3>2
    <3> QED
      BY <3>1, <3>2, <3>3 DEF OtherStep
  <2> QED
    BY <1>4, <2>1, <2>2
<1>5. ASSUME NEW l \in UserLines, EditTargetList(l)
      PROVE  OtherStep
  <2>1. l \in Lines
    <3>1. UserPatterns \subseteq Patterns
      BY DEF Patterns
    <3>2. CASE l = Comment
      BY <3>2 DEF Comment, Lines
    <3>3. CASE l \in [pat : UserPatterns, noted : BOOLEAN]
      BY <3>1, <3>3 DEF Lines
    <3> QED
      BY <3>2, <3>3 DEF UserLines
  <2>2. tlist' = [lines |-> Append(tlist.lines, l), open |-> TRUE] /\ slist' = slist /\ last'.op = "edit"
    BY <1>5 DEF EditTargetList, Did
  <2>3. tlist' \in [lines : {Append(tlist.lines, l)}, open : BOOLEAN]
    BY <2>2
  <2>4. ListTypeOK(tlist') /\ Range(tlist.lines) \subseteq Range(tlist'.lines)
    BY <1>1, <2>1, <2>3, EditFacts
  <2> QED
    BY <2>2, <2>4 DEF OtherStep
<1>6. ASSUME NEW s \in Files, EditSourceList(s)
      PROVE  SourceEdit
  <2>1. Line(Literal(SourceOf(s))) \in Lines
    BY FilesArePaths, LineFacts DEF Patterns
  <2>2. slist' = [lines |-> Append(slist.lines, Line(Literal(SourceOf(s)))), open |-> FALSE] /\ tlist' = tlist /\ last'.op = "edit"
    BY <1>6 DEF EditSourceList, Did
  <2>3. slist' \in [lines : {Append(slist.lines, Line(Literal(SourceOf(s))))}, open : BOOLEAN]
    BY <2>2
  <2>4. ListTypeOK(slist') /\ Range(slist.lines) \subseteq Range(slist'.lines)
    BY <1>1, <2>1, <2>3, EditFacts
  <2> QED
    BY <2>2, <2>4 DEF SourceEdit
<1>7. ASSUME NEW t \in AllPaths, IgnorePaths(<<t>>, <<>>) \/ IgnorePaths(<<>>, <<t>>) \/ IgnorePaths(<<t>>, <<t>>)
      PROVE  \E ts, ss \in {<<>>, <<t>>} : IgnorePaths(ts, ss)
  BY <1>7
<1> QED
  BY <1>2, <1>3, <1>4, <1>5, <1>6, <1>7 DEF Next, Rest

LEMMA CountFacts ==
  ASSUME IgnoreTypeOK, [Next]_vars
  PROVE  last'.ok \in BOOLEAN /\ acts' \in 0..MaxActs
<1>1. last.ok \in BOOLEAN /\ acts \in 0..MaxActs /\ MaxActs \in Nat
  BY IgnoreAssumption DEF IgnoreTypeOK
<1>2. ASSUME NEW op, NEW target, NEW source, NEW ok \in BOOLEAN, Did(op, target, source, ok)
      PROVE  last'.ok \in BOOLEAN /\ acts' \in 0..MaxActs
  BY <1>1, <1>2 DEF Did
<1>3. UNCHANGED vars => last' = last /\ acts' = acts
  BY DEF vars
<1> QED
  BY <1>1, <1>2, <1>3
     DEF Next, Rest, IgnorePaths, IgnorePattern, RemoveRecord, Add, Pull, Copy, EditTargetList, EditSourceList

-----------------------------------------------------------------------------
(* The results                                                             *)

LEMMA TypeInit == Init => IgnoreTypeOK
<1> SUFFICES ASSUME Init
             PROVE  IgnoreTypeOK
  OBVIOUS
<1>1. ListTypeOK(NoList)
  BY DEF ListTypeOK, NoList
<1> QED
  BY <1>1, IgnoreAssumption DEF Init, IgnoreTypeOK

LEMMA TypeStep == IgnoreTypeOK /\ [Next]_vars => IgnoreTypeOK'
<1> SUFFICES ASSUME IgnoreTypeOK, [Next]_vars
             PROVE  IgnoreTypeOK'
  OBVIOUS
<1>1. ListTypeOK(tlist) /\ ListTypeOK(slist)
  BY DEF IgnoreTypeOK
<1>2. CASE UNCHANGED vars
  BY <1>2 DEF vars, IgnoreTypeOK
<1>3. ASSUME NEW t \in AllPaths, NEW ts \in {<<>>, <<t>>}, NEW ss \in {<<>>, <<t>>}, IgnorePaths(ts, ss)
      PROVE  ListTypeOK(tlist') /\ ListTypeOK(slist')
  BY <1>3, IgnoreStep
<1>4. OtherStep \/ SourceEdit => ListTypeOK(tlist') /\ ListTypeOK(slist')
  BY <1>1 DEF OtherStep, SourceEdit
<1>5. CASE ~UNCHANGED vars
  <2>1. ListTypeOK(tlist') /\ ListTypeOK(slist')
    BY <1>3, <1>4, <1>5, StepCases
  <2> QED
    BY <2>1, CountFacts DEF IgnoreTypeOK
<1> QED
  BY <1>2, <1>5

(* The lists are sequences of well-formed lines; one that ends in an open  *)
(* line is not empty.                                                      *)
THEOREM TypeCorrect == Spec => []IgnoreTypeOK
<1> QED
  BY TypeInit, TypeStep, PTL DEF Spec

LEMMA HoldsStep == IgnoreTypeOK /\ IgnoreHolds /\ [Next]_vars => IgnoreHolds'
<1> SUFFICES ASSUME IgnoreTypeOK, IgnoreHolds, [Next]_vars
             PROVE  IgnoreHolds'
  OBVIOUS
<1>1. CASE UNCHANGED vars
  BY <1>1 DEF vars, IgnoreHolds
<1>2. ASSUME NEW t \in AllPaths, NEW ts \in {<<>>, <<t>>}, NEW ss \in {<<>>, <<t>>}, IgnorePaths(ts, ss)
      PROVE  IgnoreHolds'
  <2>1. ListTypeOK(tlist)
    BY DEF IgnoreTypeOK
  <2>2. /\ last'.target = ts /\ last'.source = ss /\ tlist' = Appended(tlist, TargetLines(ts))
        /\ last'.ok /\ ss = <<t>> => MatchingSource(slist', t) # NoPattern
    BY <1>2, IgnoreStep
  <2>3. /\ \A i \in DOMAIN ts : ts = <<t>> /\ ts[i] = t
        /\ \A i \in DOMAIN ss : ss = <<t>> /\ ss[i] = t
    OBVIOUS
  <2>4. ts = <<t>> =>
          /\ Matching(tlist', t) # NoPattern
          /\ \/ Matching(tlist', t).start \/ Matching(tlist', t).end
             \/ \A f \in Below(t) : Ignored(tlist', f)
    BY <2>1, <2>2, TargetHolds DEF Ignored
  <2> QED
    BY <2>2, <2>3, <2>4 DEF IgnoreHolds
<1>3. OtherStep \/ SourceEdit => last'.op # "ignore"
  BY DEF OtherStep, SourceEdit
<1>4. CASE last'.op # "ignore"
  BY <1>4 DEF IgnoreHolds
<1> QED
  BY <1>1, <1>2, <1>3, <1>4, StepCases

(* Right after ignore succeeded, what it named is ignored, with everything *)
(* below, whatever the lists held - of any length, and for any patterns.   *)
THEOREM IgnoredHolds == Spec => []IgnoreHolds
<1>1. Init => IgnoreHolds
  BY DEF Init, IgnoreHolds
<1> QED
  BY <1>1, TypeInit, TypeStep, HoldsStep, PTL DEF Spec

(* ignore makes nothing ignored but what it was given and what older       *)
(* entries name.                                                           *)
THEOREM IgnoredIsExact == Spec => IgnoreIsExact
<1> DEFINE Exact == last'.op = "ignore" /\ last'.target # <<>> =>
             \A f \in Files : Ignored(tlist', f) /\ ~Ignored(tlist, f) =>
               \/ \E i \in DOMAIN last'.target : Begins(last'.target[i], f)
               \/ \E i \in Entries(tlist) : MatchesComponents(tlist.lines[i].pat, f)
<1>1. IgnoreTypeOK /\ [Next]_vars => [Exact]_vars
  <2> SUFFICES ASSUME IgnoreTypeOK, Next, ~UNCHANGED vars
               PROVE  Exact
    OBVIOUS
  <2>1. ASSUME NEW t \in AllPaths, NEW ts \in {<<>>, <<t>>}, NEW ss \in {<<>>, <<t>>}, IgnorePaths(ts, ss),
               ts # <<>>, NEW f \in Files, Ignored(tlist', f)
        PROVE  \/ \E i \in DOMAIN last'.target : Begins(last'.target[i], f)
               \/ \E i \in Entries(tlist) : MatchesComponents(tlist.lines[i].pat, f)
    <3>1. ListTypeOK(tlist) /\ f \in Seq(Names)
      BY FilesArePaths, PathFacts DEF IgnoreTypeOK
    <3>2. ts = <<t>> /\ 1 \in DOMAIN ts /\ ts[1] = t
      BY <2>1
    <3>3. last'.target = ts /\ tlist' = Appended(tlist, TargetLines(ts)) /\ ListTypeOK(tlist')
      BY <2>1, IgnoreStep
    <3>4. PICK i \in Entries(tlist') : MatchesComponents(tlist'.lines[i].pat, f)
      BY <2>1, <3>3, MatchingFacts
    <3>5. /\ TargetLines(ts) \in Seq(Patterns)
          /\ \A k \in DOMAIN TargetLines(ts) : TargetLines(ts)[k] = Literal(t)
      BY <3>1, TargetLinesFacts
    <3>6. \/ i \in Entries(tlist) /\ tlist'.lines[i] = tlist.lines[i]
          \/ tlist'.lines[i] = Line(Literal(t))
      BY <3>1, <3>3, <3>5, AppendedFacts
    <3>7. Line(Literal(t)).pat = Literal(t)
      BY DEF Line
    <3>8. CASE tlist'.lines[i] = Line(Literal(t))
      <4>1. Begins(t, f)
        BY <3>1, <3>4, <3>7, <3>8, LiteralIsExact
      <4> QED
        BY <3>2, <3>3, <4>1
    <3> QED
      BY <3>4, <3>6, <3>8
  <2>2. ASSUME NEW t \in AllPaths, NEW ts \in {<<>>, <<t>>}, NEW ss \in {<<>>, <<t>>}, IgnorePaths(ts, ss)
        PROVE  Exact
    <3>1. last'.target = ts
      BY <2>2, IgnoreStep
    <3> QED
      BY <2>1, <2>2, <3>1
  <2>3. OtherStep \/ SourceEdit => Exact
    BY DEF OtherStep, SourceEdit
  <2> HIDE DEF Exact
  <2> QED
    BY <2>2, <2>3, StepCases
<1> QED
  BY <1>1, TypeCorrect, PTL DEF Spec, IgnoreIsExact

(* No command loses an entry it was not asked to drop, and none loses a    *)
(* note or a comment.                                                      *)
THEOREM NoEntryLost == Spec => EntriesKept
<1> DEFINE TargetKept ==
             \A l \in Range(tlist.lines) \ Range(tlist'.lines) :
               /\ ~l.noted
               /\ \/ last'.op = "remove" /\ \A k \in Range(tlist.lines) \ Range(tlist'.lines) : k = l
                  \/ last'.op \in {"add", "pull"} /\ \E f \in Below(last'.target[1]) : MatchesComponents(l.pat, f)
           SourceKept ==
             \A l \in Range(slist.lines) \ Range(slist'.lines) :
               /\ ~l.noted /\ last'.op = "ignore" /\ last'.source # <<>>
               /\ Ignored(slist', SourceOf(last'.source[1])) \/ Ignored(slist', Dotless(SourceOf(last'.source[1])))
<1>1. IgnoreTypeOK /\ [Next]_vars => [TargetKept /\ SourceKept]_vars
  <2> SUFFICES ASSUME IgnoreTypeOK, Next, ~UNCHANGED vars
               PROVE  TargetKept /\ SourceKept
    OBVIOUS
  <2>1. ASSUME NEW t \in AllPaths, NEW ts \in {<<>>, <<t>>}, NEW ss \in {<<>>, <<t>>}, IgnorePaths(ts, ss)
        PROVE  TargetKept /\ SourceKept
    <3>1. Range(tlist.lines) \subseteq Range(tlist'.lines) /\ last'.op = "ignore" /\ last'.source = ss
      BY <2>1, IgnoreStep
    <3>2. ASSUME NEW l \in Range(slist.lines) \ Range(slist'.lines)
          PROVE  ~l.noted /\ ss = <<t>> /\ MatchingSource(slist', t) # NoPattern
      BY <2>1, <3>2, IgnoreStep
    <3>3. MatchingSource(slist', t) # NoPattern => Ignored(slist', SourceOf(t)) \/ Ignored(slist', Dotless(SourceOf(t)))
      BY DEF MatchingSource, Ignored
    <3>4. <<t>> # <<>> /\ <<t>>[1] = t
      OBVIOUS
    <3> QED
      BY <3>1, <3>2, <3>3, <3>4
  <2>2. OtherStep \/ SourceEdit => TargetKept /\ SourceKept
    BY DEF OtherStep, SourceEdit
  <2> HIDE DEF TargetKept, SourceKept
  <2> QED
    BY <2>1, <2>2, StepCases
<1> QED
  BY <1>1, TypeCorrect, PTL DEF Spec, EntriesKept
=============================================================================
